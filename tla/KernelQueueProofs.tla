-------------------------- MODULE KernelQueueProofs --------------------------
(***************************************************************************)
(* For every length of the queue, set of tasks and priorities, and width   *)
(* of the tick count: no wake-up is lost, a bounded call does not fail     *)
(* before its time is over, and a blocked task is woken when it is.        *)
(***************************************************************************)
EXTENDS KernelQueue, FiniteSetTheorems, TLAPS

-----------------------------------------------------------------------------
(* Ticks.                                                                  *)

LEMMA RemainderUnique ==
    ASSUME NEW n \in Int, NEW m \in Nat \ {0}, NEW q \in Int, NEW r \in 0..(m - 1),
           n = (m * q) + r
    PROVE  n % m = r
  OBVIOUS

(* What the kernel takes for the time from `at' to `now'.                  *)
LEMMA TicksBetween ==
    ASSUME NEW now \in Tick, NEW at \in Tick
    PROVE  (now - at) % Ticks = IF now >= at THEN now - at ELSE now - at + Ticks
<1>0. Ticks \in Nat \ {0}
  BY QueueAssumption
<1>1. CASE now >= at
  <2>1. now - at \in 0..(Ticks - 1) /\ now - at = (Ticks * 0) + (now - at)
    BY <1>0, <1>1 DEF Tick
  <2> QED
    BY <1>0, <1>1, <2>1, RemainderUnique
<1>2. CASE ~(now >= at)
  <2>1. now - at + Ticks \in 0..(Ticks - 1) /\ now - at = (Ticks * (-1)) + (now - at + Ticks)
    BY <1>0, <1>2 DEF Tick
  <2>2. now - at \in Int
    BY <1>0 DEF Tick
  <2> QED
    BY <1>0, <1>2, <2>1, <2>2, RemainderUnique
<1> QED
  BY <1>1, <1>2

(* The tick count some ticks, less than a round, from now.                 *)
LEMMA TicksAhead ==
    ASSUME NEW now \in Tick, NEW n \in 0..Ticks
    PROVE  (now + n) % Ticks = IF now + n < Ticks THEN now + n ELSE now + n - Ticks
<1>0. Ticks \in Nat \ {0}
  BY QueueAssumption
<1>1. CASE now + n < Ticks
  <2>1. now + n \in 0..(Ticks - 1) /\ now + n = (Ticks * 0) + (now + n)
    BY <1>0, <1>1 DEF Tick
  <2> QED
    BY <1>0, <1>1, <2>1, RemainderUnique
<1>2. CASE ~(now + n < Ticks)
  <2>1. now + n - Ticks \in 0..(Ticks - 1) /\ now + n = (Ticks * 1) + (now + n - Ticks)
    BY <1>0, <1>2 DEF Tick
  <2>2. now + n \in Int
    BY <1>0 DEF Tick
  <2> QED
    BY <1>0, <1>2, <2>1, <2>2, RemainderUnique
<1> QED
  BY <1>1, <1>2

LEMMA NextTick ==
    ASSUME NEW now \in Tick
    PROVE  /\ (now + 1) % Ticks = IF now + 1 < Ticks THEN now + 1 ELSE 0
           /\ (now + 1) % Ticks \in Tick
<1>1. Ticks \in Nat \ {0} /\ 1 \in 0..Ticks
  BY QueueAssumption
<1>2. (now + 1) % Ticks = IF now + 1 < Ticks THEN now + 1 ELSE now + 1 - Ticks
  BY <1>1, TicksAhead
<1> QED
  BY <1>1, <1>2 DEF Tick

-----------------------------------------------------------------------------
(* Types.                                                                  *)

EntryRecord == [at : Tick, overflowed : BOOLEAN]
Item == {<<m>> : m \in Message} \cup {<<>>}
CallRecord == [op : {"none", "send", "receive"}, item : Item,
               wait : Tick, entry : {<<>>} \cup {<<e>> : e \in EntryRecord}]
Step == {"out", "try", "woken", "suspend", "blocked"}
List == {"ready", "delayed", "overflow", "suspended"}

(* A call that goes on with a bounded wait has noted the time.             *)
Noted(t) == pc[t] # "out" => call[t].wait = portMAX_DELAY \/ call[t].entry # <<>>

(* It has been waiting at least as long as the kernel takes it to have     *)
(* been, which is what is left of the time it asked for.                   *)
Since(t) == call[t].wait - left[t]
AtLeast(t) == call[t].entry # <<>> =>
    /\ Since(t) >= 0
    /\ IF call[t].entry[1].overflowed
       THEN call[t].entry[1].at + Since(t) >= Ticks + xTickCount
       ELSE /\ call[t].entry[1].at + Since(t) >= xTickCount
            /\ xTickCount >= call[t].entry[1].at

IInv == TypeOK /\ \A t \in Task : Noted(t) /\ AtLeast(t)

LEMMA QueueFacts ==
    /\ Ticks \in Nat /\ Ticks > 0 /\ uxLength \in Nat /\ uxLength > 0
    /\ portMAX_DELAY = Ticks - 1 /\ portMAX_DELAY \in Tick /\ 0 \in Tick
    /\ Tick \subseteq Int
  BY QueueAssumption DEF portMAX_DELAY, Tick

LEMMA Types ==
    ASSUME TypeOK
    PROVE  /\ items \in [Place -> Item] /\ pcWriteTo \in Place /\ pcReadFrom \in Place
           /\ uxMessagesWaiting \in 0..uxLength /\ xTickCount \in Tick
           /\ pc \in [Task -> Step] /\ call \in [Task -> CallRecord]
           /\ list \in [Task -> List] /\ wakeAt \in [Task -> Tick] /\ left \in [Task -> Int]
  BY DEF TypeOK, Item, EntryRecord, CallRecord, Step, List

LEMMA TypesSuffice ==
    ASSUME items' \in [Place -> Item], pcWriteTo' \in Place, pcReadFrom' \in Place,
           uxMessagesWaiting' \in 0..uxLength, xTickCount' \in Tick,
           pc' \in [Task -> Step], call' \in [Task -> CallRecord],
           list' \in [Task -> List], wakeAt' \in [Task -> Tick], left' \in [Task -> Int]
    PROVE  TypeOK'
  BY DEF TypeOK, Item, EntryRecord, CallRecord, Step, List

LEMMA EntryFacts ==
    ASSUME NEW c \in CallRecord, c.entry # <<>>
    PROVE  /\ c.entry[1] \in EntryRecord /\ c.entry[1].at \in Tick
           /\ c.entry[1].overflowed \in BOOLEAN
  BY DEF CallRecord, EntryRecord

LEMMA NowFacts ==
    ASSUME xTickCount \in Tick
    PROVE  /\ Now \in {<<e>> : e \in EntryRecord} /\ Now # <<>>
           /\ Now[1].at = xTickCount /\ Now[1].overflowed = FALSE
  BY DEF Now, Entry, EntryRecord

(* A woken task was blocked in the operation it waits in, at most one is   *)
(* woken, and one is if there is any.                                      *)
LEMMA WakesFacts ==
    ASSUME NEW op, NEW W \in Wakes(op)
    PROVE  /\ W \subseteq Blocked(op)
           /\ Blocked(op) # {} => \E u \in Blocked(op) : W = {u}
  BY DEF Wakes

-----------------------------------------------------------------------------
(* What a step does to the tasks.                                          *)

LEMMA GoFacts ==
    ASSUME TypeOK, NEW t \in Task, NEW to \in Step, NEW W \in SUBSET Task, Go(t, to, W)
    PROVE  /\ pc' \in [Task -> Step] /\ list' \in [Task -> List] /\ wakeAt' \in [Task -> Tick]
           /\ pc'[t] = to
           /\ \A u \in Task \ {t} : pc'[u] = IF u \in W THEN "woken" ELSE pc[u]
           /\ \A u \in Task : u \notin W => list'[u] = list[u] /\ wakeAt'[u] = wakeAt[u]
  BY Types, QueueFacts DEF Go, Step, List

LEMMA ReturnFacts ==
    ASSUME TypeOK, NEW t \in Task, NEW W \in SUBSET Task, Return(t, W)
    PROVE  /\ Go(t, "out", W) /\ call' \in [Task -> CallRecord] /\ left' \in [Task -> Int]
           /\ call'[t] = NoCall /\ left'[t] = 0
           /\ \A u \in Task \ {t} : call'[u] = call[u] /\ left'[u] = left[u]
  BY Types, QueueFacts DEF Return, NoCall, CallRecord, Item

(* The clauses of one task stay when its call and the tick count do.       *)
LEMMA OtherTask ==
    ASSUME NEW u \in Task, xTickCount' = xTickCount, call'[u] = call[u], left'[u] = left[u],
           Noted(u), AtLeast(u), pc'[u] # "out" => pc[u] # "out"
    PROVE  Noted(u)' /\ AtLeast(u)'
  BY DEF Noted, AtLeast, Since

LEMMA PlaceFacts ==
    ASSUME NEW p \in Place
    PROVE  After(p) \in Place
  BY QueueFacts DEF After, Place

LEMMA ReturnIInv ==
    ASSUME IInv, NEW t \in Task, NEW W \in SUBSET Task, Return(t, W), xTickCount' = xTickCount,
           \A u \in W : pc[u] # "out",
           items' \in [Place -> Item], pcWriteTo' \in Place, pcReadFrom' \in Place,
           uxMessagesWaiting' \in 0..uxLength
    PROVE  IInv'
<1>1. /\ Go(t, "out", W) /\ call' \in [Task -> CallRecord] /\ left' \in [Task -> Int]
      /\ call'[t] = NoCall /\ left'[t] = 0
      /\ \A u \in Task \ {t} : call'[u] = call[u] /\ left'[u] = left[u]
  BY ReturnFacts DEF IInv
<1>2. /\ pc' \in [Task -> Step] /\ list' \in [Task -> List] /\ wakeAt' \in [Task -> Tick]
      /\ pc'[t] = "out"
      /\ \A u \in Task \ {t} : pc'[u] = IF u \in W THEN "woken" ELSE pc[u]
  BY <1>1, GoFacts DEF IInv, Step
<1>3. xTickCount' \in Tick
  BY Types DEF IInv
<1>4. TypeOK'
  BY <1>1, <1>2, <1>3, TypesSuffice
<1>5. ASSUME NEW u \in Task PROVE Noted(u)' /\ AtLeast(u)'
  <2>1. CASE u = t
    BY <1>1, <1>2, <2>1 DEF Noted, AtLeast, NoCall
  <2>2. CASE u # t
    BY <1>1, <1>2, <2>2, OtherTask DEF IInv
  <2> QED
    BY <2>1, <2>2
<1> QED
  BY <1>4, <1>5 DEF IInv

(* Fails.                                                                  *)
LEMMA FailsIInv ==
    ASSUME IInv, NEW t \in Task, NEW c \in CallRecord, Fails(t, c),
           \/ c.entry = <<>>
           \/ c = call[t]
    PROVE  IInv'
<1>1. /\ TypeOK /\ items' = items /\ pcWriteTo' = pcWriteTo /\ pcReadFrom' = pcReadFrom
      /\ uxMessagesWaiting' = uxMessagesWaiting /\ xTickCount' = xTickCount
  BY DEF IInv, Fails, store
<1>2. CASE c.wait = 0
  <2>1. Return(t, {})
    BY <1>2 DEF Fails
  <2> QED
    BY <1>1, <2>1, Types, ReturnIInv
<1>3. CASE c.wait # 0
  <2>1. /\ Go(t, "suspend", {})
        /\ IF c.entry = <<>> /\ c.wait # portMAX_DELAY
           THEN /\ call' = [call EXCEPT ![t] = [c EXCEPT !.entry = Now]]
                /\ left' = [left EXCEPT ![t] = c.wait]
           ELSE call' = [call EXCEPT ![t] = c] /\ UNCHANGED left
    BY <1>3 DEF Fails
  <2>2. /\ pc' \in [Task -> Step] /\ list' \in [Task -> List] /\ wakeAt' \in [Task -> Tick]
        /\ pc'[t] = "suspend"
        /\ \A u \in Task \ {t} : pc'[u] = pc[u]
    BY <1>1, <2>1, GoFacts DEF Step
  <2>3. c.wait \in Tick /\ c.wait \in Int /\ xTickCount \in Tick /\ xTickCount \in Int
    <3>1. c.wait \in Tick
      BY DEF CallRecord
    <3>2. xTickCount \in Tick
      BY <1>1, Types
    <3> QED
      BY <3>1, <3>2, QueueFacts
  <2>4. [c EXCEPT !.entry = Now] \in CallRecord
    BY <2>3, NowFacts DEF CallRecord
  <2>5. /\ call' \in [Task -> CallRecord] /\ left' \in [Task -> Int]
        /\ \A u \in Task \ {t} : call'[u] = call[u] /\ left'[u] = left[u]
    BY <1>1, <2>1, <2>3, <2>4, Types
  <2>6. TypeOK'
    BY <1>1, <2>2, <2>5, Types, TypesSuffice
  <2>7. Noted(t)' /\ AtLeast(t)'
    <3>1. CASE c.entry = <<>> /\ c.wait # portMAX_DELAY
      <4>1. call'[t].wait = c.wait /\ call'[t].entry = Now /\ left'[t] = c.wait
        BY <1>1, <2>1, <3>1, Types DEF CallRecord
      <4>2. Now # <<>> /\ Now[1].at = xTickCount /\ Now[1].overflowed = FALSE
        BY <2>3, NowFacts
      <4>3. Since(t)' = 0
        BY <2>3, <4>1 DEF Since
      <4> QED
        BY <1>1, <2>3, <4>1, <4>2, <4>3 DEF Noted, AtLeast
    <3>2. CASE c.entry = <<>> /\ c.wait = portMAX_DELAY
      <4>1. call'[t] = c
        BY <1>1, <2>1, <3>2, Types
      <4> QED
        BY <3>2, <4>1 DEF Noted, AtLeast
    <3>3. CASE c.entry # <<>>
      <4>1. c = call[t] /\ call'[t] = call[t] /\ left'[t] = left[t]
        BY <1>1, <2>1, <3>3, Types
      <4>2. AtLeast(t)'
        BY <1>1, <4>1 DEF IInv, AtLeast, Since
      <4> QED
        BY <3>3, <4>1, <4>2 DEF Noted
    <3> QED
      BY <3>1, <3>2, <3>3
  <2>8. ASSUME NEW u \in Task, u # t PROVE Noted(u)' /\ AtLeast(u)'
    BY <1>1, <2>2, <2>5, <2>8, OtherTask DEF IInv
  <2> QED
    BY <2>6, <2>7, <2>8 DEF IInv
<1> QED
  BY <1>2, <1>3

LEMMA Successful ==
    ASSUME IInv, NEW t \in Task, NEW op, NEW W \in Wakes(op), Return(t, W),
           xTickCount' = xTickCount,
           items' \in [Place -> Item], pcWriteTo' \in Place, pcReadFrom' \in Place,
           uxMessagesWaiting' \in 0..uxLength
    PROVE  IInv'
<1>1. W \subseteq Blocked(op)
  BY WakesFacts
<1>2. W \in SUBSET Task /\ \A u \in W : pc[u] # "out"
  BY <1>1 DEF Blocked
<1> QED
  BY <1>2, ReturnIInv

LEMMA SendIInv ==
    ASSUME IInv, NEW t \in Task, NEW c \in CallRecord, TrySend(t, c),
           c.entry = <<>> \/ c = call[t]
    PROVE  IInv'
<1>1. CASE uxMessagesWaiting < uxLength /\ prvCopyDataToQueue(c.item)
  <2>1. PICK W \in Wakes("receive") : Return(t, W)
    BY <1>1, Types, QueueFacts DEF TrySend, IInv, Fails, prvCopyDataToQueue, store
  <2>2. xTickCount' = xTickCount
    BY <1>1, Types, QueueFacts DEF TrySend, Fails
  <2>3. c.item \in Item
    BY DEF CallRecord
  <2>4. /\ items' \in [Place -> Item] /\ pcWriteTo' \in Place /\ pcReadFrom' \in Place
        /\ uxMessagesWaiting' \in 0..uxLength
    BY <1>1, <2>3, Types, PlaceFacts, QueueFacts DEF prvCopyDataToQueue, IInv
  <2> QED
    BY <2>1, <2>2, <2>4, Successful
<1>2. CASE Fails(t, c)
  BY <1>2, FailsIInv
<1> QED
  BY <1>1, <1>2 DEF TrySend

LEMMA ReceiveIInv ==
    ASSUME IInv, NEW t \in Task, NEW c \in CallRecord, TryReceive(t, c),
           c.entry = <<>> \/ c = call[t]
    PROVE  IInv'
<1>1. CASE uxMessagesWaiting > 0 /\ prvCopyDataFromQueue
  <2>1. PICK W \in Wakes("send") : Return(t, W)
    BY <1>1, Types, QueueFacts DEF TryReceive, IInv, Fails, prvCopyDataFromQueue, store
  <2>2. xTickCount' = xTickCount
    BY <1>1, Types, QueueFacts DEF TryReceive, Fails
  <2>3. <<>> \in Item
    BY DEF Item
  <2>4. /\ items' \in [Place -> Item] /\ pcWriteTo' \in Place /\ pcReadFrom' \in Place
        /\ uxMessagesWaiting' \in 0..uxLength
    BY <1>1, <2>3, Types, PlaceFacts, QueueFacts DEF prvCopyDataFromQueue, IInv
  <2> QED
    BY <2>1, <2>2, <2>4, Successful
<1>2. CASE Fails(t, c)
  BY <1>2, FailsIInv
<1> QED
  BY <1>1, <1>2 DEF TryReceive

(* A new call, with any wait that is asked for.                            *)
LEMMA NewCall ==
    ASSUME NEW op \in {"send", "receive"}, NEW item \in Item, NEW wait \in Tick
    PROVE  /\ [op |-> op, item |-> item, wait |-> wait, entry |-> <<>>] \in CallRecord
           /\ [op |-> op, item |-> item, wait |-> wait, entry |-> <<>>].entry = <<>>
  BY DEF CallRecord

LEMMA CallsIInv ==
    ASSUME IInv, NEW t \in Task, Calls(t)
    PROVE  IInv'
<1>1. ASSUME NEW m \in Message, NEW wait \in Tick, xQueueGenericSend(t, m, wait)
      PROVE  IInv'
  <2>1. <<m>> \in Item
    BY DEF Item
  <2> QED
    BY <1>1, <2>1, NewCall, SendIInv DEF xQueueGenericSend
<1>2. ASSUME NEW wait \in Tick, xQueueGenericReceive(t, wait)
      PROVE  IInv'
  <2>1. <<>> \in Item
    BY DEF Item
  <2> QED
    BY <1>2, <2>1, NewCall, ReceiveIInv DEF xQueueGenericReceive
<1>3. Timeouts \subseteq Tick
  BY QueueAssumption, QueueFacts DEF Tick
<1> QED
  BY <1>1, <1>2, <1>3, QueueFacts
     DEF Calls, sys_mbox_post, sys_mbox_trypost, sys_arch_mbox_fetch, sys_arch_mbox_tryfetch

LEMMA TryAgainIInv ==
    ASSUME IInv, NEW t \in Task, TryAgain(t)
    PROVE  IInv'
<1>1. call[t] \in CallRecord
  BY Types DEF IInv
<1> QED
  BY <1>1, SendIInv, ReceiveIInv DEF TryAgain

(* The time since the entry, as the kernel computes it, is never more than *)
(* the time since the call.                                                *)
LEMMA ElapsedFacts ==
    ASSUME IInv, NEW t \in Task, pc[t] = "suspend", call[t].wait # portMAX_DELAY
    PROVE  /\ Elapsed(t) \in Nat /\ Since(t) \in Int
           /\ TimedOut(t) => left[t] <= 0
           /\ ~TimedOut(t) => Elapsed(t) < call[t].wait /\ Elapsed(t) <= Since(t)
<1> DEFINE c == call[t]
<1> DEFINE at == c.entry[1].at
<1>1. c \in CallRecord /\ c.entry # <<>>
  BY Types DEF IInv, Noted
<1>2. at \in Tick /\ c.entry[1].overflowed \in BOOLEAN
  BY <1>1, EntryFacts
<1>3. xTickCount \in Tick /\ left[t] \in Int
  BY Types DEF IInv
<1>4. c.wait \in Tick
  BY <1>1 DEF CallRecord
<1>5. Elapsed(t) = IF xTickCount >= at THEN xTickCount - at ELSE xTickCount - at + Ticks
  BY <1>2, <1>3, TicksBetween DEF Elapsed
<1>6. /\ Since(t) >= 0 /\ Since(t) = c.wait - left[t]
      /\ IF c.entry[1].overflowed THEN at + Since(t) >= Ticks + xTickCount
         ELSE at + Since(t) >= xTickCount /\ xTickCount >= at
  BY <1>1 DEF IInv, AtLeast, Since
<1>7. TimedOut(t) <=> \/ c.entry[1].overflowed /\ xTickCount >= at
                      \/ Elapsed(t) >= c.wait
  BY DEF TimedOut
<1>8. at \in 0..(Ticks - 1) /\ xTickCount \in 0..(Ticks - 1) /\ c.wait \in 0..(Ticks - 1)
  BY <1>2, <1>3, <1>4 DEF Tick
<1>9. Since(t) \in Int
  BY <1>3, <1>6, <1>8, QueueFacts
<1> HIDE DEF at, c
<1> QED
  <2>1. CASE c.entry[1].overflowed
    BY <1>3, <1>5, <1>6, <1>7, <1>8, <1>9, <2>1, QueueFacts DEF c
  <2>2. CASE ~c.entry[1].overflowed
    BY <1>3, <1>5, <1>6, <1>7, <1>8, <1>9, <2>2, QueueFacts DEF c
  <2> QED
    BY <2>1, <2>2

(* What is left to wait, when the time is not over.                        *)
LEMMA RemainingFacts ==
    ASSUME IInv, NEW t \in Task, pc[t] = "suspend", ~TimedOut(t)
    PROVE  /\ Remaining(t) \in CallRecord
           /\ Remaining(t).op = call[t].op
           /\ IF call[t].wait = portMAX_DELAY THEN Remaining(t) = call[t]
              ELSE /\ Remaining(t).entry = Now
                   /\ Remaining(t).wait = call[t].wait - Elapsed(t)
                   /\ Remaining(t).wait \in 1..(portMAX_DELAY - 1)
<1>1. call[t] \in CallRecord /\ xTickCount \in Tick
  BY Types DEF IInv
<1>2. CASE call[t].wait = portMAX_DELAY
  BY <1>1, <1>2 DEF Remaining
<1>3. CASE call[t].wait # portMAX_DELAY
  <2>1. Elapsed(t) \in Nat /\ Elapsed(t) < call[t].wait
    BY <1>3, ElapsedFacts
  <2>2. call[t].wait \in 0..(Ticks - 1)
    BY <1>1 DEF CallRecord, Tick
  <2>3. call[t].wait - Elapsed(t) \in 1..(portMAX_DELAY - 1)
    BY <1>3, <2>1, <2>2, QueueFacts
  <2>4. call[t].wait - Elapsed(t) \in Tick
    BY <2>3, QueueFacts DEF Tick
  <2>5. Remaining(t) = [[call[t] EXCEPT !.wait = @ - Elapsed(t)] EXCEPT !.entry = Now]
    BY <1>3 DEF Remaining
  <2>6. Now \in {<<e>> : e \in EntryRecord}
    BY <1>1, NowFacts
  <2> QED
    BY <1>1, <1>3, <2>3, <2>4, <2>5, <2>6 DEF CallRecord
<1> QED
  BY <1>2, <1>3

LEMMA SameStore ==
    ASSUME IInv, UNCHANGED <<store, xTickCount>>
    PROVE  /\ items' \in [Place -> Item] /\ pcWriteTo' \in Place /\ pcReadFrom' \in Place
           /\ uxMessagesWaiting' \in 0..uxLength
           /\ xTickCount' = xTickCount /\ xTickCount' \in Tick
  BY Types DEF IInv, store

(* A task looks again: only its place changes.                             *)
LEMMA LookIInv ==
    ASSUME IInv, NEW t \in Task, pc[t] = "suspend", Go(t, "try", {}),
           UNCHANGED <<store, xTickCount, call, left>>
    PROVE  IInv'
<1>1. /\ pc' \in [Task -> Step] /\ list' \in [Task -> List] /\ wakeAt' \in [Task -> Tick]
      /\ pc'[t] = "try" /\ \A u \in Task \ {t} : pc'[u] = pc[u]
  BY GoFacts DEF IInv, Step
<1>2. TypeOK'
  BY <1>1, SameStore, Types, TypesSuffice DEF IInv
<1>3. ASSUME NEW u \in Task PROVE Noted(u)' /\ AtLeast(u)'
  <2>1. pc'[u] # "out" => pc[u] # "out"
    BY <1>1
  <2> QED
    BY <2>1, OtherTask DEF IInv
<1> QED
  BY <1>2, <1>3 DEF IInv

LEMMA TimeOutIInv ==
    ASSUME IInv, NEW t \in Task, TimeOut(t)
    PROVE  IInv'
<1>1. CASE Return(t, {})
  BY <1>1, SameStore, ReturnIInv DEF TimeOut
<1>2. CASE Go(t, "try", {}) /\ UNCHANGED <<call, left>>
  BY <1>2, LookIInv DEF TimeOut
<1> QED
  BY <1>1, <1>2 DEF TimeOut

(* The remaining wait counts from now: nothing has passed of it yet.       *)
LEMMA Recounted ==
    ASSUME IInv, NEW t \in Task, pc[t] = "suspend", ~TimedOut(t),
           call' = [call EXCEPT ![t] = Remaining(t)], UNCHANGED <<xTickCount, left>>
    PROVE  /\ call' \in [Task -> CallRecord]
           /\ \A u \in Task \ {t} : call'[u] = call[u]
           /\ call'[t] = Remaining(t)
           /\ call'[t].wait = portMAX_DELAY \/ call'[t].entry # <<>>
           /\ AtLeast(t)'
<1>1. /\ Remaining(t) \in CallRecord
      /\ IF call[t].wait = portMAX_DELAY THEN Remaining(t) = call[t]
         ELSE /\ Remaining(t).entry = Now
              /\ Remaining(t).wait = call[t].wait - Elapsed(t)
  BY RemainingFacts
<1>2. /\ call' \in [Task -> CallRecord] /\ call'[t] = Remaining(t)
      /\ \A u \in Task \ {t} : call'[u] = call[u]
  BY <1>1, Types DEF IInv
<1>3. CASE call[t].wait = portMAX_DELAY
  BY <1>1, <1>2, <1>3 DEF IInv, AtLeast, Since
<1>4. CASE call[t].wait # portMAX_DELAY
  <2>1. Elapsed(t) \in Nat /\ Since(t) \in Int /\ Elapsed(t) <= Since(t)
    BY <1>4, ElapsedFacts
  <2>2. call[t].wait \in Int /\ left[t] \in Int
    <3>1. call[t].wait \in Tick
      BY Types DEF IInv, CallRecord
    <3> QED
      BY <3>1, Types, QueueFacts DEF IInv
  <2>3. call'[t].entry = Now /\ call'[t].wait = call[t].wait - Elapsed(t)
    BY <1>1, <1>2, <1>4
  <2>4. Since(t)' >= 0 /\ Since(t)' \in Int
    BY <2>1, <2>2, <2>3 DEF Since
  <2>5. xTickCount \in Tick /\ xTickCount \in Int
    <3>1. xTickCount \in Tick
      BY Types DEF IInv
    <3> QED
      BY <3>1, QueueFacts
  <2>6. Now # <<>> /\ Now[1].at = xTickCount /\ Now[1].overflowed = FALSE
    BY <2>5, NowFacts
  <2> QED
    BY <1>2, <2>3, <2>4, <2>5, <2>6 DEF AtLeast
<1> QED
  BY <1>2, <1>3, <1>4

LEMMA SuspendIInv ==
    ASSUME IInv, NEW t \in Task, Suspend(t)
    PROVE  IInv'
<1>1. /\ pc[t] = "suspend" /\ ~TimedOut(t) /\ call' = [call EXCEPT ![t] = Remaining(t)]
      /\ UNCHANGED <<store, xTickCount>> /\ left' = left
  BY DEF Suspend
<1>2. /\ call' \in [Task -> CallRecord]
      /\ \A u \in Task \ {t} : call'[u] = call[u]
      /\ call'[t].wait = portMAX_DELAY \/ call'[t].entry # <<>>
      /\ AtLeast(t)'
  BY <1>1, Recounted
<1>3. /\ pc' \in [Task -> Step] /\ list' \in [Task -> List] /\ wakeAt' \in [Task -> Tick]
      /\ \A u \in Task \ {t} : pc'[u] = pc[u]
  <2>1. CASE Go(t, "try", {})
    BY <2>1, GoFacts DEF IInv, Step
  <2>2. ASSUME pc' = [pc EXCEPT ![t] = "blocked"],
               list' = [list EXCEPT ![t] = ListFor(t, call'[t].wait)],
               wakeAt' = [wakeAt EXCEPT ![t] = IF call'[t].wait = portMAX_DELAY THEN 0
                                               ELSE (xTickCount + call'[t].wait) % Ticks]
        PROVE  <1>3!1
    <3>1. xTickCount \in Tick /\ call'[t].wait \in Tick
      BY <1>2, Types DEF IInv, CallRecord
    <3>2. (xTickCount + call'[t].wait) % Ticks \in Tick
      <4>1. call'[t].wait \in 0..Ticks
        BY <3>1, QueueFacts DEF Tick
      <4>2. (xTickCount + call'[t].wait) % Ticks
              = IF xTickCount + call'[t].wait < Ticks THEN xTickCount + call'[t].wait
                ELSE xTickCount + call'[t].wait - Ticks
        BY <3>1, <4>1, TicksAhead
      <4> QED
        BY <3>1, <4>1, <4>2, QueueFacts DEF Tick
    <3>3. ListFor(t, call'[t].wait) \in List
      BY DEF ListFor, List
    <3> QED
      BY <2>2, <3>2, <3>3, Types, QueueFacts DEF IInv, Step
  <2> QED
    BY <2>1, <2>2 DEF Suspend
<1>4. TypeOK'
  BY <1>1, <1>2, <1>3, SameStore, Types, TypesSuffice DEF IInv
<1>5. ASSUME NEW u \in Task PROVE Noted(u)' /\ AtLeast(u)'
  <2>1. CASE u = t
    BY <1>2, <2>1 DEF Noted
  <2>2. CASE u # t
    BY <1>1, <1>2, <1>3, <2>2, OtherTask DEF IInv
  <2> QED
    BY <2>1, <2>2
<1> QED
  BY <1>4, <1>5 DEF IInv

-----------------------------------------------------------------------------
(* Only a blocked task is in one of the kernel's lists of waiting tasks.   *)
Parked == \A t \in Task : pc[t] # "blocked" => list[t] = "ready"

LEMMA GoParked ==
    ASSUME TypeOK, Parked, NEW t \in Task, NEW to \in Step, NEW W \in SUBSET Task,
           pc[t] # "blocked", to # "blocked", Go(t, to, W)
    PROVE  Parked'
  BY Types DEF Parked, Go

LEMMA FailsParked ==
    ASSUME TypeOK, Parked, NEW t \in Task, NEW c, pc[t] # "blocked", Fails(t, c)
    PROVE  Parked'
<1>1. {} \in SUBSET Task /\ "out" \in Step /\ "suspend" \in Step
  BY DEF Step
<1>2. Go(t, "out", {}) \/ Go(t, "suspend", {})
  BY DEF Fails, Return
<1> QED
  BY <1>1, <1>2, GoParked

LEMMA TryParked ==
    ASSUME TypeOK, Parked, NEW t \in Task, NEW c, pc[t] # "blocked",
           TrySend(t, c) \/ TryReceive(t, c)
    PROVE  Parked'
<1>1. ASSUME NEW op, NEW W \in Wakes(op), Return(t, W)
      PROVE  Parked'
  <2>1. W \in SUBSET Task
    BY WakesFacts DEF Blocked
  <2>2. "out" \in Step /\ Go(t, "out", W)
    BY <1>1 DEF Step, Return
  <2> QED
    BY <2>1, <2>2, GoParked
<1> QED
  BY <1>1, FailsParked DEF TrySend, TryReceive

LEMMA TickParked ==
    ASSUME TypeOK, Parked, xTaskIncrementTick
    PROVE  Parked'
<1> DEFINE now == (xTickCount + 1) % Ticks
<1>1. /\ pc' = [t \in Task |-> IF t \in Due(now) THEN "try" ELSE pc[t]]
      /\ list' = [t \in Task |-> IF t \in Due(now) THEN "ready" ELSE Switched(now)[t]]
  BY DEF xTaskIncrementTick
<1>2. \A t \in Task : list[t] = "ready" => Switched(now)[t] = "ready"
  BY DEF Switched
<1> HIDE DEF now
<1> QED
  BY <1>1, <1>2 DEF Parked

LEMMA StepParked == TypeOK /\ Parked /\ [Next]_vars => Parked'
<1> SUFFICES ASSUME TypeOK, Parked, [Next]_vars PROVE Parked'
  OBVIOUS
<1>1. CASE xTaskIncrementTick
  BY <1>1, TickParked
<1>2. ASSUME NEW t \in Task, Calls(t) PROVE Parked'
  BY <1>2, TryParked
     DEF Calls, sys_mbox_post, sys_mbox_trypost, sys_arch_mbox_fetch, sys_arch_mbox_tryfetch,
         xQueueGenericSend, xQueueGenericReceive
<1>3. ASSUME NEW t \in Task, TryAgain(t) PROVE Parked'
  BY <1>3, TryParked DEF TryAgain
<1>4. ASSUME NEW t \in Task, TimeOut(t) PROVE Parked'
  <2>1. {} \in SUBSET Task /\ "out" \in Step /\ "try" \in Step
    BY DEF Step
  <2>2. pc[t] = "suspend" /\ (Go(t, "out", {}) \/ Go(t, "try", {}))
    BY <1>4 DEF TimeOut, Return
  <2> QED
    BY <2>1, <2>2, GoParked
<1>5. ASSUME NEW t \in Task, Suspend(t) PROVE Parked'
  <2>1. CASE Go(t, "try", {})
    <3>1. {} \in SUBSET Task /\ "try" \in Step /\ pc[t] = "suspend"
      BY <1>5 DEF Suspend, Step
    <3> QED
      BY <2>1, <3>1, GoParked
  <2>2. CASE /\ pc' = [pc EXCEPT ![t] = "blocked"]
             /\ list' = [list EXCEPT ![t] = ListFor(t, call'[t].wait)]
    BY <2>2, Types DEF Parked
  <2> QED
    BY <1>5, <2>1, <2>2 DEF Suspend
<1>6. CASE UNCHANGED vars
  BY <1>6 DEF Parked, vars
<1> QED
  BY <1>1, <1>2, <1>3, <1>4, <1>5, <1>6 DEF Next, GoesOn

(* A tick is one for the kernel and one for the clock.                     *)
LEMMA TickIInv ==
    ASSUME IInv, Parked, xTaskIncrementTick
    PROVE  IInv'
<1> DEFINE now == (xTickCount + 1) % Ticks
<1>1. /\ xTickCount \in 0..(Ticks - 1) /\ now \in Tick
      /\ now = IF xTickCount + 1 < Ticks THEN xTickCount + 1 ELSE 0
  BY Types, NextTick DEF IInv, Tick
<1>2. /\ xTickCount' = now /\ UNCHANGED store
      /\ pc' = [t \in Task |-> IF t \in Due(now) THEN "try" ELSE pc[t]]
      /\ list' = [t \in Task |-> IF t \in Due(now) THEN "ready" ELSE Switched(now)[t]]
      /\ wakeAt' = [t \in Task |-> IF t \in Due(now) THEN 0 ELSE wakeAt[t]]
      /\ left' = [t \in Task |-> IF call[t].entry # <<>> THEN left[t] - 1 ELSE left[t]]
      /\ call' = [t \in Task |-> IF now = 0 /\ call[t].entry # <<>>
                    THEN [call[t] EXCEPT !.entry = Entry(call[t].entry[1].at, TRUE)] ELSE call[t]]
  BY DEF xTaskIncrementTick, Bounded
<1> HIDE DEF now
<1>3. \A t \in Task : Switched(now)[t] \in List
  BY Types DEF IInv, Switched, List
<1>4. ASSUME NEW t \in Task, call[t].entry # <<>>
      PROVE  /\ call[t] \in CallRecord
             /\ call[t].entry[1].at \in Tick
             /\ Entry(call[t].entry[1].at, TRUE) \in {<<e>> : e \in EntryRecord}
             /\ Entry(call[t].entry[1].at, TRUE) # <<>>
             /\ Entry(call[t].entry[1].at, TRUE)[1].at = call[t].entry[1].at
             /\ Entry(call[t].entry[1].at, TRUE)[1].overflowed = TRUE
  <2>1. call[t] \in CallRecord
    BY Types DEF IInv
  <2>2. call[t].entry[1].at \in Tick
    BY <1>4, <2>1, EntryFacts
  <2> QED
    BY <2>1, <2>2 DEF Entry, EntryRecord
<1>5. call' \in [Task -> CallRecord]
  <2>1. ASSUME NEW t \in Task, call[t].entry # <<>>
        PROVE  [call[t] EXCEPT !.entry = Entry(call[t].entry[1].at, TRUE)] \in CallRecord
    BY <1>4, <2>1 DEF CallRecord
  <2>2. \A t \in Task : call[t] \in CallRecord
    BY Types DEF IInv
  <2> QED
    BY <1>2, <2>1, <2>2
<1>6. TypeOK'
  <2>1. pc' \in [Task -> Step]
    BY <1>2, Types DEF IInv, Step
  <2>2. list' \in [Task -> List]
    BY <1>2, <1>3 DEF List
  <2>3. wakeAt' \in [Task -> Tick]
    BY <1>2, Types, QueueFacts DEF IInv
  <2>4. left' \in [Task -> Int]
    BY <1>2, Types DEF IInv
  <2> QED
    BY <1>1, <1>2, <1>5, <2>1, <2>2, <2>3, <2>4, Types, TypesSuffice DEF IInv, store
<1>7. ASSUME NEW t \in Task PROVE Noted(t)'
  <2>1. pc'[t] # "out" => pc[t] # "out"
    <3>1. t \in Due(now) => pc[t] # "out"
      <4>1. t \in Due(now) => list[t] # "ready"
        BY DEF Due, Switched
      <4> QED
        BY <4>1 DEF Parked
    <3> QED
      BY <1>2, <3>1
  <2>2. call'[t].wait = call[t].wait /\ (call[t].entry # <<>> => call'[t].entry # <<>>)
    <3>1. CASE call[t].entry # <<>>
      BY <1>2, <1>4, <3>1 DEF CallRecord
    <3>2. CASE call[t].entry = <<>>
      BY <1>2, <3>2
    <3> QED
      BY <3>1, <3>2
  <2> QED
    BY <2>1, <2>2 DEF IInv, Noted
<1>8. ASSUME NEW t \in Task, call'[t].entry # <<>> PROVE AtLeast(t)'
  <2>1. call[t].entry # <<>>
    BY <1>2, <1>8
  <2> DEFINE at == call[t].entry[1].at
  <2>2. /\ Since(t) >= 0
        /\ IF call[t].entry[1].overflowed THEN at + Since(t) >= Ticks + xTickCount
           ELSE at + Since(t) >= xTickCount /\ xTickCount >= at
    BY <2>1 DEF IInv, AtLeast
  <2>3. call[t] \in CallRecord /\ at \in Tick /\ left[t] \in Int
    BY <1>4, <2>1, Types DEF IInv
  <2>4. call[t].wait \in Tick
    BY <2>3 DEF CallRecord
  <2>5. at \in 0..(Ticks - 1) /\ call[t].wait \in 0..(Ticks - 1)
    BY <2>3, <2>4 DEF Tick
  <2>6. /\ left'[t] = left[t] - 1
        /\ call'[t].wait = call[t].wait /\ call'[t].entry[1].at = at
        /\ call'[t].entry[1].overflowed = IF now = 0 THEN TRUE ELSE call[t].entry[1].overflowed
    <3>1. CASE now = 0
      BY <1>2, <1>4, <2>1, <2>3, <3>1 DEF CallRecord
    <3>2. CASE now # 0
      BY <1>2, <2>1, <3>2
    <3> QED
      BY <3>1, <3>2
  <2> HIDE DEF at
  <2>7. Since(t)' = Since(t) + 1 /\ Since(t) \in Int
    BY <2>3, <2>5, <2>6 DEF Since
  <2>8. Since(t)' >= 0
    BY <2>2, <2>7
  <2>9. CASE call[t].entry[1].overflowed
    <3>1. at + Since(t)' >= Ticks + xTickCount'
      BY <1>1, <1>2, <2>2, <2>5, <2>7, <2>9, QueueFacts
    <3> QED
      BY <2>6, <2>8, <2>9, <3>1 DEF AtLeast
  <2>10. CASE ~call[t].entry[1].overflowed /\ now = 0
    <3>1. at + Since(t)' >= Ticks + xTickCount'
      BY <1>1, <1>2, <2>2, <2>5, <2>7, <2>10, QueueFacts
    <3> QED
      BY <2>6, <2>8, <2>10, <3>1 DEF AtLeast
  <2>11. CASE ~call[t].entry[1].overflowed /\ now # 0
    <3>1. at + Since(t)' >= xTickCount' /\ xTickCount' >= at
      BY <1>1, <1>2, <2>2, <2>5, <2>7, <2>11, QueueFacts
    <3> QED
      BY <2>6, <2>8, <2>11, <3>1 DEF AtLeast
  <2> QED
    BY <2>9, <2>10, <2>11
<1> QED
  BY <1>6, <1>7, <1>8 DEF IInv, AtLeast

LEMMA InitIInv == Init => IInv /\ Parked
<1> SUFFICES ASSUME Init PROVE IInv /\ Parked
  OBVIOUS
<1>1. NoCall \in CallRecord /\ NoCall.entry = <<>>
  BY QueueFacts DEF NoCall, CallRecord, Item
<1>2. TypeOK
  <2>1. uxLength - 1 \in Place /\ 0 \in Place /\ 0 \in 0..uxLength
    BY QueueFacts DEF Place
  <2> QED
    BY <1>1, <2>1, QueueFacts DEF Init, TypeOK, CallRecord, EntryRecord, Item
<1> QED
  BY <1>1, <1>2 DEF Init, IInv, Noted, AtLeast, Parked

LEMMA StepIInv == IInv /\ Parked /\ [Next]_vars => IInv'
<1> SUFFICES ASSUME IInv, Parked, [Next]_vars PROVE IInv'
  OBVIOUS
<1>1. CASE UNCHANGED vars
  BY <1>1 DEF vars, store, IInv, TypeOK, Noted, AtLeast, Since
<1>2. ASSUME NEW t \in Task, Calls(t) \/ GoesOn(t) PROVE IInv'
  BY <1>2, CallsIInv, TryAgainIInv, TimeOutIInv, SuspendIInv DEF GoesOn
<1> QED
  BY <1>1, <1>2, TickIInv DEF Next

LEMMA Invariant == Spec => [](IInv /\ Parked)
<1>1. IInv /\ Parked /\ [Next]_vars => (IInv /\ Parked)'
  BY StepIInv, StepParked DEF IInv
<1> QED
  BY InitIInv, <1>1, PTL DEF Spec

(* Every variable keeps its type; in particular the two positions in the   *)
(* storage stay inside it and the count never exceeds its length.          *)
THEOREM TypeCorrect == Spec => []TypeOK
<1>1. IInv => TypeOK
  BY DEF IInv
<1> QED
  BY Invariant, <1>1, PTL

-----------------------------------------------------------------------------
(* No wake-up is lost.                                                     *)

LEMMA TaskSet ==
    ASSUME NEW S \in SUBSET Task
    PROVE  IsFiniteSet(S) /\ Cardinality(S) \in Nat
  BY QueueAssumption, FS_Subset, FS_CardinalityType

LEMMA NoFewer ==
    ASSUME NEW A \in SUBSET Task, NEW B \in SUBSET Task, A \subseteq B
    PROVE  Cardinality(A) <= Cardinality(B)
  BY TaskSet, FS_Subset

LEMMA OneMore ==
    ASSUME NEW A \in SUBSET Task, NEW B \in SUBSET Task, A \subseteq B, NEW u \in B, u \notin A
    PROVE  Cardinality(A) + 1 <= Cardinality(B)
<1>1. A \cup {u} \in SUBSET Task /\ A \cup {u} \subseteq B
  OBVIOUS
<1>2. Cardinality(A \cup {u}) = Cardinality(A) + 1
  BY TaskSet, FS_AddElement
<1> QED
  BY <1>1, <1>2, NoFewer

LEMMA OneFewer ==
    ASSUME NEW A \in SUBSET Task, NEW B \in SUBSET Task, NEW t, A \ {t} \subseteq B
    PROVE  Cardinality(A) - 1 <= Cardinality(B)
<1>1. A \ {t} \in SUBSET Task /\ A \ {t} \subseteq B
  OBVIOUS
<1>2. Cardinality(A) - 1 <= Cardinality(A \ {t})
  BY TaskSet, FS_RemoveElement
<1>3. Cardinality(A \ {t}) <= Cardinality(B)
  BY <1>1, NoFewer
<1> QED
  BY <1>1, <1>2, <1>3, TaskSet

(* A step that nobody but t takes, and in which nobody blocks, leaves every *)
(* other task that is woken so.                                            *)
LEMMA OthersStay ==
    ASSUME TypeOK, NEW op, NEW t \in Task, NEW to \in Step, NEW W \in SUBSET Task,
           pc[t] # "blocked", to # "blocked", Go(t, to, W),
           \A u \in Task \ {t} : call'[u].op = call[u].op
    PROVE  /\ Blocked(op)' \subseteq Blocked(op)
           /\ Woken(op) \ {t} \subseteq Woken(op)'
           /\ W \cap Blocked(op) \subseteq Woken(op)'
<1>1. /\ pc'[t] = to
      /\ \A u \in Task \ {t} : pc'[u] = IF u \in W THEN "woken" ELSE pc[u]
  BY GoFacts
<1> QED
  BY <1>1 DEF Blocked, Woken

LEMMA WokenTasks ==
    ASSUME NEW op
    PROVE  Woken(op) \in SUBSET Task /\ Woken(op)' \in SUBSET Task
  BY DEF Woken

(* A success wakes one of those that wait for it, if there are any, and     *)
(* the task that has it is not waited for any more.                        *)
LEMMA SuccessWakes ==
    ASSUME TypeOK, NEW t \in Task, NEW op, NEW W \in Wakes(op), Return(t, W),
           pc[t] # "blocked", t \notin Woken(op)
    PROVE  /\ \A o : Blocked(o)' \subseteq Blocked(o)
           /\ \A o : Cardinality(Woken(o)) - 1 <= Cardinality(Woken(o)')
           /\ Blocked(op)' # {} => Cardinality(Woken(op)) + 1 <= Cardinality(Woken(op)')
<1>1. W \in SUBSET Task /\ W \subseteq Blocked(op)
  BY WakesFacts DEF Blocked
<1>2. Go(t, "out", W) /\ "out" \in Step /\ \A u \in Task \ {t} : call'[u].op = call[u].op
  BY <1>1, ReturnFacts DEF Step
<1>3. ASSUME NEW o
      PROVE  /\ Blocked(o)' \subseteq Blocked(o)
             /\ Woken(o) \ {t} \subseteq Woken(o)'
             /\ W \cap Blocked(o) \subseteq Woken(o)'
  BY <1>1, <1>2, OthersStay
<1>4. ASSUME NEW o PROVE Cardinality(Woken(o)) - 1 <= Cardinality(Woken(o)')
  BY <1>3, WokenTasks, OneFewer
<1>5. ASSUME Blocked(op)' # {}
      PROVE  Cardinality(Woken(op)) + 1 <= Cardinality(Woken(op)')
  <2>1. PICK u \in Blocked(op) : W = {u}
    BY <1>3, <1>5, WakesFacts
  <2>2. u \in Woken(op)' /\ u \notin Woken(op)
    BY <1>3, <2>1 DEF Blocked, Woken
  <2>3. Woken(op) \subseteq Woken(op)'
    BY <1>3
  <2> QED
    BY <2>2, <2>3, WokenTasks, OneMore
<1> QED
  BY <1>3, <1>4, <1>5

(* What the tasks that are blocked in an operation wait for.               *)
Available(op) == IF op = "receive" THEN uxMessagesWaiting ELSE uxLength - uxMessagesWaiting
Covered(op) == Blocked(op) # {} => Available(op) <= Cardinality(Woken(op))

LEMMA CoveredSuffices ==
    /\ NoLostWakeup <=> Covered("receive") /\ Covered("send")
    /\ NoLostWakeup' <=> Covered("receive")' /\ Covered("send")'
  BY DEF NoLostWakeup, Covered, Available

LEMMA MessageCount ==
    ASSUME TypeOK
    PROVE  uxMessagesWaiting \in Int /\ 0 <= uxMessagesWaiting /\ uxMessagesWaiting <= uxLength
  BY Types, QueueFacts

(* A step that changes the number of items by none.                        *)
LEMMA StillCovered ==
    ASSUME TypeOK, NEW op, Covered(op), uxMessagesWaiting' = uxMessagesWaiting,
           Available(op) = 0 \/ (Blocked(op)' \subseteq Blocked(op)
                                 /\ Woken(op) \subseteq Woken(op)')
    PROVE  Covered(op)'
<1>1. Available(op)' = Available(op) /\ Available(op) \in Int
  BY MessageCount, QueueFacts DEF Available
<1>2. Cardinality(Woken(op)) \in Nat /\ Cardinality(Woken(op)') \in Nat
  BY WokenTasks, TaskSet
<1>3. CASE Available(op) = 0
  BY <1>1, <1>2, <1>3 DEF Covered
<1>4. CASE Blocked(op)' \subseteq Blocked(op) /\ Woken(op) \subseteq Woken(op)'
  <2>1. Cardinality(Woken(op)) <= Cardinality(Woken(op)')
    BY <1>4, WokenTasks, NoFewer
  <2>2. ASSUME Blocked(op)' # {} PROVE Available(op)' <= Cardinality(Woken(op)')
    <3>1. Available(op) <= Cardinality(Woken(op))
      BY <1>4, <2>2 DEF Covered
    <3> QED
      BY <1>1, <1>2, <2>1, <3>1
  <2> QED
    BY <2>2 DEF Covered
<1> QED
  BY <1>3, <1>4

(* The end of a call, or a task that goes on, when nothing was moved.      *)
LEMMA GoCovered ==
    ASSUME TypeOK, NEW op, Covered(op), uxMessagesWaiting' = uxMessagesWaiting,
           NEW t \in Task, pc[t] # "blocked", NEW to \in {"out", "try", "suspend"},
           Go(t, to, {}), \A u \in Task \ {t} : call'[u].op = call[u].op,
           Available(op) = 0 \/ t \notin Woken(op)
    PROVE  Covered(op)'
<1>1. to \in Step /\ to # "blocked" /\ {} \in SUBSET Task
  BY DEF Step
<1>2. Blocked(op)' \subseteq Blocked(op) /\ Woken(op) \ {t} \subseteq Woken(op)'
  BY <1>1, OthersStay
<1> QED
  BY <1>2, StillCovered

LEMMA FailsCovered ==
    ASSUME TypeOK, NoLostWakeup, NEW t \in Task, NEW c, Fails(t, c), pc[t] # "blocked",
           NEW op \in {"send", "receive"}, NEW other \in {"send", "receive"}, op # other,
           Available(op) = 0, t \notin Woken(other)
    PROVE  NoLostWakeup'
<1>1. uxMessagesWaiting' = uxMessagesWaiting
  BY DEF Fails, store
<1>2. PICK to \in {"out", "suspend"} : Go(t, to, {})
  BY DEF Fails, Return
<1>3. \A u \in Task \ {t} : call'[u].op = call[u].op
  <2>1. CASE Return(t, {})
    <3>1. {} \in SUBSET Task
      OBVIOUS
    <3> QED
      BY <2>1, <3>1, ReturnFacts
  <2>2. CASE \E r : call' = [call EXCEPT ![t] = r]
    BY <2>2, Types
  <2> QED
    BY <2>1, <2>2 DEF Fails
<1>4. Covered(op) /\ Covered(other)
  BY CoveredSuffices
<1>5. Covered(op)' /\ Covered(other)'
  BY <1>1, <1>2, <1>3, <1>4, GoCovered
<1> QED
  BY <1>5, CoveredSuffices

LEMMA SuccessCovered ==
    ASSUME TypeOK, NoLostWakeup, NEW t \in Task, pc[t] # "blocked",
           NEW op \in {"send", "receive"}, NEW other \in {"send", "receive"}, op # other,
           NEW W \in Wakes(other), Return(t, W), t \notin Woken(other),
           Available(op)' = Available(op) - 1, Available(other)' = Available(other) + 1
    PROVE  NoLostWakeup'
<1>1. /\ \A o : Blocked(o)' \subseteq Blocked(o)
      /\ \A o : Cardinality(Woken(o)) - 1 <= Cardinality(Woken(o)')
      /\ Blocked(other)' # {} => Cardinality(Woken(other)) + 1 <= Cardinality(Woken(other)')
  BY SuccessWakes
<1>2. \A o : Cardinality(Woken(o)) \in Nat /\ Cardinality(Woken(o)') \in Nat
  BY WokenTasks, TaskSet
<1>3. Available(op) \in Int /\ Available(other) \in Int
  BY MessageCount, QueueFacts DEF Available
<1>4. Covered(op) /\ Covered(other)
  BY CoveredSuffices
<1>5. Covered(op)'
  <2>1. ASSUME Blocked(op)' # {} PROVE Available(op)' <= Cardinality(Woken(op)')
    <3>1. Available(op) <= Cardinality(Woken(op))
      BY <1>1, <1>4, <2>1 DEF Covered
    <3>2. Cardinality(Woken(op)) - 1 <= Cardinality(Woken(op)')
      BY <1>1
    <3> QED
      BY <1>2, <1>3, <3>1, <3>2
  <2> QED
    BY <2>1 DEF Covered
<1>6. Covered(other)'
  <2>1. ASSUME Blocked(other)' # {} PROVE Available(other)' <= Cardinality(Woken(other)')
    <3>1. Available(other) <= Cardinality(Woken(other))
      BY <1>1, <1>4, <2>1 DEF Covered
    <3>2. Cardinality(Woken(other)) + 1 <= Cardinality(Woken(other)')
      BY <1>1, <2>1
    <3> QED
      BY <1>2, <1>3, <3>1, <3>2
  <2> QED
    BY <2>1 DEF Covered
<1> QED
  BY <1>5, <1>6, CoveredSuffices

LEMMA SendCovered ==
    ASSUME TypeOK, NoLostWakeup, NEW t \in Task, NEW c, TrySend(t, c),
           pc[t] # "blocked", t \notin Woken("receive")
    PROVE  NoLostWakeup'
<1>1. CASE uxMessagesWaiting < uxLength /\ prvCopyDataToQueue(c.item)
           /\ \E W \in Wakes("receive") : Return(t, W)
  <2>1. uxMessagesWaiting' = uxMessagesWaiting + 1
    BY <1>1 DEF prvCopyDataToQueue
  <2>2. Available("send")' = Available("send") - 1 /\ Available("receive")' = Available("receive") + 1
    BY <2>1, MessageCount, QueueFacts DEF Available
  <2> QED
    BY <1>1, <2>2, SuccessCovered
<1>2. CASE uxMessagesWaiting >= uxLength /\ Fails(t, c)
  <2>1. Available("send") = 0
    BY <1>2, MessageCount, QueueFacts DEF Available
  <2> QED
    BY <1>2, <2>1, FailsCovered
<1> QED
  BY <1>1, <1>2 DEF TrySend

LEMMA ReceiveCovered ==
    ASSUME TypeOK, NoLostWakeup, NEW t \in Task, NEW c, TryReceive(t, c),
           pc[t] # "blocked", t \notin Woken("send")
    PROVE  NoLostWakeup'
<1>1. CASE uxMessagesWaiting > 0 /\ prvCopyDataFromQueue
           /\ \E W \in Wakes("send") : Return(t, W)
  <2>1. uxMessagesWaiting' = uxMessagesWaiting - 1
    BY <1>1 DEF prvCopyDataFromQueue
  <2>2. Available("receive")' = Available("receive") - 1 /\ Available("send")' = Available("send") + 1
    BY <2>1, MessageCount, QueueFacts DEF Available
  <2> QED
    BY <1>1, <2>2, SuccessCovered
<1>2. CASE uxMessagesWaiting = 0 /\ Fails(t, c)
  <2>1. Available("receive") = 0
    BY <1>2 DEF Available
  <2> QED
    BY <1>2, <2>1, FailsCovered
<1> QED
  BY <1>1, <1>2 DEF TryReceive

LEMMA TryCovered ==
    ASSUME TypeOK, NoLostWakeup, NEW t \in Task, Calls(t) \/ TryAgain(t)
    PROVE  NoLostWakeup'
<1>1. CASE Calls(t)
  <2>1. ASSUME NEW m \in Message, NEW wait, xQueueGenericSend(t, m, wait) PROVE NoLostWakeup'
    BY <2>1, SendCovered DEF xQueueGenericSend, Woken
  <2>2. ASSUME NEW wait, xQueueGenericReceive(t, wait) PROVE NoLostWakeup'
    BY <2>2, ReceiveCovered DEF xQueueGenericReceive, Woken
  <2> QED
    BY <1>1, <2>1, <2>2
       DEF Calls, sys_mbox_post, sys_mbox_trypost, sys_arch_mbox_fetch, sys_arch_mbox_tryfetch
<1>2. CASE TryAgain(t)
  BY <1>2, SendCovered, ReceiveCovered DEF TryAgain, Woken
<1> QED
  BY <1>1, <1>2

(* The two ends of the section with the scheduler suspended in which the   *)
(* task does not block.                                                    *)
LEMMA LooksCovered ==
    ASSUME TypeOK, NoLostWakeup, NEW t \in Task, pc[t] = "suspend",
           NEW to \in {"out", "try"}, Go(t, to, {}),
           \A u \in Task \ {t} : call'[u].op = call[u].op,
           uxMessagesWaiting' = uxMessagesWaiting
    PROVE  NoLostWakeup'
<1>1. t \notin Woken("receive") /\ t \notin Woken("send")
  BY DEF Woken
<1> QED
  BY <1>1, CoveredSuffices, GoCovered

(* A task blocks only on a queue that has nothing for it.                  *)
LEMMA SuspendCovered ==
    ASSUME IInv, NoLostWakeup, NEW t \in Task, Suspend(t)
    PROVE  NoLostWakeup'
<1>1. /\ TypeOK /\ pc[t] = "suspend" /\ ~TimedOut(t)
      /\ call' = [call EXCEPT ![t] = Remaining(t)] /\ uxMessagesWaiting' = uxMessagesWaiting
  BY DEF Suspend, IInv, store
<1>2. \A u \in Task : call'[u].op = call[u].op
  BY <1>1, RemainingFacts, Types
<1>3. CASE Go(t, "try", {})
  BY <1>1, <1>2, <1>3, LooksCovered
<1>4. CASE Hopeless(t) /\ pc' = [pc EXCEPT ![t] = "blocked"]
  <2>1. ASSUME NEW op \in {"send", "receive"}
        PROVE  Available(op) = 0 \/ (Blocked(op)' \subseteq Blocked(op)
                                     /\ Woken(op) \subseteq Woken(op)')
    <3>1. pc'[t] = "blocked" /\ \A u \in Task \ {t} : pc'[u] = pc[u]
      BY <1>1, <1>4, Types
    <3>2. Woken(op) \subseteq Woken(op)'
      BY <1>1, <1>2, <3>1 DEF Woken
    <3>3. CASE call[t].op = op
      BY <1>1, <1>4, <3>3, MessageCount, QueueFacts DEF Hopeless, Available
    <3>4. CASE call[t].op # op
      BY <1>2, <3>1, <3>2, <3>4 DEF Blocked
    <3> QED
      BY <3>3, <3>4
  <2> QED
    BY <1>1, <2>1, StillCovered, CoveredSuffices
<1> QED
  BY <1>3, <1>4 DEF Suspend

(* Only blocked tasks are due at a tick.                                   *)
LEMMA DueBlocked ==
    ASSUME Parked, NEW now, NEW t \in Due(now)
    PROVE  pc[t] = "blocked"
  BY DEF Due, Switched, Parked

LEMMA TickCovered ==
    ASSUME IInv, Parked, NoLostWakeup, xTaskIncrementTick
    PROVE  NoLostWakeup'
<1> DEFINE now == (xTickCount + 1) % Ticks
<1>1. /\ pc' = [t \in Task |-> IF t \in Due(now) THEN "try" ELSE pc[t]]
      /\ call' = [t \in Task |-> IF now = 0 /\ call[t].entry # <<>>
                    THEN [call[t] EXCEPT !.entry = Entry(@[1].at, TRUE)] ELSE call[t]]
      /\ uxMessagesWaiting' = uxMessagesWaiting
  BY DEF xTaskIncrementTick, store
<1>2. \A t \in Due(now) : pc[t] = "blocked"
  BY DueBlocked
<1> HIDE DEF now
<1>3. \A t \in Task : call'[t].op = call[t].op
  <2>1. \A t \in Task : call[t] \in CallRecord
    BY Types DEF IInv
  <2> QED
    BY <1>1, <2>1 DEF CallRecord
<1>4. \A op : Blocked(op)' \subseteq Blocked(op) /\ Woken(op) \subseteq Woken(op)'
  BY <1>1, <1>2, <1>3 DEF Blocked, Woken
<1> QED
  BY <1>1, <1>4, StillCovered, CoveredSuffices DEF IInv

(* No wake-up is lost: while a receiver is blocked there is no item that   *)
(* is not about to be taken by a receiver already woken, and likewise for  *)
(* senders and places.                                                     *)
THEOREM NoneLost == Spec => []NoLostWakeup
<1>1. Init => NoLostWakeup
  BY DEF Init, NoLostWakeup, Blocked
<1>2. IInv /\ Parked /\ NoLostWakeup /\ [Next]_vars => NoLostWakeup'
  <2> SUFFICES ASSUME IInv, Parked, NoLostWakeup, [Next]_vars PROVE NoLostWakeup'
    OBVIOUS
  <2>1. TypeOK
    BY DEF IInv
  <2>2. ASSUME NEW t \in Task, TimeOut(t) PROVE NoLostWakeup'
    <3>1. pc[t] = "suspend" /\ uxMessagesWaiting' = uxMessagesWaiting
      BY <2>2 DEF TimeOut, store
    <3>2. CASE Return(t, {})
      <4>1. {} \in SUBSET Task
        OBVIOUS
      <4>2. Go(t, "out", {}) /\ \A u \in Task \ {t} : call'[u].op = call[u].op
        BY <2>1, <3>2, <4>1, ReturnFacts
      <4> QED
        BY <2>1, <3>1, <4>2, LooksCovered
    <3>3. CASE Go(t, "try", {}) /\ UNCHANGED call
      BY <2>1, <3>1, <3>3, LooksCovered
    <3> QED
      BY <2>2, <3>2, <3>3 DEF TimeOut
  <2>3. CASE UNCHANGED vars
    BY <2>3 DEF vars, store, NoLostWakeup, Blocked, Woken
  <2> QED
    BY <2>1, <2>2, <2>3, TryCovered, SuspendCovered, TickCovered DEF Next, GoesOn
<1> QED
  BY Invariant, <1>1, <1>2, PTL DEF Spec

-----------------------------------------------------------------------------
(* No call fails too early.                                                *)

(* A call that goes on is one that may wait.                               *)
Waiting == \A t \in Task : pc[t] # "out" => call[t].wait # 0

LEMMA ReturnWaiting ==
    ASSUME TypeOK, Waiting, NEW t \in Task, NEW op, NEW W, W = {} \/ W \in Wakes(op),
           Return(t, W)
    PROVE  /\ Waiting' /\ pc'[t] = "out"
           /\ \A u \in Task \ {t} : pc'[u] = "out" => pc[u] = "out"
<1>1. W \in SUBSET Task /\ W \subseteq Blocked(op)
  BY WakesFacts DEF Blocked
<1>2. /\ Go(t, "out", W)
      /\ \A u \in Task \ {t} : call'[u] = call[u]
  BY <1>1, ReturnFacts
<1>3. /\ pc'[t] = "out"
      /\ \A u \in Task \ {t} : pc'[u] = IF u \in W THEN "woken" ELSE pc[u]
  BY <1>1, <1>2, GoFacts DEF Step
<1> QED
  BY <1>1, <1>2, <1>3 DEF Waiting, Blocked

(* What is true of a task that tries again, or of a new call: either it    *)
(* moved an item, or it did not wait, or it is still in the call.          *)
LEMMA TryWaiting ==
    ASSUME TypeOK, Waiting, NEW t \in Task, NEW c \in CallRecord, TrySend(t, c) \/ TryReceive(t, c)
    PROVE  /\ Waiting'
           /\ \A u \in Task \ {t} : pc'[u] = "out" => pc[u] = "out"
           /\ pc'[t] = "out" => uxMessagesWaiting' # uxMessagesWaiting \/ c.wait = 0
<1>1. ASSUME NEW op, NEW W \in Wakes(op), Return(t, W), uxMessagesWaiting' # uxMessagesWaiting
      PROVE  /\ Waiting'
             /\ \A u \in Task \ {t} : pc'[u] = "out" => pc[u] = "out"
             /\ pc'[t] = "out" => uxMessagesWaiting' # uxMessagesWaiting \/ c.wait = 0
  BY <1>1, ReturnWaiting
<1>2. CASE Fails(t, c)
  <2>1. CASE c.wait = 0
    BY <1>2, <2>1, ReturnWaiting DEF Fails
  <2>2. CASE c.wait # 0
    <3>1. /\ Go(t, "suspend", {})
          /\ \/ call' = [call EXCEPT ![t] = [c EXCEPT !.entry = Now]]
             \/ call' = [call EXCEPT ![t] = c]
      BY <1>2, <2>2 DEF Fails
    <3>2. pc'[t] = "suspend" /\ \A u \in Task \ {t} : pc'[u] = pc[u]
      BY <3>1, GoFacts DEF Step
    <3>3. call'[t].wait = c.wait /\ \A u \in Task \ {t} : call'[u] = call[u]
      BY <3>1, Types DEF CallRecord
    <3> QED
      BY <2>2, <3>2, <3>3 DEF Waiting
  <2> QED
    BY <2>1, <2>2
<1>3. CASE prvCopyDataToQueue(c.item) /\ \E W \in Wakes("receive") : Return(t, W)
  <2>1. uxMessagesWaiting' # uxMessagesWaiting
    BY <1>3, MessageCount DEF prvCopyDataToQueue
  <2> QED
    BY <1>1, <1>3, <2>1
<1>4. CASE prvCopyDataFromQueue /\ \E W \in Wakes("send") : Return(t, W)
  <2>1. uxMessagesWaiting' # uxMessagesWaiting
    BY <1>4, MessageCount DEF prvCopyDataFromQueue
  <2> QED
    BY <1>1, <1>4, <2>1
<1> QED
  BY <1>2, <1>3, <1>4 DEF TrySend, TryReceive

(* One step keeps the invariant, and makes no call fail too early.         *)
EndsInTime ==
    \A t \in Task : pc[t] # "out" /\ pc'[t] = "out" /\ uxMessagesWaiting' = uxMessagesWaiting
      => call[t].wait # portMAX_DELAY /\ left[t] <= 0

LEMMA CallsInTime ==
    ASSUME IInv, Waiting, NEW t \in Task, Calls(t)
    PROVE  Waiting' /\ EndsInTime
<1>0. TypeOK
  BY DEF IInv
<1>1. ASSUME NEW m \in Message, NEW wait \in Tick, xQueueGenericSend(t, m, wait)
      PROVE  Waiting' /\ EndsInTime
  <2>1. <<m>> \in Item
    BY DEF Item
  <2> QED
    BY <1>0, <1>1, <2>1, NewCall, TryWaiting DEF xQueueGenericSend, EndsInTime
<1>2. ASSUME NEW wait \in Tick, xQueueGenericReceive(t, wait)
      PROVE  Waiting' /\ EndsInTime
  <2>1. <<>> \in Item
    BY DEF Item
  <2> QED
    BY <1>0, <1>2, <2>1, NewCall, TryWaiting DEF xQueueGenericReceive, EndsInTime
<1>3. Timeouts \subseteq Tick
  BY QueueAssumption, QueueFacts DEF Tick
<1> QED
  BY <1>1, <1>2, <1>3, QueueFacts
     DEF Calls, sys_mbox_post, sys_mbox_trypost, sys_arch_mbox_fetch, sys_arch_mbox_tryfetch

LEMMA TryAgainInTime ==
    ASSUME IInv, Waiting, NEW t \in Task, TryAgain(t)
    PROVE  Waiting' /\ EndsInTime
<1>1. TypeOK /\ call[t] \in CallRecord
  BY Types DEF IInv
<1>2. call[t].wait # 0
  BY DEF TryAgain, Waiting
<1> QED
  BY <1>1, <1>2, TryWaiting DEF TryAgain, EndsInTime

LEMMA TimeOutInTime ==
    ASSUME IInv, Waiting, NEW t \in Task, TimeOut(t)
    PROVE  Waiting' /\ EndsInTime
<1>0. TypeOK /\ pc[t] = "suspend"
  BY DEF IInv, TimeOut
<1>1. CASE Return(t, {})
  <2>1. call[t].wait # portMAX_DELAY
    BY DEF TimeOut, TimedOut
  <2>2. left[t] <= 0
    BY <1>0, <2>1, ElapsedFacts DEF TimeOut
  <2> QED
    BY <1>0, <1>1, <2>1, <2>2, ReturnWaiting DEF EndsInTime
<1>2. CASE Go(t, "try", {}) /\ UNCHANGED call
  <2>1. pc'[t] = "try" /\ \A u \in Task \ {t} : pc'[u] = pc[u]
    BY <1>0, <1>2, GoFacts DEF Step
  <2> QED
    BY <1>0, <1>2, <2>1 DEF Waiting, EndsInTime
<1> QED
  BY <1>1, <1>2 DEF TimeOut

LEMMA SuspendInTime ==
    ASSUME IInv, Waiting, NEW t \in Task, Suspend(t)
    PROVE  Waiting' /\ EndsInTime
<1>1. /\ TypeOK /\ pc[t] = "suspend" /\ ~TimedOut(t)
      /\ call' = [call EXCEPT ![t] = Remaining(t)]
  BY DEF Suspend, IInv
<1>2. call'[t].wait # 0 /\ \A u \in Task \ {t} : call'[u] = call[u]
  <2>1. IF call[t].wait = portMAX_DELAY THEN Remaining(t) = call[t]
        ELSE Remaining(t).wait \in 1..(portMAX_DELAY - 1)
    BY <1>1, RemainingFacts
  <2>2. Remaining(t).wait # 0
    BY <1>1, <2>1, QueueFacts DEF Waiting
  <2> QED
    BY <1>1, <2>2, Types
<1>3. pc'[t] # "out" /\ \A u \in Task \ {t} : pc'[u] = pc[u]
  <2>1. CASE Go(t, "try", {})
    BY <1>1, <2>1, GoFacts DEF Step
  <2>2. CASE pc' = [pc EXCEPT ![t] = "blocked"]
    BY <1>1, <2>2, Types
  <2> QED
    BY <2>1, <2>2 DEF Suspend
<1> QED
  BY <1>2, <1>3 DEF Waiting, EndsInTime

LEMMA TickInTime ==
    ASSUME IInv, Parked, Waiting, xTaskIncrementTick
    PROVE  Waiting' /\ EndsInTime
<1> DEFINE now == (xTickCount + 1) % Ticks
<1>1. /\ pc' = [t \in Task |-> IF t \in Due(now) THEN "try" ELSE pc[t]]
      /\ call' = [t \in Task |-> IF now = 0 /\ call[t].entry # <<>>
                    THEN [call[t] EXCEPT !.entry = Entry(@[1].at, TRUE)] ELSE call[t]]
  BY DEF xTaskIncrementTick
<1>2. \A t \in Due(now) : pc[t] = "blocked"
  BY DueBlocked
<1> HIDE DEF now
<1>3. \A t \in Task : call'[t].wait = call[t].wait
  <2>1. \A t \in Task : call[t] \in CallRecord
    BY Types DEF IInv
  <2> QED
    BY <1>1, <2>1 DEF CallRecord
<1>4. \A t \in Task : pc'[t] # "out" => pc[t] # "out"
  BY <1>1, <1>2
<1>5. \A t \in Task : pc'[t] = "out" => pc[t] = "out"
  BY <1>1
<1> QED
  BY <1>3, <1>4, <1>5 DEF Waiting, EndsInTime

(* A bounded call does not fail before its time is over, whatever the tick *)
(* count does meanwhile, and an unbounded one does not fail at all.        *)
THEOREM NoEarlyFailure == Spec => FailsInTime
<1>1. Init => Waiting
  BY DEF Init, Waiting
<1>2. IInv /\ Parked /\ Waiting /\ [Next]_vars => Waiting' /\ [EndsInTime]_vars
  <2> SUFFICES ASSUME IInv, Parked, Waiting, [Next]_vars PROVE Waiting' /\ [EndsInTime]_vars
    OBVIOUS
  <2>1. CASE UNCHANGED vars
    BY <2>1 DEF vars, Waiting
  <2> QED
    BY <2>1, CallsInTime, TryAgainInTime, TimeOutInTime, SuspendInTime, TickInTime
       DEF Next, GoesOn
<1>3. IInv /\ Parked /\ Waiting /\ [Next]_vars => [EndsInTime]_vars
  BY <1>2
<1>4. IInv /\ Parked /\ Waiting /\ [Next]_vars => Waiting'
  BY <1>2
<1>5. Spec => [][EndsInTime]_vars
  BY Invariant, <1>1, <1>3, <1>4, PTL DEF Spec
<1> QED
  BY <1>5 DEF FailsInTime, EndsInTime

-----------------------------------------------------------------------------
(* Every blocked task is woken in time, when no call can last longer than  *)
(* a round of the tick count, as far as the kernel sees it.                *)

Punctual == \A n \in Timeouts : n + MaxLate <= Ticks

(* What the kernel takes for the time since the entry is that time.        *)
Exact(t) == call[t].entry # <<>> =>
    /\ call[t].wait + MaxLate <= Ticks /\ left[t] >= -MaxLate
    /\ call[t].entry[1].at + Since(t)
         = IF call[t].entry[1].overflowed THEN Ticks + xTickCount ELSE xTickCount

OnTime(t) == pc[t] = "blocked" =>
    IF call[t].wait = portMAX_DELAY THEN list[t] = "suspended"
    ELSE /\ left[t] \in 1..(portMAX_DELAY - 1) /\ (xTickCount + left[t]) % Ticks = wakeAt[t]
         /\ list[t] = IF wakeAt[t] > xTickCount THEN "delayed" ELSE "overflow"

Timely == \A t \in Task : Exact(t) /\ OnTime(t)

LEMMA GoTimely ==
    ASSUME IInv, Timely, NEW t \in Task, NEW to \in Step, to # "blocked", NEW W \in SUBSET Task,
           Go(t, to, W), xTickCount' = xTickCount, Exact(t)',
           \A u \in Task \ {t} : call'[u] = call[u] /\ left'[u] = left[u]
    PROVE  Timely'
<1>1. /\ pc'[t] = to
      /\ \A u \in Task \ {t} : pc'[u] = IF u \in W THEN "woken" ELSE pc[u]
      /\ \A u \in Task : u \notin W => list'[u] = list[u] /\ wakeAt'[u] = wakeAt[u]
  BY GoFacts DEF IInv
<1>2. ASSUME NEW u \in Task PROVE Exact(u)'
  <2>1. CASE u # t
    BY <2>1 DEF Timely, Exact, Since
  <2> QED
    BY <2>1
<1>3. ASSUME NEW u \in Task PROVE OnTime(u)'
  <2>1. CASE pc'[u] = "blocked"
    <3>1. u # t /\ pc[u] = "blocked" /\ list'[u] = list[u] /\ wakeAt'[u] = wakeAt[u]
      BY <1>1, <2>1
    <3> QED
      BY <3>1 DEF Timely, OnTime
  <2> QED
    BY <2>1 DEF OnTime
<1> QED
  BY <1>2, <1>3 DEF Timely

LEMMA ReturnTimely ==
    ASSUME IInv, Timely, NEW t \in Task, NEW W \in SUBSET Task, Return(t, W),
           xTickCount' = xTickCount
    PROVE  Timely'
<1>1. /\ Go(t, "out", W) /\ call'[t] = NoCall
      /\ \A u \in Task \ {t} : call'[u] = call[u] /\ left'[u] = left[u]
  BY ReturnFacts DEF IInv
<1>2. Exact(t)'
  BY <1>1 DEF Exact, NoCall
<1> QED
  BY <1>1, <1>2, GoTimely DEF Step

LEMMA FailsTimely ==
    ASSUME Punctual, IInv, Timely, NEW t \in Task, NEW c \in CallRecord, Fails(t, c),
           \/ c.entry = <<>> /\ c.wait \in Timeouts \cup {0, portMAX_DELAY}
           \/ c = call[t] /\ (c.wait = portMAX_DELAY \/ c.entry # <<>>)
    PROVE  Timely'
<1>1. xTickCount' = xTickCount
  BY DEF Fails
<1>2. CASE c.wait = 0
  <2>1. Return(t, {}) /\ {} \in SUBSET Task
    BY <1>2 DEF Fails
  <2> QED
    BY <1>1, <2>1, ReturnTimely
<1>3. CASE c.wait # 0
  <2>1. /\ Go(t, "suspend", {})
        /\ IF c.entry = <<>> /\ c.wait # portMAX_DELAY
           THEN /\ call' = [call EXCEPT ![t] = [c EXCEPT !.entry = Now]]
                /\ left' = [left EXCEPT ![t] = c.wait]
           ELSE call' = [call EXCEPT ![t] = c] /\ UNCHANGED left
    BY <1>3 DEF Fails
  <2>2. \A u \in Task \ {t} : call'[u] = call[u] /\ left'[u] = left[u]
    BY <2>1, Types DEF IInv
  <2>3. Exact(t)'
    <3>1. CASE c.entry = <<>> /\ c.wait # portMAX_DELAY
      <4>1. call'[t].wait = c.wait /\ call'[t].entry = Now /\ left'[t] = c.wait
        BY <2>1, <3>1, Types DEF IInv, CallRecord
      <4>2. xTickCount \in Tick
        BY Types DEF IInv
      <4>3. Now[1].at = xTickCount /\ Now[1].overflowed = FALSE
        BY <4>2, NowFacts
      <4>4. c.wait \in Int /\ c.wait >= 0 /\ MaxLate \in Nat /\ xTickCount \in Int
        <5>1. c.wait \in 0..(Ticks - 1) /\ xTickCount \in 0..(Ticks - 1)
          BY <4>2 DEF CallRecord, Tick
        <5> QED
          BY <5>1, QueueFacts, QueueAssumption
      <4>5. c.wait + MaxLate <= Ticks
        BY <1>3, <3>1 DEF Punctual
      <4>6. left'[t] >= -MaxLate
        BY <4>1, <4>4
      <4>7. Since(t)' = 0
        BY <4>1, <4>4 DEF Since
      <4> QED
        BY <1>1, <4>1, <4>3, <4>4, <4>5, <4>6, <4>7 DEF Exact
    <3>2. CASE c.entry = <<>> /\ c.wait = portMAX_DELAY
      BY <2>1, <3>2, Types DEF IInv, Exact
    <3>3. CASE c = call[t] /\ c.entry # <<>>
      <4>1. call'[t] = call[t] /\ left'[t] = left[t]
        BY <2>1, <3>3, Types DEF IInv
      <4> QED
        BY <1>1, <4>1 DEF Timely, Exact, Since
    <3> QED
      BY <3>1, <3>2, <3>3
  <2>4. "suspend" \in Step /\ {} \in SUBSET Task
    BY DEF Step
  <2> QED
    BY <1>1, <2>1, <2>2, <2>3, <2>4, GoTimely
<1> QED
  BY <1>2, <1>3

LEMMA TryTimely ==
    ASSUME Punctual, IInv, Timely, NEW t \in Task, NEW c \in CallRecord,
           TrySend(t, c) \/ TryReceive(t, c),
           \/ c.entry = <<>> /\ c.wait \in Timeouts \cup {0, portMAX_DELAY}
           \/ c = call[t] /\ (c.wait = portMAX_DELAY \/ c.entry # <<>>)
    PROVE  Timely'
<1>1. ASSUME NEW op, NEW W \in Wakes(op), Return(t, W), xTickCount' = xTickCount
      PROVE  Timely'
  <2>1. W \in SUBSET Task
    BY WakesFacts DEF Blocked
  <2> QED
    BY <1>1, <2>1, ReturnTimely
<1> QED
  BY <1>1, FailsTimely DEF TrySend, TryReceive

LEMMA CallsTimely ==
    ASSUME Punctual, IInv, Timely, NEW t \in Task, Calls(t)
    PROVE  Timely'
<1>1. ASSUME NEW m \in Message, NEW wait \in Timeouts \cup {0, portMAX_DELAY}, wait \in Tick,
             xQueueGenericSend(t, m, wait)
      PROVE  Timely'
  <2>1. <<m>> \in Item
    BY DEF Item
  <2>2. [op |-> "send", item |-> <<m>>, wait |-> wait, entry |-> <<>>] \in CallRecord
    BY <1>1, <2>1, NewCall
  <2> QED
    BY <1>1, <2>2, TryTimely DEF xQueueGenericSend
<1>2. ASSUME NEW wait \in Timeouts \cup {0, portMAX_DELAY}, wait \in Tick,
             xQueueGenericReceive(t, wait)
      PROVE  Timely'
  <2>1. <<>> \in Item
    BY DEF Item
  <2>2. [op |-> "receive", item |-> <<>>, wait |-> wait, entry |-> <<>>] \in CallRecord
    BY <1>2, <2>1, NewCall
  <2> QED
    BY <1>2, <2>2, TryTimely DEF xQueueGenericReceive
<1>3. Timeouts \subseteq Tick
  BY QueueAssumption, QueueFacts DEF Tick
<1> QED
  BY <1>1, <1>2, <1>3, QueueFacts
     DEF Calls, sys_mbox_post, sys_mbox_trypost, sys_arch_mbox_fetch, sys_arch_mbox_tryfetch

LEMMA TryAgainTimely ==
    ASSUME Punctual, IInv, Timely, NEW t \in Task, TryAgain(t)
    PROVE  Timely'
<1>1. call[t] \in CallRecord /\ (call[t].wait = portMAX_DELAY \/ call[t].entry # <<>>)
  BY Types DEF IInv, TryAgain, Noted
<1> QED
  BY <1>1, TryTimely DEF TryAgain

LEMMA TimeOutTimely ==
    ASSUME IInv, Timely, NEW t \in Task, TimeOut(t)
    PROVE  Timely'
<1>1. {} \in SUBSET Task /\ xTickCount' = xTickCount
  BY DEF TimeOut
<1>2. CASE Return(t, {})
  BY <1>1, <1>2, ReturnTimely
<1>3. CASE Go(t, "try", {}) /\ UNCHANGED <<call, left>>
  <2>1. Exact(t)'
    BY <1>1, <1>3 DEF Timely, Exact, Since
  <2> QED
    BY <1>1, <1>3, <2>1, GoTimely DEF Step
<1> QED
  BY <1>2, <1>3 DEF TimeOut

(* Before the time of a wait is over, the kernel knows what has passed.    *)
LEMMA ElapsedExact ==
    ASSUME IInv, NEW t \in Task, Exact(t), pc[t] = "suspend", call[t].wait # portMAX_DELAY,
           ~TimedOut(t)
    PROVE  Elapsed(t) = Since(t)
<1> DEFINE at == call[t].entry[1].at
<1>1. call[t] \in CallRecord /\ call[t].entry # <<>>
  BY Types DEF IInv, Noted
<1>2. at \in Tick /\ call[t].entry[1].overflowed \in BOOLEAN
  BY <1>1, EntryFacts
<1>3. xTickCount \in Tick /\ Since(t) \in Int
  BY Types, ElapsedFacts DEF IInv
<1>4. Elapsed(t) = IF xTickCount >= at THEN xTickCount - at ELSE xTickCount - at + Ticks
  BY <1>2, <1>3, TicksBetween DEF Elapsed
<1>5. at + Since(t) = IF call[t].entry[1].overflowed THEN Ticks + xTickCount ELSE xTickCount
  BY <1>1 DEF Exact
<1>6. call[t].entry[1].overflowed => ~(xTickCount >= at)
  BY DEF TimedOut
<1>7. Since(t) >= 0
  BY <1>1 DEF IInv, AtLeast
<1>8. at \in 0..(Ticks - 1) /\ xTickCount \in 0..(Ticks - 1)
  BY <1>2, <1>3 DEF Tick
<1> HIDE DEF at
<1> QED
  <2>1. CASE call[t].entry[1].overflowed
    BY <1>3, <1>4, <1>5, <1>6, <1>8, <2>1, QueueFacts
  <2>2. CASE ~call[t].entry[1].overflowed
    BY <1>3, <1>4, <1>5, <1>7, <1>8, <2>2, QueueFacts
  <2> QED
    BY <2>1, <2>2

LEMMA SuspendTimely ==
    ASSUME IInv, Timely, NEW t \in Task, Suspend(t)
    PROVE  Timely'
<1>1. /\ TypeOK /\ pc[t] = "suspend" /\ ~TimedOut(t) /\ xTickCount' = xTickCount /\ left' = left
      /\ call' = [call EXCEPT ![t] = Remaining(t)]
  BY DEF Suspend, IInv
<1>2. call'[t] = Remaining(t) /\ \A u \in Task \ {t} : call'[u] = call[u]
  BY <1>1, Types
<1>3. xTickCount \in 0..(Ticks - 1) /\ left[t] \in Int
  BY <1>1, Types DEF Tick
<1>4. ASSUME call[t].wait # portMAX_DELAY
      PROVE  /\ call'[t].wait = left[t] /\ left[t] \in 1..(portMAX_DELAY - 1)
             /\ call'[t].entry = Now
  <2>1. /\ Remaining(t).entry = Now
        /\ Remaining(t).wait = call[t].wait - Elapsed(t)
        /\ Remaining(t).wait \in 1..(portMAX_DELAY - 1)
    BY <1>1, <1>4, RemainingFacts
  <2>2. Elapsed(t) = call[t].wait - left[t]
    BY <1>1, <1>4, ElapsedExact DEF Timely, Since
  <2>3. call[t].wait \in 0..(Ticks - 1)
    BY <1>1, Types DEF CallRecord, Tick
  <2> QED
    BY <1>2, <1>3, <2>1, <2>2, <2>3, QueueFacts
<1>5. call[t].wait = portMAX_DELAY => call'[t] = call[t]
  BY <1>1, <1>2, RemainingFacts
<1>6. Exact(t)'
  <2>1. CASE call[t].wait = portMAX_DELAY
    BY <1>1, <1>5, <2>1 DEF Timely, Exact, Since
  <2>2. CASE call[t].wait # portMAX_DELAY
    <3>1. call[t].entry # <<>> /\ call[t] \in CallRecord
      BY <1>1, <2>2, Types DEF IInv, Noted
    <3>2. call[t].wait + MaxLate <= Ticks /\ left[t] >= -MaxLate /\ Since(t) >= 0
      BY <3>1 DEF Timely, Exact, IInv, AtLeast
    <3>3. call[t].wait \in 0..(Ticks - 1) /\ MaxLate \in Nat
      BY <3>1, QueueAssumption DEF CallRecord, Tick
    <3>4. left[t] + MaxLate <= Ticks
      BY <1>3, <3>2, <3>3, QueueFacts DEF Since
    <3>5. Since(t)' = 0
      BY <1>1, <1>3, <1>4, <2>2 DEF Since
    <3>6. Now[1].at = xTickCount /\ Now[1].overflowed = FALSE
      BY <1>1, Types, NowFacts
    <3> QED
      BY <1>1, <1>3, <1>4, <2>2, <3>2, <3>4, <3>5, <3>6 DEF Exact
  <2> QED
    BY <2>1, <2>2
<1>7. CASE Go(t, "try", {})
  <2>1. "try" \in Step /\ {} \in SUBSET Task
    BY DEF Step
  <2> QED
    BY <1>1, <1>2, <1>6, <1>7, <2>1, GoTimely
<1>8. CASE /\ pc' = [pc EXCEPT ![t] = "blocked"]
           /\ list' = [list EXCEPT ![t] = ListFor(t, call'[t].wait)]
           /\ wakeAt' = [wakeAt EXCEPT ![t] = IF call'[t].wait = portMAX_DELAY THEN 0
                                              ELSE (xTickCount + call'[t].wait) % Ticks]
  <2>1. /\ list'[t] = ListFor(t, call'[t].wait)
        /\ wakeAt'[t] = IF call'[t].wait = portMAX_DELAY THEN 0
                        ELSE (xTickCount + call'[t].wait) % Ticks
        /\ \A u \in Task \ {t} : pc'[u] = pc[u] /\ list'[u] = list[u] /\ wakeAt'[u] = wakeAt[u]
    BY <1>1, <1>8, Types
  <2>2. OnTime(t)'
    <3>1. CASE call[t].wait = portMAX_DELAY
      BY <1>5, <2>1, <3>1 DEF OnTime, ListFor
    <3>2. CASE call[t].wait # portMAX_DELAY
      <4>1. call'[t].wait = left[t] /\ left[t] \in 1..(portMAX_DELAY - 1)
        BY <1>4, <3>2
      <4>2. left[t] \in 0..Ticks /\ xTickCount \in Tick
        BY <1>1, <4>1, Types, QueueFacts
      <4>3. (xTickCount + left[t]) % Ticks
              = IF xTickCount + left[t] < Ticks THEN xTickCount + left[t]
                ELSE xTickCount + left[t] - Ticks
        BY <4>2, TicksAhead
      <4>4. left[t] # portMAX_DELAY
        BY <4>1, QueueFacts
      <4>5. /\ wakeAt'[t] = (xTickCount + left[t]) % Ticks
            /\ list'[t] = IF (xTickCount + left[t]) % Ticks < xTickCount THEN "overflow"
                          ELSE "delayed"
        BY <2>1, <4>1, <4>4 DEF ListFor
      <4>6. (xTickCount + left[t]) % Ticks < xTickCount <=> ~((xTickCount + left[t]) % Ticks > xTickCount)
        BY <1>3, <4>1, <4>3, QueueFacts
      <4> QED
        BY <1>1, <4>1, <4>4, <4>5, <4>6 DEF OnTime
    <3> QED
      BY <3>1, <3>2
  <2>3. ASSUME NEW u \in Task, u # t PROVE Exact(u)' /\ OnTime(u)'
    BY <1>1, <1>2, <2>1, <2>3 DEF Timely, Exact, Since, OnTime
  <2> QED
    BY <1>6, <2>2, <2>3 DEF Timely
<1> QED
  BY <1>7, <1>8 DEF Suspend

(* A tick does not take a call past a second round of the count.           *)
LEMMA TickExact ==
    ASSUME IInv, Parked, xTaskIncrementTick, NEW t \in Task, Exact(t)
    PROVE  Exact(t)'
<1> SUFFICES ASSUME call'[t].entry # <<>>
             PROVE  Exact(t)'
  BY DEF Exact
<1> DEFINE now == (xTickCount + 1) % Ticks
<1> DEFINE at == call[t].entry[1].at
<1>1. /\ xTickCount \in 0..(Ticks - 1)
      /\ now = IF xTickCount + 1 < Ticks THEN xTickCount + 1 ELSE 0
  BY Types, NextTick DEF IInv, Tick
<1>2. /\ xTickCount' = now
      /\ left' = [u \in Task |-> IF call[u].entry # <<>> THEN left[u] - 1 ELSE left[u]]
      /\ call' = [u \in Task |-> IF now = 0 /\ call[u].entry # <<>>
                    THEN [call[u] EXCEPT !.entry = Entry(@[1].at, TRUE)] ELSE call[u]]
  BY DEF xTaskIncrementTick, Bounded
<1> HIDE DEF now
<1>3. call[t].entry # <<>> /\ call[t] \in CallRecord
  BY <1>2, Types DEF IInv
<1>4. at \in Tick /\ call[t].entry[1].overflowed \in BOOLEAN
  BY <1>3, EntryFacts
<1>5. left[t] > -MaxLate
  BY <1>3 DEF xTaskIncrementTick, Bounded
<1>6. /\ left'[t] = left[t] - 1
      /\ call'[t].wait = call[t].wait /\ call'[t].entry[1].at = at
      /\ call'[t].entry[1].overflowed = IF now = 0 THEN TRUE ELSE call[t].entry[1].overflowed
  <2>1. CASE now = 0
    <3>1. call'[t].entry = Entry(at, TRUE) /\ call'[t].wait = call[t].wait
      BY <1>2, <1>3, <2>1 DEF CallRecord
    <3>2. Entry(at, TRUE)[1].at = at /\ Entry(at, TRUE)[1].overflowed = TRUE
      BY DEF Entry
    <3> QED
      BY <1>2, <1>3, <2>1, <3>1, <3>2
  <2>2. CASE now # 0
    BY <1>2, <1>3, <2>2
  <2> QED
    BY <2>1, <2>2
<1>7. /\ at \in 0..(Ticks - 1) /\ call[t].wait \in 0..(Ticks - 1) /\ left[t] \in Int
      /\ MaxLate \in Nat
  BY <1>3, <1>4, Types, QueueAssumption DEF IInv, CallRecord, Tick
<1>8. /\ call[t].wait + MaxLate <= Ticks
      /\ at + Since(t) = IF call[t].entry[1].overflowed THEN Ticks + xTickCount ELSE xTickCount
  BY <1>3 DEF Exact
<1> HIDE DEF at
<1>9. /\ Since(t) \in Int /\ Since(t)' \in Int
      /\ Since(t)' = Since(t) + 1 /\ Since(t) + 1 <= Ticks
  <2>1. call[t].wait \in Int /\ left[t] \in Int /\ MaxLate \in Int /\ Ticks \in Int
    BY <1>7, QueueFacts
  <2>2. call[t].wait - left[t] + 1 <= Ticks
    BY <1>5, <1>8, <2>1
  <2> QED
    BY <1>6, <2>1, <2>2 DEF Since
<1>10. left'[t] >= -MaxLate
  BY <1>5, <1>6, <1>7
<1>11. at + Since(t)' = IF call'[t].entry[1].overflowed THEN Ticks + xTickCount' ELSE xTickCount'
  <2>1. at + Since(t)' = (at + Since(t)) + 1 /\ xTickCount \in Int /\ at \in Int
    BY <1>1, <1>7, <1>9
  <2>2. CASE call[t].entry[1].overflowed
    <3>1. at + Since(t) = Ticks + xTickCount
      BY <1>8, <2>2
    <3>2. now = xTickCount + 1
      BY <1>1, <1>7, <1>9, <2>1, <3>1, QueueFacts
    <3>3. at + Since(t)' = Ticks + now
      BY <2>1, <3>1, <3>2, QueueFacts
    <3> QED
      BY <1>2, <1>6, <2>2, <3>3
  <2>3. CASE ~call[t].entry[1].overflowed
    <3>1. at + Since(t) = xTickCount
      BY <1>8, <2>3
    <3>2. at + Since(t)' = xTickCount + 1
      BY <2>1, <3>1
    <3>3. IF now = 0 THEN xTickCount + 1 = Ticks + now ELSE xTickCount + 1 = now
      BY <1>1, QueueFacts
    <3> QED
      BY <1>2, <1>6, <2>3, <3>2, <3>3
  <2> QED
    BY <2>2, <2>3
<1> QED
  BY <1>6, <1>8, <1>10, <1>11 DEF Exact

(* A blocked task is due at the tick that ends its wait, and the lists are *)
(* exchanged under it when the count overflows.                            *)
LEMMA TickOnTime ==
    ASSUME IInv, Parked, xTaskIncrementTick, NEW t \in Task, OnTime(t)
    PROVE  OnTime(t)'
<1> SUFFICES ASSUME pc'[t] = "blocked"
             PROVE  OnTime(t)'
  BY DEF OnTime
<1> DEFINE now == (xTickCount + 1) % Ticks
<1>1. /\ xTickCount \in 0..(Ticks - 1) /\ now \in Tick
      /\ now = IF xTickCount + 1 < Ticks THEN xTickCount + 1 ELSE 0
  BY Types, NextTick DEF IInv, Tick
<1>2. /\ xTickCount' = now
      /\ pc' = [u \in Task |-> IF u \in Due(now) THEN "try" ELSE pc[u]]
      /\ list' = [u \in Task |-> IF u \in Due(now) THEN "ready" ELSE Switched(now)[u]]
      /\ wakeAt' = [u \in Task |-> IF u \in Due(now) THEN 0 ELSE wakeAt[u]]
      /\ left' = [u \in Task |-> IF call[u].entry # <<>> THEN left[u] - 1 ELSE left[u]]
      /\ call' = [u \in Task |-> IF now = 0 /\ call[u].entry # <<>>
                    THEN [call[u] EXCEPT !.entry = Entry(@[1].at, TRUE)] ELSE call[u]]
  BY DEF xTaskIncrementTick, Bounded
<1> HIDE DEF now
<1>3. /\ t \notin Due(now) /\ pc[t] = "blocked"
      /\ list'[t] = Switched(now)[t] /\ wakeAt'[t] = wakeAt[t]
  BY <1>2
<1>4. call[t] \in CallRecord /\ call'[t].wait = call[t].wait
  <2>1. call[t] \in CallRecord
    BY Types DEF IInv
  <2> QED
    BY <1>2, <2>1 DEF CallRecord
<1>5. Switched(now)[t] = IF now # 0 THEN list[t]
                         ELSE IF list[t] = "delayed" THEN "overflow"
                         ELSE IF list[t] = "overflow" THEN "delayed" ELSE list[t]
  <2>1. CASE now # 0
    BY <2>1 DEF Switched
  <2>2. CASE now = 0
    BY <2>2 DEF Switched
  <2> QED
    BY <2>1, <2>2
<1>6. CASE call[t].wait = portMAX_DELAY
  <2>1. list[t] = "suspended"
    BY <1>3, <1>6 DEF OnTime
  <2> QED
    BY <1>3, <1>4, <1>5, <1>6, <2>1 DEF OnTime
<1>7. CASE call[t].wait # portMAX_DELAY
  <2>1. /\ left[t] \in 1..(portMAX_DELAY - 1) /\ (xTickCount + left[t]) % Ticks = wakeAt[t]
        /\ list[t] = IF wakeAt[t] > xTickCount THEN "delayed" ELSE "overflow"
    BY <1>3, <1>7 DEF OnTime
  <2>2. left'[t] = left[t] - 1
    BY <1>2, <1>3, <1>7 DEF IInv, Noted
  <2>3. left[t] \in 0..Ticks /\ left[t] - 1 \in 0..Ticks /\ xTickCount \in Tick
    BY <1>1, <2>1, QueueFacts DEF Tick
  <2>4. wakeAt[t] = IF xTickCount + left[t] < Ticks THEN xTickCount + left[t]
                    ELSE xTickCount + left[t] - Ticks
    BY <2>1, <2>3, TicksAhead
  <2>5. (now + (left[t] - 1)) % Ticks
          = IF now + (left[t] - 1) < Ticks THEN now + (left[t] - 1)
            ELSE now + (left[t] - 1) - Ticks
    BY <1>1, <2>3, TicksAhead
  <2>6. (now + (left[t] - 1)) % Ticks = wakeAt[t]
    BY <1>1, <2>1, <2>4, <2>5, QueueFacts
  <2>7. ~(Switched(now)[t] = "delayed" /\ wakeAt[t] <= now)
    BY <1>3 DEF Due
  <2>8. CASE now # 0
    <3>1. now = xTickCount + 1 /\ Switched(now)[t] = list[t]
      BY <1>1, <1>5, <2>8
    <3>2. left[t] # 1
      BY <1>1, <2>1, <2>4, <2>7, <2>8, <3>1, QueueFacts
    <3>3. wakeAt[t] > xTickCount <=> wakeAt[t] > now
      BY <1>1, <2>1, <2>4, <2>7, <3>1, QueueFacts
    <3>4. left'[t] \in 1..(portMAX_DELAY - 1)
      BY <2>1, <2>2, <3>2, QueueFacts
    <3> QED
      BY <1>2, <1>3, <1>4, <1>7, <2>1, <2>2, <2>6, <3>1, <3>3, <3>4 DEF OnTime
  <2>9. CASE now = 0
    <3>1. xTickCount = Ticks - 1
      BY <1>1, <2>9, QueueFacts
    <3>2. wakeAt[t] = left[t] - 1 /\ ~(wakeAt[t] > xTickCount)
      BY <2>1, <2>4, <3>1, QueueFacts
    <3>3. Switched(now)[t] = "delayed"
      BY <1>5, <2>1, <2>9, <3>2
    <3>4. wakeAt[t] > now /\ left'[t] \in 1..(portMAX_DELAY - 1)
      BY <2>1, <2>2, <2>7, <2>9, <3>2, <3>3, QueueFacts
    <3> QED
      BY <1>2, <1>3, <1>4, <1>7, <2>2, <2>6, <3>3, <3>4 DEF OnTime
  <2> QED
    BY <2>8, <2>9
<1> QED
  BY <1>6, <1>7

(* A blocked task with a bounded wait is woken by the tick that ends it,   *)
(* on both sides of an overflow of the count, provided that no task is     *)
(* kept from the processor so long that its wait and the delay together    *)
(* are more than one round of the count.                                   *)
THEOREM BlockedInTime ==
    ASSUME Punctual
    PROVE  Spec => []WokenInTime
<1>1. Init => Timely
  BY DEF Init, Timely, Exact, OnTime, NoCall
<1>2. IInv /\ Parked /\ Timely /\ [Next]_vars => Timely'
  <2> SUFFICES ASSUME IInv, Parked, Timely, [Next]_vars PROVE Timely'
    OBVIOUS
  <2>1. CASE xTaskIncrementTick
    BY <2>1, TickExact, TickOnTime DEF Timely
  <2>2. CASE UNCHANGED vars
    BY <2>2 DEF vars, Timely, Exact, OnTime, Since
  <2> QED
    BY <2>1, <2>2, Punctual, CallsTimely, TryAgainTimely, TimeOutTimely, SuspendTimely
       DEF Next, GoesOn
<1>3. Timely => WokenInTime
  BY DEF Timely, OnTime, WokenInTime
<1> QED
  BY Invariant, <1>1, <1>2, <1>3, PTL DEF Spec

-----------------------------------------------------------------------------
(* The queue implements Mailbox.  Its storage is a ring: the items lie in  *)
(* the places after the one that was read last, up to the one that is to   *)
(* be written.                                                             *)

Filled == {<<m>> : m \in Message}
(* The i-th place after p. *)
Beyond(p, i) == IF p + i < uxLength THEN p + i ELSE p + i - uxLength

Ring ==
    /\ pcWriteTo = After(Beyond(pcReadFrom, uxMessagesWaiting))
    /\ \A i \in 1..uxMessagesWaiting : items[Beyond(pcReadFrom, i)] \in Filled
Loaded == \A t \in Task : call[t].op = "send" => call[t].item \in Filled

LEMMA BeyondFacts ==
    ASSUME NEW p \in Place
    PROVE  /\ \A i \in 0..uxLength : Beyond(p, i) \in Place /\ (p + i) % uxLength = Beyond(p, i)
           /\ \A i \in 1..uxLength, j \in 1..uxLength : Beyond(p, i) = Beyond(p, j) => i = j
           /\ \A i \in 0..(uxLength - 1) : /\ After(Beyond(p, i)) = Beyond(p, i + 1)
                                           /\ Beyond(After(p), i) = Beyond(p, i + 1)
           /\ After(p) = Beyond(p, 1)
<1>0. uxLength \in Nat \ {0} /\ p \in 0..(uxLength - 1)
  BY QueueFacts DEF Place
<1>1. ASSUME NEW i \in 0..uxLength PROVE Beyond(p, i) \in Place /\ (p + i) % uxLength = Beyond(p, i)
  <2>1. CASE p + i < uxLength
    <3>1. p + i \in 0..(uxLength - 1) /\ p + i = (uxLength * 0) + (p + i)
      BY <1>0, <2>1
    <3> QED
      BY <1>0, <2>1, <3>1, RemainderUnique DEF Beyond, Place
  <2>2. CASE ~(p + i < uxLength)
    <3>1. p + i - uxLength \in 0..(uxLength - 1) /\ p + i = (uxLength * 1) + (p + i - uxLength)
      BY <1>0, <2>2
    <3> QED
      BY <1>0, <2>2, <3>1, RemainderUnique DEF Beyond, Place
  <2> QED
    BY <2>1, <2>2
<1>2. \A i \in 1..uxLength, j \in 1..uxLength : Beyond(p, i) = Beyond(p, j) => i = j
  BY <1>0 DEF Beyond
<1>3. \A i \in 0..(uxLength - 1) : /\ After(Beyond(p, i)) = Beyond(p, i + 1)
                                   /\ Beyond(After(p), i) = Beyond(p, i + 1)
  BY <1>0 DEF Beyond, After
<1>4. After(p) = Beyond(p, 1)
  BY <1>0 DEF Beyond, After
<1> QED
  BY <1>1, <1>2, <1>3, <1>4

(* What the mailbox holds. *)
LEMMA ContentsAre ==
    ASSUME TypeOK, Ring
    PROVE  /\ Contents \in Seq(Message) /\ Len(Contents) = uxMessagesWaiting
           /\ uxMessagesWaiting \in 0..uxLength
           /\ Contents = [i \in 1..uxMessagesWaiting |-> items[Beyond(pcReadFrom, i)][1]]
<1> DEFINE n == uxMessagesWaiting
<1>1. n \in 0..uxLength /\ uxLength \in Nat /\ pcReadFrom \in Place
  BY Types, QueueFacts
<1>2. \A i \in 1..n : i \in 0..uxLength
  BY <1>1
<1>3. \A i \in 1..n : (pcReadFrom + i) % uxLength = Beyond(pcReadFrom, i)
  BY <1>1, <1>2, BeyondFacts
<1>4. \A i \in 1..n : items[Beyond(pcReadFrom, i)][1] \in Message
  BY DEF Ring, Filled
<1>5. Contents = [i \in 1..n |-> items[Beyond(pcReadFrom, i)][1]]
  BY <1>3 DEF Contents
<1> HIDE DEF n
<1>6. Contents \in Seq(Message) /\ Len(Contents) = n
  BY <1>1, <1>4, <1>5
<1> QED
  BY <1>1, <1>5, <1>6 DEF n

LEMMA SendPuts ==
    ASSUME TypeOK, Ring, NEW m \in Message, uxMessagesWaiting < uxLength,
           prvCopyDataToQueue(<<m>>)
    PROVE  Ring' /\ Fifo!Put
<1> DEFINE n == uxMessagesWaiting
           p == pcReadFrom
<1>1. /\ n \in 0..uxLength /\ n < uxLength /\ uxLength \in Nat /\ p \in Place
      /\ items \in [Place -> Item] /\ pcWriteTo = After(Beyond(p, n))
  BY Types, QueueFacts DEF Ring
<1>2. n \in 0..(uxLength - 1) /\ n + 1 \in 1..uxLength
  BY <1>1
<1>3. pcWriteTo = Beyond(p, n + 1) /\ pcWriteTo \in Place
  BY <1>1, <1>2, BeyondFacts, Types
<1>4. /\ items' = [items EXCEPT ![pcWriteTo] = <<m>>] /\ n' = n + 1 /\ p' = p
      /\ pcWriteTo' = After(pcWriteTo)
  BY DEF prvCopyDataToQueue
<1> HIDE DEF n, p
<1>5. items'[Beyond(p, n + 1)] = <<m>>
  BY <1>1, <1>3, <1>4
<1>6. ASSUME NEW i \in 1..n PROVE items'[Beyond(p, i)] = items[Beyond(p, i)]
  <2>1. i \in 1..uxLength /\ i \in 0..uxLength /\ i # n + 1
    BY <1>1
  <2>2. Beyond(p, i) \in Place /\ Beyond(p, i) # Beyond(p, n + 1)
    BY <1>1, <1>2, <2>1, BeyondFacts
  <2> QED
    BY <1>1, <1>3, <1>4, <2>2
<1>7. \A i \in 1..(n + 1) : i = n + 1 \/ i \in 1..n
  BY <1>1
<1>8. Ring'
  <2>1. \A i \in 1..(n + 1) : items'[Beyond(p, i)] \in Filled
    BY <1>5, <1>6, <1>7 DEF Ring, Filled, n, p
  <2>2. pcWriteTo' = After(Beyond(p, n + 1))
    BY <1>3, <1>4
  <2>3. n' = n + 1 /\ p' = p
    BY <1>4
  <2> QED
    BY <2>1, <2>2, <2>3 DEF Ring, n, p, Beyond
<1>9. /\ Contents \in Seq(Message) /\ Len(Contents) = n
      /\ Contents = [i \in 1..n |-> items[Beyond(p, i)][1]]
  BY ContentsAre DEF n, p
<1>10. Contents' = [i \in 1..(n + 1) |-> items'[Beyond(p, i)][1]]
  <2>1. ASSUME NEW i \in 1..(n + 1) PROVE (p + i) % uxLength = Beyond(p, i)
    <3>1. i \in 0..uxLength
      BY <1>1, <1>2
    <3> QED
      BY <1>1, <3>1, BeyondFacts
  <2>2. Contents' = [i \in 1..(n + 1) |-> items'[(p + i) % uxLength][1]]
    <3>1. uxMessagesWaiting' = n + 1 /\ pcReadFrom' = p
      BY <1>4 DEF n, p
    <3> QED
      BY <3>1 DEF Contents
  <2> QED
    BY <2>1, <2>2
<1>11. Contents' = Append(Contents, m)
  <2>1. \A i \in 1..n : items'[Beyond(p, i)][1] = Contents[i]
    BY <1>6, <1>9
  <2>2. items'[Beyond(p, n + 1)][1] = m
    BY <1>5
  <2> HIDE DEF n, p
  <2>3. /\ Append(Contents, m) \in Seq(Message) /\ Len(Append(Contents, m)) = n + 1
        /\ Append(Contents, m)[n + 1] = m
        /\ \A i \in 1..n : Append(Contents, m)[i] = Contents[i]
    BY <1>1, <1>9
  <2>4. Append(Contents, m) = [i \in 1..(n + 1) |-> Append(Contents, m)[i]]
    <3> DEFINE s == Append(Contents, m)
    <3>1. s \in Seq(Message) /\ Len(s) = n + 1
      BY <2>3
    <3> HIDE DEF s
    <3>2. s = [i \in 1..(n + 1) |-> s[i]]
      BY <3>1
    <3> QED
      BY <3>2 DEF s
  <2>5. \A i \in 1..(n + 1) : items'[Beyond(p, i)][1] = Append(Contents, m)[i]
    BY <1>7, <2>1, <2>2, <2>3
  <2> QED
    BY <1>10, <2>4, <2>5
<1>12. Len(Contents) < uxLength
  BY <1>1, <1>9
<1> QED
  BY <1>8, <1>11, <1>12 DEF Fifo!Put

LEMMA ReceiveTakes ==
    ASSUME TypeOK, Ring, uxMessagesWaiting > 0, prvCopyDataFromQueue
    PROVE  Ring' /\ Fifo!Take
<1> DEFINE n == uxMessagesWaiting
           p == pcReadFrom
<1>1. /\ n \in 0..uxLength /\ n > 0 /\ uxLength \in Nat /\ uxLength > 0 /\ p \in Place
      /\ items \in [Place -> Item] /\ pcWriteTo = After(Beyond(p, n))
  BY Types, QueueFacts DEF Ring
<1>2. n - 1 \in 0..(uxLength - 1) /\ n - 1 \in Nat /\ (n - 1) + 1 = n /\ 1 \in 1..uxLength
  BY <1>1
<1>3. /\ p' = After(p) /\ items' = [items EXCEPT ![After(p)] = <<>>] /\ n' = n - 1
      /\ pcWriteTo' = pcWriteTo
  BY DEF prvCopyDataFromQueue
<1> HIDE DEF n, p
<1>4. ASSUME NEW i \in 1..(n - 1)
      PROVE  /\ i + 1 \in 1..n /\ Beyond(After(p), i) = Beyond(p, i + 1)
             /\ items'[Beyond(After(p), i)] = items[Beyond(p, i + 1)]
             /\ (After(p) + i) % uxLength = Beyond(After(p), i)
  <2>1. i \in 0..(uxLength - 1) /\ i + 1 \in 1..n /\ i + 1 \in 1..uxLength /\ i + 1 \in 0..uxLength
        /\ i + 1 # 1 /\ i \in 0..uxLength
    BY <1>1, <1>2
  <2>2. Beyond(After(p), i) = Beyond(p, i + 1) /\ After(p) = Beyond(p, 1)
        /\ Beyond(p, i + 1) \in Place /\ Beyond(p, i + 1) # Beyond(p, 1)
    BY <1>1, <1>2, <2>1, BeyondFacts
  <2>3. (After(p) + i) % uxLength = Beyond(After(p), i)
    BY <1>1, <2>1, PlaceFacts, BeyondFacts
  <2>4. items'[Beyond(p, i + 1)] = items[Beyond(p, i + 1)]
    BY <1>1, <1>3, <2>2
  <2> QED
    BY <2>1, <2>2, <2>3, <2>4
<1>5. Ring'
  <2>1. \A i \in 1..(n - 1) : items'[Beyond(After(p), i)] \in Filled
    BY <1>4 DEF Ring, n, p
  <2>2. pcWriteTo' = After(Beyond(After(p), n - 1))
    BY <1>1, <1>2, <1>3, BeyondFacts
  <2> QED
    BY <1>3, <2>1, <2>2 DEF Ring, n, p, Beyond
<1>6. /\ Contents \in Seq(Message) /\ Len(Contents) = n
      /\ Contents = [i \in 1..n |-> items[Beyond(p, i)][1]]
  BY ContentsAre DEF n, p
<1>7. Contents' = [i \in 1..(n - 1) |-> items'[(After(p) + i) % uxLength][1]]
  <2>1. uxMessagesWaiting' = n - 1 /\ pcReadFrom' = After(p)
    BY <1>3 DEF n, p
  <2> QED
    BY <2>1 DEF Contents
<1>8. Contents' = [i \in 1..(n - 1) |-> Contents[i + 1]]
  BY <1>4, <1>6, <1>7
<1>9. Contents # <<>>
  BY <1>1, <1>6
<1>10. Tail(Contents) = [i \in 1..(n - 1) |-> Contents[i + 1]]
  BY <1>1, <1>6, <1>9
<1> QED
  BY <1>5, <1>8, <1>9, <1>10 DEF Fifo!Take

Quiet == Ring' /\ UNCHANGED Contents

LEMMA StoreStays ==
    ASSUME Ring, UNCHANGED store
    PROVE  Quiet
  BY DEF Quiet, Ring, Contents, store, Beyond, After

(* What is in the call of a task that sends.                               *)
LEMMA TryMaps ==
    ASSUME TypeOK, Ring, Loaded, NEW t \in Task, NEW c \in CallRecord,
           \/ c.op = "send" /\ c.item \in Filled /\ TrySend(t, c)
           \/ c.op # "send" /\ TryReceive(t, c)
    PROVE  /\ Loaded'
           /\ Quiet \/ (Ring' /\ Fifo!Next)
<1>1. ASSUME NEW W, Return(t, W) PROVE Loaded'
  <2>1. call' = [call EXCEPT ![t] = NoCall]
    BY <1>1 DEF Return
  <2> QED
    BY <2>1, Types DEF Loaded, NoCall
<1>2. CASE Fails(t, c)
  <2>1. Quiet
    BY <1>2, StoreStays DEF Fails
  <2>2. CASE c.wait = 0
    <3>1. Return(t, {})
      BY <1>2, <2>2 DEF Fails
    <3>2. Loaded'
      BY <1>1, <3>1
    <3> QED
      BY <2>1, <3>2
  <2>3. CASE c.wait # 0
    <3>1. \/ call' = [call EXCEPT ![t] = [c EXCEPT !.entry = Now]]
          \/ call' = [call EXCEPT ![t] = c]
      BY <1>2, <2>3 DEF Fails
    <3>2. call'[t].op = c.op /\ call'[t].item = c.item /\ \A u \in Task \ {t} : call'[u] = call[u]
      BY <3>1, Types DEF CallRecord
    <3>3. c.op = "send" => c.item \in Filled
      OBVIOUS
    <3>4. Loaded'
      <4>1. ASSUME NEW u \in Task, call'[u].op = "send" PROVE call'[u].item \in Filled
        <5>1. CASE u = t
          BY <3>2, <3>3, <4>1, <5>1
        <5>2. CASE u # t
          BY <3>2, <4>1, <5>2 DEF Loaded
        <5> QED
          BY <5>1, <5>2
      <4> QED
        BY <4>1 DEF Loaded
    <3> QED
      BY <2>1, <3>4
  <2> QED
    BY <2>2, <2>3
<1>3. CASE /\ c.item \in Filled /\ uxMessagesWaiting < uxLength /\ prvCopyDataToQueue(c.item)
           /\ \E W \in Wakes("receive") : Return(t, W)
  <2>1. PICK m \in Message : c.item = <<m>>
    BY <1>3 DEF Filled
  <2>2. Ring' /\ Fifo!Put
    BY <1>3, <2>1, SendPuts
  <2> QED
    BY <1>1, <1>3, <2>2 DEF Fifo!Next
<1>4. CASE /\ uxMessagesWaiting > 0 /\ prvCopyDataFromQueue
           /\ \E W \in Wakes("send") : Return(t, W)
  <2>1. Ring' /\ Fifo!Take
    BY <1>4, ReceiveTakes
  <2> QED
    BY <1>1, <1>4, <2>1 DEF Fifo!Next
<1> QED
  BY <1>2, <1>3, <1>4 DEF TrySend, TryReceive

LEMMA CallsMaps ==
    ASSUME TypeOK, Ring, Loaded, NEW t \in Task, Calls(t)
    PROVE  Loaded' /\ (Quiet \/ (Ring' /\ Fifo!Next))
<1>1. ASSUME NEW m \in Message, NEW wait \in Tick, xQueueGenericSend(t, m, wait)
      PROVE  Loaded' /\ (Quiet \/ (Ring' /\ Fifo!Next))
  <2> DEFINE c == [op |-> "send", item |-> <<m>>, wait |-> wait, entry |-> <<>>]
  <2>1. <<m>> \in Item /\ <<m>> \in Filled
    BY DEF Item, Filled
  <2>2. c \in CallRecord /\ c.op = "send" /\ c.item = <<m>>
    BY <2>1, NewCall
  <2>3. TrySend(t, c)
    BY <1>1 DEF xQueueGenericSend
  <2> HIDE DEF c
  <2> QED
    BY <2>1, <2>2, <2>3, TryMaps
<1>2. ASSUME NEW wait \in Tick, xQueueGenericReceive(t, wait)
      PROVE  Loaded' /\ (Quiet \/ (Ring' /\ Fifo!Next))
  <2> DEFINE c == [op |-> "receive", item |-> <<>>, wait |-> wait, entry |-> <<>>]
  <2>1. <<>> \in Item
    BY DEF Item
  <2>2. c \in CallRecord /\ c.op = "receive"
    BY <2>1, NewCall
  <2>3. TryReceive(t, c)
    BY <1>2 DEF xQueueGenericReceive
  <2> HIDE DEF c
  <2> QED
    BY <2>2, <2>3, TryMaps
<1>3. Timeouts \subseteq Tick
  BY QueueAssumption, QueueFacts DEF Tick
<1> QED
  BY <1>1, <1>2, <1>3, QueueFacts
     DEF Calls, sys_mbox_post, sys_mbox_trypost, sys_arch_mbox_fetch, sys_arch_mbox_tryfetch

LEMMA GoesOnMaps ==
    ASSUME TypeOK, Ring, Loaded, NEW t \in Task, GoesOn(t)
    PROVE  Loaded' /\ (Quiet \/ (Ring' /\ Fifo!Next))
<1>0. call[t] \in CallRecord /\ call \in [Task -> CallRecord]
  BY Types
<1>1. CASE TryAgain(t)
  BY <1>0, <1>1, TryMaps DEF TryAgain, Loaded
<1>2. CASE TimeOut(t)
  <2>1. call' = call \/ call' = [call EXCEPT ![t] = NoCall]
    BY <1>2 DEF TimeOut, Return
  <2>2. Loaded'
    BY <1>0, <2>1 DEF Loaded, NoCall
  <2>3. UNCHANGED store
    BY <1>2 DEF TimeOut
  <2>4. Quiet
    BY <2>3, StoreStays
  <2> QED
    BY <2>2, <2>4
<1>3. CASE Suspend(t)
  <2>1. call' = [call EXCEPT ![t] = Remaining(t)]
    BY <1>3 DEF Suspend
  <2>2. Remaining(t).op = call[t].op /\ Remaining(t).item = call[t].item
    BY <1>0 DEF Remaining, CallRecord
  <2>3. call'[t] = Remaining(t) /\ \A u \in Task \ {t} : call'[u] = call[u]
    BY <1>0, <2>1
  <2>4. Loaded'
    BY <2>2, <2>3 DEF Loaded
  <2>5. UNCHANGED store
    BY <1>3 DEF Suspend
  <2>6. Quiet
    BY <2>5, StoreStays
  <2> QED
    BY <2>4, <2>6
<1> QED
  BY <1>1, <1>2, <1>3 DEF GoesOn

LEMMA TickMaps ==
    ASSUME TypeOK, Ring, Loaded, xTaskIncrementTick
    PROVE  Loaded' /\ Quiet
<1> DEFINE now == (xTickCount + 1) % Ticks
<1>1. call' = [u \in Task |-> IF now = 0 /\ call[u].entry # <<>>
                 THEN [call[u] EXCEPT !.entry = Entry(@[1].at, TRUE)] ELSE call[u]]
  BY DEF xTaskIncrementTick
<1> HIDE DEF now
<1>2. ASSUME NEW u \in Task PROVE call'[u].op = call[u].op /\ call'[u].item = call[u].item
  <2>1. call[u] \in CallRecord
    BY Types
  <2> QED
    BY <1>1, <2>1 DEF CallRecord
<1>3. Loaded'
  BY <1>2 DEF Loaded
<1> QED
  BY <1>3, StoreStays DEF xTaskIncrementTick

LEMMA InitMaps == Init => Ring /\ Loaded /\ Fifo!Init
<1> SUFFICES ASSUME Init PROVE Ring /\ Loaded /\ Fifo!Init
  OBVIOUS
<1>1. Loaded
  BY DEF Init, Loaded, NoCall
<1>2. uxMessagesWaiting = 0 /\ pcReadFrom = uxLength - 1 /\ pcWriteTo = 0
  BY DEF Init
<1>3. Ring
  BY <1>2, QueueFacts DEF Ring, Beyond, After
<1>4. Contents = <<>>
  BY <1>2 DEF Contents
<1> QED
  BY <1>1, <1>3, <1>4 DEF Fifo!Init

(* The queue is a mailbox: whatever tasks post and fetch, with or without  *)
(* a bound on their wait, every message that was accepted comes out once,  *)
(* in the order in which they were accepted, and none is accepted that the *)
(* mailbox has no place for (queue.c:723, 1237, 1697, 1776).               *)
THEOREM ImplementsMailbox == Spec => FifoRefined
<1>1. TypeOK /\ Ring /\ Loaded /\ [Next]_vars => (Ring /\ Loaded)' /\ [Fifo!Next]_Contents
  <2> SUFFICES ASSUME TypeOK, Ring, Loaded, [Next]_vars
               PROVE  (Ring /\ Loaded)' /\ [Fifo!Next]_Contents
    OBVIOUS
  <2>1. CASE xTaskIncrementTick
    BY <2>1, TickMaps DEF Quiet
  <2>2. CASE \E t \in Task : Calls(t) \/ GoesOn(t)
    BY <2>2, CallsMaps, GoesOnMaps DEF Quiet
  <2>3. CASE UNCHANGED vars
    <3>1. Loaded' /\ UNCHANGED store
      BY <2>3 DEF vars, Loaded
    <3> QED
      BY <3>1, StoreStays DEF Quiet
  <2> QED
    BY <2>1, <2>2, <2>3 DEF Next
<1> QED
  BY TypeCorrect, InitMaps, <1>1, PTL DEF Spec, FifoRefined, Fifo!Spec

=============================================================================
