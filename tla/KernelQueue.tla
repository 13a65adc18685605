---------------------------- MODULE KernelQueue ----------------------------
(***************************************************************************)
(* A queue of the kernel (FreeRTOS queue.c, and tasks.c as far as it makes *)
(* tasks wait), which is what a mailbox or a semaphore of lwIP is          *)
(* (sys_arch.c; a semaphore is a queue of one place).                      *)
(*                                                                         *)
(* A critical section is one step, and so is a section with the scheduler  *)
(* suspended: no interrupt uses the functions made for interrupts, so the  *)
(* lock counts of the queue never change.  Between two steps of a task a   *)
(* tick or a task of the same or a higher priority may come.               *)
(***************************************************************************)
EXTENDS Integers, Sequences, FiniteSets

CONSTANTS uxLength,     \* places in the queue
          Message,      \* items
          Sender, Receiver, \* the tasks that post to it and fetch from it
          Priority,     \* their priorities
          Ticks,        \* number of values of TickType_t
          Timeouts,     \* bounded waits that are asked for
          MaxLate       \* bound: ticks a task is kept waiting for the processor

portMAX_DELAY == Ticks - 1
Task == Sender \cup Receiver

ASSUME QueueAssumption ==
    /\ uxLength \in Nat \ {0} /\ Message # {}
    /\ IsFiniteSet(Task) /\ Priority \in [Task -> Nat]
    /\ Ticks \in Nat \ {0} /\ MaxLate \in Nat
    /\ Timeouts \subseteq 1..(portMAX_DELAY - 1)

VARIABLES
  items,                \* the storage
  pcWriteTo,            \* where the next item goes
  pcReadFrom,           \* where the last item was read
  uxMessagesWaiting,
  xTickCount,
  pc,       \* where each task is: "out" of any call, about to "try", to "suspend"
            \* the scheduler, "blocked", or "woken" by an event
  call,     \* the operation of each task and what it keeps on its stack
  list,     \* the kernel's list its state item is in
  wakeAt,   \* the value of that item while it is in one of the delayed lists
  left      \* ticks until a bounded wait is over

store == <<items, pcWriteTo, pcReadFrom, uxMessagesWaiting>>
vars == <<store, xTickCount, pc, call, list, wakeAt, left>>

Place == 0..(uxLength - 1)
Tick == 0..(Ticks - 1)
(* The tick count, and whether it has overflowed since: xNumOfOverflows is  *)
(* only compared with what it was.                                         *)
Entry(at, overflowed) == <<[at |-> at, overflowed |-> overflowed]>>
Now == Entry(xTickCount, FALSE)
NoCall == [op |-> "none", item |-> <<>>, wait |-> 0, entry |-> <<>>]
Blocked(op) == {t \in Task : pc[t] = "blocked" /\ call[t].op = op}

(* The running task has the highest priority of those that could run. *)
Runs(t) == \A u \in Task : pc[u] \notin {"out", "blocked"} => Priority[u] <= Priority[t]

(* xTaskRemoveFromEventList: the list is in the order of priorities.       *)
(* Mutant: a waiting task is woken only when the queue was empty or full.  *)
WakesAtEdge(op) ==
    LET S == Blocked(op) IN
    IF S = {} \/ uxMessagesWaiting \notin {0, uxLength} THEN {{}}
    ELSE {{t} : t \in {u \in S : \A v \in S : Priority[v] <= Priority[u]}}
Wakes(op) ==
    LET S == Blocked(op) IN
    IF S = {} THEN {{}} ELSE {{t} : t \in {u \in S : \A v \in S : Priority[v] <= Priority[u]}}

(* Task t gets to `to' and the tasks in W are woken. *)
Go(t, to, W) ==
    /\ pc' = [u \in Task |-> IF u = t THEN to ELSE IF u \in W THEN "woken" ELSE pc[u]]
    /\ list' = [u \in Task |-> IF u \in W THEN "ready" ELSE list[u]]
    /\ wakeAt' = [u \in Task |-> IF u \in W THEN 0 ELSE wakeAt[u]]

Return(t, W) == Go(t, "out", W) /\ call' = [call EXCEPT ![t] = NoCall]
                /\ left' = [left EXCEPT ![t] = 0]

-----------------------------------------------------------------------------
(* The critical section at the top of the loop. *)

(* A pointer at the end of the storage goes back to its head.  Mutant: one *)
(* place late.                                                             *)
AfterLate(p) == IF p + 1 > uxLength THEN 0 ELSE p + 1
After(p) == IF p + 1 >= uxLength THEN 0 ELSE p + 1

prvCopyDataToQueue(item) ==
    /\ items' = [items EXCEPT ![pcWriteTo] = item]
    /\ pcWriteTo' = After(pcWriteTo)
    /\ uxMessagesWaiting' = uxMessagesWaiting + 1
    /\ UNCHANGED pcReadFrom

(* The receiver gets the item at the new read position; nothing reads it   *)
(* there again.                                                            *)
prvCopyDataFromQueue ==
    /\ pcReadFrom' = After(pcReadFrom)
    /\ items' = [items EXCEPT ![After(pcReadFrom)] = <<>>]
    /\ uxMessagesWaiting' = uxMessagesWaiting - 1
    /\ UNCHANGED pcWriteTo

(* There is no room or no item: the call fails, or the time is noted (that  *)
(* of an unbounded wait is never read).                                    *)
Fails(t, c) ==
    /\ IF c.wait = 0 THEN Return(t, {})
       ELSE /\ Go(t, "suspend", {})
            /\ IF c.entry = <<>> /\ c.wait # portMAX_DELAY
               THEN /\ call' = [call EXCEPT ![t] = [c EXCEPT !.entry = Now]]
                    /\ left' = [left EXCEPT ![t] = c.wait]
               ELSE call' = [call EXCEPT ![t] = c] /\ UNCHANGED left
    /\ UNCHANGED <<store, xTickCount>>

TrySend(t, c) ==
    \/ /\ uxMessagesWaiting < uxLength
       /\ prvCopyDataToQueue(c.item)
       /\ \E W \in Wakes("receive") : Return(t, W)
       /\ UNCHANGED xTickCount
    \/ uxMessagesWaiting >= uxLength /\ Fails(t, c)

TryReceive(t, c) ==
    \/ /\ uxMessagesWaiting > 0
       /\ prvCopyDataFromQueue
       /\ \E W \in Wakes("send") : Return(t, W)
       /\ UNCHANGED xTickCount
    \/ uxMessagesWaiting = 0 /\ Fails(t, c)

xQueueGenericSend(t, m, wait) ==
    /\ pc[t] = "out" /\ Runs(t)
    /\ TrySend(t, [op |-> "send", item |-> <<m>>, wait |-> wait, entry |-> <<>>])

xQueueGenericReceive(t, wait) ==
    /\ pc[t] = "out" /\ Runs(t)
    /\ TryReceive(t, [op |-> "receive", item |-> <<>>, wait |-> wait, entry |-> <<>>])

TryAgain(t) ==
    /\ pc[t] \in {"try", "woken"} /\ Runs(t)
    /\ IF call[t].op = "send" THEN TrySend(t, call[t]) ELSE TryReceive(t, call[t])

-----------------------------------------------------------------------------
(* The section with the scheduler suspended. *)

Elapsed(t) == (xTickCount - call[t].entry[1].at) % Ticks

(* xTaskCheckForTimeOut.  Mutant: any overflow since the entry counts as   *)
(* one round of the count.                                                 *)
TimedOutAtOverflow(t) ==
    /\ call[t].wait # portMAX_DELAY
    /\ call[t].entry[1].overflowed \/ Elapsed(t) >= call[t].wait
TimedOut(t) ==
    /\ call[t].wait # portMAX_DELAY
    /\ \/ call[t].entry[1].overflowed /\ xTickCount >= call[t].entry[1].at
       \/ Elapsed(t) >= call[t].wait

Hopeless(t) == IF call[t].op = "send" THEN uxMessagesWaiting = uxLength
               ELSE uxMessagesWaiting = 0

(* The time that is left to wait, from now on. *)
Remaining(t) ==
    IF call[t].wait = portMAX_DELAY THEN call[t]
    ELSE [call[t] EXCEPT !.wait = @ - Elapsed(t), !.entry = Now]

(* A sender whose time is over fails; a receiver looks again.              *)
TimeOut(t) ==
    /\ pc[t] = "suspend" /\ Runs(t) /\ TimedOut(t)
    /\ IF call[t].op = "send" \/ Hopeless(t) THEN Return(t, {})
       ELSE Go(t, "try", {}) /\ UNCHANGED <<call, left>>
    /\ UNCHANGED <<store, xTickCount>>

(* prvAddCurrentTaskToDelayedList.  Mutant: a wake time that has           *)
(* overflowed goes into the list of the others.                            *)
ListForDelayed(t, wait) == IF wait = portMAX_DELAY THEN "suspended" ELSE "delayed"
ListFor(t, wait) ==
    IF wait = portMAX_DELAY THEN "suspended"
    ELSE IF (xTickCount + wait) % Ticks < xTickCount THEN "overflow" ELSE "delayed"

Suspend(t) ==
    /\ pc[t] = "suspend" /\ Runs(t) /\ ~TimedOut(t)
    /\ call' = [call EXCEPT ![t] = Remaining(t)]
    /\ IF Hopeless(t)
       THEN /\ pc' = [pc EXCEPT ![t] = "blocked"]
            /\ list' = [list EXCEPT ![t] = ListFor(t, call'[t].wait)]
            /\ wakeAt' = [wakeAt EXCEPT ![t] = IF call'[t].wait = portMAX_DELAY THEN 0
                                              ELSE (xTickCount + call'[t].wait) % Ticks]
       ELSE Go(t, "try", {})
    /\ UNCHANGED <<store, xTickCount, left>>

-----------------------------------------------------------------------------

(* When the count overflows the two lists of delayed tasks are exchanged. *)
Switched(now) ==
    [t \in Task |-> IF now # 0 THEN list[t]
                    ELSE CASE list[t] = "delayed" -> "overflow"
                           [] list[t] = "overflow" -> "delayed"
                           [] OTHER -> list[t]]

Due(now) == {t \in Task : Switched(now)[t] = "delayed" /\ wakeAt[t] <= now}

Bounded(t) == call[t].entry # <<>>

xTaskIncrementTick ==
    LET now == (xTickCount + 1) % Ticks IN
    /\ \A t \in Task : Bounded(t) => left[t] > -MaxLate
    /\ xTickCount' = now
    /\ pc' = [t \in Task |-> IF t \in Due(now) THEN "try" ELSE pc[t]]
    /\ list' = [t \in Task |-> IF t \in Due(now) THEN "ready" ELSE Switched(now)[t]]
    /\ wakeAt' = [t \in Task |-> IF t \in Due(now) THEN 0 ELSE wakeAt[t]]
    /\ left' = [t \in Task |-> IF Bounded(t) THEN left[t] - 1 ELSE left[t]]
    /\ call' = [t \in Task |-> IF now = 0 /\ call[t].entry # <<>>
                              THEN [call[t] EXCEPT !.entry = Entry(@[1].at, TRUE)] ELSE call[t]]
    /\ UNCHANGED store

(* sys_arch.c *)
sys_mbox_post(t, m) == xQueueGenericSend(t, m, portMAX_DELAY)
sys_mbox_trypost(t, m) == xQueueGenericSend(t, m, 0)
sys_arch_mbox_fetch(t, timeout) ==
    xQueueGenericReceive(t, IF timeout = 0 THEN portMAX_DELAY ELSE timeout)
sys_arch_mbox_tryfetch(t) == xQueueGenericReceive(t, 0)

(* As xQueueGenericReset leaves it. *)
Init ==
    /\ items = [p \in Place |-> <<>>]
    /\ pcWriteTo = 0 /\ pcReadFrom = uxLength - 1 /\ uxMessagesWaiting = 0
    /\ xTickCount = 0
    /\ pc = [t \in Task |-> "out"] /\ call = [t \in Task |-> NoCall]
    /\ list = [t \in Task |-> "ready"] /\ wakeAt = [t \in Task |-> 0]
    /\ left = [t \in Task |-> 0]

Calls(t) ==
    \/ /\ t \in Sender
       /\ \E m \in Message : sys_mbox_post(t, m) \/ sys_mbox_trypost(t, m)
                             \/ \E n \in Timeouts : xQueueGenericSend(t, m, n)
    \/ /\ t \in Receiver
       /\ (\E n \in Timeouts \cup {0} : sys_arch_mbox_fetch(t, n)) \/ sys_arch_mbox_tryfetch(t)
GoesOn(t) == TryAgain(t) \/ TimeOut(t) \/ Suspend(t)

Next == xTaskIncrementTick \/ \E t \in Task : Calls(t) \/ GoesOn(t)

Spec == Init /\ [][Next]_vars

-----------------------------------------------------------------------------

(* Every variable keeps its type. *)
TypeOK ==
    /\ items \in [Place -> {<<m>> : m \in Message} \cup {<<>>}]
    /\ pcWriteTo \in Place /\ pcReadFrom \in Place
    /\ uxMessagesWaiting \in 0..uxLength
    /\ xTickCount \in Tick
    /\ pc \in [Task -> {"out", "try", "woken", "suspend", "blocked"}]
    /\ call \in [Task -> [op : {"none", "send", "receive"},
                          item : {<<m>> : m \in Message} \cup {<<>>},
                          wait : Tick, entry : {<<>>} \cup {<<e>> : e \in [at : Tick, overflowed : BOOLEAN]}]]
    /\ list \in [Task -> {"ready", "delayed", "overflow", "suspended"}]
    /\ wakeAt \in [Task -> Tick]
    /\ left \in [Task -> Int]

(* No wake-up is lost.  While a receiver is blocked, each item is one that *)
(* a woken receiver is about to take; while a sender is blocked, each free *)
(* place is one that a woken sender is about to fill.                      *)
Woken(op) == {t \in Task : pc[t] = "woken" /\ call[t].op = op}
NoLostWakeup ==
    /\ Blocked("receive") # {} => uxMessagesWaiting <= Cardinality(Woken("receive"))
    /\ Blocked("send") # {} => uxLength - uxMessagesWaiting <= Cardinality(Woken("send"))

(* A blocked task with a bounded wait will be woken when that is over,     *)
(* across an overflow of the tick count, and the list of delayed tasks is  *)
(* empty at an overflow, as the kernel asserts.                            *)
WokenInTime ==
    \A t \in Task : pc[t] = "blocked" =>
      IF call[t].wait = portMAX_DELAY THEN list[t] = "suspended"
      ELSE /\ left[t] \in 1..(portMAX_DELAY - 1) /\ (xTickCount + left[t]) % Ticks = wakeAt[t]
           /\ list[t] = IF wakeAt[t] > xTickCount THEN "delayed" ELSE "overflow"

(* A bounded call does not fail before its time is over, and an unbounded  *)
(* one never fails.                                                        *)
FailsInTime ==
    [][\A t \in Task : pc[t] # "out" /\ pc'[t] = "out" /\ uxMessagesWaiting' = uxMessagesWaiting
         => call[t].wait # portMAX_DELAY /\ left[t] <= 0]_vars

(* The queue is a mailbox: what was sent comes out once, in order.         *)
Contents == [i \in 1..uxMessagesWaiting |-> items[(pcReadFrom + i) % uxLength][1]]
Fifo == INSTANCE Mailbox WITH Capacity <- uxLength, box <- Contents
FifoRefined == Fifo!Spec
=============================================================================
