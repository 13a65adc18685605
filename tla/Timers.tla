------------------------------- MODULE Timers -------------------------------
(***************************************************************************)
(* The timers of tcpip_thread (core/timers.c): a list in which each entry  *)
(* holds the time from the one before it, shortened only by the time spent *)
(* waiting for a message.  A timer handler does its work and enters its    *)
(* timer again; the one of TCP only while there are connections, and       *)
(* TCP_REG enters it again when a connection appears.                      *)
(*                                                                         *)
(* Time is a tick of the kernel.  A tick while tcpip_thread works is one   *)
(* the list does not see.                                                  *)
(***************************************************************************)
EXTENDS Integers, Sequences, FiniteSets

CONSTANTS Cyclic,           \* the handlers of sys_timeouts_init
          Tcp,              \* tcpip_tcp_timer
          Interval,         \* the interval of each handler, in ticks
          MEMP_NUM_SYS_TIMEOUT, \* entries there are memory for
          MaxMissed         \* bound: ticks not seen by an entry of the list

Handler == Cyclic \cup {Tcp}
Nobody == "nobody"

ASSUME TimersAssumption ==
    /\ IsFiniteSet(Cyclic) /\ Tcp \notin Cyclic /\ Nobody \notin Handler
    /\ Interval \in [Handler -> Nat \ {0}]
    /\ MEMP_NUM_SYS_TIMEOUT \in Nat /\ MaxMissed \in Nat

VARIABLES timeouts,     \* next_timeout and what follows it
          pc,           \* where tcpip_thread is
          waited,       \* ticks since it began to wait
          current,      \* the handler it runs
          tcpip_tcp_timer_active,
          pcbs,         \* there are active or TIME_WAIT connections
          left,         \* the ticks after which each handler is due
          missed        \* ticks its entry has not seen

vars == <<timeouts, pc, waited, current, tcpip_tcp_timer_active, pcbs, left, missed>>

(* When the i-th entry of a list is due. *)
DueIn(list, i) ==
    LET sum[k \in 0..i] == IF k = 0 THEN 0 ELSE sum[k - 1] + list[k].time IN sum[i]

(* Behind all that are not due later.  Mutant: the entry behind keeps its  *)
(* time.                                                                   *)
Place(list, t) == Cardinality({i \in 1..Len(list) : DueIn(list, i) <= t})

EnteredUncorrected(list, h, t) ==
    LET p == Place(list, t) IN
    [i \in 1..(Len(list) + 1) |->
        IF i <= p THEN list[i]
        ELSE IF i = p + 1 THEN [h |-> h, time |-> t - DueIn(list, p)]
        ELSE list[i - 1]]
Entered(list, h, t) ==
    LET p == Place(list, t) IN
    [i \in 1..(Len(list) + 1) |->
        IF i <= p THEN list[i]
        ELSE IF i = p + 1 THEN [h |-> h, time |-> t - DueIn(list, p)]
        ELSE IF i = p + 2 THEN [h |-> list[p + 1].h, time |-> DueIn(list, p + 1) - t]
        ELSE list[i - 1]]

(* Without memory nothing is entered, and nobody is told. *)
sys_timeout(h) ==
    IF Len(timeouts) < MEMP_NUM_SYS_TIMEOUT
    THEN /\ timeouts' = Entered(timeouts, h, Interval[h])
         /\ left' = [left EXCEPT ![h] = Interval[h]]
         /\ missed' = [missed EXCEPT ![h] = 0]
    ELSE UNCHANGED <<timeouts, left, missed>>

-----------------------------------------------------------------------------

InList(h) == \E i \in 1..Len(timeouts) : timeouts[i].h = h

(* A tick of the kernel, in which the thread waits or has just been woken. *)
TickSeen ==
    /\ \/ pc = "wait" /\ waited < timeouts[1].time
       \/ /\ pc = "woken"
          /\ \A h \in Handler : InList(h) => missed[h] + waited + 1 - timeouts[1].time <= MaxMissed
    /\ waited' = waited + 1
    /\ left' = [h \in Handler |-> IF InList(h) THEN left[h] - 1 ELSE left[h]]
    /\ UNCHANGED <<timeouts, pc, current, tcpip_tcp_timer_active, pcbs, missed>>

(* A tick in which the thread works, or is about to: it counts for no      *)
(* entry.                                                                  *)
TickMissed ==
    /\ \/ pc \in {"message", "handler", "again"}
       \/ pc = "wait" /\ waited = timeouts[1].time
    /\ \A h \in Handler : InList(h) => missed[h] < MaxMissed
    /\ left' = [h \in Handler |-> IF InList(h) THEN left[h] - 1 ELSE left[h]]
    /\ missed' = [h \in Handler |-> IF InList(h) THEN missed[h] + 1 ELSE missed[h]]
    /\ UNCHANGED <<timeouts, pc, waited, current, tcpip_tcp_timer_active, pcbs>>

(* sys_timeouts_mbox_fetch: an entry with no time left is not waited for. *)
Wait ==
    /\ pc = "again" /\ timeouts # <<>> /\ timeouts[1].time > 0
    /\ pc' = "wait" /\ waited' = 0
    /\ UNCHANGED <<timeouts, current, tcpip_tcp_timer_active, pcbs, left, missed>>

(* The first entry's time is over. *)
Expire ==
    /\ timeouts # <<>>
    /\ \/ pc = "again" /\ timeouts[1].time = 0
       \/ pc = "wait" /\ waited = timeouts[1].time
    /\ current' = timeouts[1].h
    /\ timeouts' = Tail(timeouts)
    /\ pc' = "handler" /\ waited' = 0
    /\ UNCHANGED <<tcpip_tcp_timer_active, pcbs, left, missed>>

(* A message comes while the thread waits. *)
Message ==
    /\ pc = "wait"
    /\ pc' = "woken"
    /\ UNCHANGED <<timeouts, waited, current, tcpip_tcp_timer_active, pcbs, left, missed>>

(* The wait is taken off the first entry.                                  *)
Spent == [timeouts EXCEPT ![1].time = IF waited < @ THEN @ - waited ELSE 0]

(* What exceeds the first entry's time is not taken off the later ones. *)
Beyond == IF waited > timeouts[1].time THEN waited - timeouts[1].time ELSE 0
Fetched ==
    /\ pc = "woken"
    /\ missed' = [h \in Handler |-> IF InList(h) THEN missed[h] + Beyond ELSE missed[h]]
    /\ timeouts' = Spent
    /\ pc' = "message" /\ waited' = 0
    /\ UNCHANGED <<current, tcpip_tcp_timer_active, pcbs, left>>

(* The handling of a message may open or end connections.  TCP_REG calls   *)
(* tcp_timer_needed for each new one.                                      *)
Handled(open) ==
    /\ pc = "message"
    /\ pcbs' = open
    /\ IF open /\ ~tcpip_tcp_timer_active
       THEN tcpip_tcp_timer_active' = TRUE /\ sys_timeout(Tcp)
       ELSE UNCHANGED <<tcpip_tcp_timer_active, timeouts, left, missed>>
    /\ pc' = "again"
    /\ UNCHANGED <<waited, current>>

(* tcp_abort and tcp_close in network_task, of lower priority, end one.    *)
NetworkTaskEnds ==
    /\ pc = "wait" /\ pcbs
    /\ pcbs' = FALSE
    /\ UNCHANGED <<timeouts, pc, waited, current, tcpip_tcp_timer_active, left, missed>>

(* ip_reass_timer, arp_timer, dhcp_timer_coarse, dhcp_timer_fine.  Mutant:  *)
(* the handler does not enter its timer again.                             *)
CyclicTimerOnce ==
    /\ pc = "handler" /\ current \in Cyclic
    /\ pc' = "again" /\ current' = Nobody
    /\ UNCHANGED <<timeouts, left, missed, waited, tcpip_tcp_timer_active, pcbs>>
CyclicTimer ==
    /\ pc = "handler" /\ current \in Cyclic
    /\ sys_timeout(current)
    /\ pc' = "again" /\ current' = Nobody
    /\ UNCHANGED <<waited, tcpip_tcp_timer_active, pcbs>>

(* tcp_tmr may end connections.  Mutant: the flag stays set.               *)
tcpip_tcp_timerKeeps(open) ==
    /\ pc = "handler" /\ current = Tcp
    /\ open => pcbs
    /\ pcbs' = open
    /\ IF open THEN sys_timeout(Tcp) ELSE UNCHANGED <<timeouts, left, missed>>
    /\ pc' = "again" /\ current' = Nobody
    /\ UNCHANGED <<waited, tcpip_tcp_timer_active>>
tcpip_tcp_timer(open) ==
    /\ pc = "handler" /\ current = Tcp
    /\ open => pcbs
    /\ pcbs' = open
    /\ IF open
       THEN sys_timeout(Tcp) /\ UNCHANGED tcpip_tcp_timer_active
       ELSE tcpip_tcp_timer_active' = FALSE /\ UNCHANGED <<timeouts, left, missed>>
    /\ pc' = "again" /\ current' = Nobody
    /\ UNCHANGED waited

-----------------------------------------------------------------------------

(* sys_timeouts_init has entered the cyclic ones, in some order. *)
Init ==
    /\ timeouts = <<>> /\ pc = "start" /\ waited = 0 /\ current = Nobody
    /\ tcpip_tcp_timer_active = FALSE /\ pcbs = FALSE
    /\ left = [h \in Handler |-> 0] /\ missed = [h \in Handler |-> 0]

sys_timeouts_init ==
    /\ pc = "start"
    /\ IF \A h \in Cyclic : InList(h)
       THEN pc' = "again" /\ UNCHANGED <<timeouts, left, missed>>
       ELSE /\ \E h \in Cyclic : ~InList(h) /\ sys_timeout(h)
            /\ pc' = pc
    /\ UNCHANGED <<waited, current, tcpip_tcp_timer_active, pcbs>>

tcpip_thread ==
    \/ Wait \/ Expire \/ Fetched \/ CyclicTimer
    \/ \E open \in BOOLEAN : Handled(open) \/ tcpip_tcp_timer(open)

Next == TickSeen \/ TickMissed \/ Message \/ NetworkTaskEnds
        \/ sys_timeouts_init \/ tcpip_thread

Spec == Init /\ [][Next]_vars

(* The thread goes on, and again and again the mailbox stays empty for a   *)
(* tick.                                                                   *)
FairSpec == /\ Spec
            /\ WF_vars(sys_timeouts_init \/ tcpip_thread)
            /\ SF_vars(pc = "wait" /\ TickSeen)

-----------------------------------------------------------------------------

(* The list agrees with the clock: what each entry still has to wait is    *)
(* the time until it is due and the ticks its wait has not seen.  So no    *)
(* timer fires before it is due, and none later than that by more than the *)
(* thread was busy.                                                        *)
InTime ==
    /\ \A i \in 1..Len(timeouts) : LET h == timeouts[i].h IN
         timeouts[i].time >= 0 /\ DueIn(timeouts, i) - waited = left[h] + missed[h]
    /\ pc = "handler" => left[current] <= 0

(* While there are connections the timer of TCP, which retransmits, is     *)
(* entered or runs.                                                        *)
TcpTimed ==
    /\ tcpip_tcp_timer_active <=> InList(Tcp) \/ current = Tcp
    /\ pcbs => tcpip_tcp_timer_active

(* No handler is forgotten: a cyclic one enters itself again each time, and *)
(* a sys_timeout that failed once would end it for good.                   *)
HandlersRun ==
    /\ \A h \in Cyclic : []<>(current = h)
    /\ pcbs ~> (current = Tcp \/ ~pcbs)
=============================================================================
