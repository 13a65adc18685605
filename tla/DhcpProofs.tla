----------------------------- MODULE DhcpProofs -----------------------------
(***************************************************************************)
(* Proofs about the DHCP client of Dhcp: its types, that only an OFFER     *)
(* without SERVER_ID takes its timer away while it waits, that it never    *)
(* uses an address the server has not granted, that it notices the end of  *)
(* a lease, and that it takes the steps of DhcpClient.  The last three     *)
(* assume that there is always memory for a DISCOVER or always for a       *)
(* REQUEST: a message that is not sent brings no new transaction id, and   *)
(* replies of an earlier exchange count again.                             *)
(***************************************************************************)
EXTENDS Dhcp, TLAPS

Client0 == [state : State, tries : 0..(TriesWidth - 1),
            timer : {NoTimer, "set", "due"},
            t1 : 0..(TimerWidth - 1), t2 : 0..(TimerWidth - 1),
            offered : Anyone, terms : BOOLEAN]

(* What d and e have in common when only state, tries and timer differ. *)
SameLease(d, e) == /\ d.t1 = e.t1 /\ d.t2 = e.t2
                   /\ d.offered = e.offered /\ d.terms = e.terms

LEMMA SetState ==
  ASSUME NEW d \in Client0, NEW s \in State
  PROVE  LET e == dhcp_set_state(d, s)
         IN  /\ e \in Client0 /\ e.state = s /\ SameLease(e, d)
             /\ d.state # s => e.tries = 0
<1> DEFINE e == dhcp_set_state(d, s)
<1>1. CASE d.state = s
  BY <1>1 DEF dhcp_set_state, SameLease
<1>2. CASE d.state # s
  <2>1. e = [d EXCEPT !.state = s, !.tries = 0, !.timer = NoTimer]
    BY <1>2 DEF dhcp_set_state
  <2>2. 0 \in 0..(TriesWidth - 1)
    BY DhcpAssumption
  <2> QED
    BY <2>1, <2>2 DEF Client0, SameLease
<1> QED
  BY <1>1, <1>2

LEMMA TriedKeeps ==
  ASSUME NEW d \in Client0
  PROVE  /\ Tried(d) \in Client0 /\ Tried(d).state = d.state
         /\ SameLease(Tried(d), d) /\ Tried(d).timer = "set"
<1>1. (d.tries + 1) % TriesWidth \in 0..(TriesWidth - 1)
  BY DhcpAssumption DEF Client0
<1> QED
  BY <1>1 DEF Client0, Tried, SameLease, NoTimer

(* Where each message under way after a step comes from: it is the new     *)
(* one, or one of ms, and then it is fresh only if it was, and the id is   *)
(* the same.                                                               *)
From(ms, new, renumbered) ==
    \A m \in net' : \/ m = new
                    \/ \E x \in ms : /\ m.type = x.type /\ m.addr = x.addr
                                     /\ m.old = x.old
                                     /\ m.fresh => x.fresh /\ ~renumbered

LEMMA CarriedSubset ==
  ASSUME NEW ms, NEW m, NEW n \in Carried(ms, m)
  PROVE  n \subseteq ms \cup {m}
BY DEF Carried

LEMMA SendKeeps ==
  ASSUME NEW ms \in SUBSET Message, NEW d \in Client0,
         NEW type \in Request, NEW a \in Anyone,
         Send(ms, d, type, a)
  PROVE  /\ net' \subseteq Message
         /\ \/ From(ms, Msg(type, a, TRUE), d.tries = 0)
            \/ type \in Failing /\ net' = ms
<1> DEFINE new == Msg(type, a, TRUE)
<1>1. new \in Message
  BY DEF Msg, Message
<1>2. \A x \in Numbered(ms, d) : x \in Message
                              /\ \E y \in ms : /\ x.type = y.type /\ x.addr = y.addr
                                               /\ x.old = y.old
                                               /\ x.fresh => y.fresh /\ d.tries # 0
  BY DEF Numbered, Outdated, Message
<1>3. CASE net' \in Carried(Numbered(ms, d), new)
  <2>1. net' \subseteq Numbered(ms, d) \cup {new}
    BY <1>3, CarriedSubset
  <2> QED
    BY <2>1, <1>1, <1>2 DEF From
<1>4. CASE type \in Failing /\ net' = ms
  BY <1>4
<1> QED
  BY <1>3, <1>4 DEF Send, Sent

-----------------------------------------------------------------------------
(* The requests of the client *)

(* The step leaves the client as d, but for state s, tries and timer.      *)
Next0(d, s) == /\ dhcp' \in Client0 /\ dhcp'.state = s /\ SameLease(dhcp', d)
               /\ net' \subseteq Message

(* The form of all requests. *)
Asks(ms, d, s, type, a) ==
    LET e == dhcp_set_state(d, s)
    IN  /\ Send(ms, e, type, a)
        /\ dhcp' \in {Tried(e), [Tried(e) EXCEPT !.timer = NoTimer]}

(* ... and their effect *)
Asked(ms, d, s, type, a) ==
    /\ Next0(d, s)
    /\ \/ From(ms, Msg(type, a, TRUE), d.state # s)
       \/ type \in Failing /\ net' = ms

LEMMA AsksDoes ==
  ASSUME TypeOK, NEW ms \in SUBSET Message, NEW d \in Client0, NEW s \in State,
         NEW type \in Request, NEW a \in Anyone, Asks(ms, d, s, type, a)
  PROVE  Asked(ms, d, s, type, a)
<1> DEFINE e == dhcp_set_state(d, s)
<1>1. e \in Client0 /\ e.state = s /\ SameLease(e, d) /\ (d.state # s => e.tries = 0)
  BY SetState
<1>2. Send(ms, e, type, a) /\ dhcp' \in {Tried(e), [Tried(e) EXCEPT !.timer = NoTimer]}
  BY DEF Asks
<1> HIDE DEF e
<1>3. /\ net' \subseteq Message
      /\ \/ From(ms, Msg(type, a, TRUE), e.tries = 0)
         \/ type \in Failing /\ net' = ms
  BY <1>1, <1>2, SendKeeps
<1>4. Tried(e) \in Client0 /\ Tried(e).state = s /\ SameLease(Tried(e), e)
  BY <1>1, TriedKeeps
<1>5. dhcp' \in Client0 /\ dhcp'.state = s /\ SameLease(dhcp', d)
  BY <1>1, <1>2, <1>4 DEF SameLease, Client0
<1> QED
  BY <1>1, <1>3, <1>5 DEF Asked, Next0, From

LEMMA Discover ==
  ASSUME TypeOK, NEW ms \in SUBSET Message, NEW d \in Client0, dhcp_discover(ms, d)
  PROVE  Asked(ms, [d EXCEPT !.offered = IP_ADDR_ANY], "SELECTING", "DISCOVER", IP_ADDR_ANY)
<1>1. [d EXCEPT !.offered = IP_ADDR_ANY] \in Client0
  BY DEF Client0, Anyone
<1> QED
  BY <1>1, AsksDoes DEF dhcp_discover, Asks, State, Request, Anyone

LEMMA Select ==
  ASSUME TypeOK, NEW ms \in SUBSET Message, NEW d \in Client0, dhcp_select(ms, d)
  PROVE  Asked(ms, d, "REQUESTING", "REQUEST", d.offered)
<1>1. dhcp_set_state(d, "REQUESTING").offered = d.offered /\ d.offered \in Anyone
  BY SetState DEF SameLease, State, Client0
<1> QED
  BY <1>1, AsksDoes DEF dhcp_select, Asks, State, Request

LEMMA Decline ==
  ASSUME TypeOK, NEW ms \in SUBSET Message, NEW d \in Client0, dhcp_decline(ms, d)
  PROVE  Asked(ms, d, "BACKING_OFF", "DECLINE", d.offered)
<1>1. dhcp_set_state(d, "BACKING_OFF").offered = d.offered /\ d.offered \in Anyone
  BY SetState DEF SameLease, State, Client0
<1> QED
  BY <1>1, AsksDoes DEF dhcp_decline, Asks, State, Request

LEMMA Renew ==
  ASSUME TypeOK, NEW ms \in SUBSET Message, NEW d \in Client0, dhcp_renew(ms, d)
  PROVE  Asked(ms, d, "RENEWING", "RENEW", addr)
<1>1. Asks(ms, d, "RENEWING", "RENEW", addr)
  BY DEF dhcp_renew, Asks
<1> QED
  BY <1>1, AsksDoes DEF TypeOK, State, Request

LEMMA Rebind ==
  ASSUME TypeOK, NEW ms \in SUBSET Message, NEW d \in Client0, dhcp_rebind(ms, d)
  PROVE  Asked(ms, d, "REBINDING", "RENEW", addr)
<1>1. Asks(ms, d, "REBINDING", "RENEW", addr)
  BY DEF dhcp_rebind, Asks
<1> QED
  BY <1>1, AsksDoes DEF TypeOK, State, Request

LEMMA Check ==
  ASSUME NEW d \in Client0, NEW ticked \in BOOLEAN, dhcp_check(d, ticked)
  PROVE  /\ dhcp' \in Client0 /\ dhcp'.state = "CHECKING" /\ SameLease(dhcp', d)
         /\ dhcp'.timer = IF ticked THEN "due" ELSE "set"
<1> DEFINE e == dhcp_set_state(d, "CHECKING")
<1>1. e \in Client0 /\ e.state = "CHECKING" /\ SameLease(e, d)
  BY SetState DEF State
<1>2. dhcp' = [Tried(e) EXCEPT !.timer = IF ticked THEN "due" ELSE "set"]
  BY DEF dhcp_check
<1> HIDE DEF e
<1>3. Tried(e) \in Client0 /\ Tried(e).state = "CHECKING" /\ SameLease(Tried(e), e)
  BY <1>1, TriedKeeps
<1> QED
  BY <1>1, <1>2, <1>3 DEF Client0, SameLease

LEMMA Bind ==
  ASSUME NEW d \in Client0, dhcp_bind(d)
  PROVE  /\ dhcp' \in Client0 /\ dhcp'.state = "BOUND" /\ addr' = d.offered
         /\ dhcp'.offered = d.offered /\ dhcp'.t2 \in {1, T2}
<1> DEFINE f == [d EXCEPT !.t1 = LeaseTimers(d).t1, !.t2 = LeaseTimers(d).t2]
<1>1. LeaseTimers(d).t1 \in 0..(TimerWidth - 1) /\ LeaseTimers(d).t2 \in 0..(TimerWidth - 1)
      /\ LeaseTimers(d).t2 \in {1, T2}
  BY DhcpAssumption DEF LeaseTimers, Client0
<1>2. f \in Client0 /\ f.t2 = LeaseTimers(d).t2 /\ f.offered = d.offered
  BY <1>1 DEF Client0
<1>3. dhcp' = dhcp_set_state(f, "BOUND") /\ addr' = d.offered
  BY DEF dhcp_bind
<1> HIDE DEF f
<1> QED
  BY <1>1, <1>2, <1>3, SetState DEF SameLease, State

(* A minute of the client *)
Ticked(d, e) == /\ e \in Client0 /\ e.state = d.state /\ e.timer = d.timer
                /\ e.offered = d.offered /\ e.terms = d.terms
                /\ e.t2 = IF d.t2 = 1 THEN 0 ELSE Less(d.t2)

LEMMA LessShape ==
  ASSUME NEW n \in 0..(TimerWidth - 1)
  PROVE  Less(n) \in 0..(TimerWidth - 1) /\ (n >= 1 => Less(n) = n - 1)
BY DhcpAssumption DEF Less

LEMMA CoarseDoes ==
  ASSUME TypeOK, NEW ms \in SUBSET Message, NEW d \in Client0, CoarseTimer(ms, d)
  PROVE  \E e \in Client0 :
            /\ Ticked(d, e)
            /\ \/ HasLease(d) /\ d.t2 = 1 /\ Asked(ms, e, "REBINDING", "RENEW", addr)
               \/ HasLease(d) /\ d.t2 # 1 /\ Asked(ms, e, "RENEWING", "RENEW", addr)
               \/ /\ dhcp' = e /\ net' = ms
                  /\ HasLease(d) => d.t2 # 1
<1>1. CASE d.t2 = 1
  <2> DEFINE e == [d EXCEPT !.t2 = 0]
  <2>1. e \in Client0 /\ Ticked(d, e) /\ HasLease(e) = HasLease(d)
    BY <1>1, DhcpAssumption DEF Client0, Ticked, HasLease
  <2>2. dhcp_t2_timeout(ms, e)
    BY <1>1 DEF CoarseTimer
  <2> HIDE DEF e
  <2>3. CASE HasLease(d)
    BY <1>1, <2>1, <2>2, <2>3, Rebind DEF dhcp_t2_timeout
  <2>4. CASE ~HasLease(d)
    BY <2>1, <2>2, <2>4 DEF dhcp_t2_timeout
  <2> QED
    BY <2>3, <2>4
<1>2. CASE d.t2 # 1
  <2> DEFINE e == [d EXCEPT !.t2 = Less(d.t2), !.t1 = Less(d.t1)]
  <2>1. e \in Client0 /\ Ticked(d, e) /\ HasLease(e) = HasLease(d)
    BY <1>2, LessShape DEF Client0, Ticked, HasLease
  <2>2. IF d.t1 = 1 THEN dhcp_t1_timeout(ms, e)
        ELSE dhcp' = e /\ net' = ms
    BY <1>2 DEF CoarseTimer
  <2> HIDE DEF e
  <2>3. CASE d.t1 = 1 /\ HasLease(d)
    BY <1>2, <2>1, <2>2, <2>3, Renew DEF dhcp_t1_timeout
  <2>4. CASE d.t1 = 1 /\ ~HasLease(d)
    BY <2>1, <2>2, <2>4 DEF dhcp_t1_timeout
  <2>5. CASE d.t1 # 1
    BY <1>2, <2>1, <2>2, <2>5
  <2> QED
    BY <2>3, <2>4, <2>5
<1> QED
  BY <1>1, <1>2

LEMMA AgedShape ==
  ASSUME TypeOK
  PROVE  /\ Aged \subseteq Message
         /\ \A m \in Aged : m.old /\ \E x \in net : /\ m.type = x.type /\ m.addr = x.addr
                                                 /\ m.fresh = x.fresh /\ ~x.old
<1>1. ASSUME NEW m \in Aged
      PROVE  m \in Message /\ m.old /\ \E x \in net : /\ m.type = x.type /\ m.addr = x.addr
                                                   /\ m.fresh = x.fresh /\ ~x.old
  <2>1. PICK x \in net : ~x.old /\ m = [x EXCEPT !.old = TRUE]
    BY DEF Aged
  <2>2. x \in Message
    BY DEF TypeOK
  <2> QED
    BY <2>1, <2>2 DEF Message
<1> QED
  BY <1>1

-----------------------------------------------------------------------------
(* Types *)

LEMMA InitType == Init => TypeOK
BY DhcpAssumption DEF Init, TypeOK, Cleared, State, NoTimer, Anyone

LEMMA StartShape ==
  Cleared \in Client0
BY DhcpAssumption DEF Cleared, Client0, State, NoTimer, Anyone

(* A start that does not fail is a search. *)
LEMMA Starts ==
  ASSUME TypeOK, dhcp_start
  PROVE  \/ Asked(net, Cleared, "SELECTING", "DISCOVER", IP_ADDR_ANY)
         \/ dhcp' = Cleared /\ net' = net
<1>1. \/ Asks(net, Cleared, "SELECTING", "DISCOVER", IP_ADDR_ANY)
      \/ dhcp' = Cleared /\ net' = net
  BY DEF dhcp_start, Asks, Send
<1>2. net \in SUBSET Message /\ "SELECTING" \in State /\ "DISCOVER" \in Request
      /\ IP_ADDR_ANY \in Anyone
  BY DEF TypeOK, State, Request, Anyone
<1> QED
  BY <1>1, <1>2, AsksDoes, StartShape

LEMMA DeliveryShape ==
  ASSUME NEW m \in net, NEW ms \in AfterDelivery(m)
  PROVE  ms \subseteq net
BY DEF AfterDelivery

LEMMA AnswerShape ==
  ASSUME TypeOK, NEW m \in net, NEW type \in Reply, NEW a \in Anyone,
         Answer(m, type, a)
  PROVE  net' \subseteq Message /\ net' \subseteq net \cup {Msg(type, a, m.fresh)}
<1>1. Msg(type, a, m.fresh) \in Message
  BY DEF Msg, Message, TypeOK
<1>2. PICK ms \in AfterDelivery(m) : net' \in Carried(ms, Msg(type, a, m.fresh))
  BY DEF Answer
<1>3. net' \subseteq net \cup {Msg(type, a, m.fresh)}
  BY <1>2, DeliveryShape, CarriedSubset
<1> QED
  BY <1>1, <1>3 DEF TypeOK

(* The client has been changed, and what is under way. *)
ClientType == dhcp' \in Client0 /\ addr' \in Anyone /\ net' \subseteq Message

LEMMA ClientTypeOK ==
  ASSUME TypeOK, ClientType, UNCHANGED server
  PROVE  TypeOK'
BY DEF TypeOK, ClientType, Client0, server

LEMMA AskedType ==
  ASSUME NEW ms, NEW d, NEW s, NEW type, NEW a, Asked(ms, d, s, type, a),
         addr' \in Anyone
  PROVE  ClientType
BY DEF Asked, Next0, ClientType

LEMMA ReleasedShape ==
  ASSUME NEW d \in Client0
  PROVE  Released(d) \in Client0 /\ Released(d).state = "OFF"
<1>1. [d EXCEPT !.offered = IP_ADDR_ANY, !.terms = FALSE] \in Client0
  BY DEF Client0, Anyone
<1> QED
  BY <1>1, SetState DEF Released, State

LEMMA OutdatedShape ==
  ASSUME TypeOK
  PROVE  /\ Outdated(net) \subseteq Message
         /\ \A m \in Outdated(net) : ~m.fresh /\ \E x \in net : m.type = x.type /\ m.addr = x.addr
<1>1. ASSUME NEW m \in Outdated(net)
      PROVE  m \in Message /\ ~m.fresh /\ \E x \in net : m.type = x.type /\ m.addr = x.addr
  <2>1. PICK x \in net : m = [x EXCEPT !.fresh = FALSE]
    BY DEF Outdated
  <2>2. x \in Message
    BY DEF TypeOK
  <2> QED
    BY <2>1, <2>2 DEF Message
<1> QED
  BY <1>1

LEMMA StepType == TypeOK /\ [Next]_vars => TypeOK'
<1> SUFFICES ASSUME TypeOK, [Next]_vars PROVE TypeOK'
  OBVIOUS
<1>0. /\ dhcp \in Client0 /\ addr \in Anyone /\ IP_ADDR_ANY \in Anyone
      /\ net \in SUBSET Message
  BY DEF TypeOK, Client0, Anyone
<1>1. CASE dhcp_start
  <2>1. CASE Asked(net, Cleared, "SELECTING", "DISCOVER", IP_ADDR_ANY)
    BY <1>0, <1>1, <2>1, AskedType, ClientTypeOK DEF dhcp_start
  <2>2. CASE dhcp' = Cleared /\ net' = net
    BY <1>0, <1>1, <2>2, StartShape, ClientTypeOK DEF dhcp_start, ClientType
  <2> QED
    BY <1>1, <2>1, <2>2, Starts
<1>2. CASE dhcp_stop
  BY <1>0, <1>2, StartShape, ClientTypeOK DEF dhcp_stop, ClientType
<1>3. CASE RecvOffer
  <2>1. PICK m \in net : \E ms \in AfterDelivery(m) :
          dhcp_select(ms, [dhcp EXCEPT !.timer = NoTimer, !.offered = m.addr])
    BY <1>3 DEF RecvOffer
  <2>2. PICK ms \in AfterDelivery(m) :
          dhcp_select(ms, [dhcp EXCEPT !.timer = NoTimer, !.offered = m.addr])
    BY <2>1
  <2>3. [dhcp EXCEPT !.timer = NoTimer, !.offered = m.addr] \in Client0
    BY <1>0 DEF Client0, Message
  <2>4. ms \in SUBSET Message
    BY <1>0, <2>1, DeliveryShape
  <2> QED
    BY <1>0, <1>3, <2>2, <2>3, <2>4, Select, AskedType, ClientTypeOK DEF RecvOffer
<1>3a. CASE RecvNameless
  <2>1. net' \subseteq Message
    BY <1>0, <1>3a, DeliveryShape DEF RecvNameless
  <2>2. dhcp' \in Client0
    BY <1>0, <1>3a DEF RecvNameless, Client0
  <2> QED
    BY <1>0, <1>3a, <2>1, <2>2, ClientTypeOK DEF RecvNameless, ClientType
<1>4. CASE RecvFirstAck
  <2>1. PICK m \in net : /\ net' \in AfterDelivery(m)
                         /\ dhcp_check([dhcp EXCEPT !.offered = m.addr, !.terms = TRUE], m.old)
    BY <1>4 DEF RecvFirstAck
  <2>2. [dhcp EXCEPT !.offered = m.addr, !.terms = TRUE] \in Client0 /\ m.old \in BOOLEAN
    BY <1>0 DEF Client0, Message
  <2>3. net' \subseteq Message
    BY <1>0, <2>1, DeliveryShape
  <2> QED
    BY <1>0, <1>4, <2>1, <2>2, <2>3, Check, ClientTypeOK DEF RecvFirstAck, ClientType
<1>5. CASE RecvLaterAck
  <2>1. net' \subseteq Message
    BY <1>0, <1>5, DeliveryShape DEF RecvLaterAck
  <2>2. dhcp.offered \in Anyone
    BY <1>0 DEF Client0
  <2> QED
    BY <1>0, <1>5, <2>1, <2>2, Bind, ClientTypeOK DEF RecvLaterAck, ClientType
<1>6. CASE RecvNak
  <2>1. PICK m \in net : \E ms \in AfterDelivery(m) :
          dhcp_discover(ms, dhcp_set_state(dhcp, "BACKING_OFF"))
    BY <1>6 DEF RecvNak
  <2>2. PICK ms \in AfterDelivery(m) :
          dhcp_discover(ms, dhcp_set_state(dhcp, "BACKING_OFF"))
    BY <2>1
  <2>3. dhcp_set_state(dhcp, "BACKING_OFF") \in Client0
    BY <1>0, SetState DEF State
  <2>4. ms \in SUBSET Message
    BY <1>0, <2>1, DeliveryShape
  <2> QED
    BY <1>0, <1>6, <2>2, <2>3, <2>4, Discover, AskedType, ClientTypeOK DEF RecvNak
<1>7. CASE dhcp_arp_reply
  BY <1>0, <1>7, Decline, AskedType, ClientTypeOK DEF dhcp_arp_reply
<1>8. CASE AskAgain
  BY <1>0, <1>8, Discover, Select, Renew, Rebind, AskedType, ClientTypeOK DEF AskAgain
<1>9. CASE GiveUp
  <2>1. PICK ms \in {Outdated(net)} \cup (IF "RELEASE" \in Failing THEN {net} ELSE {}) :
          dhcp_discover(ms, Released(dhcp))
    BY <1>9 DEF GiveUp, ReleaseAndDiscover
  <2>2. ms \in SUBSET Message
    BY <1>0, <2>1, OutdatedShape
  <2> QED
    BY <1>0, <1>9, <2>1, <2>2, ReleasedShape, Discover, AskedType, ClientTypeOK
       DEF GiveUp, ReleaseAndDiscover
<1>10. CASE CheckAgain
  BY <1>0, <1>10, Check, ClientTypeOK DEF CheckAgain, ClientType
<1>11. CASE CheckDone
  <2>1. dhcp.offered \in Anyone
    BY <1>0 DEF Client0
  <2> QED
    BY <1>0, <1>11, <2>1, Bind, ClientTypeOK DEF CheckDone, ClientType
<1>12. CASE BackOffEnds
  <2>1. {m \in net : m.type \in Reply} \in SUBSET Message
    BY <1>0
  <2> QED
    BY <1>0, <1>12, <2>1, Discover, AskedType, ClientTypeOK DEF BackOffEnds
<1>13. CASE dhcp_coarse_tmr
  <2>1. left' \in [Address -> (-MaxOverdue)..Lease]
    BY <1>13, DhcpAssumption DEF dhcp_coarse_tmr, TypeOK
  <2>2. ClientType
    <3>1. CASE dhcp.state = "OFF"
      BY <1>0, <1>13, <3>1, AgedShape DEF dhcp_coarse_tmr, ClientType
    <3>2. CASE dhcp.state # "OFF"
      <4> DEFINE d == [dhcp EXCEPT !.timer = IF dhcp.timer = "set" THEN "due" ELSE dhcp.timer]
      <4>1. d \in Client0
        BY <1>0 DEF Client0
      <4>2. CoarseTimer(Aged, d)
        BY <1>13, <3>2 DEF dhcp_coarse_tmr
      <4>3. addr' \in Anyone
        BY <1>0, <1>13 DEF dhcp_coarse_tmr
      <4> HIDE DEF d
      <4>4. PICK e \in Client0 :
                \/ Asked(Aged, e, "REBINDING", "RENEW", addr)
                \/ Asked(Aged, e, "RENEWING", "RENEW", addr)
                \/ dhcp' = e /\ net' = Aged
        BY <4>1, <4>2, AgedShape, CoarseDoes
      <4> QED
        BY <1>0, <4>3, <4>4, AskedType, AgedShape DEF ClientType
    <3> QED
      BY <3>1, <3>2
  <2> QED
    BY <1>13, <2>1, <2>2 DEF dhcp_coarse_tmr, TypeOK, ClientType, Client0
<1>14. CASE ServerOffers
  <2>1. net' \subseteq Message
    BY <1>14, AnswerShape DEF ServerOffers, Reply, Anyone
  <2> QED
    BY <1>0, <1>14, <2>1, ClientTypeOK DEF ServerOffers, ClientType, client
<1>14a. CASE ServerForgetsName
  <2>1. net' \subseteq Message
    BY <1>0, <1>14a, AnswerShape DEF ServerForgetsName, Reply
  <2> QED
    BY <1>0, <1>14a, <2>1, ClientTypeOK DEF ServerForgetsName, ClientType, client
<1>15. CASE ServerAcks
  <2>1. PICK m \in net : /\ m.addr # IP_ADDR_ANY
                         /\ Answer(m, "ACK", m.addr)
                         /\ granted' = [granted EXCEPT ![m.addr] = "us"]
                         /\ left' = [left EXCEPT ![m.addr] = Lease]
    BY <1>15 DEF ServerAcks
  <2>2. m.addr \in Address
    BY <1>0, <2>1 DEF Message, Anyone
  <2>3. net' \subseteq Message
    BY <2>1, <2>2, AnswerShape DEF Reply, Anyone
  <2>4. Lease \in (-MaxOverdue)..Lease
    BY DhcpAssumption
  <2>5. left' \in [Address -> (-MaxOverdue)..Lease]
    BY <2>1, <2>4 DEF TypeOK
  <2> QED
    BY <1>15, <2>1, <2>3, <2>5 DEF ServerAcks, client, TypeOK
<1>16. CASE ServerNaks
  <2>1. net' \subseteq Message
    BY <1>0, <1>16, AnswerShape DEF ServerNaks, Reply
  <2> QED
    BY <1>0, <1>16, <2>1, ClientTypeOK DEF ServerNaks, ClientType, client
<1>17. CASE ServerNotesDecline
  <2>1. PICK m \in net : /\ net' \in AfterDelivery(m)
                         /\ granted' = [granted EXCEPT ![m.addr] = "declined"]
                         /\ left' = [left EXCEPT ![m.addr] = 0]
    BY <1>17 DEF ServerNotesDecline
  <2>2. net' \subseteq Message
    BY <1>0, <2>1, DeliveryShape
  <2>3. 0 \in (-MaxOverdue)..Lease
    BY DhcpAssumption
  <2>4. left' \in [Address -> (-MaxOverdue)..Lease]
    BY <2>1, <2>3 DEF TypeOK
  <2> QED
    BY <1>17, <2>1, <2>2, <2>4 DEF ServerNotesDecline, client, TypeOK
<1>18. CASE LeaseEnds
  BY <1>18 DEF LeaseEnds, client, TypeOK
<1>19. CASE Lose
  BY <1>0, <1>19, ClientTypeOK DEF Lose, ClientType, client
<1>20. CASE UNCHANGED vars
  BY <1>20 DEF vars, client, server, TypeOK
<1> QED
  BY <1>1, <1>2, <1>3, <1>3a, <1>4, <1>5, <1>6, <1>7, <1>8, <1>9, <1>10, <1>11, <1>12, <1>13,
     <1>14, <1>14a, <1>15, <1>16, <1>17, <1>18, <1>19, <1>20
     DEF Next, Replies, dhcp_fine_tmr, Server

(* Client, interface, messages and ledger keep their types; in particular  *)
(* the two 16-bit timers and the 8-bit count of tries stay in their width. *)
THEOREM TypeCorrect == Spec => []TypeOK
<1> QED
  BY InitType, StepType, PTL DEF Spec

-----------------------------------------------------------------------------
(* A state in which the client waits for something only ends, when nothing *)
(* comes, by request_timeout.  (BOUND and RENEWING end by T1 and T2.)      *)
Waits == {"SELECTING", "REQUESTING", "CHECKING", "BACKING_OFF", "REBINDING"}
Attended == dhcp.state \in Waits => dhcp.timer # NoTimer

LEMMA RequestTimed ==
  ASSUME NEW d \in Client0, NEW s \in State
  PROVE  /\ Tried(dhcp_set_state(d, s)).timer # NoTimer
         /\ Tried(dhcp_set_state(d, s)).state = s
BY SetState, TriedKeeps DEF NoTimer

(* A minute does not stop request_timeout, but in a state of its own. *)
LEMMA CoarseTimed ==
  ASSUME TypeOK, NEW ms \in SUBSET Message, NEW d \in Client0, CoarseTimer(ms, d)
  PROVE  \/ dhcp'.timer # NoTimer \/ dhcp'.state = "RENEWING"
         \/ dhcp'.timer = d.timer /\ dhcp'.state = d.state
<1>1. PICK e \in Client0 :
          /\ e.state = d.state /\ e.timer = d.timer
          /\ dhcp_rebind(ms, e) \/ dhcp_renew(ms, e) \/ dhcp' = e
  <2>1. CASE d.t2 = 1
    <3>1. [d EXCEPT !.t2 = 0] \in Client0
      BY DhcpAssumption DEF Client0
    <3> QED
      BY <2>1, <3>1 DEF CoarseTimer, dhcp_t2_timeout, Client0
  <2>2. CASE d.t2 # 1
    <3>1. [d EXCEPT !.t2 = Less(d.t2), !.t1 = Less(d.t1)] \in Client0
      BY LessShape DEF Client0
    <3> QED
      BY <2>2, <3>1 DEF CoarseTimer, dhcp_t1_timeout, Client0
  <2> QED
    BY <2>1, <2>2
<1>2. CASE dhcp_rebind(ms, e)
  BY <1>2, RequestTimed DEF dhcp_rebind, State
<1>3. CASE dhcp_renew(ms, e)
  BY <1>3, Renew DEF Asked, Next0
<1> QED
  BY <1>1, <1>2, <1>3

LEMMA StepAttended ==
  ASSUME TypeOK, Attended, [Next]_vars
  PROVE  Attended' \/ RecvNameless
<1>0. dhcp \in Client0 /\ net \in SUBSET Message /\ Cleared \in Client0 /\ Cleared.state = "OFF"
  BY StartShape DEF TypeOK, Client0, Cleared
<1>1. CASE dhcp_start \/ dhcp_stop
  BY <1>0, <1>1, RequestTimed DEF dhcp_start, dhcp_stop, Attended, Waits, State
<1>2. CASE RecvOffer
  <2>1. PICK m \in net : \E ms \in AfterDelivery(m) :
          dhcp_select(ms, [dhcp EXCEPT !.timer = NoTimer, !.offered = m.addr])
    BY <1>2 DEF RecvOffer
  <2>2. [dhcp EXCEPT !.timer = NoTimer, !.offered = m.addr] \in Client0
    BY <1>0 DEF Client0, Message
  <2> QED
    BY <2>1, <2>2, RequestTimed DEF dhcp_select, Attended, State
<1>3. CASE RecvFirstAck
  <2>1. PICK m \in net :
          dhcp_check([dhcp EXCEPT !.offered = m.addr, !.terms = TRUE], m.old)
    BY <1>3 DEF RecvFirstAck
  <2>2. [dhcp EXCEPT !.offered = m.addr, !.terms = TRUE] \in Client0 /\ m.old \in BOOLEAN
    BY <1>0 DEF Client0, Message
  <2> QED
    BY <2>1, <2>2, Check DEF Attended, NoTimer
<1>4. CASE RecvLaterAck \/ CheckDone
  BY <1>0, <1>4, Bind DEF RecvLaterAck, CheckDone, Attended, Waits
<1>5. CASE RecvNak \/ GiveUp \/ BackOffEnds
  <2>1. PICK d \in Client0 : \E ms : dhcp_discover(ms, d)
    <3>1. dhcp_set_state(dhcp, "BACKING_OFF") \in Client0 /\ Released(dhcp) \in Client0
      BY <1>0, SetState, ReleasedShape DEF State
    <3>2. \/ \E ms : dhcp_discover(ms, dhcp_set_state(dhcp, "BACKING_OFF"))
          \/ \E ms : dhcp_discover(ms, Released(dhcp))
          \/ \E ms : dhcp_discover(ms, dhcp)
      BY <1>5 DEF RecvNak, GiveUp, ReleaseAndDiscover, BackOffEnds
    <3> QED
      BY <1>0, <3>1, <3>2
  <2>2. [d EXCEPT !.offered = IP_ADDR_ANY] \in Client0
    BY DEF Client0, Anyone
  <2> QED
    BY <2>1, <2>2, RequestTimed DEF dhcp_discover, Attended, State
<1>6. CASE dhcp_arp_reply
  BY <1>0, <1>6, RequestTimed DEF dhcp_arp_reply, dhcp_decline, Attended, State
<1>7. CASE AskAgain
  <2>1. [dhcp EXCEPT !.offered = IP_ADDR_ANY] \in Client0
    BY <1>0 DEF Client0, Anyone
  <2>2. CASE dhcp_renew(net, dhcp)
    BY <1>0, <2>2, Renew DEF Asked, Next0, Attended, Waits
  <2> QED
    BY <1>0, <1>7, <2>1, <2>2, RequestTimed
       DEF AskAgain, dhcp_discover, dhcp_select, dhcp_rebind, Attended, State
<1>8. CASE CheckAgain
  BY <1>0, <1>8, Check DEF CheckAgain, Attended, NoTimer
<1>9. CASE dhcp_coarse_tmr
  <2>1. CASE dhcp.state = "OFF"
    BY <1>9, <2>1 DEF dhcp_coarse_tmr, Attended, Waits
  <2>2. CASE dhcp.state # "OFF"
    <3> DEFINE d == [dhcp EXCEPT !.timer = IF dhcp.timer = "set" THEN "due" ELSE dhcp.timer]
    <3>1. d \in Client0 /\ d.state = dhcp.state /\ (dhcp.timer # NoTimer => d.timer # NoTimer)
      BY <1>0 DEF Client0, NoTimer
    <3>2. CoarseTimer(Aged, d)
      BY <1>9, <2>2 DEF dhcp_coarse_tmr
    <3> HIDE DEF d
    <3> QED
      BY <3>1, <3>2, AgedShape, CoarseTimed DEF Attended, Waits
  <2> QED
    BY <2>1, <2>2
<1>10. CASE Server \/ Lose \/ UNCHANGED vars
  BY <1>10 DEF Server, ServerOffers, ServerForgetsName, ServerAcks, ServerNaks,
               ServerNotesDecline, LeaseEnds, Lose, vars, client, Attended
<1> QED
  BY <1>1, <1>2, <1>3, <1>4, <1>5, <1>6, <1>7, <1>8, <1>9, <1>10
     DEF Next, Replies, dhcp_fine_tmr

(* Only an OFFER without SERVER_ID ever leaves the client waiting without  *)
(* a timer: whatever else is lost, late or repeated, and whichever message *)
(* gets no memory, every state in which it waits has one running.          *)
THEOREM OnlyNamelessStrands == Spec => [][Attended => Attended' \/ RecvNameless]_vars
<1>1. TypeOK /\ [Next]_vars => [Attended => Attended' \/ RecvNameless]_vars
  BY StepAttended
<1> QED
  BY <1>1, InitType, StepType, PTL DEF Spec

-----------------------------------------------------------------------------
(* The lease.  The inductive invariant: from the request on, all that is   *)
(* under way with the expected id is about one address, dhcp.offered; an   *)
(* answer of the server, an address under check and a lease in use each    *)
(* rest on a grant, whose age they bound; a DECLINE is under way only      *)
(* while the client backs off, when nothing of the exchange is left; and   *)
(* nothing of an earlier exchange is left in a search, if there is memory  *)
(* for its first DISCOVER.                                                 *)

Memory == ~("DISCOVER" \in Failing /\ "REQUEST" \in Failing)

Holding == {"BOUND", "RENEWING", "REBINDING"}
Live == {"REQUESTING", "CHECKING"} \cup Holding

Talk(m) == m.fresh /\ m.type \in {"REQUEST", "RENEW", "ACK"} /\ m.addr # IP_ADDR_ANY

(* Granted a full lease ago less, if late, one tick. *)
Covered(a, late) == /\ a \in Address /\ granted[a] \in {"us", "lapsed"}
                    /\ left[a] >= IF late THEN Lease - 1 ELSE Lease

Exchange == dhcp.state \in Live => \A m \in net : Talk(m) => m.addr = dhcp.offered

Answers == \A m \in net : m.type = "ACK" =>
                m.addr # IP_ADDR_ANY /\ (m.fresh => Covered(m.addr, m.old))

Checking == dhcp.state = "CHECKING" =>
                dhcp.timer # NoTimer /\ Covered(dhcp.offered, dhcp.timer = "due")

Leased == addr # IP_ADDR_ANY =>
                /\ addr = dhcp.offered /\ dhcp.state \in Holding
                /\ granted[addr] \in {"us", "lapsed"}
                /\ T2 <= Lease /\ dhcp.state # "REBINDING"
                       => dhcp.t2 >= 1 /\ left[addr] >= dhcp.t2 - 1

Declined == \A m \in net : m.type = "DECLINE" =>
                /\ dhcp.state = "BACKING_OFF" /\ m.addr # IP_ADDR_ANY
                /\ \A x \in net : ~Talk(x)

Searching == "DISCOVER" \notin Failing /\ dhcp.state = "SELECTING"
                 => \A m \in net : ~Talk(m)

Grants == Exchange /\ Answers /\ Checking /\ Leased /\ Declined /\ Searching

LEMMA InitGrants == Init => Grants
BY DEF Init, Grants, Exchange, Answers, Checking, Leased, Declined, Searching, Cleared, Anyone

(* What is under way after a request, but for the request itself, was so   *)
(* before.                                                                 *)
LEMMA AskedFrom ==
  ASSUME NEW ms \in SUBSET Message, NEW d, NEW s, NEW type, NEW a,
         Asked(ms, d, s, type, a)
  PROVE  From(ms, Msg(type, a, TRUE), FALSE)
<1>1. CASE From(ms, Msg(type, a, TRUE), d.state # s)
  BY <1>1 DEF From
<1>2. CASE net' = ms
  BY <1>2 DEF From
<1> QED
  BY <1>1, <1>2 DEF Asked

(* A search begins or goes on. *)
LEMMA SearchGrants ==
  ASSUME NEW ms \in SUBSET Message, NEW d \in Client0,
         Asked(ms, d, "SELECTING", "DISCOVER", IP_ADDR_ANY),
         addr' = IP_ADDR_ANY,
         \A x \in ms : /\ x.type # "DECLINE"
                       /\ x.type = "ACK" => x.addr # IP_ADDR_ANY
                       /\ x.type = "ACK" /\ x.fresh => Covered(x.addr, x.old)'
                       /\ Talk(x) /\ "DISCOVER" \notin Failing => d.state # "SELECTING"
  PROVE  Grants'
<1> DEFINE new == Msg("DISCOVER", IP_ADDR_ANY, TRUE)
<1>1. dhcp'.state = "SELECTING" /\ From(ms, new, FALSE)
  BY AskedFrom DEF Asked, Next0
<1>2. new.type = "DISCOVER" /\ ~Talk(new)
  BY DEF Msg, Talk
<1>3. Exchange' /\ Checking' /\ Leased'
  BY <1>1 DEF Exchange, Checking, Leased, Live, Holding
<1>4. Declined'
  BY <1>1, <1>2 DEF From, Declined
<1>5. Answers'
  BY <1>1, <1>2 DEF From, Answers
<1>6. Searching'
  <2> SUFFICES ASSUME "DISCOVER" \notin Failing, NEW m \in net' PROVE ~Talk(m)
    BY DEF Searching
  <2>1. From(ms, new, d.state # "SELECTING")
    BY DEF Asked
  <2>2. \A x \in ms : Talk(x) => d.state # "SELECTING"
    OBVIOUS
  <2>3. CASE m = new
    BY <1>2, <2>3
  <2>4. CASE \E x \in ms : /\ m.type = x.type /\ m.addr = x.addr
                           /\ m.fresh => x.fresh /\ d.state = "SELECTING"
    BY <2>2, <2>4 DEF Talk
  <2> HIDE DEF new
  <2> QED
    BY <2>1, <2>3, <2>4 DEF From
<1> QED
  BY <1>3, <1>4, <1>5, <1>6 DEF Grants

(* A request for the offered address, the first one or a repeated one. *)
LEMMA RequestGrants ==
  ASSUME Memory, Grants, UNCHANGED <<addr, server>>,
         NEW ms \in SUBSET net, ms \in SUBSET Message, NEW d \in Client0, d.offered \in Anyone,
         Asked(ms, d, "REQUESTING", "REQUEST", d.offered),
         \/ d.state = "SELECTING" /\ dhcp.state = "SELECTING"
         \/ d.state = "REQUESTING" /\ dhcp.state = "REQUESTING" /\ d.offered = dhcp.offered
  PROVE  Grants'
<1> DEFINE new == Msg("REQUEST", d.offered, TRUE)
<1>1. dhcp'.state = "REQUESTING" /\ dhcp'.offered = d.offered /\ From(ms, new, FALSE)
  BY AskedFrom DEF Asked, Next0, SameLease
<1>2. addr' = IP_ADDR_ANY
  BY DEF Grants, Leased, Holding
<1>3. new.type = "REQUEST" /\ new.addr = d.offered
  BY DEF Msg
<1> HIDE DEF new
<1>4. Exchange'
  <2> SUFFICES ASSUME NEW m \in net', Talk(m) PROVE m.addr = d.offered
    BY <1>1 DEF Exchange
  <2>1. \/ m = new
        \/ \E x \in net : Talk(x) /\ m.addr = x.addr /\ (d.state = "REQUESTING" \/ net' = ms)
    BY DEF Asked, From, Talk, new
  <2>2. d.state = "SELECTING" /\ net' = ms /\ "REQUEST" \in Failing => FALSE
    BY DEF Memory, Grants, Searching
  <2>3. d.state = "REQUESTING" \/ From(ms, new, TRUE)
    BY <2>2 DEF Asked, new
  <2>4. CASE d.state = "REQUESTING"
    BY <1>3, <2>1, <2>4 DEF Grants, Exchange, Live
  <2>5. CASE From(ms, new, TRUE)
    BY <1>3, <2>5 DEF From, Talk
  <2> QED
    BY <2>3, <2>4, <2>5
<1>5. Answers'
  <2>1. \A x \in ms : x.type = "ACK" => x.addr # IP_ADDR_ANY /\ (x.fresh => Covered(x.addr, x.old)')
    BY DEF Grants, Answers, server, Covered
  <2> QED
    BY <1>1, <1>3, <2>1 DEF Answers, From
<1>6. Declined'
  BY <1>1, <1>3 DEF Grants, Declined, From
<1>7. Checking' /\ Leased' /\ Searching'
  BY <1>1, <1>2 DEF Checking, Leased, Searching
<1> QED
  BY <1>4, <1>5, <1>6, <1>7 DEF Grants

(* A request to renew the lease, in a step that may be a tick. *)
LEMMA RenewGrants ==
  ASSUME Grants, addr' = addr,
         NEW ms \in SUBSET Message, NEW d \in Client0,
         NEW s \in {"RENEWING", "REBINDING"}, Asked(ms, d, s, "RENEW", addr),
         d.state = dhcp.state, d.offered = dhcp.offered,
         d.state \in {"REQUESTING", "BOUND", "RENEWING", "REBINDING"},
         \A x \in ms : /\ x.type # "DECLINE"
                       /\ x.type = "ACK" => x.addr # IP_ADDR_ANY
                       /\ x.type = "ACK" /\ x.fresh => Covered(x.addr, x.old)'
                       /\ Talk(x) => \E y \in net : Talk(y) /\ y.addr = x.addr,
         addr # IP_ADDR_ANY => granted'[addr] \in {"us", "lapsed"},
         addr # IP_ADDR_ANY /\ T2 <= Lease /\ s # "REBINDING"
             => d.t2 >= 1 /\ left'[addr] >= d.t2 - 1
  PROVE  Grants'
<1> DEFINE new == Msg("RENEW", addr, TRUE)
<1>1. /\ dhcp'.state = s /\ dhcp'.offered = d.offered /\ dhcp'.t2 = d.t2
      /\ From(ms, new, FALSE)
  BY AskedFrom DEF Asked, Next0, SameLease
<1>2. new.type = "RENEW" /\ new.addr = addr
  BY DEF Msg
<1> HIDE DEF new
<1>3. Exchange'
  <2> SUFFICES ASSUME NEW m \in net', Talk(m) PROVE m.addr = dhcp.offered
    BY <1>1 DEF Exchange
  <2>1. CASE m = new
    BY <1>2, <2>1 DEF Talk, Grants, Leased
  <2>2. ASSUME NEW x \in ms, m.type = x.type, m.addr = x.addr, m.fresh => x.fresh
        PROVE  m.addr = dhcp.offered
    <3>1. PICK y \in net : Talk(y) /\ y.addr = m.addr
      BY <2>2 DEF Talk
    <3> QED
      BY <3>1 DEF Grants, Exchange, Live, Holding
  <2> QED
    BY <1>1, <2>1, <2>2 DEF From
<1>4. Answers'
  BY <1>1, <1>2 DEF Answers, From
<1>5. Declined'
  BY <1>1, <1>2 DEF Declined, From
<1>6. Checking' /\ Searching'
  BY <1>1 DEF Checking, Searching
<1>7. Leased'
  BY <1>1 DEF Grants, Leased, Holding
<1> QED
  BY <1>3, <1>4, <1>5, <1>6, <1>7 DEF Grants

(* Once the offered address has been granted the client may bind to it. *)
LEMMA BindGrants ==
  ASSUME Grants, UNCHANGED server, dhcp \in Client0, dhcp_bind(dhcp), net' \subseteq net,
         dhcp.state \in {"CHECKING", "RENEWING", "REBINDING"},
         NEW late \in BOOLEAN, Covered(dhcp.offered, late),
         left \in [Address -> (-MaxOverdue)..Lease]
  PROVE  Grants'
<1>1. /\ dhcp'.state = "BOUND" /\ addr' = dhcp.offered /\ dhcp'.offered = dhcp.offered
      /\ dhcp'.t2 \in {1, T2}
  BY Bind
<1>2. Exchange'
  BY <1>1 DEF Grants, Exchange, Live, Holding
<1>3. Answers'
  BY DEF Grants, Answers, Covered, server
<1>4. Declined'
  BY DEF Grants, Declined
<1>5. Checking' /\ Searching'
  BY <1>1 DEF Checking, Searching
<1>6. Leased'
  <2>1. left[dhcp.offered] >= Lease - 1 /\ left[dhcp.offered] \in Int
    BY DhcpAssumption DEF Covered
  <2>2. T2 <= Lease => dhcp'.t2 >= 1 /\ left[dhcp.offered] >= dhcp'.t2 - 1
    BY <1>1, <2>1, DhcpAssumption
  <2> QED
    BY <1>1, <2>2 DEF Leased, Covered, server, Holding
<1> QED
  BY <1>2, <1>3, <1>4, <1>5, <1>6 DEF Grants

LEMMA AgedGrants ==
  ASSUME TypeOK, Grants, dhcp_coarse_tmr
  PROVE  /\ \A x \in Aged : /\ x.type = "DECLINE" =>
                                  /\ dhcp.state = "BACKING_OFF" /\ x.addr # IP_ADDR_ANY
                                  /\ \A y \in net : ~Talk(y)
                            /\ x.type = "ACK" => x.addr # IP_ADDR_ANY
                            /\ x.type = "ACK" /\ x.fresh => Covered(x.addr, x.old)'
                            /\ Talk(x) => \E y \in net : Talk(y) /\ y.addr = x.addr
         /\ granted' = granted
         /\ \A a \in Address : granted[a] \in {"us", "lapsed"} => left'[a] >= left[a] - 1
<1>1. /\ granted' = granted
      /\ \A a \in Address : left'[a] >= left[a] - 1 /\ left[a] \in Int /\ left'[a] \in Int
  BY StepType, DhcpAssumption DEF dhcp_coarse_tmr, TypeOK, Next
<1>2. ASSUME NEW x \in Aged
      PROVE  /\ x.type = "DECLINE" =>
                  /\ dhcp.state = "BACKING_OFF" /\ x.addr # IP_ADDR_ANY
                  /\ \A y \in net : ~Talk(y)
             /\ x.type = "ACK" => x.addr # IP_ADDR_ANY
             /\ x.type = "ACK" /\ x.fresh => Covered(x.addr, x.old)'
             /\ Talk(x) => \E y \in net : Talk(y) /\ y.addr = x.addr
  <2>1. PICK y \in net : /\ x.type = y.type /\ x.addr = y.addr /\ x.fresh = y.fresh
                         /\ ~y.old /\ x.old
    BY AgedShape
  <2>2. x.type = "ACK" /\ x.fresh =>
            x.addr \in Address /\ granted[x.addr] \in {"us", "lapsed"} /\ left[x.addr] >= Lease
    BY <2>1 DEF Grants, Answers, Covered
  <2>3. x.type = "ACK" /\ x.fresh => Covered(x.addr, x.old)'
    BY <1>1, <2>1, <2>2, DhcpAssumption DEF Covered
  <2> QED
    BY <2>1, <2>3 DEF Grants, Answers, Declined, Talk
<1> QED
  BY <1>1, <1>2

(* A minute *)
LEMMA CoarseGrants ==
  ASSUME TypeOK, Grants, dhcp_coarse_tmr
  PROVE  Grants'
<1>0. dhcp \in Client0 /\ addr \in Anyone /\ addr' = addr /\ granted' = granted
  BY DEF TypeOK, Client0, dhcp_coarse_tmr
<1>1. CASE dhcp.state = "OFF"
  <2>1. net' = Aged /\ dhcp' = dhcp
    BY <1>1 DEF dhcp_coarse_tmr
  <2>2. addr = IP_ADDR_ANY
    BY <1>1 DEF Grants, Leased, Holding
  <2> QED
    BY <1>0, <1>1, <2>1, <2>2, AgedGrants
       DEF Grants, Exchange, Answers, Checking, Leased, Declined, Searching, Live, Holding
<1>2. CASE dhcp.state # "OFF"
  <2> DEFINE d == [dhcp EXCEPT !.timer = IF dhcp.timer = "set" THEN "due" ELSE dhcp.timer]
  <2>1. /\ d \in Client0 /\ d.state = dhcp.state /\ d.offered = dhcp.offered
        /\ d.t2 = dhcp.t2
        /\ dhcp.timer # NoTimer => d.timer = "due"
    BY <1>0 DEF Client0, dhcp_coarse_tmr, NoTimer
  <2>2. CoarseTimer(Aged, d)
    BY <1>2 DEF dhcp_coarse_tmr
  <2> HIDE DEF d
  <2>3. PICK e \in Client0 :
            /\ Ticked(d, e)
            /\ \/ HasLease(d) /\ d.t2 = 1 /\ Asked(Aged, e, "REBINDING", "RENEW", addr)
               \/ HasLease(d) /\ d.t2 # 1 /\ Asked(Aged, e, "RENEWING", "RENEW", addr)
               \/ /\ dhcp' = e /\ net' = Aged
                  /\ HasLease(d) => d.t2 # 1
    BY <2>1, <2>2, AgedShape, CoarseDoes
  <2>4. /\ e.state = dhcp.state /\ e.timer = d.timer /\ e.offered = dhcp.offered
        /\ e.t2 = IF dhcp.t2 = 1 THEN 0 ELSE Less(dhcp.t2)
    BY <2>1, <2>3 DEF Ticked
  <2>5. addr # IP_ADDR_ANY /\ T2 <= Lease /\ dhcp.state # "REBINDING" /\ dhcp.t2 # 1
            => e.t2 >= 1 /\ left'[addr] >= e.t2 - 1
    <3> SUFFICES ASSUME addr # IP_ADDR_ANY, T2 <= Lease, dhcp.state # "REBINDING", dhcp.t2 # 1
                 PROVE  e.t2 >= 1 /\ left'[addr] >= e.t2 - 1
      OBVIOUS
    <3>1. dhcp.t2 >= 1 /\ left[addr] >= dhcp.t2 - 1 /\ granted[addr] \in {"us", "lapsed"}
      BY DEF Grants, Leased
    <3>2. addr \in Address /\ left'[addr] >= left[addr] - 1
      BY <1>0, <3>1, AgedGrants DEF Anyone
    <3>3. dhcp.t2 \in 0..(TimerWidth - 1) /\ left[addr] \in Int /\ left'[addr] \in Int
      BY <1>0, <3>2, StepType, DhcpAssumption DEF Client0, TypeOK, Next
    <3>4. e.t2 = dhcp.t2 - 1
      BY <2>4, <3>1, <3>3, LessShape
    <3> QED
      BY <3>1, <3>2, <3>3, <3>4
  <2>6. addr # IP_ADDR_ANY => granted'[addr] \in {"us", "lapsed"}
    BY <1>0 DEF Grants, Leased
  <2>7. CASE HasLease(d) /\ d.t2 = 1 /\ Asked(Aged, e, "REBINDING", "RENEW", addr)
    BY <1>0, <2>1, <2>4, <2>6, <2>7, AgedShape, AgedGrants, RenewGrants DEF HasLease
  <2>8. CASE HasLease(d) /\ d.t2 # 1 /\ Asked(Aged, e, "RENEWING", "RENEW", addr)
    BY <1>0, <2>1, <2>4, <2>5, <2>6, <2>8, AgedShape, AgedGrants, RenewGrants DEF HasLease
  <2>9. CASE dhcp' = e /\ net' = Aged /\ (HasLease(d) => d.t2 # 1)
    <3>1. Exchange' /\ Answers' /\ Declined' /\ Searching'
      BY <1>0, <2>4, <2>9, AgedGrants DEF Grants, Exchange, Answers, Declined, Searching
    <3>2. Checking'
      <4> SUFFICES ASSUME dhcp.state = "CHECKING"
                   PROVE  /\ dhcp'.timer # NoTimer
                          /\ Covered(dhcp.offered, dhcp.timer = "due")'
        BY <2>4, <2>9 DEF Checking
      <4>1. dhcp.timer = "set" /\ Covered(dhcp.offered, FALSE)
        BY <1>0 DEF Grants, Checking, dhcp_coarse_tmr, Client0
      <4>2. dhcp'.timer = "due" /\ dhcp'.offered = dhcp.offered
        BY <2>1, <2>4, <2>9, <4>1 DEF NoTimer
      <4>3. dhcp.offered \in Address /\ left'[dhcp.offered] >= left[dhcp.offered] - 1
            /\ left[dhcp.offered] \in Int /\ left'[dhcp.offered] \in Int
        BY <4>1, AgedGrants, StepType, DhcpAssumption DEF Covered, TypeOK, Next
      <4>4. left'[dhcp.offered] >= Lease - 1
        BY <4>1, <4>3, DhcpAssumption DEF Covered
      <4> QED
        BY <1>0, <4>1, <4>2, <4>3, <4>4 DEF Covered, NoTimer
    <3>3. Leased'
      BY <1>0, <2>1, <2>4, <2>5, <2>6, <2>9 DEF Grants, Leased, Holding, HasLease
    <3> QED
      BY <3>1, <3>2, <3>3 DEF Grants
  <2> QED
    BY <2>3, <2>7, <2>8, <2>9
<1> QED
  BY <1>1, <1>2

(* The server answers a request of the exchange, or one that is outdated. *)
LEMMA AnswerGrants ==
  ASSUME TypeOK, Grants, NEW m \in net, NEW type \in Reply, NEW a \in Anyone,
         Answer(m, type, a), dhcp' = dhcp, addr' = addr,
         type = "ACK" => /\ m.type \in {"REQUEST", "RENEW"} /\ m.addr = a /\ a # IP_ADDR_ANY
                         /\ granted' = [granted EXCEPT ![a] = "us"]
                         /\ left' = [left EXCEPT ![a] = Lease],
         type # "ACK" => UNCHANGED server
  PROVE  Grants'
<1> DEFINE new == Msg(type, a, m.fresh)
<1>1. net' \subseteq net \cup {new}
  BY AnswerShape
<1>2. new.type = type /\ new.addr = a /\ new.fresh = m.fresh /\ new.old = FALSE
  BY DEF Msg
<1> HIDE DEF new
<1>3. Talk(new) => Talk(m) /\ m.addr = new.addr
  BY <1>2 DEF Talk, Reply
<1>4. Exchange' /\ Declined' /\ Searching'
  BY <1>1, <1>2, <1>3 DEF Grants, Exchange, Declined, Searching, Reply
<1>5. CASE type = "ACK"
  <2>1. a \in Address /\ granted'[a] = "us" /\ left'[a] = Lease /\ Lease \in Int
        /\ \A b \in Address : b # a => granted'[b] = granted[b] /\ left'[b] = left[b]
    BY <1>5, DhcpAssumption DEF TypeOK, Anyone
  <2>2. \A b, late : Covered(b, late) => Covered(b, late)'
    BY <2>1, DhcpAssumption DEF Covered
  <2>3. Covered(a, FALSE)'
    BY <2>1 DEF Covered
  <2>4. Answers'
    BY <1>1, <1>2, <1>5, <2>2, <2>3 DEF Grants, Answers
  <2>5. Checking'
    BY <2>2 DEF Grants, Checking, Covered
  <2>6. Leased'
    <3> SUFFICES ASSUME addr # IP_ADDR_ANY PROVE Leased'
      BY DEF Leased
    <3>1. addr \in Address /\ granted'[addr] \in {"us", "lapsed"}
      BY <2>1 DEF Grants, Leased, TypeOK, Anyone
    <3>2. left'[addr] >= left[addr] /\ left[addr] \in Int /\ left'[addr] \in Int
      BY <2>1, <3>1, DhcpAssumption DEF TypeOK
    <3>3. dhcp.t2 \in Int
      BY DhcpAssumption DEF TypeOK
    <3> QED
      BY <3>1, <3>2, <3>3 DEF Grants, Leased
  <2> QED
    BY <1>4, <2>4, <2>5, <2>6 DEF Grants
<1>6. CASE type # "ACK"
  BY <1>1, <1>2, <1>4, <1>6 DEF Grants, Answers, Checking, Leased, Covered, server
<1> QED
  BY <1>5, <1>6

LEMMA StepGrants == Memory /\ TypeOK /\ Grants /\ [Next]_vars => Grants'
<1> SUFFICES ASSUME Memory, TypeOK, Grants, [Next]_vars PROVE Grants'
  OBVIOUS
<1>0. /\ dhcp \in Client0 /\ addr \in Anyone /\ net \in SUBSET Message
      /\ \A x \in net : x.type = "ACK" => x.addr # IP_ADDR_ANY
  BY DhcpAssumption DEF TypeOK, Client0, Grants, Answers
<1>1. CASE dhcp_start
  <2>1. CASE Asked(net, Cleared, "SELECTING", "DISCOVER", IP_ADDR_ANY)
    <3>1. Cleared.state = "OFF" /\ dhcp.state = "OFF" /\ addr' = IP_ADDR_ANY /\ UNCHANGED server
      BY <1>1 DEF dhcp_start, Cleared
    <3>2. \A x \in net : /\ x.type # "DECLINE"
                         /\ x.type = "ACK" /\ x.fresh => Covered(x.addr, x.old)'
      BY <3>1 DEF Grants, Declined, Answers, Covered, server
    <3> QED
      BY <1>0, <2>1, <3>1, <3>2, StartShape, SearchGrants
  <2>2. CASE dhcp' = Cleared /\ net' = net
    BY <1>1, <2>2 DEF dhcp_start, Cleared, Grants, Exchange, Answers, Checking, Leased,
                      Declined, Searching, Covered, Live, Holding, server
  <2> QED
    BY <1>1, <2>1, <2>2, Starts
<1>2. CASE dhcp_stop
  <2>1. dhcp'.state = "OFF" /\ addr' = IP_ADDR_ANY /\ net' = {}
    BY <1>2 DEF dhcp_stop, Cleared
  <2> QED
    BY <2>1 DEF Grants, Exchange, Answers, Checking, Leased, Declined, Searching
<1>3. CASE RecvOffer
  <2>1. PICK m \in net : \E ms \in AfterDelivery(m) :
          dhcp_select(ms, [dhcp EXCEPT !.timer = NoTimer, !.offered = m.addr])
    BY <1>3 DEF RecvOffer
  <2>2. PICK ms \in AfterDelivery(m) :
          dhcp_select(ms, [dhcp EXCEPT !.timer = NoTimer, !.offered = m.addr])
    BY <2>1
  <2> DEFINE d == [dhcp EXCEPT !.timer = NoTimer, !.offered = m.addr]
  <2>3. d \in Client0 /\ d.offered \in Anyone /\ d.state = dhcp.state /\ dhcp.state = "SELECTING"
    BY <1>0, <1>3 DEF Client0, Message, RecvOffer
  <2>4. ms \in SUBSET net /\ ms \in SUBSET Message
    BY <1>0, <2>2, DeliveryShape
  <2> HIDE DEF d
  <2>5. Asked(ms, d, "REQUESTING", "REQUEST", d.offered)
    BY <2>2, <2>3, <2>4, Select DEF d
  <2> QED
    BY <1>3, <2>3, <2>4, <2>5, RequestGrants DEF RecvOffer
<1>3a. CASE RecvNameless
  <2>1. net' \subseteq net /\ addr' = addr /\ UNCHANGED server
    BY <1>3a, DeliveryShape DEF RecvNameless
  <2>2. /\ dhcp.state = "SELECTING" /\ dhcp'.state = "SELECTING" /\ addr = IP_ADDR_ANY
        /\ dhcp'.offered = dhcp.offered
    BY <1>0, <1>3a DEF RecvNameless, Client0, Grants, Leased, Holding
  <2> QED
    BY <2>1, <2>2 DEF Grants, Exchange, Answers, Checking, Leased, Declined, Searching,
                      Covered, Live, server
<1>4. CASE RecvFirstAck
  <2>1. PICK m \in net : /\ m.type = "ACK" /\ m.fresh
                         /\ net' \in AfterDelivery(m)
                         /\ dhcp_check([dhcp EXCEPT !.offered = m.addr, !.terms = TRUE], m.old)
    BY <1>4 DEF RecvFirstAck, Matches
  <2>2. m.addr = dhcp.offered /\ Covered(m.addr, m.old) /\ m.old \in BOOLEAN
    BY <1>0, <1>4, <2>1 DEF RecvFirstAck, Grants, Exchange, Answers, Talk, Message, Live
  <2> DEFINE d == [dhcp EXCEPT !.offered = m.addr, !.terms = TRUE]
  <2>3. d \in Client0 /\ d.offered = m.addr
    BY <1>0, <2>2 DEF Client0
  <2> HIDE DEF d
  <2>4. /\ dhcp'.state = "CHECKING" /\ dhcp'.offered = m.addr
        /\ dhcp'.timer = IF m.old THEN "due" ELSE "set"
    BY <2>1, <2>2, <2>3, Check DEF d, SameLease
  <2>5. net' \subseteq net /\ addr' = addr /\ UNCHANGED server /\ addr = IP_ADDR_ANY
    BY <1>4, <2>1, DeliveryShape DEF RecvFirstAck, Grants, Leased, Holding
  <2>6. Exchange' /\ Answers' /\ Declined' /\ Leased' /\ Searching'
    BY <1>4, <2>2, <2>4, <2>5
       DEF RecvFirstAck, Grants, Exchange, Answers, Declined, Leased, Searching, Covered,
           server, Live
  <2>7. Checking'
    BY <2>2, <2>4, <2>5 DEF Checking, Covered, server, NoTimer
  <2> QED
    BY <2>6, <2>7 DEF Grants
<1>5. CASE RecvLaterAck
  <2>1. PICK m \in net : m.type = "ACK" /\ m.fresh /\ net' \in AfterDelivery(m)
    BY <1>5 DEF RecvLaterAck, Matches
  <2>2. Covered(dhcp.offered, m.old) /\ m.old \in BOOLEAN
    BY <1>0, <1>5, <2>1 DEF RecvLaterAck, Grants, Exchange, Answers, Talk, Live, Holding, Message
  <2>3. net' \subseteq net
    BY <2>1, DeliveryShape
  <2> QED
    BY <1>0, <1>5, <2>2, <2>3, BindGrants DEF RecvLaterAck, TypeOK
<1>6. CASE RecvNak
  <2>1. PICK m \in net : \E ms \in AfterDelivery(m) :
          dhcp_discover(ms, dhcp_set_state(dhcp, "BACKING_OFF"))
    BY <1>6 DEF RecvNak
  <2>2. PICK ms \in AfterDelivery(m) :
          dhcp_discover(ms, dhcp_set_state(dhcp, "BACKING_OFF"))
    BY <2>1
  <2> DEFINE b == dhcp_set_state(dhcp, "BACKING_OFF")
             d == [b EXCEPT !.offered = IP_ADDR_ANY]
  <2>3. b \in Client0 /\ b.state = "BACKING_OFF"
    BY <1>0, SetState DEF State
  <2>4. ms \in SUBSET Message /\ ms \subseteq net
    BY <1>0, <2>1, DeliveryShape
  <2>5. Asked(ms, d, "SELECTING", "DISCOVER", IP_ADDR_ANY)
    BY <2>2, <2>3, <2>4, Discover
  <2>6. d \in Client0 /\ d.state = "BACKING_OFF"
    BY <2>3 DEF Client0, Anyone
  <2> HIDE DEF d
  <2> QED
    BY <1>0, <1>6, <2>4, <2>5, <2>6, SearchGrants
       DEF RecvNak, Grants, Declined, Answers, Covered, server
<1>7. CASE dhcp_arp_reply
  <2>1. Asked(net, dhcp, "BACKING_OFF", "DECLINE", dhcp.offered) /\ dhcp.state = "CHECKING"
    BY <1>0, <1>7, Decline DEF dhcp_arp_reply
  <2> DEFINE new == Msg("DECLINE", dhcp.offered, TRUE)
  <2>2. dhcp'.state = "BACKING_OFF" /\ From(net, new, FALSE) /\ (From(net, new, TRUE) \/ net' = net)
    BY <1>0, <2>1, AskedFrom DEF Asked, Next0
  <2>3. addr' = IP_ADDR_ANY /\ dhcp.offered # IP_ADDR_ANY /\ UNCHANGED server
    BY <1>7, <2>1, DhcpAssumption DEF dhcp_arp_reply, Grants, Leased, Checking, Covered, Holding
  <2>4. new.type = "DECLINE" /\ new.addr = dhcp.offered
    BY DEF Msg
  <2> HIDE DEF new
  <2>5. Exchange' /\ Checking' /\ Leased' /\ Searching'
    BY <2>2, <2>3 DEF Exchange, Checking, Leased, Searching, Live, Holding
  <2>6. Answers'
    BY <2>2, <2>3, <2>4 DEF Answers, Grants, From, Covered, server
  <2>7. \A x \in net : x.type # "DECLINE"
    BY <2>1 DEF Grants, Declined
  <2>8. CASE From(net, new, TRUE)
    BY <2>2, <2>3, <2>4, <2>5, <2>6, <2>7, <2>8 DEF Declined, Grants, From, Talk
  <2>9. CASE net' = net
    BY <2>5, <2>6, <2>7, <2>9 DEF Declined, Grants
  <2> QED
    BY <2>2, <2>8, <2>9
<1>8. CASE AskAgain
  <2>1. CASE TimerEnds("SELECTING") /\ dhcp_discover(net, dhcp)
    <3> DEFINE d == [dhcp EXCEPT !.offered = IP_ADDR_ANY]
    <3>1. d \in Client0 /\ dhcp.state = "SELECTING" /\ addr' = IP_ADDR_ANY
      BY <1>0, <1>8, <2>1 DEF Client0, Anyone, TimerEnds, AskAgain, Grants, Leased, Holding
    <3>2. Asked(net, d, "SELECTING", "DISCOVER", IP_ADDR_ANY)
      BY <1>0, <2>1, Discover
    <3> HIDE DEF d
    <3> QED
      BY <1>0, <1>8, <3>1, <3>2, SearchGrants
         DEF AskAgain, Grants, Declined, Answers, Searching, Covered, server
  <2>2. CASE TimerEnds("REQUESTING") /\ dhcp_select(net, dhcp)
    <3>1. dhcp.state = "REQUESTING" /\ dhcp.offered \in Anyone
      BY <1>0, <2>2 DEF TimerEnds, Client0
    <3> QED
      BY <1>0, <1>8, <2>2, <3>1, Select, RequestGrants DEF AskAgain
  <2>3. ASSUME \/ TimerEnds("RENEWING") /\ dhcp_renew(net, dhcp)
               \/ TimerEnds("REBINDING") /\ dhcp_rebind(net, dhcp)
        PROVE  Grants'
    <3>1. /\ dhcp.state \in {"RENEWING", "REBINDING"} /\ addr' = addr /\ UNCHANGED server
          /\ Asked(net, dhcp, dhcp.state, "RENEW", addr)
      BY <1>0, <1>8, <2>3, Renew, Rebind DEF TimerEnds, AskAgain
    <3>2. \A x \in net : /\ x.type # "DECLINE"
                         /\ x.type = "ACK" /\ x.fresh => Covered(x.addr, x.old)'
      BY <3>1 DEF Grants, Answers, Declined, Covered, server
    <3>3. addr # IP_ADDR_ANY => granted'[addr] \in {"us", "lapsed"}
      BY <3>1 DEF Grants, Leased, server
    <3>4. addr # IP_ADDR_ANY /\ T2 <= Lease /\ dhcp.state # "REBINDING"
            => dhcp.t2 >= 1 /\ left'[addr] >= dhcp.t2 - 1
      BY <3>1 DEF Grants, Leased, server
    <3> QED
      BY <1>0, <3>1, <3>2, <3>3, <3>4, RenewGrants
  <2> QED
    BY <1>8, <2>1, <2>2, <2>3 DEF AskAgain
<1>9. CASE GiveUp
  <2>1. PICK ms \in {Outdated(net)} \cup (IF "RELEASE" \in Failing THEN {net} ELSE {}) :
          dhcp_discover(ms, Released(dhcp))
    BY <1>9 DEF GiveUp, ReleaseAndDiscover
  <2> DEFINE r == Released(dhcp)
             d == [r EXCEPT !.offered = IP_ADDR_ANY]
  <2>2. r \in Client0 /\ r.state = "OFF"
    BY <1>0, ReleasedShape
  <2>3. ms \in SUBSET Message
    BY <1>0, <2>1, OutdatedShape
  <2>4. Asked(ms, d, "SELECTING", "DISCOVER", IP_ADDR_ANY)
    BY <2>1, <2>2, <2>3, Discover
  <2>5. d \in Client0 /\ d.state = "OFF"
    BY <2>2 DEF Client0, Anyone
  <2> HIDE DEF d
  <2>6. addr' = IP_ADDR_ANY /\ UNCHANGED server
    BY <1>9 DEF GiveUp, ReleaseAndDiscover
  <2>7. \A x \in net : /\ x.type # "DECLINE"
                       /\ x.type = "ACK" /\ x.fresh => Covered(x.addr, x.old)'
    BY <1>9, <2>6 DEF GiveUp, TimerEnds, Grants, Declined, Answers, Covered, server
  <2>8. \A x \in ms : \E y \in net : /\ x.type = y.type /\ x.addr = y.addr
                                     /\ x.fresh => y.fresh /\ x.old = y.old
    <3>1. CASE ms = net
      BY <3>1
    <3>2. CASE ms = Outdated(net)
      BY <3>2, OutdatedShape
    <3> QED
      BY <2>1, <3>1, <3>2
  <2> QED
    BY <1>0, <2>3, <2>4, <2>5, <2>6, <2>7, <2>8, SearchGrants
<1>10. CASE CheckAgain
  <2>1. /\ dhcp.state = "CHECKING" /\ dhcp.timer \in {"set", "due"}
        /\ dhcp'.state = "CHECKING" /\ dhcp'.offered = dhcp.offered
        /\ dhcp'.timer = dhcp.timer
    BY <1>0, <1>10, Check DEF CheckAgain, TimerEnds, SameLease, Client0
  <2> QED
    BY <1>10, <2>1 DEF CheckAgain, Grants, Exchange, Answers, Checking, Leased, Declined,
                       Searching, Covered, Live, Holding, server
<1>11. CASE CheckDone
  <2>1. Covered(dhcp.offered, dhcp.timer = "due") /\ dhcp.state = "CHECKING"
    BY <1>11 DEF CheckDone, TimerEnds, Grants, Checking
  <2> QED
    BY <1>0, <1>11, <2>1, BindGrants DEF CheckDone, TypeOK
<1>12. CASE BackOffEnds
  <2> DEFINE ms == {m \in net : m.type \in Reply}
             d == [dhcp EXCEPT !.offered = IP_ADDR_ANY]
  <2>1. dhcp.state = "BACKING_OFF" /\ addr' = IP_ADDR_ANY /\ d \in Client0 /\ d.state = "BACKING_OFF"
    BY <1>0, <1>12 DEF BackOffEnds, TimerEnds, Client0, Anyone, Grants, Leased, Holding
  <2>2. Asked(ms, d, "SELECTING", "DISCOVER", IP_ADDR_ANY)
    BY <1>0, <1>12, Discover DEF BackOffEnds
  <2>3. /\ ms \in SUBSET Message
        /\ \A x \in ms : /\ x.type # "DECLINE"
                         /\ x.type = "ACK" => x.addr # IP_ADDR_ANY
                         /\ x.type = "ACK" /\ x.fresh => Covered(x.addr, x.old)'
    BY <1>0, <1>12 DEF BackOffEnds, Reply, Grants, Answers, Covered, server
  <2> HIDE DEF ms, d
  <2> QED
    BY <2>1, <2>2, <2>3, SearchGrants
<1>13. CASE dhcp_coarse_tmr
  BY <1>13, CoarseGrants
<1>14. CASE ServerOffers
  BY <1>14, AnswerGrants DEF ServerOffers, client, Reply, Anyone
<1>14a. CASE ServerForgetsName
  BY <1>14a, AnswerGrants DEF ServerForgetsName, client, Reply, Anyone
<1>15. CASE ServerAcks
  BY <1>0, <1>15, AnswerGrants DEF ServerAcks, client, Reply, Message
<1>16. CASE ServerNaks
  BY <1>16, AnswerGrants DEF ServerNaks, client, Reply, Anyone
<1>17. CASE ServerNotesDecline
  <2>1. /\ dhcp.state = "BACKING_OFF" /\ dhcp' = dhcp /\ addr' = addr /\ net' \subseteq net
    BY <1>17, DeliveryShape DEF ServerNotesDecline, client, Grants, Declined
  <2>2. addr = IP_ADDR_ANY /\ \A x \in net : ~Talk(x)
    BY <1>17, <2>1 DEF ServerNotesDecline, Grants, Leased, Declined, Holding
  <2> QED
    BY <1>0, <2>1, <2>2 DEF Grants, Exchange, Answers, Checking, Leased, Declined, Searching, Talk
<1>18. CASE LeaseEnds
  BY <1>18 DEF LeaseEnds, client, TypeOK, Grants, Exchange, Answers, Checking, Leased,
               Declined, Searching, Covered
<1>19. CASE Lose
  BY <1>19 DEF Lose, client, server, Grants, Exchange, Answers, Checking, Leased,
               Declined, Searching, Covered
<1>20. CASE UNCHANGED vars
  BY <1>20 DEF vars, client, server, Grants, Exchange, Answers, Checking, Leased,
               Declined, Searching, Covered
<1> QED
  BY <1>1, <1>2, <1>3, <1>3a, <1>4, <1>5, <1>6, <1>7, <1>8, <1>9, <1>10, <1>11, <1>12, <1>13,
     <1>14, <1>14a, <1>15, <1>16, <1>17, <1>18, <1>19, <1>20
     DEF Next, Replies, dhcp_fine_tmr, Server

(* With memory for a DISCOVER, or for a REQUEST, the interface only has an *)
(* address that the server has granted and that was not declined: in every *)
(* order of messages and timers, for any server times and any number of    *)
(* messages, whichever other message gets no memory.                       *)
THEOREM OnlyGranted ==
  ASSUME Memory
  PROVE  Spec => []AddressGranted
<1>1. Grants => AddressGranted
  BY DEF Grants, Leased, AddressGranted
<1>2. TypeOK /\ Grants /\ [Next]_vars => Grants'
  BY StepGrants
<1> QED
  BY <1>1, <1>2, InitType, StepType, InitGrants, PTL DEF Spec

(* ... and when the server's T2 is within the lease, the client is BOUND   *)
(* or RENEWING for not a tick more than the lease lasts.                   *)
THEOREM EndNoticed ==
  ASSUME Memory, T2 <= Lease
  PROVE  Spec => []NoticesEnd
<1>1. TypeOK /\ Grants => NoticesEnd
  <2> SUFFICES ASSUME TypeOK, Grants, addr # IP_ADDR_ANY,
                      dhcp.state \in {"BOUND", "RENEWING"}
               PROVE  left[addr] >= 0
    BY DEF NoticesEnd
  <2>1. dhcp.t2 >= 1 /\ left[addr] >= dhcp.t2 - 1
    BY DEF Grants, Leased
  <2>2. addr \in Address /\ dhcp.t2 \in Int /\ left[addr] \in Int
    BY DhcpAssumption DEF TypeOK, Anyone
  <2> QED
    BY <2>1, <2>2
<1>2. TypeOK /\ Grants /\ [Next]_vars => Grants'
  BY StepGrants
<1> QED
  BY <1>1, <1>2, InitType, StepType, InitGrants, PTL DEF Spec

-----------------------------------------------------------------------------
(* Dhcp implements DhcpClient: whatever the network and the timers do, the *)
(* Ethernet task sees a DHCP client that takes the steps EthDevice allows  *)
(* for.  This needs the invariant above: a client that binds, after a      *)
(* check or a renewal, binds to an address and not to 0.0.0.0.             *)

(* The states whose tries are compared with a limit. *)
Counted == {"REQUESTING", "CHECKING", "REBINDING"}

Abs(d) == [state |-> d.state, tries |-> IF d.state \in Counted THEN d.tries ELSE 0]

(* The client of DhcpClient is Abs(dhcp), before and after a step. *)
LEMMA TriesAfter ==
  ASSUME NEW d \in Client0, NEW s \in State
  PROVE  /\ Tried(dhcp_set_state(d, s)).state = s
         /\ Tried(dhcp_set_state(d, s)).tries =
                IF d.state = s THEN (d.tries + 1) % TriesWidth ELSE 1
<1> DEFINE e == dhcp_set_state(d, s)
<1>1. e \in Client0 /\ e.state = s /\ (d.state # s => e.tries = 0) /\ (d.state = s => e = d)
  BY SetState DEF dhcp_set_state
<1> HIDE DEF e
<1>2. Tried(e).state = s /\ Tried(e).tries = (e.tries + 1) % TriesWidth
  BY <1>1 DEF Tried, Client0
<1>3. (0 + 1) % TriesWidth = 1
  BY DhcpAssumption
<1> QED
  BY <1>1, <1>2, <1>3 DEF e

(* A request in Dhcp is the request of the same name in Lwip. *)
Requests(d, s) == Client!Seen(Client!OneMoreTry(Client!dhcp_set_state(Abs(d), s)))

LEMMA RequestsMap ==
  ASSUME NEW d \in Client0, NEW s \in State, NEW e, e.state = s,
         e.tries = IF d.state = s THEN (d.tries + 1) % TriesWidth ELSE 1,
         d.state = s /\ s \in Counted => d.tries + 1 < TriesWidth
  PROVE  Abs(e) = Requests(d, s)
<1>1. d.tries \in Nat /\ TriesWidth \in Nat /\ TriesWidth >= 3
  BY DhcpAssumption DEF Client0
<1>2. CASE d.state # s
  <2>1. Client!OneMoreTry(Client!dhcp_set_state(Abs(d), s)) = [state |-> s, tries |-> 1]
    BY <1>1, <1>2 DEF Client!OneMoreTry, Client!dhcp_set_state, Abs
  <2> QED
    BY <1>2, <2>1 DEF Requests, Client!Seen, Abs, Counted
<1>3. CASE d.state = s /\ s \in Counted
  <2>1. (d.tries + 1) % TriesWidth = d.tries + 1 /\ d.tries < TriesWidth - 1
    BY <1>1, <1>3
  <2>2. Abs(d) = [state |-> s, tries |-> d.tries]
    BY <1>3 DEF Abs
  <2>3. Client!OneMoreTry(Client!dhcp_set_state(Abs(d), s)) = [state |-> s, tries |-> d.tries + 1]
    BY <2>1, <2>2 DEF Client!OneMoreTry, Client!dhcp_set_state
  <2> QED
    BY <1>3, <2>1, <2>3 DEF Requests, Client!Seen, Abs, Counted
<1>4. CASE d.state = s /\ s \notin Counted
  <2>1. Abs(d) = [state |-> s, tries |-> 0]
    BY <1>4 DEF Abs
  <2>2. Client!OneMoreTry(Client!dhcp_set_state(Abs(d), s)) = [state |-> s, tries |-> 1]
    BY <1>1, <2>1 DEF Client!OneMoreTry, Client!dhcp_set_state
  <2> QED
    BY <1>4, <2>2 DEF Requests, Client!Seen, Abs, Counted
<1> QED
  BY <1>2, <1>3, <1>4

LEMMA BecomesShape ==
  ASSUME NEW c, Abs(dhcp') = Client!Seen(c)
  PROVE  Client!Becomes(c)
BY DEF Client!Becomes, Abs, Counted

(* What a request leaves under Abs, when it begins from a client d that    *)
(* differs from e, which Abs shows, in what Abs does not show.             *)
LEMMA AskMaps ==
  ASSUME NEW d \in Client0, NEW s \in State,
         dhcp' \in {Tried(dhcp_set_state(d, s)),
                    [Tried(dhcp_set_state(d, s)) EXCEPT !.timer = NoTimer]},
         d.state = s /\ s \in Counted => d.tries + 1 < TriesWidth
  PROVE  dhcp'.state = s /\ Abs(dhcp') = Requests(d, s)
<1> DEFINE e == Tried(dhcp_set_state(d, s))
<1>1. e.state = s /\ e.tries = IF d.state = s THEN (d.tries + 1) % TriesWidth ELSE 1
  BY TriesAfter
<1>2. e \in Client0
  BY SetState, TriedKeeps
<1> HIDE DEF e
<1>3. dhcp'.state = e.state /\ dhcp'.tries = e.tries
  BY <1>2 DEF Client0, e
<1> QED
  BY <1>1, <1>3, RequestsMap

LEMMA CheckMaps ==
  ASSUME NEW d \in Client0, NEW ticked, dhcp_check(d, ticked),
         d.state = "CHECKING" => d.tries <= 1
  PROVE  Abs(dhcp') = Requests(d, "CHECKING")
<1> DEFINE e == Tried(dhcp_set_state(d, "CHECKING"))
<1>1. e.state = "CHECKING" /\ e.tries = IF d.state = "CHECKING" THEN (d.tries + 1) % TriesWidth ELSE 1
  BY TriesAfter DEF State
<1>2. e \in Client0
  BY SetState, TriedKeeps DEF State
<1>3. dhcp' = [e EXCEPT !.timer = IF ticked THEN "due" ELSE "set"]
  BY DEF dhcp_check
<1> HIDE DEF e
<1>4. dhcp'.state = e.state /\ dhcp'.tries = e.tries
  BY <1>2, <1>3 DEF Client0
<1>5. d.state = "CHECKING" => d.tries + 1 < TriesWidth
  BY DhcpAssumption DEF Client0
<1> QED
  BY <1>1, <1>4, <1>5, RequestsMap DEF State

LEMMA BindMaps ==
  ASSUME NEW d \in Client0, d.state \in {"CHECKING", "RENEWING", "REBINDING"}, dhcp_bind(d)
  PROVE  Abs(dhcp') = Client!Seen(Client!dhcp_set_state(Abs(d), "BOUND"))
<1>1. dhcp'.state = "BOUND"
  BY Bind
<1>2. Client!dhcp_set_state(Abs(d), "BOUND") = [state |-> "BOUND", tries |-> 0]
  BY DEF Client!dhcp_set_state, Abs
<1> QED
  BY <1>1, <1>2 DEF Abs, Client!Seen, Counted

(* A search that begins anew looks the same from everywhere. *)
LEMMA SearchMaps ==
  ASSUME NEW ms, NEW d \in Client0, dhcp_discover(ms, d)
  PROVE  Abs(dhcp') = [state |-> "SELECTING", tries |-> 0]
<1> DEFINE f == [d EXCEPT !.offered = IP_ADDR_ANY]
<1>1. f \in Client0
  BY DEF Client0, Anyone
<1>2. dhcp' = Tried(dhcp_set_state(f, "SELECTING"))
  BY DEF dhcp_discover
<1> HIDE DEF f
<1>3. dhcp'.state = "SELECTING"
  BY <1>1, <1>2, TriesAfter DEF State
<1> QED
  BY <1>3 DEF Abs, Counted

LEMMA SearchIs ==
  ASSUME NEW c, c.state # "SELECTING" \/ c = [state |-> "SELECTING", tries |-> 0]
  PROVE  Client!Seen(Client!dhcp_discover(c)) = [state |-> "SELECTING", tries |-> 0]
<1>1. Client!dhcp_set_state(c, "SELECTING") = [state |-> "SELECTING", tries |-> 0]
  BY DEF Client!dhcp_set_state
<1>2. Client!dhcp_discover(c) = [state |-> "SELECTING", tries |-> 1]
  BY <1>1, DhcpAssumption DEF Client!dhcp_discover, Client!OneMoreTry
<1> QED
  BY <1>2 DEF Client!Seen

LEMMA StartOverIs ==
  ASSUME NEW c
  PROVE  Client!Seen(Client!StartOver(c)) = [state |-> "SELECTING", tries |-> 0]
<1>1. Client!dhcp_set_state(c, "BACKING_OFF").state # "SELECTING"
  BY DEF Client!dhcp_set_state
<1> QED
  BY <1>1, SearchIs DEF Client!StartOver

(* A minute: the client asks for a renewal, or nothing of it is seen. *)
LEMMA CoarseMaps ==
  ASSUME TypeOK, NEW ms, NEW d \in Client0, CoarseTimer(ms, d)
  PROVE  \/ Abs(dhcp') = Abs(d)
         \/ HasLease(d) /\ \E s \in {"RENEWING", "REBINDING"} : Abs(dhcp') = Requests(d, s)
<1> DEFINE e == [d EXCEPT !.t2 = 0]
           f == [d EXCEPT !.t2 = Less(d.t2), !.t1 = Less(d.t1)]
<1>1. /\ e \in Client0 /\ HasLease(e) = HasLease(d) /\ Abs(e) = Abs(d)
      /\ f \in Client0 /\ HasLease(f) = HasLease(d) /\ Abs(f) = Abs(d)
  <2>1. 0 \in 0..(TimerWidth - 1) /\ Less(d.t2) \in 0..(TimerWidth - 1)
        /\ Less(d.t1) \in 0..(TimerWidth - 1)
    BY LessShape, DhcpAssumption DEF Client0
  <2>2. e \in Client0 /\ e.state = d.state /\ e.tries = d.tries
    BY <2>1 DEF Client0
  <2>3. f \in Client0 /\ f.state = d.state /\ f.tries = d.tries
    BY <2>1 DEF Client0
  <2> QED
    BY <2>2, <2>3 DEF HasLease, Abs
<1>2. Requests(e, "REBINDING") = Requests(d, "REBINDING") /\ Requests(f, "RENEWING") = Requests(d, "RENEWING")
  BY <1>1 DEF Requests
<1>3. \/ HasLease(e) /\ dhcp_rebind(ms, e)
      \/ HasLease(f) /\ dhcp_renew(ms, f)
      \/ dhcp' = e
      \/ dhcp' = f
  BY DEF CoarseTimer, dhcp_t1_timeout, dhcp_t2_timeout
<1> HIDE DEF e, f
<1>4. CASE HasLease(e) /\ dhcp_rebind(ms, e)
  <2>1. dhcp' = Tried(dhcp_set_state(e, "REBINDING"))
    BY <1>4 DEF dhcp_rebind
  <2>2. e.state # "REBINDING"
    BY <1>4 DEF HasLease
  <2>3. Abs(dhcp') = Requests(e, "REBINDING")
    BY <1>1, <2>1, <2>2, AskMaps DEF State
  <2> QED
    BY <1>1, <1>2, <1>4, <2>3
<1>5. CASE HasLease(f) /\ dhcp_renew(ms, f)
  <2>1. dhcp' \in {Tried(dhcp_set_state(f, "RENEWING")),
                   [Tried(dhcp_set_state(f, "RENEWING")) EXCEPT !.timer = NoTimer]}
    BY <1>5 DEF dhcp_renew
  <2>2. Abs(dhcp') = Requests(f, "RENEWING")
    BY <1>1, <2>1, AskMaps DEF State, Counted
  <2> QED
    BY <1>1, <1>2, <1>5, <2>2
<1>6. CASE dhcp' = e \/ dhcp' = f
  BY <1>1, <1>6
<1> QED
  BY <1>3, <1>4, <1>5, <1>6

LEMMA StepMaps == Memory /\ TypeOK /\ Grants /\ [Next]_vars => [Client!Next]_(Client!vars)
<1> SUFFICES ASSUME Memory, TypeOK, Grants, [Next]_vars PROVE [Client!Next]_(Client!vars)
  OBVIOUS
<1>0. dhcp \in Client0 /\ addr \in Anyone /\ IP_ADDR_ANY \notin Address
  BY DhcpAssumption DEF TypeOK, Client0
<1>1. CASE dhcp_start
  <2>1. CASE dhcp' = Cleared
    <3>1. Client!Start
      BY <1>1, <2>1 DEF dhcp_start, Cleared, Client!Start, Client!ClearedDhcp
    <3> QED
      BY <3>1 DEF Client!Next
  <2>2. CASE dhcp' = Tried(dhcp_set_state(Cleared, "SELECTING"))
    <3>1. Abs(dhcp') = [state |-> "SELECTING", tries |-> 0]
      BY <2>2, StartShape, TriesAfter DEF State, Abs, Counted
    <3>2. Client!Becomes(Client!dhcp_discover(Client!ClearedDhcp))
      BY <3>1, SearchIs, BecomesShape DEF Client!ClearedDhcp
    <3>3. Client!Start
      BY <1>1, <3>2 DEF dhcp_start, Client!Start
    <3> QED
      BY <3>3 DEF Client!Next
  <2> QED
    BY <1>1, <2>1, <2>2 DEF dhcp_start
<1>2. CASE dhcp_stop
  <2>1. Client!dhcp_stop(Abs(dhcp)) = [state |-> "OFF", tries |-> 0]
    BY <1>0, <1>2 DEF dhcp_stop, Client!dhcp_stop, Client!dhcp_set_state, Abs, Client0, State
  <2>2. Client!Becomes(Client!dhcp_stop(Abs(dhcp)))
    BY <1>2, <2>1, BecomesShape DEF dhcp_stop, Cleared, Abs, Counted, Client!Seen
  <2>3. Client!Stop
    BY <1>0, <1>2, <2>2 DEF dhcp_stop, Client!Stop, Client!Negotiating, Abs, Counted, Client0, State
  <2> QED
    BY <2>3 DEF Client!Next
<1>3. CASE RecvOffer
  <2>1. PICK m \in net : \E ms \in AfterDelivery(m) :
          dhcp_select(ms, [dhcp EXCEPT !.timer = NoTimer, !.offered = m.addr])
    BY <1>3 DEF RecvOffer
  <2> DEFINE d == [dhcp EXCEPT !.timer = NoTimer, !.offered = m.addr]
  <2>2. d \in Client0 /\ d.state = "SELECTING" /\ Abs(d) = Abs(dhcp)
    BY <1>0, <1>3, <2>1 DEF RecvOffer, Client0, TypeOK, Message, Abs
  <2>3. dhcp' = Tried(dhcp_set_state(d, "REQUESTING"))
    BY <2>1 DEF dhcp_select
  <2> HIDE DEF d
  <2>4. Abs(dhcp') = Requests(dhcp, "REQUESTING")
    BY <2>2, <2>3, AskMaps DEF State, Requests
  <2>5. Client!Offer
    BY <1>3, <2>4, BecomesShape
       DEF RecvOffer, Requests, Client!Offer, Client!dhcp_select, Abs, Counted
  <2> QED
    BY <2>5 DEF Client!Next
<1>3a. CASE RecvNameless
  <2>1. Abs(dhcp') = Abs(dhcp) /\ addr' = addr
    BY <1>0, <1>3a DEF RecvNameless, Client0, Abs
  <2> QED
    BY <2>1, <1>3a DEF Client!vars, RecvNameless
<1>4. CASE RecvFirstAck
  <2>1. PICK m \in net : dhcp_check([dhcp EXCEPT !.offered = m.addr, !.terms = TRUE], m.old)
    BY <1>4 DEF RecvFirstAck
  <2> DEFINE d == [dhcp EXCEPT !.offered = m.addr, !.terms = TRUE]
  <2>2. d \in Client0 /\ d.state = "REQUESTING" /\ Abs(d) = Abs(dhcp)
    BY <1>0, <1>4, <2>1 DEF RecvFirstAck, Client0, TypeOK, Message, Abs
  <2>3. dhcp_check(d, m.old)
    BY <2>1
  <2> HIDE DEF d
  <2>4. Abs(dhcp') = Requests(dhcp, "CHECKING")
    BY <2>2, <2>3, CheckMaps DEF Requests
  <2>5. Client!FirstAck
    BY <1>4, <2>4, BecomesShape
       DEF RecvFirstAck, Requests, Client!FirstAck, Client!dhcp_check, Abs, Counted
  <2> QED
    BY <2>5 DEF Client!Next
<1>5. CASE RecvLaterAck
  <2>1. PICK m \in net : m.type = "ACK" /\ m.fresh
    BY <1>5 DEF RecvLaterAck, Matches
  <2>2. dhcp.offered # IP_ADDR_ANY
    BY <1>5, <2>1 DEF RecvLaterAck, Grants, Answers, Exchange, Talk, Live, Holding
  <2>3. dhcp.state \in {"RENEWING", "REBINDING"} /\ dhcp_bind(dhcp) /\ addr' = dhcp.offered
    BY <1>5 DEF RecvLaterAck, dhcp_bind
  <2>4. Client!Becomes(Client!dhcp_set_state(Abs(dhcp), "BOUND"))
    BY <1>0, <2>3, BindMaps, BecomesShape
  <2>5. Client!Bind
    BY <2>2, <2>3, <2>4 DEF Client!Bind, Abs, Counted
  <2> QED
    BY <2>5 DEF Client!Next
<1>6. CASE RecvNak
  <2>1. PICK ms : dhcp_discover(ms, dhcp_set_state(dhcp, "BACKING_OFF"))
    BY <1>6 DEF RecvNak
  <2>2. Abs(dhcp') = [state |-> "SELECTING", tries |-> 0]
    BY <1>0, <2>1, SetState, SearchMaps DEF State
  <2>3. Client!Becomes(Client!StartOver(Abs(dhcp)))
    BY <2>2, StartOverIs, BecomesShape
  <2>4. Client!Lost
    BY <1>6, <2>3 DEF RecvNak, Client!Lost, Abs, Counted
  <2> QED
    BY <2>4 DEF Client!Next
<1>7. CASE dhcp_arp_reply
  <2>1. dhcp.state = "CHECKING" /\ dhcp' = Tried(dhcp_set_state(dhcp, "BACKING_OFF")) /\ addr' = addr
    BY <1>7 DEF dhcp_arp_reply, dhcp_decline
  <2>2. Abs(dhcp') = Requests(dhcp, "BACKING_OFF")
    BY <1>0, <2>1, AskMaps DEF State
  <2>3. Client!Conflict
    BY <2>1, <2>2, BecomesShape DEF Requests, Client!Conflict, Client!dhcp_decline, Abs, Counted
  <2> QED
    BY <2>3 DEF Client!Next
<1>8. CASE AskAgain
  <2>1. CASE TimerEnds("SELECTING") /\ dhcp_discover(net, dhcp)
    <3>1. Abs(dhcp') = [state |-> "SELECTING", tries |-> 0] /\ Abs(dhcp) = Abs(dhcp')
      BY <1>0, <2>1, SearchMaps DEF TimerEnds, Abs, Counted
    <3>2. UNCHANGED Client!vars
      BY <1>8, <3>1 DEF AskAgain, Client!vars, Abs, Counted
    <3> QED
      BY <3>2
  <2>2. CASE TimerEnds("REQUESTING") /\ dhcp.tries <= RequestTries /\ dhcp_select(net, dhcp)
    <3>1. dhcp.tries + 1 < TriesWidth
      BY <1>0, <2>2, DhcpAssumption DEF Client0
    <3>2. dhcp.state = "REQUESTING" /\ dhcp' = Tried(dhcp_set_state(dhcp, "REQUESTING"))
      BY <2>2 DEF TimerEnds, dhcp_select
    <3>3. Abs(dhcp') = Requests(dhcp, "REQUESTING")
      BY <1>0, <3>1, <3>2, AskMaps DEF State
    <3>4. Client!Repeat
      BY <1>8, <2>2, <3>2, <3>3, BecomesShape
         DEF AskAgain, Requests, Client!Repeat, Client!dhcp_select, Abs, Counted
    <3> QED
      BY <3>4 DEF Client!Next
  <2>3. CASE TimerEnds("RENEWING") /\ dhcp_renew(net, dhcp)
    <3>1. /\ dhcp.state = "RENEWING"
          /\ dhcp' \in {Tried(dhcp_set_state(dhcp, "RENEWING")),
                        [Tried(dhcp_set_state(dhcp, "RENEWING")) EXCEPT !.timer = NoTimer]}
      BY <2>3 DEF TimerEnds, dhcp_renew
    <3>2. Abs(dhcp') = Requests(dhcp, "RENEWING")
      BY <1>0, <3>1, AskMaps DEF State, Counted
    <3>3. Client!Repeat
      BY <1>8, <3>1, <3>2, BecomesShape
         DEF AskAgain, Requests, Client!Repeat, Client!dhcp_renew, Abs, Counted
    <3> QED
      BY <3>3 DEF Client!Next
  <2>4. CASE TimerEnds("REBINDING") /\ dhcp.tries <= RebindTries /\ dhcp_rebind(net, dhcp)
    <3>1. dhcp.tries + 1 < TriesWidth
      BY <1>0, <2>4, DhcpAssumption DEF Client0
    <3>2. dhcp.state = "REBINDING" /\ dhcp' = Tried(dhcp_set_state(dhcp, "REBINDING"))
      BY <2>4 DEF TimerEnds, dhcp_rebind
    <3>3. Abs(dhcp') = Requests(dhcp, "REBINDING")
      BY <1>0, <3>1, <3>2, AskMaps DEF State
    <3>4. Client!Repeat
      BY <1>8, <2>4, <3>2, <3>3, BecomesShape
         DEF AskAgain, Requests, Client!Repeat, Client!dhcp_rebind, Abs, Counted
    <3> QED
      BY <3>4 DEF Client!Next
  <2> QED
    BY <1>8, <2>1, <2>2, <2>3, <2>4 DEF AskAgain
<1>9. CASE GiveUp
  <2>1. PICK ms : dhcp_discover(ms, Released(dhcp))
    BY <1>9 DEF GiveUp, ReleaseAndDiscover
  <2>2. Abs(dhcp') = [state |-> "SELECTING", tries |-> 0]
    BY <1>0, <2>1, ReleasedShape, SearchMaps
  <2>3. Client!Becomes(Client!StartOver(Abs(dhcp)))
    BY <2>2, StartOverIs, BecomesShape
  <2>4. Client!Lost
    BY <1>9, <2>3 DEF GiveUp, ReleaseAndDiscover, TimerEnds, Client!Lost, Abs, Counted
  <2> QED
    BY <2>4 DEF Client!Next
<1>10. CASE CheckAgain
  <2>1. dhcp.state = "CHECKING" /\ dhcp.tries <= 1 /\ dhcp_check(dhcp, dhcp.timer = "due")
    BY <1>10 DEF CheckAgain, TimerEnds
  <2>2. Abs(dhcp') = Requests(dhcp, "CHECKING")
    BY <1>0, <2>1, CheckMaps
  <2>3. Client!Repeat
    BY <1>10, <2>1, <2>2, BecomesShape
       DEF CheckAgain, Requests, Client!Repeat, Client!dhcp_check, Abs, Counted
  <2> QED
    BY <2>3 DEF Client!Next
<1>11. CASE CheckDone
  <2>1. dhcp.state = "CHECKING" /\ dhcp.tries > 1 /\ dhcp_bind(dhcp) /\ addr' = dhcp.offered
    BY <1>11 DEF CheckDone, TimerEnds, dhcp_bind
  <2>2. dhcp.offered # IP_ADDR_ANY
    BY <1>0, <2>1 DEF Grants, Checking, Covered
  <2>3. Client!Becomes(Client!dhcp_set_state(Abs(dhcp), "BOUND"))
    BY <1>0, <2>1, BindMaps, BecomesShape
  <2>4. Client!Bind
    BY <2>1, <2>2, <2>3 DEF Client!Bind, Abs, Counted
  <2> QED
    BY <2>4 DEF Client!Next
<1>12. CASE BackOffEnds
  <2>1. dhcp.state = "BACKING_OFF" /\ \E ms : dhcp_discover(ms, dhcp)
    BY <1>12 DEF BackOffEnds, TimerEnds
  <2>2. Abs(dhcp') = [state |-> "SELECTING", tries |-> 0]
    BY <1>0, <2>1, SearchMaps
  <2>3. Client!Becomes(Client!dhcp_discover(Abs(dhcp)))
    BY <2>1, <2>2, SearchIs, BecomesShape DEF Abs
  <2>4. Client!Search
    BY <1>12, <2>1, <2>3 DEF BackOffEnds, Client!Search, Abs, Counted
  <2> QED
    BY <2>4 DEF Client!Next
<1>13. CASE dhcp_coarse_tmr
  <2>1. CASE dhcp.state = "OFF"
    BY <1>13, <2>1 DEF dhcp_coarse_tmr, Client!vars
  <2>2. CASE dhcp.state # "OFF"
    <3> DEFINE d == [dhcp EXCEPT !.timer = IF dhcp.timer = "set" THEN "due" ELSE dhcp.timer]
    <3>1. d \in Client0 /\ d.state = dhcp.state /\ Abs(d) = Abs(dhcp)
      BY <1>0 DEF Client0, Abs
    <3>2. CoarseTimer(Aged, d) /\ addr' = addr
      BY <1>13, <2>2 DEF dhcp_coarse_tmr
    <3> HIDE DEF d
    <3>3. CASE Abs(dhcp') = Abs(d)
      BY <3>1, <3>2, <3>3 DEF Client!vars, Abs, Counted
    <3>4. CASE HasLease(d) /\ \E s \in {"RENEWING", "REBINDING"} : Abs(dhcp') = Requests(d, s)
      <4>1. PICK s \in {"RENEWING", "REBINDING"} : Abs(dhcp') = Requests(dhcp, s)
        BY <3>1, <3>4 DEF Requests
      <4>2. Client!LeaseTimer
        BY <3>1, <3>2, <3>4, <4>1, BecomesShape
           DEF HasLease, Requests, Client!LeaseTimer, Client!dhcp_renew, Client!dhcp_rebind,
               Abs, Counted
      <4> QED
        BY <4>2 DEF Client!Next
    <3> QED
      BY <3>1, <3>2, <3>3, <3>4, CoarseMaps
  <2> QED
    BY <2>1, <2>2
<1>14. CASE Server \/ Lose \/ UNCHANGED vars
  <2>1. dhcp' = dhcp /\ addr' = addr
    BY <1>14 DEF Server, ServerOffers, ServerForgetsName, ServerAcks, ServerNaks, ServerNotesDecline, LeaseEnds,
                 Lose, vars, client
  <2> QED
    BY <2>1 DEF Client!vars
<1> QED
  BY <1>1, <1>2, <1>3, <1>3a, <1>4, <1>5, <1>6, <1>7, <1>8, <1>9, <1>10, <1>11, <1>12, <1>13, <1>14
     DEF Next, Replies, dhcp_fine_tmr

(* Whatever the network, the timers and the lack of memory do, the client  *)
(* takes the steps of DhcpClient, which EthDevice has for it, and no other.*)
THEOREM ImplementsDhcpClient ==
  ASSUME Memory
  PROVE  Spec => AsDriven
<1>1. Init => Client!Init
  BY DEF Init, Cleared, Client!Init, Client!ClearedDhcp
<1>2. TypeOK /\ Grants /\ [Next]_vars => [Client!Next]_(Client!vars)
  BY StepMaps
<1>3. TypeOK /\ Grants /\ [Next]_vars => Grants'
  BY StepGrants
<1> QED
  BY <1>1, <1>2, <1>3, InitType, StepType, InitGrants, PTL DEF Spec, AsDriven, Client!Spec
=============================================================================
