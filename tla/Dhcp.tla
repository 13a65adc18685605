-------------------------------- MODULE Dhcp --------------------------------
(***************************************************************************)
(* The DHCP client of lwIP (dhcp.c) on one interface, with a server, a     *)
(* network that loses, repeats and reorders what it carries, and another   *)
(* host that may already use an address.                                   *)
(*                                                                         *)
(* Time is counted in periods of dhcp_coarse_tmr (a minute).  A message is *)
(* under way for less than ten seconds, the shortest pause the client      *)
(* keeps after a DECLINE, and does not survive a restart of the client,    *)
(* which resets the PHY; it may live through one tick of the minute timer. *)
(* The timer of a request is shorter than a minute, so at most one tick    *)
(* passes while it runs.                                                   *)
(***************************************************************************)
EXTENDS Integers, FiniteSets

CONSTANTS Address,       \* addresses the server hands out
          InUse,         \* those that another host uses without asking
          RequestTries, RebindTries, \* limits in dhcp_timeout (5 and 8)
          TriesWidth,    \* number of values of dhcp->tries (256)
          TimerWidth,    \* number of values of t1_timeout and t2_timeout (65536)
          Lease, T1, T2, \* what the server grants, in ticks
          MaxOverdue,    \* bound: ticks counted after the end of a lease
          MaxMessages,   \* bound: messages under way in each direction
          Failing        \* the messages for which there may be no memory

IP_ADDR_ANY == "0.0.0.0"

ASSUME DhcpAssumption ==
    /\ InUse \subseteq Address /\ IP_ADDR_ANY \notin Address
    /\ RequestTries \in Nat /\ RebindTries \in Nat /\ TriesWidth \in Nat
    /\ RequestTries + 1 < TriesWidth /\ RebindTries + 1 < TriesWidth
    /\ TriesWidth >= 3
    /\ Lease \in Nat \ {0} /\ T1 \in Nat \ {0} /\ T2 \in Nat \ {0}
    /\ TimerWidth \in Nat /\ T1 < TimerWidth /\ T2 < TimerWidth
    /\ MaxOverdue \in Nat /\ MaxMessages \in Nat

VARIABLES
  dhcp,      \* struct dhcp: state, tries, t1, t2, offered; `timer' is
             \* request_timeout, "due" when a minute has begun since it was set;
             \* `terms': the offered times are those of an ACK, not zero
  addr,      \* the address of the interface, which is up when it has one
  net,       \* messages under way
  granted,   \* what the server has done with each address
  left       \* ticks until the lease of each address ends

client == <<dhcp, addr>>
server == <<granted, left>>
vars == <<client, net, server>>

State == {"OFF", "SELECTING", "REQUESTING", "CHECKING", "BACKING_OFF",
          "BOUND", "RENEWING", "REBINDING"}
Request == {"DISCOVER", "REQUEST", "RENEW", "DECLINE"}
(* "NAMELESS" is an OFFER without the SERVER_ID option. *)
Reply == {"OFFER", "NAMELESS", "ACK", "NAK"}
Anyone == Address \cup {IP_ADDR_ANY}

(* `fresh': with the transaction id the client expects now; ids are never  *)
(* used twice.  `old': sent before the last tick.                          *)
Message == [type : Request \cup Reply, addr : Anyone,
            fresh : BOOLEAN, old : BOOLEAN]
Msg(type, a, fresh) == [type |-> type, addr |-> a, fresh |-> fresh, old |-> FALSE]

NoTimer == "off"
Cleared == [state |-> "OFF", tries |-> 0, timer |-> NoTimer, t1 |-> 0, t2 |-> 0,
            offered |-> IP_ADDR_ANY, terms |-> FALSE]

Outdated(ms) == {[m EXCEPT !.fresh = FALSE] : m \in ms}

(* What is under way after m was sent: a full direction loses something. *)
Along(ms, m) == {x \in ms : x.type \in Request <=> m.type \in Request}
Carried(ms, m) ==
    {n \in {ms \cup {m}} \cup {(ms \ {x}) \cup {m} : x \in Along(ms, m)} :
        Cardinality(Along(n, m)) <= MaxMessages}

(* A reply that was delivered may come again. *)
AfterDelivery(m) == {net, net \ {m}}

-----------------------------------------------------------------------------
(* The client *)

(* Mutant: the tries of the last state are kept. *)
KeepsTries(d, s) ==
    IF d.state = s THEN d ELSE [d EXCEPT !.state = s, !.timer = NoTimer]

dhcp_set_state(d, s) ==
    IF d.state = s THEN d
    ELSE [d EXCEPT !.state = s, !.tries = 0, !.timer = NoTimer]

Tried(d) == [d EXCEPT !.tries = (d.tries + 1) % TriesWidth, !.timer = "set"]

(* A new transaction id, except for a retransmission. *)
Numbered(ms, d) == IF d.tries = 0 THEN Outdated(ms) ELSE ms

(* dhcp_create_msg and udp_sendto_if.  Without memory nothing is sent and  *)
(* the id stays.                                                           *)
Sent(ms, d, type, a) == net' \in Carried(Numbered(ms, d), Msg(type, a, TRUE))
Send(ms, d, type, a) == \/ Sent(ms, d, type, a)
                        \/ type \in Failing /\ net' = ms

dhcp_discover(ms, d0) ==
    LET d == dhcp_set_state([d0 EXCEPT !.offered = IP_ADDR_ANY], "SELECTING")
    IN  Send(ms, d, "DISCOVER", IP_ADDR_ANY) /\ dhcp' = Tried(d)

dhcp_select(ms, d0) ==
    LET d == dhcp_set_state(d0, "REQUESTING")
    IN  Send(ms, d, "REQUEST", d.offered) /\ dhcp' = Tried(d)

(* An ARP query instead of a message.  Half a second, twice: no two ticks  *)
(* pass between the ACK and the end of the check.                          *)
dhcp_check(d0, ticked) ==
    dhcp' = [Tried(dhcp_set_state(d0, "CHECKING")) EXCEPT
                !.timer = IF ticked THEN "due" ELSE "set"]

(* Mutant: the check goes on after the DECLINE. *)
DeclineAndGoOn(ms, d) == Send(ms, d, "DECLINE", d.offered) /\ dhcp' = Tried(d)

dhcp_decline(ms, d0) ==
    LET d == dhcp_set_state(d0, "BACKING_OFF")
    IN  Send(ms, d, "DECLINE", d.offered) /\ dhcp' = Tried(d)

(* A wait of tries * 2 s, none if tries has wrapped to 0. *)
dhcp_renew(ms, d0) ==
    LET d == dhcp_set_state(d0, "RENEWING")
    IN  /\ Send(ms, d, "RENEW", addr)
        /\ dhcp' = IF Tried(d).tries = 0 THEN [Tried(d) EXCEPT !.timer = NoTimer]
                   ELSE Tried(d)

dhcp_rebind(ms, d0) ==
    LET d == dhcp_set_state(d0, "REBINDING")
    IN  Send(ms, d, "RENEW", addr) /\ dhcp' = Tried(d)

(* T1 is dropped when it would come with T2 or after it.  Times of zero    *)
(* become one tick.                                                        *)
LeaseTimers(d) == IF ~d.terms THEN [t1 |-> 0, t2 |-> 1]
                  ELSE [t1 |-> IF T1 >= T2 THEN 0 ELSE T1, t2 |-> T2]

dhcp_bind(d) ==
    /\ addr' = d.offered
    /\ dhcp' = dhcp_set_state([d EXCEPT !.t1 = LeaseTimers(d).t1,
                                        !.t2 = LeaseTimers(d).t2], "BOUND")

(* dhcp_release and then dhcp_discover.  The RELEASE names no address and  *)
(* goes to 0.0.0.0, so no server acts on it: what is left of it is the     *)
(* transaction id, if there was memory for it.                             *)
Released(d) ==
    dhcp_set_state([d EXCEPT !.offered = IP_ADDR_ANY, !.terms = FALSE], "OFF")
ReleaseAndDiscover(d) ==
    /\ addr' = IP_ADDR_ANY
    /\ \E ms \in {Outdated(net)} \cup (IF "RELEASE" \in Failing THEN {net} ELSE {}) :
           dhcp_discover(ms, Released(d))

(* If there is no memory for the first DISCOVER, or for what the client    *)
(* itself needs, it stops at once.                                         *)
dhcp_start ==
    /\ dhcp.state = "OFF"
    /\ addr' = IP_ADDR_ANY
    /\ LET d == dhcp_set_state(Cleared, "SELECTING")
       IN  \/ Sent(net, d, "DISCOVER", IP_ADDR_ANY) /\ dhcp' = Tried(d)
           \/ dhcp' = Cleared /\ net' = net
    /\ UNCHANGED server

(* The task takes the interface away as well and resets the PHY.  What is  *)
(* left of struct dhcp is not read until dhcp_start clears it.             *)
dhcp_stop ==
    /\ dhcp.state # "OFF"
    /\ dhcp' = Cleared
    /\ addr' = IP_ADDR_ANY /\ net' = {}
    /\ UNCHANGED server

-----------------------------------------------------------------------------
(* Replies: dhcp_recv *)

(* dhcp_recv and dhcp_parse_reply find a reply with the expected id.       *)
Matches(m, type) == m.type = type /\ m.fresh

RecvOffer ==
    /\ dhcp.state = "SELECTING"
    /\ \E m \in net : \E ms \in AfterDelivery(m) :
         /\ Matches(m, "OFFER")
         /\ dhcp_select(ms, [dhcp EXCEPT !.timer = NoTimer, !.offered = m.addr])
    /\ UNCHANGED <<addr, server>>

(* The timer has been cleared before the option is missed, and nothing is  *)
(* sent: the client waits for ever, unless another OFFER comes.            *)
RecvNameless ==
    /\ dhcp.state = "SELECTING"
    /\ \E m \in net : Matches(m, "NAMELESS") /\ net' \in AfterDelivery(m)
    /\ dhcp' = [dhcp EXCEPT !.timer = NoTimer]
    /\ UNCHANGED <<addr, server>>

(* dhcp_handle_ack, then the check of the address. *)
RecvFirstAck ==
    /\ dhcp.state = "REQUESTING"
    /\ \E m \in net :
         /\ Matches(m, "ACK")
         /\ net' \in AfterDelivery(m)
         /\ dhcp_check([dhcp EXCEPT !.offered = m.addr, !.terms = TRUE], m.old)
    /\ UNCHANGED <<addr, server>>

(* The times and the address of this ACK are not looked at. *)
RecvLaterAck ==
    /\ dhcp.state \in {"RENEWING", "REBINDING"}
    /\ \E m \in net : Matches(m, "ACK") /\ net' \in AfterDelivery(m)
    /\ dhcp_bind(dhcp)
    /\ UNCHANGED server

(* dhcp_handle_nak *)
RecvNak ==
    /\ dhcp.state \in {"REQUESTING", "RENEWING", "REBINDING"}
    /\ \E m \in net : \E ms \in AfterDelivery(m) :
         /\ Matches(m, "NAK")
         /\ dhcp_discover(ms, dhcp_set_state(dhcp, "BACKING_OFF"))
    /\ addr' = IP_ADDR_ANY
    /\ UNCHANGED server

(* Another host answers the ARP query. *)
dhcp_arp_reply ==
    /\ dhcp.state = "CHECKING" /\ dhcp.offered \in InUse
    /\ dhcp_decline(net, dhcp)
    /\ UNCHANGED <<addr, server>>

-----------------------------------------------------------------------------
(* Time *)

(* Mutant: nothing is done at the end of the ten seconds. *)
EndsUnlessBackOff(s) == s # "BACKING_OFF" /\ dhcp.state = s /\ dhcp.timer # NoTimer

TimerEnds(s) == dhcp.state = s /\ dhcp.timer # NoTimer

(* dhcp_fine_tmr finds that a request has waited long enough: dhcp_timeout.*)
AskAgain ==
    /\ \/ TimerEnds("SELECTING") /\ dhcp_discover(net, dhcp)
       \/ TimerEnds("REQUESTING") /\ dhcp.tries <= RequestTries /\ dhcp_select(net, dhcp)
       \/ TimerEnds("RENEWING") /\ dhcp_renew(net, dhcp)
       \/ TimerEnds("REBINDING") /\ dhcp.tries <= RebindTries /\ dhcp_rebind(net, dhcp)
    /\ UNCHANGED <<addr, server>>

GiveUp ==
    /\ \/ TimerEnds("REQUESTING") /\ dhcp.tries > RequestTries
       \/ TimerEnds("REBINDING") /\ dhcp.tries > RebindTries
    /\ ReleaseAndDiscover(dhcp)
    /\ UNCHANGED server

CheckAgain ==
    /\ TimerEnds("CHECKING") /\ dhcp.tries <= 1
    /\ dhcp_check(dhcp, dhcp.timer = "due")
    /\ UNCHANGED <<addr, net, server>>

CheckDone ==
    /\ TimerEnds("CHECKING") /\ dhcp.tries > 1
    /\ dhcp_bind(dhcp)
    /\ UNCHANGED <<net, server>>

(* After ten seconds no request of before is under way any more. *)
BackOffEnds ==
    /\ TimerEnds("BACKING_OFF")
    /\ dhcp_discover({m \in net : m.type \in Reply}, dhcp)
    /\ UNCHANGED <<addr, server>>

(* The states in which T1 and T2 do something.                             *)
(* Mutant: T2 is forgotten while a renewal goes on.                        *)
NotWhileRenewing(d) == d.state \in {"REQUESTING", "BOUND"}
HasLease(d) == d.state \in {"REQUESTING", "BOUND", "RENEWING"}

Less(n) == (n - 1) % TimerWidth     \* a u16_t

dhcp_t2_timeout(ms, d) ==
    IF HasLease(d) THEN dhcp_rebind(ms, d)
    ELSE dhcp' = d /\ net' = ms

dhcp_t1_timeout(ms, d) ==
    IF HasLease(d) THEN dhcp_renew(ms, d)
    ELSE dhcp' = d /\ net' = ms

(* A minute, for the client: T1 is only counted when T2 is not due.        *)
CoarseTimer(ms, d) ==
    IF d.t2 = 1 THEN dhcp_t2_timeout(ms, [d EXCEPT !.t2 = 0])
    ELSE LET e == [d EXCEPT !.t2 = Less(d.t2), !.t1 = Less(d.t1)]
         IN  IF d.t1 = 1 THEN dhcp_t1_timeout(ms, e)
             ELSE dhcp' = e /\ net' = ms

Aged == {[m EXCEPT !.old = TRUE] : m \in {x \in net : ~x.old}}

(* The end of a lease that has no tick left comes before the next tick. *)
dhcp_coarse_tmr ==
    /\ dhcp.timer # "due"
    /\ \A a \in Address : granted[a] = "us" => left[a] > 0
    /\ left' = [a \in Address |->
                   IF granted[a] \in {"us", "lapsed"} /\ left[a] > -MaxOverdue
                   THEN left[a] - 1 ELSE left[a]]
    /\ IF dhcp.state = "OFF"     \* the interface is not in netif_list
       THEN net' = Aged /\ UNCHANGED dhcp
       ELSE CoarseTimer(Aged, [dhcp EXCEPT !.timer =
                                   IF dhcp.timer = "set" THEN "due" ELSE dhcp.timer])
    /\ UNCHANGED <<addr, granted>>

-----------------------------------------------------------------------------
(* The server and the network *)

Answer(m, type, a) ==
    \E ms \in AfterDelivery(m) : net' \in Carried(ms, Msg(type, a, m.fresh))

ServerOffers ==
    /\ \E m \in net, a \in Address :
         /\ m.type = "DISCOVER" /\ granted[a] # "declined"
         /\ Answer(m, "OFFER", a)
    /\ UNCHANGED <<client, server>>

(* The address in it is never read. *)
ServerForgetsName ==
    /\ \E m \in net : m.type = "DISCOVER" /\ Answer(m, "NAMELESS", IP_ADDR_ANY)
    /\ UNCHANGED <<client, server>>

(* An address whose lease has ended may be given again or not. *)
ServerAcks ==
    /\ \E m \in net :
         /\ m.type \in {"REQUEST", "RENEW"} /\ m.addr # IP_ADDR_ANY
         /\ granted[m.addr] # "declined"
         /\ Answer(m, "ACK", m.addr)
         /\ granted' = [granted EXCEPT ![m.addr] = "us"]
         /\ left' = [left EXCEPT ![m.addr] = Lease]
    /\ UNCHANGED client

ServerNaks ==
    /\ \E m \in net :
         /\ m.type \in {"REQUEST", "RENEW"}
         /\ m.addr # IP_ADDR_ANY => granted[m.addr] \in {"lapsed", "declined"}
         /\ Answer(m, "NAK", IP_ADDR_ANY)
    /\ UNCHANGED <<client, server>>

ServerNotesDecline ==
    /\ \E m \in net :
         /\ m.type = "DECLINE"
         /\ net' \in AfterDelivery(m)
         /\ granted' = [granted EXCEPT ![m.addr] = "declined"]
         /\ left' = [left EXCEPT ![m.addr] = 0]
    /\ UNCHANGED client

LeaseEnds ==
    /\ \E a \in Address :
         /\ granted[a] = "us" /\ left[a] = 0
         /\ granted' = [granted EXCEPT ![a] = "lapsed"]
    /\ UNCHANGED <<client, net, left>>

(* Also a reply that dhcp_recv does not want. *)
Lose ==
    /\ \E m \in net : net' = net \ {m}
    /\ UNCHANGED <<client, server>>

-----------------------------------------------------------------------------
Init == /\ dhcp = Cleared /\ addr = IP_ADDR_ANY
        /\ net = {}
        /\ granted = [a \in Address |-> "free"] /\ left = [a \in Address |-> 0]

Replies == RecvOffer \/ RecvNameless \/ RecvFirstAck \/ RecvLaterAck \/ RecvNak \/ dhcp_arp_reply
dhcp_fine_tmr == AskAgain \/ GiveUp \/ CheckAgain \/ CheckDone \/ BackOffEnds
Server == ServerOffers \/ ServerForgetsName \/ ServerAcks \/ ServerNaks
          \/ ServerNotesDecline \/ LeaseEnds

Next == dhcp_start \/ dhcp_stop \/ Replies \/ dhcp_fine_tmr \/ dhcp_coarse_tmr
        \/ Server \/ Lose

Spec == Init /\ [][Next]_vars

(* The timers of tcpip_thread run.  A server that is asked again and again *)
(* gets a request some time, and the client its reply.                     *)
Fair == /\ WF_vars(dhcp_fine_tmr) /\ WF_vars(dhcp_coarse_tmr) /\ WF_vars(LeaseEnds)
        /\ SF_vars(ServerOffers) /\ SF_vars(ServerAcks) /\ SF_vars(ServerNotesDecline)
        /\ SF_vars(RecvOffer) /\ SF_vars(RecvFirstAck \/ RecvLaterAck)

FairSpec == Spec /\ Fair

-----------------------------------------------------------------------------
TypeOK ==
    /\ dhcp \in [state : State, tries : 0..(TriesWidth - 1),
                 timer : {NoTimer, "set", "due"},
                 t1 : 0..(TimerWidth - 1), t2 : 0..(TimerWidth - 1),
                 offered : Anyone, terms : BOOLEAN]
    /\ addr \in Anyone
    /\ net \subseteq Message
    /\ granted \in [Address -> {"free", "us", "lapsed", "declined"}]
    /\ left \in [Address -> (-MaxOverdue)..Lease]

(* The interface never has an address the server has not granted to this   *)
(* host, or has been told not to use: whatever was lost, repeated or came  *)
(* late.  Only the end of the lease may have come.                         *)
AddressGranted == addr # IP_ADDR_ANY => granted[addr] \in {"us", "lapsed"}

(* A client that thinks its lease is good (BOUND), or that a renewal will  *)
(* do (RENEWING), has not missed the end of it by as much as a tick:       *)
(* dhcp_coarse_tmr gets it to REBINDING in time.                           *)
NoticesEnd == addr # IP_ADDR_ANY /\ dhcp.state \in {"BOUND", "RENEWING"}
                  => left[addr] >= 0

(* A client that is not stopped gets an address again and again, whatever  *)
(* the network loses and whichever timer of an earlier lease fires.  Only  *)
(* an OFFER without SERVER_ID can end that: it leaves a search without a   *)
(* timer (dhcp.c:268-271, 1624), and the client may stay there for good.   *)
Stranded == dhcp.state = "SELECTING" /\ dhcp.timer = NoTimer
ComesBack == []<>(dhcp.state \in {"BOUND", "OFF"}) \/ <>[]Stranded

(* An address whose lease has ended is given up or granted again.          *)
Expired == addr # IP_ADDR_ANY /\ granted[addr] = "lapsed"
EndsUse == []<>~Expired

(* The state machine EthDevice drives has every step of this client.       *)
Client == INSTANCE DhcpClient WITH
    MaxTries <- TriesWidth - 1,
    dhcp <- [state |-> dhcp.state,
             tries |-> IF dhcp.state \in {"REQUESTING", "CHECKING", "REBINDING"}
                       THEN dhcp.tries ELSE 0],
    leased <- addr # IP_ADDR_ANY
AsDriven == Client!Spec
=============================================================================
