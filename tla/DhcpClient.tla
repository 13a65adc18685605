----------------------------- MODULE DhcpClient -----------------------------
(***************************************************************************)
(* What the Ethernet task sees of a DHCP client: its state, its tries and  *)
(* whether the interface has an address.  Its steps are those EthDevice    *)
(* takes for it, with the operators of Lwip; any of them may come at any   *)
(* time.  Dhcp, with the messages and the timers, implements it.           *)
(***************************************************************************)
EXTENDS Lwip

VARIABLES dhcp, leased

vars == <<dhcp, leased>>

(* The tries that decide something, and those only: a search and a renewal *)
(* have no limit of their own.                                             *)
Seen(d) == IF d.state \in {"REQUESTING", "CHECKING", "REBINDING"} THEN d
           ELSE [d EXCEPT !.tries = 0]
Becomes(d) == dhcp' = Seen(d)

Start == /\ dhcp.state = "OFF"
         /\ dhcp' = ClearedDhcp \/ Becomes(dhcp_discover(ClearedDhcp))
         /\ leased' = FALSE

Stop == Negotiating(dhcp) /\ Becomes(dhcp_stop(dhcp)) /\ leased' = FALSE

Offer == /\ dhcp.state = "SELECTING" /\ Becomes(dhcp_select(dhcp))
         /\ UNCHANGED leased

FirstAck == /\ dhcp.state = "REQUESTING" /\ Becomes(dhcp_check(dhcp))
            /\ UNCHANGED leased

Bind == /\ \/ dhcp.state \in {"RENEWING", "REBINDING"}
           \/ dhcp.state = "CHECKING" /\ dhcp.tries > 1
        /\ Becomes(dhcp_set_state(dhcp, "BOUND"))
        /\ leased' = TRUE

Conflict == /\ dhcp.state = "CHECKING" /\ Becomes(dhcp_decline(dhcp))
            /\ UNCHANGED leased

Search == /\ dhcp.state \in {"SELECTING", "BACKING_OFF"} /\ Becomes(dhcp_discover(dhcp))
          /\ UNCHANGED leased

Repeat == /\ \/ /\ dhcp.state = "REQUESTING" /\ dhcp.tries <= RequestTries
                /\ Becomes(dhcp_select(dhcp))
             \/ /\ dhcp.state = "CHECKING" /\ dhcp.tries <= 1
                /\ Becomes(dhcp_check(dhcp))
             \/ dhcp.state = "RENEWING" /\ Becomes(dhcp_renew(dhcp))
             \/ /\ dhcp.state = "REBINDING" /\ dhcp.tries <= RebindTries
                /\ Becomes(dhcp_rebind(dhcp))
          /\ UNCHANGED leased

(* A NAK, or no answer for too long. *)
Lost == /\ dhcp.state \in {"REQUESTING", "RENEWING", "REBINDING"}
        /\ Becomes(StartOver(dhcp))
        /\ leased' = FALSE

LeaseTimer == /\ dhcp.state \in {"REQUESTING", "BOUND", "RENEWING"}
              /\ Becomes(dhcp_renew(dhcp)) \/ Becomes(dhcp_rebind(dhcp))
              /\ UNCHANGED leased

Init == dhcp = ClearedDhcp /\ leased = FALSE

Next == Start \/ Stop \/ Offer \/ FirstAck \/ Bind \/ Conflict \/ Search
        \/ Repeat \/ Lost \/ LeaseTimer

Spec == Init /\ [][Next]_vars
=============================================================================
