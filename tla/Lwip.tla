-------------------------------- MODULE Lwip --------------------------------
(***************************************************************************)
(* The parts of lwIP 1.4.1 that the Ethernet task of ETH/EthernetDevice.c  *)
(* drives through the raw API: what one call or one event does to a DHCP   *)
(* client, to a TCP control block and to the network interface.  These are *)
(* values; the module that owns the variables is EthDevice.                *)
(***************************************************************************)
EXTENDS Naturals

CONSTANTS MaxTries,      \* bound: dhcp->tries stops counting here
          RequestTries,  \* dhcp_timeout: a REQUEST is given up above this (5)
          RebindTries    \* dhcp_timeout: a REBIND is given up above this (8)

ASSUME LwipAssumption == /\ MaxTries \in Nat /\ RequestTries \in Nat
                         /\ RebindTries \in Nat
                         /\ RequestTries < MaxTries /\ RebindTries < MaxTries

-----------------------------------------------------------------------------
(* struct dhcp: `state' is "NULL" when netif->dhcp is a null pointer.  The *)
(* states INIT, REBOOTING, INFORMING and PERMANENT are never entered here: *)
(* nothing calls netif_set_link_up, dhcp_inform or dhcp_network_changed.   *)

DhcpState == {"NULL", "OFF", "SELECTING", "REQUESTING", "CHECKING",
              "BACKING_OFF", "BOUND", "RENEWING", "REBINDING"}

Dhcp == [state : DhcpState, tries : 0..MaxTries]

NoDhcp == [state |-> "NULL", tries |-> 0]
ClearedDhcp == [state |-> "OFF", tries |-> 0]      \* after the memset

(* The client has a UDP pcb and a timer. *)
Negotiating(d) == d.state \notin {"NULL", "OFF"}

dhcp_set_state(d, s) ==
    IF d.state = s THEN d ELSE [state |-> s, tries |-> 0]

OneMoreTry(d) ==
    [d EXCEPT !.tries = IF d.tries < MaxTries THEN d.tries + 1 ELSE MaxTries]

(* Each of these sends a message and counts the try, sent or not. *)
dhcp_discover(d) == OneMoreTry(dhcp_set_state(d, "SELECTING"))
dhcp_select(d)   == OneMoreTry(dhcp_set_state(d, "REQUESTING"))
dhcp_check(d)    == OneMoreTry(dhcp_set_state(d, "CHECKING"))
dhcp_decline(d)  == OneMoreTry(dhcp_set_state(d, "BACKING_OFF"))
dhcp_renew(d)    == OneMoreTry(dhcp_set_state(d, "RENEWING"))
dhcp_rebind(d)   == OneMoreTry(dhcp_set_state(d, "REBINDING"))

(* dhcp_handle_nak, and dhcp_release followed by dhcp_discover: the client *)
(* starts over.  Both also take the interface down and clear its address.  *)
StartOver(d) == dhcp_discover(dhcp_set_state(d, "BACKING_OFF"))

(* The struct stays attached and allocated. *)
dhcp_stop(d) == IF d.state = "NULL" THEN d ELSE dhcp_set_state(d, "OFF")

-----------------------------------------------------------------------------
(* struct tcp_pcb.  FIN_WAIT_1 and FIN_WAIT_2 are one state.  `cb': its    *)
(* callbacks are those of EthernetDevice.c and not lwIP's defaults, which  *)
(* accept with an error and close when the peer does.  `rxclosed' is the   *)
(* flag TF_RXCLOSED.                                                       *)

PcbState == {"free", "syn_rcvd", "established", "close_wait",
             "fin_wait", "closing", "last_ack", "time_wait"}

TcpPcb == [st : PcbState, cb : BOOLEAN, rxclosed : BOOLEAN]

FreePcb == [st |-> "free", cb |-> FALSE, rxclosed |-> FALSE]

(* On tcp_active_pcbs *)
Active(p) == p.st \notin {"free", "time_wait"}

(* The connection is open on both sides, or only our side is open. *)
Open(p) == p.st \in {"established", "close_wait"}

(* Removing this pcb calls tcp_server_error: accept installed the callback.*)
CallsError(p) == Active(p) /\ p.cb /\ p.st # "syn_rcvd"

(* tcp_close of a connection.  It can fail for want of a segment for the   *)
(* FIN: then the pcb stays as it was, but for the flag.                    *)
tcp_close(p, sent) ==
    [p EXCEPT !.rxclosed = TRUE,
              !.st = IF ~sent THEN p.st
                     ELSE CASE p.st \in {"syn_rcvd", "established"} -> "fin_wait"
                            [] p.st = "close_wait" -> "last_ack"
                            [] OTHER -> p.st]

-----------------------------------------------------------------------------
(* struct netif: member of netif_list, NETIF_FLAG_UP, ip_addr # 0.  The    *)
(* DHCP server gives this host the same address each time.                 *)

Netif == [listed : BOOLEAN, up : BOOLEAN, leased : BOOLEAN]

NoNetif == [listed |-> FALSE, up |-> FALSE, leased |-> FALSE]

AddedNetif       == [listed |-> TRUE, up |-> FALSE, leased |-> FALSE]
netif_set_up(n)  == [n EXCEPT !.up = TRUE]
netif_remove(n)  == [n EXCEPT !.up = FALSE, !.listed = FALSE]
AddressBound(n)  == [n EXCEPT !.up = TRUE, !.leased = TRUE]     \* dhcp_bind
AddressLost(n)   == [n EXCEPT !.up = FALSE, !.leased = FALSE]

(* ip_input passes on what is addressed to this host. *)
Reachable(n) == n.listed /\ n.up /\ n.leased
=============================================================================
