------------------------------ MODULE EthDevice ------------------------------
(***************************************************************************)
(* The Ethernet task: EthernetTCPProcess of ETH/EthernetDevice.c, called   *)
(* in a loop by network_task, with the lwIP core it starts.                *)
(*                                                                         *)
(* Two threads share ethDevice and the state of lwIP.  tcpip_thread        *)
(* (priority 30) preempts network_task (priority 6) between any two        *)
(* instructions and runs each event and its callbacks to the end before    *)
(* network_task goes on.  So an event of tcpip_thread is one action, and   *)
(* network_task is split wherever an event in between can make a           *)
(* difference.  A raw API call of network_task is one action.              *)
(***************************************************************************)
EXTENDS Lwip, Sequences, FiniteSets

CONSTANTS Pcb,              \* slots of the TCP pcb pool that connections use
          NULL,             \* the null pointer
          RxSize,           \* bytes the ring tcpRxBuffer holds (4095)
          EchoSize,         \* bytes of `buffer' in the CONNECT state (1024)
          LinkCheckPeriod,  \* calls between two looks at the PHY (10)
          GiveUpTries,      \* the DHCP state gives up above this (2)
          HeapUnits,        \* structs and messages for DHCP that fit mem_malloc's heap
          Refuses,          \* TRUE: the DHCP server sends NAKs
          LeaseEnds,        \* TRUE: T1 and T2 of a lease run out
          MaxFlaps,         \* bound: times the link goes down
          MaxTrouble        \* bound: DHCP messages refused or left unanswered

ASSUME EthDeviceAssumption ==
    /\ IsFiniteSet(Pcb) /\ NULL \notin Pcb
    /\ RxSize \in Nat \ {0} /\ EchoSize \in Nat \ {0}
    /\ LinkCheckPeriod \in Nat \ {0}
    /\ GiveUpTries \in Nat /\ GiveUpTries < MaxTries
    /\ HeapUnits \in Nat /\ MaxFlaps \in Nat /\ MaxTrouble \in Nat
    /\ Refuses \in BOOLEAN /\ LeaseEnds \in BOOLEAN

VARIABLES
  npc,                \* network_task: the call it is about to make
  caller,             \* network_task: who called EthernetDevice_CleanupResources
  tpcb,               \* network_task: the client pcb it has loaded
  buffer,             \* network_task: bytes read from the ring, to be echoed
  state,              \* ethDevice.state
  ethLinkStatus, previousLinkStatus, linkCheckCounter,
  tcpip_initialized,
  tcp_pcb,            \* ethDevice.tcp_pcb # NULL
  tcp_client_pcb, client_connected_flag, client_closed_flag,
  ring,               \* tcpRxBuffer: for each byte the connection it came on
  netif, dhcp,        \* ethlwip_netif and its struct dhcp
  heap,               \* units left in the lwIP heap
  listener,           \* the listening pcb: "none", "deaf" before tcp_accept, "open"
  conn,               \* the TCP pcb of each slot
  phyUp, flaps, trouble

task   == <<npc, caller, tpcb, buffer>>
link   == <<ethLinkStatus, previousLinkStatus, linkCheckCounter>>
client == <<tcp_client_pcb, client_connected_flag, client_closed_flag>>
stack  == <<netif, dhcp, heap>>
server == <<tcp_pcb, listener>>
env    == <<phyUp, flaps, trouble>>
device == <<state, tcpip_initialized, link>>
vars   == <<task, device, client, stack, server, conn, ring, env>>

DeviceState == {"INIT", "CHECK_LINK", "DHCP", "TCP", "WAIT_TCP", "CONNECT",
                "CLOSE_TCP"}

Cleanup == {"dhcp_stop", "load_client", "tcp_abort", "null_aborted",
            "close_server", "netif_remove", "lwrb_reset", "clear_connected",
            "clear_closed", "vTaskDelay"}

ControlPoint == Cleanup \cup
    {"loop", "switch", "netif_add", "netif_set_up", "dhcp_start",
     "tcp_listen", "tcp_accept", "retry_delay", "enter_connect",
     "lwrb_read", "load_echo", "tcp_write", "tcp_output",
     "tcp_close", "null_closed", "leave_connected", "leave_closed",
     "fault", "hung"}

-----------------------------------------------------------------------------
(* Both threads *)

(* Mutant: the error callback forgets to clear the pointer.                *)
ErrorKeepsPcb(S) ==
    /\ client_closed_flag' = (client_closed_flag \/ \E c \in S : CallsError(conn[c]))
    /\ UNCHANGED tcp_client_pcb

(* Removing the pcbs of S calls tcp_server_error for each that has it.     *)
tcp_server_error(S) ==
    IF \E c \in S : CallsError(conn[c])
    THEN tcp_client_pcb' = NULL /\ client_closed_flag' = TRUE
    ELSE UNCHANGED <<tcp_client_pcb, client_closed_flag>>

Remove(S) == /\ conn' = [c \in Pcb |-> IF c \in S THEN FreePcb ELSE conn[c]]
             /\ tcp_server_error(S)
             /\ UNCHANGED client_connected_flag

-----------------------------------------------------------------------------
(* network_task *)

(* EthernetTCPProcess returns and is called again: its locals are gone.    *)
Return == npc' = "loop" /\ tpcb' = NULL /\ buffer' = <<>> /\ caller' = "none"

Goto(label) == npc' = label /\ UNCHANGED <<caller, tpcb, buffer>>

(* A second use of ethDevice.tcp_client_pcb may load it again or use the   *)
(* register: the member is not volatile.                                   *)
Loaded == {tpcb, tcp_client_pcb}

(* A null pointer, or a pcb that is back in the pool *)
Bogus(p) == p \notin {c \in Pcb : conn[c].st # "free"}

(* Undefined behaviour: nothing is said about what follows.                *)
Fault == Goto("fault") /\ UNCHANGED <<client, conn>>

CallCleanup(who) == npc' = "dhcp_stop" /\ caller' = who /\ UNCHANGED <<tpcb, buffer>>

(* Mutant: previousLinkStatus is never brought up to date.                 *)
CheckForgetsPrevious ==
    /\ npc = "loop"
    /\ IF state = "INIT" THEN UNCHANGED <<linkCheckCounter, ethLinkStatus>>
       ELSE /\ linkCheckCounter' = (linkCheckCounter + 1) % LinkCheckPeriod
            /\ ethLinkStatus' = IF linkCheckCounter' = 0 THEN phyUp ELSE ethLinkStatus
    /\ Goto("switch")
    /\ UNCHANGED <<previousLinkStatus, state, tcpip_initialized, client, stack,
                   server, conn, ring, env>>

EthernetDevice_CheckLinkStatus ==
    /\ npc = "loop"
    /\ IF state = "INIT"
       THEN Goto("switch") /\ UNCHANGED link
       ELSE IF linkCheckCounter + 1 < LinkCheckPeriod
       THEN /\ linkCheckCounter' = linkCheckCounter + 1
            /\ Goto("switch") /\ UNCHANGED <<ethLinkStatus, previousLinkStatus>>
       ELSE /\ linkCheckCounter' = 0
            /\ IF previousLinkStatus /\ ~phyUp
               THEN /\ CallCleanup("link")
                    /\ UNCHANGED <<ethLinkStatus, previousLinkStatus>>
               ELSE /\ Goto("switch")
                    /\ previousLinkStatus' = phyUp /\ ethLinkStatus' = phyUp
    /\ UNCHANGED <<state, tcpip_initialized, client, stack, server, conn, ring, env>>

(* EthernetDevice_CleanupResources *)

(* Mutant: dhcp_stop is not called.                                        *)
CleanupKeepsDhcp ==
    /\ npc = "dhcp_stop"
    /\ Goto("load_client")
    /\ UNCHANGED <<device, client, stack, server, conn, ring, env>>

CleanupDhcp ==
    /\ npc = "dhcp_stop"
    /\ dhcp' = dhcp_stop(dhcp)
    /\ Goto("load_client")
    /\ UNCHANGED <<device, client, netif, heap, server, conn, ring, env>>

CleanupLoadClient ==
    /\ npc = "load_client"
    /\ tpcb' = tcp_client_pcb
    /\ npc' = IF tcp_client_pcb = NULL THEN "close_server" ELSE "tcp_abort"
    /\ UNCHANGED <<caller, buffer, device, client, stack, server, conn, ring, env>>

CleanupAbort ==
    /\ npc = "tcp_abort"
    /\ \E p \in Loaded : IF Bogus(p) THEN Fault
                         ELSE Remove({p}) /\ Goto("null_aborted")
    /\ UNCHANGED <<device, stack, server, ring, env>>

CleanupNullAborted ==
    /\ npc = "null_aborted"
    /\ tcp_client_pcb' = NULL
    /\ Goto("close_server")
    /\ UNCHANGED <<device, client_connected_flag, client_closed_flag, stack,
                   server, conn, ring, env>>

(* Mutants: the pointer to the closed listener is kept; or it is cleared   *)
(* without closing the listener.                                           *)
CleanupKeepsPointer ==
    /\ npc = "close_server"
    /\ listener' = IF tcp_pcb THEN "none" ELSE listener
    /\ Goto("netif_remove")
    /\ UNCHANGED <<device, client, stack, tcp_pcb, conn, ring, env>>

CleanupKeepsListener ==
    /\ npc = "close_server"
    /\ tcp_pcb' = FALSE
    /\ Goto("netif_remove")
    /\ UNCHANGED <<device, client, stack, listener, conn, ring, env>>

CleanupServer ==
    /\ npc = "close_server"
    /\ tcp_pcb' = FALSE
    /\ listener' = IF tcp_pcb THEN "none" ELSE listener
    /\ Goto("netif_remove")
    /\ UNCHANGED <<device, client, stack, conn, ring, env>>

(* Mutant: the test is inverted.                                           *)
CleanupInvertsTest ==
    /\ npc = "netif_remove"
    /\ netif' = IF netif.up THEN netif ELSE netif_remove(netif)
    /\ Goto("lwrb_reset")
    /\ UNCHANGED <<device, client, dhcp, heap, server, conn, ring, env>>

CleanupNetif ==
    /\ npc = "netif_remove"
    /\ netif' = IF netif.up THEN netif_remove(netif) ELSE netif
    /\ Goto("lwrb_reset")
    /\ UNCHANGED <<device, client, dhcp, heap, server, conn, ring, env>>

CleanupRing ==
    /\ npc = "lwrb_reset"
    /\ ring' = <<>>
    /\ Goto("clear_connected")
    /\ UNCHANGED <<device, client, stack, server, conn, env>>

CleanupConnected ==
    /\ npc = "clear_connected"
    /\ client_connected_flag' = FALSE
    /\ Goto("clear_closed")
    /\ UNCHANGED <<device, tcp_client_pcb, client_closed_flag, stack, server,
                   conn, ring, env>>

CleanupClosed ==
    /\ npc = "clear_closed"
    /\ client_closed_flag' = FALSE
    /\ Goto("vTaskDelay")
    /\ UNCHANGED <<device, tcp_client_pcb, client_connected_flag, stack, server,
                   conn, ring, env>>

(* The caller waits and starts over.  After a link loss it stores the      *)
(* status it had read before the cleanup, and the switch still follows.    *)
CleanupDone ==
    /\ npc = "vTaskDelay"
    /\ state' = "INIT"
    /\ IF caller = "link"
       THEN /\ previousLinkStatus' = FALSE /\ ethLinkStatus' = FALSE
            /\ npc' = "switch" /\ caller' = "none" /\ tpcb' = NULL
            /\ UNCHANGED <<buffer, linkCheckCounter>>
       ELSE Return /\ UNCHANGED link
    /\ UNCHANGED <<tcpip_initialized, client, stack, server, conn, ring, env>>

-----------------------------------------------------------------------------
(* The cases of the switch *)

InState(s) == npc = "switch" /\ state = s

(* LAN8720_Init fails when a register of the PHY cannot be written.        *)
BspInit(ok) ==
    /\ InState("INIT")
    /\ state' = IF ok THEN "CHECK_LINK" ELSE "INIT"
    /\ Return
    /\ UNCHANGED <<tcpip_initialized, link, client, stack, server, conn, ring, env>>

CheckLinkState ==
    /\ InState("CHECK_LINK")
    /\ IF ethLinkStatus
       THEN tcpip_initialized' = TRUE /\ Goto("netif_add")   \* tcpip_init once
       ELSE Return /\ UNCHANGED tcpip_initialized
    /\ UNCHANGED <<state, link, client, stack, server, conn, ring, env>>

(* Adding an interface that is still in netif_list links it to itself, and *)
(* the next timer of tcpip_thread walks that list for ever.                *)
NetifAdd ==
    /\ npc = "netif_add"
    /\ IF netif.listed
       THEN Goto("hung") /\ UNCHANGED <<netif, dhcp>>
       ELSE Goto("netif_set_up") /\ netif' = AddedNetif /\ dhcp' = NoDhcp
    /\ UNCHANGED <<device, client, heap, server, conn, ring, env>>

NetifSetUp ==
    /\ npc = "netif_set_up"
    /\ netif' = netif_set_up(netif)
    /\ Goto("dhcp_start")
    /\ UNCHANGED <<device, client, dhcp, heap, server, conn, ring, env>>

(* The struct takes one unit of the heap for good and its first message    *)
(* one more for a moment.  The result of dhcp_start is ignored.            *)
dhcp_start ==
    LET h == IF dhcp.state = "NULL" THEN heap - 1 ELSE heap IN
    IF h < 0 THEN UNCHANGED <<dhcp, heap>>
    ELSE /\ heap' = h
         /\ dhcp' = IF h = 0 THEN dhcp_stop(dhcp_discover(ClearedDhcp))
                    ELSE dhcp_discover(ClearedDhcp)

StartDhcp ==
    /\ npc = "dhcp_start"
    /\ dhcp_start
    /\ state' = "DHCP"
    /\ Return
    /\ UNCHANGED <<tcpip_initialized, link, client, netif, server, conn, ring, env>>

DhcpCase ==
    /\ InState("DHCP")
    /\ IF netif.leased THEN state' = "TCP" /\ Return
       ELSE /\ state' = state
            /\ IF dhcp.state # "NULL" /\ dhcp.tries > GiveUpTries
               THEN CallCleanup("dhcp") ELSE Return
    /\ UNCHANGED <<tcpip_initialized, link, client, stack, server, conn, ring, env>>

(* tcp_server_init.  SO_REUSE is off: tcp_bind refuses the port while any  *)
(* pcb has it, in TIME_WAIT too.  The refused pcb is freed again.          *)
PortInUse == listener # "none" \/ \E c \in Pcb : conn[c].st # "free"

TcpBind ==
    /\ InState("TCP")
    /\ Goto(IF PortInUse THEN "retry_delay" ELSE "tcp_listen")
    /\ UNCHANGED <<device, client, stack, server, conn, ring, env>>

RetryDelay ==
    /\ npc = "retry_delay"
    /\ Return
    /\ UNCHANGED <<device, client, stack, server, conn, ring, env>>

TcpListen ==
    /\ npc = "tcp_listen"
    /\ listener' = "deaf"
    /\ Goto("tcp_accept")
    /\ UNCHANGED <<device, client, stack, tcp_pcb, conn, ring, env>>

TcpAccept ==
    /\ npc = "tcp_accept"
    /\ listener' = "open" /\ tcp_pcb' = TRUE
    /\ state' = "WAIT_TCP"
    /\ Return
    /\ UNCHANGED <<tcpip_initialized, link, client, stack, conn, ring, env>>

WaitTcp ==
    /\ InState("WAIT_TCP")
    /\ IF client_connected_flag
       THEN client_connected_flag' = FALSE /\ Goto("enter_connect")
       ELSE Return /\ UNCHANGED client_connected_flag
    /\ UNCHANGED <<device, tcp_client_pcb, client_closed_flag, stack, server,
                   conn, ring, env>>

EnterConnect ==
    /\ npc = "enter_connect"
    /\ client_closed_flag' = FALSE
    /\ state' = "CONNECT"
    /\ Return
    /\ UNCHANGED <<tcpip_initialized, link, tcp_client_pcb, client_connected_flag,
                   stack, server, conn, ring, env>>

(* Mutant: the close flag is looked at only when there is nothing to echo. *)
ConnectEchoesFirst ==
    /\ InState("CONNECT")
    /\ IF ring # <<>> THEN Goto("lwrb_read") /\ state' = state
       ELSE Return /\ state' = IF client_closed_flag THEN "CLOSE_TCP" ELSE state
    /\ UNCHANGED <<tcpip_initialized, link, client, stack, server, conn, ring, env>>

Connect ==
    /\ InState("CONNECT")
    /\ IF client_closed_flag THEN state' = "CLOSE_TCP" /\ Return
       ELSE /\ state' = state
            /\ IF ring # <<>> THEN Goto("lwrb_read") ELSE Return
    /\ UNCHANGED <<tcpip_initialized, link, client, stack, server, conn, ring, env>>

(* Only this task takes bytes out of the ring, so there still are some.    *)
ReadRing ==
    /\ npc = "lwrb_read"
    /\ LET n == IF Len(ring) < EchoSize THEN Len(ring) ELSE EchoSize IN
         /\ buffer' = SubSeq(ring, 1, n)
         /\ ring' = SubSeq(ring, n + 1, Len(ring))
    /\ npc' = "load_echo" /\ UNCHANGED <<caller, tpcb>>
    /\ UNCHANGED <<device, client, stack, server, conn, env>>

LoadEcho ==
    /\ npc = "load_echo"
    /\ IF tcp_client_pcb = NULL THEN Return
       ELSE npc' = "tcp_write" /\ tpcb' = tcp_client_pcb /\ UNCHANGED <<caller, buffer>>
    /\ UNCHANGED <<device, client, stack, server, conn, ring, env>>

(* What tcp_write refuses is gone: it is no longer in the ring.            *)
EchoWrite ==
    /\ npc = "tcp_write"
    /\ \/ \E p \in Loaded : Bogus(p) /\ Fault
       \/ \E p \in Loaded : /\ ~Bogus(p) /\ Open(conn[p])
                            /\ npc' = "tcp_output" /\ tpcb' = p
                            /\ UNCHANGED <<caller, buffer, client, conn>>
       \/ \E p \in Loaded : ~Bogus(p) /\ Return /\ UNCHANGED <<client, conn>>
    /\ UNCHANGED <<device, stack, server, ring, env>>

EchoOutput ==
    /\ npc = "tcp_output"
    /\ IF Bogus(tcp_client_pcb) THEN Fault
       ELSE Return /\ UNCHANGED <<client, conn>>
    /\ UNCHANGED <<device, stack, server, ring, env>>

CloseTcp ==
    /\ InState("CLOSE_TCP")
    /\ tpcb' = tcp_client_pcb
    /\ npc' = IF tcp_client_pcb = NULL THEN "leave_connected" ELSE "tcp_close"
    /\ UNCHANGED <<caller, buffer, device, client, stack, server, conn, ring, env>>

CloseClient ==
    /\ npc = "tcp_close"
    /\ \E p \in Loaded, sent \in BOOLEAN :
         IF Bogus(p) THEN Fault
         ELSE /\ conn' = [conn EXCEPT ![p] = tcp_close(@, sent)]
              /\ npc' = "null_closed" /\ tpcb' = p
              /\ UNCHANGED <<caller, buffer, client>>
    /\ UNCHANGED <<device, stack, server, ring, env>>

NullClosed ==
    /\ npc = "null_closed"
    /\ tcp_client_pcb' = NULL
    /\ Goto("leave_connected")
    /\ UNCHANGED <<device, client_connected_flag, client_closed_flag, stack,
                   server, conn, ring, env>>

LeaveConnected ==
    /\ npc = "leave_connected"
    /\ client_connected_flag' = FALSE
    /\ Goto("leave_closed")
    /\ UNCHANGED <<device, tcp_client_pcb, client_closed_flag, stack, server,
                   conn, ring, env>>

LeaveClosed ==
    /\ npc = "leave_closed"
    /\ client_closed_flag' = FALSE
    /\ state' = "WAIT_TCP"
    /\ Return
    /\ UNCHANGED <<tcpip_initialized, link, tcp_client_pcb, client_connected_flag,
                   stack, server, conn, ring, env>>

-----------------------------------------------------------------------------
(* tcpip_thread: timers, frames and their callbacks *)

LwipRuns == tcpip_initialized /\ npc \notin {"fault", "hung"}

OnlyDhcp == UNCHANGED <<task, device, heap, server, ring, phyUp, flaps>>
OnlyTcp  == UNCHANGED <<task, device, stack, server, env>>

Troubled == trouble < MaxTrouble /\ trouble' = trouble + 1

(* netif_set_ipaddr with another address aborts what uses the old one.     *)
LoseAddress ==
    /\ netif' = AddressLost(netif)
    /\ Remove(IF netif.leased THEN {c \in Pcb : Active(conn[c])} ELSE {})
    /\ dhcp' = StartOver(dhcp)

dhcp_bind == /\ netif' = AddressBound(netif)
             /\ dhcp' = dhcp_set_state(dhcp, "BOUND")

DhcpOffer ==
    /\ LwipRuns /\ phyUp
    /\ dhcp.state = "SELECTING"
    /\ dhcp' = dhcp_select(dhcp)
    /\ OnlyDhcp /\ UNCHANGED <<client, netif, conn, trouble>>

DhcpAck ==
    /\ LwipRuns /\ phyUp
    /\ \/ dhcp.state = "REQUESTING" /\ dhcp' = dhcp_check(dhcp) /\ UNCHANGED netif
       \/ dhcp.state \in {"RENEWING", "REBINDING"} /\ dhcp_bind
    /\ OnlyDhcp /\ UNCHANGED <<client, conn, trouble>>

DhcpNak ==
    /\ LwipRuns /\ phyUp /\ Refuses /\ Troubled
    /\ dhcp.state \in {"REQUESTING", "RENEWING", "REBINDING"}
    /\ LoseAddress
    /\ OnlyDhcp

(* Another host answers for the offered address.                           *)
ArpConflict ==
    /\ LwipRuns /\ phyUp /\ Troubled
    /\ dhcp.state = "CHECKING"
    /\ dhcp' = dhcp_decline(dhcp)
    /\ OnlyDhcp /\ UNCHANGED <<client, netif, conn>>

(* dhcp_fine_tmr finds a timer that has run out and calls dhcp_timeout.    *)
DhcpUnanswered ==
    /\ LwipRuns /\ netif.listed /\ Troubled
    /\ \/ /\ \/ dhcp.state = "SELECTING" /\ dhcp' = dhcp_discover(dhcp)
             \/ /\ dhcp.state = "REQUESTING" /\ dhcp.tries <= RequestTries
                /\ dhcp' = dhcp_select(dhcp)
             \/ dhcp.state = "RENEWING" /\ dhcp' = dhcp_renew(dhcp)
             \/ /\ dhcp.state = "REBINDING" /\ dhcp.tries <= RebindTries
                /\ dhcp' = dhcp_rebind(dhcp)
          /\ UNCHANGED <<netif, client, conn>>
       \/ /\ \/ dhcp.state = "REQUESTING" /\ dhcp.tries > RequestTries
             \/ dhcp.state = "REBINDING" /\ dhcp.tries > RebindTries
          /\ LoseAddress
    /\ OnlyDhcp

DhcpWaited ==
    /\ LwipRuns /\ netif.listed
    /\ \/ dhcp.state = "BACKING_OFF" /\ dhcp' = dhcp_discover(dhcp) /\ UNCHANGED netif
       \/ /\ dhcp.state = "CHECKING"
          /\ IF dhcp.tries <= 1 THEN dhcp' = dhcp_check(dhcp) /\ UNCHANGED netif
             ELSE dhcp_bind
    /\ OnlyDhcp /\ UNCHANGED <<client, conn, trouble>>

(* dhcp_coarse_tmr: T1, then T2.  Without a lease these are the timers of  *)
(* an earlier one, which nothing stops: they count as trouble.             *)
LeaseTimer ==
    /\ LwipRuns /\ netif.listed /\ LeaseEnds
    /\ dhcp.state \in {"REQUESTING", "BOUND", "RENEWING"}
    /\ dhcp' \in {dhcp_renew(dhcp), dhcp_rebind(dhcp)}
    /\ IF netif.leased THEN UNCHANGED trouble ELSE Troubled
    /\ OnlyDhcp /\ UNCHANGED <<client, netif, conn>>

-----------------------------------------------------------------------------
(* A TCP segment of the connection in slot c *)

Arrives == LwipRuns /\ phyUp /\ Reachable(netif)

Syn(c) ==
    /\ Arrives /\ conn[c].st = "free" /\ listener # "none"
    /\ conn' = [conn EXCEPT ![c] = [st |-> "syn_rcvd", cb |-> listener = "open",
                                    rxclosed |-> FALSE]]
    /\ OnlyTcp /\ UNCHANGED <<client, ring>>

tcp_server_accept(c) ==
    /\ tcp_client_pcb' = c
    /\ client_connected_flag' = TRUE
    /\ UNCHANGED client_closed_flag

(* The handshake ends.  The listener may be gone: the pcb has the callback.*)
HandshakeAck(c) ==
    /\ Arrives /\ conn[c].st = "syn_rcvd"
    /\ conn' = [conn EXCEPT ![c].st = "established"]
    /\ IF conn[c].cb THEN tcp_server_accept(c) ELSE UNCHANGED client
    /\ OnlyTcp /\ UNCHANGED ring

(* Mutant: the ring takes more than its capacity.                          *)
RecvUnbounded(c) == ring' = Append(ring, c)

(* lwrb_write takes what fits; the bytes have been acknowledged already.   *)
tcp_server_recv(c) ==
    ring' = IF Len(ring) < RxSize THEN Append(ring, c) ELSE ring

Data(c) ==
    /\ Arrives /\ conn[c].st \in {"established", "fin_wait"}
    /\ IF conn[c].rxclosed
       THEN Remove({c}) /\ UNCHANGED ring
       ELSE conn[c].cb /\ tcp_server_recv(c) /\ UNCHANGED <<client, conn>>
    /\ OnlyTcp

(* The peer closes: recv is called without data.                           *)
PeerFin(c) ==
    /\ Arrives
    /\ \/ /\ conn[c].st = "established" /\ conn[c].cb
          /\ conn' = [conn EXCEPT ![c].st = "close_wait"]
       \/ /\ conn[c].st = "established" /\ ~conn[c].cb      \* tcp_recv_null
          /\ \E sent \in BOOLEAN :
               conn' = [conn EXCEPT ![c] =
                            tcp_close([@ EXCEPT !.st = "close_wait"], sent)]
       \/ /\ conn[c].st = "fin_wait"
          /\ \E s \in {"closing", "time_wait"} : conn' = [conn EXCEPT ![c].st = s]
    /\ client_closed_flag' = (client_closed_flag \/ conn[c].cb)
    /\ OnlyTcp /\ UNCHANGED <<tcp_client_pcb, client_connected_flag, ring>>

PeerReset(c) ==
    /\ Arrives /\ Active(conn[c])
    /\ Remove({c})
    /\ OnlyTcp /\ UNCHANGED ring

(* Our FIN is acknowledged.  TF_RXCLOSED: the error callback is not called.*)
FinAcked(c) ==
    /\ Arrives /\ conn[c].st \in {"last_ack", "closing"}
    /\ conn' = [conn EXCEPT ![c] = IF @.st = "last_ack" THEN FreePcb
                                   ELSE [@ EXCEPT !.st = "time_wait"]]
    /\ OnlyTcp /\ UNCHANGED <<client, ring>>

(* tcp_slowtmr: too many retransmissions, or too long in the state.        *)
SlowTimer(c) ==
    /\ LwipRuns /\ Active(conn[c])
    /\ Remove({c})
    /\ OnlyTcp /\ UNCHANGED ring

TimeWaitOver(c) ==
    /\ LwipRuns /\ conn[c].st = "time_wait"
    /\ conn' = [conn EXCEPT ![c] = FreePcb]
    /\ OnlyTcp /\ UNCHANGED <<client, ring>>

-----------------------------------------------------------------------------
(* The cable *)

Plug   == /\ ~phyUp /\ phyUp' = TRUE
          /\ UNCHANGED <<task, device, client, stack, server, conn, ring,
                         flaps, trouble>>
Unplug == /\ phyUp /\ flaps < MaxFlaps
          /\ phyUp' = FALSE /\ flaps' = flaps + 1
          /\ UNCHANGED <<task, device, client, stack, server, conn, ring, trouble>>

-----------------------------------------------------------------------------
Init ==
    /\ npc = "loop" /\ caller = "none" /\ tpcb = NULL /\ buffer = <<>>
    /\ state = "INIT"
    /\ ethLinkStatus = FALSE /\ previousLinkStatus = FALSE
    /\ linkCheckCounter = 0 /\ tcpip_initialized = FALSE
    /\ tcp_pcb = FALSE /\ listener = "none"
    /\ tcp_client_pcb = NULL
    /\ client_connected_flag = FALSE /\ client_closed_flag = FALSE
    /\ ring = <<>>
    /\ netif = NoNetif /\ dhcp = NoDhcp /\ heap = HeapUnits
    /\ conn = [c \in Pcb |-> FreePcb]
    /\ phyUp \in BOOLEAN /\ flaps = 0 /\ trouble = 0

CleanupResources ==
    \/ CleanupDhcp \/ CleanupLoadClient \/ CleanupAbort \/ CleanupNullAborted
    \/ CleanupServer \/ CleanupNetif \/ CleanupRing \/ CleanupConnected
    \/ CleanupClosed \/ CleanupDone

BringUp ==
    \/ \E ok \in BOOLEAN : BspInit(ok)
    \/ CheckLinkState \/ NetifAdd \/ NetifSetUp \/ StartDhcp \/ DhcpCase

Serve ==
    \/ TcpBind \/ RetryDelay \/ TcpListen \/ TcpAccept
    \/ WaitTcp \/ EnterConnect
    \/ Connect \/ ReadRing \/ LoadEcho \/ EchoWrite \/ EchoOutput
    \/ CloseTcp \/ CloseClient \/ NullClosed \/ LeaveConnected \/ LeaveClosed

NetworkTask == EthernetDevice_CheckLinkStatus \/ CleanupResources \/ BringUp \/ Serve

DhcpEvent == \/ DhcpOffer \/ DhcpAck \/ DhcpNak \/ ArpConflict
             \/ DhcpUnanswered \/ DhcpWaited \/ LeaseTimer

TcpEvent == \E c \in Pcb :
    \/ Syn(c) \/ HandshakeAck(c) \/ Data(c) \/ PeerFin(c) \/ PeerReset(c)
    \/ FinAcked(c) \/ SlowTimer(c) \/ TimeWaitOver(c)

(* The system has crashed or spins; it takes a power cycle to go on.       *)
Halted == npc \in {"fault", "hung"} /\ UNCHANGED vars

Next == NetworkTask \/ DhcpEvent \/ TcpEvent \/ Plug \/ Unplug \/ Halted

Spec == Init /\ [][Next]_vars

(* network_task gets the processor whenever tcpip_thread waits; the PHY    *)
(* can be written from time to time; a timer that runs is seen to run out; *)
(* a DHCP server that is asked again and again answers in the end, and its *)
(* OFFER has a SERVER_ID.  A pcb on its way to be closed has a timer of    *)
(* its own, an open one has none.                                          *)
Expires(c) == ~Open(conn[c]) /\ SlowTimer(c)

Fairness == /\ WF_vars(NetworkTask)
            /\ SF_vars(BspInit(TRUE))
            /\ SF_vars(DhcpOffer) /\ SF_vars(DhcpAck)
            /\ WF_vars(DhcpWaited)
            /\ \A c \in Pcb : WF_vars(Expires(c)) /\ WF_vars(TimeWaitOver(c))

FairSpec == Spec /\ Fairness

-----------------------------------------------------------------------------
(* Properties *)

(* Shape of the state. *)
TypeOK ==
    /\ npc \in ControlPoint /\ caller \in {"none", "link", "dhcp"}
    /\ tpcb \in Pcb \cup {NULL} /\ buffer \in Seq(Pcb)
    /\ state \in DeviceState
    /\ ethLinkStatus \in BOOLEAN /\ previousLinkStatus \in BOOLEAN
    /\ linkCheckCounter \in 0..(LinkCheckPeriod - 1)
    /\ tcpip_initialized \in BOOLEAN
    /\ tcp_pcb \in BOOLEAN /\ listener \in {"none", "deaf", "open"}
    /\ tcp_client_pcb \in Pcb \cup {NULL}
    /\ client_connected_flag \in BOOLEAN /\ client_closed_flag \in BOOLEAN
    /\ ring \in Seq(Pcb) /\ Len(ring) <= RxSize
    /\ netif \in Netif /\ dhcp \in Dhcp /\ heap \in 0..HeapUnits
    /\ conn \in [Pcb -> TcpPcb]
    /\ phyUp \in BOOLEAN /\ flaps \in 0..MaxFlaps /\ trouble \in 0..MaxTrouble

(* Whenever network_task can look at it again, ethDevice.tcp_client_pcb is *)
(* null or a pcb that is still open on our side: whatever way a connection *)
(* ends, one of the callbacks or the task itself has cleared the pointer.  *)
(* Between tcp_close and the store of NULL it may point anywhere.          *)
ClientPcbLive ==
    tcp_client_pcb # NULL /\ npc # "null_closed" => Open(conn[tcp_client_pcb])

(* No listening pcb is lost and none is closed twice: ethDevice.tcp_pcb    *)
(* is set exactly while there is one with the accept callback.  The task   *)
(* waits for a client or serves one only with that listener, which only a  *)
(* cleanup takes away, and no other state keeps the port open.             *)
Serving == state \in {"WAIT_TCP", "CONNECT", "CLOSE_TCP"}
ServerClosed == npc \in {"netif_remove", "lwrb_reset", "clear_connected",
                         "clear_closed", "vTaskDelay"}
ServerKnown ==
    /\ tcp_pcb <=> listener = "open"
    /\ listener = "deaf" <=> npc = "tcp_accept"
    /\ listener = "open" <=> Serving /\ ~ServerClosed

(* A DHCP client that is at work has its interface in netif_list, where    *)
(* the timers find it; a cleanup stops the client before it removes the    *)
(* interface, and no late reply starts it again.                           *)
DhcpHasNetif == Negotiating(dhcp) => netif.listed

(* When the task goes back to INIT after a cleanup, the stack is quiet:    *)
(* no listener, no DHCP client at work, and no frame reaches TCP, whatever *)
(* tcpip_thread did while the cleanup was under way.                       *)
QuietAtReinit ==
    [][state' = "INIT" /\ state # "INIT" =>
         listener = "none" /\ ~Negotiating(dhcp) /\ ~Reachable(netif)]_vars

(* A client that is seen to have closed while it is served makes the task  *)
(* leave CONNECT, unless the system halts.                                 *)
CloseServed ==
    state = "CONNECT" /\ client_closed_flag ~>
        state # "CONNECT" \/ npc \in {"fault", "hung"}

(* When the cable stays in, the server ends up waiting for clients and     *)
(* stays there: no lost link and no silent, refusing or conflicting DHCP   *)
(* server leaves the task in a state it cannot get out of, but for         *)
(* netif_add of an interface that is still listed.  (For an OFFER without  *)
(* SERVER_ID see ComesBack of Dhcp.)                                       *)
ServerComesUp ==
    <>[]phyUp => <>[](state = "WAIT_TCP") \/ <>[](npc = "hung")

(* When the cable stays out, the task notices and closes the server.       *)
LinkLossSeen ==
    <>[]~phyUp => <>[](state \in {"INIT", "CHECK_LINK"} /\ listener = "none")

(* The task can be kept from starting the server, again and again, only by *)
(* a connection that outlived a cleanup and that its peer never gives up.  *)
ServerStarts ==
    <>[](state = "TCP") =>
        \/ <>[](\E c \in Pcb : Open(conn[c]))
        \/ <>[](npc \in {"fault", "hung"})
=============================================================================
