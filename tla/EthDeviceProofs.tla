-------------------------- MODULE EthDeviceProofs --------------------------
(***************************************************************************)
(* Safety of the Ethernet task for every number of connections, every      *)
(* buffer size, retry limit and bound of EthDevice.                        *)
(*                                                                         *)
(* TypeOK is inductive.  Relative to it so are ServerInv for the           *)
(* listening pcb, StackInv for the interface and the DHCP client, and      *)
(* ClientInv for the pointer to the client.  At the end, what it would     *)
(* take for the raw calls and netif_list never to go wrong.                *)
(***************************************************************************)
EXTENDS EthClaims, TLAPS

(* Every operation of the DHCP client keeps the shape of its struct.       *)
LEMMA DhcpFacts ==
    ASSUME NEW d \in Dhcp
    PROVE  /\ NoDhcp \in Dhcp /\ ClearedDhcp \in Dhcp
           /\ dhcp_stop(d) \in Dhcp /\ dhcp_discover(d) \in Dhcp
           /\ dhcp_select(d) \in Dhcp /\ dhcp_check(d) \in Dhcp
           /\ dhcp_decline(d) \in Dhcp /\ dhcp_renew(d) \in Dhcp
           /\ dhcp_rebind(d) \in Dhcp /\ StartOver(d) \in Dhcp
           /\ dhcp_set_state(d, "BOUND") \in Dhcp
<1>1. ASSUME NEW e \in Dhcp, NEW s \in DhcpState
      PROVE  dhcp_set_state(e, s) \in Dhcp
  BY LwipAssumption DEF Dhcp, dhcp_set_state
<1>2. ASSUME NEW e \in Dhcp
      PROVE  OneMoreTry(e) \in Dhcp
  BY LwipAssumption DEF Dhcp, OneMoreTry
<1>3. ASSUME NEW e \in Dhcp, NEW s \in DhcpState
      PROVE  OneMoreTry(dhcp_set_state(e, s)) \in Dhcp
  BY <1>1, <1>2
<1>4. /\ "SELECTING" \in DhcpState /\ "REQUESTING" \in DhcpState
      /\ "CHECKING" \in DhcpState /\ "BACKING_OFF" \in DhcpState
      /\ "RENEWING" \in DhcpState /\ "REBINDING" \in DhcpState
      /\ "BOUND" \in DhcpState /\ "OFF" \in DhcpState /\ "NULL" \in DhcpState
  BY DEF DhcpState
<1>5. NoDhcp \in Dhcp /\ ClearedDhcp \in Dhcp
  BY <1>4, LwipAssumption DEF Dhcp, NoDhcp, ClearedDhcp
<1>6. dhcp_stop(d) \in Dhcp
  BY <1>1, <1>4 DEF dhcp_stop
<1>7. ASSUME NEW e \in Dhcp
      PROVE  dhcp_discover(e) \in Dhcp
  BY <1>3, <1>4 DEF dhcp_discover
<1>8. StartOver(d) \in Dhcp
  BY <1>1, <1>4, <1>7 DEF StartOver
<1> QED
  BY <1>1, <1>3, <1>4, <1>5, <1>6, <1>7, <1>8
     DEF dhcp_select, dhcp_check, dhcp_decline, dhcp_renew, dhcp_rebind

(* What each call does to the interface.                                   *)
LEMMA NetifFacts ==
    ASSUME NEW n \in Netif
    PROVE  /\ NoNetif \in Netif /\ AddedNetif \in Netif
           /\ netif_set_up(n) \in Netif /\ netif_remove(n) \in Netif
           /\ AddressBound(n) \in Netif /\ AddressLost(n) \in Netif
           /\ netif_set_up(n).listed = n.listed
           /\ AddressBound(n).listed = n.listed /\ AddressLost(n).listed = n.listed
           /\ ~netif_remove(n).up /\ ~AddressLost(n).up /\ AddedNetif.listed
  BY DEF Netif, NoNetif, AddedNetif, netif_set_up, netif_remove, AddressBound,
         AddressLost

(* A close keeps the shape of a pcb and its callbacks.                     *)
LEMMA PcbFacts ==
    ASSUME NEW p \in TcpPcb, NEW sent \in BOOLEAN
    PROVE  /\ FreePcb \in TcpPcb /\ tcp_close(p, sent) \in TcpPcb
           /\ tcp_close(p, sent).cb = p.cb
  BY DEF TcpPcb, PcbState, FreePcb, tcp_close

(* TypeOK without the Boolean members, and those members.                  *)
Shape ==
    /\ npc \in ControlPoint /\ caller \in {"none", "link", "dhcp"}
    /\ tpcb \in Pcb \cup {NULL} /\ buffer \in Seq(Pcb)
    /\ state \in DeviceState
    /\ linkCheckCounter \in 0..(LinkCheckPeriod - 1)
    /\ listener \in {"none", "deaf", "open"}
    /\ tcp_client_pcb \in Pcb \cup {NULL}
    /\ ring \in Seq(Pcb) /\ Len(ring) <= RxSize
    /\ netif \in Netif /\ dhcp \in Dhcp /\ heap \in 0..HeapUnits
    /\ conn \in [Pcb -> TcpPcb]
    /\ flaps \in 0..MaxFlaps /\ trouble \in 0..MaxTrouble

Flags ==
    /\ ethLinkStatus \in BOOLEAN /\ previousLinkStatus \in BOOLEAN
    /\ tcpip_initialized \in BOOLEAN /\ tcp_pcb \in BOOLEAN
    /\ client_connected_flag \in BOOLEAN /\ client_closed_flag \in BOOLEAN
    /\ phyUp \in BOOLEAN

(* The solvers take the Boolean members apart from the rest.               *)
LEMMA TypeParts == TypeOK <=> Shape /\ Flags
  BY DEF TypeOK, Shape, Flags

(* lwIP removes pcbs and calls tcp_server_error.                           *)
LEMMA RemoveShape ==
    ASSUME Shape, NEW S, Remove(S)
    PROVE  conn' \in [Pcb -> TcpPcb] /\ tcp_client_pcb' \in Pcb \cup {NULL}
  BY PcbFacts DEF Shape, Remove, tcp_server_error

(* Taking bytes out of the ring.                                           *)
LEMMA RingFacts ==
    ASSUME NEW q \in Seq(Pcb), Len(q) <= RxSize, NEW n \in 0..Len(q)
    PROVE  /\ SubSeq(q, 1, n) \in Seq(Pcb)
           /\ SubSeq(q, n + 1, Len(q)) \in Seq(Pcb)
           /\ Len(SubSeq(q, n + 1, Len(q))) <= RxSize
  BY EthDeviceAssumption

-----------------------------------------------------------------------------
(* EthernetTCPProcess returns.                                             *)
LEMMA ReturnFacts ==
    Return => npc' = "loop" /\ tpcb' = NULL /\ caller' = "none" /\ buffer' \in Seq(Pcb)
<1>1. <<>> \in Seq(Pcb)
  OBVIOUS
<1> QED
  BY <1>1 DEF Return

(* Shape is inductive: one lemma per part of Next.                         *)
LEMMA InitShape == Init => Shape
  BY EthDeviceAssumption, DhcpFacts, LwipAssumption
     DEF Init, Shape, ControlPoint, Cleanup, DeviceState, Dhcp, DhcpState, NoDhcp,
         Netif, NoNetif, TcpPcb, PcbState, FreePcb

LEMMA CleanupShape == Shape /\ CleanupResources => Shape'
<1> SUFFICES ASSUME Shape, CleanupResources PROVE Shape'
  OBVIOUS
<1> USE DEF Shape, task, link, client, stack, server, env, device, Goto
<1>1. CASE CleanupDhcp
  BY <1>1, DhcpFacts DEF CleanupDhcp, ControlPoint, Cleanup
<1>2. CASE CleanupLoadClient
  BY <1>2 DEF CleanupLoadClient, ControlPoint, Cleanup
<1>3. CASE CleanupAbort
  <2>1. PICK p \in Loaded : IF Bogus(p) THEN Fault
                            ELSE Remove({p}) /\ Goto("null_aborted")
    BY <1>3 DEF CleanupAbort
  <2>2. CASE Bogus(p)
    BY <1>3, <2>1, <2>2 DEF CleanupAbort, Fault, ControlPoint, Cleanup
  <2>3. CASE ~Bogus(p)
    <3>1. Remove({p})
      BY <2>1, <2>3
    <3> QED
      BY <1>3, <2>1, <2>3, <3>1, RemoveShape DEF CleanupAbort, ControlPoint, Cleanup
  <2> QED
    BY <2>2, <2>3
<1>4. CASE CleanupNullAborted
  BY <1>4 DEF CleanupNullAborted, ControlPoint, Cleanup
<1>5. CASE CleanupServer
  BY <1>5 DEF CleanupServer, ControlPoint, Cleanup
<1>6. CASE CleanupNetif
  BY <1>6, NetifFacts DEF CleanupNetif, ControlPoint, Cleanup
<1>7. CASE CleanupRing
  BY <1>7, EthDeviceAssumption DEF CleanupRing, ControlPoint, Cleanup
<1>8. CASE CleanupConnected
  BY <1>8 DEF CleanupConnected, ControlPoint, Cleanup
<1>9. CASE CleanupClosed
  BY <1>9 DEF CleanupClosed, ControlPoint, Cleanup
<1>10. CASE CleanupDone
  BY <1>10, ReturnFacts DEF CleanupDone, ControlPoint, DeviceState
<1> QED
  BY <1>1, <1>2, <1>3, <1>4, <1>5, <1>6, <1>7, <1>8, <1>9, <1>10
     DEF CleanupResources

LEMMA BringUpShape == Shape /\ BringUp => Shape'
<1> SUFFICES ASSUME Shape, BringUp PROVE Shape'
  OBVIOUS
<1> USE DEF Shape, task, link, client, stack, server, env, device, Goto, InState
<1>1. ASSUME NEW ok \in BOOLEAN, BspInit(ok)
      PROVE  Shape'
  BY <1>1, ReturnFacts DEF BspInit, ControlPoint, DeviceState
<1>2. CASE CheckLinkState
  BY <1>2, ReturnFacts DEF CheckLinkState, ControlPoint
<1>3. CASE NetifAdd
  BY <1>3, DhcpFacts, NetifFacts DEF NetifAdd, ControlPoint
<1>4. CASE NetifSetUp
  BY <1>4, NetifFacts DEF NetifSetUp, ControlPoint
<1>5. CASE StartDhcp
  <2>1. dhcp' \in Dhcp /\ heap' \in 0..HeapUnits
    <3>1. ASSUME NEW d \in Dhcp
          PROVE  dhcp_stop(d) \in Dhcp /\ dhcp_discover(d) \in Dhcp
                 /\ ClearedDhcp \in Dhcp
      BY DhcpFacts
    <3>2. dhcp_discover(ClearedDhcp) \in Dhcp
          /\ dhcp_stop(dhcp_discover(ClearedDhcp)) \in Dhcp
      BY <3>1
    <3> QED
      BY <1>5, <3>2, EthDeviceAssumption DEF StartDhcp, dhcp_start
  <2> QED
    BY <1>5, <2>1, ReturnFacts DEF StartDhcp, ControlPoint, DeviceState
<1>6. CASE DhcpCase
  BY <1>6, ReturnFacts DEF DhcpCase, CallCleanup, ControlPoint, Cleanup, DeviceState
<1> QED
  BY <1>1, <1>2, <1>3, <1>4, <1>5, <1>6 DEF BringUp

LEMMA ServeShape == Shape /\ Serve => Shape'
<1> SUFFICES ASSUME Shape, Serve PROVE Shape'
  OBVIOUS
<1> USE DEF Shape, task, link, client, stack, server, env, device, Goto, InState
<1>1. CASE TcpBind
  BY <1>1 DEF TcpBind, ControlPoint
<1>2. CASE RetryDelay
  BY <1>2, ReturnFacts DEF RetryDelay, ControlPoint
<1>3. CASE TcpListen
  BY <1>3 DEF TcpListen, ControlPoint
<1>4. CASE TcpAccept
  BY <1>4, ReturnFacts DEF TcpAccept, ControlPoint, DeviceState
<1>5. CASE WaitTcp
  BY <1>5, ReturnFacts DEF WaitTcp, ControlPoint
<1>6. CASE EnterConnect
  BY <1>6, ReturnFacts DEF EnterConnect, ControlPoint, DeviceState
<1>7. CASE Connect
  BY <1>7, ReturnFacts DEF Connect, ControlPoint, DeviceState
<1>8. CASE ReadRing
  <2> DEFINE n == IF Len(ring) < EchoSize THEN Len(ring) ELSE EchoSize
  <2>1. /\ buffer' = SubSeq(ring, 1, n)
        /\ ring' = SubSeq(ring, n + 1, Len(ring))
    BY <1>8 DEF ReadRing
  <2>a. n \in 0..Len(ring)
    BY EthDeviceAssumption
  <2> HIDE DEF n
  <2>2. /\ buffer' \in Seq(Pcb) /\ ring' \in Seq(Pcb) /\ Len(ring') <= RxSize
    BY <2>1, <2>a, RingFacts
  <2> QED
    BY <1>8, <2>2 DEF ReadRing, ControlPoint
<1>9. CASE LoadEcho
  BY <1>9, ReturnFacts DEF LoadEcho, ControlPoint
<1>10. CASE EchoWrite
  BY <1>10, ReturnFacts DEF EchoWrite, Fault, Loaded, ControlPoint
<1>11. CASE EchoOutput
  BY <1>11, ReturnFacts DEF EchoOutput, Fault, ControlPoint
<1>12. CASE CloseTcp
  BY <1>12 DEF CloseTcp, ControlPoint
<1>13. CASE CloseClient
  <2>1. PICK p \in Loaded, sent \in BOOLEAN :
            IF Bogus(p) THEN Fault
            ELSE /\ conn' = [conn EXCEPT ![p] = tcp_close(@, sent)]
                 /\ npc' = "null_closed" /\ tpcb' = p
                 /\ UNCHANGED <<caller, buffer, client>>
    BY <1>13 DEF CloseClient
  <2>2. CASE Bogus(p)
    BY <1>13, <2>1, <2>2 DEF CloseClient, Fault, ControlPoint
  <2>3. CASE ~Bogus(p)
    <3>1. p \in Pcb
      BY <2>3 DEF Bogus
    <3>2. conn' = [conn EXCEPT ![p] = tcp_close(conn[p], sent)]
      BY <2>1, <2>3
    <3>3. conn' \in [Pcb -> TcpPcb]
      BY <3>1, <3>2, PcbFacts
    <3> QED
      BY <1>13, <2>1, <2>3, <3>1, <3>3 DEF CloseClient, ControlPoint
  <2> QED
    BY <2>2, <2>3
<1>14. CASE NullClosed
  BY <1>14 DEF NullClosed, ControlPoint
<1>15. CASE LeaveConnected
  BY <1>15 DEF LeaveConnected, ControlPoint
<1>16. CASE LeaveClosed
  BY <1>16, ReturnFacts DEF LeaveClosed, ControlPoint, DeviceState
<1> QED
  BY <1>1, <1>2, <1>3, <1>4, <1>5, <1>6, <1>7, <1>8, <1>9, <1>10, <1>11, <1>12,
     <1>13, <1>14, <1>15, <1>16 DEF Serve

LEMMA CheckShape == Shape /\ EthernetDevice_CheckLinkStatus => Shape'
  BY EthDeviceAssumption
     DEF EthernetDevice_CheckLinkStatus, Shape, task, link, client, stack, server,
         env, CallCleanup, Goto, ControlPoint, Cleanup

-----------------------------------------------------------------------------
LEMMA DhcpEventShape == Shape /\ DhcpEvent => Shape'
<1> SUFFICES ASSUME Shape, DhcpEvent PROVE Shape'
  OBVIOUS
<1> USE DEF OnlyDhcp, Troubled, task, link, client, server, device
<1>0. dhcp \in Dhcp /\ netif \in Netif /\ trouble \in 0..MaxTrouble
  BY DEF Shape
<1>1. CASE DhcpOffer
  BY <1>1, <1>0, DhcpFacts DEF DhcpOffer, Shape
<1>2. CASE DhcpAck
  BY <1>2, <1>0, DhcpFacts, NetifFacts DEF DhcpAck, dhcp_bind, Shape
<1>3. LoseAddress => /\ dhcp' \in Dhcp /\ netif' \in Netif
                     /\ conn' \in [Pcb -> TcpPcb]
                     /\ tcp_client_pcb' \in Pcb \cup {NULL}
  BY <1>0, DhcpFacts, NetifFacts, RemoveShape DEF LoseAddress
<1>4. Troubled => trouble' \in 0..MaxTrouble
  BY <1>0, EthDeviceAssumption
<1>5. CASE DhcpNak
  BY <1>5, <1>3, <1>4 DEF DhcpNak, Shape
<1>6. CASE ArpConflict
  BY <1>6, <1>0, <1>4, DhcpFacts DEF ArpConflict, Shape
<1>7. CASE DhcpUnanswered
  <2>1. CASE LoseAddress
    BY <1>7, <2>1, <1>3, <1>4 DEF DhcpUnanswered, Shape
  <2>2. CASE ~LoseAddress
    BY <1>7, <2>2, <1>0, <1>4, DhcpFacts DEF DhcpUnanswered, Shape
  <2> QED
    BY <2>1, <2>2
<1>8. CASE DhcpWaited
  BY <1>8, <1>0, DhcpFacts, NetifFacts DEF DhcpWaited, dhcp_bind, Shape
<1>9. CASE LeaseTimer
  BY <1>9, <1>0, <1>4, DhcpFacts DEF LeaseTimer, Shape
<1> QED
  BY <1>1, <1>2, <1>5, <1>6, <1>7, <1>8, <1>9 DEF DhcpEvent

LEMMA TcpEventShape == Shape /\ TcpEvent => Shape'
<1> SUFFICES ASSUME Shape, NEW c \in Pcb,
                    \/ Syn(c) \/ HandshakeAck(c) \/ Data(c) \/ PeerFin(c)
                    \/ PeerReset(c) \/ FinAcked(c) \/ SlowTimer(c) \/ TimeWaitOver(c)
             PROVE  Shape'
  BY DEF TcpEvent
<1> USE DEF OnlyTcp, task, link, client, stack, server, env, device
<1>0. conn \in [Pcb -> TcpPcb] /\ conn[c] \in TcpPcb
  BY DEF Shape
<1>1. CASE Syn(c)
  BY <1>1 DEF Syn, Shape, TcpPcb, PcbState
<1>2. CASE HandshakeAck(c)
  BY <1>2 DEF HandshakeAck, tcp_server_accept, Shape, TcpPcb, PcbState
<1>3. Remove({c}) => /\ conn' \in [Pcb -> TcpPcb]
                     /\ tcp_client_pcb' \in Pcb \cup {NULL}
  BY RemoveShape
<1>4. CASE Data(c)
  <2>1. tcp_server_recv(c) => ring' \in Seq(Pcb) /\ Len(ring') <= RxSize
    <3>1. Append(ring, c) \in Seq(Pcb) /\ Len(Append(ring, c)) = Len(ring) + 1
      BY DEF Shape
    <3> QED
      BY <3>1, EthDeviceAssumption DEF tcp_server_recv, Shape
  <2> QED
    BY <1>4, <1>3, <2>1 DEF Data, Shape
<1>5. CASE PeerFin(c)
  <2>1. conn' \in [Pcb -> TcpPcb]
    <3>1. CASE /\ conn[c].st = "established" /\ conn[c].cb
               /\ conn' = [conn EXCEPT ![c].st = "close_wait"]
      BY <3>1, <1>0 DEF TcpPcb, PcbState
    <3>2. ASSUME NEW sent \in BOOLEAN,
                 conn' = [conn EXCEPT ![c] =
                              tcp_close([@ EXCEPT !.st = "close_wait"], sent)]
          PROVE  conn' \in [Pcb -> TcpPcb]
      <4>1. [conn[c] EXCEPT !.st = "close_wait"] \in TcpPcb
        BY <1>0 DEF TcpPcb, PcbState
      <4>2. tcp_close([conn[c] EXCEPT !.st = "close_wait"], sent) \in TcpPcb
        BY <4>1, PcbFacts
      <4> QED
        BY <3>2, <4>2, <1>0
    <3>3. ASSUME NEW s \in {"closing", "time_wait"}, conn' = [conn EXCEPT ![c].st = s]
          PROVE  conn' \in [Pcb -> TcpPcb]
      BY <3>3, <1>0 DEF TcpPcb, PcbState
    <3> QED
      BY <1>5, <3>1, <3>2, <3>3 DEF PeerFin
  <2> QED
    BY <1>5, <2>1 DEF PeerFin, Shape
<1>6. CASE PeerReset(c)
  BY <1>6, <1>3 DEF PeerReset, Shape
<1>7. CASE FinAcked(c)
  BY <1>7, <1>0, PcbFacts DEF FinAcked, Shape, TcpPcb, PcbState, FreePcb
<1>8. CASE SlowTimer(c)
  BY <1>8, <1>3 DEF SlowTimer, Shape
<1>9. CASE TimeWaitOver(c)
  BY <1>9, <1>0, PcbFacts DEF TimeWaitOver, Shape
<1> QED
  BY <1>1, <1>2, <1>4, <1>5, <1>6, <1>7, <1>8, <1>9

-----------------------------------------------------------------------------
(* Flags is inductive: one lemma per part of Next.                         *)
LEMMA FlagsFacts ==
    /\ \A S : Remove(S) /\ Flags => /\ client_connected_flag' \in BOOLEAN
                                    /\ client_closed_flag' \in BOOLEAN
  BY Zenon DEF Remove, tcp_server_error, Flags

LEMMA TaskFlags == Flags /\ NetworkTask => Flags'
<1> SUFFICES ASSUME Flags, NetworkTask PROVE Flags'
  OBVIOUS
<1> USE DEF Flags, link, client, server, env, device
<1>1. CASE EthernetDevice_CheckLinkStatus
  BY <1>1, Zenon DEF EthernetDevice_CheckLinkStatus
<1>2. CASE CleanupResources
  <2>1. CleanupAbort => Flags'
    BY FlagsFacts, Zenon DEF CleanupAbort, Fault
  <2>2. CleanupDhcp \/ CleanupLoadClient \/ CleanupNullAborted \/ CleanupServer => Flags'
    BY Zenon DEF CleanupDhcp, CleanupLoadClient, CleanupNullAborted, CleanupServer
  <2>3. CleanupNetif \/ CleanupRing \/ CleanupConnected \/ CleanupClosed => Flags'
    BY Zenon DEF CleanupNetif, CleanupRing, CleanupConnected, CleanupClosed
  <2>4. CleanupDone => Flags'
    BY Zenon DEF CleanupDone
  <2> QED
    BY <1>2, <2>1, <2>2, <2>3, <2>4 DEF CleanupResources
<1>3. CASE BringUp
  <2>1. \A ok : BspInit(ok) => Flags'
    BY Zenon DEF BspInit
  <2>2. CheckLinkState \/ NetifAdd \/ NetifSetUp => Flags'
    BY Zenon DEF CheckLinkState, NetifAdd, NetifSetUp
  <2>3. StartDhcp \/ DhcpCase => Flags'
    BY Zenon DEF StartDhcp, DhcpCase
  <2> QED
    BY <1>3, <2>1, <2>2, <2>3 DEF BringUp
<1>4. CASE Serve
  <2>1. TcpBind \/ RetryDelay \/ TcpListen \/ TcpAccept => Flags'
    BY Zenon DEF TcpBind, RetryDelay, TcpListen, TcpAccept
  <2>2. WaitTcp \/ EnterConnect \/ Connect \/ ReadRing \/ LoadEcho => Flags'
    BY Zenon DEF WaitTcp, EnterConnect, Connect, ReadRing, LoadEcho
  <2>3. EchoWrite => Flags'
    BY Zenon DEF EchoWrite, Fault
  <2>4. EchoOutput \/ CloseTcp \/ CloseClient => Flags'
    BY Zenon DEF EchoOutput, CloseTcp, CloseClient, Fault
  <2>5. NullClosed \/ LeaveConnected \/ LeaveClosed => Flags'
    BY Zenon DEF NullClosed, LeaveConnected, LeaveClosed
  <2> QED
    BY <1>4, <2>1, <2>2, <2>3, <2>4, <2>5 DEF Serve
<1> QED
  BY <1>1, <1>2, <1>3, <1>4 DEF NetworkTask

LEMMA DhcpEventFlags == Flags /\ DhcpEvent => Flags'
<1> SUFFICES ASSUME Flags, DhcpEvent PROVE Flags'
  OBVIOUS
<1> USE DEF Flags, OnlyDhcp, link, client, server, device
<1>1. LoseAddress => client_connected_flag' \in BOOLEAN /\ client_closed_flag' \in BOOLEAN
  BY FlagsFacts, Zenon DEF LoseAddress
<1>2. DhcpOffer \/ DhcpAck \/ ArpConflict \/ DhcpWaited \/ LeaseTimer => Flags'
  BY Zenon DEF DhcpOffer, DhcpAck, ArpConflict, DhcpWaited, LeaseTimer
<1>3. DhcpNak \/ DhcpUnanswered => Flags'
  BY <1>1, Zenon DEF DhcpNak, DhcpUnanswered
<1> QED
  BY <1>2, <1>3 DEF DhcpEvent

LEMMA TcpEventFlags == Flags /\ TcpEvent => Flags'
<1> SUFFICES ASSUME Flags, NEW c \in Pcb,
                    \/ Syn(c) \/ HandshakeAck(c) \/ Data(c) \/ PeerFin(c)
                    \/ PeerReset(c) \/ FinAcked(c) \/ SlowTimer(c) \/ TimeWaitOver(c)
             PROVE  Flags'
  BY DEF TcpEvent
<1> USE DEF Flags, OnlyTcp, link, client, stack, server, env, device
<1>1. Syn(c) \/ FinAcked(c) \/ TimeWaitOver(c) => Flags'
  BY Zenon DEF Syn, FinAcked, TimeWaitOver
<1>2. HandshakeAck(c) => Flags'
  BY Zenon DEF HandshakeAck, tcp_server_accept
<1>3. Data(c) \/ PeerReset(c) \/ SlowTimer(c) => Flags'
  BY FlagsFacts, Zenon DEF Data, PeerReset, SlowTimer
<1>4. PeerFin(c) => Flags'
  BY Zenon DEF PeerFin
<1> QED
  BY <1>1, <1>2, <1>3, <1>4

-----------------------------------------------------------------------------
(* Both together *)
LEMMA InitType == Init => TypeOK
  BY InitShape, TypeParts, Zenon DEF Init, Flags

LEMMA StepType == TypeOK /\ [Next]_vars => TypeOK'
<1> SUFFICES ASSUME TypeOK, [Next]_vars PROVE TypeOK'
  OBVIOUS
<1> USE TypeParts
<1>0. Shape /\ Flags
  OBVIOUS
<1>1. CASE NetworkTask
  <2>1. Shape'
    BY <1>0, <1>1, CheckShape, CleanupShape, BringUpShape, ServeShape DEF NetworkTask
  <2> QED
    BY <1>0, <1>1, <2>1, TaskFlags DEF TypeOK, Shape, Flags
<1>2. CASE DhcpEvent
  BY <1>0, <1>2, DhcpEventShape, DhcpEventFlags DEF TypeOK, Shape, Flags
<1>3. CASE TcpEvent
  BY <1>0, <1>3, TcpEventShape, TcpEventFlags DEF TypeOK, Shape, Flags
<1>4. CASE Plug \/ Unplug
  <2>1. Shape'
    BY <1>0, <1>4, EthDeviceAssumption
       DEF Plug, Unplug, Shape, task, link, client, stack, server, device
  <2>2. Flags'
    BY <1>0, <1>4, Zenon
       DEF Plug, Unplug, Flags, task, link, client, stack, server, device
  <2> QED
    BY <2>1, <2>2 DEF TypeOK, Shape, Flags
<1>5. CASE UNCHANGED vars
  BY <1>5 DEF vars, TypeOK, task, link, client, stack, server, env, device
<1> QED
  BY <1>1, <1>2, <1>3, <1>4, <1>5 DEF Next, Halted

(* Every member of ethDevice, the ring, the interface, the DHCP client and *)
(* the pcbs keep their shape; the ring never exceeds its capacity, however *)
(* fast the peers send (EthernetDevice.c:329).                             *)
THEOREM TypeCorrect == Spec => []TypeOK
  BY InitType, StepType, PTL DEF Spec

-----------------------------------------------------------------------------
(* What tcpip_thread and the cable leave alone *)

LEMMA EventsKeepTask ==
    DhcpEvent \/ TcpEvent \/ Plug \/ Unplug \/ UNCHANGED vars
        => UNCHANGED <<npc, caller, tpcb, buffer, state, tcp_pcb, listener>>
<1> USE DEF OnlyDhcp, OnlyTcp, task, device, server
<1>1. DhcpEvent => UNCHANGED <<npc, caller, tpcb, buffer, state, tcp_pcb, listener>>
  BY DEF DhcpEvent, DhcpOffer, DhcpAck, DhcpNak, ArpConflict, DhcpUnanswered,
         DhcpWaited, LeaseTimer
<1>2. ASSUME NEW c \in Pcb,
             \/ Syn(c) \/ HandshakeAck(c) \/ Data(c) \/ PeerFin(c)
             \/ PeerReset(c) \/ FinAcked(c) \/ SlowTimer(c) \/ TimeWaitOver(c)
      PROVE  UNCHANGED <<npc, caller, tpcb, buffer, state, tcp_pcb, listener>>
  BY <1>2 DEF Syn, HandshakeAck, Data, PeerFin, PeerReset, FinAcked, SlowTimer,
              TimeWaitOver
<1>3. Plug \/ Unplug \/ UNCHANGED vars
          => UNCHANGED <<npc, caller, tpcb, buffer, state, tcp_pcb, listener>>
  BY DEF Plug, Unplug, vars
<1> QED
  BY <1>1, <1>2, <1>3 DEF TcpEvent

-----------------------------------------------------------------------------
(* The listening pcb *)

(* In which state of the device the calls of network_task are made.        *)
AtState ==
    /\ npc \in {"netif_add", "netif_set_up", "dhcp_start"} => state = "CHECK_LINK"
    /\ npc \in {"tcp_listen", "tcp_accept", "retry_delay"} => state = "TCP"
    /\ npc = "enter_connect" => state = "WAIT_TCP"
    /\ npc \in {"lwrb_read", "load_echo", "tcp_write", "tcp_output"} => state = "CONNECT"
    /\ npc \in {"tcp_close", "null_closed", "leave_connected", "leave_closed"}
           => state = "CLOSE_TCP"
    /\ npc \in Cleanup => state # "INIT"

(* Where network_task is and which listener there is belong together.      *)
ServerInv == AtState /\ ServerKnown

LEMMA InitServer == Init => ServerInv
  BY Zenon DEF Init, ServerInv, AtState, ServerKnown, Serving, ServerClosed, Cleanup

LEMMA StepServer == TypeOK /\ ServerInv /\ [Next]_vars => ServerInv'
<1> SUFFICES ASSUME TypeOK, ServerInv, [Next]_vars PROVE ServerInv'
  OBVIOUS
<1>1. CASE DhcpEvent \/ TcpEvent \/ Plug \/ Unplug \/ UNCHANGED vars
  BY <1>1, EventsKeepTask DEF ServerInv, AtState, ServerKnown, Serving, ServerClosed
<1> USE DEF ServerInv, AtState, ServerKnown, Serving, ServerClosed, Cleanup,
            server, device, Goto, Return, InState
<1>0. listener \in {"none", "deaf", "open"} /\ tcp_pcb \in BOOLEAN
  BY DEF TypeOK
<1>2. CASE EthernetDevice_CheckLinkStatus
  BY <1>2 DEF EthernetDevice_CheckLinkStatus, CallCleanup
<1>3. CASE CleanupResources
  <2>1. CASE CleanupDhcp \/ CleanupLoadClient \/ CleanupNullAborted
    BY <1>3, <2>1 DEF CleanupDhcp, CleanupLoadClient, CleanupNullAborted
  <2>2. CASE CleanupAbort
    BY <1>3, <2>2 DEF CleanupAbort, Fault
  <2>3. CASE CleanupServer
    BY <1>0, <2>3 DEF CleanupServer
  <2>4. CASE CleanupNetif \/ CleanupRing \/ CleanupConnected \/ CleanupClosed
    BY <2>4 DEF CleanupNetif, CleanupRing, CleanupConnected, CleanupClosed
  <2>5. CASE CleanupDone
    BY <2>5 DEF CleanupDone
  <2> QED
    BY <1>3, <2>1, <2>2, <2>3, <2>4, <2>5 DEF CleanupResources
<1>4. CASE BringUp
  <2>1. ASSUME NEW ok \in BOOLEAN, BspInit(ok)
        PROVE  ServerInv'
    BY <2>1 DEF BspInit
  <2>2. CASE CheckLinkState \/ NetifAdd \/ NetifSetUp
    BY <2>2 DEF CheckLinkState, NetifAdd, NetifSetUp
  <2>3. CASE StartDhcp
    BY <2>3 DEF StartDhcp
  <2>4. CASE DhcpCase
    BY <2>4 DEF DhcpCase, CallCleanup
  <2> QED
    BY <1>4, <2>1, <2>2, <2>3, <2>4 DEF BringUp
<1>5. CASE Serve
  <2>1. CASE TcpBind \/ RetryDelay
    BY <2>1 DEF TcpBind, RetryDelay
  <2>2. CASE TcpListen
    BY <1>0, <2>2 DEF TcpListen
  <2>3. CASE TcpAccept
    BY <2>3 DEF TcpAccept
  <2>4. CASE WaitTcp \/ EnterConnect
    BY <2>4 DEF WaitTcp, EnterConnect
  <2>5. CASE Connect \/ ReadRing \/ LoadEcho
    BY <2>5 DEF Connect, ReadRing, LoadEcho
  <2>6. CASE EchoWrite \/ EchoOutput
    BY <2>6 DEF EchoWrite, EchoOutput, Fault
  <2>7. CASE CloseTcp \/ CloseClient
    BY <2>7 DEF CloseTcp, CloseClient, Fault
  <2>8. CASE NullClosed \/ LeaveConnected \/ LeaveClosed
    BY <2>8 DEF NullClosed, LeaveConnected, LeaveClosed
  <2> QED
    BY <1>5, <2>1, <2>2, <2>3, <2>4, <2>5, <2>6, <2>7, <2>8 DEF Serve
<1> QED
  BY <1>1, <1>2, <1>3, <1>4, <1>5 DEF Next, NetworkTask, Halted

LEMMA SpecServer == Spec => [](TypeOK /\ ServerInv)
<1>1. TypeOK /\ ServerInv /\ [Next]_vars => (TypeOK /\ ServerInv)'
  BY StepType, StepServer
<1> QED
  BY InitType, InitServer, <1>1, PTL DEF Spec

(* The task never loses or doubles its listening pcb: ethDevice.tcp_pcb is *)
(* set exactly while there is one with the accept callback, from the end   *)
(* of tcp_server_init to the cleanup (EthernetDevice.c:110-114, 436-439).  *)
THEOREM ServerAlwaysKnown == Spec => []ServerKnown
<1>1. ServerInv => ServerKnown
  BY DEF ServerInv
<1> QED
  BY SpecServer, <1>1, PTL

-----------------------------------------------------------------------------
(* The interface and the DHCP client *)

(* The cleanup stops the client first and keeps it stopped; once the       *)
(* interface is down, only a client at work could bring it up again.       *)
StackInv ==
    /\ DhcpHasNetif
    /\ npc \in Cleanup \ {"dhcp_stop"} => ~Negotiating(dhcp)
    /\ npc \in {"netif_set_up", "dhcp_start"} => netif.listed
    /\ npc \in {"lwrb_reset", "clear_connected", "clear_closed", "vTaskDelay"}
           => ~netif.up

(* A stopped client stays stopped: every event of DHCP needs one at work,  *)
(* and none of them takes the interface out of netif_list.                 *)
LEMMA DhcpEventNeedsClient ==
    TypeOK /\ DhcpEvent => Negotiating(dhcp) /\ netif'.listed = netif.listed
<1> SUFFICES ASSUME TypeOK, DhcpEvent
             PROVE  Negotiating(dhcp) /\ netif'.listed = netif.listed
  OBVIOUS
<1>1. netif \in Netif
  BY DEF TypeOK
<1>2. LoseAddress \/ dhcp_bind \/ UNCHANGED netif => netif'.listed = netif.listed
  BY <1>1, NetifFacts DEF LoseAddress, dhcp_bind
<1>3. dhcp.state \in {"SELECTING", "REQUESTING", "CHECKING", "BACKING_OFF", "BOUND",
                     "RENEWING", "REBINDING"}
      /\ (LoseAddress \/ dhcp_bind \/ UNCHANGED netif)
  BY DEF DhcpEvent, DhcpOffer, DhcpAck, DhcpNak, ArpConflict, DhcpUnanswered,
         DhcpWaited, LeaseTimer
<1> QED
  BY <1>2, <1>3 DEF Negotiating

LEMMA InitStack == Init => StackInv
  BY DEF Init, StackInv, DhcpHasNetif, Negotiating, NoDhcp, Cleanup

LEMMA StepStack == TypeOK /\ StackInv /\ [Next]_vars => StackInv'
<1> SUFFICES ASSUME TypeOK, StackInv, [Next]_vars PROVE StackInv'
  OBVIOUS
<1>0. dhcp \in Dhcp /\ netif \in Netif
  BY DEF TypeOK
<1>1. CASE DhcpEvent
  BY <1>1, EventsKeepTask, DhcpEventNeedsClient DEF StackInv, DhcpHasNetif, Cleanup
<1>2. CASE TcpEvent \/ Plug \/ Unplug \/ UNCHANGED vars
  <2>1. UNCHANGED <<netif, dhcp>>
    BY <1>2 DEF TcpEvent, Syn, HandshakeAck, Data, PeerFin, PeerReset, FinAcked,
                SlowTimer, TimeWaitOver, OnlyTcp, Plug, Unplug, vars, stack
  <2> QED
    BY <1>2, <2>1, EventsKeepTask DEF StackInv, DhcpHasNetif
<1> USE DEF StackInv, DhcpHasNetif, Cleanup, stack, Goto, Return, InState
<1>3. CASE EthernetDevice_CheckLinkStatus
  BY <1>3 DEF EthernetDevice_CheckLinkStatus, CallCleanup
<1>4. CASE CleanupResources
  <2>1. CASE CleanupDhcp
    <3>1. ~Negotiating(dhcp_stop(dhcp))
      BY <1>0 DEF Negotiating, dhcp_stop, dhcp_set_state, Dhcp
    <3> QED
      BY <2>1, <3>1 DEF CleanupDhcp
  <2>2. CASE CleanupNetif
    BY <1>0, <2>2, NetifFacts DEF CleanupNetif
  <2>3. CASE CleanupLoadClient \/ CleanupNullAborted \/ CleanupServer
    BY <2>3 DEF CleanupLoadClient, CleanupNullAborted, CleanupServer
  <2>4. CASE CleanupAbort
    BY <2>4 DEF CleanupAbort, Fault
  <2>5. CASE CleanupRing \/ CleanupConnected \/ CleanupClosed
    BY <2>5 DEF CleanupRing, CleanupConnected, CleanupClosed
  <2>6. CASE CleanupDone
    BY <2>6 DEF CleanupDone
  <2> QED
    BY <1>4, <2>1, <2>2, <2>3, <2>4, <2>5, <2>6 DEF CleanupResources
<1>5. CASE BringUp
  <2>1. ASSUME NEW ok \in BOOLEAN, BspInit(ok)
        PROVE  StackInv'
    BY <2>1 DEF BspInit
  <2>2. CASE CheckLinkState
    BY <2>2 DEF CheckLinkState
  <2>3. CASE NetifAdd
    BY <1>0, <2>3, NetifFacts DEF NetifAdd
  <2>4. CASE NetifSetUp
    BY <1>0, <2>4, NetifFacts DEF NetifSetUp
  <2>5. CASE StartDhcp
    BY <2>5 DEF StartDhcp
  <2>6. CASE DhcpCase
    BY <2>6 DEF DhcpCase, CallCleanup
  <2> QED
    BY <1>5, <2>1, <2>2, <2>3, <2>4, <2>5, <2>6 DEF BringUp
<1>6. CASE Serve
  BY <1>6 DEF Serve, TcpBind, RetryDelay, TcpListen, TcpAccept, WaitTcp,
              EnterConnect, Connect, ReadRing, LoadEcho, EchoWrite, EchoOutput,
              CloseTcp, CloseClient, NullClosed, LeaveConnected, LeaveClosed, Fault
<1> QED
  BY <1>1, <1>2, <1>3, <1>4, <1>5, <1>6 DEF Next, NetworkTask, Halted

LEMMA SpecStack == Spec => [](TypeOK /\ ServerInv /\ StackInv)
<1>1. TypeOK /\ StackInv /\ [Next]_vars => StackInv'
  BY StepStack
<1> QED
  BY SpecServer, InitStack, <1>1, PTL DEF Spec

(* The DHCP client never works on an interface that has been removed       *)
(* (EthernetDevice.c:97-121).                                              *)
THEOREM DhcpAlwaysHasNetif == Spec => []DhcpHasNetif
<1>1. StackInv => DhcpHasNetif
  BY DEF StackInv
<1> QED
  BY SpecStack, <1>1, PTL

(* A cleanup leaves a quiet stack behind, whatever tcpip_thread did while  *)
(* it was under way (EthernetDevice.c:279, 572).                           *)
THEOREM AlwaysQuietAtReinit == Spec => QuietAtReinit
<1> DEFINE Quiet == listener = "none" /\ ~Negotiating(dhcp) /\ ~Reachable(netif)
           Again == state' = "INIT" /\ state # "INIT" => Quiet
<1>1. TypeOK /\ ServerInv /\ StackInv /\ [Next]_vars => [Again]_vars
  <2> SUFFICES ASSUME TypeOK, ServerInv, StackInv, [Next]_vars,
                      state' = "INIT", state # "INIT"
               PROVE  Quiet
    BY DEF Again
  <2>1. ~(DhcpEvent \/ TcpEvent \/ Plug \/ Unplug \/ UNCHANGED vars)
    BY EventsKeepTask
  <2>2. ~(EthernetDevice_CheckLinkStatus \/ BringUp \/ Serve)
    BY DEF EthernetDevice_CheckLinkStatus, BringUp, BspInit, CheckLinkState,
           NetifAdd, NetifSetUp, StartDhcp, DhcpCase, Serve, TcpBind, RetryDelay,
           TcpListen, TcpAccept, WaitTcp, EnterConnect, Connect, ReadRing, LoadEcho,
           EchoWrite, EchoOutput, CloseTcp, CloseClient, NullClosed,
           LeaveConnected, LeaveClosed, InState, device
  <2>3. CleanupDone
    BY <2>1, <2>2
       DEF Next, NetworkTask, Halted, CleanupResources, CleanupDhcp,
           CleanupLoadClient, CleanupAbort, CleanupNullAborted, CleanupServer,
           CleanupNetif, CleanupRing, CleanupConnected, CleanupClosed, device
  <2>4. npc = "vTaskDelay"
    BY <2>3 DEF CleanupDone
  <2>5. listener = "none"
    BY <2>4 DEF TypeOK, ServerInv, ServerKnown, ServerClosed
  <2> QED
    BY <2>4, <2>5 DEF StackInv, Cleanup, Reachable
<1> QED
  BY SpecStack, <1>1, PTL DEF Spec, QuietAtReinit

-----------------------------------------------------------------------------
(* The client pointer *)

Healthy(p) == p.cb /\ Open(p)

(* The pcb the pointer names has our callbacks, so removing it clears the  *)
(* pointer.                                                                *)
ClientInv ==
    tcp_client_pcb # NULL /\ npc # "null_closed" => Healthy(conn[tcp_client_pcb])

(* lwIP removes pcbs: the pointer is cleared if it is one of them.         *)
LEMMA RemoveClient ==
    ASSUME TypeOK, NEW S, Remove(S),
           tcp_client_pcb # NULL => Healthy(conn[tcp_client_pcb])
    PROVE  tcp_client_pcb' # NULL => Healthy(conn[tcp_client_pcb])'
<1> SUFFICES ASSUME tcp_client_pcb' # NULL PROVE Healthy(conn[tcp_client_pcb])'
  OBVIOUS
<1>1. tcp_client_pcb' = tcp_client_pcb /\ ~(\E c \in S : CallsError(conn[c]))
  BY DEF Remove, tcp_server_error
<1>2. tcp_client_pcb \in Pcb /\ Healthy(conn[tcp_client_pcb])
  BY <1>1 DEF TypeOK
<1>3. CallsError(conn[tcp_client_pcb])
  BY <1>2 DEF Healthy, Open, CallsError, Active
<1>4. tcp_client_pcb \notin S
  BY <1>1, <1>3
<1>5. conn'[tcp_client_pcb] = conn[tcp_client_pcb]
  BY <1>2, <1>4 DEF Remove
<1> QED
  BY <1>1, <1>2, <1>5

(* The same while the pointer may be stale.                                *)
LEMMA RemoveKeeps ==
    ASSUME TypeOK, ClientInv, NEW S, Remove(S), npc' = npc
    PROVE  ClientInv'
<1>1. CASE npc = "null_closed"
  BY <1>1 DEF ClientInv
<1>2. CASE npc # "null_closed"
  BY <1>2, RemoveClient DEF ClientInv
<1> QED
  BY <1>1, <1>2

LEMMA InitClient == Init => ClientInv
  BY DEF Init, ClientInv

LEMMA TaskClient == TypeOK /\ ClientInv /\ NetworkTask => ClientInv'
<1> SUFFICES ASSUME TypeOK, ClientInv, NetworkTask PROVE ClientInv'
  OBVIOUS
<1> USE DEF client, Goto, Return, InState
<1>1. ASSUME UNCHANGED <<tcp_client_pcb, conn>>, npc # "null_closed"
      PROVE  ClientInv'
  BY <1>1 DEF ClientInv
<1>2. CASE EthernetDevice_CheckLinkStatus
  BY <1>1, <1>2 DEF EthernetDevice_CheckLinkStatus
<1>3. CASE CleanupResources
  <2>1. CASE CleanupAbort
    <3>1. PICK p \in Loaded : IF Bogus(p) THEN Fault
                              ELSE Remove({p}) /\ Goto("null_aborted")
      BY <2>1 DEF CleanupAbort
    <3>2. CASE Bogus(p)
      BY <1>1, <2>1, <3>1, <3>2 DEF CleanupAbort, Fault
    <3>3. CASE ~Bogus(p)
      <4>1. tcp_client_pcb # NULL => Healthy(conn[tcp_client_pcb])
        BY <2>1 DEF CleanupAbort, ClientInv
      <4>2. Remove({p})
        BY <3>1, <3>3
      <4> QED
        BY <4>1, <4>2, RemoveClient DEF ClientInv
    <3> QED
      BY <3>2, <3>3
  <2>2. CASE CleanupNullAborted
    BY <2>2 DEF CleanupNullAborted, ClientInv
  <2>3. CASE \/ CleanupDhcp \/ CleanupLoadClient \/ CleanupServer
             \/ CleanupNetif \/ CleanupRing
    BY <1>1, <2>3
       DEF CleanupDhcp, CleanupLoadClient, CleanupServer, CleanupNetif, CleanupRing
  <2>4. CASE CleanupConnected \/ CleanupClosed \/ CleanupDone
    BY <1>1, <2>4 DEF CleanupConnected, CleanupClosed, CleanupDone
  <2> QED
    BY <1>3, <2>1, <2>2, <2>3, <2>4 DEF CleanupResources
<1>4. CASE BringUp
  BY <1>1, <1>4 DEF BringUp, BspInit, CheckLinkState, NetifAdd, NetifSetUp, StartDhcp,
                    DhcpCase
<1>5. CASE Serve
  <2>1. CASE TcpBind \/ RetryDelay \/ TcpListen \/ TcpAccept \/ WaitTcp \/ EnterConnect
    BY <1>1, <2>1 DEF TcpBind, RetryDelay, TcpListen, TcpAccept, WaitTcp, EnterConnect
  <2>2. CASE Connect \/ ReadRing \/ LoadEcho \/ EchoWrite \/ EchoOutput \/ CloseTcp
    BY <1>1, <2>2 DEF Connect, ReadRing, LoadEcho, EchoWrite, EchoOutput, CloseTcp, Fault
  <2>3. CASE CloseClient
    <3>1. CASE npc' = "null_closed"
      BY <3>1 DEF ClientInv
    <3>2. CASE npc' # "null_closed"
      BY <1>1, <2>3, <3>2 DEF CloseClient, Fault
    <3> QED
      BY <3>1, <3>2
  <2>4. CASE NullClosed
    BY <2>4 DEF NullClosed, ClientInv
  <2>5. CASE LeaveConnected \/ LeaveClosed
    BY <1>1, <2>5 DEF LeaveConnected, LeaveClosed
  <2> QED
    BY <1>5, <2>1, <2>2, <2>3, <2>4, <2>5 DEF Serve
<1> QED
  BY <1>2, <1>3, <1>4, <1>5 DEF NetworkTask

LEMMA DhcpEventClient == TypeOK /\ ClientInv /\ DhcpEvent => ClientInv'
<1> SUFFICES ASSUME TypeOK, ClientInv, DhcpEvent PROVE ClientInv'
  OBVIOUS
<1>1. npc' = npc
  BY EventsKeepTask
<1>2. UNCHANGED <<client, conn>> \/ LoseAddress
  BY DEF DhcpEvent, DhcpOffer, DhcpAck, DhcpNak, ArpConflict, DhcpUnanswered,
         DhcpWaited, LeaseTimer
<1>3. CASE UNCHANGED <<client, conn>>
  BY <1>1, <1>3 DEF ClientInv, client
<1>4. CASE LoseAddress
  BY <1>1, <1>4, RemoveKeeps DEF LoseAddress
<1> QED
  BY <1>2, <1>3, <1>4

LEMMA TcpEventClient == TypeOK /\ ClientInv /\ TcpEvent => ClientInv'
<1> SUFFICES ASSUME TypeOK, ClientInv, TcpEvent PROVE ClientInv'
  OBVIOUS
<1>0. npc' = npc
  BY EventsKeepTask
<1>1. PICK c \in Pcb : \/ Syn(c) \/ HandshakeAck(c) \/ Data(c) \/ PeerFin(c)
                       \/ PeerReset(c) \/ FinAcked(c) \/ SlowTimer(c)
                       \/ TimeWaitOver(c)
  BY DEF TcpEvent
<1>2. /\ conn \in [Pcb -> TcpPcb] /\ conn[c] \in TcpPcb
      /\ tcp_client_pcb \in Pcb \cup {NULL} /\ NULL \notin Pcb
  BY EthDeviceAssumption DEF TypeOK
<1>3. Remove({c}) => ClientInv'
  BY <1>0, RemoveKeeps
<1>4. ASSUME tcp_client_pcb' = tcp_client_pcb,
             \A d \in Pcb : d # c => conn'[d] = conn[d],
             Healthy(conn[c]) => Healthy(conn'[c])
      PROVE  ClientInv'
  BY <1>0, <1>2, <1>4 DEF ClientInv
<1> USE DEF client
<1>5. CASE Syn(c)
  BY <1>2, <1>4, <1>5 DEF Syn, Healthy, Open
<1>6. CASE HandshakeAck(c)
  <2>1. conn' = [conn EXCEPT ![c].st = "established"]
    BY <1>6 DEF HandshakeAck
  <2>2. /\ conn'[c].st = "established" /\ conn'[c].cb = conn[c].cb
        /\ \A d \in Pcb : d # c => conn'[d] = conn[d]
    BY <1>2, <2>1 DEF TcpPcb
  <2>3. CASE conn[c].cb
    <3>1. tcp_client_pcb' = c
      BY <1>6, <2>3 DEF HandshakeAck, tcp_server_accept
    <3>2. Healthy(conn'[c])
      BY <2>2, <2>3 DEF Healthy, Open
    <3> QED
      BY <3>1, <3>2 DEF ClientInv
  <2>4. CASE ~conn[c].cb
    <3>1. tcp_client_pcb' = tcp_client_pcb
      BY <1>6, <2>4 DEF HandshakeAck
    <3> QED
      BY <1>4, <2>2, <2>4, <3>1 DEF Healthy
  <2> QED
    BY <2>3, <2>4
<1>7. CASE Data(c)
  <2>1. Remove({c}) \/ UNCHANGED <<tcp_client_pcb, conn>>
    BY <1>7 DEF Data
  <2> QED
    BY <1>0, <1>3, <2>1 DEF ClientInv
<1>8. CASE PeerFin(c)
  <2>1. tcp_client_pcb' = tcp_client_pcb
    BY <1>8 DEF PeerFin
  <2>2. CASE /\ conn[c].st = "established" /\ conn[c].cb
             /\ conn' = [conn EXCEPT ![c].st = "close_wait"]
    <3>1. /\ conn'[c].st = "close_wait" /\ conn'[c].cb = conn[c].cb
          /\ \A d \in Pcb : d # c => conn'[d] = conn[d]
      BY <1>2, <2>2 DEF TcpPcb
    <3> QED
      BY <1>4, <2>1, <3>1 DEF Healthy, Open
  <2>3. ASSUME NEW sent \in BOOLEAN, ~conn[c].cb,
               conn' = [conn EXCEPT ![c] =
                            tcp_close([@ EXCEPT !.st = "close_wait"], sent)]
        PROVE  ClientInv'
    <3>1. \A d \in Pcb : d # c => conn'[d] = conn[d]
      BY <1>2, <2>3
    <3> QED
      BY <1>4, <2>1, <2>3, <3>1 DEF Healthy
  <2>4. ASSUME NEW s \in {"closing", "time_wait"}, conn[c].st = "fin_wait",
               conn' = [conn EXCEPT ![c].st = s]
        PROVE  ClientInv'
    <3>1. \A d \in Pcb : d # c => conn'[d] = conn[d]
      BY <1>2, <2>4
    <3> QED
      BY <1>4, <2>1, <2>4, <3>1 DEF Healthy, Open
  <2> QED
    BY <1>8, <2>2, <2>3, <2>4 DEF PeerFin
<1>9. CASE PeerReset(c) \/ SlowTimer(c)
  BY <1>3, <1>9 DEF PeerReset, SlowTimer
<1>10. CASE FinAcked(c) \/ TimeWaitOver(c)
  <2>1. /\ tcp_client_pcb' = tcp_client_pcb
        /\ \A d \in Pcb : d # c => conn'[d] = conn[d]
    BY <1>2, <1>10 DEF FinAcked, TimeWaitOver
  <2>2. ~Open(conn[c])
    BY <1>10 DEF FinAcked, TimeWaitOver, Open
  <2> QED
    BY <1>4, <2>1, <2>2 DEF Healthy
<1> QED
  BY <1>1, <1>5, <1>6, <1>7, <1>8, <1>9, <1>10

LEMMA StepClient == TypeOK /\ ClientInv /\ [Next]_vars => ClientInv'
<1> SUFFICES ASSUME TypeOK, ClientInv, [Next]_vars PROVE ClientInv'
  OBVIOUS
<1>1. CASE Plug \/ Unplug \/ UNCHANGED vars
  BY <1>1, EventsKeepTask DEF ClientInv, Plug, Unplug, vars, client
<1> QED
  BY <1>1, TaskClient, DhcpEventClient, TcpEventClient DEF Next, Halted

(* Every way in which a connection ends, among any number of them, clears  *)
(* ethDevice.tcp_client_pcb if it points there (EthernetDevice.c:345-351). *)
THEOREM ClientPcbAlwaysLive == Spec => []ClientPcbLive
<1>1. TypeOK /\ ClientInv /\ [Next]_vars => ClientInv'
  BY StepClient
<1>2. ClientInv => ClientPcbLive
  BY DEF ClientInv, ClientPcbLive, Healthy
<1> QED
  BY TypeCorrect, InitClient, <1>1, <1>2, PTL DEF Spec
-----------------------------------------------------------------------------
(* What would make the raw calls safe                                      *)

(* Calls that use a pcb network_task has loaded before. *)
RawCall == {"tcp_abort", "tcp_write", "tcp_output", "tcp_close"}

(* The connections stay as they are from the load of the pointer to the    *)
(* call: what a lock, or a call made in tcpip_thread, would give.          *)
Locked == [][npc' = npc /\ npc \in RawCall => UNCHANGED <<tcp_client_pcb, conn>>]_vars

HoldsClient ==
    /\ npc \in RawCall => tcp_client_pcb # NULL /\ tpcb = tcp_client_pcb
    /\ npc # "fault"

LEMMA HeldNotBogus ==
    ASSUME TypeOK, ClientInv, HoldsClient, npc \in RawCall
    PROVE  \A p \in Loaded : p = tcp_client_pcb /\ ~Bogus(p)
<1>1. tcp_client_pcb \in Pcb /\ Open(conn[tcp_client_pcb])
  BY DEF TypeOK, ClientInv, HoldsClient, RawCall, Healthy
<1>2. ~Bogus(tcp_client_pcb)
  BY <1>1 DEF Bogus, Open
<1> QED
  BY <1>2 DEF HoldsClient, Loaded

LEMMA StepHolds ==
    ASSUME TypeOK, ClientInv, HoldsClient, [Next]_vars,
           npc \in RawCall /\ npc' = npc => UNCHANGED <<tcp_client_pcb, conn>>
    PROVE  HoldsClient'
<1>1. CASE DhcpEvent \/ TcpEvent \/ Plug \/ Unplug \/ UNCHANGED vars
  BY <1>1, EventsKeepTask DEF HoldsClient
<1>0. npc \in RawCall => \A p \in Loaded : p = tcp_client_pcb /\ ~Bogus(p)
  BY HeldNotBogus
<1> USE DEF HoldsClient, RawCall, Goto, Return, InState
<1>2. CASE EthernetDevice_CheckLinkStatus
  BY <1>2 DEF EthernetDevice_CheckLinkStatus, CallCleanup
<1>3. CASE CleanupResources
  <2>1. CASE CleanupLoadClient
    BY <2>1 DEF CleanupLoadClient, client
  <2>2. CASE CleanupAbort
    BY <1>0, <2>2 DEF CleanupAbort
  <2>3. CASE \/ CleanupDhcp \/ CleanupNullAborted \/ CleanupServer \/ CleanupNetif
             \/ CleanupRing \/ CleanupConnected \/ CleanupClosed \/ CleanupDone
    BY <2>3 DEF CleanupDhcp, CleanupNullAborted, CleanupServer, CleanupNetif, CleanupRing,
                CleanupConnected, CleanupClosed, CleanupDone
  <2> QED
    BY <1>3, <2>1, <2>2, <2>3 DEF CleanupResources
<1>4. CASE BringUp
  BY <1>4 DEF BringUp, BspInit, CheckLinkState, NetifAdd, NetifSetUp, StartDhcp,
              DhcpCase, CallCleanup
<1>5. CASE Serve
  <2>1. CASE LoadEcho
    BY <2>1 DEF LoadEcho, client
  <2>2. CASE EchoWrite
    <3>1. npc = "tcp_write" /\ \A p \in Loaded : p = tcp_client_pcb /\ ~Bogus(p)
      BY <1>0, <2>2 DEF EchoWrite
    <3>2. CASE npc' = "tcp_output"
      BY <2>2, <3>1, <3>2 DEF EchoWrite, Fault, client
    <3>3. CASE npc' # "tcp_output"
      BY <2>2, <3>1, <3>3 DEF EchoWrite
    <3> QED
      BY <3>2, <3>3
  <2>3. CASE EchoOutput
    BY <1>0, <2>3 DEF EchoOutput, Loaded
  <2>4. CASE CloseTcp
    BY <2>4 DEF CloseTcp, client
  <2>5. CASE CloseClient
    <3>1. npc = "tcp_close" /\ \A p \in Loaded : p = tcp_client_pcb /\ ~Bogus(p)
      BY <1>0, <2>5 DEF CloseClient
    <3> QED
      BY <2>5, <3>1 DEF CloseClient
  <2>6. CASE TcpBind \/ RetryDelay \/ TcpListen \/ TcpAccept \/ WaitTcp \/ EnterConnect
    BY <2>6 DEF TcpBind, RetryDelay, TcpListen, TcpAccept, WaitTcp, EnterConnect
  <2>7. CASE Connect \/ ReadRing \/ NullClosed \/ LeaveConnected \/ LeaveClosed
    BY <2>7 DEF Connect, ReadRing, NullClosed, LeaveConnected, LeaveClosed
  <2> QED
    BY <1>5, <2>1, <2>2, <2>3, <2>4, <2>5, <2>6, <2>7 DEF Serve
<1> QED
  BY <1>1, <1>2, <1>3, <1>4, <1>5 DEF Next, NetworkTask, Halted

(* The events of tcpip_thread between a test or load of the client pointer *)
(* and the raw call are the only thing that makes network_task use a null  *)
(* or freed pcb: without them it never does, however connections end at    *)
(* other times (EthernetDevice.c:100-106, 603-616, 642-650).               *)
THEOREM LockedNeverBogus == Spec /\ Locked => []NeverBogus
<1> DEFINE Still == npc' = npc /\ npc \in RawCall => UNCHANGED <<tcp_client_pcb, conn>>
<1>1. Init => HoldsClient
  BY DEF Init, HoldsClient, RawCall
<1>2. TypeOK /\ ClientInv /\ HoldsClient /\ [Next]_vars /\ [Still]_vars => HoldsClient'
  <2> SUFFICES ASSUME TypeOK, ClientInv, HoldsClient, [Next]_vars, [Still]_vars
               PROVE  HoldsClient'
    OBVIOUS
  <2>1. UNCHANGED vars => UNCHANGED <<tcp_client_pcb, conn>>
    BY DEF vars, client
  <2>2. Still
    BY <2>1
  <2> QED
    BY <2>2, StepHolds
<1>3. TypeOK /\ ClientInv /\ [Next]_vars => ClientInv'
  BY StepClient
<1>4. HoldsClient => NeverBogus
  BY DEF HoldsClient, NeverBogus
<1> QED
  BY TypeCorrect, InitClient, <1>1, <1>2, <1>3, <1>4, PTL DEF Spec, Locked

-----------------------------------------------------------------------------
(* What would keep netif_list in order                                     *)

(* Only the cleanup takes the interface down: no NAK, no conflict and no   *)
(* silence of the DHCP server does.                                        *)
StaysUp == [][netif.up /\ ~netif'.up => npc = "netif_remove"]_vars

Unlisted == {"netif_add", "lwrb_reset", "clear_connected", "clear_closed", "vTaskDelay"}

ListInv ==
    /\ netif.listed => netif.up \/ npc = "netif_set_up"
    /\ npc \in Unlisted => ~netif.listed
    /\ npc \in {"loop", "switch"} /\ state \in {"INIT", "CHECK_LINK"} => ~netif.listed
    /\ npc # "hung"

LEMMA StepList ==
    ASSUME TypeOK, AtState, StackInv, ListInv, [Next]_vars,
           netif.up /\ ~netif'.up => npc = "netif_remove"
    PROVE  ListInv'
<1>0. netif \in Netif
  BY DEF TypeOK
<1>1. CASE DhcpEvent
  <2>1. npc # "netif_remove" /\ netif'.listed = netif.listed
    BY <1>1, DhcpEventNeedsClient DEF StackInv, Cleanup
  <2> QED
    BY <1>1, <2>1, EventsKeepTask DEF ListInv
<1>2. CASE TcpEvent \/ Plug \/ Unplug \/ UNCHANGED vars
  <2>1. UNCHANGED netif
    BY <1>2 DEF TcpEvent, Syn, HandshakeAck, Data, PeerFin, PeerReset, FinAcked,
                SlowTimer, TimeWaitOver, OnlyTcp, Plug, Unplug, vars, stack
  <2> QED
    BY <1>2, <2>1, EventsKeepTask DEF ListInv
<1> USE DEF ListInv, AtState, Unlisted, Cleanup, stack, Goto, Return, InState, device
<1>3. CASE EthernetDevice_CheckLinkStatus
  BY <1>3 DEF EthernetDevice_CheckLinkStatus, CallCleanup
<1>4. CASE CleanupResources
  <2>1. CASE CleanupNetif
    <3>1. netif_remove(netif).listed = FALSE
      BY <1>0 DEF netif_remove, Netif
    <3>2. netif'.listed = FALSE
      BY <2>1, <3>1 DEF CleanupNetif
    <3> QED
      BY <2>1, <3>2 DEF CleanupNetif
  <2>2. CASE CleanupDhcp \/ CleanupLoadClient \/ CleanupNullAborted \/ CleanupServer
    BY <2>2 DEF CleanupDhcp, CleanupLoadClient, CleanupNullAborted, CleanupServer
  <2>3. CASE CleanupAbort
    BY <2>3 DEF CleanupAbort, Fault
  <2>4. CASE CleanupRing \/ CleanupConnected \/ CleanupClosed
    BY <2>4 DEF CleanupRing, CleanupConnected, CleanupClosed
  <2>5. CASE CleanupDone
    BY <2>5 DEF CleanupDone
  <2> QED
    BY <1>4, <2>1, <2>2, <2>3, <2>4, <2>5 DEF CleanupResources
<1>5. CASE BringUp
  <2>1. ASSUME NEW ok \in BOOLEAN, BspInit(ok) PROVE ListInv'
    BY <2>1 DEF BspInit
  <2>2. CASE CheckLinkState
    BY <2>2 DEF CheckLinkState
  <2>3. CASE NetifAdd
    BY <2>3 DEF NetifAdd
  <2>4. CASE NetifSetUp
    <3>1. netif_set_up(netif).up
      BY <1>0 DEF netif_set_up, Netif
    <3> QED
      BY <2>4, <3>1 DEF NetifSetUp
  <2>5. CASE StartDhcp
    BY <2>5 DEF StartDhcp
  <2>6. CASE DhcpCase
    BY <2>6 DEF DhcpCase, CallCleanup
  <2> QED
    BY <1>5, <2>1, <2>2, <2>3, <2>4, <2>5, <2>6 DEF BringUp
<1>6. CASE Serve
  <2>1. CASE TcpBind \/ RetryDelay \/ TcpListen \/ TcpAccept \/ WaitTcp \/ EnterConnect
    BY <2>1 DEF TcpBind, RetryDelay, TcpListen, TcpAccept, WaitTcp, EnterConnect
  <2>2. CASE Connect \/ ReadRing \/ LoadEcho \/ EchoWrite \/ EchoOutput
    BY <2>2 DEF Connect, ReadRing, LoadEcho, EchoWrite, EchoOutput, Fault
  <2>3. CASE CloseTcp \/ CloseClient \/ NullClosed \/ LeaveConnected \/ LeaveClosed
    BY <2>3 DEF CloseTcp, CloseClient, NullClosed, LeaveConnected, LeaveClosed, Fault
  <2> QED
    BY <1>6, <2>1, <2>2, <2>3 DEF Serve
<1> QED
  BY <1>1, <1>2, <1>3, <1>4, <1>5, <1>6 DEF Next, NetworkTask, Halted

(* A DHCP client that takes the interface down is the only thing that      *)
(* leaves it in netif_list through a cleanup, so that the next netif_add   *)
(* makes the list a cycle (EthernetDevice.c:117, netif.c:108).             *)
THEOREM UpNeverHung == Spec /\ StaysUp => [](npc # "hung")
<1> DEFINE Kept == netif.up /\ ~netif'.up => npc = "netif_remove"
<1>1. Init => ListInv
  BY DEF Init, ListInv, NoNetif, Unlisted
<1>2. TypeOK /\ ServerInv /\ StackInv /\ ListInv /\ [Next]_vars /\ [Kept]_vars => ListInv'
  <2> SUFFICES ASSUME TypeOK, ServerInv, StackInv, ListInv, [Next]_vars, [Kept]_vars
               PROVE  ListInv'
    OBVIOUS
  <2>1. UNCHANGED vars => UNCHANGED netif
    BY DEF vars, stack
  <2>2. Kept
    BY <2>1
  <2> QED
    BY <2>2, StepList DEF ServerInv
<1>3. ListInv => npc # "hung"
  BY DEF ListInv
<1> QED
  BY SpecStack, <1>1, <1>2, <1>3, PTL DEF Spec, StaysUp
=============================================================================
