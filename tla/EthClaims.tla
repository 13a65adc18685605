------------------------------ MODULE EthClaims ------------------------------
(***************************************************************************)
(* What the documents of the repository say about the use of the raw API   *)
(* by the Ethernet task and the code does not do: the run shows how it     *)
(* fails.                                                                  *)
(***************************************************************************)
EXTENDS EthDevice

(* No raw call gets a null pointer or a pcb that has been freed.  tcp.c    *)
(* says of tcp_close that a second close "should never happen", and        *)
(* rawapi.txt that only tcpip_thread may use the raw API.                  *)
NeverBogus == npc # "fault"
==============================================================================
