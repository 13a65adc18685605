--------------------------- MODULE MCKernelQueue ---------------------------
(* KernelQueue for TLC: tasks of three priorities. *)
EXTENDS KernelQueue
Priorities == [t \in Task |-> CASE t = "tcpip_thread" -> 30 [] t = "network_task" -> 6 [] OTHER -> 5]
=============================================================================
