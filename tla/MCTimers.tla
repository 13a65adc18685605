------------------------------ MODULE MCTimers ------------------------------
(* Timers for TLC: a slow and a fast cyclic timer, and that of TCP. *)
EXTENDS Timers
Slow == "arp_timer"
Fast == "dhcp_timer_fine"
TcpTimer == "tcpip_tcp_timer"
Handlers == {Slow, Fast}
Intervals == [h \in {Slow, Fast, TcpTimer} |-> CASE h = Slow -> 4 [] h = Fast -> 2 [] OTHER -> 2]
=============================================================================
