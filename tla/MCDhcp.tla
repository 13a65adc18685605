------------------------------- MODULE MCDhcp -------------------------------
(* Dhcp for TLC: two addresses, one of them in use by another host. *)
EXTENDS Dhcp
CONSTANTS a1, a2
Addresses == {a1, a2}
Squatted == {a1}
=============================================================================
