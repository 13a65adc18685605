------------------------------ MODULE MCUartRx ------------------------------
(* UartRx for TLC. *)
EXTENDS UartRx
=============================================================================
