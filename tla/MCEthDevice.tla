----------------------------- MODULE MCEthDevice -----------------------------
(* Instances of EthDevice for TLC. *)
EXTENDS EthDevice
=============================================================================
