------------------------------- MODULE MCEthRx -------------------------------
(* EthRx for TLC: frames of one, one, two and three pbufs in turn. *)
EXTENDS EthRx, TLC
FramePieces == [f \in 1..MaxFrames |-> <<1, 1, 2, 3>>[1 + ((f - 1) % 4)]]
=============================================================================
