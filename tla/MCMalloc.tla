------------------------------ MODULE MCMalloc ------------------------------
(* Malloc for TLC. *)
EXTENDS Malloc
=============================================================================
