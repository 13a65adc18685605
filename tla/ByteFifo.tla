------------------------------ MODULE ByteFifo ------------------------------
(***************************************************************************)
(* What a ring buffer of ETH/lwrb.c promises its two users: a bounded      *)
(* first-in first-out queue of bytes.  One thread puts bytes at the tail,  *)
(* the other one takes, drops or looks at bytes at the head, or clears the *)
(* queue; each operation takes effect at one instant.  `data' is what the  *)
(* writing side has offered and not yet put, `out' what the reading side   *)
(* got from its last operation.                                            *)
(***************************************************************************)
EXTENDS Naturals, Sequences

CONSTANTS Capacity,   \* bytes the queue can hold
          Byte,       \* byte values
          MaxLen      \* longest run of bytes one operation moves

VARIABLES queue, data, out

vars == <<queue, data, out>>

Run == UNION {[1..n -> Byte] : n \in 1..MaxLen}

Init == queue = <<>> /\ data = <<>> /\ out = <<>>

Offer == /\ data = <<>> /\ data' \in Run
         /\ UNCHANGED <<queue, out>>

(* As much as fits, from the front; the rest is not taken.                 *)
Put == /\ \E n \in 1..Len(data) : /\ Len(queue) + n <= Capacity
                                  /\ queue' = queue \o SubSeq(data, 1, n)
       /\ data' = <<>> /\ out' = out

(* The queue was full.                                                     *)
Refuse == data # <<>> /\ data' = <<>> /\ UNCHANGED <<queue, out>>

Take == /\ \E n \in 1..Len(queue) : /\ out' = SubSeq(queue, 1, n)
                                    /\ queue' = SubSeq(queue, n + 1, Len(queue))
        /\ data' = data

Drop == /\ \E n \in 1..Len(queue) : queue' = SubSeq(queue, n + 1, Len(queue))
        /\ UNCHANGED <<data, out>>

(* A read finds the queue empty, or a peek skips all that is there.        *)
GetNothing == out' = <<>> /\ UNCHANGED <<queue, data>>

Look == /\ \E i, j \in 1..Len(queue) : i <= j /\ out' = SubSeq(queue, i, j)
        /\ UNCHANGED <<queue, data>>

Clear == queue' = <<>> /\ UNCHANGED <<data, out>>

Next == Offer \/ Put \/ Refuse \/ Take \/ Drop \/ GetNothing \/ Look \/ Clear

Spec == Init /\ [][Next]_vars
=============================================================================
