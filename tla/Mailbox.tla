------------------------------ MODULE Mailbox ------------------------------
(* What a mailbox promises: messages come out in the order they went in.   *)
EXTENDS Integers, Sequences

CONSTANTS Capacity,     \* messages it holds
          Message

VARIABLE box            \* the messages in it, the oldest first

Init == box = <<>>

Put == /\ Len(box) < Capacity
       /\ \E m \in Message : box' = Append(box, m)

Take == /\ box # <<>>
        /\ box' = Tail(box)

Next == Put \/ Take

Spec == Init /\ [][Next]_box
=============================================================================
