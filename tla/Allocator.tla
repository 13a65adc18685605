------------------------------ MODULE Allocator ------------------------------
(***************************************************************************)
(* What a memory manager promises its clients: regions of a pool that      *)
(* share no cell, given out whenever one of the size asked for is free.    *)
(***************************************************************************)
EXTENDS Integers

CONSTANTS Cells,        \* the cells of the pool are 0 .. Cells - 1
          MaxCells,     \* the largest request
          Client        \* whoever may hold a region

VARIABLES region,       \* for each client the set of cells it holds
          refused       \* the size of the last request if it was refused, or 0

avars == <<region, refused>>

Pool == 0..(Cells - 1)
Interval(b, n) == b..(b + n - 1)
Taken == UNION {region[c] : c \in Client}
FreeRegions(n) ==
    {Interval(b, n) : b \in {x \in Pool : Interval(x, n) \subseteq Pool \ Taken}}

Init == region = [c \in Client |-> {}] /\ refused = 0

(* A client gets a region of n cells, found while its old one, if it has   *)
(* one, is still held.                                                     *)
Allocate(c, n) ==
    /\ \E r \in FreeRegions(n) : region' = [region EXCEPT ![c] = r]
    /\ refused' = 0

(* A request may be refused only when no region is large enough. *)
Refuse(n) == FreeRegions(n) = {} /\ refused' = n /\ UNCHANGED region

(* A request of nothing gets nothing. *)
Nothing == refused' = 0 /\ UNCHANGED region

Release(c) == region' = [region EXCEPT ![c] = {}] /\ refused' = 0

Next ==
    \/ Nothing
    \/ \E c \in Client : Release(c)
    \/ \E n \in 1..MaxCells :
         Refuse(n) \/ \E c \in Client : Allocate(c, n)

Spec == Init /\ [][Next]_avars
=============================================================================
