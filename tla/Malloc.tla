------------------------------- MODULE Malloc -------------------------------
(***************************************************************************)
(* One bank of the memory manager of MALLOC/malloc.c: a table with an      *)
(* entry per block, searched from its top, that holds in each block of an  *)
(* allocation the number of blocks of that allocation.                     *)
(*                                                                         *)
(* A client holds at most one allocation, fills it with its own mark and   *)
(* frees only what it holds, once.  Every caller runs in network_task, so  *)
(* a call is one step.                                                     *)
(***************************************************************************)
EXTENDS Integers, FiniteSets

CONSTANTS Blocks,       \* memtblsize: entries of the table
          BlockSize,    \* memblksize: bytes of a block
          Client,       \* the pointers an allocation can be kept in
          NULL,         \* the null pointer
          Unknown,      \* what a byte holds that no client has written
          MaxRequest    \* bound: the longest request, in bytes

ASSUME MallocAssumption == /\ Blocks \in Nat \ {0}
                           /\ BlockSize \in Nat \ {0}
                           /\ MaxRequest \in Nat
                           /\ NULL \notin Nat
                           /\ Unknown \notin Client

VARIABLES memrdy, memmap,   \* mallco_dev.memrdy and memmap of the bank
          membase,          \* the bytes of the pool
          ptr,              \* the offset each client holds, or NULL
          asked,            \* the size it asked for
          filled,           \* how many of its bytes it has written
          refused           \* blocks of the last request if it got NULL, else 0

vars == <<memrdy, memmap, membase, ptr, asked, filled, refused>>

Block == 0..(Blocks - 1)
MemSize == Blocks * BlockSize
Byte == 0..(MemSize - 1)

(* Size in blocks, rounded up.  Mutant: rounded down. *)
NmembDown(size) == IF size < BlockSize THEN 1 ELSE size \div BlockSize
Nmemb(size) == size \div BlockSize + (IF size % BlockSize > 0 THEN 1 ELSE 0)

Run(b, n) == b..(b + n - 1)

(* Mutant: the search stops before the first entry.                        *)
FitsAbove(map, n) == {b \in Block \ {0} : \A i \in Run(b, n) : i \in Block /\ map[i] = 0}

(* Where n free blocks begin in a table. *)
Fits(map, n) == {b \in Block : \A i \in Run(b, n) : i \in Block /\ map[i] = 0}

(* The search goes down from the top of the table. *)
Highest(S, b) == b \in S /\ \A c \in S : c <= b

(* Mutant: each block gets the number of bytes. *)
MarkedBytes(map, b, n) == [i \in Block |-> IF i \in Run(b, n) THEN n * BlockSize ELSE map[i]]
Marked(map, b, n) == [i \in Block |-> IF i \in Run(b, n) THEN n ELSE map[i]]

(* Freeing trusts the count in the block the offset falls into.  Mutant:   *)
(* only that block is given back.                                          *)
UnmarkedFirst(map, offset) == [map EXCEPT ![offset \div BlockSize] = 0]
Unmarked(map, offset) ==
    LET index == offset \div BlockSize IN
    [i \in Block |-> IF i \in Run(index, map[index]) THEN 0 ELSE map[i]]

(* The table a call works on: the first call of all initialises the bank. *)
ReadyMap == IF memrdy THEN memmap ELSE [i \in Block |-> 0]
ReadyBase == IF memrdy THEN membase ELSE [i \in Byte |-> Unknown]

-----------------------------------------------------------------------------

my_mem_init ==
    /\ ~memrdy
    /\ memrdy' = TRUE
    /\ memmap' = [i \in Block |-> 0]
    /\ membase' = [i \in Byte |-> Unknown]
    /\ refused' = 0
    /\ UNCHANGED <<ptr, asked, filled>>

mymalloc(c, size) ==
    /\ ptr[c] = NULL
    /\ \E b \in Block :
         /\ size > 0 /\ Highest(Fits(ReadyMap, Nmemb(size)), b)
         /\ memmap' = Marked(ReadyMap, b, Nmemb(size))
         /\ ptr' = [ptr EXCEPT ![c] = b * BlockSize]
         /\ asked' = [asked EXCEPT ![c] = size]
    /\ memrdy' = TRUE
    /\ membase' = ReadyBase /\ refused' = 0
    /\ UNCHANGED filled

(* mymalloc or myrealloc returns NULL; an old allocation stays as it is.   *)
OutOfMemory(size) ==
    /\ size = 0 \/ Fits(ReadyMap, Nmemb(size)) = {}
    /\ memrdy' = TRUE /\ memmap' = ReadyMap /\ membase' = ReadyBase
    /\ refused' = Nmemb(size)
    /\ UNCHANGED <<ptr, asked, filled>>

(* The client writes all that it asked for. *)
Fill(c) ==
    /\ ptr[c] # NULL /\ filled[c] < asked[c]
    /\ membase' = [i \in Byte |-> IF i \in Run(ptr[c], asked[c]) THEN c ELSE membase[i]]
    /\ filled' = [filled EXCEPT ![c] = asked[c]]
    /\ UNCHANGED <<memrdy, memmap, ptr, asked, refused>>

(* Nobody may rely on the bytes of an allocation that is gone. *)
Forgotten(base, c) ==
    [i \in Byte |-> IF i \in Run(ptr[c], asked[c]) THEN Unknown ELSE base[i]]

(* myfree of a null pointer does nothing, and a bank in use is initialised. *)
myfree(c) ==
    /\ ptr[c] # NULL
    /\ memmap' = Unmarked(memmap, ptr[c])
    /\ ptr' = [ptr EXCEPT ![c] = NULL]
    /\ asked' = [asked EXCEPT ![c] = 0]
    /\ filled' = [filled EXCEPT ![c] = 0]
    /\ membase' = Forgotten(membase, c)
    /\ refused' = 0
    /\ UNCHANGED memrdy

(* Copying `size' bytes from the old place may run past it, and past the   *)
(* pool; what the client had written is among them as far as it fits.      *)
CopiedFrom(c, at, size) ==
    [i \in Byte |-> IF i \notin Run(at, size) THEN membase[i]
                    ELSE IF i - at < filled[c] THEN membase[ptr[c] + (i - at)]
                    ELSE Unknown]

(* A null pointer makes it a mymalloc that copies from address 0. *)
myrealloc(c, size) ==
    /\ ptr[c] # NULL
    /\ \E b \in Block :
         /\ size > 0 /\ Highest(Fits(memmap, Nmemb(size)), b)
         /\ membase' = Forgotten(CopiedFrom(c, b * BlockSize, size), c)
         /\ memmap' = Unmarked(Marked(memmap, b, Nmemb(size)), ptr[c])
         /\ ptr' = [ptr EXCEPT ![c] = b * BlockSize]
    /\ asked' = [asked EXCEPT ![c] = size]
    /\ filled' = [filled EXCEPT ![c] = IF filled[c] <= size THEN @ ELSE size]
    /\ refused' = 0
    /\ UNCHANGED memrdy

-----------------------------------------------------------------------------

(* The table of the internal bank starts as zeros, that of the external    *)
(* one as whatever the memory holds.                                       *)
Init ==
    /\ memrdy = FALSE
    /\ memmap \in [Block -> {0, 1}]
    /\ membase = [i \in Byte |-> Unknown]
    /\ ptr = [c \in Client |-> NULL]
    /\ asked = [c \in Client |-> 0]
    /\ filled = [c \in Client |-> 0]
    /\ refused = 0

Next ==
    \/ my_mem_init
    \/ \E size \in 0..MaxRequest : OutOfMemory(size)
    \/ \E c \in Client :
         \/ Fill(c) \/ myfree(c)
         \/ \E size \in 0..MaxRequest : mymalloc(c, size) \/ myrealloc(c, size)

Spec == Init /\ [][Next]_vars

-----------------------------------------------------------------------------

Held(c) == IF ptr[c] = NULL THEN {} ELSE Run(ptr[c] \div BlockSize, Nmemb(asked[c]))

TypeOK ==
    /\ memrdy \in BOOLEAN
    /\ memmap \in [Block -> 0..Blocks]
    /\ membase \in [Byte -> Client \cup {Unknown}]
    /\ ptr \in [Client -> {b * BlockSize : b \in Block} \cup {NULL}]
    /\ asked \in [Client -> 0..MaxRequest]
    /\ filled \in [Client -> 0..MaxRequest]
    /\ refused \in Nat

(* The table and the allocations agree: each block of an allocation holds  *)
(* its number of blocks, and every other block of the table is free.       *)
(* Otherwise a later free gives back too much or too little.               *)
TableExact ==
    /\ \A c \in Client : ptr[c] # NULL =>
         memrdy /\ asked[c] > 0 /\ \A b \in Held(c) : b \in Block /\ memmap[b] = Nmemb(asked[c])
    /\ memrdy => \A b \in Block : memmap[b] # 0 => \E c \in Client : b \in Held(c)

(* Two allocations share no block. *)
Disjoint == \A c, d \in Client : c # d => Held(c) \cap Held(d) = {}

(* What a client has written into its allocation is still there, whatever  *)
(* the others allocate, fill, move and free, and after its own moves.      *)
DataKept == \A c \in Client :
    ptr[c] # NULL => \A i \in Run(ptr[c], filled[c]) : i \in Byte /\ membase[i] = c

(* The manager gives out disjoint regions of blocks, takes each back as a  *)
(* whole, and refuses a request of some bytes only when no run of free     *)
(* blocks is long enough.                                                  *)
Blockwise == INSTANCE Allocator WITH Cells <- Blocks, MaxCells <- Nmemb(MaxRequest),
                                     region <- [c \in Client |-> Held(c)]
Allocates == Blockwise!Spec
=============================================================================
