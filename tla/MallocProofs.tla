---------------------------- MODULE MallocProofs ----------------------------
(***************************************************************************)
(* For every pool, block size and set of clients: the table agrees with    *)
(* the allocations, these share no block, their bytes are kept, and the    *)
(* bank implements Allocator.                                              *)
(***************************************************************************)
EXTENDS Malloc, TLAPS

-----------------------------------------------------------------------------
(* Blocks and bytes.                                                       *)

LEMMA Division ==
    ASSUME NEW n \in Nat, NEW m \in Nat \ {0}
    PROVE  /\ n \div m \in Nat /\ (n % m) \in 0..(m - 1)
           /\ n = (m * (n \div m)) + (n % m)
<1>1. n \div m \in Int /\ (n % m) \in 0..(m - 1) /\ n = (m * (n \div m)) + (n % m)
  OBVIOUS
<1>2. n \div m >= 0
  OBVIOUS
<1> QED
  BY <1>1, <1>2

LEMMA BlockOfOffset ==
    ASSUME NEW b \in Nat
    PROVE  (b * BlockSize) \div BlockSize = b /\ b * BlockSize \in Nat
  BY MallocAssumption

LEMMA TimesMonotone ==
    ASSUME NEW a \in Nat, NEW b \in Nat, NEW s \in Nat, a <= b
    PROVE  a * s <= b * s /\ a * s \in Nat
  OBVIOUS

LEMMA TimesSum ==
    ASSUME NEW a \in Nat, NEW b \in Nat, NEW s \in Nat
    PROVE  (a + b) * s = (a * s) + (b * s)
  OBVIOUS

(* The blocks of a request hold its bytes, and a request of some bytes     *)
(* needs a block.                                                          *)
LEMMA NmembFacts ==
    ASSUME NEW size \in Nat
    PROVE  /\ Nmemb(size) \in Nat
           /\ size <= Nmemb(size) * BlockSize
           /\ (size > 0 <=> Nmemb(size) > 0)
<1> DEFINE q == size \div BlockSize
<1> DEFINE r == size % BlockSize
<1>1. q \in Nat /\ r \in 0..(BlockSize - 1) /\ size = (BlockSize * q) + r
  BY MallocAssumption, Division
<1>2. Nmemb(size) = q + (IF r > 0 THEN 1 ELSE 0)
  BY DEF Nmemb
<1> HIDE DEF q, r
<1>3. BlockSize \in Nat /\ BlockSize > 0
  BY MallocAssumption
<1>4. CASE r > 0
  <2>1. Nmemb(size) = q + 1 /\ (q + 1) * BlockSize = (BlockSize * q) + BlockSize
    BY <1>1, <1>2, <1>3, <1>4
  <2>2. BlockSize * q \in Nat
    BY <1>1, <1>3
  <2> QED
    BY <1>1, <1>3, <1>4, <2>1, <2>2
<1>5. CASE r = 0
  <2>1. Nmemb(size) = q /\ q * BlockSize = BlockSize * q /\ size = BlockSize * q
    BY <1>1, <1>2, <1>3, <1>5
  <2>2. q > 0 <=> BlockSize * q > 0
    BY <1>1, <1>3
  <2> QED
    BY <1>1, <2>1, <2>2
<1> QED
  BY <1>1, <1>4, <1>5

(* A longer request needs no fewer blocks.                                 *)
LEMMA NmembMonotone ==
    ASSUME NEW m \in Nat, NEW n \in Nat, m <= n
    PROVE  Nmemb(m) <= Nmemb(n)
<1> DEFINE p == m \div BlockSize
<1> DEFINE s == m % BlockSize
<1> DEFINE q == n \div BlockSize
<1> DEFINE r == n % BlockSize
<1>1. /\ p \in Nat /\ s \in 0..(BlockSize - 1) /\ m = (BlockSize * p) + s
      /\ q \in Nat /\ r \in 0..(BlockSize - 1) /\ n = (BlockSize * q) + r
  BY MallocAssumption, Division
<1>2. /\ Nmemb(m) = p + (IF s > 0 THEN 1 ELSE 0)
      /\ Nmemb(n) = q + (IF r > 0 THEN 1 ELSE 0)
  BY DEF Nmemb
<1> HIDE DEF p, q, r, s
<1>3. BlockSize \in Nat /\ BlockSize > 0
  BY MallocAssumption
<1>4. CASE p > q
  <2>1. BlockSize * p >= BlockSize * (q + 1)
    BY <1>1, <1>3, <1>4
  <2>2. BlockSize * (q + 1) = (BlockSize * q) + BlockSize
    BY <1>1, <1>3
  <2>3. BlockSize * p \in Nat /\ BlockSize * q \in Nat
    BY <1>1, <1>3
  <2> HIDE DEF Nmemb
  <2> QED
    BY <1>1, <1>3, <2>1, <2>2, <2>3
<1>5. CASE p = q
  <2>1. s <= r
    <3>1. BlockSize * p \in Nat
      BY <1>1, <1>3
    <3> QED
      BY <1>1, <1>5, <3>1
  <2> QED
    BY <1>1, <1>2, <1>3, <1>5, <2>1
<1>6. CASE p < q
  BY <1>1, <1>2, <1>6
<1> QED
  BY <1>1, <1>4, <1>5, <1>6

-----------------------------------------------------------------------------
(* A client that holds nothing has asked for nothing, and none has written *)
(* more than it asked for.                                                 *)
Sizes ==
    \A c \in Client : /\ filled[c] <= asked[c]
                      /\ ptr[c] = NULL => asked[c] = 0 /\ filled[c] = 0

IInv == TypeOK /\ TableExact /\ Disjoint /\ Sizes

(* An allocation is a run of blocks inside the table.                      *)
LEMMA HeldFacts ==
    ASSUME IInv, NEW c \in Client, ptr[c] # NULL
    PROVE  \E b \in Block, n \in Nat :
             /\ n = Nmemb(asked[c]) /\ n > 0 /\ b + n <= Blocks
             /\ ptr[c] = b * BlockSize /\ ptr[c] \div BlockSize = b
             /\ Held(c) = Run(b, n) /\ memmap[b] = n
<1> USE DEF IInv
<1>1. PICK b \in Block : ptr[c] = b * BlockSize
  BY DEF TypeOK
<1>2. ptr[c] \div BlockSize = b /\ b \in Nat /\ b < Blocks
  BY <1>1, BlockOfOffset, MallocAssumption DEF Block
<1>3. asked[c] \in Nat /\ asked[c] > 0
  BY DEF TypeOK, TableExact
<1> DEFINE n == Nmemb(asked[c])
<1>4. n \in Nat /\ n > 0
  BY <1>3, NmembFacts
<1>5. Held(c) = Run(b, n)
  BY <1>2 DEF Held
<1> HIDE DEF n
<1>6. b \in Held(c) /\ b + n - 1 \in Held(c)
  BY <1>2, <1>4, <1>5 DEF Run
<1>7. b + n - 1 \in Block /\ memmap[b] = n
  BY <1>6 DEF TableExact, n
<1> QED
  BY <1>1, <1>2, <1>4, <1>5, <1>7, MallocAssumption DEF Block, n

LEMMA HeldNothing ==
    ASSUME NEW c \in Client, ptr[c] = NULL
    PROVE  Held(c) = {}
  BY DEF Held

(* The blocks of an allocation are marked in the table a call works on, so *)
(* that no free run contains one of them.                                  *)
LEMMA FitsAreFree ==
    ASSUME IInv, NEW n \in Nat, n > 0, NEW b \in Fits(ReadyMap, n), NEW c \in Client
    PROVE  /\ b \in Block /\ b + n <= Blocks /\ Run(b, n) \subseteq Block
           /\ Run(b, n) \cap Held(c) = {}
<1>1. b \in Block /\ \A i \in Run(b, n) : i \in Block /\ ReadyMap[i] = 0
  BY DEF Fits
<1>2. b + n - 1 \in Run(b, n)
  BY <1>1, MallocAssumption DEF Run, Block
<1>3. b + n <= Blocks
  BY <1>1, <1>2, MallocAssumption DEF Block
<1>4. Run(b, n) \cap Held(c) = {}
  <2>1. CASE ptr[c] = NULL
    BY <2>1, HeldNothing
  <2>2. CASE ptr[c] # NULL
    <3>1. memrdy /\ asked[c] > 0 /\ asked[c] \in Nat
      BY <2>2 DEF IInv, TypeOK, TableExact
    <3>2. Nmemb(asked[c]) > 0 /\ Nmemb(asked[c]) \in Nat
      BY <3>1, NmembFacts
    <3>3. \A i \in Held(c) : ReadyMap[i] = Nmemb(asked[c])
      BY <2>2, <3>1 DEF IInv, TableExact, ReadyMap
    <3> QED
      BY <1>1, <3>2, <3>3
  <2> QED
    BY <2>1, <2>2
<1> QED
  BY <1>1, <1>3, <1>4

(* Of the bytes of two allocations none is the same.                       *)
LEMMA BytesApart ==
    ASSUME NEW a \in Nat, NEW m \in Nat, NEW b \in Nat, NEW n \in Nat, m > 0, n > 0,
           Run(a, m) \cap Run(b, n) = {},
           NEW s \in Nat, s <= m * BlockSize, NEW t \in Nat, t <= n * BlockSize
    PROVE  Run(a * BlockSize, s) \cap Run(b * BlockSize, t) = {}
<1>0. BlockSize \in Nat
  BY MallocAssumption
<1>1. a + m <= b \/ b + n <= a
  <2> SUFFICES ASSUME a + m > b, b + n > a PROVE FALSE
    OBVIOUS
  <2>1. CASE a <= b
    BY <2>1 DEF Run
  <2>2. CASE a > b
    BY <2>2 DEF Run
  <2> QED
    BY <2>1, <2>2
<1>2. CASE a + m <= b
  <2>1. (a * BlockSize) + (m * BlockSize) <= b * BlockSize
    BY <1>0, <1>2, TimesMonotone, TimesSum
  <2>2. a * BlockSize \in Nat /\ m * BlockSize \in Nat /\ b * BlockSize \in Nat
    BY <1>0
  <2> QED
    BY <2>1, <2>2 DEF Run
<1>3. CASE b + n <= a
  <2>1. (b * BlockSize) + (n * BlockSize) <= a * BlockSize
    BY <1>0, <1>3, TimesMonotone, TimesSum
  <2>2. a * BlockSize \in Nat /\ n * BlockSize \in Nat /\ b * BlockSize \in Nat
    BY <1>0
  <2> QED
    BY <2>1, <2>2 DEF Run
<1> QED
  BY <1>1, <1>2, <1>3

(* The bytes of an allocation are bytes of the pool, and its own.          *)
LEMMA OwnBytes ==
    ASSUME IInv, NEW c \in Client, ptr[c] # NULL
    PROVE  ptr[c] \in Nat /\ asked[c] \in Nat /\ ptr[c] + asked[c] <= MemSize
<1>1. PICK b \in Block, n \in Nat :
        n = Nmemb(asked[c]) /\ b + n <= Blocks /\ ptr[c] = b * BlockSize
  BY HeldFacts
<1>2. asked[c] \in Nat /\ b \in Nat
  BY MallocAssumption DEF IInv, TypeOK, Block
<1>3. asked[c] <= n * BlockSize
  BY <1>1, <1>2, NmembFacts
<1>4. (b * BlockSize) + (n * BlockSize) <= Blocks * BlockSize
  BY <1>1, <1>2, TimesMonotone, TimesSum, MallocAssumption
<1>5. b * BlockSize \in Nat /\ n * BlockSize \in Nat /\ Blocks * BlockSize \in Nat
  BY <1>2, MallocAssumption
<1> QED
  BY <1>1, <1>2, <1>3, <1>4, <1>5 DEF MemSize

LEMMA OthersBytes ==
    ASSUME IInv, NEW c \in Client, ptr[c] # NULL, NEW b \in Nat, NEW n \in Nat, n > 0,
           Run(b, n) \cap Held(c) = {}, NEW t \in Nat, t <= n * BlockSize
    PROVE  Run(ptr[c], asked[c]) \cap Run(b * BlockSize, t) = {}
<1>1. PICK a \in Block, m \in Nat :
        /\ m = Nmemb(asked[c]) /\ m > 0
        /\ ptr[c] = a * BlockSize /\ Held(c) = Run(a, m)
  BY HeldFacts
<1>2. asked[c] \in Nat /\ a \in Nat /\ asked[c] <= m * BlockSize
  BY <1>1, NmembFacts, MallocAssumption DEF IInv, TypeOK, Block
<1> QED
  BY <1>1, <1>2, BytesApart

-----------------------------------------------------------------------------
(* The table.                                                              *)

LEMMA InitIInv == Init => IInv
<1> SUFFICES ASSUME Init PROVE IInv
  OBVIOUS
<1>1. TypeOK
  <2>1. memmap \in [Block -> 0..Blocks]
    <3>1. {0, 1} \subseteq 0..Blocks
      BY MallocAssumption
    <3> QED
      BY <3>1 DEF Init
  <2>2. 0 \in 0..MaxRequest
    BY MallocAssumption
  <2> QED
    BY <2>1, <2>2 DEF Init, TypeOK
<1>2. TableExact /\ Disjoint /\ Sizes
  BY MallocAssumption DEF Init, TableExact, Disjoint, Sizes, Held
<1> QED
  BY <1>1, <1>2 DEF IInv

(* A call that leaves its client with the run R, or with nothing, and      *)
(* everybody else with what they had.                                      *)
LEMMA TableStep ==
    ASSUME IInv, NEW c \in Client, NEW n \in Nat, n > 0, NEW R \in SUBSET Block,
           Held(c)' = R,
           IF ptr'[c] = NULL THEN R = {} ELSE asked'[c] > 0 /\ Nmemb(asked'[c]) = n,
           memrdy',
           \A d \in Client \ {c} : /\ ptr'[d] = ptr[d] /\ asked'[d] = asked[d]
                                   /\ R \cap Held(d) = {},
           \A x \in Block : memmap'[x] = IF x \in R THEN n
                                         ELSE IF x \in Held(c) THEN 0 ELSE ReadyMap[x]
    PROVE  TableExact' /\ Disjoint'
<1>1. \A d \in Client \ {c} : Held(d)' = Held(d)
  BY DEF Held
<1>2. Disjoint'
  BY <1>1 DEF IInv, Disjoint
<1>3. ASSUME NEW d \in Client, ptr'[d] # NULL
      PROVE  asked'[d] > 0 /\ \A b \in Held(d)' : b \in Block /\ memmap'[b] = Nmemb(asked'[d])
  <2>1. CASE d = c
    BY <1>3, <2>1
  <2>2. CASE d # c
    <3>1. /\ ptr[d] # NULL /\ Held(d)' = Held(d) /\ asked'[d] = asked[d]
          /\ R \cap Held(d) = {} /\ Held(d) \cap Held(c) = {}
      BY <1>1, <1>3, <2>2 DEF IInv, Disjoint
    <3>2. /\ memrdy /\ asked[d] > 0
          /\ \A b \in Held(d) : b \in Block /\ memmap[b] = Nmemb(asked[d])
      BY <3>1 DEF IInv, TableExact
    <3>3. \A b \in Held(d) : ReadyMap[b] = memmap[b] /\ b \notin R /\ b \notin Held(c)
      BY <3>1, <3>2 DEF ReadyMap
    <3> QED
      BY <3>1, <3>2, <3>3
  <2> QED
    BY <2>1, <2>2
<1>4. ASSUME NEW b \in Block, memmap'[b] # 0
      PROVE  \E d \in Client : b \in Held(d)'
  <2>1. CASE b \in R
    BY <2>1
  <2>2. CASE b \notin R
    <3>1. b \notin Held(c) /\ ReadyMap[b] # 0
      BY <1>4, <2>2
    <3>2. memrdy /\ memmap[b] # 0
      BY <3>1 DEF ReadyMap
    <3>3. \E d \in Client : b \in Held(d)
      BY <3>2 DEF IInv, TableExact
    <3> QED
      BY <1>1, <3>1, <3>3
  <2> QED
    BY <2>1, <2>2
<1> QED
  BY <1>2, <1>3, <1>4 DEF TableExact

(* What a successful request of some bytes finds and leaves, whoever asks. *)
LEMMA Requested ==
    ASSUME IInv, NEW c \in Client, NEW size \in 0..MaxRequest, size > 0,
           NEW b \in Fits(ReadyMap, Nmemb(size)),
           ptr' = [ptr EXCEPT ![c] = b * BlockSize],
           asked' = [asked EXCEPT ![c] = size]
    PROVE  /\ Nmemb(size) \in Nat /\ Nmemb(size) > 0
           /\ b \in Block /\ b + Nmemb(size) <= Blocks
           /\ Held(c)' = Run(b, Nmemb(size)) /\ Run(b, Nmemb(size)) \subseteq Block
           /\ ptr'[c] = b * BlockSize /\ ptr'[c] # NULL
           /\ ptr' \in [Client -> {x * BlockSize : x \in Block} \cup {NULL}]
           /\ asked' \in [Client -> 0..MaxRequest] /\ asked'[c] = size
           /\ \A d \in Client : Run(b, Nmemb(size)) \cap Held(d) = {}
           /\ \A d \in Client \ {c} : ptr'[d] = ptr[d] /\ asked'[d] = asked[d]
<1>1. size \in Nat
  BY MallocAssumption
<1>2. Nmemb(size) \in Nat /\ Nmemb(size) > 0
  BY <1>1, NmembFacts
<1> DEFINE n == Nmemb(size)
<1> HIDE DEF n
<1>3. n \in Nat /\ n > 0 /\ b \in Fits(ReadyMap, n)
  BY <1>2 DEF n
<1>4. /\ b \in Block /\ b + n <= Blocks /\ Run(b, n) \subseteq Block
      /\ \A d \in Client : Run(b, n) \cap Held(d) = {}
  <2>1. \A d \in Client : /\ b \in Block /\ b + n <= Blocks /\ Run(b, n) \subseteq Block
                          /\ Run(b, n) \cap Held(d) = {}
    BY <1>3, FitsAreFree
  <2> QED
    BY <2>1
<1>5. b \in Nat /\ (b * BlockSize) \div BlockSize = b /\ b * BlockSize \in Nat
  BY <1>4, BlockOfOffset DEF Block
<1>6. b * BlockSize # NULL
  BY <1>5, MallocAssumption
<1>7. /\ ptr'[c] = b * BlockSize /\ asked'[c] = size
      /\ asked' \in [Client -> 0..MaxRequest]
      /\ ptr' \in [Client -> {x * BlockSize : x \in Block} \cup {NULL}]
      /\ \A d \in Client \ {c} : ptr'[d] = ptr[d] /\ asked'[d] = asked[d]
  BY <1>4 DEF IInv, TypeOK
<1>8. Held(c)' = Run(b, n)
  BY <1>5, <1>6, <1>7 DEF Held, n
<1> QED
  BY <1>2, <1>4, <1>6, <1>7, <1>8 DEF n

LEMMA MallocTable ==
    ASSUME IInv, NEW c \in Client, NEW size \in 0..MaxRequest, mymalloc(c, size)
    PROVE  IInv'
<1>1. PICK b \in Block : /\ size > 0 /\ Highest(Fits(ReadyMap, Nmemb(size)), b)
                         /\ memmap' = Marked(ReadyMap, b, Nmemb(size))
                         /\ ptr' = [ptr EXCEPT ![c] = b * BlockSize]
                         /\ asked' = [asked EXCEPT ![c] = size]
  BY DEF mymalloc
<1> DEFINE n == Nmemb(size)
<1>2. b \in Fits(ReadyMap, n)
  BY <1>1 DEF Highest
<1>3. /\ n \in Nat /\ n > 0 /\ b + n <= Blocks
      /\ Held(c)' = Run(b, n) /\ Run(b, n) \subseteq Block
      /\ ptr'[c] = b * BlockSize /\ ptr'[c] # NULL
      /\ ptr' \in [Client -> {x * BlockSize : x \in Block} \cup {NULL}]
      /\ asked' \in [Client -> 0..MaxRequest] /\ asked'[c] = size
      /\ \A d \in Client : Run(b, n) \cap Held(d) = {}
      /\ \A d \in Client \ {c} : ptr'[d] = ptr[d] /\ asked'[d] = asked[d]
  BY <1>1, <1>2, Requested
<1>4. memrdy' = TRUE /\ refused' = 0 /\ filled' = filled /\ membase' = ReadyBase /\ ptr[c] = NULL
  BY DEF mymalloc
<1> HIDE DEF n
<1>5. memmap' = [x \in Block |-> IF x \in Run(b, n) THEN n ELSE ReadyMap[x]]
  BY <1>1 DEF Marked, n
<1>6. ReadyMap \in [Block -> 0..Blocks]
  BY MallocAssumption DEF IInv, TypeOK, ReadyMap
<1>7. TypeOK'
  <2>1. n \in 0..Blocks
    BY <1>1, <1>3, MallocAssumption DEF Block
  <2>2. memmap' \in [Block -> 0..Blocks]
    BY <1>5, <1>6, <2>1
  <2>3. membase' \in [Byte -> Client \cup {Unknown}]
    BY <1>4 DEF IInv, TypeOK, ReadyBase
  <2> QED
    BY <1>3, <1>4, <2>2, <2>3 DEF IInv, TypeOK
<1>8. TableExact' /\ Disjoint'
  <2>1. Held(c) = {}
    BY <1>4, HeldNothing
  <2>2. \A x \in Block : memmap'[x] = IF x \in Run(b, n) THEN n
                                      ELSE IF x \in Held(c) THEN 0 ELSE ReadyMap[x]
    BY <1>5, <2>1
  <2>3. asked'[c] > 0 /\ Nmemb(asked'[c]) = n
    BY <1>1, <1>3 DEF n
  <2> QED
    BY <1>3, <1>4, <2>2, <2>3, TableStep
<1>9. Sizes'
  BY <1>1, <1>3, <1>4 DEF IInv, TypeOK, Sizes
<1> QED
  BY <1>7, <1>8, <1>9 DEF IInv

(* What a client gives back is its own run.                                *)
LEMMA GivenBack ==
    ASSUME IInv, NEW c \in Client, ptr[c] # NULL, NEW map, map[ptr[c] \div BlockSize] = memmap[ptr[c] \div BlockSize]
    PROVE  Unmarked(map, ptr[c]) = [i \in Block |-> IF i \in Held(c) THEN 0 ELSE map[i]]
<1>1. PICK b \in Block, n \in Nat :
        /\ ptr[c] \div BlockSize = b /\ Held(c) = Run(b, n) /\ memmap[b] = n
  BY HeldFacts
<1> QED
  BY <1>1 DEF Unmarked

LEMMA FreeTable ==
    ASSUME IInv, NEW c \in Client, myfree(c)
    PROVE  IInv' /\ Held(c)' = {}
<1>1. /\ ptr[c] # NULL /\ memrdy
      /\ memmap' = [i \in Block |-> IF i \in Held(c) THEN 0 ELSE memmap[i]]
  BY GivenBack DEF myfree, IInv, TableExact
<1>2. /\ ptr' = [ptr EXCEPT ![c] = NULL] /\ asked' = [asked EXCEPT ![c] = 0]
      /\ filled' = [filled EXCEPT ![c] = 0] /\ membase' = Forgotten(membase, c)
      /\ refused' = 0 /\ memrdy' = memrdy
  BY DEF myfree
<1>3. ptr'[c] = NULL /\ \A d \in Client \ {c} : ptr'[d] = ptr[d] /\ asked'[d] = asked[d]
  BY <1>2 DEF IInv, TypeOK
<1>4. Held(c)' = {}
  BY <1>3 DEF Held
<1>5. TypeOK'
  <2>1. memmap' \in [Block -> 0..Blocks]
    BY <1>1, MallocAssumption DEF IInv, TypeOK
  <2>2. membase' \in [Byte -> Client \cup {Unknown}]
    BY <1>2 DEF IInv, TypeOK, Forgotten
  <2>3. 0 \in 0..MaxRequest
    BY MallocAssumption
  <2> QED
    BY <1>2, <2>1, <2>2, <2>3 DEF IInv, TypeOK
<1>6. TableExact' /\ Disjoint'
  <2>1. \A x \in Block : memmap'[x] = IF x \in {} THEN 1
                                      ELSE IF x \in Held(c) THEN 0 ELSE ReadyMap[x]
    BY <1>1 DEF ReadyMap
  <2>2. {} \in SUBSET Block /\ 1 \in Nat /\ 1 > 0
    OBVIOUS
  <2>3. \A d \in Client \ {c} : {} \cap Held(d) = {}
    OBVIOUS
  <2>4. IF ptr'[c] = NULL THEN {} = {} ELSE asked'[c] > 0 /\ Nmemb(asked'[c]) = 1
    BY <1>3
  <2>5. memrdy'
    BY <1>1, <1>2
  <2> QED
    BY <1>3, <1>4, <2>1, <2>2, <2>3, <2>4, <2>5, TableStep
<1>7. Sizes'
  BY <1>2 DEF IInv, TypeOK, Sizes
<1> QED
  BY <1>4, <1>5, <1>6, <1>7 DEF IInv

LEMMA ReallocTable ==
    ASSUME IInv, NEW c \in Client, NEW size \in 0..MaxRequest, myrealloc(c, size)
    PROVE  IInv'
<1>0. ptr[c] # NULL /\ memrdy /\ ReadyMap = memmap
  BY DEF myrealloc, IInv, TableExact, ReadyMap
<1>1. PICK b \in Block : /\ size > 0 /\ Highest(Fits(memmap, Nmemb(size)), b)
                         /\ membase' = Forgotten(CopiedFrom(c, b * BlockSize, size), c)
                         /\ memmap' = Unmarked(Marked(memmap, b, Nmemb(size)), ptr[c])
                         /\ ptr' = [ptr EXCEPT ![c] = b * BlockSize]
  BY DEF myrealloc
<1>2. /\ asked' = [asked EXCEPT ![c] = size] /\ refused' = 0 /\ memrdy' = memrdy
      /\ filled' = [filled EXCEPT ![c] = IF filled[c] <= size THEN @ ELSE size]
  BY DEF myrealloc
<1> DEFINE n == Nmemb(size)
<1>3. b \in Fits(ReadyMap, n)
  BY <1>0, <1>1 DEF Highest
<1>4. /\ n \in Nat /\ n > 0 /\ b + n <= Blocks
      /\ Held(c)' = Run(b, n) /\ Run(b, n) \subseteq Block
      /\ ptr'[c] = b * BlockSize /\ ptr'[c] # NULL
      /\ ptr' \in [Client -> {x * BlockSize : x \in Block} \cup {NULL}]
      /\ asked' \in [Client -> 0..MaxRequest] /\ asked'[c] = size
      /\ \A d \in Client : Run(b, n) \cap Held(d) = {}
      /\ \A d \in Client \ {c} : ptr'[d] = ptr[d] /\ asked'[d] = asked[d]
  BY <1>1, <1>2, <1>3, Requested
<1> HIDE DEF n
<1>5. memmap' = [x \in Block |-> IF x \in Run(b, n) THEN n
                                 ELSE IF x \in Held(c) THEN 0 ELSE memmap[x]]
  <2> DEFINE M == Marked(memmap, b, n)
  <2>1. M = [x \in Block |-> IF x \in Run(b, n) THEN n ELSE memmap[x]]
    BY DEF Marked
  <2>2. ptr[c] \div BlockSize \in Held(c) /\ ptr[c] \div BlockSize \in Block
    <3>1. PICK a \in Block, k \in Nat :
            k > 0 /\ ptr[c] \div BlockSize = a /\ Held(c) = Run(a, k)
      BY <1>0, HeldFacts
    <3> QED
      BY <3>1, MallocAssumption DEF Run, Block
  <2>3. M[ptr[c] \div BlockSize] = memmap[ptr[c] \div BlockSize]
    BY <1>4, <2>1, <2>2
  <2> HIDE DEF M
  <2>4. Unmarked(M, ptr[c]) = [i \in Block |-> IF i \in Held(c) THEN 0 ELSE M[i]]
    BY <1>0, <2>3, GivenBack
  <2>5. memmap' = Unmarked(M, ptr[c])
    BY <1>1 DEF M, n
  <2> QED
    BY <1>4, <2>1, <2>4, <2>5
<1>6. TypeOK'
  <2>1. n \in 0..Blocks
    BY <1>1, <1>4, MallocAssumption DEF Block
  <2>2. memmap' \in [Block -> 0..Blocks]
    BY <1>5, <2>1, MallocAssumption DEF IInv, TypeOK
  <2>3. CopiedFrom(c, b * BlockSize, size) \in [Byte -> Client \cup {Unknown}]
    <3> SUFFICES ASSUME NEW i \in Byte
                 PROVE  CopiedFrom(c, b * BlockSize, size)[i] \in Client \cup {Unknown}
      BY DEF CopiedFrom
    <3> DEFINE j == ptr[c] + (i - b * BlockSize)
    <3>1. CASE i \in Run(b * BlockSize, size) /\ i - b * BlockSize < filled[c]
      <4>1. j \in Byte
        <5>1. ptr[c] \in Nat /\ asked[c] \in Nat /\ ptr[c] + asked[c] <= MemSize
          BY <1>0, OwnBytes
        <5>2. filled[c] \in Nat /\ filled[c] <= asked[c]
          BY DEF IInv, TypeOK, Sizes
        <5>3. b * BlockSize \in Nat /\ MemSize \in Nat
          BY BlockOfOffset, MallocAssumption DEF Block, MemSize
        <5> HIDE DEF MemSize
        <5>4. i - b * BlockSize >= 0 /\ i \in Nat
          BY <3>1, <5>3 DEF Run, Byte
        <5> QED
          BY <3>1, <5>1, <5>2, <5>3, <5>4 DEF Byte
      <4> QED
        BY <3>1, <4>1 DEF CopiedFrom, IInv, TypeOK
    <3>2. CASE ~(i \in Run(b * BlockSize, size) /\ i - b * BlockSize < filled[c])
      BY <3>2 DEF CopiedFrom, IInv, TypeOK
    <3> QED
      BY <3>1, <3>2
  <2>4. membase' \in [Byte -> Client \cup {Unknown}]
    BY <1>1, <2>3 DEF Forgotten
  <2>5. filled' \in [Client -> 0..MaxRequest]
    BY <1>2 DEF IInv, TypeOK
  <2> QED
    BY <1>2, <1>4, <2>2, <2>4, <2>5 DEF IInv, TypeOK
<1>7. TableExact' /\ Disjoint'
  <2>1. asked'[c] > 0 /\ Nmemb(asked'[c]) = n
    BY <1>1, <1>4 DEF n
  <2> QED
    BY <1>0, <1>2, <1>4, <1>5, <2>1, TableStep
<1>8. Sizes'
  BY <1>1, <1>2, <1>4, MallocAssumption DEF IInv, TypeOK, Sizes
<1> QED
  BY <1>6, <1>7, <1>8 DEF IInv

LEMMA OtherIInv ==
    ASSUME IInv,
           \/ my_mem_init
           \/ \E size \in 0..MaxRequest : OutOfMemory(size)
           \/ \E c \in Client : Fill(c)
           \/ UNCHANGED vars
    PROVE  IInv'
<1>1. CASE my_mem_init
  <2>1. \A c \in Client : ptr[c] = NULL
    BY <1>1 DEF my_mem_init, IInv, TableExact
  <2>2. TypeOK'
    BY <1>1, MallocAssumption DEF my_mem_init, IInv, TypeOK
  <2> QED
    BY <1>1, <2>1, <2>2 DEF my_mem_init, IInv, TableExact, Disjoint, Sizes, Held
<1>2. CASE \E size \in 0..MaxRequest : OutOfMemory(size)
  <2>1. PICK size \in 0..MaxRequest : OutOfMemory(size)
    BY <1>2
  <2>2. Nmemb(size) \in Nat
    BY NmembFacts, MallocAssumption
  <2>3. UNCHANGED <<ptr, asked, filled>> /\ memrdy' = TRUE /\ memmap' = ReadyMap
    BY <2>1 DEF OutOfMemory
  <2>4. TypeOK'
    BY <2>1, <2>2, MallocAssumption DEF OutOfMemory, IInv, TypeOK, ReadyMap, ReadyBase
  <2>5. TableExact'
    BY <2>3 DEF IInv, TypeOK, TableExact, ReadyMap, Held
  <2>6. Disjoint' /\ Sizes'
    BY <2>3 DEF IInv, Disjoint, Sizes, Held
  <2> QED
    BY <2>4, <2>5, <2>6 DEF IInv
<1>3. CASE \E c \in Client : Fill(c)
  <2>1. PICK c \in Client : Fill(c)
    BY <1>3
  <2>2. TypeOK'
    BY <2>1 DEF Fill, IInv, TypeOK
  <2>3. TableExact' /\ Disjoint'
    BY <2>1 DEF Fill, IInv, TableExact, Disjoint, Held
  <2>4. Sizes'
    BY <2>1 DEF Fill, IInv, TypeOK, Sizes
  <2> QED
    BY <2>2, <2>3, <2>4 DEF IInv
<1>4. CASE UNCHANGED vars
  BY <1>4 DEF vars, IInv, TypeOK, TableExact, Disjoint, Sizes, Held
<1> QED
  BY <1>1, <1>2, <1>3, <1>4

LEMMA StepIInv == IInv /\ [Next]_vars => IInv'
<1> SUFFICES ASSUME IInv, [Next]_vars PROVE IInv'
  OBVIOUS
<1>1. CASE \E c \in Client : myfree(c)
  BY <1>1, FreeTable
<1>2. CASE \E c \in Client, size \in 0..MaxRequest : mymalloc(c, size)
  BY <1>2, MallocTable
<1>3. CASE \E c \in Client, size \in 0..MaxRequest : myrealloc(c, size)
  BY <1>3, ReallocTable
<1>4. CASE \/ my_mem_init
           \/ \E size \in 0..MaxRequest : OutOfMemory(size)
           \/ \E c \in Client : Fill(c)
           \/ UNCHANGED vars
  BY <1>4, OtherIInv
<1> QED
  BY <1>1, <1>2, <1>3, <1>4 DEF Next

(* Every entry of the table is a number of blocks of the table, and every  *)
(* pointer given out is the start of a block.                              *)
THEOREM TypeCorrect == Spec => []TypeOK
  BY InitIInv, StepIInv, PTL DEF Spec, IInv

(* The table and the allocations agree, whatever the order of the calls.   *)
THEOREM TableAgrees == Spec => []TableExact
  BY InitIInv, StepIInv, PTL DEF Spec, IInv

(* No block is given to two clients.                                       *)
THEOREM AllocationsDisjoint == Spec => []Disjoint
  BY InitIInv, StepIInv, PTL DEF Spec, IInv

-----------------------------------------------------------------------------
(* The bytes.                                                              *)

LEMMA InitKept == Init => DataKept
  BY DEF Init, DataKept

(* A step that leaves client d its place and does not touch its bytes.     *)
LEMMA KeptFor ==
    ASSUME IInv, DataKept, NEW d \in Client, ptr[d] # NULL,
           ptr'[d] = ptr[d], filled'[d] = filled[d],
           \A i \in Run(ptr[d], asked[d]) : i \in Byte => membase'[i] = membase[i]
    PROVE  \A i \in Run(ptr'[d], filled'[d]) : i \in Byte /\ membase'[i] = d
<1>1. \A i \in Run(ptr[d], filled[d]) : i \in Byte /\ membase[i] = d
  BY DEF DataKept
<1>2. ptr[d] \in Nat /\ asked[d] \in Nat /\ filled[d] \in Nat /\ filled[d] <= asked[d]
  BY OwnBytes DEF IInv, TypeOK, Sizes
<1>3. Run(ptr[d], filled[d]) \subseteq Run(ptr[d], asked[d])
  BY <1>2 DEF Run
<1> QED
  BY <1>1, <1>3

LEMMA TwoAllocations ==
    ASSUME IInv, NEW c \in Client, NEW d \in Client, c # d, ptr[c] # NULL, ptr[d] # NULL
    PROVE  Run(ptr[c], asked[c]) \cap Run(ptr[d], asked[d]) = {}
<1>1. PICK b \in Block, n \in Nat :
        n = Nmemb(asked[d]) /\ n > 0 /\ ptr[d] = b * BlockSize /\ Held(d) = Run(b, n)
  BY HeldFacts
<1>2. asked[d] \in Nat /\ b \in Nat
  BY MallocAssumption DEF IInv, TypeOK, Block
<1>3. asked[d] <= n * BlockSize
  BY <1>1, <1>2, NmembFacts
<1>4. Run(b, n) \cap Held(c) = {}
  BY <1>1 DEF IInv, Disjoint
<1> QED
  BY <1>1, <1>2, <1>3, <1>4, OthersBytes

LEMMA ReallocKept ==
    ASSUME IInv, DataKept, NEW c \in Client, NEW size \in 0..MaxRequest, myrealloc(c, size)
    PROVE  DataKept'
<1>0. ptr[c] # NULL /\ memrdy /\ ReadyMap = memmap
  BY DEF myrealloc, IInv, TableExact, ReadyMap
<1>1. PICK b \in Block : /\ size > 0 /\ Highest(Fits(memmap, Nmemb(size)), b)
                         /\ membase' = Forgotten(CopiedFrom(c, b * BlockSize, size), c)
                         /\ ptr' = [ptr EXCEPT ![c] = b * BlockSize]
  BY DEF myrealloc
<1>2. /\ asked' = [asked EXCEPT ![c] = size]
      /\ filled' = [filled EXCEPT ![c] = IF filled[c] <= size THEN @ ELSE size]
  BY DEF myrealloc
<1> DEFINE n == Nmemb(size)
<1> DEFINE at == b * BlockSize
<1>3. b \in Fits(ReadyMap, n)
  BY <1>0, <1>1 DEF Highest
<1>4. /\ n \in Nat /\ n > 0 /\ b + n <= Blocks /\ ptr'[c] = at
      /\ \A d \in Client : Run(b, n) \cap Held(d) = {}
      /\ \A d \in Client \ {c} : ptr'[d] = ptr[d] /\ asked'[d] = asked[d]
  BY <1>1, <1>2, <1>3, Requested
<1>5. b \in Nat /\ size \in Nat /\ size <= n * BlockSize
  BY NmembFacts, MallocAssumption DEF Block
<1>6. at \in Nat /\ at + size <= MemSize /\ MemSize \in Nat
  <2>1. (b * BlockSize) + (n * BlockSize) <= Blocks * BlockSize
    <3> HIDE DEF n
    <3>1. (b + n) * BlockSize <= Blocks * BlockSize
      BY <1>4, <1>5, TimesMonotone, MallocAssumption
    <3>2. (b + n) * BlockSize = (b * BlockSize) + (n * BlockSize)
      BY <1>4, <1>5, TimesSum, MallocAssumption
    <3> QED
      BY <3>1, <3>2
  <2>2. b * BlockSize \in Nat /\ n * BlockSize \in Nat /\ Blocks * BlockSize \in Nat
    BY <1>4, <1>5, MallocAssumption
  <2> QED
    BY <1>5, <2>1, <2>2 DEF MemSize
<1>7. \A d \in Client : ptr[d] # NULL => Run(ptr[d], asked[d]) \cap Run(at, size) = {}
  BY <1>4, <1>5, OthersBytes
<1>8. filled[c] \in Nat /\ filled'[c] \in Nat /\ filled'[c] <= filled[c] /\ filled'[c] <= size
  BY <1>2, <1>5 DEF IInv, TypeOK
<1>9. \A d \in Client \ {c} : filled'[d] = filled[d]
  BY <1>2 DEF IInv, TypeOK
<1> HIDE DEF at, n
<1>10. membase' = [i \in Byte |-> IF i \in Run(ptr[c], asked[c]) THEN Unknown
                                  ELSE CopiedFrom(c, at, size)[i]]
  BY <1>1 DEF Forgotten, at
<1>11. ASSUME NEW i \in Run(ptr'[c], filled'[c])
       PROVE  i \in Byte /\ membase'[i] = c
  <2>1. i \in Run(at, size) /\ i \in Nat /\ i - at \in 0..(filled'[c] - 1)
    BY <1>4, <1>6, <1>5, <1>8 DEF Run
  <2>2. i \in Byte
    BY <1>5, <1>6, <2>1 DEF Run, Byte
  <2>3. i \notin Run(ptr[c], asked[c])
    BY <1>0, <1>7, <2>1
  <2>4. CopiedFrom(c, at, size)[i] = membase[ptr[c] + (i - at)]
    BY <1>6, <1>8, <2>1, <2>2 DEF CopiedFrom
  <2>5. ptr[c] + (i - at) \in Run(ptr[c], filled[c])
    BY <1>0, <1>6, <1>8, <2>1, OwnBytes DEF Run
  <2>6. membase[ptr[c] + (i - at)] = c
    BY <1>0, <2>5 DEF DataKept
  <2> QED
    BY <1>10, <2>2, <2>3, <2>4, <2>6
<1>12. ASSUME NEW d \in Client, d # c, ptr'[d] # NULL
       PROVE  \A i \in Run(ptr'[d], filled'[d]) : i \in Byte /\ membase'[i] = d
  <2>1. ptr[d] # NULL /\ ptr'[d] = ptr[d] /\ filled'[d] = filled[d]
    BY <1>4, <1>9, <1>12
  <2>2. \A i \in Run(ptr[d], asked[d]) : i \notin Run(ptr[c], asked[c]) /\ i \notin Run(at, size)
    BY <1>0, <1>7, <1>12, <2>1, TwoAllocations
  <2>3. \A i \in Run(ptr[d], asked[d]) : i \in Byte => membase'[i] = membase[i]
    BY <1>10, <2>2 DEF CopiedFrom
  <2> QED
    BY <2>1, <2>3, KeptFor
<1> QED
  BY <1>11, <1>12 DEF DataKept

LEMMA StepKept == IInv /\ DataKept /\ [Next]_vars => DataKept'
<1> SUFFICES ASSUME IInv, DataKept, [Next]_vars PROVE DataKept'
  OBVIOUS
<1>1. CASE my_mem_init
  BY <1>1 DEF my_mem_init, IInv, TableExact, DataKept
<1>2. CASE \E size \in 0..MaxRequest : OutOfMemory(size)
  BY <1>2 DEF OutOfMemory, ReadyBase, IInv, TableExact, DataKept
<1>3. ASSUME NEW c \in Client, Fill(c) PROVE DataKept'
  <2>1. /\ ptr' = ptr /\ ptr[c] # NULL
        /\ membase' = [i \in Byte |-> IF i \in Run(ptr[c], asked[c]) THEN c ELSE membase[i]]
        /\ filled' = [filled EXCEPT ![c] = asked[c]]
    BY <1>3 DEF Fill
  <2>2. \A i \in Run(ptr'[c], filled'[c]) : i \in Byte /\ membase'[i] = c
    <3>1. filled'[c] = asked[c]
      BY <2>1 DEF IInv, TypeOK
    <3>2. ptr[c] \in Nat /\ asked[c] \in Nat /\ ptr[c] + asked[c] <= MemSize /\ MemSize \in Nat
      BY <2>1, OwnBytes, MallocAssumption DEF MemSize
    <3>3. Run(ptr[c], asked[c]) \subseteq Byte
      BY <3>2 DEF Run, Byte
    <3> QED
      BY <2>1, <3>1, <3>3
  <2>3. ASSUME NEW d \in Client, d # c, ptr'[d] # NULL
        PROVE  \A i \in Run(ptr'[d], filled'[d]) : i \in Byte /\ membase'[i] = d
    <3>1. ptr[d] # NULL /\ ptr'[d] = ptr[d] /\ filled'[d] = filled[d]
      BY <2>1, <2>3 DEF IInv, TypeOK
    <3>2. \A i \in Run(ptr[d], asked[d]) : i \notin Run(ptr[c], asked[c])
      BY <2>1, <2>3, <3>1, TwoAllocations
    <3> QED
      BY <2>1, <3>1, <3>2, KeptFor
  <2> QED
    BY <2>2, <2>3 DEF DataKept
<1>4. ASSUME NEW c \in Client, myfree(c) PROVE DataKept'
  <2>1. /\ ptr' = [ptr EXCEPT ![c] = NULL] /\ filled' = [filled EXCEPT ![c] = 0]
        /\ membase' = Forgotten(membase, c) /\ ptr[c] # NULL
    BY <1>4 DEF myfree
  <2>2. ASSUME NEW d \in Client, ptr'[d] # NULL
        PROVE  \A i \in Run(ptr'[d], filled'[d]) : i \in Byte /\ membase'[i] = d
    <3>1. d # c /\ ptr[d] # NULL /\ ptr'[d] = ptr[d] /\ filled'[d] = filled[d]
      BY <2>1, <2>2 DEF IInv, TypeOK
    <3>2. \A i \in Run(ptr[d], asked[d]) : i \notin Run(ptr[c], asked[c])
      BY <2>1, <3>1, TwoAllocations
    <3> QED
      BY <2>1, <3>1, <3>2, KeptFor DEF Forgotten
  <2> QED
    BY <2>2 DEF DataKept
<1>5. ASSUME NEW c \in Client, NEW size \in 0..MaxRequest, mymalloc(c, size) PROVE DataKept'
  <2>1. PICK b \in Block : ptr' = [ptr EXCEPT ![c] = b * BlockSize]
    BY <1>5 DEF mymalloc
  <2>2. filled' = filled /\ membase' = ReadyBase /\ ptr[c] = NULL
    BY <1>5 DEF mymalloc
  <2>3. filled'[c] = 0 /\ Run(ptr'[c], 0) = {}
    <3>1. ptr'[c] \in Nat
      BY <2>1, BlockOfOffset DEF Block, IInv, TypeOK
    <3> QED
      BY <2>2, <3>1 DEF IInv, Sizes, Run
  <2>4. ASSUME NEW d \in Client, d # c, ptr'[d] # NULL
        PROVE  \A i \in Run(ptr'[d], filled'[d]) : i \in Byte /\ membase'[i] = d
    <3>1. ptr[d] # NULL /\ ptr'[d] = ptr[d]
      BY <2>1, <2>4 DEF IInv, TypeOK
    <3>2. membase' = membase
      BY <2>2, <3>1 DEF IInv, TableExact, ReadyBase
    <3> QED
      BY <2>2, <3>1, <3>2, KeptFor
  <2> QED
    BY <2>3, <2>4 DEF DataKept
<1>6. CASE UNCHANGED vars
  BY <1>6 DEF vars, DataKept
<1> QED
  BY <1>1, <1>2, <1>3, <1>4, <1>5, <1>6, ReallocKept DEF Next

(* What a client has written stays as it is until it frees it, also when   *)
(* myrealloc moves it.                                                     *)
THEOREM BytesKept == Spec => []DataKept
  BY InitIInv, StepIInv, InitKept, StepKept, PTL DEF Spec

-----------------------------------------------------------------------------
(* The refinement: the region of a client is its run of blocks.            *)
region == [c \in Client |-> Held(c)]

LEMMA TakenBlocks ==
    ASSUME IInv, NEW i \in Block
    PROVE  (i \in Blockwise!Taken) <=> ReadyMap[i] # 0
<1>1. i \in Blockwise!Taken <=> \E c \in Client : i \in Held(c)
  BY DEF Blockwise!Taken
<1>2. ASSUME NEW c \in Client, i \in Held(c) PROVE ReadyMap[i] # 0
  <2>1. ptr[c] # NULL
    BY <1>2, HeldNothing
  <2>2. memrdy /\ asked[c] > 0 /\ asked[c] \in Nat /\ memmap[i] = Nmemb(asked[c])
    BY <1>2, <2>1 DEF IInv, TypeOK, TableExact
  <2> QED
    BY <2>2, NmembFacts DEF ReadyMap
<1>3. ASSUME ReadyMap[i] # 0 PROVE \E c \in Client : i \in Held(c)
  BY <1>3 DEF ReadyMap, IInv, TableExact
<1> QED
  BY <1>1, <1>2, <1>3

(* A run that fits is a free region, and the other way round.              *)
LEMMA FitsAreRegions ==
    ASSUME IInv, NEW n \in Nat, n > 0
    PROVE  Blockwise!FreeRegions(n) = {Run(b, n) : b \in Fits(ReadyMap, n)}
<1>1. \A b : Blockwise!Interval(b, n) = Run(b, n)
  BY DEF Blockwise!Interval, Run
<1>2. Blockwise!Pool = Block
  BY DEF Blockwise!Pool, Block
<1>3. \A b \in Block : b \in Fits(ReadyMap, n) <=>
          Blockwise!Interval(b, n) \subseteq Blockwise!Pool \ Blockwise!Taken
  BY <1>1, <1>2, TakenBlocks DEF Fits
<1> QED
  BY <1>1, <1>2, <1>3 DEF Blockwise!FreeRegions, Fits

LEMMA InitRefines == Init => Blockwise!Init
  BY DEF Init, Blockwise!Init, Held

(* The request of some bytes that Allocator sees as n cells.               *)
LEMMA RequestCells ==
    ASSUME NEW size \in 0..MaxRequest, size > 0
    PROVE  Nmemb(size) \in 1..Nmemb(MaxRequest)
  BY NmembFacts, NmembMonotone, MallocAssumption

LEMMA RegionOf ==
    ASSUME NEW c \in Client, \A d \in Client \ {c} : ptr'[d] = ptr[d] /\ asked'[d] = asked[d]
    PROVE  region' = [region EXCEPT ![c] = Held(c)']
<1>1. \A d \in Client \ {c} : Held(d)' = Held(d)
  BY DEF Held
<1> QED
  BY <1>1 DEF region

LEMMA StepRefines == IInv /\ IInv' /\ [Next]_vars => [Blockwise!Next]_(Blockwise!avars)
<1> SUFFICES ASSUME IInv, [Next]_vars
             PROVE  Blockwise!Next \/ (region' = region /\ refused' = refused)
  BY DEF Blockwise!avars, region
<1>1. CASE my_mem_init
  <2>1. region' = region /\ refused' = 0
    BY <1>1 DEF my_mem_init, region, Held
  <2> QED
    BY <2>1 DEF Blockwise!Next, Blockwise!Nothing, region
<1>2. ASSUME NEW size \in 0..MaxRequest, OutOfMemory(size)
      PROVE  Blockwise!Next
  <2>1. region' = region /\ refused' = Nmemb(size)
    BY <1>2 DEF OutOfMemory, region, Held
  <2>2. CASE size = 0
    <3>1. refused' = 0
      BY <2>1, <2>2, NmembFacts
    <3> QED
      BY <2>1, <3>1 DEF Blockwise!Next, Blockwise!Nothing, region
  <2>3. CASE size > 0
    <3>1. Nmemb(size) \in 1..Nmemb(MaxRequest) /\ Nmemb(size) \in Nat /\ Nmemb(size) > 0
      BY <2>3, RequestCells, NmembFacts, MallocAssumption
    <3>2. Fits(ReadyMap, Nmemb(size)) = {}
      BY <1>2, <2>3 DEF OutOfMemory
    <3>3. Blockwise!FreeRegions(Nmemb(size)) = {}
      BY <3>1, <3>2, FitsAreRegions
    <3>4. Blockwise!Refuse(Nmemb(size))
      BY <2>1, <3>3 DEF Blockwise!Refuse, region
    <3> QED
      BY <3>1, <3>4 DEF Blockwise!Next
  <2> QED
    BY <2>2, <2>3, MallocAssumption
<1>3. ASSUME NEW c \in Client, Fill(c)
      PROVE  region' = region /\ refused' = refused
  BY <1>3 DEF Fill, region, Held
<1>4. ASSUME NEW c \in Client, myfree(c)
      PROVE  Blockwise!Next
  <2>1. Held(c)' = {} /\ refused' = 0
    BY <1>4, FreeTable DEF myfree
  <2>2. \A d \in Client \ {c} : ptr'[d] = ptr[d] /\ asked'[d] = asked[d]
    BY <1>4 DEF myfree, IInv, TypeOK
  <2>3. region' = [region EXCEPT ![c] = {}]
    BY <2>1, <2>2, RegionOf
  <2>4. Blockwise!Release(c)
    BY <2>1, <2>3 DEF Blockwise!Release, region
  <2> QED
    BY <2>4 DEF Blockwise!Next
<1>5. ASSUME NEW c \in Client, NEW size \in 0..MaxRequest,
             mymalloc(c, size) \/ myrealloc(c, size)
      PROVE  Blockwise!Next
  <2> DEFINE n == Nmemb(size)
  <2>1. PICK b \in Block : /\ size > 0 /\ b \in Fits(ReadyMap, n)
                           /\ ptr' = [ptr EXCEPT ![c] = b * BlockSize]
    <3>1. CASE mymalloc(c, size)
      BY <3>1 DEF mymalloc, Highest
    <3>2. CASE myrealloc(c, size)
      <4>1. ReadyMap = memmap
        BY <3>2 DEF myrealloc, IInv, TableExact, ReadyMap
      <4> QED
        BY <3>2, <4>1 DEF myrealloc, Highest
    <3> QED
      BY <1>5, <3>1, <3>2
  <2>2. asked' = [asked EXCEPT ![c] = size] /\ refused' = 0
    BY <1>5 DEF mymalloc, myrealloc
  <2>3. Held(c)' = Run(b, n) /\ \A d \in Client \ {c} : ptr'[d] = ptr[d] /\ asked'[d] = asked[d]
    BY <2>1, <2>2, Requested
  <2>4. n \in 1..Nmemb(MaxRequest) /\ n \in Nat /\ n > 0
    BY <2>1, RequestCells, NmembFacts, MallocAssumption
  <2> HIDE DEF n
  <2>5. Run(b, n) \in Blockwise!FreeRegions(n)
    BY <2>1, <2>4, FitsAreRegions
  <2>6. region' = [region EXCEPT ![c] = Run(b, n)]
    BY <2>3, RegionOf
  <2>7. Blockwise!Allocate(c, n)
    BY <2>2, <2>5, <2>6 DEF Blockwise!Allocate, region
  <2> QED
    BY <2>4, <2>7 DEF Blockwise!Next
<1>6. CASE UNCHANGED vars
  BY <1>6 DEF vars, region, Held
<1> QED
  BY <1>1, <1>2, <1>3, <1>4, <1>5, <1>6 DEF Next

(* The bank is an allocator of cells: it gives out free regions and        *)
(* refuses a request only when none is large enough.                       *)
THEOREM ImplementsAllocator == Spec => Allocates
<1>1. Init => Blockwise!Init
  BY InitRefines
<1>2. IInv /\ IInv' /\ [Next]_vars => [Blockwise!Next]_(Blockwise!avars)
  BY StepRefines
<1> QED
  BY <1>1, <1>2, InitIInv, StepIInv, PTL DEF Spec, Allocates, Blockwise!Spec
=============================================================================
