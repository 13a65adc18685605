----------------------------- MODULE EthRxProofs -----------------------------
(***************************************************************************)
(* For every ring, pool, mailbox and sequence of frames: the interrupt and *)
(* the DMA agree on the descriptors, no pbuf and no message is lost or     *)
(* held twice while no list is clobbered, and frames are handed up in the  *)
(* order in which they came.  At the end, what it would take for the two   *)
(* statements of ClaimPoolsProtected.cfg and ClaimSendSuccess.cfg to hold. *)
(***************************************************************************)
EXTENDS EthRx, FiniteSetTheorems, SequenceTheorems, TLAPS

-----------------------------------------------------------------------------
(* Positions of the ring.                                                  *)

LEMMA RemainderUnique ==
    ASSUME NEW n \in Int, NEW m \in Nat \ {0}, NEW q \in Int, NEW r \in 0..(m - 1),
           n = (m * q) + r
    PROVE  n % m = r
  OBVIOUS

(* A sum of two positions, or of a position and a length.                  *)
LEMMA Around ==
    ASSUME NEW a \in 0..(2 * ETH_RXBUFNB - 1)
    PROVE  a % ETH_RXBUFNB = IF a < ETH_RXBUFNB THEN a ELSE a - ETH_RXBUFNB
<1>0. ETH_RXBUFNB \in Nat \ {0}
  BY RxAssumption
<1>1. CASE a < ETH_RXBUFNB
  <2>1. a \in 0..(ETH_RXBUFNB - 1) /\ a = (ETH_RXBUFNB * 0) + a /\ a \in Int
    BY <1>0, <1>1
  <2> QED
    BY <1>0, <1>1, <2>1, RemainderUnique
<1>2. CASE ~(a < ETH_RXBUFNB)
  <2>1. a - ETH_RXBUFNB \in 0..(ETH_RXBUFNB - 1) /\ a \in Int
        /\ a = (ETH_RXBUFNB * 1) + (a - ETH_RXBUFNB)
    BY <1>0, <1>2
  <2> QED
    BY <1>0, <1>2, <2>1, RemainderUnique
<1> QED
  BY <1>1, <1>2

(* How far d is ahead of f.                                                *)
Dist(d, f) == (d - f + ETH_RXBUFNB) % ETH_RXBUFNB
Shift(f, n) == (f + n) % ETH_RXBUFNB

LEMMA DistIs ==
    ASSUME NEW d \in Desc, NEW f \in Desc
    PROVE  Dist(d, f) = IF d >= f THEN d - f ELSE d - f + ETH_RXBUFNB
<1>1. ETH_RXBUFNB \in Nat \ {0} /\ d - f + ETH_RXBUFNB \in 0..(2 * ETH_RXBUFNB - 1)
  BY RxAssumption DEF Desc
<1> QED
  BY <1>1, Around DEF Dist, Desc

LEMMA ShiftIs ==
    ASSUME NEW f \in Desc, NEW n \in 0..ETH_RXBUFNB
    PROVE  Shift(f, n) = IF f + n < ETH_RXBUFNB THEN f + n ELSE f + n - ETH_RXBUFNB
<1>1. ETH_RXBUFNB \in Nat \ {0} /\ f + n \in 0..(2 * ETH_RXBUFNB - 1)
  BY RxAssumption DEF Desc
<1> QED
  BY <1>1, Around DEF Shift, Desc

LEMMA AfterIs ==
    ASSUME NEW d \in Desc
    PROVE  /\ After(d) = Shift(d, 1)
           /\ After(d) = IF d + 1 < ETH_RXBUFNB THEN d + 1 ELSE 0
           /\ After(d) \in Desc
<1>1. ETH_RXBUFNB \in Nat \ {0} /\ 1 \in 0..ETH_RXBUFNB
  BY RxAssumption
<1>2. After(d) = Shift(d, 1)
  BY DEF After, Shift
<1> QED
  BY <1>1, <1>2, ShiftIs DEF Desc

(* A ring seen from f: every position is at its own distance.              *)
LEMMA DistProperties ==
    ASSUME NEW f \in Desc
    PROVE  /\ \A d \in Desc : Dist(d, f) \in Desc /\ (Dist(d, f) = 0 <=> d = f)
           /\ \A d, e \in Desc : Dist(d, f) = Dist(e, f) => d = e
           /\ \A k \in Desc : Shift(f, k) \in Desc /\ Dist(Shift(f, k), f) = k
<1>1. ETH_RXBUFNB \in Nat \ {0}
  BY RxAssumption
<1>2. \A d \in Desc : Dist(d, f) = IF d >= f THEN d - f ELSE d - f + ETH_RXBUFNB
  BY DistIs
<1>3. \A k \in Desc : Shift(f, k) = IF f + k < ETH_RXBUFNB THEN f + k ELSE f + k - ETH_RXBUFNB
  BY <1>1, ShiftIs DEF Desc
<1> QED
  BY <1>1, <1>2, <1>3 DEF Desc

(* The same ring seen from the next position.                              *)
LEMMA NextFirst ==
    ASSUME NEW f \in Desc
    PROVE  /\ \A d \in Desc : Dist(d, After(f)) =
                  IF d = f THEN ETH_RXBUFNB - 1 ELSE Dist(d, f) - 1
           /\ \A n \in 1..ETH_RXBUFNB : Shift(After(f), n - 1) = Shift(f, n)
<1>1. ETH_RXBUFNB \in Nat \ {0}
  BY RxAssumption
<1>2. After(f) \in Desc /\ After(f) = IF f + 1 < ETH_RXBUFNB THEN f + 1 ELSE 0
  BY AfterIs
<1>3. \A d \in Desc : /\ Dist(d, f) = IF d >= f THEN d - f ELSE d - f + ETH_RXBUFNB
                      /\ Dist(d, After(f)) = IF d >= After(f) THEN d - After(f)
                                             ELSE d - After(f) + ETH_RXBUFNB
  BY <1>2, DistIs
<1>4. ASSUME NEW n \in 1..ETH_RXBUFNB PROVE Shift(After(f), n - 1) = Shift(f, n)
  <2>1. n - 1 \in 0..ETH_RXBUFNB /\ n \in 0..ETH_RXBUFNB
    BY <1>1
  <2>2. /\ Shift(f, n) = IF f + n < ETH_RXBUFNB THEN f + n ELSE f + n - ETH_RXBUFNB
        /\ Shift(After(f), n - 1) = IF After(f) + (n - 1) < ETH_RXBUFNB THEN After(f) + (n - 1)
                                    ELSE After(f) + (n - 1) - ETH_RXBUFNB
    BY <1>2, <2>1, ShiftIs
  <2> QED
    BY <1>1, <1>2, <2>2 DEF Desc
<1>5. \A d \in Desc : Dist(d, After(f)) = IF d = f THEN ETH_RXBUFNB - 1 ELSE Dist(d, f) - 1
  BY <1>1, <1>2, <1>3 DEF Desc
<1> QED
  BY <1>4, <1>5

LEMMA NextStored ==
    ASSUME NEW f \in Desc, NEW n \in Desc
    PROVE  After(Shift(f, n)) = Shift(f, n + 1)
<1>1. ETH_RXBUFNB \in Nat \ {0} /\ n \in 0..ETH_RXBUFNB /\ n + 1 \in 0..ETH_RXBUFNB
  BY RxAssumption DEF Desc
<1>2. Shift(f, n) \in Desc
  BY DistProperties
<1>3. /\ Shift(f, n) = IF f + n < ETH_RXBUFNB THEN f + n ELSE f + n - ETH_RXBUFNB
      /\ Shift(f, n + 1) = IF f + (n + 1) < ETH_RXBUFNB THEN f + (n + 1)
                           ELSE f + (n + 1) - ETH_RXBUFNB
  BY <1>1, ShiftIs
<1>4. After(Shift(f, n)) = IF Shift(f, n) + 1 < ETH_RXBUFNB THEN Shift(f, n) + 1 ELSE 0
  BY <1>2, AfterIs
<1> QED
  BY <1>1, <1>3, <1>4 DEF Desc

-----------------------------------------------------------------------------
(* The invariant.                                                          *)

(* Where tcpip_thread and the interrupt are and what they hold.            *)
PlacesInv ==
    ~clobbered =>
      /\ tpc # "pbuf" => putting = {}
      /\ tpc \notin {"free", "pbuf"} => left = {}
      /\ tpc = "count" => mbox # <<>> /\ cur[1] = mbox[1]
      /\ tpc \in {"free", "pbuf", "msg"} => inp[cur[1]] = Empty
      /\ isr \notin {"give", "post"} => got.bufs = {}
      /\ isr = "post" => got.bufs # {}

(* n descriptors, from the first one on, are the processor's.              *)
RingAt(n) ==
    /\ \A d \in Desc : ~own[d] <=> Dist(d, First) < n
    /\ dmaNext = Shift(First, n)
    /\ \A d, e \in Desc : Dist(d, First) < Dist(e, First) /\ Dist(e, First) < n => held[d] < held[e]
    /\ isr \in {"take", "give"} => n > 0
    /\ isr = "clear" => n <= burst
    /\ isr = "idle" /\ ~irq => n <= MaxBurst

RingInv ==
    /\ ~running => isr = "idle" /\ ~irq /\ fifo = None
    /\ fifo <= arrived
    /\ \A d \in Filled : /\ held[d] # None /\ held[d] <= arrived
                         /\ fifo # None => held[d] < fifo
    /\ isr = "give" => DMARxDescToGet = After(got.desc)
    /\ running => \E n \in 0..ETH_RXBUFNB : RingAt(n)

-----------------------------------------------------------------------------
(* Types.                                                                  *)

(* TypeOK by those who write the variables. *)
TypeDma ==
    /\ own \in [Desc -> BOOLEAN] /\ held \in [Desc -> Frame \cup {None}]
    /\ dmaNext \in Desc /\ fifo \in Frame \cup {None}
    /\ suspended \in BOOLEAN /\ rbus \in BOOLEAN /\ irq \in BOOLEAN /\ running \in BOOLEAN
    /\ arrived \in 0..MaxFrames /\ burst \in 0..MaxBurst /\ resets \in 0..MaxResets
TypeIrq ==
    /\ isr \in {"idle", "test", "take", "give", "post", "clear"}
    /\ DMARxDescToGet \in Desc
    /\ got \in [desc : Desc, frame : Frame \cup {None}, bufs : SUBSET Pbuf]
TypePools ==
    /\ freePbuf \in SUBSET Pbuf /\ freeMsg \in SUBSET Msg /\ reordered \in BOOLEAN
TypeQueue ==
    /\ inp \in [Msg -> [frame : Frame \cup {None}, bufs : SUBSET Pbuf]]
    /\ mbox \in Seq(Msg) /\ Len(mbox) <= MESG_QUEUE_LENGTH
TypeThread ==
    /\ tpc \in {"wait", "count", "input", "free", "pbuf", "msg"}
    /\ IF tpc = "wait" THEN cur = <<>> ELSE cur \in Msg \X Nat
    /\ left \in SUBSET Pbuf /\ putting \in SUBSET Pbuf
    /\ linked \in (SUBSET Pbuf) \cup (SUBSET Msg)
    /\ handled \in Frame \cup {None} /\ clobbered \in BOOLEAN

LEMMA TypeParts == TypeOK <=> TypeDma /\ TypeIrq /\ TypePools /\ TypeQueue /\ TypeThread
  BY DEF TypeOK, TypeDma, TypeIrq, TypePools, TypeQueue, TypeThread

LEMMA Bounds ==
    /\ ETH_RXBUFNB \in Nat \ {0} /\ MaxFrames \in Nat /\ MaxBurst \in Nat /\ MaxResets \in Nat
    /\ MESG_QUEUE_LENGTH \in Nat
    /\ 0 \in Desc /\ None = 0
  BY RxAssumption DEF Desc, None

LEMMA InitType == Init => TypeOK
<1> SUFFICES ASSUME Init PROVE TypeOK
  OBVIOUS
<1>1. TypeDma
  BY Bounds DEF Init, TypeDma
<1>2. TypeIrq
  BY Bounds DEF Init, TypeIrq
<1>3. TypePools
  BY DEF Init, TypePools
<1>4. mbox \in Seq(Msg) /\ Len(mbox) = 0
  BY EmptySeq DEF Init
<1>5. TypeQueue
  BY <1>4, Bounds DEF Init, TypeQueue, Empty
<1>6. TypeThread
  BY DEF Init, TypeThread
<1> QED
  BY <1>1, <1>2, <1>3, <1>5, <1>6, TypeParts

(* Who leaves which variables alone.                                       *)
LEMMA Untouched ==
    /\ FrameArrives \/ DmaStores \/ DmaSuspends \/ LAN8720_Init \/ low_level_init
          => UNCHANGED <<pools, queue, thread>> /\ UNCHANGED <<isr, got>>
    /\ FrameArrives \/ DmaStores \/ DmaSuspends \/ LAN8720_Init => UNCHANGED DMARxDescToGet
    /\ ETH_IRQHandler => UNCHANGED <<thread, resets>>
    /\ Interrupt \/ Test \/ Give \/ Clear => UNCHANGED <<pools, queue, DMARxDescToGet, got>>
    /\ Take => UNCHANGED <<dma, queue, freeMsg>>
    /\ Interrupt \/ Post => UNCHANGED <<dma, DMARxDescToGet>>
    /\ tcpip_thread => UNCHANGED <<dma, resets, irqh>> /\ isr = "idle" /\ ~clobbered
<1>1. /\ FrameArrives \/ DmaStores \/ DmaSuspends \/ LAN8720_Init \/ low_level_init
            => UNCHANGED <<pools, queue, thread>> /\ UNCHANGED <<isr, got>>
      /\ FrameArrives \/ DmaStores \/ DmaSuspends \/ LAN8720_Init => UNCHANGED DMARxDescToGet
  BY DEF FrameArrives, DmaStores, DmaSuspends, LAN8720_Init, low_level_init, irqh
<1>2. /\ ETH_IRQHandler => UNCHANGED <<thread, resets>>
      /\ Interrupt \/ Test \/ Give \/ Clear => UNCHANGED <<pools, queue, DMARxDescToGet, got>>
      /\ Take => UNCHANGED <<dma, queue, freeMsg>>
      /\ Interrupt \/ Post => UNCHANGED <<dma, DMARxDescToGet>>
  BY DEF ETH_IRQHandler, Interrupt, Test, Take, Give, Post, Clear
<1>3. tcpip_thread => UNCHANGED <<dma, resets, irqh>> /\ isr = "idle" /\ ~clobbered
  BY DEF tcpip_thread, memp_free, FetchCopies, FetchCounts, Input, LinkPbuf, StorePbuf,
         LinkMsg, StoreMsg, Runs
<1> QED
  BY <1>1, <1>2, <1>3

LEMMA StepTypeDma ==
    ASSUME TypeOK, Next
    PROVE  TypeDma'
<1> USE TypeParts, Bounds
<1>1. CASE FrameArrives
  <2>1. arrived' \in 0..MaxFrames /\ fifo' \in Frame \cup {None}
    BY <1>1 DEF FrameArrives, TypeDma, Frame
  <2> QED
    BY <1>1, <2>1 DEF FrameArrives, TypeDma
<1>2. CASE DmaStores
  BY <1>2, AfterIs DEF DmaStores, TypeDma
<1>3. CASE DmaSuspends
  BY <1>3 DEF DmaSuspends, TypeDma
<1>4. CASE LAN8720_Init
  <2>1. resets' \in 0..MaxResets
    BY <1>4 DEF LAN8720_Init, TypeDma
  <2> QED
    BY <1>4, <2>1 DEF LAN8720_Init, TypeDma
<1>5. CASE low_level_init
  BY <1>5 DEF low_level_init, TypeDma
<1>6. CASE Interrupt \/ Take \/ Post \/ tcpip_thread
  BY <1>6, Untouched DEF dma, TypeDma, ETH_IRQHandler
<1>7. CASE Test
  BY <1>7 DEF Test, TypeDma
<1>8. CASE Give
  BY <1>8 DEF Give, TypeDma, TypeIrq
<1>9. CASE Clear
  BY <1>9 DEF Clear, TypeDma
<1> QED
  BY <1>1, <1>2, <1>3, <1>4, <1>5, <1>6, <1>7, <1>8, <1>9 DEF Next, Dma, ETH_IRQHandler

LEMMA StepTypeIrq ==
    ASSUME TypeOK, Next
    PROVE  TypeIrq'
<1> USE TypeParts, Bounds
<1>1. CASE FrameArrives \/ DmaStores \/ DmaSuspends \/ LAN8720_Init
  BY <1>1, Untouched DEF TypeIrq
<1>2. CASE low_level_init
  BY <1>2, Untouched DEF low_level_init, TypeIrq
<1>3. CASE Interrupt \/ Test \/ Give \/ Clear
  <2>1. isr' \in {"idle", "test", "take", "give", "post", "clear"}
    BY <1>3 DEF Interrupt, Test, Give, Clear
  <2> QED
    BY <1>3, <2>1, Untouched DEF TypeIrq
<1>4. CASE Take
  <2>1. got' \in [desc : Desc, frame : Frame \cup {None}, bufs : SUBSET Pbuf] /\ isr' = "give"
    BY <1>4 DEF Take, Short, TypeIrq, TypePools, TypeDma
  <2> QED
    BY <1>4, <2>1, AfterIs DEF Take, TypeIrq
<1>5. CASE Post
  <2>1. got' \in [desc : Desc, frame : Frame \cup {None}, bufs : SUBSET Pbuf] /\ isr' = "test"
    BY <1>5 DEF Post, TypeIrq
  <2> QED
    BY <1>5, <2>1, Untouched DEF TypeIrq
<1>6. CASE tcpip_thread
  BY <1>6, Untouched DEF irqh, TypeIrq
<1> QED
  BY <1>1, <1>2, <1>3, <1>4, <1>5, <1>6 DEF Next, Dma, ETH_IRQHandler

LEMMA StepTypePools ==
    ASSUME TypeOK, Next
    PROVE  TypePools'
<1> USE TypeParts
<1> USE DEF pools, TypePools
<1>1. CASE FrameArrives \/ DmaStores \/ DmaSuspends \/ LAN8720_Init \/ low_level_init
           \/ Interrupt \/ Test \/ Give \/ Clear
  BY <1>1, Untouched
<1>2. CASE Take
  BY <1>2 DEF Take, Short, GiveBack, Turned
<1>3. CASE Post
  BY <1>3 DEF Post, Posted, Refused, GiveBack, Turned, TypeIrq
<1>4. CASE FetchCopies \/ FetchCounts \/ Input \/ LinkMsg
  BY <1>4 DEF FetchCopies, FetchCounts, Input, LinkMsg
<1>5. CASE LinkPbuf
  BY <1>5 DEF LinkPbuf
<1>6. CASE StorePbuf
  BY <1>6 DEF StorePbuf, TypeThread
<1>7. CASE StoreMsg
  BY <1>7 DEF StoreMsg, Runs, TypeThread
<1> QED
  BY <1>1, <1>2, <1>3, <1>4, <1>5, <1>6, <1>7
  DEF Next, Dma, ETH_IRQHandler, tcpip_thread, memp_free

(* What posting does to the mailbox, and what fetching does.               *)
LEMMA Appended ==
    ASSUME TypeOK, NEW m \in Msg
    PROVE  /\ Append(mbox, m) \in Seq(Msg) /\ Len(Append(mbox, m)) = Len(mbox) + 1
           /\ Len(mbox) \in Nat
           /\ \A i \in 1..Len(mbox) : Append(mbox, m)[i] = mbox[i]
           /\ Append(mbox, m)[Len(mbox) + 1] = m
  BY AppendProperties, LenProperties DEF TypeOK

LEMMA Fetched ==
    ASSUME TypeOK, mbox # <<>>
    PROVE  /\ Head(mbox) = mbox[1] /\ mbox[1] \in Msg
           /\ Tail(mbox) \in Seq(Msg) /\ Len(Tail(mbox)) = Len(mbox) - 1 /\ Len(mbox) \in Nat \ {0}
           /\ \A i \in 1..(Len(mbox) - 1) : Tail(mbox)[i] = mbox[i + 1]
  BY HeadTailProperties, LenProperties, EmptySeq DEF TypeOK

LEMMA StepTypeQueue ==
    ASSUME TypeOK, PlacesInv, Next
    PROVE  TypeQueue'
<1> USE TypeParts, Bounds
<1> USE DEF queue, TypeQueue
<1>1. CASE FrameArrives \/ DmaStores \/ DmaSuspends \/ LAN8720_Init \/ low_level_init
           \/ Interrupt \/ Test \/ Give \/ Clear \/ Take
  BY <1>1, Untouched
<1>2. CASE Post /\ Posted
  <2>1. PICK m \in freeMsg : /\ inp' = [inp EXCEPT ![m] = [frame |-> got.frame, bufs |-> got.bufs]]
                             /\ mbox' = Append(mbox, m)
    BY <1>2 DEF Posted
  <2>2. m \in Msg /\ Len(mbox) < MESG_QUEUE_LENGTH
    BY <1>2 DEF Posted, TypePools
  <2>3. mbox' \in Seq(Msg) /\ Len(mbox') <= MESG_QUEUE_LENGTH
    BY <2>1, <2>2, Appended
  <2>4. inp' \in [Msg -> [frame : Frame \cup {None}, bufs : SUBSET Pbuf]]
    BY <2>1 DEF TypeIrq
  <2> QED
    BY <2>3, <2>4
<1>3. CASE Post /\ Refused
  BY <1>3 DEF Refused
<1>4. CASE FetchCopies \/ LinkPbuf \/ StorePbuf \/ LinkMsg \/ StoreMsg
  BY <1>4 DEF FetchCopies, LinkPbuf, StorePbuf, LinkMsg, StoreMsg
<1>5. CASE FetchCounts
  <2>1. mbox # <<>>
    BY <1>5 DEF FetchCounts, Runs, PlacesInv
  <2>2. inp' = inp /\ mbox' = Tail(mbox)
    BY <1>5 DEF FetchCounts
  <2> QED
    BY <2>1, <2>2, Fetched
<1>6. CASE Input
  <2>1. Empty \in [frame : Frame \cup {None}, bufs : SUBSET Pbuf]
    BY DEF Empty
  <2> QED
    BY <1>6, <2>1 DEF Input
<1> QED
  BY <1>1, <1>2, <1>3, <1>4, <1>5, <1>6
  DEF Next, Dma, ETH_IRQHandler, tcpip_thread, memp_free, Post

LEMMA StepTypeThread ==
    ASSUME TypeOK, PlacesInv, Next
    PROVE  TypeThread'
<1> USE TypeParts
<1> USE DEF thread, TypeThread
<1>1. CASE FrameArrives \/ DmaStores \/ DmaSuspends \/ LAN8720_Init \/ low_level_init
           \/ ETH_IRQHandler
  BY <1>1, Untouched
<1>2. CASE FetchCopies
  <2>1. Head(mbox) \in Msg /\ Len(mbox) \in Nat
    BY <1>2, Fetched DEF FetchCopies
  <2> QED
    BY <1>2, <2>1 DEF FetchCopies
<1>3. CASE FetchCounts
  BY <1>3 DEF FetchCounts, Runs
<1>4. CASE Input
  <2>1. cur \in Msg \X Nat
    BY <1>4 DEF Input, Runs
  <2>2. inp[cur[1]] \in [frame : Frame \cup {None}, bufs : SUBSET Pbuf]
    BY <2>1 DEF TypeQueue
  <2> QED
    BY <1>4, <2>1, <2>2 DEF Input
<1>5. CASE LinkPbuf
  BY <1>5 DEF LinkPbuf, Runs, TypePools
<1>6. CASE StorePbuf
  BY <1>6 DEF StorePbuf, Runs
<1>7. CASE LinkMsg
  <2>1. linked' \in SUBSET Msg /\ tpc = "free" /\ tpc' = "msg"
    BY <1>7 DEF LinkMsg, Runs, TypePools
  <2>2. linked' \in (SUBSET Pbuf) \cup (SUBSET Msg)
    BY <2>1
  <2>3. cur' \in Msg \X Nat
    BY <1>7, <2>1 DEF LinkMsg
  <2>4. left' \in SUBSET Pbuf /\ putting' \in SUBSET Pbuf /\ handled' \in Frame \cup {None}
        /\ clobbered' \in BOOLEAN
    BY <1>7 DEF LinkMsg
  <2> QED
    BY <2>1, <2>2, <2>3, <2>4
<1>8. CASE StoreMsg
  BY <1>8 DEF StoreMsg, Runs
<1> QED
  BY <1>1, <1>2, <1>3, <1>4, <1>5, <1>6, <1>7, <1>8
  DEF Next, Dma, tcpip_thread, memp_free

LEMMA StepType ==
    ASSUME TypeOK, PlacesInv, Next
    PROVE  TypeOK'
<1>1. TypeDma' /\ TypeIrq' /\ TypePools' /\ TypeQueue' /\ TypeThread'
  BY StepTypeDma, StepTypeIrq, StepTypePools, StepTypeQueue, StepTypeThread
<1> QED
  BY <1>1 DEF TypeOK, TypeDma, TypeIrq, TypePools, TypeQueue, TypeThread

-----------------------------------------------------------------------------
(* Who holds the pbufs and the messages.                                   *)

PbufPlaced ==
    \A b \in Pbuf : \/ b \in freePbuf \cup got.bufs \cup left \cup putting
                    \/ \E m \in Msg : b \in inp[m].bufs
PbufApart ==
    /\ got.bufs \cap freePbuf = {} /\ left \cap freePbuf = {} /\ putting \cap freePbuf = {}
    /\ left \cap got.bufs = {} /\ putting \cap got.bufs = {} /\ left \cap putting = {}
PbufCarried ==
    \A m \in Msg :
      /\ inp[m].bufs \cap (freePbuf \cup got.bufs \cup left \cup putting) = {}
      /\ \A n \in Msg : m # n => inp[m].bufs \cap inp[n].bufs = {}
MsgCarries ==
    \A m \in Msg : inp[m].bufs # {} => m \in Queued \cup MsgInThread
MsgPlaced ==
    /\ freeMsg \cup Queued \cup MsgInThread = Msg
    /\ freeMsg \cap (Queued \cup MsgInThread) = {} /\ Queued \cap MsgInThread = {}
    /\ IsInjective(mbox)
Holders == PbufPlaced /\ PbufApart /\ PbufCarried /\ MsgCarries /\ MsgPlaced

LEMMA OneHolderIs == OneHolder <=> (~clobbered => Holders)
  BY DEF OneHolder, Holders, PbufPlaced, PbufApart, PbufCarried, MsgCarries, MsgPlaced

LEMMA Pairs ==
    ASSUME NEW c \in Msg \X Nat
    PROVE  c # <<>> /\ c[1] \in Msg
<1>1. PICK a \in Msg, n \in Nat : c = <<a, n>>
  OBVIOUS
<1>2. Len(c) = 2 /\ Len(<<>>) = 0
  BY <1>1
<1> QED
  BY <1>1, <1>2

LEMMA AppendedQueue ==
    ASSUME TypeOK, NEW m \in Msg, mbox' = Append(mbox, m)
    PROVE  /\ Queued' = Queued \cup {m}
           /\ m \notin Queued /\ IsInjective(mbox) => IsInjective(mbox')
<1>1. /\ mbox' \in Seq(Msg) /\ Len(mbox') = Len(mbox) + 1 /\ Len(mbox) \in Nat
      /\ \A i \in 1..Len(mbox) : mbox'[i] = mbox[i]
      /\ mbox'[Len(mbox) + 1] = m
  BY Appended
<1>2. /\ Queued = {mbox[i] : i \in 1..Len(mbox)}
      /\ Queued' = {mbox'[i] : i \in 1..(Len(mbox) + 1)}
  <2>1. mbox \in Seq(Msg)
    BY DEF TypeOK
  <2> QED
    BY <1>1, <2>1, LenProperties DEF Queued, Range
<1>3. Queued' = Queued \cup {m}
  BY <1>1, <1>2
<1>4. ASSUME m \notin Queued, IsInjective(mbox) PROVE IsInjective(mbox')
  <2>1. DOMAIN mbox' = 1..(Len(mbox) + 1) /\ DOMAIN mbox = 1..Len(mbox)
    BY <1>1, LenProperties DEF TypeOK
  <2>2. SUFFICES ASSUME NEW i \in 1..(Len(mbox) + 1), NEW j \in 1..(Len(mbox) + 1),
                        mbox'[i] = mbox'[j]
                 PROVE  i = j
    BY <2>1 DEF IsInjective
  <2> QED
    BY <1>1, <1>2, <1>4, <2>1, <2>2 DEF IsInjective
<1> QED
  BY <1>3, <1>4

LEMMA FetchedQueue ==
    ASSUME TypeOK, mbox # <<>>, IsInjective(mbox), mbox' = Tail(mbox)
    PROVE  /\ Queued = Queued' \cup {mbox[1]} /\ mbox[1] \notin Queued'
           /\ IsInjective(mbox')
<1>1. /\ mbox' \in Seq(Msg) /\ Len(mbox') = Len(mbox) - 1 /\ Len(mbox) \in Nat \ {0}
      /\ \A i \in 1..(Len(mbox) - 1) : mbox'[i] = mbox[i + 1]
  BY Fetched
<1>2. DOMAIN mbox' = 1..(Len(mbox) - 1) /\ DOMAIN mbox = 1..Len(mbox)
  BY <1>1, LenProperties DEF TypeOK
<1>3. /\ Queued = {mbox[i] : i \in 1..Len(mbox)}
      /\ Queued' = {mbox'[i] : i \in 1..(Len(mbox) - 1)}
  BY <1>2 DEF Queued, Range
<1>4. \A i, j \in 1..Len(mbox) : mbox[i] = mbox[j] => i = j
  BY <1>2 DEF IsInjective
<1>5. IsInjective(mbox')
  <2>1. SUFFICES ASSUME NEW i \in 1..(Len(mbox) - 1), NEW j \in 1..(Len(mbox) - 1),
                        mbox'[i] = mbox'[j]
                 PROVE  i = j
    BY <1>2 DEF IsInjective
  <2>2. i + 1 \in 1..Len(mbox) /\ j + 1 \in 1..Len(mbox) /\ mbox[i + 1] = mbox[j + 1]
    BY <1>1, <2>1
  <2>3. i + 1 = j + 1
    BY <1>4, <2>2
  <2> QED
    BY <2>3
<1>6. Queued = Queued' \cup {mbox[1]}
  <2>1. ASSUME NEW i \in 1..Len(mbox) PROVE mbox[i] \in Queued' \cup {mbox[1]}
    <3>1. CASE i = 1
      BY <3>1
    <3>2. CASE i # 1
      <4>1. i - 1 \in 1..(Len(mbox) - 1) /\ mbox'[i - 1] = mbox[(i - 1) + 1] /\ (i - 1) + 1 = i
        BY <1>1, <3>2
      <4> QED
        BY <1>3, <4>1
    <3> QED
      BY <3>1, <3>2
  <2>2. ASSUME NEW i \in 1..(Len(mbox) - 1) PROVE mbox'[i] \in Queued
    <3>1. i + 1 \in 1..Len(mbox) /\ mbox'[i] = mbox[i + 1]
      BY <1>1
    <3> QED
      BY <1>3, <3>1
  <2>3. mbox[1] \in Queued
    BY <1>1, <1>3
  <2> QED
    BY <1>3, <2>1, <2>2, <2>3
<1>7. mbox[1] \notin Queued'
  <2>1. SUFFICES ASSUME NEW i \in 1..(Len(mbox) - 1), mbox[1] = mbox'[i] PROVE FALSE
    BY <1>3
  <2>2. 1 \in 1..Len(mbox) /\ i + 1 \in 1..Len(mbox) /\ mbox[1] = mbox[i + 1]
    BY <1>1, <2>1
  <2>3. 1 = i + 1
    BY <1>4, <2>2
  <2> QED
    BY <2>3
<1> QED
  BY <1>5, <1>6, <1>7

(* What the thread holds while it holds a message.                         *)
LEMMA InThread ==
    ASSUME TypeOK
    PROVE  /\ tpc = "wait" => cur = <<>> /\ MsgInThread = {}
           /\ tpc = "count" => MsgInThread = {}
           /\ tpc # "wait" => cur # <<>> /\ cur[1] \in Msg
           /\ tpc \notin {"wait", "count"} => MsgInThread = {cur[1]}
<1>1. tpc # "wait" => cur # <<>> /\ cur[1] \in Msg
  BY Pairs DEF TypeOK
<1> QED
  BY <1>1 DEF TypeOK, MsgInThread

LEMMA TakeHolders ==
    ASSUME TypeOK, PlacesInv, Holders, ~clobbered, Take
    PROVE  Holders' /\ PlacesInv'
<1>1. /\ got'.bufs \subseteq freePbuf /\ freePbuf' = freePbuf \ got'.bufs
      /\ got.bufs = {} /\ isr' = "give"
  <2>1. got.bufs = {}
    BY DEF Take, PlacesInv
  <2> QED
    BY <2>1 DEF Take, Short, GiveBack
<1>2. UNCHANGED <<freeMsg, inp, mbox, tpc, cur, left, putting, clobbered>>
  BY DEF Take, queue, thread
<1>3. Queued' = Queued /\ MsgInThread' = MsgInThread
  BY <1>2 DEF Queued, MsgInThread
<1>4. PbufPlaced'
  BY <1>1, <1>2 DEF Holders, PbufPlaced
<1>5. PbufApart'
  BY <1>1, <1>2 DEF Holders, PbufApart
<1>6. PbufCarried'
  BY <1>1, <1>2 DEF Holders, PbufCarried
<1>7. MsgCarries' /\ MsgPlaced'
  BY <1>2, <1>3 DEF Holders, MsgCarries, MsgPlaced
<1>8. PlacesInv'
  BY <1>1, <1>2 DEF PlacesInv
<1> QED
  BY <1>4, <1>5, <1>6, <1>7, <1>8 DEF Holders

LEMMA PostHolders ==
    ASSUME TypeOK, PlacesInv, Holders, ~clobbered, Post
    PROVE  Holders' /\ PlacesInv'
<1>1. UNCHANGED <<tpc, cur, left, putting, clobbered>> /\ got'.bufs = {} /\ isr' = "test"
  BY DEF Post, thread, TypeOK
<1>2. MsgInThread' = MsgInThread
  BY <1>1 DEF MsgInThread
<1>3. CASE Posted
  <2>1. PICK m \in freeMsg : /\ freeMsg' = freeMsg \ {m}
                             /\ inp' = [inp EXCEPT ![m] = [frame |-> got.frame, bufs |-> got.bufs]]
                             /\ mbox' = Append(mbox, m)
    BY <1>3 DEF Posted
  <2>2. m \in Msg /\ m \notin Queued /\ m \notin MsgInThread
    BY DEF TypeOK, Holders, MsgPlaced
  <2>3. inp[m].bufs = {}
    BY <2>2 DEF Holders, MsgCarries
  <2>4. freePbuf' = freePbuf
    BY <1>3 DEF Posted
  <2>5. inp'[m].bufs = got.bufs /\ \A k \in Msg : k # m => inp'[k] = inp[k]
    BY <2>1, <2>2 DEF TypeOK
  <2>6. Queued' = Queued \cup {m} /\ IsInjective(mbox')
    BY <2>1, <2>2, AppendedQueue DEF Holders, MsgPlaced
  <2>7. PbufPlaced'
    BY <1>1, <2>2, <2>3, <2>4, <2>5 DEF Holders, PbufPlaced
  <2>8. PbufApart'
    BY <1>1, <2>4 DEF Holders, PbufApart
  <2>9. PbufCarried'
    <3>1. \A k \in Msg : inp'[k].bufs \cap (freePbuf' \cup got'.bufs \cup left' \cup putting') = {}
      BY <1>1, <2>4, <2>5 DEF Holders, PbufApart, PbufCarried
    <3>2. \A k, n \in Msg : k # n => inp'[k].bufs \cap inp'[n].bufs = {}
      BY <2>5 DEF Holders, PbufCarried
    <3> QED
      BY <3>1, <3>2 DEF PbufCarried
  <2>10. MsgCarries'
    BY <1>2, <2>5, <2>6 DEF Holders, MsgCarries
  <2>11. MsgPlaced'
    BY <1>2, <2>1, <2>2, <2>6 DEF Holders, MsgPlaced
  <2>12. tpc = "count" => mbox' # <<>> /\ cur[1] = mbox'[1]
    <3>1. tpc = "count" => mbox # <<>> /\ cur[1] = mbox[1]
      BY DEF PlacesInv
    <3> QED
      BY <2>1, <2>2, <3>1, Appended, Fetched
  <2>13. tpc \in {"free", "pbuf", "msg"} => inp'[cur[1]] = Empty
    <3>1. tpc \in {"free", "pbuf", "msg"} => cur[1] \in MsgInThread /\ cur[1] \in Msg
      BY InThread DEF TypeOK
    <3> QED
      BY <2>2, <2>5, <3>1 DEF PlacesInv
  <2>14. PlacesInv'
    BY <1>1, <2>12, <2>13 DEF PlacesInv
  <2> QED
    BY <2>7, <2>8, <2>9, <2>10, <2>11, <2>14 DEF Holders
<1>4. CASE Refused
  <2>1. freePbuf' = freePbuf \cup got.bufs /\ UNCHANGED <<freeMsg, inp, mbox>>
    BY <1>4 DEF Refused, GiveBack, queue
  <2>2. Queued' = Queued
    BY <2>1 DEF Queued
  <2>3. PbufPlaced'
    BY <1>1, <2>1 DEF Holders, PbufPlaced
  <2>4. PbufApart'
    BY <1>1, <2>1 DEF Holders, PbufApart
  <2>5. PbufCarried'
    BY <1>1, <2>1 DEF Holders, PbufCarried
  <2>6. MsgCarries' /\ MsgPlaced'
    BY <1>2, <2>1, <2>2 DEF Holders, MsgCarries, MsgPlaced
  <2>7. PlacesInv'
    BY <1>1, <2>1 DEF PlacesInv
  <2> QED
    BY <2>3, <2>4, <2>5, <2>6, <2>7 DEF Holders
<1> QED
  BY <1>3, <1>4 DEF Post

LEMMA FetchHolders ==
    ASSUME TypeOK, PlacesInv, Holders, FetchCopies \/ FetchCounts
    PROVE  ~clobbered' => Holders' /\ PlacesInv'
<1>1. ~clobbered /\ isr = "idle" /\ UNCHANGED <<irqh, pools, inp, left, putting>>
  BY DEF FetchCopies, FetchCounts, Runs, queue
<1>2. UNCHANGED <<isr, got, freePbuf, freeMsg>> /\ got.bufs = {}
  BY <1>1 DEF irqh, pools, PlacesInv
<1>3. PbufPlaced' /\ PbufApart' /\ PbufCarried'
  BY <1>1, <1>2 DEF Holders, PbufPlaced, PbufApart, PbufCarried
<1>4. CASE FetchCopies
  <2>1. mbox # <<>> /\ mbox' = mbox /\ cur' = <<Head(mbox), Len(mbox)>> /\ tpc' = "count"
        /\ tpc = "wait"
    BY <1>4 DEF FetchCopies, queue, Runs
  <2>2. Queued' = Queued /\ MsgInThread' = MsgInThread
    BY <2>1, InThread DEF Queued, MsgInThread
  <2>3. MsgCarries' /\ MsgPlaced'
    BY <1>1, <1>2, <2>1, <2>2 DEF Holders, MsgCarries, MsgPlaced
  <2>4. cur'[1] = mbox[1]
    BY <2>1, Fetched
  <2>5. PlacesInv'
    BY <1>1, <1>2, <2>1, <2>4 DEF PlacesInv
  <2> QED
    BY <1>3, <2>3, <2>5 DEF Holders
<1>5. CASE FetchCounts
  <2>1. mbox' = Tail(mbox) /\ tpc = "count" /\ tpc' = "input" /\ cur' = cur
    BY <1>5 DEF FetchCounts, Runs
  <2>2. mbox # <<>> /\ cur[1] = mbox[1] /\ cur # <<>>
    BY <1>1, <2>1, InThread DEF PlacesInv
  <2>3. MsgInThread = {} /\ MsgInThread' = {mbox[1]}
    BY <2>1, <2>2, InThread DEF MsgInThread
  <2>4. Queued = Queued' \cup {mbox[1]} /\ mbox[1] \notin Queued' /\ IsInjective(mbox')
    BY <2>1, <2>2, FetchedQueue DEF Holders, MsgPlaced
  <2>5. MsgCarries'
    BY <1>1, <2>3, <2>4 DEF Holders, MsgCarries
  <2>6. MsgPlaced'
    BY <1>2, <2>3, <2>4 DEF Holders, MsgPlaced
  <2>7. PlacesInv'
    BY <1>1, <1>2, <2>1 DEF PlacesInv
  <2> QED
    BY <1>3, <2>5, <2>6, <2>7 DEF Holders
<1> QED
  BY <1>4, <1>5

LEMMA InputHolders ==
    ASSUME TypeOK, PlacesInv, Holders, Input
    PROVE  ~clobbered' => Holders' /\ PlacesInv'
<1>1. ~clobbered /\ isr = "idle" /\ tpc = "input" /\ tpc' = "free"
      /\ UNCHANGED <<irqh, pools, mbox, cur, putting>>
      /\ left' = inp[cur[1]].bufs /\ inp' = [inp EXCEPT ![cur[1]] = Empty]
  BY DEF Input, Runs
<1>2. UNCHANGED <<isr, got, freePbuf, freeMsg>>
  BY <1>1 DEF irqh, pools
<1>3. got.bufs = {} /\ left = {} /\ putting = {}
  BY <1>1 DEF PlacesInv
<1>4. cur # <<>> /\ cur[1] \in Msg
  BY <1>1, InThread
<1>5. inp'[cur[1]] = Empty /\ \A k \in Msg : k # cur[1] => inp'[k] = inp[k]
  BY <1>1, <1>4 DEF TypeOK
<1>6. Queued' = Queued /\ MsgInThread' = MsgInThread
  BY <1>1 DEF Queued, MsgInThread
<1>7. PbufPlaced'
  BY <1>1, <1>2, <1>3, <1>4, <1>5 DEF Holders, PbufPlaced, Empty
<1>8. PbufApart'
  BY <1>1, <1>2, <1>3, <1>4 DEF Holders, PbufApart, PbufCarried
<1>9. PbufCarried'
  BY <1>1, <1>2, <1>3, <1>4, <1>5 DEF Holders, PbufCarried, Empty
<1>10. MsgCarries' /\ MsgPlaced'
  BY <1>1, <1>2, <1>5, <1>6 DEF Holders, MsgCarries, MsgPlaced, Empty
<1>11. PlacesInv'
  BY <1>1, <1>2, <1>3, <1>5 DEF PlacesInv
<1> QED
  BY <1>7, <1>8, <1>9, <1>10, <1>11 DEF Holders

LEMMA FreeHolders ==
    ASSUME TypeOK, PlacesInv, Holders, memp_free
    PROVE  ~clobbered' => Holders' /\ PlacesInv'
<1>1. ~clobbered /\ isr = "idle" /\ UNCHANGED <<irqh, queue>>
  BY DEF memp_free, LinkPbuf, StorePbuf, LinkMsg, StoreMsg, Runs
<1>2. UNCHANGED <<isr, got, inp, mbox>> /\ got.bufs = {}
  BY <1>1 DEF irqh, queue, PlacesInv
<1>3. Queued' = Queued
  BY <1>2 DEF Queued
<1>4. CASE LinkPbuf
  <2>1. /\ tpc = "free" /\ tpc' = "pbuf" /\ UNCHANGED <<cur, freePbuf, freeMsg>>
        /\ putting = {} /\ \E b \in left : putting' = {b} /\ left' = left \ {b}
    BY <1>1, <1>4 DEF LinkPbuf, Runs, PlacesInv
  <2>2. MsgInThread' = MsgInThread
    BY <2>1 DEF MsgInThread
  <2>3. left' \cup putting' = left \cup putting /\ left' \cap putting' = {}
        /\ left' \subseteq left /\ putting' \subseteq left
    BY <2>1
  <2>4. PbufPlaced'
    BY <1>2, <2>1, <2>3 DEF Holders, PbufPlaced
  <2>5. PbufApart'
    BY <1>2, <2>1, <2>3 DEF Holders, PbufApart
  <2>6. PbufCarried'
    BY <1>2, <2>1, <2>3 DEF Holders, PbufCarried
  <2>7. MsgCarries' /\ MsgPlaced'
    BY <1>2, <1>3, <2>1, <2>2 DEF Holders, MsgCarries, MsgPlaced
  <2>8. PlacesInv'
    BY <1>1, <1>2, <2>1 DEF PlacesInv
  <2> QED
    BY <2>4, <2>5, <2>6, <2>7, <2>8 DEF Holders
<1>5. CASE StorePbuf
  <2>1. /\ tpc = "pbuf" /\ tpc' = "free" /\ UNCHANGED <<cur, left, freeMsg>>
        /\ freePbuf' = freePbuf \cup putting /\ putting' = {}
    BY <1>1, <1>5 DEF StorePbuf, Runs
  <2>2. MsgInThread' = MsgInThread
    BY <2>1 DEF MsgInThread
  <2>3. PbufPlaced'
    BY <1>2, <2>1 DEF Holders, PbufPlaced
  <2>4. PbufApart'
    BY <1>2, <2>1 DEF Holders, PbufApart
  <2>5. PbufCarried'
    BY <1>2, <2>1 DEF Holders, PbufCarried
  <2>6. MsgCarries' /\ MsgPlaced'
    BY <1>2, <1>3, <2>1, <2>2 DEF Holders, MsgCarries, MsgPlaced
  <2>7. PlacesInv'
    BY <1>1, <1>2, <2>1 DEF PlacesInv
  <2> QED
    BY <2>3, <2>4, <2>5, <2>6, <2>7 DEF Holders
<1>6. CASE LinkMsg
  <2>1. tpc = "free" /\ left = {} /\ tpc' = "msg" /\ UNCHANGED <<cur, left, putting, freePbuf, freeMsg>>
    BY <1>6 DEF LinkMsg, Runs, pools
  <2>2. MsgInThread' = MsgInThread
    BY <2>1 DEF MsgInThread
  <2>3. PbufPlaced' /\ PbufApart' /\ PbufCarried'
    BY <1>2, <2>1 DEF Holders, PbufPlaced, PbufApart, PbufCarried
  <2>4. MsgCarries' /\ MsgPlaced'
    BY <1>2, <1>3, <2>1, <2>2 DEF Holders, MsgCarries, MsgPlaced
  <2>5. PlacesInv'
    BY <1>1, <1>2, <2>1 DEF PlacesInv
  <2> QED
    BY <2>3, <2>4, <2>5 DEF Holders
<1>7. CASE StoreMsg
  <2>1. /\ tpc = "msg" /\ tpc' = "wait" /\ cur' = <<>> /\ UNCHANGED <<freePbuf, left, putting>>
        /\ freeMsg' = freeMsg \cup {cur[1]}
    BY <1>7 DEF StoreMsg, Runs
  <2>2. MsgInThread = {cur[1]} /\ MsgInThread' = {} /\ cur[1] \in Msg
    BY <2>1, InThread DEF MsgInThread
  <2>3. inp[cur[1]].bufs = {}
    BY <1>1, <2>1 DEF PlacesInv, Empty
  <2>4. PbufPlaced' /\ PbufApart' /\ PbufCarried'
    BY <1>2, <2>1 DEF Holders, PbufPlaced, PbufApart, PbufCarried
  <2>5. MsgCarries'
    BY <1>2, <1>3, <2>2, <2>3 DEF Holders, MsgCarries
  <2>6. MsgPlaced'
    BY <1>2, <1>3, <2>1, <2>2 DEF Holders, MsgPlaced
  <2>7. PlacesInv'
    BY <1>1, <1>2, <2>1 DEF PlacesInv
  <2> QED
    BY <2>4, <2>5, <2>6, <2>7 DEF Holders
<1> QED
  BY <1>4, <1>5, <1>6, <1>7 DEF memp_free

LEMMA StepHolders ==
    ASSUME TypeOK, PlacesInv, OneHolder, Next
    PROVE  OneHolder' /\ PlacesInv'
<1>1. ~clobbered /\ Holders
  BY OneHolderIs DEF Next
<1>2. OneHolder' <=> (~clobbered' => Holders')
  BY DEF OneHolder, Holders, PbufPlaced, PbufApart, PbufCarried, MsgCarries, MsgPlaced
<1>3. SUFFICES ~clobbered' => Holders' /\ PlacesInv'
  BY <1>2 DEF PlacesInv
<1>4. CASE FrameArrives \/ Dma \/ LAN8720_Init \/ low_level_init \/ Interrupt \/ Test \/ Give \/ Clear
  <2>1. UNCHANGED <<pools, queue, thread, got>>
    BY <1>4, Untouched DEF Dma, ETH_IRQHandler
  <2>2. UNCHANGED <<freePbuf, freeMsg, inp, mbox, tpc, cur, left, putting, clobbered, got>>
    BY <2>1 DEF pools, queue, thread
  <2>3. Holders'
    <3>1. Queued' = Queued /\ MsgInThread' = MsgInThread
      BY <2>2 DEF Queued, MsgInThread
    <3> QED
      BY <1>1, <2>2, <3>1
      DEF Holders, PbufPlaced, PbufApart, PbufCarried, MsgCarries, MsgPlaced
  <2>4. /\ isr' \notin {"give", "post"} => got.bufs = {}
        /\ isr' = "post" => got.bufs # {}
    <3>1. CASE FrameArrives \/ Dma \/ LAN8720_Init \/ low_level_init
      BY <1>1, <3>1, Untouched DEF PlacesInv, Dma
    <3>2. CASE Interrupt \/ Test \/ Clear
      BY <1>1, <3>2 DEF PlacesInv, Interrupt, Test, Clear
    <3>3. CASE Give
      BY <1>1, <3>3 DEF PlacesInv, Give
    <3> QED
      BY <1>4, <3>1, <3>2, <3>3
  <2>5. PlacesInv'
    BY <1>1, <2>2, <2>4 DEF PlacesInv
  <2> QED
    BY <2>3, <2>5
<1> QED
  BY <1>1, <1>4, TakeHolders, PostHolders, FetchHolders, InputHolders, FreeHolders
  DEF Next, ETH_IRQHandler, tcpip_thread

LEMMA InitHolders == Init => OneHolder /\ PlacesInv
<1> SUFFICES ASSUME Init PROVE OneHolder /\ PlacesInv
  OBVIOUS
<1>1. Queued = {} /\ MsgInThread = {} /\ IsInjective(mbox)
  BY DEF Init, Queued, Range, MsgInThread, IsInjective
<1>2. Holders
  BY <1>1 DEF Init, Holders, PbufPlaced, PbufApart, PbufCarried, MsgCarries, MsgPlaced, Empty
<1>3. PlacesInv
  BY DEF Init, PlacesInv
<1> QED
  BY <1>2, <1>3, OneHolderIs

(* Nothing changes in a stuttering step.                                   *)
LEMMA StutterHolders ==
    ASSUME UNCHANGED vars, TypeOK, OneHolder, PlacesInv
    PROVE  TypeOK' /\ OneHolder' /\ PlacesInv'
<1>1. UNCHANGED <<dma, resets, irqh, pools, queue, thread>>
  BY DEF vars
<1>2. UNCHANGED <<own, held, dmaNext, fifo, suspended, rbus, irq, running, arrived, burst,
                  resets, DMARxDescToGet, isr, got, freePbuf, freeMsg, reordered, inp, mbox,
                  tpc, cur, left, putting, linked, handled, clobbered>>
  BY <1>1 DEF dma, irqh, pools, queue, thread
<1>3. Queued' = Queued /\ MsgInThread' = MsgInThread
  BY <1>2 DEF Queued, MsgInThread
<1>4. TypeOK'
  BY <1>2 DEF TypeOK
<1>5. OneHolder'
  BY <1>2, <1>3 DEF OneHolder
<1>6. PlacesInv'
  BY <1>2 DEF PlacesInv
<1> QED
  BY <1>4, <1>5, <1>6

(* Every variable keeps its type: what the interrupt and the controller    *)
(* store stays within the ring, the pools and the mailbox.                 *)
THEOREM TypeCorrect == Spec => []TypeOK
<1>1. Init => TypeOK /\ OneHolder /\ PlacesInv
  BY InitType, InitHolders
<1>2. TypeOK /\ OneHolder /\ PlacesInv /\ [Next]_vars => (TypeOK /\ OneHolder /\ PlacesInv)'
  BY StepType, StepHolders, StutterHolders
<1> QED
  BY <1>1, <1>2, PTL DEF Spec

(* While no list is clobbered every pbuf and every message of the pools    *)
(* has one holder, whatever runs out and wherever the interrupt comes.     *)
THEOREM HeldOnce == Spec => []OneHolder
<1>1. Init => TypeOK /\ OneHolder /\ PlacesInv
  BY InitType, InitHolders
<1>2. TypeOK /\ OneHolder /\ PlacesInv /\ [Next]_vars => (TypeOK /\ OneHolder /\ PlacesInv)'
  BY StepType, StepHolders, StutterHolders
<1> QED
  BY <1>1, <1>2, PTL DEF Spec

-----------------------------------------------------------------------------
(* The interrupt and the DMA on the ring.                                  *)

LEMMA FirstType == TypeOK => First \in Desc
  BY DEF TypeOK, First

(* Steps that leave the descriptors and the first position alone.          *)
LEMMA RingKept ==
    ASSUME RingInv, NEW n \in 0..ETH_RXBUFNB, RingAt(n),
           UNCHANGED <<own, held, dmaNext>>, First' = First,
           isr' \in {"take", "give"} => n > 0,
           isr' = "clear" => n <= burst',
           isr' = "idle" /\ ~irq' => n <= MaxBurst
    PROVE  RingAt(n)'
  BY DEF RingAt

LEMMA StoresRing ==
    ASSUME TypeOK, RingInv, DmaStores
    PROVE  RingInv'
<1>1. fifo # None /\ own[dmaNext] /\ running /\ running' = running
  BY DEF RingInv, DmaStores
<1>2. UNCHANGED <<isr, got, DMARxDescToGet, arrived>> /\ First' = First
  BY Untouched DEF First, DmaStores
<1>3. /\ own' = [own EXCEPT ![dmaNext] = FALSE] /\ held' = [held EXCEPT ![dmaNext] = fifo]
      /\ dmaNext' = After(dmaNext) /\ fifo' = None /\ irq' = TRUE
      /\ burst' = IF isr = "clear" THEN burst + 1 ELSE burst
  BY DEF DmaStores
<1>4. PICK n \in 0..ETH_RXBUFNB : RingAt(n)
  BY <1>1 DEF RingInv
<1> DEFINE f == First
<1>5. f \in Desc /\ dmaNext \in Desc
  BY FirstType DEF TypeOK
<1>6. \A d \in Desc : Dist(d, f) \in Desc
  BY <1>5, DistProperties
<1>7. n \in Desc
  <2>1. SUFFICES n # ETH_RXBUFNB
    BY Bounds DEF Desc
  <2>2. CASE n = ETH_RXBUFNB
    <3>1. Dist(dmaNext, f) < n
      BY <1>5, <1>6, <2>2, Bounds DEF Desc
    <3> QED
      BY <1>1, <1>4, <1>5, <3>1 DEF RingAt
  <2> QED
    BY <2>2
<1>8. dmaNext = Shift(f, n) /\ Dist(dmaNext, f) = n
  BY <1>4, <1>5, <1>7, DistProperties DEF RingAt
<1>9. \A d \in Desc : Dist(d, f) = n => d = dmaNext
  BY <1>5, <1>8, DistProperties
<1>10. \A d \in Desc : /\ own'[d] = IF d = dmaNext THEN FALSE ELSE own[d]
                       /\ held'[d] = IF d = dmaNext THEN fifo ELSE held[d]
  BY <1>3 DEF TypeOK
<1>11. \A d \in Desc : ~own[d] <=> Dist(d, f) < n
  BY <1>4 DEF RingAt
<1>12. \A d \in Desc : ~own[d] => held[d] # None /\ held[d] <= arrived /\ held[d] < fifo
  BY <1>1 DEF RingInv, Filled
<1>13. ASSUME NEW d \in Desc PROVE ~own'[d] <=> Dist(d, f) < n + 1
  <2>1. CASE d = dmaNext
    <3>1. own'[d] = FALSE
      BY <1>10, <2>1
    <3>2. Dist(d, f) = n
      BY <1>8, <2>1
    <3>3. n < n + 1
      BY <1>7, Bounds DEF Desc
    <3> QED
      BY <3>1, <3>2, <3>3
  <2>2. CASE d # dmaNext
    <3>1. Dist(d, f) # n /\ Dist(d, f) \in Desc /\ own'[d] = own[d]
      BY <1>6, <1>9, <1>10, <2>2
    <3> QED
      BY <1>7, <1>11, <3>1 DEF Desc
  <2> QED
    BY <2>1, <2>2
<1>14. ASSUME NEW d \in Desc, NEW e \in Desc, Dist(d, f) < Dist(e, f), Dist(e, f) < n + 1
       PROVE  held'[d] < held'[e]
  <2>1. d # dmaNext /\ Dist(d, f) < n
    BY <1>6, <1>7, <1>8, <1>14 DEF Desc
  <2>2. held'[d] = held[d] /\ held[d] < fifo
    BY <1>10, <1>11, <1>12, <2>1
  <2>3. CASE e = dmaNext
    BY <1>10, <2>2, <2>3
  <2>4. CASE e # dmaNext
    <3>1. ~own'[e] /\ held'[e] = held[e] /\ own'[e] = own[e]
      BY <1>10, <1>13, <1>14, <2>4
    <3>2. Dist(e, f) < n
      BY <1>11, <3>1
    <3> QED
      BY <1>4, <1>14, <2>2, <3>1, <3>2 DEF RingAt
  <2> QED
    BY <2>3, <2>4
<1>15. dmaNext' = Shift(f, n + 1)
  BY <1>3, <1>5, <1>7, <1>8, NextStored
<1>16. n + 1 \in 0..ETH_RXBUFNB /\ n + 1 > 0
  BY <1>7, Bounds DEF Desc
<1>17. isr = "clear" => n + 1 <= burst'
  BY <1>3, <1>4, <1>7, Bounds DEF RingAt, TypeOK, Desc
<1>18. RingAt(n + 1)'
  BY <1>2, <1>3, <1>13, <1>14, <1>15, <1>16, <1>17 DEF RingAt
<1>19. \A d \in Filled' : held'[d] # None /\ held'[d] <= arrived'
  BY <1>1, <1>2, <1>10, <1>12 DEF Filled, RingInv
<1>20. fifo' <= arrived'
  BY <1>2, <1>3, Bounds DEF TypeOK
<1>21. isr' = "give" => DMARxDescToGet' = After(got.desc)'
  BY <1>2 DEF RingInv, After
<1> QED
  BY <1>1, <1>3, <1>16, <1>18, <1>19, <1>20, <1>21 DEF RingInv

LEMMA GiveRing ==
    ASSUME TypeOK, RingInv, Give
    PROVE  RingInv'
<1>1. /\ isr = "give" /\ isr' \in {"test", "post"} /\ UNCHANGED <<held, dmaNext, fifo, running, arrived, burst>>
      /\ UNCHANGED <<DMARxDescToGet, got>> /\ own' = [own EXCEPT ![got.desc] = TRUE]
  BY DEF Give
<1>2. running /\ First = got.desc /\ First' = After(First) /\ DMARxDescToGet = After(got.desc)
  BY <1>1 DEF RingInv, First, After
<1>3. PICK n \in 0..ETH_RXBUFNB : RingAt(n)
  BY <1>2 DEF RingInv
<1> DEFINE f == First
<1>4. f \in Desc
  BY FirstType
<1>5. n \in 1..ETH_RXBUFNB /\ n - 1 \in 0..ETH_RXBUFNB
  <2>1. n > 0
    BY <1>1, <1>3 DEF RingAt
  <2> QED
    BY <2>1, Bounds
<1>6. /\ \A d \in Desc : Dist(d, First') = IF d = f THEN ETH_RXBUFNB - 1 ELSE Dist(d, f) - 1
      /\ Shift(First', n - 1) = Shift(f, n)
  BY <1>2, <1>4, <1>5, NextFirst
<1>7. \A d \in Desc : Dist(d, f) \in Desc /\ (Dist(d, f) = 0 <=> d = f)
  BY <1>4, DistProperties
<1>8. \A d \in Desc : own'[d] = IF d = f THEN TRUE ELSE own[d]
  BY <1>1, <1>2 DEF TypeOK
<1>9. \A d \in Desc : ~own[d] <=> Dist(d, f) < n
  BY <1>3 DEF RingAt
<1>10. ASSUME NEW d \in Desc PROVE ~own'[d] <=> Dist(d, First') < n - 1
  <2>1. CASE d = f
    <3>1. own'[d] = TRUE
      BY <1>8, <2>1
    <3>2. Dist(d, First') = ETH_RXBUFNB - 1
      BY <1>6, <2>1
    <3>3. ~(ETH_RXBUFNB - 1 < n - 1)
      BY <1>5, Bounds
    <3> QED
      BY <3>1, <3>2, <3>3
  <2>2. CASE d # f
    <3>1. own'[d] = own[d] /\ Dist(d, First') = Dist(d, f) - 1 /\ Dist(d, f) \in Desc
      BY <1>6, <1>7, <1>8, <2>2
    <3> QED
      BY <1>5, <1>9, <3>1 DEF Desc
  <2> QED
    BY <2>1, <2>2
<1>11. ASSUME NEW d \in Desc, NEW e \in Desc, Dist(d, First') < Dist(e, First'), Dist(e, First') < n - 1
       PROVE  held'[d] < held'[e]
  <2>1. Dist(d, f) < Dist(e, f) /\ Dist(e, f) < n
    BY <1>5, <1>6, <1>7, <1>11, Bounds DEF Desc
  <2> QED
    BY <1>1, <1>3, <2>1 DEF RingAt
<1>12. RingAt(n - 1)'
  BY <1>1, <1>3, <1>6, <1>10, <1>11 DEF RingAt
<1>13. Filled' \subseteq Filled
  BY <1>8 DEF Filled
<1> QED
  BY <1>1, <1>2, <1>5, <1>12, <1>13 DEF RingInv

LEMMA StepRing ==
    ASSUME TypeOK, RingInv, Next
    PROVE  RingInv'
<1> USE Bounds
<1>1. CASE FrameArrives
  <2>1. /\ running /\ running' /\ arrived' = arrived + 1 /\ fifo' = IF fifo = None THEN arrived + 1 ELSE fifo
        /\ UNCHANGED <<own, held, dmaNext, irq, burst, isr, got, DMARxDescToGet>>
    BY <1>1, Untouched DEF FrameArrives
  <2>2. PICK n \in 0..ETH_RXBUFNB : RingAt(n)
    BY <2>1 DEF RingInv
  <2>3. RingAt(n)'
    BY <2>1, <2>2, RingKept DEF RingAt, First
  <2>4. \A d \in Filled' : /\ held'[d] # None /\ held'[d] <= arrived'
                           /\ fifo' # None => held'[d] < fifo'
    <3>1. \A d \in Desc : held[d] \in Int
      BY DEF TypeOK, Frame
    <3> QED
      BY <2>1, <3>1 DEF RingInv, Filled, TypeOK
  <2>5. fifo' <= arrived'
    BY <2>1 DEF RingInv, TypeOK, Frame
  <2> QED
    BY <2>1, <2>3, <2>4, <2>5 DEF RingInv, After
<1>2. CASE DmaStores
  BY <1>2, StoresRing
<1>3. CASE DmaSuspends \/ tcpip_thread
  <2>1. UNCHANGED <<running, arrived, fifo, own, held, dmaNext, irq, burst, isr, got, DMARxDescToGet>>
    BY <1>3, Untouched DEF DmaSuspends, dma, irqh
  <2>2. First' = First /\ Filled' = Filled
    BY <2>1 DEF First, Filled
  <2>3. \A n \in 0..ETH_RXBUFNB : RingAt(n) => RingAt(n)'
    BY <2>1, <2>2 DEF RingAt
  <2> QED
    BY <2>1, <2>2, <2>3 DEF RingInv, After
<1>4. CASE LAN8720_Init
  <2>1. /\ isr' = "idle" /\ running' = FALSE /\ fifo' = None /\ irq' = FALSE
        /\ UNCHANGED <<own, held, arrived>>
    BY <1>4, Untouched DEF LAN8720_Init
  <2> QED
    BY <2>1 DEF RingInv, Filled, TypeOK
<1>5. CASE low_level_init
  <2>1. /\ isr' = "idle" /\ ~running /\ own' = [d \in Desc |-> TRUE] /\ DMARxDescToGet' = 0
        /\ dmaNext' = 0 /\ running' /\ UNCHANGED <<fifo, arrived>>
    BY <1>5, Untouched DEF low_level_init
  <2>2. Filled' = {} /\ First' = 0
    BY <2>1 DEF Filled, First
  <2>3. \A d \in Desc : Dist(d, 0) \in Desc
    BY DistProperties
  <2>4. Shift(0, 0) = 0
    BY ShiftIs
  <2>5. RingAt(0)'
    BY <2>1, <2>2, <2>3, <2>4 DEF RingAt, Desc
  <2>6. 0 \in 0..ETH_RXBUFNB
    OBVIOUS
  <2>7. fifo' <= arrived'
    BY <2>1 DEF RingInv
  <2> QED
    BY <2>1, <2>2, <2>5, <2>6, <2>7 DEF RingInv
<1>6. CASE Interrupt \/ Test \/ Take \/ Post \/ Clear
  <2>1. UNCHANGED <<running, arrived, fifo, own, held, dmaNext>>
    BY <1>6, Untouched DEF Test, Clear, dma
  <2>2. running
    BY <1>6 DEF RingInv, Interrupt, Test, Take, Post, Clear
  <2>3. isr # "give" /\ First = DMARxDescToGet /\ First \in Desc
    BY <1>6, FirstType DEF Interrupt, Test, Take, Post, Clear, First
  <2>4. First' = First /\ (isr' = "give" => DMARxDescToGet' = After(got'.desc))
    <3>1. CASE Take
      BY <2>3, <3>1 DEF Take, Short, First
    <3>2. CASE Interrupt \/ Test \/ Clear \/ Post
      <4>1. UNCHANGED DMARxDescToGet /\ isr' # "give"
        BY <3>2 DEF Interrupt, Test, Clear, Post
      <4> QED
        BY <2>3, <4>1 DEF First
    <3> QED
      BY <1>6, <3>1, <3>2
  <2>5. PICK n \in 0..ETH_RXBUFNB : RingAt(n)
    BY <2>2 DEF RingInv
  <2>6. ~own[First] <=> 0 < n
    <3>1. Dist(First, First) = 0
      BY <2>3, DistProperties
    <3> QED
      BY <2>3, <2>5, <3>1 DEF RingAt
  <2>7. /\ isr' \in {"take", "give"} => n > 0
        /\ isr' = "clear" => n <= burst'
        /\ isr' = "idle" /\ ~irq' => n <= MaxBurst
    <3>1. CASE Interrupt \/ Post
      BY <3>1 DEF Interrupt, Post
    <3>2. CASE Test
      BY <2>3, <2>6, <3>2 DEF Test
    <3>3. CASE Take
      BY <2>5, <3>3 DEF Take, RingAt
    <3>4. CASE Clear
      BY <2>5, <3>4 DEF Clear, RingAt, TypeOK
    <3> QED
      BY <1>6, <3>1, <3>2, <3>3, <3>4
  <2>8. RingAt(n)'
    BY <2>1, <2>4, <2>5, <2>7, RingKept
  <2>9. Filled' = Filled
    BY <2>1 DEF Filled
  <2> QED
    BY <2>1, <2>2, <2>4, <2>8, <2>9 DEF RingInv, After
<1>7. CASE Give
  BY <1>7, GiveRing
<1> QED
  BY <1>1, <1>2, <1>3, <1>4, <1>5, <1>6, <1>7 DEF Next, Dma, ETH_IRQHandler

LEMMA InitRing == Init => RingInv
<1> SUFFICES ASSUME Init PROVE RingInv
  OBVIOUS
<1>1. Filled = {} /\ First = 0
  BY DEF Init, Filled, First
<1>2. \A d \in Desc : Dist(d, 0) \in Desc
  BY Bounds, DistProperties
<1>3. Shift(0, 0) = 0
  BY Bounds, ShiftIs
<1>4. RingAt(0)
  BY <1>1, <1>2, <1>3, Bounds DEF Init, RingAt, Desc
<1>5. 0 \in 0..ETH_RXBUFNB
  BY Bounds
<1> QED
  BY <1>1, <1>4, <1>5, Bounds DEF Init, RingInv

LEMMA StutterRing ==
    ASSUME UNCHANGED vars, RingInv
    PROVE  RingInv'
<1>1. UNCHANGED <<own, held, dmaNext, fifo, irq, running, arrived, burst, DMARxDescToGet, isr, got>>
  BY DEF vars, dma, irqh
<1>2. First' = First /\ Filled' = Filled
  BY <1>1 DEF First, Filled
<1>3. \A n \in 0..ETH_RXBUFNB : RingAt(n) => RingAt(n)'
  BY <1>1, <1>2 DEF RingAt
<1> QED
  BY <1>1, <1>2, <1>3 DEF RingInv, After

(* As many descriptors are the processor's as the distance says.           *)
LEMMA FilledCount ==
    ASSUME TypeOK, NEW n \in 0..ETH_RXBUFNB, RingAt(n)
    PROVE  Cardinality(Filled) = n
<1> DEFINE f == First
           g == [k \in 1..n |-> Shift(f, k - 1)]
<1>1. f \in Desc
  BY FirstType
<1>2. \A k \in Desc : Shift(f, k) \in Desc /\ Dist(Shift(f, k), f) = k
  BY <1>1, DistProperties
<1>3. \A d \in Desc : Dist(d, f) \in Desc
  BY <1>1, DistProperties
<1>4. \A d, e \in Desc : Dist(d, f) = Dist(e, f) => d = e
  BY <1>1, DistProperties
<1>5. \A d \in Desc : d \in Filled <=> Dist(d, f) < n
  BY DEF RingAt, Filled
<1>6. \A k \in 1..n : k - 1 \in Desc
  BY Bounds DEF Desc
<1>7. g \in [1..n -> Filled]
  BY <1>2, <1>5, <1>6
<1>8. \A j, k \in 1..n : g[j] = g[k] => j = k
  <2>1. \A k \in 1..n : Dist(g[k], f) = k - 1
    BY <1>2, <1>6
  <2> QED
    BY <2>1
<1>9. \A d \in Filled : \E k \in 1..n : g[k] = d
  <2>1. SUFFICES ASSUME NEW d \in Filled PROVE \E k \in 1..n : g[k] = d
    OBVIOUS
  <2>2. d \in Desc /\ Dist(d, f) < n /\ Dist(d, f) \in Desc
    BY <1>3, <1>5 DEF Filled
  <2>3. Dist(d, f) + 1 \in 1..n /\ (Dist(d, f) + 1) - 1 = Dist(d, f)
    BY <2>2, Bounds DEF Desc
  <2>4. g[Dist(d, f) + 1] = Shift(f, Dist(d, f))
    BY <2>3
  <2>5. Shift(f, Dist(d, f)) = d
    BY <1>2, <1>4, <2>2
  <2> QED
    BY <2>3, <2>4, <2>5
<1> HIDE DEF g
<1>10. ExistsBijection(1..n, Filled)
  BY <1>7, <1>8, <1>9 DEF ExistsBijection, Bijection, Injection, Surjection, IsInjective
<1>11. IsFiniteSet(1..n) /\ Cardinality(1..n) = n
  BY FS_Interval
<1> QED
  BY <1>10, <1>11, FS_Bijection

LEMMA AheadIs == \A d \in Desc : Ahead(d) = Dist(d, First)
  BY DEF Ahead, Dist

LEMMA RingInStep == TypeOK /\ RingInv => DescInStep
<1> SUFFICES ASSUME TypeOK, RingInv, running
             PROVE  /\ \A d \in Filled : Ahead(d) < Cardinality(Filled)
                    /\ dmaNext = (First + Cardinality(Filled)) % ETH_RXBUFNB
                    /\ \A d, e \in Filled : Ahead(d) < Ahead(e) => held[d] < held[e]
                    /\ isr \in {"take", "give"} => ~own[First]
  BY DEF DescInStep
<1>1. PICK n \in 0..ETH_RXBUFNB : RingAt(n)
  BY DEF RingInv
<1>2. Cardinality(Filled) = n
  BY <1>1, FilledCount
<1>3. \A d \in Filled : Ahead(d) = Dist(d, First) /\ Dist(d, First) < n /\ d \in Desc
  BY <1>1, AheadIs DEF RingAt, Filled
<1>4. dmaNext = (First + n) % ETH_RXBUFNB
  BY <1>1 DEF RingAt, Shift
<1>5. First \in Desc /\ Dist(First, First) = 0
  BY FirstType, DistProperties
<1>6. isr \in {"take", "give"} => ~own[First]
  BY <1>1, <1>5 DEF RingAt
<1>7. \A d, e \in Filled : Ahead(d) < Ahead(e) => held[d] < held[e]
  BY <1>1, <1>3 DEF RingAt
<1> QED
  BY <1>2, <1>3, <1>4, <1>6, <1>7

(* The interrupt reads, and the DMA writes, the descriptors in one order:  *)
(* those between their positions are the processor's and hold the frames   *)
(* in the order they came, whatever the length of the ring, also when the  *)
(* controller is restarted.                                                *)
THEOREM InStep == Spec => []DescInStep
<1>1. Init => RingInv
  BY InitRing
<1>2. TypeOK /\ RingInv /\ [Next]_vars => RingInv'
  BY StepRing, StutterRing
<1> QED
  BY <1>1, <1>2, TypeCorrect, RingInStep, PTL DEF Spec

(* As long as fewer frames than descriptors come between the last test of  *)
(* the interrupt and the clearing of its status bits, a full ring has its  *)
(* interrupt pending.                                                      *)
THEOREM NeverLocked ==
    ASSUME MaxBurst < ETH_RXBUFNB
    PROVE  Spec => []NoLockUp
<1>1. Init => RingInv
  BY InitRing
<1>2. TypeOK /\ RingInv /\ [Next]_vars => RingInv'
  BY StepRing, StutterRing
<1>3. TypeOK /\ RingInv => NoLockUp
  <2> SUFFICES ASSUME TypeOK, RingInv, running, isr = "idle", ~irq PROVE own[dmaNext]
    BY DEF NoLockUp
  <2>1. PICK n \in 0..ETH_RXBUFNB : RingAt(n)
    BY DEF RingInv
  <2>2. n \in Desc /\ dmaNext \in Desc /\ First \in Desc
    BY <2>1, Bounds, FirstType DEF RingAt, Desc, TypeOK
  <2>3. dmaNext = Shift(First, n) /\ Dist(dmaNext, First) = n
    BY <2>1, <2>2, DistProperties DEF RingAt
  <2>4. ~(Dist(dmaNext, First) < n)
    BY <2>2, <2>3, Bounds DEF Desc
  <2> QED
    BY <2>1, <2>2, <2>4 DEF RingAt
<1> QED
  BY <1>1, <1>2, <1>3, TypeCorrect, PTL DEF Spec

-----------------------------------------------------------------------------
(* The order of the frames: handled, posted, being posted, in the ring, in *)
(* the FIFO, still to come.                                                *)

Later(f) == handled < f /\ \A m \in Msg : inp[m].frame < f
Carried == isr \in {"give", "post"} /\ got.bufs # {}

PostedOrder ==
    /\ handled <= arrived
    /\ \A m \in Msg : inp[m].frame # None => /\ m \in Queued \cup MsgInThread
                                             /\ handled < inp[m].frame /\ inp[m].frame <= arrived
    /\ \A i \in 1..Len(mbox) : inp[mbox[i]].frame # None
    /\ \A i, j \in 1..Len(mbox) : i < j => inp[mbox[i]].frame < inp[mbox[j]].frame
    /\ tpc = "input" => /\ inp[cur[1]].frame # None
                        /\ \A i \in 1..Len(mbox) : inp[cur[1]].frame < inp[mbox[i]].frame
CarriedOrder ==
    Carried => /\ got.frame # None /\ got.frame <= arrived /\ Later(got.frame)
               /\ fifo # None => got.frame < fifo
               /\ \A d \in Filled : (isr = "give" /\ d = got.desc) \/ got.frame < held[d]
StoredOrder ==
    /\ \A d \in Filled : Later(held[d])
    /\ fifo # None => Later(fifo)
OrderInv == ~clobbered => PostedOrder /\ CarriedOrder /\ StoredOrder

LEMMA FrameTypes ==
    ASSUME TypeOK
    PROVE  /\ handled \in Nat /\ arrived \in Nat /\ fifo \in Nat /\ got.frame \in Nat
           /\ \A m \in Msg : inp[m].frame \in Nat
           /\ \A d \in Desc : held[d] \in Nat
           /\ \A i \in 1..Len(mbox) : mbox[i] \in Msg /\ mbox[i] \in Queued
           /\ Len(mbox) \in Nat
           /\ \A m \in Queued : \E i \in 1..Len(mbox) : m = mbox[i]
<1>1. /\ handled \in Nat /\ arrived \in Nat /\ fifo \in Nat /\ got.frame \in Nat
      /\ \A m \in Msg : inp[m].frame \in Nat
      /\ \A d \in Desc : held[d] \in Nat
  BY Bounds DEF TypeOK, Frame
<1>2. mbox \in Seq(Msg)
  BY DEF TypeOK
<1>3. DOMAIN mbox = 1..Len(mbox) /\ Len(mbox) \in Nat /\ \A i \in 1..Len(mbox) : mbox[i] \in Msg
  BY <1>2, LenProperties, ElementOfSeq
<1> QED
  BY <1>1, <1>3 DEF Queued, Range

(* The controller.                                                         *)
LEMMA ControllerOrder ==
    ASSUME TypeOK, RingInv, PostedOrder, CarriedOrder, StoredOrder,
           FrameArrives \/ Dma \/ LAN8720_Init \/ low_level_init
    PROVE  PostedOrder' /\ CarriedOrder' /\ StoredOrder'
<1> USE FrameTypes
<1>1. UNCHANGED <<inp, mbox, tpc, cur, handled, isr, got>>
  BY Untouched DEF Dma, queue, thread
<1>2. Queued' = Queued /\ MsgInThread' = MsgInThread /\ Carried' = Carried
      /\ \A f : Later(f)' <=> Later(f)
  BY <1>1 DEF Queued, MsgInThread, Carried, Later
<1>3. CASE FrameArrives
  <2>1. /\ arrived' = arrived + 1 /\ fifo' = IF fifo = None THEN arrived + 1 ELSE fifo
        /\ UNCHANGED <<own, held>>
    BY <1>3 DEF FrameArrives
  <2>2. Filled' = Filled
    BY <2>1 DEF Filled
  <2>3. PostedOrder'
    BY <1>1, <1>2, <2>1 DEF PostedOrder
  <2>4. Later(arrived + 1)
    BY DEF PostedOrder, Later, None
  <2>5. StoredOrder'
    BY <1>2, <2>1, <2>2, <2>4 DEF StoredOrder, Later
  <2>6. Carried => got.frame <= arrived + 1 /\ got.frame < arrived + 1
    BY DEF CarriedOrder
  <2>7. CarriedOrder'
    BY <1>1, <1>2, <2>1, <2>2, <2>6 DEF CarriedOrder, Later
  <2> QED
    BY <2>3, <2>5, <2>7
<1>4. CASE DmaStores
  <2>1. /\ fifo # None /\ own' = [own EXCEPT ![dmaNext] = FALSE]
        /\ held' = [held EXCEPT ![dmaNext] = fifo] /\ fifo' = None /\ arrived' = arrived
    BY <1>4 DEF DmaStores
  <2>2. \A d \in Filled' : \/ d = dmaNext /\ held'[d] = fifo
                           \/ d \in Filled /\ held'[d] = held[d]
    BY <2>1 DEF Filled, TypeOK
  <2>3. PostedOrder'
    BY <1>1, <1>2, <2>1 DEF PostedOrder
  <2>4. StoredOrder'
    BY <1>1, <2>1, <2>2 DEF StoredOrder, Later
  <2>5. CarriedOrder'
    BY <1>1, <1>2, <2>1, <2>2 DEF CarriedOrder, Later
  <2> QED
    BY <2>3, <2>4, <2>5
<1>5. CASE DmaSuspends \/ LAN8720_Init \/ low_level_init
  <2>1. (fifo' = None \/ fifo' = fifo) /\ arrived' = arrived /\ held' = held
    BY <1>5 DEF DmaSuspends, LAN8720_Init, low_level_init
  <2>2. Filled' \subseteq Filled
    BY <1>5 DEF DmaSuspends, LAN8720_Init, low_level_init, Filled
  <2>3. PostedOrder'
    BY <1>1, <1>2, <2>1 DEF PostedOrder
  <2>4. StoredOrder'
    BY <1>1, <2>1, <2>2 DEF StoredOrder, Later
  <2>5. CarriedOrder'
    BY <1>1, <1>2, <2>1, <2>2 DEF CarriedOrder, Later
  <2> QED
    BY <2>3, <2>4, <2>5
<1> QED
  BY <1>3, <1>4, <1>5 DEF Dma

(* The interrupt, but for posting.                                         *)
LEMMA InterruptOrder ==
    ASSUME TypeOK, RingInv, PlacesInv, ~clobbered, PostedOrder, CarriedOrder, StoredOrder,
           Interrupt \/ Test \/ Take \/ Give \/ Clear
    PROVE  PostedOrder' /\ CarriedOrder' /\ StoredOrder'
<1> USE FrameTypes
<1>1. UNCHANGED <<inp, mbox, tpc, cur, handled, held, arrived, fifo>>
  BY Untouched DEF queue, thread, dma, Test, Give, Clear, ETH_IRQHandler
<1>2. Queued' = Queued /\ MsgInThread' = MsgInThread /\ \A f : Later(f)' <=> Later(f)
  BY <1>1 DEF Queued, MsgInThread, Later
<1>3. PostedOrder'
  BY <1>1, <1>2 DEF PostedOrder
<1>4. Filled' \subseteq Filled
  BY Untouched DEF Filled, dma, Interrupt, Test, Take, Give, Clear, TypeOK
<1>5. StoredOrder'
  BY <1>1, <1>2, <1>4 DEF StoredOrder, Later
<1>6. CASE Interrupt \/ Test \/ Clear
  <2>1. ~Carried'
    BY <1>6 DEF Carried, Interrupt, Test, Clear
  <2> QED
    BY <1>3, <1>5, <2>1 DEF CarriedOrder
<1>7. CASE Take
  <2>1. isr = "take" /\ isr' = "give" /\ got'.desc = DMARxDescToGet /\ DMARxDescToGet \in Desc
        /\ running /\ First = DMARxDescToGet
    BY <1>7 DEF Take, Short, RingInv, First, TypeOK
  <2>2. PICK n \in 0..ETH_RXBUFNB : RingAt(n)
    BY <2>1 DEF RingInv
  <2>3. Dist(First, First) = 0 /\ \A d \in Desc : Dist(d, First) \in Desc /\ (Dist(d, First) = 0 <=> d = First)
    BY <2>1, DistProperties
  <2>4. First \in Filled
    BY <2>1, <2>2, <2>3 DEF RingAt, Filled
  <2>5. \A d \in Filled : d # First => held[First] < held[d]
    <3>1. \A d \in Filled : d # First => 0 < Dist(d, First) /\ Dist(d, First) < n /\ d \in Desc
      BY <2>2, <2>3, Bounds DEF RingAt, Filled, Desc
    <3> QED
      BY <2>1, <2>2, <2>3, <3>1 DEF RingAt
  <2>6. SUFFICES ASSUME Carried' PROVE CarriedOrder'
    BY <1>3, <1>5 DEF CarriedOrder
  <2>7. got'.bufs # {}
    BY <2>6 DEF Carried
  <2>8. got'.frame = held[First]
    BY <1>7, <2>1, <2>7 DEF Take, Short
  <2>9. held[First] # None /\ held[First] <= arrived /\ (fifo # None => held[First] < fifo)
    BY <2>4 DEF RingInv
  <2>10. Later(held[First])
    BY <2>4 DEF StoredOrder
  <2> QED
    BY <1>1, <1>2, <1>4, <2>1, <2>5, <2>8, <2>9, <2>10 DEF CarriedOrder, Later
<1>8. CASE Give
  <2>1. got' = got /\ (Carried' => Carried) /\ isr' # "give" /\ isr = "give"
    BY <1>8 DEF Give, Carried
  <2>2. \A d \in Filled' : d # got.desc
    BY <1>8 DEF Give, Filled, TypeOK
  <2>3. CarriedOrder'
    BY <1>1, <1>2, <1>4, <2>1, <2>2 DEF CarriedOrder, Later
  <2> QED
    BY <1>3, <1>5, <2>3
<1> QED
  BY <1>6, <1>7, <1>8

LEMMA PostOrder ==
    ASSUME TypeOK, PlacesInv, Holders, ~clobbered, PostedOrder, CarriedOrder, StoredOrder, Post
    PROVE  PostedOrder' /\ CarriedOrder' /\ StoredOrder'
<1> USE FrameTypes
<1>1. UNCHANGED <<tpc, cur, handled, held, own, arrived, fifo>> /\ isr' = "test" /\ isr = "post"
  BY DEF Post, thread, dma
<1>2. Carried /\ ~Carried' /\ Filled' = Filled /\ MsgInThread' = MsgInThread
  BY <1>1 DEF PlacesInv, Carried, Filled, MsgInThread
<1>3. CASE Refused
  <2>1. inp' = inp /\ mbox' = mbox
    BY <1>3 DEF Refused, queue
  <2>2. Queued' = Queued /\ \A f : Later(f)' <=> Later(f)
    BY <1>1, <2>1 DEF Queued, Later
  <2>3. PostedOrder'
    BY <1>1, <1>2, <2>1, <2>2 DEF PostedOrder
  <2>4. StoredOrder'
    BY <1>1, <1>2, <2>1 DEF StoredOrder, Later
  <2> QED
    BY <1>2, <2>3, <2>4 DEF CarriedOrder
<1>4. CASE Posted
  <2>1. PICK m \in freeMsg : /\ inp' = [inp EXCEPT ![m] = [frame |-> got.frame, bufs |-> got.bufs]]
                             /\ mbox' = Append(mbox, m)
    BY <1>4 DEF Posted
  <2>2. m \in Msg /\ m \notin Queued /\ m \notin MsgInThread
    BY DEF TypeOK, Holders, MsgPlaced
  <2>3. inp'[m].frame = got.frame /\ \A k \in Msg : k # m => inp'[k] = inp[k]
    BY <2>1, <2>2 DEF TypeOK
  <2>4. Queued' = Queued \cup {m}
    BY <2>1, <2>2, AppendedQueue
  <2>5. /\ Len(mbox') = Len(mbox) + 1 /\ mbox'[Len(mbox) + 1] = m
        /\ \A i \in 1..Len(mbox) : mbox'[i] = mbox[i]
    BY <2>1, <2>2, Appended
  <2>6. /\ got.frame # None /\ got.frame <= arrived /\ Later(got.frame)
        /\ fifo # None => got.frame < fifo
        /\ \A d \in Filled : got.frame < held[d]
    BY <1>1, <1>2 DEF CarriedOrder
  <2>7. \A i \in 1..Len(mbox) : inp'[mbox'[i]] = inp[mbox[i]] /\ mbox[i] \in Msg
    BY <2>2, <2>3, <2>5
  <2>8. \A i \in 1..Len(mbox') : i \in 1..Len(mbox) \/ i = Len(mbox) + 1
    BY <2>5
  <2>9. handled' <= arrived'
    BY <1>1 DEF PostedOrder
  <2>10. \A k \in Msg : inp'[k].frame # None => /\ k \in Queued' \cup MsgInThread'
                                                /\ handled' < inp'[k].frame /\ inp'[k].frame <= arrived'
    BY <1>1, <1>2, <2>3, <2>4, <2>6 DEF PostedOrder, Later
  <2>11. \A i \in 1..Len(mbox') : inp'[mbox'[i]].frame # None
    BY <2>3, <2>5, <2>6, <2>7, <2>8 DEF PostedOrder
  <2>12. ASSUME NEW i \in 1..Len(mbox'), NEW j \in 1..Len(mbox'), i < j
         PROVE  inp'[mbox'[i]].frame < inp'[mbox'[j]].frame
    <3>1. i \in 1..Len(mbox)
      BY <2>5, <2>12
    <3>2. CASE j = Len(mbox) + 1
      BY <2>3, <2>5, <2>6, <2>7, <3>1, <3>2 DEF Later
    <3>3. CASE j \in 1..Len(mbox)
      BY <2>7, <2>12, <3>1, <3>3 DEF PostedOrder
    <3> QED
      BY <2>8, <3>2, <3>3
  <2>13. ASSUME tpc = "input"
         PROVE  /\ inp'[cur[1]].frame # None
                /\ \A i \in 1..Len(mbox') : inp'[cur[1]].frame < inp'[mbox'[i]].frame
    <3>1. cur[1] \in Msg /\ cur[1] # m
      BY <2>2, <2>13, InThread
    <3>2. inp'[cur[1]] = inp[cur[1]] /\ inp[cur[1]].frame < got.frame
      BY <2>3, <2>6, <3>1 DEF Later
    <3> QED
      BY <2>3, <2>5, <2>7, <2>8, <2>13, <3>2 DEF PostedOrder
  <2>14. PostedOrder'
    BY <1>1, <2>9, <2>10, <2>11, <2>12, <2>13 DEF PostedOrder
  <2>15. StoredOrder'
    BY <1>1, <1>2, <2>3, <2>6 DEF StoredOrder, Later
  <2> QED
    BY <1>2, <2>14, <2>15 DEF CarriedOrder
<1> QED
  BY <1>3, <1>4 DEF Post

(* The thread: only ethernet_input moves a frame on.                       *)
LEMMA ThreadOrder ==
    ASSUME TypeOK, PlacesInv, Holders, PostedOrder, CarriedOrder, StoredOrder, tcpip_thread
    PROVE  ~clobbered' => PostedOrder' /\ CarriedOrder' /\ StoredOrder'
<1> USE FrameTypes
<1>1. UNCHANGED <<held, own, arrived, fifo, isr, got>> /\ isr = "idle" /\ ~clobbered
  BY Untouched DEF dma, irqh
<1>2. Filled' = Filled /\ ~Carried' /\ CarriedOrder'
  BY <1>1 DEF Filled, Carried, CarriedOrder
<1>3. CASE FetchCopies \/ memp_free
  <2>1. UNCHANGED <<inp, mbox, handled>> /\ tpc' # "input"
    BY <1>3 DEF FetchCopies, memp_free, LinkPbuf, StorePbuf, LinkMsg, StoreMsg, queue
  <2>2. Queued' = Queued
    BY <2>1 DEF Queued
  <2>3. \A m \in MsgInThread : m \in MsgInThread' \/ inp[m].frame = None
    <3>1. CASE FetchCopies
      BY <3>1, InThread DEF FetchCopies, Runs
    <3>2. CASE LinkPbuf \/ StorePbuf \/ LinkMsg
      <4>1. cur' = cur /\ tpc' # "count"
        BY <3>2 DEF LinkPbuf, StorePbuf, LinkMsg
      <4> QED
        BY <4>1 DEF MsgInThread
    <3>3. CASE StoreMsg
      <4>1. tpc = "msg"
        BY <3>3 DEF StoreMsg, Runs
      <4>2. MsgInThread = {cur[1]} /\ inp[cur[1]] = Empty
        BY <1>1, <4>1, InThread DEF PlacesInv
      <4> QED
        BY <4>2 DEF Empty
    <3> QED
      BY <1>3, <3>1, <3>2, <3>3 DEF memp_free
  <2>4. PostedOrder'
    BY <1>1, <2>1, <2>2, <2>3 DEF PostedOrder
  <2>5. StoredOrder'
    BY <1>1, <1>2, <2>1 DEF StoredOrder, Later
  <2> QED
    BY <1>2, <2>4, <2>5
<1>4. CASE FetchCounts
  <2>1. mbox' = Tail(mbox) /\ tpc = "count" /\ tpc' = "input" /\ UNCHANGED <<inp, cur, handled>>
    BY <1>4 DEF FetchCounts, Runs
  <2>2. mbox # <<>> /\ cur[1] = mbox[1] /\ cur # <<>>
    BY <1>1, <2>1, InThread DEF PlacesInv
  <2>3. MsgInThread = {} /\ MsgInThread' = {mbox[1]}
    BY <2>1, <2>2, InThread DEF MsgInThread
  <2>4. Queued = Queued' \cup {mbox[1]}
    BY <2>1, <2>2, FetchedQueue DEF Holders, MsgPlaced
  <2>5. /\ Len(mbox') = Len(mbox) - 1 /\ Len(mbox) \in Nat \ {0}
        /\ \A i \in 1..(Len(mbox) - 1) : mbox'[i] = mbox[i + 1]
    BY <2>1, <2>2, Fetched
  <2>6. \A i \in 1..Len(mbox') : i + 1 \in 1..Len(mbox) /\ mbox'[i] = mbox[i + 1]
    BY <2>5
  <2>7. 1 \in 1..Len(mbox)
    BY <2>5
  <2>8. \A i \in 1..Len(mbox') : inp[mbox'[i]].frame # None /\ inp[mbox[1]].frame < inp[mbox'[i]].frame
    BY <2>6, <2>7 DEF PostedOrder
  <2>9. ASSUME NEW i \in 1..Len(mbox'), NEW j \in 1..Len(mbox'), i < j
        PROVE  inp[mbox'[i]].frame < inp[mbox'[j]].frame
    <3>1. i + 1 < j + 1 /\ i + 1 \in 1..Len(mbox) /\ j + 1 \in 1..Len(mbox)
      BY <2>6, <2>9
    <3>2. inp[mbox[i + 1]].frame < inp[mbox[j + 1]].frame
      BY <3>1 DEF PostedOrder
    <3> QED
      BY <2>6, <3>2
  <2>10. inp[mbox[1]].frame # None
    BY <2>7 DEF PostedOrder
  <2>11. \A m \in Msg : inp[m].frame # None => m \in Queued' \cup MsgInThread'
    BY <2>3, <2>4 DEF PostedOrder
  <2>12. PostedOrder'
    BY <1>1, <2>1, <2>2, <2>8, <2>9, <2>10, <2>11 DEF PostedOrder
  <2>13. StoredOrder'
    BY <1>1, <1>2, <2>1 DEF StoredOrder, Later
  <2> QED
    BY <1>2, <2>12, <2>13
<1>5. CASE Input
  <2>1. /\ tpc = "input" /\ tpc' = "free" /\ mbox' = mbox /\ cur' = cur
        /\ handled' = inp[cur[1]].frame /\ inp' = [inp EXCEPT ![cur[1]] = Empty]
    BY <1>5 DEF Input, Runs
  <2>2. cur[1] \in Msg /\ MsgInThread = {cur[1]} /\ MsgInThread' = MsgInThread /\ Queued' = Queued
    BY <2>1, InThread DEF MsgInThread, Queued
  <2>3. cur[1] \notin Queued
    BY <2>2 DEF Holders, MsgPlaced
  <2>4. inp'[cur[1]].frame = None /\ \A k \in Msg : k # cur[1] => inp'[k] = inp[k]
    BY <2>1, <2>2 DEF TypeOK, Empty
  <2>5. \A i \in 1..Len(mbox) : inp'[mbox[i]] = inp[mbox[i]] /\ inp[cur[1]].frame < inp[mbox[i]].frame
    BY <2>1, <2>3, <2>4 DEF PostedOrder
  <2>6. handled < handled' /\ handled' <= arrived /\ handled' \in Nat
    BY <2>1, <2>2 DEF PostedOrder
  <2>7. \A m \in Msg : inp'[m].frame # None => /\ m \in Queued /\ handled' < inp'[m].frame
                                               /\ inp'[m].frame <= arrived
    <3>1. SUFFICES ASSUME NEW m \in Msg, inp'[m].frame # None
                   PROVE  m \in Queued /\ handled' < inp'[m].frame /\ inp'[m].frame <= arrived
      OBVIOUS
    <3>2. m # cur[1] /\ inp'[m] = inp[m]
      BY <2>4, <3>1
    <3>3. m \in Queued /\ inp[m].frame <= arrived
      BY <2>2, <3>1, <3>2 DEF PostedOrder
    <3>4. PICK i \in 1..Len(mbox) : m = mbox[i]
      BY <3>3
    <3> QED
      BY <2>1, <2>5, <3>2, <3>3, <3>4
  <2>8. PostedOrder'
    BY <1>1, <2>1, <2>2, <2>5, <2>6, <2>7 DEF PostedOrder
  <2>9. \A f \in Nat : Later(f) => Later(f)'
    BY <2>1, <2>2, <2>4, Bounds DEF Later
  <2>10. \A d \in Filled : d \in Desc
    BY DEF Filled
  <2>11. StoredOrder'
    BY <1>1, <1>2, <2>9, <2>10 DEF StoredOrder, Later
  <2> QED
    BY <1>2, <2>8, <2>11
<1> QED
  BY <1>3, <1>4, <1>5 DEF tcpip_thread

LEMMA StepOrder ==
    ASSUME TypeOK, RingInv, PlacesInv, OneHolder, OrderInv, Next
    PROVE  OrderInv'
<1>1. ~clobbered /\ Holders /\ PostedOrder /\ CarriedOrder /\ StoredOrder
  BY OneHolderIs DEF Next, OrderInv
<1>2. SUFFICES ~clobbered' => PostedOrder' /\ CarriedOrder' /\ StoredOrder'
  BY DEF OrderInv
<1> QED
  BY <1>1, ControllerOrder, InterruptOrder, PostOrder, ThreadOrder DEF Next, ETH_IRQHandler

LEMMA InitOrder == Init => OrderInv
<1> SUFFICES ASSUME Init PROVE OrderInv
  OBVIOUS
<1>1. Filled = {} /\ Len(mbox) = 0
  BY EmptySeq DEF Init, Filled
<1>2. PostedOrder
  BY <1>1 DEF Init, PostedOrder, Empty, None
<1>3. CarriedOrder /\ StoredOrder
  BY <1>1 DEF Init, CarriedOrder, StoredOrder, Carried
<1> QED
  BY <1>2, <1>3 DEF OrderInv

LEMMA StutterOrder ==
    ASSUME UNCHANGED vars, OrderInv
    PROVE  OrderInv'
<1>1. UNCHANGED <<own, held, fifo, arrived, isr, got, inp, mbox, tpc, cur, handled, clobbered>>
  BY DEF vars, dma, irqh, queue, thread
<1>2. Queued' = Queued /\ MsgInThread' = MsgInThread /\ Filled' = Filled /\ Carried' = Carried
  BY <1>1 DEF Queued, MsgInThread, Filled, Carried
<1>3. PostedOrder' = PostedOrder
  BY <1>1, <1>2 DEF PostedOrder
<1>4. CarriedOrder' = CarriedOrder
  BY <1>1, <1>2 DEF CarriedOrder, Later
<1>5. StoredOrder' = StoredOrder
  BY <1>1, <1>2 DEF StoredOrder, Later
<1> QED
  BY <1>1, <1>3, <1>4, <1>5 DEF OrderInv

(* tcpip_thread gets the frames in the order in which they came: neither   *)
(* the ring, nor a chain that finds no memory, nor a full mailbox, nor a   *)
(* restart of the controller turns two of them round.                      *)
THEOREM FramesInOrder == Spec => InOrder
<1> DEFINE Inv == TypeOK /\ OneHolder /\ PlacesInv /\ RingInv /\ OrderInv
<1>1. Init => Inv
  BY InitType, InitHolders, InitRing, InitOrder
<1>2. Inv /\ [Next]_vars => Inv'
  BY StepType, StepHolders, StepRing, StepOrder, StutterHolders, StutterRing, StutterOrder
<1>3. Inv /\ [Next]_vars => [handled' # handled => handled' > handled]_vars
  <2>1. SUFFICES ASSUME Inv, Next, handled' # handled PROVE handled' > handled
    OBVIOUS
  <2>2. Input /\ ~clobbered
    <3>1. FrameArrives \/ Dma \/ LAN8720_Init \/ low_level_init \/ ETH_IRQHandler
            => UNCHANGED thread
      BY Untouched DEF Dma
    <3>2. tcpip_thread => Input \/ handled' = handled
      BY DEF tcpip_thread, memp_free, FetchCopies, FetchCounts, LinkPbuf, StorePbuf,
             LinkMsg, StoreMsg
    <3> QED
      BY <2>1, <3>1, <3>2 DEF Next, thread
  <2>3. handled' = inp[cur[1]].frame /\ tpc = "input"
    BY <2>2 DEF Input, Runs
  <2>4. cur[1] \in Msg
    BY <2>1, <2>3, InThread
  <2>5. inp[cur[1]].frame # None /\ handled < inp[cur[1]].frame
    BY <2>1, <2>2, <2>3, <2>4 DEF OrderInv, PostedOrder
  <2> QED
    BY <2>1, <2>3, <2>4, <2>5, FrameTypes
<1> QED
  BY <1>1, <1>2, <1>3, PTL DEF Spec, InOrder

-----------------------------------------------------------------------------
(* What the rest rests on: the cause of the clobbered lists.               *)

(* When tcpip_thread waits for a message, none is queued and the interrupt *)
(* does not run, every element of the two pools is back, whatever ran out  *)
(* before: no failure path of pbuf_alloc, memp_malloc and sys_mbox_trypost *)
(* leaks (lan8720.c:185-206, ethernetif.c, tcpip.c:172-194).               *)
AtRest == isr = "idle" /\ tpc = "wait" /\ mbox = <<>>
THEOREM NothingLeaks ==
    Spec => [](AtRest /\ ~clobbered => freePbuf = Pbuf /\ freeMsg = Msg)
<1>1. Init => TypeOK /\ OneHolder /\ PlacesInv
  BY InitType, InitHolders
<1>2. TypeOK /\ OneHolder /\ PlacesInv /\ [Next]_vars => (TypeOK /\ OneHolder /\ PlacesInv)'
  BY StepType, StepHolders, StutterHolders
<1>3. TypeOK /\ OneHolder /\ PlacesInv
        => (AtRest /\ ~clobbered => freePbuf = Pbuf /\ freeMsg = Msg)
  <2>1. SUFFICES ASSUME TypeOK, OneHolder, PlacesInv, AtRest, ~clobbered
                 PROVE  freePbuf = Pbuf /\ freeMsg = Msg
    OBVIOUS
  <2>2. Holders /\ left = {} /\ putting = {} /\ got.bufs = {}
    BY <2>1, OneHolderIs DEF PlacesInv, AtRest
  <2>3. Queued = {} /\ MsgInThread = {}
    BY <2>1, InThread DEF AtRest, Queued, Range
  <2>4. freeMsg = Msg
    BY <2>2, <2>3 DEF Holders, MsgPlaced
  <2>5. \A m \in Msg : inp[m].bufs = {}
    BY <2>2, <2>3 DEF Holders, MsgCarries
  <2>6. freePbuf \subseteq Pbuf
    BY <2>1 DEF TypeOK
  <2> QED
    BY <2>2, <2>4, <2>5, <2>6 DEF Holders, PbufPlaced
<1> QED
  BY <1>1, <1>2, <1>3, PTL DEF Spec

(* The interrupt does not begin between the two stores of memp_free, nor   *)
(* between the copy and the count of a fetch: what the critical sections   *)
(* of memp.c:475 and queue.c:1260 are for, if their mask reached it.       *)
InSection == tpc \in {"count", "pbuf", "msg"}
Masked == [][isr = "idle" /\ isr' # "idle" => ~InSection]_vars

(* What the thread has read in a section is still so. *)
SectionInv ==
    /\ ~clobbered
    /\ InSection => isr = "idle"
    /\ tpc = "count" => Len(mbox) = cur[2]
    /\ tpc = "pbuf" => freePbuf = linked /\ ~reordered
    /\ tpc = "msg" => freeMsg = linked

LEMMA StepSection ==
    ASSUME SectionInv, Next, isr = "idle" /\ isr' # "idle" => ~InSection
    PROVE  SectionInv'
<1>1. CASE FrameArrives \/ Dma \/ LAN8720_Init \/ low_level_init
  <2>1. UNCHANGED <<isr, freePbuf, freeMsg, reordered, mbox, tpc, cur, linked, clobbered>>
    BY <1>1, Untouched DEF Dma, pools, queue, thread
  <2> QED
    BY <2>1 DEF SectionInv, InSection
<1>2. CASE ETH_IRQHandler
  <2>1. UNCHANGED <<tpc, cur, linked, clobbered>>
    BY <1>2, Untouched DEF thread
  <2>2. ~InSection
    BY <1>2 DEF SectionInv, ETH_IRQHandler, Interrupt, Test, Take, Give, Post, Clear
  <2> QED
    BY <2>1, <2>2 DEF SectionInv, InSection
<1>3. CASE tcpip_thread
  <2>1. isr = "idle" /\ isr' = "idle"
    BY <1>3, Untouched DEF irqh
  <2>2. CASE FetchCopies
    BY <2>1, <2>2 DEF SectionInv, FetchCopies, queue
  <2>3. CASE FetchCounts \/ Input \/ StorePbuf \/ StoreMsg
    <3>1. ~clobbered'
      <4>1. CASE FetchCounts
        BY <4>1 DEF SectionInv, FetchCounts, Runs
      <4>2. CASE Input
        BY <4>2 DEF SectionInv, Input
      <4>3. CASE StorePbuf
        BY <4>3 DEF SectionInv, StorePbuf, Runs
      <4>4. CASE StoreMsg
        BY <4>4 DEF SectionInv, StoreMsg, Runs
      <4> QED
        BY <2>3, <4>1, <4>2, <4>3, <4>4
    <3>2. tpc' \in {"input", "free", "wait"}
      BY <2>3 DEF FetchCounts, Input, StorePbuf, StoreMsg
    <3> QED
      BY <2>1, <3>1, <3>2 DEF SectionInv, InSection
  <2>4. CASE LinkPbuf \/ LinkMsg
    BY <2>1, <2>4 DEF SectionInv, LinkPbuf, LinkMsg, pools
  <2> QED
    BY <1>3, <2>2, <2>3, <2>4 DEF tcpip_thread, memp_free
<1> QED
  BY <1>1, <1>2, <1>3 DEF Next

(* Were the interrupt held off there, no list and no count would ever be   *)
(* lost: the priority of the interrupt is the only cause, and NothingLeaks *)
(* and HeldOnce would hold without their condition.                        *)
THEOREM MaskedNeverClobbered == Spec /\ Masked => []~clobbered
<1>1. Init => SectionInv
  BY DEF Init, SectionInv, InSection
<1>2. SectionInv /\ [Next]_vars /\ [isr = "idle" /\ isr' # "idle" => ~InSection]_vars => SectionInv'
  <2>1. SUFFICES ASSUME SectionInv, [Next]_vars,
                        [isr = "idle" /\ isr' # "idle" => ~InSection]_vars
                 PROVE  SectionInv'
    OBVIOUS
  <2>2. CASE UNCHANGED vars
    BY <2>1, <2>2 DEF SectionInv, InSection, vars, irqh, pools, queue, thread
  <2>3. CASE Next /\ (isr = "idle" /\ isr' # "idle" => ~InSection)
    BY <2>1, <2>3, StepSection
  <2> QED
    BY <2>1, <2>2, <2>3
<1>3. SectionInv => ~clobbered
  BY DEF SectionInv
<1> QED
  BY <1>1, <1>2, <1>3, PTL DEF Spec, Masked

-----------------------------------------------------------------------------
(* The way of a frame that is sent: the causes of frames that are reported *)
(* as sent and overwritten.                                                *)

CONSTANTS ETH_TXBUFNB, TxFrames
VARIABLES txOwn, txBuffer, DMATxDescToSet, txNext, tbus, sent, result, txpc, txFrame

Tx == INSTANCE EthTx
        WITH MaxFrames <- TxFrames, own <- txOwn, buffer <- txBuffer, dmaNext <- txNext,
             pc <- txpc, frame <- txFrame
txVars == <<txOwn, txBuffer, DMATxDescToSet, txNext, tbus, sent, result, txpc, txFrame>>

Begins == \E f \in Tx!Frame : Tx!low_level_output(f) \/ Tx!Copy(f)

(* A frame is copied only to a buffer that is the processor's: the test of *)
(* the OWN bit before the copy, where a full ring ends the call            *)
(* (ethernetif.c:44-50 has it behind).                                     *)
TestedFirst == [][Begins => ~txOwn[DMATxDescToSet]]_txVars

(* No call of low_level_output begins within another: a lock. *)
OneAtATime == [][Begins => txpc = "idle"]_txVars

Accepted(f) == f \in Range(sent) \/ \E d \in Tx!Desc : txOwn[d] /\ txBuffer[d] = f

TxType ==
    /\ txOwn \in [Tx!Desc -> BOOLEAN] /\ txBuffer \in [Tx!Desc -> Tx!Frame \cup {0}]
    /\ DMATxDescToSet \in Tx!Desc /\ txNext \in Tx!Desc
    /\ sent \in Seq(Tx!Frame \cup {0})
    /\ result \in [Tx!Frame -> {"none", "ERR_OK", "ERR_MEM"}]
    /\ txpc \in {"idle", "check", "give", "advance"}
    /\ txpc # "idle" => txFrame \in Tx!Frame

(* What a call has copied stays in the buffer until it is the DMA's.       *)
TxInv ==
    /\ txpc \in {"check", "give"} =>
         txBuffer[DMATxDescToSet] = txFrame /\ ~txOwn[DMATxDescToSet]
    /\ txpc = "advance" => Accepted(txFrame)
    /\ \A f \in Tx!Frame : result[f] = "ERR_OK" => Accepted(f)

LEMMA TxAfter ==
    ASSUME ETH_TXBUFNB \in Nat \ {0}, NEW d \in Tx!Desc
    PROVE  Tx!After(d) \in Tx!Desc
<1>1. d + 1 \in Nat /\ (d + 1) % ETH_TXBUFNB \in 0..(ETH_TXBUFNB - 1)
  BY DEF Tx!Desc
<1> QED
  BY <1>1 DEF Tx!After, Tx!Desc

LEMMA Wired ==
    ASSUME NEW S, NEW s \in Seq(S), NEW x \in S
    PROVE  Append(s, x) \in Seq(S) /\ Range(Append(s, x)) = Range(s) \cup {x}
<1>1. /\ Append(s, x) \in Seq(S) /\ Len(Append(s, x)) = Len(s) + 1 /\ Len(s) \in Nat
      /\ \A i \in 1..Len(s) : Append(s, x)[i] = s[i]
      /\ Append(s, x)[Len(s) + 1] = x
  BY AppendProperties, LenProperties
<1>2. DOMAIN s = 1..Len(s) /\ DOMAIN Append(s, x) = 1..(Len(s) + 1)
  BY <1>1, LenProperties
<1>3. 1..(Len(s) + 1) = (1..Len(s)) \cup {Len(s) + 1}
  BY <1>1
<1> QED
  BY <1>1, <1>2, <1>3 DEF Range

LEMMA TxStep ==
    ASSUME ETH_TXBUFNB \in Nat \ {0}, TxType, TxInv, Tx!Next,
           Begins => txpc = "idle" /\ ~txOwn[DMATxDescToSet]
    PROVE  TxType' /\ TxInv'
<1>1. ASSUME NEW f \in Tx!Frame, Tx!low_level_output(f) PROVE TxType' /\ TxInv'
  <2>1. txpc = "idle" /\ ~txOwn[DMATxDescToSet]
    BY <1>1 DEF Begins
  <2>2. /\ txBuffer' = [txBuffer EXCEPT ![DMATxDescToSet] = f]
        /\ txOwn' = [txOwn EXCEPT ![DMATxDescToSet] = TRUE]
        /\ result' = [result EXCEPT ![f] = "ERR_OK"]
        /\ DMATxDescToSet' = Tx!After(DMATxDescToSet)
        /\ UNCHANGED <<txNext, sent, txpc, txFrame>>
    BY <1>1, <2>1 DEF Tx!low_level_output
  <2>3. TxType'
    BY <2>2, TxAfter DEF TxType
  <2>4. ASSUME NEW g \in Tx!Frame, Accepted(g) \/ g = f PROVE Accepted(g)'
    BY <2>1, <2>2, <2>4 DEF Accepted, TxType
  <2>5. \A g \in Tx!Frame : result'[g] = "ERR_OK" => g = f \/ result[g] = "ERR_OK"
    BY <2>2 DEF TxType
  <2>6. TxInv'
    BY <2>1, <2>2, <2>4, <2>5 DEF TxInv
  <2> QED
    BY <2>3, <2>6
<1>2. ASSUME NEW f \in Tx!Frame, Tx!Copy(f) PROVE TxType' /\ TxInv'
  <2>1. txpc = "idle" /\ ~txOwn[DMATxDescToSet]
    BY <1>2 DEF Begins
  <2>2. /\ txBuffer' = [txBuffer EXCEPT ![DMATxDescToSet] = f]
        /\ txFrame' = f /\ txpc' = "check"
        /\ UNCHANGED <<txOwn, DMATxDescToSet, txNext, sent, result>>
    BY <1>2 DEF Tx!Copy
  <2>3. TxType'
    BY <2>2 DEF TxType
  <2>4. ASSUME NEW g \in Tx!Frame, Accepted(g) PROVE Accepted(g)'
    BY <2>1, <2>2, <2>4 DEF Accepted, TxType
  <2>5. txBuffer'[DMATxDescToSet'] = txFrame' /\ ~txOwn'[DMATxDescToSet']
    BY <2>1, <2>2 DEF TxType
  <2>6. TxInv'
    BY <2>2, <2>4, <2>5 DEF TxInv
  <2> QED
    BY <2>3, <2>6
<1>3. CASE Tx!Check
  <2>1. ~txOwn[DMATxDescToSet]
    BY <1>3 DEF Tx!Check, TxInv
  <2>2. /\ txpc = "check" /\ txpc' = "give"
        /\ UNCHANGED <<txOwn, txBuffer, DMATxDescToSet, txNext, sent, result, txFrame>>
    BY <1>3, <2>1 DEF Tx!Check
  <2> QED
    BY <2>2 DEF TxType, TxInv, Accepted
<1>4. CASE Tx!Give
  <2>1. /\ txpc = "give" /\ txpc' = "advance"
        /\ txOwn' = [txOwn EXCEPT ![DMATxDescToSet] = TRUE]
        /\ UNCHANGED <<txBuffer, DMATxDescToSet, txNext, sent, result, txFrame>>
    BY <1>4 DEF Tx!Give
  <2>2. TxType'
    BY <2>1 DEF TxType
  <2>3. ASSUME NEW g \in Tx!Frame, Accepted(g) \/ g = txFrame PROVE Accepted(g)'
    BY <2>1, <2>3 DEF Accepted, TxType, TxInv
  <2>4. TxInv'
    BY <2>1, <2>3 DEF TxInv, TxType
  <2> QED
    BY <2>2, <2>4
<1>5. CASE Tx!Advance
  <2>1. /\ txpc = "advance" /\ txpc' = "idle"
        /\ result' = [result EXCEPT ![txFrame] = "ERR_OK"]
        /\ DMATxDescToSet' = Tx!After(DMATxDescToSet)
        /\ UNCHANGED <<txOwn, txBuffer, txNext, sent>>
    BY <1>5 DEF Tx!Advance, Tx!Finish
  <2>2. TxType'
    BY <2>1, TxAfter DEF TxType
  <2>3. \A g \in Tx!Frame : result'[g] = "ERR_OK" => g = txFrame \/ result[g] = "ERR_OK"
    BY <2>1 DEF TxType
  <2>4. \A g \in Tx!Frame : Accepted(g) => Accepted(g)'
    BY <2>1 DEF Accepted
  <2>5. TxInv'
    BY <2>1, <2>3, <2>4 DEF TxInv
  <2> QED
    BY <2>2, <2>5
<1>6. CASE Tx!DmaSends
  <2>1. /\ txOwn[txNext] /\ sent' = Append(sent, txBuffer[txNext])
        /\ txOwn' = [txOwn EXCEPT ![txNext] = FALSE]
        /\ txNext' = Tx!After(txNext)
        /\ UNCHANGED <<txBuffer, DMATxDescToSet, result, txpc, txFrame>>
    BY <1>6 DEF Tx!DmaSends
  <2>2. /\ sent' \in Seq(Tx!Frame \cup {0})
        /\ Range(sent') = Range(sent) \cup {txBuffer[txNext]}
    BY <2>1, Wired DEF TxType
  <2>3. TxType'
    BY <2>1, <2>2, TxAfter DEF TxType
  <2>4. ASSUME NEW g \in Tx!Frame, Accepted(g) PROVE Accepted(g)'
    BY <2>1, <2>2, <2>4 DEF Accepted, TxType
  <2>5. \A d \in Tx!Desc : ~txOwn[d] => ~txOwn'[d]
    BY <2>1 DEF TxType
  <2>6. TxInv'
    BY <2>1, <2>4, <2>5 DEF TxInv, TxType
  <2> QED
    BY <2>3, <2>6
<1>7. CASE Tx!DmaSuspends
  BY <1>7 DEF Tx!DmaSuspends, TxType, TxInv, Accepted
<1> QED
  BY <1>1, <1>2, <1>3, <1>4, <1>5, <1>6, <1>7 DEF Tx!Next

(* With the test before the copy and one call at a time, ERR_OK means that *)
(* the frame has been sent or will be, for every ring: these two are the   *)
(* causes of what claim_send_success shows, and there is no third.         *)
THEOREM OrderedSendsSucceed ==
    ASSUME ETH_TXBUFNB \in Nat \ {0}
    PROVE  Tx!Spec /\ TestedFirst /\ OneAtATime => []Tx!SendSuccess
<1>1. Tx!Init => TxType /\ TxInv
  BY DEF Tx!Init, TxType, TxInv, Tx!Desc, Accepted
<1>2. TxType /\ TxInv /\ [Tx!Next]_(Tx!vars) /\ [Begins => ~txOwn[DMATxDescToSet]]_txVars
        /\ [Begins => txpc = "idle"]_txVars => (TxType /\ TxInv)'
  <2>1. SUFFICES ASSUME TxType, TxInv, [Tx!Next]_(Tx!vars),
                        [Begins => ~txOwn[DMATxDescToSet]]_txVars, [Begins => txpc = "idle"]_txVars
                 PROVE  (TxType /\ TxInv)'
    OBVIOUS
  <2>2. CASE UNCHANGED txVars
    BY <2>1, <2>2 DEF txVars, TxType, TxInv, Accepted
  <2>3. CASE ~UNCHANGED txVars
    BY <2>1, <2>3, TxStep DEF txVars, Tx!vars
  <2> QED
    BY <2>2, <2>3
<1>3. TxInv => Tx!SendSuccess
  BY DEF TxInv, Accepted, Tx!SendSuccess, Range, Tx!Range
<1> QED
  BY <1>1, <1>2, <1>3, PTL DEF Tx!Spec, TestedFirst, OneAtATime
=============================================================================
