-------------------------------- MODULE EthRx --------------------------------
(***************************************************************************)
(* The way of a received frame: the DMA of the Ethernet controller stores  *)
(* it in a ring of descriptors, ETH_IRQHandler copies it into a chain of   *)
(* pbufs and posts it to the mailbox of tcpip_thread, which consumes it    *)
(* and gives its memory back.                                              *)
(*                                                                         *)
(* The interrupt has priority 0: the critical sections of memp.c and       *)
(* queue.c, which raise BASEPRI to priority 5, do not mask it.  So the two *)
(* stores of memp_free and the read and the store of a queue's count are   *)
(* separate steps of tcpip_thread.  When the interrupt changes what the    *)
(* thread has read the thread destroys the pool or the count: the model    *)
(* records that in `clobbered' and stops there.                            *)
(***************************************************************************)
EXTENDS Integers, Sequences, FiniteSets, Functions

CONSTANTS ETH_RXBUFNB,  \* descriptors of the ring
          Pbuf,         \* MEMP_PBUF_POOL
          Msg,          \* MEMP_TCPIP_MSG_INPKT
          MESG_QUEUE_LENGTH, \* entries of the mailbox of tcpip_thread
          MaxFrames,    \* bound: frames that arrive
          Pieces,       \* the number of pbufs that hold each of them
          MaxBurst,     \* bound: frames stored while the interrupt ends
          MaxResets     \* bound: restarts of the controller

Frame == 1..MaxFrames
None == 0

ASSUME RxAssumption ==
    /\ ETH_RXBUFNB \in Nat \ {0} /\ MESG_QUEUE_LENGTH \in Nat /\ MaxFrames \in Nat
    /\ MaxBurst \in Nat /\ MaxResets \in Nat
    /\ Pieces \in [Frame -> Nat \ {0}]
    /\ IsFiniteSet(Pbuf)

VARIABLES
  own, held,       \* descriptors: the OWN bit, the frame in the buffer
  dmaNext,         \* where the DMA stores next
  DMARxDescToGet,  \* where the interrupt reads next
  fifo,            \* the frame in the controller's FIFO, or None
  suspended, rbus, \* the DMA found no descriptor; status bit RBUS
  irq,             \* status bit R
  running,         \* the controller is started
  arrived, burst, resets,
  isr,             \* where ETH_IRQHandler is
  got,             \* what low_level_input has: descriptor, frame and chain
  freePbuf, freeMsg, \* memp_tab of the two pools
  inp,             \* what each message carries
  mbox,            \* the mailbox
  tpc, cur, left,  \* tcpip_thread: where it is, its message, pbufs to free
  putting,         \* the element memp_free is giving back
  linked,          \* the free list that element has been linked to
  reordered,       \* the interrupt has given back several pbufs since
  handled,         \* the last frame given to ethernet_input
  clobbered        \* a list or a count of the two pools and the mailbox is lost

dma == <<own, held, dmaNext, fifo, suspended, rbus, irq, running, arrived, burst>>
irqh == <<DMARxDescToGet, isr, got>>
pools == <<freePbuf, freeMsg, reordered>>
queue == <<inp, mbox>>
thread == <<tpc, cur, left, putting, linked, handled, clobbered>>
vars == <<dma, resets, irqh, pools, queue, thread>>

Desc == 0..(ETH_RXBUFNB - 1)
(* The ring is closed by the last descriptor.  Mutant: it is not. *)
AfterUnchained(d) == d + 1
After(d) == (d + 1) % ETH_RXBUFNB
Empty == [frame |-> None, bufs |-> {}]

-----------------------------------------------------------------------------
(* The controller. *)

(* A frame that finds the FIFO taken is missed; either way a suspended     *)
(* DMA looks at its descriptor again.                                      *)
FrameArrives ==
    /\ running /\ arrived < MaxFrames
    /\ arrived' = arrived + 1
    /\ fifo' = IF fifo = None THEN arrived + 1 ELSE fifo
    /\ suspended' = FALSE
    /\ UNCHANGED <<own, held, dmaNext, rbus, irq, running, burst,
                   resets, irqh, pools, queue, thread>>

DmaStores ==
    /\ fifo # None /\ ~suspended /\ own[dmaNext]
    /\ isr = "clear" => burst < MaxBurst
    /\ own' = [own EXCEPT ![dmaNext] = FALSE]
    /\ held' = [held EXCEPT ![dmaNext] = fifo]
    /\ dmaNext' = After(dmaNext)
    /\ fifo' = None
    /\ irq' = TRUE
    /\ burst' = IF isr = "clear" THEN burst + 1 ELSE burst
    /\ UNCHANGED <<suspended, rbus, running, arrived, resets, irqh, pools, queue, thread>>

DmaSuspends ==
    /\ fifo # None /\ ~suspended /\ ~own[dmaNext]
    /\ suspended' = TRUE /\ rbus' = TRUE
    /\ UNCHANGED <<own, held, dmaNext, fifo, irq, running, arrived, burst,
                   resets, irqh, pools, queue, thread>>

(* LAN8720_Init resets the controller under whatever it is doing. *)
LAN8720_Init ==
    /\ isr = "idle" /\ resets < MaxResets
    /\ resets' = resets + 1
    /\ running' = FALSE
    /\ fifo' = None /\ suspended' = FALSE /\ rbus' = FALSE /\ irq' = FALSE
    /\ UNCHANGED <<own, held, dmaNext, arrived, burst, irqh, pools, queue, thread>>

(* ETH_DMARxDescChainInit and ETH_Start.  Mutant: the position of the      *)
(* interrupt is left where it was.                                         *)
low_level_initKeepsGet ==
    /\ isr = "idle" /\ ~running
    /\ own' = [d \in Desc |-> TRUE]
    /\ DMARxDescToGet' = DMARxDescToGet /\ dmaNext' = 0
    /\ running' = TRUE
    /\ UNCHANGED <<held, fifo, suspended, rbus, irq, arrived, burst, resets,
                   isr, got, pools, queue, thread>>
low_level_init ==
    /\ isr = "idle" /\ ~running
    /\ own' = [d \in Desc |-> TRUE]
    /\ DMARxDescToGet' = 0 /\ dmaNext' = 0
    /\ running' = TRUE
    /\ UNCHANGED <<held, fifo, suspended, rbus, irq, arrived, burst, resets,
                   isr, got, pools, queue, thread>>

-----------------------------------------------------------------------------
(* ETH_IRQHandler: it preempts every thread. *)

Interrupt ==
    /\ irq /\ isr = "idle"
    /\ isr' = "test"
    /\ UNCHANGED <<dma, resets, DMARxDescToGet, got, pools, queue, thread>>

(* ETH_GetRxPktSize. *)
Test ==
    /\ isr = "test"
    /\ isr' = IF own[DMARxDescToGet] THEN "clear" ELSE "take"
    /\ burst' = 0
    /\ UNCHANGED <<own, held, dmaNext, fifo, suspended, rbus, irq, running, arrived,
                   resets, DMARxDescToGet, got, pools, queue, thread>>

(* Elements go back to a pool one by one: two or more change its order. *)
GiveBack(pool, S) == pool \cup S
Turned(S) == reordered \/ Cardinality(S) > 1

(* ETH_Rx_Packet, pbuf_alloc and the copy.  pbuf_alloc gives back what it  *)
(* has got when the pool runs out.  Mutant: it keeps it.                   *)
ShortKept(n) ==
    /\ Cardinality(freePbuf) < n
    /\ got' = [desc |-> DMARxDescToGet, frame |-> None, bufs |-> {}]
    /\ freePbuf' = {}
    /\ reordered' = reordered
Short(n) ==
    /\ Cardinality(freePbuf) < n
    /\ got' = [desc |-> DMARxDescToGet, frame |-> None, bufs |-> {}]
    /\ freePbuf' = GiveBack(freePbuf, {})
    /\ reordered' = Turned(freePbuf)

Take ==
    /\ isr = "take"
    /\ \/ Short(Pieces[held[DMARxDescToGet]])
       \/ \E bufs \in SUBSET freePbuf :
            /\ Cardinality(bufs) = Pieces[held[DMARxDescToGet]]
            /\ got' = [desc |-> DMARxDescToGet, frame |-> held[DMARxDescToGet], bufs |-> bufs]
            /\ freePbuf' = freePbuf \ bufs
            /\ UNCHANGED reordered
    /\ DMARxDescToGet' = After(DMARxDescToGet)
    /\ isr' = "give"
    /\ UNCHANGED <<dma, resets, freeMsg, queue, thread>>

(* The descriptor goes back to the DMA whether or not there was memory.    *)
(* Mutants: a frame that is dropped keeps it; the DMA is not resumed.      *)
GiveUnlessShort ==
    /\ isr = "give"
    /\ own' = IF got.bufs = {} THEN own ELSE [own EXCEPT ![got.desc] = TRUE]
    /\ rbus' = FALSE /\ suspended' = (suspended /\ ~rbus)
    /\ isr' = IF got.bufs = {} THEN "test" ELSE "post"
    /\ UNCHANGED <<held, dmaNext, fifo, irq, running, arrived, burst, resets,
                   DMARxDescToGet, got, pools, queue, thread>>
GiveNoResume ==
    /\ isr = "give"
    /\ own' = [own EXCEPT ![got.desc] = TRUE]
    /\ rbus' = FALSE /\ suspended' = suspended
    /\ isr' = IF got.bufs = {} THEN "test" ELSE "post"
    /\ UNCHANGED <<held, dmaNext, fifo, irq, running, arrived, burst, resets,
                   DMARxDescToGet, got, pools, queue, thread>>
Give ==
    /\ isr = "give"
    /\ own' = [own EXCEPT ![got.desc] = TRUE]
    /\ rbus' = FALSE /\ suspended' = (suspended /\ ~rbus)
    /\ isr' = IF got.bufs = {} THEN "test" ELSE "post"
    /\ UNCHANGED <<held, dmaNext, fifo, irq, running, arrived, burst, resets,
                   DMARxDescToGet, got, pools, queue, thread>>

(* tcpip_input: a message, and a place in the mailbox. *)
Posted ==
    /\ Len(mbox) < MESG_QUEUE_LENGTH
    /\ \E m \in freeMsg :
         /\ freeMsg' = freeMsg \ {m}
         /\ inp' = [inp EXCEPT ![m] = [frame |-> got.frame, bufs |-> got.bufs]]
         /\ mbox' = Append(mbox, m)
    /\ UNCHANGED <<freePbuf, reordered>>

(* Without one of them the message and the pbufs go back.  Mutant: the     *)
(* message does not.                                                       *)
RefusedMsgKept ==
    /\ freeMsg = {} \/ Len(mbox) >= MESG_QUEUE_LENGTH
    /\ freePbuf' = GiveBack(freePbuf, got.bufs)
    /\ reordered' = Turned(got.bufs)
    /\ IF freeMsg = {} THEN UNCHANGED freeMsg ELSE \E m \in freeMsg : freeMsg' = freeMsg \ {m}
    /\ UNCHANGED queue
Refused ==
    /\ freeMsg = {} \/ Len(mbox) >= MESG_QUEUE_LENGTH
    /\ freePbuf' = GiveBack(freePbuf, got.bufs)
    /\ reordered' = Turned(got.bufs)
    /\ UNCHANGED <<freeMsg, queue>>

(* Mutant: the handler serves one frame per interrupt. *)
PostOnce ==
    /\ isr = "post"
    /\ Posted \/ Refused
    /\ got' = [got EXCEPT !.bufs = {}]
    /\ isr' = "clear"
    /\ UNCHANGED <<dma, resets, DMARxDescToGet, thread>>
Post ==
    /\ isr = "post"
    /\ Posted \/ Refused
    /\ got' = [got EXCEPT !.bufs = {}]
    /\ isr' = "test"
    /\ UNCHANGED <<dma, resets, DMARxDescToGet, thread>>

(* The status bits are cleared after the last test: a frame stored in      *)
(* between loses its interrupt.                                            *)
Clear ==
    /\ isr = "clear"
    /\ irq' = FALSE
    /\ isr' = "idle"
    /\ UNCHANGED <<own, held, dmaNext, fifo, suspended, rbus, running, arrived, burst,
                   resets, DMARxDescToGet, got, pools, queue, thread>>

-----------------------------------------------------------------------------
(* tcpip_thread: it runs while the interrupt does not. *)

Runs(pc) == isr = "idle" /\ tpc = pc /\ ~clobbered

(* xQueueGenericReceive copies the message out, then stores the count. *)
FetchCopies ==
    /\ Runs("wait") /\ mbox # <<>>
    /\ cur' = <<Head(mbox), Len(mbox)>>
    /\ tpc' = "count"
    /\ UNCHANGED <<dma, resets, irqh, pools, queue, left, putting, linked, handled, clobbered>>

FetchCounts ==
    /\ Runs("count")
    /\ clobbered' = (Len(mbox) # cur[2])
    /\ mbox' = Tail(mbox)
    /\ tpc' = "input"
    /\ UNCHANGED <<dma, resets, irqh, pools, inp, cur, left, putting, linked, handled>>

(* ethernet_input consumes the frame and frees its pbufs. *)
Input ==
    /\ Runs("input")
    /\ handled' = inp[cur[1]].frame
    /\ left' = inp[cur[1]].bufs
    /\ inp' = [inp EXCEPT ![cur[1]] = Empty]
    /\ tpc' = "free"
    /\ UNCHANGED <<dma, resets, irqh, pools, mbox, cur, putting, linked, clobbered>>

(* memp_free: memp->next = memp_tab[type]. *)
LinkPbuf ==
    /\ Runs("free")
    /\ \E b \in left : putting' = {b} /\ left' = left \ {b}
    /\ linked' = freePbuf /\ reordered' = FALSE
    /\ tpc' = "pbuf"
    /\ UNCHANGED <<dma, resets, irqh, freePbuf, freeMsg, queue, cur, handled, clobbered>>

(* memp_free: memp_tab[type] = memp. *)
StorePbuf ==
    /\ Runs("pbuf")
    /\ clobbered' = (freePbuf # linked \/ reordered)
    /\ freePbuf' = freePbuf \cup putting
    /\ putting' = {}
    /\ tpc' = "free"
    /\ UNCHANGED <<dma, resets, irqh, freeMsg, reordered, queue, cur, left, linked, handled>>

LinkMsg ==
    /\ Runs("free") /\ left = {}
    /\ linked' = freeMsg
    /\ tpc' = "msg"
    /\ UNCHANGED <<dma, resets, irqh, pools, queue, cur, left, putting, handled, clobbered>>

StoreMsg ==
    /\ Runs("msg")
    /\ clobbered' = (freeMsg # linked)
    /\ freeMsg' = freeMsg \cup {cur[1]}
    /\ cur' = <<>>
    /\ tpc' = "wait"
    /\ UNCHANGED <<dma, resets, irqh, freePbuf, reordered, queue, left, putting, linked, handled>>

-----------------------------------------------------------------------------

(* As low_level_init leaves it for the first time. *)
Init ==
    /\ own = [d \in Desc |-> TRUE] /\ held = [d \in Desc |-> None]
    /\ dmaNext = 0 /\ DMARxDescToGet = 0
    /\ fifo = None /\ suspended = FALSE /\ rbus = FALSE /\ irq = FALSE /\ running = TRUE
    /\ arrived = 0 /\ burst = 0 /\ resets = 0
    /\ isr = "idle" /\ got = [desc |-> 0, frame |-> None, bufs |-> {}]
    /\ freePbuf = Pbuf /\ freeMsg = Msg /\ reordered = FALSE
    /\ inp = [m \in Msg |-> Empty] /\ mbox = <<>>
    /\ tpc = "wait" /\ cur = <<>> /\ left = {} /\ putting = {} /\ linked = {}
    /\ handled = None /\ clobbered = FALSE

Dma == DmaStores \/ DmaSuspends
ETH_IRQHandler == Interrupt \/ Test \/ Take \/ Give \/ Post \/ Clear
memp_free == LinkPbuf \/ StorePbuf \/ LinkMsg \/ StoreMsg
tcpip_thread == FetchCopies \/ FetchCounts \/ Input \/ memp_free

Next == /\ ~clobbered
        /\ \/ FrameArrives \/ Dma \/ LAN8720_Init \/ low_level_init
           \/ ETH_IRQHandler \/ tcpip_thread

Spec == Init /\ [][Next]_vars

(* The controller and the processor go on; frames need not arrive.         *)
FairSpec == /\ Spec
            /\ WF_vars(~clobbered /\ Dma) /\ WF_vars(~clobbered /\ ETH_IRQHandler)
            /\ WF_vars(tcpip_thread) /\ WF_vars(~clobbered /\ low_level_init)

-----------------------------------------------------------------------------

Queued == Range(mbox)
MsgInThread == IF cur = <<>> \/ tpc = "count" THEN {} ELSE {cur[1]}

(* Every variable keeps its type. *)
TypeOK ==
    /\ own \in [Desc -> BOOLEAN] /\ held \in [Desc -> Frame \cup {None}]
    /\ dmaNext \in Desc /\ DMARxDescToGet \in Desc
    /\ fifo \in Frame \cup {None}
    /\ suspended \in BOOLEAN /\ rbus \in BOOLEAN /\ irq \in BOOLEAN /\ running \in BOOLEAN
    /\ arrived \in 0..MaxFrames /\ burst \in 0..MaxBurst /\ resets \in 0..MaxResets
    /\ isr \in {"idle", "test", "take", "give", "post", "clear"}
    /\ got \in [desc : Desc, frame : Frame \cup {None}, bufs : SUBSET Pbuf]
    /\ freePbuf \in SUBSET Pbuf /\ freeMsg \in SUBSET Msg /\ reordered \in BOOLEAN
    /\ inp \in [Msg -> [frame : Frame \cup {None}, bufs : SUBSET Pbuf]]
    /\ mbox \in Seq(Msg) /\ Len(mbox) <= MESG_QUEUE_LENGTH
    /\ tpc \in {"wait", "count", "input", "free", "pbuf", "msg"}
    /\ IF tpc = "wait" THEN cur = <<>> ELSE cur \in Msg \X Nat
    /\ left \in SUBSET Pbuf /\ putting \in SUBSET Pbuf
    /\ linked \in (SUBSET Pbuf) \cup (SUBSET Msg)
    /\ handled \in Frame \cup {None} /\ clobbered \in BOOLEAN

(* As long as no list is clobbered every pbuf and every message is in one  *)
(* place: nothing leaks when memory or the mailbox runs out, nothing is    *)
(* handed out twice, and a free message carries nothing.                   *)
OneHolder ==
    ~clobbered =>
      /\ \A b \in Pbuf : /\ b \in freePbuf \cup got.bufs \cup left \cup putting
                            \/ \E m \in Msg : b \in inp[m].bufs
      /\ got.bufs \cap freePbuf = {} /\ left \cap freePbuf = {} /\ putting \cap freePbuf = {}
      /\ left \cap got.bufs = {} /\ putting \cap got.bufs = {} /\ left \cap putting = {}
      /\ \A m \in Msg :
           /\ inp[m].bufs \cap (freePbuf \cup got.bufs \cup left \cup putting) = {}
           /\ \A n \in Msg : m # n => inp[m].bufs \cap inp[n].bufs = {}
           /\ inp[m].bufs # {} => m \in Queued \cup MsgInThread
      /\ freeMsg \cup Queued \cup MsgInThread = Msg
      /\ freeMsg \cap (Queued \cup MsgInThread) = {} /\ Queued \cap MsgInThread = {}
      /\ IsInjective(mbox)

(* The descriptors between the two positions of the ring are the           *)
(* processor's and hold frames in the order they came; the others are the  *)
(* DMA's.  The interrupt and the DMA never work on the same buffer.        *)
First == IF isr = "give" THEN got.desc ELSE DMARxDescToGet
Ahead(d) == (d - First + ETH_RXBUFNB) % ETH_RXBUFNB
Filled == {d \in Desc : ~own[d]}
DescInStep ==
    running =>
      /\ \A d \in Filled : Ahead(d) < Cardinality(Filled)
      /\ dmaNext = (First + Cardinality(Filled)) % ETH_RXBUFNB
      /\ \A d, e \in Filled : Ahead(d) < Ahead(e) => held[d] < held[e]
      /\ isr \in {"take", "give"} => ~own[First]

(* While the interrupt is neither pending nor running the DMA has a        *)
(* descriptor for the next frame, whose interrupt then also serves a frame *)
(* that lost its own; a full ring without an interrupt would be the end of *)
(* reception.                                                              *)
NoLockUp == running /\ isr = "idle" /\ ~irq => own[dmaNext]

(* tcpip_thread gets the frames in the order in which they came. *)
InOrder == [][handled' # handled => handled' > handled]_vars

(* A frame that found the ring full gets into it. *)
FifoMoves == fifo # None ~> (fifo = None \/ clobbered)

(* Once frames stop coming all memory gets back into its pools. *)
BuffersReturn == <>[](clobbered \/ (freePbuf = Pbuf /\ freeMsg = Msg))

(* No list of a memory pool is lost: the interrupt never changes it while  *)
(* memp_free is between its two stores.  (At "input" only the count of the *)
(* mailbox can have been lost.)                                            *)
PoolsProtected == clobbered => tpc = "input"
=============================================================================
