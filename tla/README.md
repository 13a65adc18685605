# Formal models of the pmc_eth firmware

`pmc_eth` is firmware for an STM32F407 with an LAN8720 PHY: FreeRTOS 9, lwIP 1.4.1 (raw API,
`NO_SYS = 0`), and a TCP echo server on port 8080 whose address comes from DHCP. This directory
holds TLA+ modules of its own logic, TLC configurations that check them on small instances,
and proofs checked by TLAPS.

## 1. Inventory

### Parts, state, operations

| part | source | state | operations |
|---|---|---|---|
| Ring buffer | `ETH/lwrb.c` | storage, `w`, `r` | write, read, peek, skip, advance, reset, in-place blocks |
| Ethernet task | `ETH/EthernetDevice.c` | `ethDevice` (state, link, client pointer, flags), link counters, `tcpip_initialized` | `EthernetTCPProcess` (7 states), link check, cleanup, server set-up |
| TCP callbacks | same | same, plus `tcpRxBuffer` | `tcp_server_accept`, `tcp_server_recv`, `tcp_server_error` |
| lwIP core | `LWIP/lwip-1.4.1/src/core` | DHCP client, TCP control blocks, `netif_list` | input, timers, raw calls |
| DHCP client | `LWIP/lwip-1.4.1/src/core/dhcp.c` | `struct dhcp`: state, tries, transaction id, two lease timers | start, stop, replies, ARP conflict, two periodic timers |
| Receive path | `HARDWARE/ETHERNET/lan8720.c`, `netif/ethernetif.c`, `api/tcpip.c`, `core/memp.c`, `core/pbuf.c` | Rx descriptors with OWN bits, `DMARxDescToGet`, two pools, mailbox | `ETH_IRQHandler`, `tcpip_thread`, `low_level_init` |
| Transmit path | `lan8720.c`, `ethernetif.c` | Tx descriptors, `DMATxDescToSet` | `low_level_output` in two threads |
| Timers of lwIP | `core/timers.c` | list of differences, `tcpip_tcp_timer_active` | `sys_timeout`, `sys_timeouts_mbox_fetch`, handlers |
| OS layer of lwIP | `LWIP/arch/sys_arch.c` | FreeRTOS queues, semaphores | mailboxes, semaphores, critical sections |
| Kernel queues | `FreeRTOS/queue.c`, `tasks.c` | storage ring, event lists, delayed lists, tick count | send and receive with time-outs, tick |
| Memory manager | `MALLOC/malloc.c` | a block table per bank | malloc, free, realloc |
| Serial receiver | `SYSTEM/usart/usart.c`, `USMART/usmart.c` | `USART_RX_BUF`, `USART_RX_STA` | receive interrupt, `usmart_scan` |
| Start-up | `USER/main.c`, `ETH/Iot_Ethernet.c` | `g_EthernetModuleInfo.state` | creates the tasks; INIT to READY once |
| Not the program's own | rest of FreeRTOS and lwIP (its heap among them), ST libraries, SEGGER RTT, LCD, `lwip_comm.c` (legacy) | | |

### How they interact

* `network_task` (priority 6) calls `EthernetTCPProcess` in a loop. `tcpip_thread` (priority 30)
  is started by `tcpip_init` the first time the link is up. Both use `ethDevice`, `tcpRxBuffer`
  and lwIP's control blocks; there is no lock. `network_task` calls the raw API directly, although
  `rawapi.txt` reserves it for `tcpip_thread`. Both end up in `low_level_output`.
* The ETH interrupt (priority 0, above the mask of FreeRTOS's critical sections) copies a frame to a
  chain of pbufs and posts it to the mailbox of `tcpip_thread` with the queue function for tasks.
* `tcpip_thread` waits for its mailbox no longer than until the first timer is due; a mailbox is a kernel queue.
* `tcp_server_recv` (writer) and `network_task` (reader) share the ring buffer; `network_task` also
  resets it, in a cleanup, while the writer may run.
* `EthernetDevice_CleanupResources` is called after a link loss and when DHCP gives up. Both callers
  then return to INIT and bring everything up again, on a stack that has kept running.
* lwIP's heap and pools are themselves allocated from the memory manager, once.
* The interrupt of TIM4 runs `usmart_scan` over the receive interrupt of the serial line.

### Hard behaviours and what makes each part correct

| part | hard | correct when |
|---|---|---|
| Ring buffer | indices read early and used late; reset in two stores | it is a FIFO queue; the two sides never touch the same byte |
| Task and callbacks | preemption between a test and a raw call; a connection that ends in one of seven ways at any time; two clients | the client pointer is null or alive; a close is acted on; the listening pcb is neither lost nor doubled |
| Cleanup | the stack goes on while it is taken down | at INIT the stack is quiet; the next bring-up starts from nothing |
| DHCP, link | silent, refusing or conflicting servers, flapping link, lease timers | the server comes up when the link stays up, and is closed when it stays down |
| DHCP client | replies lost, repeated, late; timers of an earlier lease; times of zero; an address in use | it uses only what was granted, notices the end of a lease, comes back, and always has a timer running while it waits |
| Receive path | frames between any two steps, empty pools, full mailbox, full ring, re-initialisation | each buffer has one holder and comes back; the ring's positions agree; no frame is stranded |
| Transmit path | two threads, one ring, no lock | a frame reported as sent is sent (it is not: section 5) |
| Timers | differences in a list, time not counted while busy, a pool of exactly as many entries | none early, none lost |
| Queues | giving up the critical section before blocking; the tick count wraps | no wake-up lost, time-outs in time, FIFO |
| Memory manager | rounding, marks with the count, search from the top | an allocator of disjoint regions that keeps the bytes |
| Serial | a 16-bit word with a count and two flags, overruns, a second interrupt | count inside the buffer; a complete line is what came |

`PROJECT.json` lists every hazard at its line with the properties that cover it.

## 2. Modules

| module | role |
|---|---|
| `ByteFifo` | abstract specification of a ring buffer: a bounded queue of bytes |
| `Lwrb` | `lwrb.c` with a writing and a reading thread; refines `ByteFifo` |
| `Lwip` | pure operators: a DHCP client, a TCP control block and a network interface, and what each raw call or event does to them |
| `EthDevice` | the Ethernet task, its callbacks and the lwIP core, interleaved; the ring is the FIFO queue that `Lwrb` implements |
| `DhcpClient` | abstract specification of the DHCP client: the steps `EthDevice` takes for it |
| `Dhcp` | `dhcp.c` with its messages and timers, a server, a bad network and a host that uses an address; refines `DhcpClient` |
| `EthRx` | the way of a received frame, from the DMA to the pools it came from |
| `EthTx` | the way of a sent frame |
| `Timers` | `timers.c` and the wait of `tcpip_thread` |
| `Mailbox` | abstract specification of a bounded queue of messages |
| `KernelQueue` | a kernel queue with the tasks that wait for it; refines `Mailbox` |
| `Allocator` | abstract specification of an allocator of regions |
| `Malloc` | `malloc.c`, one bank; refines `Allocator` |
| `UartRx` | the serial receiver |
| `EthClaims` | a statement of a document that `EthDevice` does not satisfy |
| `LwrbProofs`, `EthDeviceProofs`, `DhcpProofs`, `EthRxProofs` (with `EthTx`), `TimersProofs`, `MallocProofs`, `KernelQueueProofs`, `UartRxProofs` | TLAPS proofs |
| `MC...` | instances for TLC |

### Lwrb

`buff`, `w`, `r` are the `lwrb_t`. The writer (`wpc`, `wdata`, `wlen`) and the reader (`rpc`, `rlen`,
`rskip`, `rdata`) hold the locals of a call. A call is split at each access the other side can
tell apart: the load of the other index, each `memcpy`, the store of its own index. A `memcpy` is one step:
`NoOverlap` shows that no other copy of the same bytes is under way, so splitting it changes nothing.
`lwrb_get_full` and `lwrb_get_free` load each index once, and one of the two belongs to the caller.
The in-place users (`FillLinearBlock`, `UseLinearBlock`) stand for a caller that follows the header's protocol:
get the linear block, use a prefix of it, then `lwrb_advance` or `lwrb_skip`. Nothing installs an event callback.

`WriterPreempts = TRUE` is the target: `tcpip_thread` runs to completion over `network_task`, also inside
`lwrb_reset`. `FALSE` is a library user with two threads that interleave freely and keeps the writer out of a reset,
as the library asks; the proofs cover both, the run the first.

Refinement mapping: the queue is `Contents`, the bytes from the head to `w`. A reset drops the old bytes when it
stores `w`; from then until `r` is stored the head is 0 (`Head0`).

### Lwip and EthDevice

| TLA+ | code |
|---|---|
| `npc` | the next call or access `network_task` makes |
| `tpcb`, `buffer`, `caller` | its locals and the call site of the cleanup |
| `state`, `tcp_pcb`, `tcp_client_pcb`, `client_*_flag` | the members of `ethDevice` |
| `link` | `ethDevice.ethLinkStatus` and the statics of the link check |
| `netif`, `dhcp`, `heap` | `ethlwip_netif`, its `struct dhcp`, room in lwIP's heap |
| `listener`, `conn` | the listening pcb and the pcb of each connection |
| `ring` | `tcpRxBuffer`: for each byte the connection it came on |
| `phyUp` | the PHY's link bit |

Interleaving. `tcpip_thread` has the higher priority and does not block inside an event, so an event with its
callbacks is one action and may come between any two steps of `network_task`. `network_task` is split at each access to shared
state that an event can make different; accesses that commute with every event are merged
(writes to `ethDevice` members that only this task reads). A raw call is one action, so the
races inside lwIP's lists are not modelled.
`ethDevice.tcp_client_pcb` is not volatile: a second use in the same expression may or may not load it again (`Loaded`).
A raw call on a null or freed pcb leads to `fault`, an interface added twice to `hung`; both are absorbing.

Abstractions. Every lease gives the same address. FIN_WAIT_1 and FIN_WAIT_2 are one state. A heap unit is one
`struct dhcp` or one message. A frame is delivered when it arrives; a frame queued before the cable is
pulled is delivered before. The slots of `Pcb` are fewer than `MEMP_NUM_TCP_PCB`, so the pool itself
is never exhausted. `BspInit` fails or succeeds freely. The static IP branch is unreachable: INIT sets `dhcpEnabled`.
`connectionActive`, `lastActivityTime` and the like are written and never read, and left out.

A SYN that arrives between `tcp_listen` and `tcp_accept` inherits lwIP's default callback, which neither stores the pcb
nor aborts it: `cb = FALSE` marks such a connection.

### Dhcp

`dhcp` has the members of `struct dhcp` that decide something: `state`, `tries`, `t1`, `t2`, the offered address; `timer` is `request_timeout`, not its value
but whether it runs and whether a tick of `dhcp_coarse_tmr` has come since it was set. `terms` says whether the offered times are those of
an ACK or the zeros of `dhcp_start` and `dhcp_release`. Handlers keep their names; `AskAgain`, `GiveUp`, `CheckAgain`, `CheckDone` and `BackOffEnds` are the branches
of `dhcp_timeout`. A transaction id is new whenever `tries` is 0, so all that matters of it is whether it is the current one: `fresh`.
A request that gets no pbuf changes no id and sends nothing; `Failing` are the requests that may meet this, at any time and without limit.
What `dhcp_stop` leaves in the struct is not read before `dhcp_start` clears it, so `dhcp_stop` clears it here.

The network is a set of messages. It may lose one (`Lose`, or a new one pushes it out), deliver one twice (`AfterDelivery`) and deliver them in
any order. The server may leave the SERVER_ID out of an OFFER (`NAMELESS`; `RecvNameless` is the other branch of `dhcp_handle_offer`). It offers any address it has not been told to leave alone, grants and extends leases (`granted`, `left`), refuses what has ended. It gives the
same terms each time. `InUse` are addresses that another host answers ARP queries for.

Time. A step of `dhcp_coarse_tmr` is a minute; times within a minute have no order of their own. Three facts about shorter times are
assumed: a message lives less than ten seconds (so after the pause that follows a DECLINE no older request is under way), at most one tick comes while
a request waits (waits are 60 s at most), and at most one between an ACK and the end of the check of half a second twice.

`AsDriven` ties the two levels: `EthDevice` drives the client by the operators of `Lwip`, at any time and without messages. `DhcpClient` is that client alone,
and every step of `Dhcp` is one of its steps under the mapping of `tries` to what is compared with a limit.

### EthRx

`own`, `held` are the Rx descriptors, `DMARxDescToGet`, `dmaNext` the positions of the driver and of the DMA. `fifo`, `suspended`, `rbus`,
`irq`, `running` are the controller as the driver can tell it: one frame waiting in its FIFO, receive process suspended, the
status bits, started or not. `isr` is the place of `ETH_IRQHandler`, `got` the frame it carries; `freePbuf`,
`freeMsg` the free elements of the two pools; `mbox`, `inp` the mailbox and its messages; `tpc`, `cur`, `left`, `putting` the place of
`tcpip_thread`. The interrupt preempts every thread, so the thread acts only when it is idle; the
interrupt itself is split where the DMA can act. Every failure path of `pbuf_alloc`, `memp_malloc` and `sys_mbox_trypost` is there, with what it gives back.
The thread's `memp_free` is its two stores, and a fetch is its copy and its count, because the interrupt can come between them. When it has changed the list
or the count meanwhile, `clobbered` is set and the model stops: what the memory then holds is not described. `linked` and
`reordered` are what it takes to notice (the element at the head of the list is another one).
A pool is a set and not a list: which element comes next is left open. `memp_malloc` in the interrupt is one step. Frames with an error are dropped by the DMA.
`LAN8720_Init` and `low_level_init` are the two halves of a re-initialisation in `network_task`.

### EthTx

`low_level_output(f)` is a call in `tcpip_thread`, in one step because nothing that uses the ring preempts it but the DMA;
`Copy`, `Check`, `Give`, `Advance` are a call in `network_task`. `DMATxDescToSet` is read again in each, as in the code.

### Malloc

In `Malloc`, `memmap` is the table of one bank, `membase` the bytes by the client that wrote them. `my_mem_init` happens at the first use
if not before. The abstract `Allocator` has regions, with no table and no choice of the place.

### Timers

The list holds differences as in the code. `left` and `missed` are the clock's view: ticks until a handler is due, and ticks its
entry did not see. `InTime` ties the two together. A tick in which the thread runs counts for no entry (`TickMissed`). `pcbs` says whether there are active
or TIME_WAIT connections.

### KernelQueue

A critical section is one step, and so is a section with the scheduler suspended. `call` is the stack frame of a call (`wait` the remaining ticks, `entry` the `TimeOut_t`), `list` the kernel list
of the task's state item, `wakeAt` its value. `Runs` is the scheduler's choice by priority: a task acts only when none of a higher priority could. `left` is the clock's view of a bounded wait.
The lock counts of the queue stay as they are, because no function for interrupts is called (the ETH interrupt calls the function for tasks; that is `EthRx`'s subject).

### UartRx

`count`, `cr`, `complete` are the three fields of `USART_RX_STA`. `line` is the sequence of accepted bytes, of which the buffer must hold the end. `ore` is the overrun flag, with the order of
the reads of SR and DR that clears it.

## 3. Runs

| run | question | instance | states, time |
|---|---|---|---|
| `lwrb_preempt` | is the ring a FIFO on the target's schedule, reset included? | 4 cells, 2 byte values, requests up to 3 | 1 219 200, 36 s |
| `eth_clients` | pointer, flags and listener with two clients; is a close acted on; what can keep the server from starting? | 2 connections, ring of 1, 1 link loss | 192 389, 85 s |
| `eth_bringup` | cleanup and DHCP with a bad server; does the server come up, and go down, in the end? | no connection, 2 link losses, 6 troubles, real retry limits | 68 536, 15 s |
| `malloc` | is it an allocator? | 4 blocks of 2 bytes, 3 clients, requests up to 9 | 55 230, 40 s |
| `dhcp` | is an address used that was not granted, or past the end of its lease? does the client come back, and let go of what has ended? | 2 addresses, one in use elsewhere, 1 message in each direction, lease of 2 ticks, no memory for RENEW and RELEASE at any time, OFFERs with and without SERVER_ID | 173 474, 135 s |
| `receive` | is a buffer or a frame ever lost? | 2 descriptors, 4 pbufs, 3 messages, mailbox of 2, 4 frames, 1 re-initialisation | 861 566, 115 s |
| `timers` | is a timer early, late or lost? | 2 cyclic timers and that of TCP, 3 entries, 3 missed ticks | 7 366, 3 s |
| `queue` | is a wake-up lost or a time-out wrong? | 2 places, 3 tasks of 3 priorities, ticks of 2 bits | 435 392, 25 s |
| `serial` | is a line what was received? | buffer of 3, lines up to 5 | 156 790, 3 s |
| `claim_*` | three statements the code does not satisfy (section 5) | small instances | |

Bounds and why they are enough:
* `Size`: 4 cells and runs of 3 bytes give copies in one and in two parts, full, empty and one-off buffers, and all relative positions
  of the indices; the proofs hold for every size.
* `Pcb`: two connections are what it takes for one to replace another; a third would play the part of one of them.
* `RxSize`: 1 gives an empty and a full ring. With 2 the run has 412 195 states and no error, and takes three times as long.
* `MaxFlaps`: link losses. One gives a cleanup at any moment of the service, two a cleanup after a restart.
* `MaxTrouble`: DHCP messages unanswered, refused, or timers of an old lease. Three reach the give-up
  test (`tries > 2`); six do so twice, or from every later state.
* `RequestTries`, `RebindTries` are 5 and 8 as in lwIP. `MaxTries`: where `tries` stops counting; above every limit it is compared with.
* `LinkCheckPeriod`: 10 in the code; 1 and 2 here: the counter only delays the look at the PHY.
* `HeapUnits`: 3 with one restart, 10 in `eth_bringup`, more than its restarts can leak, because an exhausted heap is a known defect (section 5).
* `Lease`, `T1`, `T2`: 2, 1, 2 ticks have a renewal before the rebinding, and the T2 a client computes when the server names none.
  `TimerWidth`, `TriesWidth`: 3 values each, so timers and tries wrap at once. One retry gives the first try, the last and the give-up; the theorems have any number.
* `MaxMessages`: 1 in each direction; a new message pushes the old one out or is lost itself, so late and repeated replies meet the next requests about the same
  address. A reply about another address takes two replies under way; that it does no harm is proved: `OnlyGranted` and `EndNoticed` hold for any number. `MaxOverdue`: where the time after the end of a lease stops counting; `NoticesEnd` only asks for its sign.
* `Failing`: RENEW and RELEASE, the requests that leave the interface an address or take it away. When neither DISCOVER nor REQUEST need get memory, a client
  that never got memory for a request takes a late reply of the exchange before for its answer.
* `ETH_RXBUFNB`: 5 in the code. Two give a full ring and a wrap, and `MaxFrames` = 4 goes round twice. `Pieces` makes one frame take two pbufs,
  so that `pbuf_alloc` can fail half way. `MaxBurst`: frames stored between the last test and the clearing of the status bits; each such
  frame leaves the interrupt one behind, so an unbounded number is a known exposure (section 5).
* Messages and mailbox: three and two, so that either can run out first.
* `Ticks`: 4 values; a wait of two ticks wraps from every second start; `MaxLate` lets a task be delayed by its priority past a wrap.
* `MaxMissed`: three ticks exceed the smaller interval.
* `USART_REC_LEN` is 200 in the code; with 3, lines of 5 overflow it; the proofs hold for every length.

Some configurations turn deadlock checking off: `receive` and the two claims about the driver end when `MaxFrames` frames have passed.

What they show. The ring buffer meets its specification, also when a write runs over an unfinished reset. The task
never loses or doubles its listener and, but for the window of section 5, its client pointer is null or alive. A cleanup leaves no listener,
no running DHCP client and no reachable TCP, whatever `tcpip_thread` did meanwhile. A recorded close is acted on even under
a stream of data. With the cable in, the server comes up; with the cable out, it is closed. As long as the interrupt does not hit one of the
windows of section 5, no pbuf, message or descriptor is lost on any failure path, and the ring recovers from being full and from a re-initialisation under traffic.
The memory manager, the timers and the kernel's queues do what their callers rely on. The DHCP client comes back to an address after any trouble but one, an OFFER
that does not name its server (section 5).

What they leave out. `EthRx` goes no further once a list or a count is `clobbered`: `OneHolder`, `InOrder` and `BuffersReturn` speak of the time before, `PoolsProtected`
is the property about the event itself. `QuietAtReinit` does not look at `netif_list`: a skipped `netif_remove` shows as `hung`. `ServerKnown` is about listening pcbs, not
about a connection that no callback has announced; `ClientPcbLive` does not say that every connection is served.

### Fairness

* `WF(NetworkTask)`: `tcpip_thread` waits for its mailbox between events, so the lower priority gets to run.
* `SF(BspInit(TRUE))`: the PHY can be written from time to time.
* `SF(DhcpOffer)`, `SF(DhcpAck)`: a server that is asked again and again answers some time. `MaxTrouble` bounds the silence as well.
  `EthDevice` has no request timer, so this presumes that an OFFER names its server; what another OFFER does is in `Dhcp`.
* `WF(DhcpWaited)`: `dhcp_fine_tmr` runs every 500 ms.
* `WF(Expires(c))`, `WF(TimeWaitOver(c))`: `tcp_slowtmr` removes a pcb that waits for a FIN, an ACK or the end of TIME_WAIT. An open, idle
  connection has no such timer (keep-alive is off), so none is assumed for it.
* `Dhcp`: `WF` of the two timers, which `tcpip_thread` runs (`Timers` shows that they go on); `SF` of the server's answers and of the client's receipt of ACKs and of OFFERs that name their server: what is
  asked again and again is answered and arrives some time. An OFFER without SERVER_ID may come at any time instead, so `ComesBack` has to except
  the search that it leaves without a timer. A NAK or a conflict need not ever happen, and may always.
* `EthRx`: the DMA, the interrupt, `tcpip_thread` and the second half of a re-initialisation go on; frames need not arrive.
* `Timers`: the thread goes on, and `SF` of a tick while it waits: the mailbox is empty for a tick again and again. A flood without such a pause
  does starve the timers in the code; that is why it has to be assumed.

No fairness is assumed for clients or for the cable.

## 4. Proofs

`LwrbProofs` holds for every `Size > 0`, byte set and request bound, and for both values of `WriterPreempts`.

| theorem | states |
|---|---|
| `ClaimsAlwaysFit` | `Spec => []ClaimsFit` |
| `ResetWindowHolds` | `Spec => []ResetWindow` |
| `NeverOverlaps` | `Spec => []NoOverlap` |
| `TypeCorrect` | `Spec => []TypeOK` |
| `ImplementsByteFifo` | `Spec => FifoRefined` |

Assumptions: `LwrbAssumption` only. The inductive invariant is `IInv == Control /\ ClaimsFit /\ ResetWindow`; `Control` says where
the two threads can be. `ClaimsFit` is not inductive alone: the load of a count is stale as soon as the other side moves, and what
keeps the claim valid is that the other side only ever makes room (`AdvanceWrite`, `AdvanceRead`), except for a reset. For a reset the
argument is `ResetWindow`: between its stores the writer finds free space up to the old read index only, so it cannot wrap.
`NeverOverlaps` follows from `IInv` with two lemmas about spans of cells (`SpanFree`, `SpanFull`). `TypeCorrect` strengthens `IInv` by the
lengths of the data in flight (`Data`).
`ImplementsByteFifo` adds what the cells hold: what the writer has copied behind `w` is what it was given (`Stored`), what the reader has
copied is what the queue begins with (`Copied`). A write then is one step of the queue, at the store of `w` (`PublishPuts`), a read one at the store of `r`
(`PublishTakes`), and every other step is a stutter.

`EthDeviceProofs` holds for every set `Pcb` of connections, every ring and read size, every retry limit and every bound of the model,
in particular for any number of link losses, DHCP troubles and restarts.

| theorem | states | argument |
|---|---|---|
| `TypeCorrect` | `Spec => []TypeOK` | inductive as it stands; `DhcpFacts`, `NetifFacts`, `PcbFacts` say that each operator of `Lwip` keeps its shape |
| `ServerAlwaysKnown` | `Spec => []ServerKnown` | needs `AtState`: at which `npc` the task is in which case of its switch |
| `DhcpAlwaysHasNetif` | `Spec => []DhcpHasNetif` | `StackInv`: every DHCP event needs a client at work (`DhcpEventNeedsClient`), so after `dhcp_stop` a cleanup is not overtaken |
| `AlwaysQuietAtReinit` | `Spec => QuietAtReinit` | an action property; only the last step of a cleanup gets to INIT, and there `ServerKnown` and `StackInv` give the three parts |
| `ClientPcbAlwaysLive` | `Spec => []ClientPcbLive` | `ClientInv`: the pcb named by the pointer also has our callbacks. Without that, a removal need not clear the pointer |
| `LockedNeverBogus` | `Spec /\ Locked => []NeverBogus` | with `ClientInv`: what was loaded is still the client pcb, and open |
| `UpNeverHung` | `Spec /\ StaysUp => [](npc # "hung")` | an interface in the list is up, so the cleanup removes it before `netif_add` |

The last two name the causes of a defect of section 5: under `Locked`, nothing changes the connections between a load of the client pointer
and the raw call that uses it; under `StaysUp` only a cleanup takes the interface down. Neither holds of the code, and nothing else is missing.

Assumptions: `LwipAssumption` and `EthDeviceAssumption`. Each `...Inv` is inductive relative to `TypeOK`, and `StackInv` is used
together with `ServerInv`. `TypeOK` is proved in two halves, `Shape` and the Boolean `Flags`, because the provers divide the work that way.

`DhcpProofs` holds for every set of addresses, any number of messages under way, every retry limit, width and lease time.

| theorem | states | argument |
|---|---|---|
| `TypeCorrect` | `Spec => []TypeOK` | inductive; every request has one form (`Asks`) and one effect (`Asked`) |
| `OnlyGranted` | `ASSUME Memory PROVE Spec => []AddressGranted` | `Grants`: see below |
| `OnlyNamelessStrands` | `Spec => [][Attended => Attended' \/ RecvNameless]_vars` | every request sets the timer (`RequestTimed`), a tick does not stop it (`CoarseTimed`): so the exception in `ComesBack` has one cause |
| `EndNoticed` | `ASSUME Memory, T2 <= Lease PROVE Spec => []NoticesEnd` | `Grants`: the ticks left are at least `t2 - 1` |

`AddressGranted` says nothing of what is under way, so it is not inductive. `Grants` has six parts: from the REQUEST on, what is under way with the current id is
about the offered address (`Exchange`); an ACK, an address under check and a lease in use each rest on a grant, whose age they bound (`Answers`, `Checking`, `Leased`); a DECLINE is
under way only while the client backs off, when nothing of the exchange is left (`Declined`); and nothing of an earlier exchange is left in a search (`Searching`), if its
first DISCOVER got memory. `Memory` is `~("DISCOVER" \in Failing /\ "REQUEST" \in Failing)`: one of the two renews the transaction id between an exchange about one address and
an exchange about another. All other requests may fail at any time.

`ImplementsDhcpClient` is `ASSUME Memory PROVE Spec => AsDriven`. `Abs` is the refinement mapping; `RequestsMap` says that a request of `Dhcp` is the
request of the same name in `Lwip` under it, and `StepMaps` takes each action to one of `DhcpClient` or to a stutter. It needs `Grants`: a client that binds, after a check or
a renewal, binds to an address, and so `leased` becomes true.

`MallocProofs` holds for every number and size of blocks, every set of clients and every bound on requests.

| theorem | states | argument |
|---|---|---|
| `TypeCorrect` | `Spec => []TypeOK` | inductive |
| `TableAgrees` | `Spec => []TableExact` | the marks of a new allocation are where `Fits` saw zeros, so they are no other client's |
| `AllocationsDisjoint` | `Spec => []Disjoint` | two clients with a common block would give it two start offsets |
| `BytesKept` | `Spec => []DataKept` | needs disjointness, and that rounding up gives at least the bytes asked for |
| `ImplementsAllocator` | `Spec => Allocates` | each action maps to the abstract one of its name or to a stutter; `TableExact` makes the chosen region free |

`EthRxProofs` holds for every length of the ring, of the pools and of the mailbox, every number of frames, of pbufs a frame needs and of restarts.

| theorem | states | argument |
|---|---|---|
| `TypeCorrect` | `Spec => []TypeOK` | needs `PlacesInv`: what is in the hands of the interrupt and of the thread at each of their steps |
| `HeldOnce` | `Spec => []OneHolder` | inductive together with `TypeOK` and `PlacesInv`; one lemma per way a buffer changes hands |
| `NothingLeaks` | at rest, and not clobbered, both pools are full | from `OneHolder`: nobody is left to hold anything |
| `InStep` | `Spec => []DescInStep` | `RingInv`: there is a number n such that the n descriptors from the interrupt's position on are the processor's, in the order of their frames |
| `NeverLocked` | `ASSUME MaxBurst < ETH_RXBUFNB PROVE Spec => []NoLockUp` | `RingInv`: when the interrupt ends, n is at most what came since its last test |
| `FramesInOrder` | `Spec => InOrder` | `OrderInv`: handled < in the mailbox < carried < in the ring < in the FIFO |
| `MaskedNeverClobbered` | `Spec /\ Masked => []~clobbered` | `SectionInv`: what the thread has read in a section is still so |
| `OrderedSendsSucceed` | `Tx!Spec /\ TestedFirst /\ OneAtATime => []Tx!SendSuccess` | about `EthTx`, for every ring: what a call has copied stays in its buffer until it is sent |

The inductive invariant is `TypeOK /\ OneHolder /\ PlacesInv /\ RingInv /\ OrderInv`. The assumption of `NeverLocked` says that fewer frames come than there are
descriptors between the last test of the interrupt and the clearing of its status bits: some instructions against the time of five frames on the wire. The last two
theorems name the causes of two defects of section 5: `Masked` says that the interrupt does not begin inside a critical section, `TestedFirst` that a buffer is not written
while the DMA owns it, `OneAtATime` that no call of `low_level_output` begins within another. The code has none of the three. Several claims about the pools have the
condition `~clobbered`; with `Masked` they hold without it.

`TimersProofs` holds for every set of handlers, every interval and any number of missed ticks.

| theorem | states | argument |
|---|---|---|
| `EachInTime` | `Spec => []InTime` | `Gaps`: each entry holds the difference between when it is due and when the one before it is |
| `TcpAlwaysTimed` | `ASSUME Enough PROVE Spec => []TcpTimed` | a handler is entered once (`Once`), so there is room for one that is not (`Room`) |
| `CyclicAlwaysEntered` | `ASSUME Enough PROVE Spec => []CyclicEntered` | the same: `sys_timeout` of a handler that runs never fails |

`IInv` is `Shape /\ Once /\ Waits /\ Gaps /\ TcpKnown`. `DueIn` is a sum over the list; that it is the due time of the handler (`DueIsSum`), and that an entry is put between those due
earlier and later (`PlaceSplits`), rest on a least counterexample (`Least`) instead of an induction. `Enough` is
`Cardinality(Handler) <= MEMP_NUM_SYS_TIMEOUT`: `lwipopts.h:34` has 8 entries for 5 handlers.

`UartRxProofs` holds for every buffer length, alphabet and bound.

| theorem | states | argument |
|---|---|---|
| `TypeCorrect` | `Spec => []TypeOK` | inductive together with where the handler is |
| `LinesExact` | `Spec => []LineExact` | the count is the length of the line modulo that of the buffer (`CountedFollows`); the handler stores nothing while a line is complete |

`KernelQueueProofs` holds for every queue length, every finite set of tasks, every assignment of priorities and every width of the tick count.

| theorem | states | argument |
|---|---|---|
| `TypeCorrect` | `Spec => []TypeOK` | inductive together with `Noted` (which call a task is in where) and `AtLeast` (the time on a task's stack is not behind the clock) |
| `NoneLost` | `Spec => []NoLostWakeup` | `Covered`: every success of one side wakes one blocked task of the other (`SuccessCovered`), a task blocks only when nothing is there (`FailsCovered`), and the tick wakes only blocked tasks (`TickCovered`) |
| `NoEarlyFailure` | `Spec => FailsInTime` | the elapsed time the kernel computes is at most the real one (`ElapsedFacts`), and a call that goes on has a wait left (`Waiting`) |
| `BlockedInTime` | `ASSUME Punctual PROVE Spec => []WokenInTime` | `Timely`: the wake-up time in the delayed list is the current time plus what is left, modulo the width, also across the switch of the two lists |
| `ImplementsMailbox` | `Spec => FifoRefined` | the cells between the two positions hold messages, as many as the count says (`Ring`), and a send has loaded one (`Loaded`); `SendPuts`, `ReceiveTakes` map the two steps that count, and every other is a stutter |

Assumptions: `QueueAssumption`, and for `BlockedInTime` only `Punctual == \A n \in Timeouts : n + MaxLate <= Ticks`. The kernel keeps the
number of overflows and compares it for equality; when a wait and the delay of its task together exceed one round of the count, one
overflow no longer says how much time has passed. With 32 bits and a tick of 1 ms that is 49 days.

With these, every safety property of a passing run is a theorem for all values of the constants, under the assumptions named above. Model-checked only are
the properties that say "in the end", which rest on fairness and are out of the prover's reach: `CloseServed`, `ServerStarts`, `ServerComesUp`, `LinkLossSeen` of
`EthDevice`, `FifoMoves` and `BuffersReturn` of `EthRx`, `HandlersRun` of `Timers`, `ComesBack` and `EndsUse` of `Dhcp`; and the violations of section 5.

## 5. Where the code departs from its documents

Each is a violation run: the trace ends in the state the document excludes.

| run | what the trace shows |
|---|---|
| `claim_never_bogus` | `tcp_client_pcb` passes the test at `EthernetDevice.c:603`; a reset arrives; `tcp_write` gets NULL or a freed pcb (also lines 104, 606, 616) |
| `claim_pools_protected` | `memp_free` in `tcpip_thread` has linked an element to the head of the list; the interrupt takes that head; the list now goes on with an element in use. The mask of the critical section lets priority 0 through. The count of the mailbox is in the same position (`FetchCounts`) |
| `claim_send_success` | two frames fill the ring and have returned `ERR_OK`; the third call copies its frame over the first before it finds that the descriptor is the DMA's. The preemption of `network_task` inside the function, which needs no full ring, is a second way to the same end |

Seen in the models and not made a run:
* an ACK without T2 makes T2 the whole lease (`dhcp.c:542`): the address is in use after the lease until the rebinding is given up;
* `tries`, a `u8_t`, wraps in a renewal nobody answers; a wait of 0 is none (`dhcp.c:1062`), and only T2 goes on. It takes 85 minutes without a server, so a lease of about three hours;
* `mem_calloc` multiplies in 16 bits, and `ETH_GetRxPktSize` returns 0 for a frame with an error; neither can happen here: nothing asks for so much, and the DMA drops such frames;
* an OFFER without SERVER_ID: `dhcp_recv` has set `request_timeout` to 0 (`dhcp.c:1624`), `dhcp_handle_offer` sends nothing (`dhcp.c:268`), and SELECTING has no timer
  left. Unless another OFFER comes, the client never asks again, `tries` stays below the limit of the task, and the task waits in DHCP until the link is lost;
* a connection accepted between `tcp_close` and the store of NULL (`EthernetDevice.c:616-617`) is forgotten;
* a NAK takes the interface down, the cleanup then skips `netif_remove` (line 117), and `netif_add` makes `netif_list` a cycle (`hung` in `EthDevice`);
* `dhcp_stop` keeps `struct dhcp` and `netif_add` forgets it: each restart leaks one, until `dhcp_start` fails and the task stays in DHCP;
* the cleanup aborts one connection only; another survives and `tcp_bind` fails as long as it lives;
* WAIT_TCP clears the close flag of a client that has come and gone; its pcb stays in CLOSE_WAIT;
* bytes of one client can be echoed to the next;
* the DHCP state gives up at `tries > 2` although `LWIP_MAX_DHCP_TRIES` is 10 and the message prints that;
* `TCP_CONNECTION_IDLE_TIMEOUT` and `TCP_WAIT_CONNECT_TIMEOUT` are read nowhere, so a silent client is served for ever;
* a full ring drops bytes that TCP has acknowledged;
* a frame stored between the last test and the clearing of the interrupt's status waits for the next frame (`lan8720.c:191`);
* when `ETH_Mem_Malloc` fails half way, `ETH_Mem_Free` frees the rest and leaves the pointers set;
* `dhcp_release` clears the addresses before it makes the RELEASE, which goes to 0.0.0.0 and names nothing (`dhcp.c:1178`);
* the ACK of a renewal is not read: new times or another address are ignored (`dhcp.c:1610`);
* an overrun between the reads of SR and DR keeps the serial interrupt busy until the next byte.

## 6. Not modelled, and why

* The rest of lwIP (segments, windows, ARP, IP reassembly, sockets, SNMP, PPP, IPv6): third-party protocol code, most of it compiled out or
  never called; what of it the task can notice is in `Lwip`.
* In `Dhcp`: bytes, options, masks and gateways; REBOOTING, which only `dhcp_network_changed` enters and nothing calls; `dhcp_inform`.
* lwIP's heap (`mem.c`): third-party and sequential under one semaphore. That it can run out is an outcome where the models allocate from it.
* The rest of FreeRTOS: mutexes, software timers, event groups, the heaps and ports for other processors. Not used here beyond
  what `KernelQueue` has.
* ST's peripheral libraries, the LCD, RTT and board drivers, USMART's parser: register writes and formatting, no protocol.
* `lwip_comm.c` (legacy, nothing calls it), start-up code: `main.c` creates only `network_task` and `ethwork_task`, and the latter only delays.
* Raw calls are one action in `EthDevice`: races inside lwIP's PCB lists are not modelled.
* The pools in `EthRx` have the interrupt and `tcpip_thread` as users; `network_task` is a third that makes the windows of section 5 larger.

These parts are most of the repository's lines: vendor headers and drivers alone are more than half of it.

## 7. Plan

Done: every safety property that a passing run checks has its theorem. What is left:

1. `EthServer`: an abstract server (down, up, serving one client) that `EthDevice` implements up to `fault` and `hung`, checked and proved.
2. Composition of `EthDevice` with `Lwrb` in place of `ring`, by `ImplementsByteFifo`.
3. The PCB lists of TCP with two threads.
