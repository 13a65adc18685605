-------------------------------- MODULE Lwrb --------------------------------
(***************************************************************************)
(* The lock-free ring buffer of ETH/lwrb.c with one writing and one        *)
(* reading thread.  In the firmware the writer is tcpip_thread, inside     *)
(* tcp_server_recv, and the reader is network_task, inside                 *)
(* EthernetTCPProcess and EthernetDevice_CleanupResources.                 *)
(*                                                                         *)
(* An operation is split where the other thread can tell the difference:   *)
(* at the load of the other thread's index, at each memcpy, and at the     *)
(* store that publishes the operation's own index.                         *)
(***************************************************************************)
EXTENDS Integers, Sequences

CONSTANTS Size,           \* buff->size
          Byte,           \* byte values
          MaxLen,         \* bound: longest request of one call
          WriterPreempts  \* TRUE: the writer runs to completion over the reader
                          \* (tcpip_thread has priority 30, network_task 6)

ASSUME LwrbAssumption == /\ Size \in Nat \ {0}
                         /\ MaxLen \in Nat
                         /\ WriterPreempts \in BOOLEAN

VARIABLES
  buff, w, r,          \* the shared lwrb_t
  wpc, wdata, wlen,    \* writer: control point, argument, accepted length (btw)
  rpc, rlen, rskip,    \* reader: control point, length (btr), skip count
  rdata, out           \* reader: bytes copied so far, result of the last call

writerVars == <<wpc, wdata, wlen>>
readerVars == <<rpc, rlen, rskip, rdata, out>>
vars == <<buff, w, r, writerVars, readerVars>>

-----------------------------------------------------------------------------
(* Index arithmetic *)

Cell == 0..(Size - 1)
Minimum(a, b) == IF a <= b THEN a ELSE b
WrapLate(i) == IF i > Size THEN i - Size ELSE i       \* mutant: > for >=
Wrap(i) == IF i >= Size THEN i - Size ELSE i

(* lwrb_get_full and lwrb_get_free for indices pw and pr *)
Full(pw, pr) == IF pw >= pr THEN pw - pr ELSE Size - (pr - pw)
FreeAll(pw, pr) ==                                    \* mutant: without the - 1
    IF pw = pr THEN Size ELSE IF pr > pw THEN pr - pw ELSE Size - (pw - pr)
Free(pw, pr) == (IF pw = pr THEN Size
                 ELSE IF pr > pw THEN pr - pw
                 ELSE Size - (pw - pr)) - 1

(* lwrb_get_linear_block_read_length and ..._write_length *)
LinearRead(pw, pr) == IF pw > pr THEN pw - pr
                      ELSE IF pr > pw THEN Size - pr ELSE 0
LinearWrite(pw, pr) == IF pw >= pr
                       THEN Size - pw - (IF pr = 0 THEN 1 ELSE 0)
                       ELSE pr - pw - 1

(* memcpy of n bytes, from position k of d, to the cells from `at' *)
CopyIn(at, d, k, n) ==
    [c \in Cell |-> IF at <= c /\ c < at + n THEN d[k + (c - at)] ELSE buff[c]]

(* n cells from `at', without wrapping *)
CopyOut(at, n) == [i \in 1..n |-> buff[at + i - 1]]

ToEnd(at, n) == Minimum(Size - at, n)   \* the linear part of n cells from `at'

Request == UNION {[1..n -> Byte] : n \in 1..MaxLen}

-----------------------------------------------------------------------------
(* The writing thread *)

(* The locals of a call die with it. *)
WriterReturns == wpc' = "idle" /\ wdata' = <<>> /\ wlen' = 0

(* lwrb_reset must not run while the writer does.  On the target nothing   *)
(* enforces that but the priorities: the writer can run inside the reset.  *)
MayWrite == wpc = "idle" /\ (WriterPreempts \/ rpc # "reset")

lwrb_write(d) ==
    /\ MayWrite
    /\ wpc' = "free" /\ wdata' = d
    /\ UNCHANGED <<buff, w, r, wlen, readerVars>>

(* Mutant: the request is not cut down to the free space.                  *)
WriteUnclamped ==
    /\ wpc = "free"
    /\ IF Free(w, r) = 0 THEN WriterReturns
       ELSE wpc' = "linear" /\ wlen' = Len(wdata) /\ wdata' = wdata
    /\ UNCHANGED <<buff, w, r, readerVars>>

WriteGetFree ==
    /\ wpc = "free"
    /\ LET n == Minimum(Free(w, r), Len(wdata)) IN
         IF n = 0 THEN WriterReturns
         ELSE wpc' = "linear" /\ wlen' = n /\ wdata' = wdata
    /\ UNCHANGED <<buff, w, r, readerVars>>

WriteLinear ==
    /\ wpc = "linear"
    /\ buff' = CopyIn(w, wdata, 1, ToEnd(w, wlen))
    /\ wpc' = IF ToEnd(w, wlen) < wlen THEN "wrapped" ELSE "publish"
    /\ UNCHANGED <<w, r, wdata, wlen, readerVars>>

(* Mutant: the second part starts again at the first byte.                 *)
WrappedFromStart ==
    /\ wpc = "wrapped"
    /\ buff' = CopyIn(0, wdata, 1, wlen - ToEnd(w, wlen))
    /\ wpc' = "publish"
    /\ UNCHANGED <<w, r, wdata, wlen, readerVars>>

WriteWrapped ==
    /\ wpc = "wrapped"
    /\ buff' = CopyIn(0, wdata, ToEnd(w, wlen) + 1, wlen - ToEnd(w, wlen))
    /\ wpc' = "publish"
    /\ UNCHANGED <<w, r, wdata, wlen, readerVars>>

WritePublish ==
    /\ wpc = "publish"
    /\ w' = Wrap(w + wlen)
    /\ WriterReturns
    /\ UNCHANGED <<buff, r, readerVars>>

(* Writing in place: the caller fills a prefix of the linear free block,   *)
(* then lwrb_advance counts the free bytes again and publishes.            *)
FillLinearBlock(d) ==
    /\ MayWrite
    /\ Len(d) <= LinearWrite(w, r)
    /\ wpc' = "advance" /\ wdata' = d /\ wlen' = Len(d)
    /\ buff' = CopyIn(w, d, 1, Len(d))
    /\ UNCHANGED <<w, r, readerVars>>

lwrb_advance ==
    /\ wpc = "advance"
    /\ w' = Wrap(w + Minimum(wlen, Free(w, r)))
    /\ WriterReturns
    /\ UNCHANGED <<buff, r, readerVars>>

-----------------------------------------------------------------------------
(* The reading thread *)

ReaderRuns == WriterPreempts => wpc = "idle"

(* A call returns `result' to its caller. *)
ReaderReturns(result) ==
    rpc' = "idle" /\ rlen' = 0 /\ rskip' = 0 /\ rdata' = <<>> /\ out' = result

lwrb_read(n) ==
    /\ ReaderRuns /\ rpc = "idle"
    /\ rpc' = "full" /\ rlen' = n
    /\ UNCHANGED <<buff, w, r, writerVars, rskip, rdata, out>>

(* Mutant: the read index is stored before the bytes are copied.           *)
ReadReleasesEarly ==
    /\ ReaderRuns /\ rpc = "full"
    /\ LET n == Minimum(Full(w, r), rlen) IN
         IF n = 0 THEN ReaderReturns(<<>>) /\ UNCHANGED r
         ELSE /\ rpc' = "linear" /\ rlen' = n /\ r' = Wrap(r + n)
              /\ UNCHANGED <<rskip, rdata, out>>
    /\ UNCHANGED <<buff, w, writerVars>>

ReadGetFull ==
    /\ ReaderRuns /\ rpc = "full"
    /\ LET n == Minimum(Full(w, r), rlen) IN
         IF n = 0 THEN ReaderReturns(<<>>)
         ELSE rpc' = "linear" /\ rlen' = n /\ UNCHANGED <<rskip, rdata, out>>
    /\ UNCHANGED <<buff, w, r, writerVars>>

ReadLinear ==
    /\ ReaderRuns /\ rpc = "linear"
    /\ rdata' = CopyOut(r, ToEnd(r, rlen))
    /\ rpc' = IF ToEnd(r, rlen) < rlen THEN "wrapped" ELSE "publish"
    /\ UNCHANGED <<buff, w, r, writerVars, rlen, rskip, out>>

ReadWrapped ==
    /\ ReaderRuns /\ rpc = "wrapped"
    /\ rdata' = rdata \o CopyOut(0, rlen - ToEnd(r, rlen))
    /\ rpc' = "publish"
    /\ UNCHANGED <<buff, w, r, writerVars, rlen, rskip, out>>

ReadPublish ==
    /\ ReaderRuns /\ rpc = "publish"
    /\ r' = Wrap(r + rlen)
    /\ ReaderReturns(rdata)
    /\ UNCHANGED <<buff, w, writerVars>>

lwrb_peek(skip, n) ==
    /\ ReaderRuns /\ rpc = "idle"
    /\ IF skip >= Full(w, r)
       THEN ReaderReturns(<<>>)
       ELSE /\ rpc' = "peek" /\ rskip' = skip
            /\ rlen' = Minimum(Full(w, r) - skip, n)
            /\ UNCHANGED <<rdata, out>>
    /\ UNCHANGED <<buff, w, r, writerVars>>

PeekCopy ==
    /\ ReaderRuns /\ rpc = "peek"
    /\ LET at  == Wrap(r + rskip)
           lin == ToEnd(at, rlen)
       IN  ReaderReturns(CopyOut(at, lin) \o CopyOut(0, rlen - lin))
    /\ UNCHANGED <<buff, w, r, writerVars>>

lwrb_skip(n) ==
    /\ ReaderRuns /\ rpc = "idle"
    /\ r' = Wrap(r + Minimum(n, Full(w, r)))
    /\ UNCHANGED <<buff, w, writerVars, readerVars>>

(* Reading in place: the caller uses a prefix of the linear full block,    *)
(* then lwrb_skip counts the full bytes again and publishes.               *)
UseLinearBlock(n) ==
    /\ ReaderRuns /\ rpc = "idle"
    /\ n <= LinearRead(w, r)
    /\ rpc' = "skip" /\ rlen' = n
    /\ rdata' = CopyOut(r, n)
    /\ UNCHANGED <<buff, w, r, writerVars, rskip, out>>

SkipLinearBlock ==
    /\ ReaderRuns /\ rpc = "skip"
    /\ r' = Wrap(r + Minimum(rlen, Full(w, r)))
    /\ ReaderReturns(rdata)
    /\ UNCHANGED <<buff, w, writerVars>>

(* lwrb_reset: w first, then r.  Its users must keep the writer out.       *)
lwrb_reset ==
    /\ ReaderRuns /\ rpc = "idle" /\ wpc = "idle"
    /\ w' = 0
    /\ rpc' = "reset"
    /\ UNCHANGED <<buff, r, writerVars, rlen, rskip, rdata, out>>

ResetRead ==
    /\ ReaderRuns /\ rpc = "reset"
    /\ r' = 0
    /\ rpc' = "idle"
    /\ UNCHANGED <<buff, w, writerVars, rlen, rskip, rdata, out>>

-----------------------------------------------------------------------------
(* lwrb_init leaves the storage as it was: any content.                    *)
lwrb_init ==
    /\ buff \in [Cell -> Byte]
    /\ w = 0 /\ r = 0

Init == /\ lwrb_init
        /\ wpc = "idle" /\ wdata = <<>> /\ wlen = 0
        /\ rpc = "idle" /\ rlen = 0 /\ rskip = 0 /\ rdata = <<>> /\ out = <<>>

Writer == \/ \E d \in Request : lwrb_write(d) \/ FillLinearBlock(d)
          \/ WriteGetFree \/ WriteLinear \/ WriteWrapped \/ WritePublish
          \/ lwrb_advance

Reader == \/ \E n \in 1..MaxLen : lwrb_read(n) \/ lwrb_skip(n) \/ UseLinearBlock(n)
          \/ ReadGetFull \/ ReadLinear \/ ReadWrapped \/ ReadPublish
          \/ \E skip \in 0..MaxLen, n \in 1..MaxLen : lwrb_peek(skip, n)
          \/ PeekCopy \/ SkipLinearBlock
          \/ lwrb_reset \/ ResetRead

Next == Writer \/ Reader

Spec == Init /\ [][Next]_vars

-----------------------------------------------------------------------------
(* Properties *)

(* Shape of the state: both indices stay inside the storage.               *)
TypeOK ==
    /\ buff \in [Cell -> Byte]
    /\ w \in Cell /\ r \in Cell
    /\ wpc \in {"idle", "free", "linear", "wrapped", "publish", "advance"}
    /\ wdata \in Seq(Byte) /\ wlen \in Nat
    /\ rpc \in {"idle", "full", "linear", "wrapped", "publish", "peek",
                "skip", "reset"}
    /\ rlen \in Nat /\ rskip \in Nat
    /\ rdata \in Seq(Byte) /\ out \in Seq(Byte)

(* The head of the queue: a reset drops the old bytes when it stores w.    *)
Head0 == IF rpc = "reset" THEN 0 ELSE r

(* n cells from `at', wrapping at the end of the storage *)
Span(at, n) == {Wrap(at + i) : i \in 0..(n - 1)}

Unread == Span(Head0, Full(w, Head0))

(* Cells the writer has claimed and not yet published *)
WriterCells ==
    IF wpc \in {"linear", "wrapped", "publish", "advance"}
    THEN Span(w, wlen) ELSE {}

(* Cells the reader has claimed and not yet released *)
ReaderCells ==
    CASE rpc \in {"linear", "wrapped", "publish", "skip"} -> Span(r, rlen)
      [] rpc = "peek" -> Span(Wrap(r + rskip), rlen)
      [] OTHER -> {}

(* No memcpy of the writer ever touches a byte that is still to be read,   *)
(* and the reader only copies published bytes, although each side works on *)
(* an index of the other that may be out of date.                          *)
NoOverlap == /\ WriterCells \cap Unread = {}
             /\ ReaderCells \subseteq Unread

(* A claim always fits what the indices say now: publishing it can neither *)
(* make a full buffer look empty nor take bytes that were never written.   *)
ClaimsFit ==
    /\ wpc \in {"linear", "wrapped", "publish", "advance"} => wlen <= Free(w, r)
    /\ rpc \in {"linear", "wrapped", "publish", "skip"} => rlen <= Full(w, r)
    /\ rpc = "peek" => rskip + rlen <= Full(w, r)

(* While a reset is between its two stores, a writer that runs over it     *)
(* cannot wrap: it stays below the old read index, or that index is 0.  So *)
(* what it writes ends up in 0..w-1, which is what the finished reset      *)
(* leaves to be read.  Without preemption no writer runs there at all.     *)
ResetWindow ==
    rpc = "reset" => /\ r = 0 \/ w < r
                     /\ WriterPreempts \/ wpc = "idle"

(* The buffer implements a FIFO queue of Size - 1 bytes.  A write takes    *)
(* effect when it stores w, a read when it stores r, a reset when it       *)
(* stores w: bytes written while a reset is under way survive it.          *)
Contents == [i \in 1..Full(w, Head0) |-> buff[Wrap(Head0 + i - 1)]]

Fifo == INSTANCE ByteFifo
        WITH Capacity <- Size - 1, queue <- Contents, data <- wdata

FifoRefined == Fifo!Spec
=============================================================================
