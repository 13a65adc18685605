----------------------------- MODULE LwrbProofs -----------------------------
(***************************************************************************)
(* For every size, byte set and request bound, and whether or not the      *)
(* writer preempts the reader: the ring buffer's claims always fit and     *)
(* never overlap.                                                          *)
(***************************************************************************)
EXTENDS Lwrb, TLAPS

(* Index arithmetic, for every pair of indices.                            *)
LEMMA IndexFacts ==
    ASSUME NEW pw \in Cell, NEW pr \in Cell
    PROVE  /\ Full(pw, pr) \in Nat /\ Free(pw, pr) \in Nat
           /\ Full(pw, pr) + Free(pw, pr) = Size - 1
  BY LwrbAssumption DEF Full, Free, Cell

(* Publishing n claimed free cells keeps the index inside and moves        *)
(* exactly n cells from free to full.                                      *)
LEMMA AdvanceWrite ==
    ASSUME NEW pw \in Cell, NEW pr \in Cell, NEW n \in Nat, n <= Free(pw, pr)
    PROVE  /\ Wrap(pw + n) \in Cell
           /\ Full(Wrap(pw + n), pr) = Full(pw, pr) + n
           /\ (pr = 0 \/ pw < pr) => (pr = 0 \/ Wrap(pw + n) < pr)
  BY LwrbAssumption DEF Full, Free, Cell, Wrap

(* Publishing n claimed full cells moves exactly n cells from full to free. *)
LEMMA AdvanceRead ==
    ASSUME NEW pw \in Cell, NEW pr \in Cell, NEW n \in Nat, n <= Full(pw, pr)
    PROVE  /\ Wrap(pr + n) \in Cell
           /\ Free(pw, Wrap(pr + n)) = Free(pw, pr) + n
  BY LwrbAssumption DEF Full, Free, Cell, Wrap

LEMMA MinimumFacts ==
    ASSUME NEW a \in Nat, NEW b \in Nat
    PROVE  Minimum(a, b) \in Nat /\ Minimum(a, b) <= a /\ Minimum(a, b) <= b
  BY DEF Minimum

(* A linear block is part of the free or full cells.                       *)
LEMMA LinearFacts ==
    ASSUME NEW pw \in Cell, NEW pr \in Cell
    PROVE  LinearRead(pw, pr) <= Full(pw, pr) /\ LinearWrite(pw, pr) <= Free(pw, pr)
  BY LwrbAssumption DEF Full, Free, Cell, LinearRead, LinearWrite

LEMMA RequestFacts ==
    ASSUME NEW d \in Request
    PROVE  d \in Seq(Byte) /\ Len(d) \in 1..MaxLen
  BY LwrbAssumption DEF Request

-----------------------------------------------------------------------------
(* The control state: everything the claims depend on, without the bytes.  *)
Control ==
    /\ w \in Cell /\ r \in Cell
    /\ wpc \in {"idle", "free", "linear", "wrapped", "publish", "advance"}
    /\ wdata \in Seq(Byte) /\ wlen \in Nat
    /\ rpc \in {"idle", "full", "linear", "wrapped", "publish", "peek",
                "skip", "reset"}
    /\ rlen \in Nat /\ rskip \in Nat

IInv == Control /\ ClaimsFit /\ ResetWindow

LEMMA InitIInv == Init => IInv
  BY LwrbAssumption
     DEF Init, lwrb_init, IInv, Control, ClaimsFit, ResetWindow, Cell

LEMMA WriterIInv == IInv /\ Writer => IInv'
<1> SUFFICES ASSUME IInv, Writer PROVE IInv'
  OBVIOUS
<1> USE DEF IInv, Control, ClaimsFit, ResetWindow, readerVars, WriterReturns
<1>0. Full(w, r) \in Nat /\ Free(w, r) \in Nat
  BY IndexFacts
<1>1. CASE \E d \in Request : lwrb_write(d)
  BY <1>1, RequestFacts DEF lwrb_write, MayWrite
<1>2. CASE \E d \in Request : FillLinearBlock(d)
  <2> PICK d \in Request : FillLinearBlock(d)
    BY <1>2
  <2>1. d \in Seq(Byte) /\ Len(d) \in Nat
    BY RequestFacts, LwrbAssumption
  <2>2. Len(d) <= Free(w, r)
    <3>1. LinearWrite(w, r) <= Free(w, r)
      BY LinearFacts
    <3>2. LinearWrite(w, r) \in Int
      BY LwrbAssumption DEF LinearWrite, Cell
    <3> QED
      BY <1>0, <2>1, <3>1, <3>2 DEF FillLinearBlock
  <2> QED
    BY <2>1, <2>2 DEF FillLinearBlock, MayWrite
<1>3. CASE WriteGetFree
  <2>1. Len(wdata) \in Nat
    OBVIOUS
  <2> DEFINE n == Minimum(Free(w, r), Len(wdata))
  <2>2. n \in Nat /\ n <= Free(w, r)
    BY <1>0, <2>1, MinimumFacts
  <2> HIDE DEF n
  <2>3. \/ wlen' = n /\ wpc' = "linear" /\ wdata' = wdata
        \/ wlen' = 0 /\ wpc' = "idle" /\ wdata' = <<>>
    BY <1>3 DEF WriteGetFree, n
  <2>4. wpc = "free" /\ UNCHANGED <<buff, w, r, rpc, rlen, rskip>>
    BY <1>3 DEF WriteGetFree
  <2>5. CASE wlen' = n /\ wpc' = "linear" /\ wdata' = wdata
    BY <1>0, <2>2, <2>4, <2>5
  <2>6. CASE wlen' = 0 /\ wpc' = "idle" /\ wdata' = <<>>
    BY <1>0, <2>4, <2>6
  <2> QED
    BY <2>3, <2>5, <2>6
<1>4. CASE WriteLinear
  BY <1>4 DEF WriteLinear
<1>5. CASE WriteWrapped
  BY <1>5 DEF WriteWrapped
<1>6. CASE WritePublish
  <2>1. wlen \in Nat /\ wlen <= Free(w, r)
    BY <1>6 DEF WritePublish
  <2>2. w' \in Cell /\ Full(w', r) = Full(w, r) + wlen
        /\ ((r = 0 \/ w < r) => (r = 0 \/ w' < r))
    BY <1>6, <2>1, AdvanceWrite DEF WritePublish
  <2> QED
    BY <1>0, <1>6, <2>2 DEF WritePublish
<1>7. CASE lwrb_advance
  <2>1. wlen \in Nat /\ wlen <= Free(w, r)
    BY <1>7 DEF lwrb_advance
  <2>2. Minimum(wlen, Free(w, r)) = wlen
    BY <1>0, <2>1 DEF Minimum
  <2>3. w' \in Cell /\ Full(w', r) = Full(w, r) + wlen
        /\ ((r = 0 \/ w < r) => (r = 0 \/ w' < r))
    BY <1>7, <2>1, <2>2, AdvanceWrite DEF lwrb_advance
  <2> QED
    BY <1>0, <1>7, <2>3 DEF lwrb_advance
<1> QED
  BY <1>1, <1>2, <1>3, <1>4, <1>5, <1>6, <1>7 DEF Writer

LEMMA ReaderIInv == IInv /\ Reader => IInv'
<1> SUFFICES ASSUME IInv, Reader PROVE IInv'
  OBVIOUS
<1> USE DEF IInv, Control, ClaimsFit, ResetWindow, writerVars, ReaderRuns, ReaderReturns
<1>0. Full(w, r) \in Nat /\ Free(w, r) \in Nat /\ Size \in Nat \ {0} /\ MaxLen \in Nat
  BY IndexFacts, LwrbAssumption
<1>1. CASE \E n \in 1..MaxLen : lwrb_read(n)
  BY <1>0, <1>1 DEF lwrb_read
<1>2. CASE \E n \in 1..MaxLen : lwrb_skip(n)
  <2> PICK n \in 1..MaxLen : lwrb_skip(n)
    BY <1>2
  <2> DEFINE m == Minimum(n, Full(w, r))
  <2>1. m \in Nat /\ m <= Full(w, r)
    BY <1>0, MinimumFacts
  <2> HIDE DEF m
  <2>2. r' = Wrap(r + m) /\ w' = w /\ rpc = "idle" /\ rpc' = "idle"
        /\ UNCHANGED <<wpc, wdata, wlen, rlen, rskip>>
    BY DEF lwrb_skip, m, readerVars
  <2>3. r' \in Cell /\ Free(w, r') = Free(w, r) + m
    BY <2>1, <2>2, AdvanceRead
  <2> QED
    BY <1>0, <2>1, <2>2, <2>3
<1>3. CASE \E n \in 1..MaxLen : UseLinearBlock(n)
  <2> PICK n \in 1..MaxLen : UseLinearBlock(n)
    BY <1>3
  <2>1. n <= Full(w, r) /\ n \in Nat
    <3>1. LinearRead(w, r) <= Full(w, r)
      BY LinearFacts
    <3>2. LinearRead(w, r) \in Int
      BY <1>0 DEF LinearRead, Cell
    <3> QED
      BY <1>0, <3>1, <3>2 DEF UseLinearBlock
  <2> QED
    BY <2>1 DEF UseLinearBlock
<1>4. CASE ReadGetFull
  <2> DEFINE n == Minimum(Full(w, r), rlen)
  <2>1. n \in Nat /\ n <= Full(w, r)
    BY <1>0, MinimumFacts
  <2> HIDE DEF n
  <2>2. \/ rlen' = n /\ rpc' = "linear" /\ rskip' = rskip
        \/ rlen' = 0 /\ rpc' = "idle" /\ rskip' = 0
    BY <1>4 DEF ReadGetFull, n
  <2> QED
    BY <1>4, <2>1, <2>2 DEF ReadGetFull
<1>5. CASE ReadLinear
  BY <1>5 DEF ReadLinear
<1>6. CASE ReadWrapped
  BY <1>6 DEF ReadWrapped
<1>7. CASE ReadPublish
  <2>1. rlen <= Full(w, r)
    BY <1>7 DEF ReadPublish
  <2>2. r' \in Cell /\ Free(w, r') = Free(w, r) + rlen
    BY <1>7, <2>1, AdvanceRead DEF ReadPublish
  <2> QED
    BY <1>0, <1>7, <2>2 DEF ReadPublish
<1>8. CASE \E skip \in 0..MaxLen, n \in 1..MaxLen : lwrb_peek(skip, n)
  <2> PICK skip \in 0..MaxLen, n \in 1..MaxLen : lwrb_peek(skip, n)
    BY <1>8
  <2>1. CASE skip >= Full(w, r)
    BY <2>1 DEF lwrb_peek
  <2>2. CASE ~(skip >= Full(w, r))
    <3> DEFINE m == Minimum(Full(w, r) - skip, n)
    <3>1. m \in Nat /\ skip + m <= Full(w, r)
      BY <1>0, <2>2 DEF Minimum
    <3> HIDE DEF m
    <3>2. rpc' = "peek" /\ rlen' = m /\ rskip' = skip
      BY <2>2 DEF lwrb_peek, m
    <3> QED
      BY <1>0, <3>1, <3>2 DEF lwrb_peek
  <2> QED
    BY <2>1, <2>2
<1>9. CASE PeekCopy
  BY <1>9 DEF PeekCopy
<1>10. CASE SkipLinearBlock
  <2>1. rlen <= Full(w, r)
    BY <1>10 DEF SkipLinearBlock
  <2>2. Minimum(rlen, Full(w, r)) = rlen
    BY <1>0, <2>1 DEF Minimum
  <2>3. r' \in Cell /\ Free(w, r') = Free(w, r) + rlen
    BY <1>10, <2>1, <2>2, AdvanceRead DEF SkipLinearBlock
  <2> QED
    BY <1>0, <1>10, <2>3 DEF SkipLinearBlock
<1>11. CASE lwrb_reset
  BY <1>0, <1>11 DEF lwrb_reset, Cell
<1>12. CASE ResetRead
  BY <1>0, <1>12 DEF ResetRead, Cell
<1> QED
  BY <1>1, <1>2, <1>3, <1>4, <1>5, <1>6, <1>7, <1>8, <1>9, <1>10, <1>11, <1>12
     DEF Reader

LEMMA StutterIInv == IInv /\ UNCHANGED vars => IInv'
  BY DEF IInv, Control, ClaimsFit, ResetWindow, vars, writerVars, readerVars

LEMMA SpecIInv == Spec => []IInv
<1>1. IInv /\ [Next]_vars => IInv'
  BY WriterIInv, ReaderIInv, StutterIInv DEF Next
<1> QED
  BY InitIInv, <1>1, PTL DEF Spec

(* A write never overtakes the reader and a read never overtakes the       *)
(* writer: whatever an operation claimed from an old index still fits      *)
(* when it publishes (lwrb.c:164, 218, 410, 492).                          *)
THEOREM ClaimsAlwaysFit == Spec => []ClaimsFit
<1>1. IInv => ClaimsFit
  BY DEF IInv
<1> QED
  BY SpecIInv, <1>1, PTL

(* A write that runs inside an unfinished reset cannot wrap (lwrb.c:340).  *)
THEOREM ResetWindowHolds == Spec => []ResetWindow
<1>1. IInv => ResetWindow
  BY DEF IInv
<1> QED
  BY SpecIInv, <1>1, PTL
-----------------------------------------------------------------------------
(* No memcpy touches a byte that is still to be read, and none copies a    *)
(* byte that is not published: a reader of the buffer sees whole writes    *)
(* only (lwrb.c:145-152, 199-206).                                         *)
LEMMA SpanFree ==
    ASSUME NEW pw \in Cell, NEW pr \in Cell, NEW n \in Nat, n <= Free(pw, pr)
    PROVE  /\ Span(pw, n) \cap Span(pr, Full(pw, pr)) = {}
           /\ (pr = 0 \/ pw < pr) => Span(pw, n) \cap Span(0, Full(pw, 0)) = {}
  BY LwrbAssumption DEF Span, Free, Full, Cell, Wrap

LEMMA SpanFull ==
    ASSUME NEW pw \in Cell, NEW pr \in Cell, NEW k \in Nat, NEW n \in Nat,
           k + n <= Full(pw, pr)
    PROVE  Span(Wrap(pr + k), n) \subseteq Span(pr, Full(pw, pr))
<1>1. SUFFICES ASSUME NEW i \in 0..(n - 1)
               PROVE  Wrap(Wrap(pr + k) + i) \in Span(pr, Full(pw, pr))
  BY DEF Span
<1>2. Wrap(Wrap(pr + k) + i) = Wrap(pr + (k + i))
  BY LwrbAssumption DEF Wrap, Full, Cell
<1>3. k + i \in 0..(Full(pw, pr) - 1)
  BY IndexFacts
<1> QED
  BY <1>2, <1>3 DEF Span

THEOREM NeverOverlaps == Spec => []NoOverlap
<1>1. IInv => NoOverlap
  <2> SUFFICES ASSUME IInv PROVE NoOverlap
    OBVIOUS
  <2> USE DEF IInv, Control, ClaimsFit, ResetWindow
  <2>1. WriterCells \cap Unread = {}
    <3>1. CASE wpc \in {"linear", "wrapped", "publish", "advance"}
      <4>1. wlen \in Nat /\ wlen <= Free(w, r)
        BY <3>1
      <4>2. /\ Span(w, wlen) \cap Span(r, Full(w, r)) = {}
            /\ (r = 0 \/ w < r) => Span(w, wlen) \cap Span(0, Full(w, 0)) = {}
        BY <4>1, SpanFree
      <4> QED
        BY <3>1, <4>2 DEF WriterCells, Unread, Head0
    <3>2. CASE ~(wpc \in {"linear", "wrapped", "publish", "advance"})
      BY <3>2 DEF WriterCells
    <3> QED
      BY <3>1, <3>2
  <2>2. ReaderCells \subseteq Unread
    <3>1. CASE rpc \in {"linear", "wrapped", "publish", "skip"}
      <4>1. rlen <= Full(w, r) /\ 0 + rlen <= Full(w, r) /\ Wrap(r + 0) = r
        BY <3>1, LwrbAssumption DEF Wrap, Cell
      <4>2. Span(r, rlen) \subseteq Span(r, Full(w, r))
        BY <4>1, SpanFull
      <4> QED
        BY <3>1, <4>2 DEF ReaderCells, Unread, Head0
    <3>2. CASE rpc = "peek"
      <4>1. Span(Wrap(r + rskip), rlen) \subseteq Span(r, Full(w, r))
        BY <3>2, SpanFull
      <4> QED
        BY <3>2, <4>1 DEF ReaderCells, Unread, Head0
    <3>3. CASE ~(rpc \in {"linear", "wrapped", "publish", "skip", "peek"})
      BY <3>3 DEF ReaderCells
    <3> QED
      BY <3>1, <3>2, <3>3
  <2> QED
    BY <2>1, <2>2 DEF NoOverlap
<1> QED
  BY SpecIInv, <1>1, PTL
-----------------------------------------------------------------------------
(* The bytes: what is stored, copied and returned are bytes, and the writer *)
(* never copies past its argument.                                         *)
Data ==
    /\ buff \in [Cell -> Byte]
    /\ rdata \in Seq(Byte) /\ out \in Seq(Byte)
    /\ wpc \in {"linear", "wrapped", "publish", "advance"} => wlen <= Len(wdata)

LEMMA CopyInType ==
    ASSUME buff \in [Cell -> Byte], NEW d \in Seq(Byte), NEW at \in Nat,
           NEW k \in Nat \ {0}, NEW n \in Int, k + n - 1 <= Len(d)
    PROVE  CopyIn(at, d, k, n) \in [Cell -> Byte]
<1>1. SUFFICES ASSUME NEW c \in Cell, at <= c, c < at + n
               PROVE  d[k + (c - at)] \in Byte
  BY DEF CopyIn
<1>2. k + (c - at) \in 1..Len(d)
  BY LwrbAssumption DEF Cell
<1> QED
  BY <1>2

LEMMA CopyOutType ==
    ASSUME buff \in [Cell -> Byte], NEW at \in Nat, NEW n \in Nat, at + n <= Size
    PROVE  CopyOut(at, n) \in Seq(Byte)
<1>1. \A i \in 1..n : at + i - 1 \in Cell
  BY LwrbAssumption DEF Cell
<1> QED
  BY <1>1 DEF CopyOut

LEMMA ToEndFacts ==
    ASSUME NEW at \in Cell, NEW n \in Nat
    PROVE  /\ ToEnd(at, n) \in Nat /\ ToEnd(at, n) <= n /\ at + ToEnd(at, n) <= Size
           /\ n < Size => n - ToEnd(at, n) \in Nat /\ n - ToEnd(at, n) <= Size
  BY LwrbAssumption DEF ToEnd, Minimum, Cell

LEMMA InitData == Init => Data
  BY DEF Init, lwrb_init, Data

LEMMA WriterData == IInv /\ Data /\ Writer => Data'
<1> SUFFICES ASSUME IInv, Data, Writer PROVE Data'
  OBVIOUS
<1> USE DEF IInv, Control, Data, readerVars, WriterReturns
<1>0. Full(w, r) \in Nat /\ Free(w, r) \in Nat /\ Len(wdata) \in Nat
  BY IndexFacts
<1>1. CASE \E d \in Request : lwrb_write(d)
  BY <1>1 DEF lwrb_write
<1>2. CASE \E d \in Request : FillLinearBlock(d)
  <2> PICK d \in Request : FillLinearBlock(d)
    BY <1>2
  <2>1. d \in Seq(Byte) /\ Len(d) \in Nat
    BY RequestFacts
  <2>2. CopyIn(w, d, 1, Len(d)) \in [Cell -> Byte]
    BY <2>1, CopyInType DEF Cell
  <2> QED
    BY <2>1, <2>2 DEF FillLinearBlock
<1>3. CASE WriteGetFree
  <2>1. Minimum(Free(w, r), Len(wdata)) <= Len(wdata)
    BY <1>0, MinimumFacts
  <2> QED
    BY <1>3, <2>1 DEF WriteGetFree
<1>4. CASE WriteLinear
  <2>1. ToEnd(w, wlen) \in Nat /\ 1 + ToEnd(w, wlen) - 1 <= Len(wdata)
    <3>1. w \in Cell /\ wlen \in Nat /\ wlen <= Len(wdata)
      BY <1>4 DEF WriteLinear
    <3>2. ToEnd(w, wlen) \in Nat /\ ToEnd(w, wlen) <= wlen
      BY <3>1, ToEndFacts
    <3> HIDE DEF IInv, Control, Data
    <3> QED
      BY <1>0, <3>1, <3>2
  <2>2. CopyIn(w, wdata, 1, ToEnd(w, wlen)) \in [Cell -> Byte]
    BY <2>1, CopyInType DEF Cell
  <2> QED
    BY <1>4, <2>2 DEF WriteLinear
<1>5. CASE WriteWrapped
  <2> DEFINE m == ToEnd(w, wlen)
  <2>1. m \in Nat /\ m <= wlen /\ wlen <= Len(wdata)
    BY <1>5, ToEndFacts DEF WriteWrapped
  <2> HIDE DEF m
  <2>2. CopyIn(0, wdata, m + 1, wlen - m) \in [Cell -> Byte]
    <3>1. m + 1 \in Nat \ {0} /\ wlen - m \in Int
          /\ (m + 1) + (wlen - m) - 1 <= Len(wdata)
      BY <1>0, <2>1
    <3> QED
      BY <3>1, CopyInType
  <2> QED
    BY <1>5, <2>2 DEF WriteWrapped, m
<1>6. CASE WritePublish
  BY <1>6 DEF WritePublish
<1>7. CASE lwrb_advance
  BY <1>7 DEF lwrb_advance
<1> QED
  BY <1>1, <1>2, <1>3, <1>4, <1>5, <1>6, <1>7 DEF Writer

LEMMA ReaderData == IInv /\ Data /\ Reader => Data'
<1> SUFFICES ASSUME IInv, Data, Reader PROVE Data'
  OBVIOUS
<1> USE DEF IInv, Control, Data, ClaimsFit, writerVars, ReaderReturns
<1>0. /\ Full(w, r) \in Nat /\ Full(w, r) < Size /\ Size \in Nat \ {0} /\ MaxLen \in Nat
      /\ <<>> \in Seq(Byte)
  BY IndexFacts, LwrbAssumption
<1>1. CASE \E n \in 1..MaxLen : lwrb_read(n)
  BY <1>1 DEF lwrb_read
<1>2. CASE \E n \in 1..MaxLen : lwrb_skip(n)
  BY <1>2 DEF lwrb_skip, readerVars
<1>3. CASE \E n \in 1..MaxLen : UseLinearBlock(n)
  <2> PICK n \in 1..MaxLen : UseLinearBlock(n)
    BY <1>3
  <2>1. n \in Nat /\ r \in Nat /\ r + n <= Size
    BY <1>0 DEF UseLinearBlock, LinearRead, Cell
  <2>2. CopyOut(r, n) \in Seq(Byte)
    BY <2>1, CopyOutType
  <2> QED
    BY <2>2 DEF UseLinearBlock
<1>4. CASE ReadGetFull
  BY <1>0, <1>4 DEF ReadGetFull
<1>5. CASE ReadLinear
  <2>1. CopyOut(r, ToEnd(r, rlen)) \in Seq(Byte)
    <3>1. r \in Cell /\ rlen \in Nat /\ r \in Nat
      BY DEF Cell
    <3>2. ToEnd(r, rlen) \in Nat /\ r + ToEnd(r, rlen) <= Size
      BY <3>1, ToEndFacts
    <3> QED
      BY <3>1, <3>2, CopyOutType
  <2> QED
    BY <1>5, <2>1 DEF ReadLinear
<1>6. CASE ReadWrapped
  <2>1. rlen - ToEnd(r, rlen) \in Nat /\ 0 + (rlen - ToEnd(r, rlen)) <= Size
    <3>1. r \in Cell /\ rlen \in Nat /\ rlen < Size
      BY <1>0, <1>6 DEF ReadWrapped
    <3>2. rlen - ToEnd(r, rlen) \in Nat /\ rlen - ToEnd(r, rlen) <= Size
      BY <3>1, ToEndFacts
    <3> QED
      BY <3>2
  <2>2. CopyOut(0, rlen - ToEnd(r, rlen)) \in Seq(Byte)
    BY <2>1, CopyOutType
  <2> QED
    BY <1>6, <2>2 DEF ReadWrapped
<1>7. CASE ReadPublish
  BY <1>0, <1>7 DEF ReadPublish
<1>8. CASE \E skip \in 0..MaxLen, n \in 1..MaxLen : lwrb_peek(skip, n)
  BY <1>0, <1>8 DEF lwrb_peek
<1>9. CASE PeekCopy
  <2> DEFINE at  == Wrap(r + rskip)
             lin == ToEnd(at, rlen)
  <2>1. at \in Cell /\ rlen < Size /\ rlen \in Nat
    BY <1>0, <1>9 DEF PeekCopy, Wrap, Cell
  <2>2. lin \in Nat /\ at + lin <= Size /\ rlen - lin \in Nat /\ 0 + (rlen - lin) <= Size
    <3> HIDE DEF at
    <3>1. lin \in Nat /\ at + lin <= Size /\ rlen - lin \in Nat /\ rlen - lin <= Size
      BY <2>1, ToEndFacts
    <3> QED
      BY <3>1
  <2>3. CopyOut(at, lin) \in Seq(Byte)
    BY <2>1, <2>2, CopyOutType DEF Cell
  <2>4. CopyOut(0, rlen - lin) \in Seq(Byte)
    BY <2>2, CopyOutType
  <2> QED
    BY <1>0, <1>9, <2>3, <2>4 DEF PeekCopy
<1>10. CASE SkipLinearBlock
  BY <1>0, <1>10 DEF SkipLinearBlock
<1>11. CASE lwrb_reset
  BY <1>11 DEF lwrb_reset
<1>12. CASE ResetRead
  BY <1>12 DEF ResetRead
<1> QED
  BY <1>1, <1>2, <1>3, <1>4, <1>5, <1>6, <1>7, <1>8, <1>9, <1>10, <1>11, <1>12
     DEF Reader

(* Both indices stay inside the storage, every copy stays inside it and    *)
(* inside its argument, for every size and every request.                  *)
THEOREM TypeCorrect == Spec => []TypeOK
<1>1. IInv /\ Data /\ [Next]_vars => Data'
  <2>1. IInv /\ Data /\ UNCHANGED vars => Data'
    BY DEF Data, vars, writerVars, readerVars
  <2> QED
    BY <2>1, WriterData, ReaderData DEF Next
<1>2. IInv /\ Data => TypeOK
  BY DEF IInv, Control, Data, TypeOK
<1> QED
  BY InitData, SpecIInv, <1>1, <1>2, PTL DEF Spec

-----------------------------------------------------------------------------
(* The buffer implements ByteFifo: what the writer has stored of its       *)
(* argument and what the reader has copied of the queue.                   *)

Stored ==
    /\ IF wpc = "idle" THEN wdata = <<>> ELSE Len(wdata) > 0
    /\ wpc \in {"linear", "wrapped", "publish", "advance"} => wlen > 0
    /\ wpc = "wrapped" => /\ w + wlen > Size
                          /\ \A i \in 1..(Size - w) : buff[w + i - 1] = wdata[i]
    /\ wpc \in {"publish", "advance"} => \A i \in 1..wlen : buff[Wrap(w + i - 1)] = wdata[i]
Copied ==
    /\ rpc \in {"full", "linear", "wrapped", "publish", "peek", "skip"} => rlen > 0
    /\ rpc = "wrapped" => /\ r + rlen > Size
                          /\ Len(rdata) = Size - r
                          /\ \A i \in 1..(Size - r) : rdata[i] = buff[r + i - 1]
    /\ rpc \in {"publish", "skip"} => /\ Len(rdata) = rlen
                                      /\ \A i \in 1..rlen : rdata[i] = buff[Wrap(r + i - 1)]
RInv == IInv /\ Data /\ Stored /\ Copied

LEMMA HeadInside == IInv => Head0 \in Cell
  BY LwrbAssumption DEF IInv, Control, Head0, Cell

LEMMA Positions ==
    ASSUME NEW h \in Cell, NEW n \in 0..(Size - 1)
    PROVE  /\ \A i \in 1..n : Wrap(h + i - 1) \in Cell /\ Wrap(h + i - 1) \in Span(h, n)
           /\ \A i \in 1..n : h + i - 1 < Size => Wrap(h + i - 1) = h + i - 1
           /\ \A i \in 1..n : h + i - 1 >= Size => Wrap(h + i - 1) = h + i - 1 - Size
<1>1. \A i \in 1..n : /\ i - 1 \in 0..(n - 1) /\ h + (i - 1) = h + i - 1
                      /\ Wrap(h + i - 1) \in Cell
  BY LwrbAssumption DEF Wrap, Cell
<1>2. \A i \in 1..n : Wrap(h + i - 1) \in Span(h, n)
  BY <1>1 DEF Span
<1>3. \A i \in 1..n : /\ h + i - 1 < Size => Wrap(h + i - 1) = h + i - 1
                      /\ h + i - 1 >= Size => Wrap(h + i - 1) = h + i - 1 - Size
  BY LwrbAssumption DEF Wrap, Cell
<1> QED
  BY <1>1, <1>2, <1>3

LEMMA FullBound ==
    ASSUME NEW pw \in Cell, NEW pr \in Cell
    PROVE  Full(pw, pr) \in 0..(Size - 1)
  BY LwrbAssumption DEF Full, Cell

LEMMA ContentsIs ==
    ASSUME IInv, Data
    PROVE  /\ Contents \in Seq(Byte) /\ Len(Contents) = Full(w, Head0)
           /\ Full(w, Head0) \in 0..(Size - 1)
           /\ \A i \in 1..Full(w, Head0) : Contents[i] = buff[Wrap(Head0 + i - 1)]
<1>1. Head0 \in Cell /\ w \in Cell
  BY HeadInside DEF IInv, Control
<1>2. Full(w, Head0) \in 0..(Size - 1)
  BY <1>1, FullBound
<1>3. \A i \in 1..Full(w, Head0) : buff[Wrap(Head0 + i - 1)] \in Byte
  BY <1>1, <1>2, Positions DEF Data
<1> DEFINE n == Full(w, Head0)
<1>4. Contents \in [1..n -> Byte] /\ n \in Nat
  BY <1>2, <1>3 DEF Contents
<1>5. Contents \in Seq(Byte) /\ Len(Contents) = n
  BY <1>4
<1> QED
  BY <1>2, <1>5 DEF Contents

(* The queue stays what it is while nothing unread is overwritten.         *)
LEMMA ContentsStay ==
    ASSUME IInv, Head0' = Head0, w' = w, \A c \in Unread : buff'[c] = buff[c]
    PROVE  Contents' = Contents
<1>1. Head0 \in Cell /\ w \in Cell
  BY HeadInside DEF IInv, Control
<1> DEFINE n == Full(w, Head0)
<1>2. n \in 0..(Size - 1)
  BY <1>1, FullBound
<1>3. \A i \in 1..n : Wrap(Head0 + i - 1) \in Unread
  BY <1>1, <1>2, Positions DEF Unread
<1>4. \A i \in 1..n : buff'[Wrap(Head0 + i - 1)] = buff[Wrap(Head0 + i - 1)]
  BY <1>3
<1>5. Contents' = [i \in 1..n |-> buff'[Wrap(Head0 + i - 1)]]
  BY DEF Contents
<1>6. Contents = [i \in 1..n |-> buff[Wrap(Head0 + i - 1)]]
  BY DEF Contents
<1> HIDE DEF n
<1> QED
  BY <1>4, <1>5, <1>6

(* What the writer may overwrite: neither the queue nor what a read has    *)
(* claimed.                                                                *)
LEMMA WritableCells ==
    ASSUME IInv, NEW n \in Nat, n <= Free(w, r)
    PROVE  /\ Span(w, n) \cap Unread = {}
           /\ rpc \in {"linear", "wrapped", "publish", "skip"} => Span(w, n) \cap Span(r, rlen) = {}
<1> USE DEF IInv, Control, ClaimsFit, ResetWindow
<1>1. /\ Span(w, n) \cap Span(r, Full(w, r)) = {}
      /\ (r = 0 \/ w < r) => Span(w, n) \cap Span(0, Full(w, 0)) = {}
  BY SpanFree
<1>2. Span(w, n) \cap Unread = {}
  BY <1>1 DEF Unread, Head0
<1>3. ASSUME rpc \in {"linear", "wrapped", "publish", "skip"} PROVE Span(w, n) \cap Span(r, rlen) = {}
  <2>1. rlen <= Full(w, r) /\ 0 + rlen <= Full(w, r) /\ Wrap(r + 0) = r
    BY <1>3, LwrbAssumption DEF Wrap, Cell
  <2>2. Span(r, rlen) \subseteq Span(r, Full(w, r))
    BY <2>1, SpanFull
  <2> QED
    BY <1>1, <2>2
<1> QED
  BY <1>2, <1>3

(* Which cells a copy changes, and to what.                                *)
LEMMA CopiedCells ==
    ASSUME NEW at, NEW d, NEW k, NEW n, buff' = CopyIn(at, d, k, n)
    PROVE  \A c \in Cell : buff'[c] = IF at <= c /\ c < at + n THEN d[k + (c - at)] ELSE buff[c]
  BY DEF CopyIn

(* A copy by the writer leaves the queue and the reader's copy alone.      *)
LEMMA WriterApart ==
    ASSUME RInv, NEW n \in Nat, n <= Free(w, r), UNCHANGED <<w, r, readerVars>>,
           \A c \in Cell \ Span(w, n) : buff'[c] = buff[c]
    PROVE  Contents' = Contents /\ Copied'
<1> USE DEF RInv
<1>1. UNCHANGED <<rpc, rlen, rdata>> /\ Head0' = Head0
  BY DEF readerVars, Head0
<1>2. /\ Span(w, n) \cap Unread = {}
      /\ rpc \in {"linear", "wrapped", "publish", "skip"} => Span(w, n) \cap Span(r, rlen) = {}
  BY WritableCells
<1>3. Unread \subseteq Cell
  <2>1. Head0 \in Cell /\ Full(w, Head0) \in 0..(Size - 1)
    BY HeadInside, FullBound DEF IInv, Control
  <2> QED
    BY <2>1, LwrbAssumption DEF Unread, Span, Wrap, Cell
<1>4. Contents' = Contents
  BY <1>1, <1>2, <1>3, ContentsStay
<1>5. ASSUME rpc \in {"wrapped", "publish", "skip"}
      PROVE  \A i \in 1..rlen : buff'[Wrap(r + i - 1)] = buff[Wrap(r + i - 1)]
  <2>1. rlen \in 0..(Size - 1) /\ r \in Cell
    <3>1. w \in Cell /\ r \in Cell /\ rlen \in Nat /\ rlen <= Full(w, r)
      BY <1>5, LwrbAssumption DEF IInv, Control, ClaimsFit, Copied
    <3>2. Full(w, r) \in 0..(Size - 1) /\ Size \in Nat
      BY <3>1, FullBound, LwrbAssumption
    <3> QED
      BY <3>1, <3>2
  <2> QED
    BY <1>2, <1>5, <2>1, Positions
<1>6. ASSUME rpc = "wrapped"
      PROVE  \A i \in 1..(Size - r) : i \in 1..rlen /\ Wrap(r + i - 1) = r + i - 1
  BY <1>6, LwrbAssumption DEF IInv, Control, Copied, Wrap, Cell
<1>7. Copied'
  <2>1. ASSUME rpc = "wrapped"
        PROVE  \A i \in 1..(Size - r) : rdata[i] = buff'[r + i - 1]
    <3>1. SUFFICES ASSUME NEW i \in 1..(Size - r) PROVE rdata[i] = buff'[r + i - 1]
      OBVIOUS
    <3>2. rdata[i] = buff[r + i - 1]
      BY <2>1 DEF Copied
    <3>3. buff'[r + i - 1] = buff[r + i - 1]
      BY <1>5, <1>6, <2>1
    <3> QED
      BY <3>2, <3>3
  <2>2. ASSUME rpc \in {"publish", "skip"}
        PROVE  \A i \in 1..rlen : rdata[i] = buff'[Wrap(r + i - 1)]
    BY <1>5, <2>2 DEF Copied
  <2>3. UNCHANGED <<r, rpc, rlen, rdata>>
    BY <1>1
  <2> QED
    BY <2>1, <2>2, <2>3 DEF Copied
<1> QED
  BY <1>4, <1>7

(* Two sequences of bytes are the same when they agree everywhere.         *)
LEMMA SameRun ==
    ASSUME NEW s \in Seq(Byte), NEW t \in Seq(Byte), Len(s) = Len(t),
           \A i \in 1..Len(s) : s[i] = t[i]
    PROVE  s = t
  OBVIOUS

LEMMA Joined ==
    ASSUME NEW s \in Seq(Byte), NEW t \in Seq(Byte), NEW i \in 1..(Len(s) + Len(t))
    PROVE  (s \o t)[i] = IF i <= Len(s) THEN s[i] ELSE t[i - Len(s)]
  OBVIOUS

LEMMA SubRun ==
    ASSUME NEW s \in Seq(Byte), NEW i \in 1..Len(s), NEW j \in 0..Len(s), i <= j + 1
    PROVE  /\ SubSeq(s, i, j) \in Seq(Byte) /\ Len(SubSeq(s, i, j)) = j - i + 1
           /\ \A k \in 1..(j - i + 1) : SubSeq(s, i, j)[k] = s[i + k - 1]
  OBVIOUS

(* Positions that follow one another.                                      *)
LEMMA Onward ==
    ASSUME NEW h \in Cell, NEW n \in 0..(Size - 1)
    PROVE  \A i \in Nat \ {0} : n + i <= Size => Wrap(Wrap(h + n) + i - 1) = Wrap(h + (n + i) - 1)
  BY LwrbAssumption DEF Wrap, Cell

LEMMA TailPosition ==
    ASSUME NEW pw \in Cell, NEW pr \in Cell
    PROVE  Wrap(pr + Full(pw, pr)) = pw
  BY LwrbAssumption DEF Wrap, Cell, Full

LEMMA PublishPuts ==
    ASSUME RInv, wpc \in {"publish", "advance"}, w' = Wrap(w + wlen),
           UNCHANGED <<buff, r, readerVars>>, WriterReturns
    PROVE  Fifo!Put
<1> USE DEF RInv
<1> DEFINE h == Head0
           n == Full(w, h)
<1>1. /\ h \in Cell /\ w \in Cell /\ r \in Cell /\ h' = h
      /\ wlen \in Nat /\ wlen > 0 /\ wlen <= Len(wdata) /\ wdata \in Seq(Byte) /\ wlen <= Free(w, r)
  BY HeadInside DEF IInv, Control, ClaimsFit, Data, Stored, readerVars, Head0
<1>2. wlen <= Free(w, h)
  BY <1>1, LwrbAssumption DEF Head0, IInv, ResetWindow, Free, Cell
<1>3. Full(w', h) = n + wlen /\ n + Free(w, h) = Size - 1 /\ n \in Nat /\ Free(w, h) \in Nat
  BY <1>1, <1>2, AdvanceWrite, IndexFacts
<1>4. n + wlen \in 0..(Size - 1) /\ n \in 0..(Size - 1)
  BY <1>1, <1>2, <1>3, LwrbAssumption
<1>5. /\ Contents \in Seq(Byte) /\ Len(Contents) = n
      /\ \A i \in 1..n : Contents[i] = buff[Wrap(h + i - 1)]
  BY ContentsIs
<1>6. Contents' = [i \in 1..(n + wlen) |-> buff[Wrap(h + i - 1)]]
  BY <1>1, <1>3 DEF Contents
<1>7. \A i \in 1..(n + wlen) : buff[Wrap(h + i - 1)] \in Byte
  BY <1>1, <1>4, Positions DEF Data
<1>8. Wrap(h + n) = w
  BY <1>1, TailPosition
<1> DEFINE t == SubSeq(wdata, 1, wlen)
<1>9. t \in Seq(Byte) /\ Len(t) = wlen /\ \A i \in 1..wlen : t[i] = wdata[i]
  BY <1>1
<1>10. \A i \in 1..wlen : buff[Wrap(h + (n + i) - 1)] = wdata[i]
  <2>1. SUFFICES ASSUME NEW i \in 1..wlen PROVE buff[Wrap(h + (n + i) - 1)] = wdata[i]
    OBVIOUS
  <2>2. i \in Nat \ {0} /\ n + i <= Size
    BY <1>1, <1>4, LwrbAssumption
  <2>3. Wrap(w + i - 1) = Wrap(h + (n + i) - 1)
    <3> HIDE DEF h, n
    <3> QED
      BY <1>1, <1>4, <1>8, <2>2, Onward
  <2>4. buff[Wrap(w + i - 1)] = wdata[i]
    BY DEF Stored
  <2> QED
    BY <2>3, <2>4
<1> HIDE DEF h, n, t
<1>11. Contents' = Contents \o t
  <2>1. Contents' \in Seq(Byte) /\ Len(Contents') = n + wlen
    BY <1>1, <1>3, <1>6, <1>7
  <2>2. Contents \o t \in Seq(Byte) /\ Len(Contents \o t) = n + wlen
    BY <1>5, <1>9
  <2>3. ASSUME NEW i \in 1..(n + wlen) PROVE Contents'[i] = (Contents \o t)[i]
    <3>1. CASE i <= n
      <4>1. i \in 1..n
        BY <1>3, <3>1
      <4> QED
        BY <1>5, <1>6, <1>9, <4>1
    <3>2. CASE i > n
      <4>1. i - n \in 1..wlen /\ n + (i - n) = i
        BY <1>1, <1>3, <3>2
      <4>2. (Contents \o t)[i] = t[i - n]
        <5>1. i \in 1..(Len(Contents) + Len(t)) /\ ~(i <= Len(Contents))
          BY <1>1, <1>3, <1>5, <1>9, <3>2
        <5> QED
          BY <1>5, <1>9, <5>1, Joined
      <4> QED
        BY <1>6, <1>9, <1>10, <4>1, <4>2
    <3> QED
      <4>1. i <= n \/ i > n
        BY <1>1, <1>3
      <4> QED
        BY <3>1, <3>2, <4>1
  <2> QED
    BY <2>1, <2>2, <2>3, SameRun
<1>12. wlen \in 1..Len(wdata) /\ Len(Contents) + wlen <= Size - 1
  BY <1>1, <1>4, <1>5
<1>13. wdata' = <<>> /\ out' = out
  BY DEF WriterReturns, readerVars
<1> QED
  BY <1>11, <1>12, <1>13 DEF Fifo!Put, t

(* Each step of the writer: Offer, Refuse, Put, or nothing that shows.     *)
AbstractStep == Fifo!Next \/ UNCHANGED Fifo!vars

LEMMA LinearCells ==
    ASSUME NEW at \in Cell, NEW m \in Nat, NEW n \in Nat, m <= n, at + m <= Size
    PROVE  \A c \in Cell : at <= c /\ c < at + m => c \in Span(at, n)
<1>1. SUFFICES ASSUME NEW c \in Cell, at <= c, c < at + m PROVE c \in Span(at, n)
  OBVIOUS
<1>2. c - at \in 0..(n - 1) /\ Wrap(at + (c - at)) = c
  BY <1>1, LwrbAssumption DEF Cell, Wrap
<1> QED
  BY <1>2 DEF Span

LEMMA WrappedCells ==
    ASSUME NEW at \in Cell, NEW n \in 0..(Size - 1), at + n > Size
    PROVE  \A c \in Cell : c < n - (Size - at) => c \in Span(at, n)
<1>1. SUFFICES ASSUME NEW c \in Cell, c < n - (Size - at) PROVE c \in Span(at, n)
  OBVIOUS
<1>2. c + (Size - at) \in 0..(n - 1) /\ Wrap(at + (c + (Size - at))) = c
  BY <1>1, LwrbAssumption DEF Cell, Wrap
<1> QED
  BY <1>2 DEF Span

LEMMA WriterMaps ==
    ASSUME RInv, Writer
    PROVE  Stored' /\ Copied' /\ AbstractStep
<1> USE DEF RInv
<1>0. /\ w \in Cell /\ r \in Cell /\ Full(w, r) \in Nat /\ Free(w, r) \in 0..(Size - 1)
      /\ wlen \in Nat /\ Size \in Nat \ {0} /\ wdata \in Seq(Byte) /\ Len(wdata) \in Nat
  BY IndexFacts, LwrbAssumption DEF IInv, Control
<1>1. ASSUME NEW d \in Request, lwrb_write(d) PROVE Stored' /\ Copied' /\ AbstractStep
  <2>1. wpc = "idle" /\ wpc' = "free" /\ wdata' = d /\ UNCHANGED <<buff, w, r, readerVars>>
    BY <1>1 DEF lwrb_write, MayWrite
  <2>2. d \in Seq(Byte) /\ Len(d) > 0
    BY RequestFacts
  <2>3. Stored' /\ Copied'
    BY <2>1, <2>2 DEF Stored, Copied, readerVars
  <2>4. Contents' = Contents /\ out' = out /\ wdata = <<>>
    BY <2>1 DEF Contents, Head0, Stored, readerVars
  <2>5. Fifo!Offer
    BY <2>1, <2>4 DEF Fifo!Offer, Fifo!Run, Request
  <2> QED
    BY <2>3, <2>5 DEF AbstractStep, Fifo!Next
<1>2. ASSUME NEW d \in Request, FillLinearBlock(d) PROVE Stored' /\ Copied' /\ AbstractStep
  <2>1. /\ wpc = "idle" /\ wpc' = "advance" /\ wdata' = d /\ wlen' = Len(d)
        /\ buff' = CopyIn(w, d, 1, Len(d)) /\ UNCHANGED <<w, r, readerVars>>
        /\ Len(d) <= LinearWrite(w, r)
    BY <1>2 DEF FillLinearBlock, MayWrite
  <2>2. d \in Seq(Byte) /\ Len(d) \in Nat /\ Len(d) > 0
    BY RequestFacts, LwrbAssumption
  <2>3. Len(d) <= Free(w, r) /\ w + Len(d) <= Size
    BY <1>0, <2>1, <2>2 DEF LinearWrite, Free, Cell
  <2>4. \A c \in Cell : buff'[c] = IF w <= c /\ c < w + Len(d) THEN d[1 + (c - w)] ELSE buff[c]
    BY <2>1, CopiedCells
  <2>5. \A c \in Cell : w <= c /\ c < w + Len(d) => c \in Span(w, Len(d))
    BY <1>0, <2>2, <2>3, LinearCells
  <2>6. Contents' = Contents /\ Copied'
    BY <2>1, <2>2, <2>3, <2>4, <2>5, WriterApart
  <2>7. ASSUME NEW i \in 1..Len(d) PROVE buff'[Wrap(w + i - 1)] = d[i]
    <3>1. w + i - 1 \in Cell /\ Wrap(w + i - 1) = w + i - 1 /\ 1 + ((w + i - 1) - w) = i
          /\ w <= w + i - 1 /\ w + i - 1 < w + Len(d)
      BY <1>0, <2>2, <2>3 DEF Wrap, Cell
    <3> QED
      BY <2>4, <3>1
  <2>8. Stored'
    BY <2>1, <2>2, <2>7 DEF Stored
  <2>9. Fifo!Offer
    BY <2>1, <2>6 DEF Fifo!Offer, Fifo!Run, Request, Stored, readerVars
  <2> QED
    BY <2>6, <2>8, <2>9 DEF AbstractStep, Fifo!Next
<1>3. CASE WriteGetFree
  <2>1. wpc = "free" /\ UNCHANGED <<buff, w, r, readerVars>> /\ Len(wdata) > 0
    BY <1>3 DEF WriteGetFree, Stored
  <2>2. Contents' = Contents /\ out' = out /\ Copied'
    BY <2>1 DEF Contents, Head0, readerVars, Copied
  <2> DEFINE n == Minimum(Free(w, r), Len(wdata))
  <2>3. n \in Nat
    BY <1>0 DEF Minimum
  <2> HIDE DEF n
  <2>4. \/ n = 0 /\ wpc' = "idle" /\ wdata' = <<>> /\ wlen' = 0
        \/ n # 0 /\ wpc' = "linear" /\ wlen' = n /\ wdata' = wdata
    BY <1>3 DEF WriteGetFree, WriterReturns, n
  <2>5. CASE n = 0
    <3>1. wdata # <<>>
      BY <2>1
    <3>2. Fifo!Refuse
      BY <2>2, <2>4, <2>5, <3>1 DEF Fifo!Refuse
    <3> QED
      BY <2>2, <2>4, <2>5, <3>2 DEF Stored, AbstractStep, Fifo!Next
  <2>6. CASE n # 0
    BY <2>1, <2>2, <2>3, <2>4, <2>6 DEF Stored, AbstractStep, Fifo!vars
  <2> QED
    BY <2>5, <2>6
<1>4. CASE WriteLinear
  <2> DEFINE m == ToEnd(w, wlen)
  <2>1. /\ wpc = "linear" /\ buff' = CopyIn(w, wdata, 1, m)
        /\ wpc' = IF m < wlen THEN "wrapped" ELSE "publish"
        /\ UNCHANGED <<w, r, wdata, wlen, readerVars>>
    BY <1>4 DEF WriteLinear
  <2>2. wlen > 0 /\ wlen <= Free(w, r) /\ wlen <= Len(wdata) /\ Len(wdata) > 0
    BY <2>1 DEF Stored, IInv, ClaimsFit, Data
  <2>3. m \in Nat /\ m <= wlen /\ w + m <= Size /\ (m < wlen => m = Size - w)
    BY <1>0 DEF ToEnd, Minimum, Cell
  <2> HIDE DEF m
  <2>4. \A c \in Cell : buff'[c] = IF w <= c /\ c < w + m THEN wdata[1 + (c - w)] ELSE buff[c]
    BY <2>1, CopiedCells
  <2>5. \A c \in Cell : w <= c /\ c < w + m => c \in Span(w, wlen)
    BY <1>0, <2>3, LinearCells
  <2>6. Contents' = Contents /\ Copied'
    BY <1>0, <2>1, <2>2, <2>4, <2>5, WriterApart
  <2>7. ASSUME NEW i \in 1..m
        PROVE  buff'[w + i - 1] = wdata[i] /\ Wrap(w + i - 1) = w + i - 1
    <3>1. w + i - 1 \in Cell /\ Wrap(w + i - 1) = w + i - 1 /\ 1 + ((w + i - 1) - w) = i
          /\ w <= w + i - 1 /\ w + i - 1 < w + m
      BY <1>0, <2>3 DEF Wrap, Cell
    <3> QED
      BY <2>4, <3>1
  <2>8. Stored'
    <3>1. CASE m < wlen
      <4>1. m = Size - w /\ w + wlen > Size /\ wpc' = "wrapped"
        BY <1>0, <2>1, <2>3, <3>1 DEF Cell
      <4>2. \A i \in 1..(Size - w) : buff'[w + i - 1] = wdata[i]
        BY <2>7, <4>1
      <4> QED
        BY <2>1, <2>2, <4>1, <4>2 DEF Stored
    <3>2. CASE ~(m < wlen)
      <4>1. m = wlen /\ wpc' = "publish"
        BY <1>0, <2>1, <2>3, <3>2
      <4>2. \A i \in 1..wlen : buff'[Wrap(w + i - 1)] = wdata[i]
        BY <2>7, <4>1
      <4> QED
        BY <2>1, <2>2, <4>1, <4>2 DEF Stored
    <3> QED
      BY <3>1, <3>2
  <2> QED
    BY <2>1, <2>6, <2>8 DEF AbstractStep, Fifo!vars, readerVars
<1>5. CASE WriteWrapped
  <2> DEFINE m == ToEnd(w, wlen)
  <2>1. /\ wpc = "wrapped" /\ buff' = CopyIn(0, wdata, m + 1, wlen - m) /\ wpc' = "publish"
        /\ UNCHANGED <<w, r, wdata, wlen, readerVars>>
    BY <1>5 DEF WriteWrapped
  <2>2. /\ wlen > 0 /\ wlen <= Free(w, r) /\ wlen <= Len(wdata) /\ Len(wdata) > 0
        /\ w + wlen > Size /\ \A i \in 1..(Size - w) : buff[w + i - 1] = wdata[i]
    BY <2>1 DEF Stored, IInv, ClaimsFit, Data
  <2>3. m = Size - w /\ wlen \in 0..(Size - 1) /\ w \in Nat /\ w < Size /\ w > wlen - m
    BY <1>0, <2>2 DEF ToEnd, Minimum, Cell
  <2> HIDE DEF m
  <2>4. \A c \in Cell : buff'[c] = IF 0 <= c /\ c < 0 + (wlen - m) THEN wdata[(m + 1) + (c - 0)]
                                   ELSE buff[c]
    BY <2>1, CopiedCells
  <2>5. \A c \in Cell : c < wlen - (Size - w) => c \in Span(w, wlen)
    BY <1>0, <2>2, <2>3, WrappedCells
  <2>6. \A c \in Cell \ Span(w, wlen) : buff'[c] = buff[c]
    <3>1. SUFFICES ASSUME NEW c \in Cell, c \notin Span(w, wlen) PROVE buff'[c] = buff[c]
      OBVIOUS
    <3>2. ~(c < wlen - m)
      BY <2>3, <2>5, <3>1
    <3>3. ~(c < 0 + (wlen - m))
      BY <1>0, <2>3, <3>2 DEF Cell
    <3> QED
      BY <2>4, <3>3
  <2>7. Contents' = Contents /\ Copied'
    BY <1>0, <2>1, <2>2, <2>6, WriterApart
  <2>8. ASSUME NEW i \in 1..wlen PROVE buff'[Wrap(w + i - 1)] = wdata[i]
    <3>1. CASE i <= Size - w
      <4>1. w + i - 1 \in Cell /\ Wrap(w + i - 1) = w + i - 1 /\ i \in 1..(Size - w)
            /\ ~(w + i - 1 < 0 + (wlen - m))
        BY <1>0, <2>3, <3>1 DEF Wrap, Cell
      <4> QED
        BY <2>2, <2>4, <4>1
    <3>2. CASE ~(i <= Size - w)
      <4>1. /\ w + i - 1 - Size \in Cell /\ Wrap(w + i - 1) = w + i - 1 - Size
            /\ w + i - 1 - Size < 0 + (wlen - m) /\ 0 <= w + i - 1 - Size
            /\ (m + 1) + ((w + i - 1 - Size) - 0) = i
        BY <1>0, <2>3, <3>2 DEF Wrap, Cell
      <4> QED
        BY <2>4, <4>1
    <3> QED
      BY <3>1, <3>2
  <2>9. Stored'
    BY <2>1, <2>2, <2>8 DEF Stored
  <2> QED
    BY <2>1, <2>7, <2>9 DEF AbstractStep, Fifo!vars, readerVars
<1>6. CASE WritePublish
  <2>1. /\ wpc = "publish" /\ w' = Wrap(w + wlen) /\ WriterReturns /\ UNCHANGED <<buff, r, readerVars>>
    BY <1>6 DEF WritePublish
  <2>2. Fifo!Put
    BY <2>1, PublishPuts
  <2>3. Stored' /\ Copied'
    BY <2>1 DEF Stored, Copied, WriterReturns, readerVars
  <2> QED
    BY <2>2, <2>3 DEF AbstractStep, Fifo!Next
<1>7. CASE lwrb_advance
  <2>1. wpc = "advance" /\ WriterReturns /\ UNCHANGED <<buff, r, readerVars>>
    BY <1>7 DEF lwrb_advance
  <2>2. Minimum(wlen, Free(w, r)) = wlen
    BY <1>0, <2>1 DEF Minimum, IInv, ClaimsFit
  <2>3. w' = Wrap(w + wlen)
    BY <1>7, <2>2 DEF lwrb_advance
  <2>4. Fifo!Put
    BY <2>1, <2>3, PublishPuts
  <2>5. Stored' /\ Copied'
    BY <2>1 DEF Stored, Copied, WriterReturns, readerVars
  <2> QED
    BY <2>4, <2>5 DEF AbstractStep, Fifo!Next
<1> QED
  BY <1>1, <1>2, <1>3, <1>4, <1>5, <1>6, <1>7 DEF Writer

(* The reader.                                                             *)

LEMMA TakenFrom ==
    ASSUME IInv, Data, rpc # "reset", NEW n \in 1..Full(w, r),
           r' = Wrap(r + n), rpc' # "reset", UNCHANGED <<buff, w>>
    PROVE  Contents' = SubSeq(Contents, n + 1, Len(Contents)) /\ n \in 1..Len(Contents)
<1> DEFINE f == Full(w, r)
<1>1. w \in Cell /\ r \in Cell /\ Head0 = r /\ Head0' = r' /\ Size \in Nat \ {0}
  BY LwrbAssumption DEF IInv, Control, Head0
<1>2. /\ Contents \in Seq(Byte) /\ Len(Contents) = f /\ f \in 0..(Size - 1)
      /\ \A i \in 1..f : Contents[i] = buff[Wrap(r + i - 1)]
  BY <1>1, ContentsIs
<1>3. r' \in Cell /\ Free(w, r') = Free(w, r) + n /\ n \in Nat /\ n >= 1 /\ n <= f
  BY <1>1, <1>2, AdvanceRead
<1>4. Full(w, r') = f - n
  <2>1. Full(w, r') + Free(w, r') = f + Free(w, r) /\ Full(w, r') \in Nat /\ Free(w, r) \in Nat
    BY <1>1, <1>3, IndexFacts
  <2> QED
    BY <1>2, <1>3, <2>1
<1>5. Contents' = [i \in 1..(f - n) |-> buff[Wrap(r' + i - 1)]]
  BY <1>1, <1>4 DEF Contents
<1> HIDE DEF f
<1>6. \A i \in 1..(f - n) : Wrap(r' + i - 1) = Wrap(r + (n + i) - 1)
  <2>1. \A i \in 1..(f - n) : i \in Nat \ {0} /\ n + i <= Size /\ n \in 0..(Size - 1)
    BY <1>1, <1>2, <1>3
  <2> QED
    BY <1>1, <1>3, <2>1, Onward
<1>7. \A i \in 1..(f - n) : n + i \in 1..f /\ Contents[n + i] = buff[Wrap(r' + i - 1)]
  <2>1. \A i \in 1..(f - n) : n + i \in 1..f
    BY <1>2, <1>3
  <2> QED
    BY <1>2, <1>6, <2>1
<1> DEFINE t == SubSeq(Contents, n + 1, Len(Contents))
<1>8. t \in Seq(Byte) /\ Len(t) = f - n /\ \A i \in 1..(f - n) : t[i] = Contents[n + i]
  <2>1. CASE n = f
    <3>1. t = <<>>
      BY <1>2, <1>3, <2>1
    <3> QED
      BY <1>2, <1>3, <2>1, <3>1
  <2>2. CASE n < f
    <3>1. n + 1 \in 1..Len(Contents) /\ Len(Contents) \in 0..Len(Contents)
      BY <1>2, <1>3, <2>2
    <3>2. t \in Seq(Byte) /\ Len(t) = Len(Contents) - (n + 1) + 1
          /\ \A k \in 1..(Len(Contents) - (n + 1) + 1) : t[k] = Contents[(n + 1) + k - 1]
      BY <1>2, <1>3, <3>1, SubRun
    <3>3. Len(Contents) - (n + 1) + 1 = f - n /\ \A k \in Nat : (n + 1) + k - 1 = n + k
      BY <1>2, <1>3
    <3> QED
      BY <3>2, <3>3
  <2> QED
    BY <1>2, <1>3, <2>1, <2>2
<1> HIDE DEF t
<1>9. Contents' = t
  <2>1. Contents' \in Seq(Byte) /\ Len(Contents') = f - n
    <3>1. f - n \in Nat
      BY <1>2, <1>3
    <3>2. ASSUME NEW i \in 1..(f - n) PROVE buff[Wrap(r' + i - 1)] \in Byte
      <4>1. n + i \in 1..Len(Contents) /\ buff[Wrap(r' + i - 1)] = Contents[n + i]
        BY <1>2, <1>7
      <4> QED
        BY <1>2, <4>1
    <3> QED
      BY <1>5, <3>1, <3>2
  <2>2. \A i \in 1..(f - n) : Contents'[i] = t[i]
    BY <1>5, <1>7, <1>8
  <2> QED
    BY <1>8, <2>1, <2>2, SameRun
<1> QED
  BY <1>2, <1>3, <1>9 DEF t

(* What a finished copy of the reader holds: bytes of the queue in a row.  *)
LEMMA CopyIsRun ==
    ASSUME IInv, Data, rpc # "reset", NEW k \in Nat, NEW n \in Nat \ {0}, k + n <= Full(w, r),
           NEW s \in Seq(Byte), Len(s) = n,
           \A i \in 1..n : s[i] = buff[Wrap(r + (k + i) - 1)]
    PROVE  /\ s = SubSeq(Contents, k + 1, k + n)
           /\ k + 1 \in 1..Len(Contents) /\ k + n \in 1..Len(Contents) /\ k + 1 <= k + n
<1>1. Head0 = r
  BY DEF Head0
<1>2. /\ Contents \in Seq(Byte) /\ Len(Contents) = Full(w, r) /\ Full(w, r) \in 0..(Size - 1)
      /\ \A i \in 1..Full(w, r) : Contents[i] = buff[Wrap(r + i - 1)]
  BY <1>1, ContentsIs
<1>3. k + 1 \in 1..Len(Contents) /\ k + n \in 1..Len(Contents) /\ k + n \in 0..Len(Contents)
      /\ k + 1 <= k + n /\ k + 1 <= (k + n) + 1
  BY <1>2, LwrbAssumption
<1> DEFINE t == SubSeq(Contents, k + 1, k + n)
<1>4. /\ t \in Seq(Byte) /\ Len(t) = (k + n) - (k + 1) + 1
      /\ \A i \in 1..((k + n) - (k + 1) + 1) : t[i] = Contents[(k + 1) + i - 1]
  BY <1>2, <1>3, SubRun
<1> HIDE DEF t
<1>5. (k + n) - (k + 1) + 1 = n /\ \A i \in 1..n : (k + 1) + i - 1 = k + i /\ k + i \in 1..Full(w, r)
  BY <1>2
<1>6. \A i \in 1..n : t[i] = s[i]
  BY <1>2, <1>4, <1>5
<1>7. s = t
  BY <1>4, <1>5, <1>6, SameRun
<1> QED
  BY <1>3, <1>7 DEF t

(* Two copies around the end of the storage.                               *)
LEMMA AroundTheEnd ==
    ASSUME IInv, Data, NEW at \in Cell, NEW n \in 1..(Size - 1), NEW m, m = ToEnd(at, n)
    PROVE  LET s == CopyOut(at, m) \o CopyOut(0, n - m) IN
             /\ s \in Seq(Byte) /\ Len(s) = n
             /\ \A i \in 1..n : s[i] = buff[Wrap(at + i - 1)]
<1> DEFINE a == CopyOut(at, m)
           b == CopyOut(0, n - m)
           s == a \o b
<1>1. /\ m \in Nat /\ m <= n /\ at + m <= Size /\ n - m \in Nat /\ n - m <= Size
      /\ (m < n => m = Size - at) /\ at \in Nat /\ Size \in Nat \ {0} /\ n \in Nat
  BY LwrbAssumption DEF ToEnd, Minimum, Cell
<1>2. a \in Seq(Byte) /\ b \in Seq(Byte)
  BY <1>1, CopyOutType DEF Data
<1>3. /\ Len(a) = m /\ \A i \in 1..m : a[i] = buff[at + i - 1]
      /\ Len(b) = n - m /\ \A i \in 1..(n - m) : b[i] = buff[0 + i - 1]
  BY <1>1 DEF CopyOut
<1> HIDE DEF a, b
<1>4. s \in Seq(Byte) /\ Len(s) = n
  <2>1. s \in Seq(Byte) /\ Len(s) = Len(a) + Len(b)
    BY <1>2
  <2>2. Len(a) + Len(b) = n
    BY <1>1, <1>3
  <2> QED
    BY <2>1, <2>2
<1>5. ASSUME NEW i \in 1..n PROVE s[i] = buff[Wrap(at + i - 1)]
  <2>1. i \in 1..(Len(a) + Len(b))
    BY <1>1, <1>3
  <2>2. s[i] = IF i <= Len(a) THEN a[i] ELSE b[i - Len(a)]
    BY <1>2, <2>1, Joined
  <2>3. CASE i <= m
    <3>1. i \in 1..m /\ Wrap(at + i - 1) = at + i - 1
      BY <1>1, <2>3 DEF Wrap
    <3> QED
      BY <1>3, <2>2, <2>3, <3>1
  <2>4. CASE ~(i <= m)
    <3>1. i - m \in 1..(n - m) /\ Wrap(at + i - 1) = 0 + (i - m) - 1
      BY <1>1, <2>4 DEF Wrap, Cell
    <3> QED
      BY <1>3, <2>2, <2>4, <3>1
  <2> QED
    BY <2>3, <2>4
<1> QED
  BY <1>4, <1>5 DEF a, b

(* A finished read hands out the head of the queue and drops it.           *)
LEMMA PublishTakes ==
    ASSUME RInv, rpc \in {"publish", "skip"}, r' = Wrap(r + rlen), out' = rdata, rpc' = "idle",
           UNCHANGED <<buff, w, wdata>>
    PROVE  Fifo!Take
<1> USE DEF RInv
<1>1. /\ w \in Cell /\ r \in Cell /\ rlen \in Nat /\ rlen > 0 /\ rlen <= Full(w, r)
      /\ rdata \in Seq(Byte) /\ Len(rdata) = rlen
      /\ \A i \in 1..rlen : rdata[i] = buff[Wrap(r + i - 1)]
  BY DEF IInv, Control, ClaimsFit, Copied, Data
<1>2. Full(w, r) \in Nat
  BY <1>1, IndexFacts
<1>3. rlen \in 1..Full(w, r) /\ rlen \in Nat \ {0} /\ 0 + rlen <= Full(w, r)
      /\ 0 + rlen = rlen /\ 0 + 1 = 1
  BY <1>1, <1>2
<1>4. /\ Contents' = SubSeq(Contents, rlen + 1, Len(Contents))
      /\ rlen \in 1..Len(Contents)
  BY <1>3, TakenFrom
<1>5. \A i \in 1..rlen : rdata[i] = buff[Wrap(r + (0 + i) - 1)]
  BY <1>1
<1>6. rdata = SubSeq(Contents, 0 + 1, 0 + rlen)
  BY <1>1, <1>3, <1>5, CopyIsRun
<1> QED
  BY <1>3, <1>4, <1>6 DEF Fifo!Take

LEMMA ReaderMaps ==
    ASSUME RInv, Reader
    PROVE  Stored' /\ Copied' /\ AbstractStep
<1> USE DEF RInv
<1>0. /\ w \in Cell /\ r \in Cell /\ Full(w, r) \in 0..(Size - 1)
      /\ rlen \in Nat /\ rskip \in Nat /\ Size \in Nat \ {0}
  BY FullBound, LwrbAssumption DEF IInv, Control
<1>st. ASSUME UNCHANGED <<buff, w, writerVars>> PROVE Stored'
  BY <1>st DEF Stored, writerVars
<1>mm. ASSUME UNCHANGED <<buff, w, r, writerVars>>, rpc # "reset", rpc' # "reset"
       PROVE  Contents' = Contents /\ wdata' = wdata
  BY <1>mm DEF Contents, Head0, writerVars
<1>id. ASSUME rpc' = "idle" PROVE Copied'
  BY <1>id DEF Copied
<1>1. ASSUME NEW n \in 1..MaxLen, lwrb_read(n) PROVE Stored' /\ Copied' /\ AbstractStep
  <2>1. rpc = "idle" /\ rpc' = "full" /\ rlen' = n /\ UNCHANGED <<buff, w, r, writerVars, out>>
    BY <1>1 DEF lwrb_read
  <2>2. Copied' /\ UNCHANGED Fifo!vars
    BY <2>1, <1>mm DEF Copied, Fifo!vars
  <2> QED
    BY <2>1, <2>2, <1>st DEF AbstractStep
<1>2. ASSUME NEW n \in 1..MaxLen, lwrb_skip(n) PROVE Stored' /\ Copied' /\ AbstractStep
  <2> DEFINE m == Minimum(n, Full(w, r))
  <2>1. /\ rpc = "idle" /\ rpc' = "idle" /\ r' = Wrap(r + m)
        /\ UNCHANGED <<buff, w, writerVars, out>>
    BY <1>2 DEF lwrb_skip, readerVars
  <2>2. m \in Nat /\ m <= Full(w, r) /\ (m = 0 => Wrap(r + m) = r)
    BY <1>0 DEF Minimum, Wrap, Cell
  <2> HIDE DEF m
  <2>3. CASE m = 0
    <3>1. UNCHANGED Fifo!vars
      BY <2>1, <2>2, <2>3, <1>mm DEF Fifo!vars
    <3> QED
      BY <2>1, <3>1, <1>st, <1>id DEF AbstractStep
  <2>4. CASE m # 0
    <3>1. m \in 1..Full(w, r)
      BY <1>0, <2>2, <2>4
    <3>2. Contents' = SubSeq(Contents, m + 1, Len(Contents)) /\ m \in 1..Len(Contents)
      BY <2>1, <3>1, TakenFrom
    <3>3. Fifo!Drop
      BY <2>1, <3>2 DEF Fifo!Drop, writerVars
    <3> QED
      BY <2>1, <3>3, <1>st, <1>id DEF AbstractStep, Fifo!Next
  <2> QED
    BY <2>3, <2>4
<1>3. ASSUME NEW n \in 1..MaxLen, UseLinearBlock(n) PROVE Stored' /\ Copied' /\ AbstractStep
  <2>1. /\ rpc = "idle" /\ rpc' = "skip" /\ rlen' = n /\ rdata' = CopyOut(r, n)
        /\ n <= LinearRead(w, r) /\ UNCHANGED <<buff, w, r, writerVars, out>>
    BY <1>3 DEF UseLinearBlock
  <2>2. n \in Nat /\ n > 0 /\ r + n <= Size
    BY <1>0, <2>1, LwrbAssumption DEF LinearRead, Cell
  <2>3. Len(rdata') = n /\ \A i \in 1..n : rdata'[i] = buff[r + i - 1] /\ Wrap(r + i - 1) = r + i - 1
    <3>1. Len(rdata') = n /\ \A i \in 1..n : rdata'[i] = buff[r + i - 1]
      BY <2>1, <2>2 DEF CopyOut
    <3>2. \A i \in 1..n : Wrap(r + i - 1) = r + i - 1
      BY <1>0, <2>2 DEF Wrap, Cell
    <3> QED
      BY <3>1, <3>2
  <2>4. Copied'
    BY <2>1, <2>2, <2>3 DEF Copied
  <2>5. UNCHANGED Fifo!vars
    BY <2>1, <1>mm DEF Fifo!vars
  <2> QED
    BY <2>1, <2>4, <2>5, <1>st DEF AbstractStep
<1>4. CASE ReadGetFull
  <2> DEFINE n == Minimum(Full(w, r), rlen)
  <2>1. /\ rpc = "full" /\ UNCHANGED <<buff, w, r, writerVars>>
        /\ IF n = 0 THEN rpc' = "idle" /\ out' = <<>>
           ELSE rpc' = "linear" /\ rlen' = n /\ out' = out
    BY <1>4 DEF ReadGetFull, ReaderReturns
  <2>2. n \in Nat
    BY <1>0 DEF Minimum
  <2> HIDE DEF n
  <2>3. CASE n = 0
    <3>1. Fifo!GetNothing
      BY <2>1, <2>3, <1>mm DEF Fifo!GetNothing
    <3> QED
      BY <2>1, <2>3, <3>1, <1>st, <1>id DEF AbstractStep, Fifo!Next
  <2>4. CASE n # 0
    <3>1. Copied'
      BY <2>1, <2>2, <2>4 DEF Copied
    <3>2. UNCHANGED Fifo!vars
      BY <2>1, <2>4, <1>mm DEF Fifo!vars
    <3> QED
      BY <2>1, <3>1, <3>2, <1>st DEF AbstractStep
  <2> QED
    BY <2>3, <2>4
<1>5. CASE ReadLinear
  <2> DEFINE m == ToEnd(r, rlen)
  <2>1. /\ rpc = "linear" /\ rdata' = CopyOut(r, m)
        /\ rpc' = IF m < rlen THEN "wrapped" ELSE "publish"
        /\ UNCHANGED <<buff, w, r, writerVars, rlen, out>>
    BY <1>5 DEF ReadLinear
  <2>2. rlen > 0
    BY <2>1 DEF Copied
  <2>3. m \in Nat /\ m <= rlen /\ r + m <= Size /\ (m < rlen => m = Size - r /\ r + rlen > Size)
    BY <1>0 DEF ToEnd, Minimum, Cell
  <2> HIDE DEF m
  <2>4. Len(rdata') = m /\ \A i \in 1..m : rdata'[i] = buff[r + i - 1] /\ Wrap(r + i - 1) = r + i - 1
    <3>1. Len(rdata') = m /\ \A i \in 1..m : rdata'[i] = buff[r + i - 1]
      BY <2>1, <2>3 DEF CopyOut
    <3>2. \A i \in 1..m : Wrap(r + i - 1) = r + i - 1
      BY <1>0, <2>3 DEF Wrap, Cell
    <3> QED
      BY <3>1, <3>2
  <2>5. Copied'
    <3>1. CASE m < rlen
      BY <2>1, <2>2, <2>3, <2>4, <3>1 DEF Copied
    <3>2. CASE ~(m < rlen)
      <4>1. m = rlen /\ rpc' = "publish"
        BY <1>0, <2>1, <2>3, <3>2
      <4> QED
        BY <2>1, <2>2, <2>4, <4>1 DEF Copied
    <3> QED
      BY <3>1, <3>2
  <2>6. UNCHANGED Fifo!vars
    BY <2>1, <1>mm DEF Fifo!vars
  <2> QED
    BY <2>1, <2>5, <2>6, <1>st DEF AbstractStep
<1>6. CASE ReadWrapped
  <2> DEFINE m == ToEnd(r, rlen)
             b == CopyOut(0, rlen - m)
  <2>1. /\ rpc = "wrapped" /\ rdata' = rdata \o b /\ rpc' = "publish"
        /\ UNCHANGED <<buff, w, r, writerVars, rlen, out>>
    BY <1>6 DEF ReadWrapped
  <2>2. /\ rlen > 0 /\ r + rlen > Size /\ Len(rdata) = Size - r /\ rdata \in Seq(Byte)
        /\ \A i \in 1..(Size - r) : rdata[i] = buff[r + i - 1]
        /\ rlen <= Full(w, r)
    BY <2>1 DEF Copied, Data, IInv, ClaimsFit
  <2>3. /\ m = Size - r /\ rlen - m \in Nat /\ 0 + (rlen - m) <= Size /\ r \in Nat /\ r < Size
    BY <1>0, <2>2 DEF ToEnd, Minimum, Cell
  <2> HIDE DEF m
  <2>4. b \in Seq(Byte) /\ Len(b) = rlen - m /\ \A i \in 1..(rlen - m) : b[i] = buff[i - 1]
    <3>1. b \in Seq(Byte)
      BY <2>3, CopyOutType DEF Data
    <3>2. Len(b) = rlen - m /\ \A i \in 1..(rlen - m) : b[i] = buff[0 + i - 1]
      BY <2>3 DEF CopyOut
    <3> QED
      BY <3>1, <3>2
  <2> HIDE DEF b
  <2>5. Len(rdata') = rlen
    <3>1. Len(rdata \o b) = Len(rdata) + Len(b)
      BY <2>2, <2>4
    <3>2. Len(rdata) + Len(b) = rlen
      BY <1>0, <2>2, <2>3, <2>4
    <3> QED
      BY <2>1, <3>1, <3>2
  <2>6. ASSUME NEW i \in 1..rlen PROVE rdata'[i] = buff[Wrap(r + i - 1)]
    <3>1. i \in 1..(Len(rdata) + Len(b))
      BY <1>0, <2>2, <2>3, <2>4
    <3>2. rdata'[i] = IF i <= Len(rdata) THEN rdata[i] ELSE b[i - Len(rdata)]
      BY <2>1, <2>2, <2>4, <3>1, Joined
    <3>3. CASE i <= Size - r
      <4>1. i \in 1..(Size - r) /\ Wrap(r + i - 1) = r + i - 1
        BY <1>0, <2>3, <3>3 DEF Wrap
      <4> QED
        BY <2>2, <3>2, <3>3, <4>1
    <3>4. CASE ~(i <= Size - r)
      <4>1. i - (Size - r) \in 1..(rlen - m) /\ Wrap(r + i - 1) = (i - (Size - r)) - 1
        BY <1>0, <2>3, <3>4 DEF Wrap
      <4> QED
        BY <2>2, <2>4, <3>2, <3>4, <4>1
    <3> QED
      BY <3>3, <3>4
  <2>7. Copied'
    BY <2>1, <2>2, <2>5, <2>6 DEF Copied
  <2>8. UNCHANGED Fifo!vars
    BY <2>1, <1>mm DEF Fifo!vars
  <2> QED
    BY <2>1, <2>7, <2>8, <1>st DEF AbstractStep
<1>7. CASE ReadPublish
  <2>1. /\ rpc = "publish" /\ r' = Wrap(r + rlen) /\ out' = rdata /\ rpc' = "idle"
        /\ UNCHANGED <<buff, w, writerVars, wdata>>
    BY <1>7 DEF ReadPublish, ReaderReturns, writerVars
  <2>2. Fifo!Take
    BY <2>1, PublishTakes
  <2> QED
    BY <2>1, <2>2, <1>st, <1>id DEF AbstractStep, Fifo!Next
<1>8. ASSUME NEW skip \in 0..MaxLen, NEW n \in 1..MaxLen, lwrb_peek(skip, n)
      PROVE  Stored' /\ Copied' /\ AbstractStep
  <2>1. rpc = "idle" /\ UNCHANGED <<buff, w, r, writerVars>>
    BY <1>8 DEF lwrb_peek
  <2>2. CASE skip >= Full(w, r)
    <3>1. rpc' = "idle" /\ out' = <<>>
      BY <1>8, <2>2 DEF lwrb_peek, ReaderReturns
    <3>2. Fifo!GetNothing
      BY <2>1, <3>1, <1>mm DEF Fifo!GetNothing
    <3> QED
      BY <2>1, <3>1, <3>2, <1>st, <1>id DEF AbstractStep, Fifo!Next
  <2>3. CASE ~(skip >= Full(w, r))
    <3>1. rpc' = "peek" /\ rlen' = Minimum(Full(w, r) - skip, n) /\ out' = out
      BY <1>8, <2>3 DEF lwrb_peek
    <3>2. Minimum(Full(w, r) - skip, n) > 0
      BY <1>0, <2>3, LwrbAssumption DEF Minimum
    <3>3. Copied'
      BY <3>1, <3>2 DEF Copied
    <3>4. UNCHANGED Fifo!vars
      BY <2>1, <3>1, <1>mm DEF Fifo!vars
    <3> QED
      BY <2>1, <3>3, <3>4, <1>st DEF AbstractStep
  <2> QED
    BY <2>2, <2>3
<1>9. CASE PeekCopy
  <2> DEFINE at == Wrap(r + rskip)
             m  == ToEnd(at, rlen)
             s  == CopyOut(at, m) \o CopyOut(0, rlen - m)
  <2>1. /\ rpc = "peek" /\ rpc' = "idle" /\ out' = s /\ UNCHANGED <<buff, w, r, writerVars>>
    BY <1>9 DEF PeekCopy, ReaderReturns
  <2>2. rlen > 0 /\ rskip + rlen <= Full(w, r)
    BY <2>1 DEF Copied, IInv, ClaimsFit
  <2>3. at \in Cell /\ rlen \in 1..(Size - 1) /\ rskip \in 0..(Size - 1) /\ rlen \in Nat \ {0}
    BY <1>0, <2>2 DEF Wrap, Cell
  <2>4. s \in Seq(Byte) /\ Len(s) = rlen /\ \A i \in 1..rlen : s[i] = buff[Wrap(at + i - 1)]
    <3> HIDE DEF at
    <3> QED
      BY <2>3, AroundTheEnd
  <2> HIDE DEF m, s
  <2>5. \A i \in 1..rlen : Wrap(at + i - 1) = Wrap(r + (rskip + i) - 1)
    <3>1. \A i \in 1..rlen : i \in Nat \ {0} /\ rskip + i <= Size
      BY <1>0, <2>2
    <3> QED
      BY <1>0, <2>3, <3>1, Onward
  <2>6. \A i \in 1..rlen : s[i] = buff[Wrap(r + (rskip + i) - 1)]
    BY <2>4, <2>5
  <2>7. /\ s = SubSeq(Contents, rskip + 1, rskip + rlen)
        /\ rskip + 1 \in 1..Len(Contents) /\ rskip + rlen \in 1..Len(Contents)
        /\ rskip + 1 <= rskip + rlen
    BY <1>0, <2>1, <2>2, <2>3, <2>4, <2>6, CopyIsRun
  <2>8. Fifo!Look
    BY <2>1, <2>7, <1>mm DEF Fifo!Look
  <2> QED
    BY <2>1, <2>8, <1>st, <1>id DEF AbstractStep, Fifo!Next
<1>10. CASE SkipLinearBlock
  <2>1. rpc = "skip"
    BY <1>10 DEF SkipLinearBlock
  <2>2. Minimum(rlen, Full(w, r)) = rlen
    BY <1>0, <2>1 DEF Minimum, IInv, ClaimsFit
  <2>3. /\ r' = Wrap(r + rlen) /\ out' = rdata /\ rpc' = "idle"
        /\ UNCHANGED <<buff, w, writerVars, wdata>>
    BY <1>10, <2>2 DEF SkipLinearBlock, ReaderReturns, writerVars
  <2>4. Fifo!Take
    BY <2>1, <2>3, PublishTakes
  <2> QED
    BY <2>3, <2>4, <1>st, <1>id DEF AbstractStep, Fifo!Next
<1>11. CASE lwrb_reset
  <2>1. /\ wpc = "idle" /\ w' = 0 /\ rpc' = "reset" /\ UNCHANGED <<buff, r, writerVars, out>>
    BY <1>11 DEF lwrb_reset
  <2>2. Stored' /\ Copied'
    BY <2>1 DEF Stored, Copied, writerVars
  <2>3. Full(w', Head0') = 0
    BY <2>1 DEF Full, Head0
  <2>4. Contents' = <<>>
    BY <2>3 DEF Contents
  <2>5. Fifo!Clear
    BY <2>1, <2>4 DEF Fifo!Clear, writerVars
  <2> QED
    BY <2>2, <2>5 DEF AbstractStep, Fifo!Next
<1>12. CASE ResetRead
  <2>1. /\ rpc = "reset" /\ r' = 0 /\ rpc' = "idle" /\ UNCHANGED <<buff, w, writerVars, out>>
    BY <1>12 DEF ResetRead
  <2>2. UNCHANGED Fifo!vars
    BY <2>1 DEF Fifo!vars, Contents, Head0, writerVars
  <2> QED
    BY <2>1, <2>2, <1>st, <1>id DEF AbstractStep
<1> QED
  BY <1>1, <1>2, <1>3, <1>4, <1>5, <1>6, <1>7, <1>8, <1>9, <1>10, <1>11, <1>12
     DEF Reader

LEMMA StutterMaps ==
    ASSUME RInv, UNCHANGED vars
    PROVE  Data' /\ Stored' /\ Copied' /\ AbstractStep
<1>1. Data' /\ Stored' /\ Copied'
  BY DEF RInv, Data, Stored, Copied, vars, writerVars, readerVars
<1>2. UNCHANGED Fifo!vars
  BY DEF Fifo!vars, Contents, Head0, vars, writerVars, readerVars
<1> QED
  BY <1>1, <1>2 DEF AbstractStep

LEMMA InitMaps == Init => Stored /\ Copied /\ Fifo!Init
<1> SUFFICES ASSUME Init PROVE Stored /\ Copied /\ Fifo!Init
  OBVIOUS
<1>1. Stored /\ Copied
  BY DEF Init, Stored, Copied
<1>2. Full(w, Head0) = 0
  BY DEF Init, lwrb_init, Full, Head0
<1>3. Contents = <<>>
  BY <1>2 DEF Contents
<1> QED
  BY <1>1, <1>3 DEF Init, Fifo!Init

(* The ring buffer is a bounded first-in first-out queue: whatever the two *)
(* threads interleave, a write appears in one piece when it stores w, a    *)
(* read hands out and drops the oldest bytes, in order, when it stores r,  *)
(* a peek sees bytes of the queue in a row and a reset empties it when it  *)
(* stores w (lwrb.c:110-506).                                              *)
THEOREM ImplementsByteFifo == Spec => FifoRefined
<1>1. Init => Fifo!Init /\ Data /\ Stored /\ Copied
  BY InitMaps, InitData
<1>2. IInv /\ (Data /\ Stored /\ Copied) /\ [Next]_vars => (Data /\ Stored /\ Copied)'
  BY WriterMaps, ReaderMaps, StutterMaps, WriterData, ReaderData DEF RInv, Next
<1>3. IInv /\ (Data /\ Stored /\ Copied) /\ [Next]_vars => [Fifo!Next]_(Fifo!vars)
  BY WriterMaps, ReaderMaps, StutterMaps DEF RInv, Next, AbstractStep
<1> QED
  BY SpecIInv, <1>1, <1>2, <1>3, PTL DEF Spec, FifoRefined, Fifo!Spec

=============================================================================
