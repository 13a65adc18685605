---------------------------- MODULE UartRxProofs ----------------------------
(***************************************************************************)
(* For every buffer length and line: an index never leaves USART_RX_BUF,   *)
(* and the buffer holds exactly the end of the line that was accepted.     *)
(***************************************************************************)
EXTENDS UartRx, TLAPS

(* Division with a remainder, and that the remainder is unique.            *)
LEMMA Remainder ==
    ASSUME NEW n \in Nat, NEW m \in Nat \ {0}
    PROVE  /\ (n % m) \in 0..(m - 1) /\ n \div m \in Int
           /\ n = (m * (n \div m)) + (n % m)
  OBVIOUS

LEMMA RemainderUnique ==
    ASSUME NEW n \in Nat, NEW m \in Nat \ {0}, NEW q \in Int, NEW r \in 0..(m - 1),
           n = (m * q) + r
    PROVE  n % m = r
  OBVIOUS

LEMMA RemainderBound ==
    ASSUME NEW n \in Nat, NEW m \in Nat \ {0}
    PROVE  n % m <= n
<1>1. CASE n < m
  <2>1. n = (m * 0) + n /\ n \in 0..(m - 1)
    BY <1>1
  <2> QED
    BY <2>1, RemainderUnique
<1>2. CASE n >= m
  BY <1>2, Remainder
<1> QED
  BY <1>1, <1>2

(* Counted is the successor modulo the length of the buffer.               *)
LEMMA CountedFollows ==
    ASSUME NEW n \in Nat
    PROVE  (n + 1) % USART_REC_LEN = Counted(n % USART_REC_LEN)
<1> DEFINE L == USART_REC_LEN
<1> DEFINE q == n \div L
<1> DEFINE r == n % L
<1>0. L \in Nat \ {0}
  BY UartAssumption
<1>1. r \in 0..(L - 1) /\ q \in Int /\ n = (L * q) + r
  BY <1>0, Remainder
<1>2. SUFFICES (n + 1) % L = Counted(r)
  OBVIOUS
<1>3. Counted(r) = IF r + 1 > L - 1 THEN 0 ELSE r + 1
  BY DEF Counted
<1> HIDE DEF q, r, L
<1>4. CASE r + 1 > L - 1
  <2>1. n + 1 = (L * (q + 1)) + 0
    BY <1>0, <1>1, <1>4
  <2>2. q + 1 \in Int /\ 0 \in 0..(L - 1) /\ n + 1 \in Nat
    BY <1>0, <1>1
  <2>3. (n + 1) % L = 0
    BY <1>0, <2>1, <2>2, RemainderUnique
  <2> QED
    BY <1>3, <1>4, <2>3
<1>5. CASE ~(r + 1 > L - 1)
  <2>1. n + 1 = (L * q) + (r + 1)
    BY <1>0, <1>1
  <2>2. r + 1 \in 0..(L - 1) /\ n + 1 \in Nat
    BY <1>0, <1>1, <1>5
  <2>3. (n + 1) % L = r + 1
    BY <1>0, <1>1, <2>1, <2>2, RemainderUnique
  <2> QED
    BY <1>3, <1>5, <2>3
<1> QED
  BY <1>4, <1>5

LEMMA IndexFacts ==
    /\ 0 \in Index /\ 0 % USART_REC_LEN = 0
    /\ \A n \in Index : Counted(n) \in Index
  BY UartAssumption DEF Index, Counted

LEMMA EmptyLine ==
    count' = 0 /\ line' = <<>> /\ ~complete' /\ ~scanning' => LineExact'
<1> SUFFICES ASSUME count' = 0, line' = <<>>, ~complete', ~scanning' PROVE LineExact'
  OBVIOUS
<1>1. count' = Len(line') % USART_REC_LEN
  BY IndexFacts
<1>2. 0..(count' - 1) = {}
  OBVIOUS
<1> QED
  BY <1>1, <1>2 DEF LineExact

-----------------------------------------------------------------------------
(* The handler: it has a byte from its read of SR until it is done with    *)
(* it, and it assembles only while no line is complete; a complete line    *)
(* that usmart_scan executes is the only one it can find complete.         *)
Holding ==
    /\ isr = "receive" => rdr # None
    /\ isr \in {"test", "assemble"} => Res # None
    /\ isr = "assemble" => ~complete

IInv == TypeOK /\ Holding /\ LineExact

LEMMA InitIInv == Init => IInv
<1> SUFFICES ASSUME Init PROVE IInv
  OBVIOUS
<1>1. TypeOK
  BY IndexFacts DEF Init, TypeOK, None
<1>2. Holding
  BY DEF Init, Holding
<1>3. LineExact
  BY IndexFacts DEF Init, LineExact
<1> QED
  BY <1>1, <1>2, <1>3 DEF IInv

(* The steps that leave the line and the buffer alone.                     *)
LEMMA ReceivingIInv ==
    IInv /\ ((\E b \in Byte : ByteArrives(b)) \/ ReadStatus \/ USART_ReceiveData
             \/ TestComplete) => IInv'
<1> SUFFICES ASSUME IInv, (\E b \in Byte : ByteArrives(b)) \/ ReadStatus
                          \/ USART_ReceiveData \/ TestComplete
             PROVE  IInv'
  OBVIOUS
<1>1. UNCHANGED <<sta, USART_RX_BUF, scanning, line>>
  BY DEF ByteArrives, ReadStatus, USART_ReceiveData, TestComplete
<1>2. LineExact'
  BY <1>1 DEF IInv, LineExact, sta
<1>3. TypeOK' /\ Holding'
  <2>1. CASE \E b \in Byte : ByteArrives(b)
    <3>1. PICK b \in Byte : ByteArrives(b)
      BY <2>1
    <3>2. rdr' \in {None} \cup {<<c>> : c \in Byte} /\ (rdr # None => rdr' # None)
      BY <3>1 DEF IInv, TypeOK, ByteArrives
    <3>3. ore' \in BOOLEAN /\ UNCHANGED <<handler, sta, USART_RX_BUF, scanning, line>>
      BY <3>1 DEF IInv, TypeOK, ByteArrives
    <3> QED
      BY <3>2, <3>3 DEF IInv, TypeOK, Holding, handler, sta
  <2>2. CASE ReadStatus
    BY <2>2 DEF IInv, TypeOK, Holding, ReadStatus, sta, usart, None
  <2>3. CASE USART_ReceiveData
    BY <2>3 DEF IInv, TypeOK, Holding, USART_ReceiveData, sta, None
  <2>4. CASE TestComplete
    BY <2>4 DEF IInv, TypeOK, Holding, TestComplete, sta, usart, None
  <2> QED
    BY <2>1, <2>2, <2>3, <2>4
<1> QED
  BY <1>2, <1>3 DEF IInv

LEMMA AssembleIInv == IInv /\ Assemble => IInv'
<1> SUFFICES ASSUME IInv, Assemble PROVE IInv'
  OBVIOUS
<1> USE DEF IInv
<1>1. Res[1] \in Byte /\ ~complete
  BY DEF TypeOK, Holding, Assemble, None
<1>2. Holding'
  BY DEF Holding, Assemble, usart
<1>3. CASE AfterCr
  <2>1. TypeOK'
    BY <1>3, IndexFacts DEF TypeOK, Assemble, AfterCr, usart
  <2>2. LineExact'
    <3>1. CASE Res[1] = LF
      BY <1>1, <1>3, <3>1 DEF LineExact, Assemble, AfterCr
    <3>2. CASE Res[1] # LF
      <4>1. count' = 0 /\ line' = <<>> /\ ~complete' /\ ~scanning'
        BY <1>1, <1>3, <3>2 DEF Assemble, AfterCr
      <4> QED
        BY <4>1, EmptyLine
    <3> QED
      BY <3>1, <3>2
  <2> QED
    BY <1>2, <2>1, <2>2
<1>4. CASE SeesCr
  <2>1. TypeOK'
    BY <1>4 DEF TypeOK, Assemble, SeesCr, usart
  <2>2. LineExact'
    BY <1>4 DEF LineExact, Assemble, SeesCr
  <2> QED
    BY <1>2, <2>1, <2>2
<1>5. CASE Stores
  <2>1. TypeOK'
    <3>1. count' \in Index
      BY <1>5, IndexFacts DEF TypeOK, Stores
    <3>2. USART_RX_BUF' \in [Index -> Byte \cup {NUL}] /\ line' \in Seq(Byte)
      BY <1>1, <1>5 DEF TypeOK, Stores
    <3> QED
      BY <1>5, <3>1, <3>2 DEF TypeOK, Assemble, Stores, usart
  <2>2. LineExact'
    <3>1. Len(line) \in Nat /\ Len(line') = Len(line) + 1
      BY <1>1, <1>5 DEF TypeOK, Stores
    <3>2. count' = Len(line') % USART_REC_LEN
      BY <1>5, <3>1, CountedFollows DEF LineExact, Stores
    <3>3. ASSUME NEW i \in 0..(count' - 1)
          PROVE  USART_RX_BUF'[i] = line'[Len(line') - count' + i + 1]
      <4>1. count' = count + 1 /\ count \in Index /\ i \in Index
        BY <1>5, UartAssumption DEF TypeOK, Stores, Counted, Index
      <4>2. count <= Len(line)
        BY <3>1, RemainderBound, UartAssumption DEF LineExact
      <4>3. CASE i = count
        BY <1>1, <1>5, <3>1, <4>1, <4>3 DEF TypeOK, Stores, Index
      <4>4. CASE i # count
        <5>1. i \in 0..(count - 1)
          BY <4>1, <4>4 DEF Index
        <5>2. USART_RX_BUF'[i] = USART_RX_BUF[i]
          BY <1>5, <4>1, <4>4 DEF TypeOK, Stores
        <5>3. line'[Len(line') - count' + i + 1] = line[Len(line) - count + i + 1]
          BY <1>1, <1>5, <3>1, <4>1, <4>2, <5>1 DEF TypeOK, Stores, Index
        <5> QED
          BY <5>1, <5>2, <5>3 DEF LineExact
      <4> QED
        BY <4>3, <4>4
    <3>4. ~complete' /\ ~scanning'
      BY <1>1, <1>5 DEF Assemble, Stores
    <3> QED
      BY <3>2, <3>3, <3>4 DEF LineExact
  <2> QED
    BY <1>2, <2>1, <2>2
<1> QED
  BY <1>3, <1>4, <1>5 DEF Assemble

LEMMA ScanIInv == IInv /\ (ScanBegins \/ ScanEnds) => IInv'
<1> SUFFICES ASSUME IInv, ScanBegins \/ ScanEnds PROVE IInv'
  OBVIOUS
<1> USE DEF IInv
<1>1. CASE ScanBegins
  <2>1. TypeOK' /\ Holding'
    BY <1>1 DEF TypeOK, Holding, ScanBegins, usart, handler, sta
  <2>2. LineExact'
    BY <1>1 DEF TypeOK, LineExact, ScanBegins, sta, Index
  <2> QED
    BY <2>1, <2>2
<1>2. CASE ScanEnds
  <2>1. TypeOK' /\ Holding'
    <3>1. count' \in Index /\ line' \in Seq(Byte)
      BY <1>2, IndexFacts DEF ScanEnds
    <3> QED
      BY <1>2, <3>1 DEF TypeOK, Holding, ScanEnds, usart, handler
  <2>2. LineExact'
    <3>1. count' = 0 /\ line' = <<>> /\ ~complete' /\ ~scanning'
      BY <1>2 DEF ScanEnds
    <3> QED
      BY <3>1, EmptyLine
  <2> QED
    BY <2>1, <2>2
<1> QED
  BY <1>1, <1>2

LEMMA StutterIInv == IInv /\ UNCHANGED vars => IInv'
  BY DEF IInv, TypeOK, Holding, LineExact, vars, usart, handler, sta

LEMMA StepIInv == IInv /\ [Next]_vars => IInv'
  BY ReceivingIInv, AssembleIInv, ScanIInv, StutterIInv DEF Next, USART1_IRQHandler

(* Every index into USART_RX_BUF is inside it, in all interleavings of the *)
(* two interrupts.                                                         *)
THEOREM TypeCorrect == Spec => []TypeOK
  BY InitIInv, StepIInv, PTL DEF Spec, IInv

(* The buffer holds the end of the accepted line, and a complete line is   *)
(* not touched until usmart_scan has executed it.                          *)
THEOREM LinesExact == Spec => []LineExact
  BY InitIInv, StepIInv, PTL DEF Spec, IInv
=============================================================================
