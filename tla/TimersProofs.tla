---------------------------- MODULE TimersProofs ----------------------------
(***************************************************************************)
(* For every set of handlers, their intervals and the memory there is for  *)
(* entries: no timer fires before it is due or later than the thread was   *)
(* busy, and the timer of TCP is entered while there are connections.      *)
(***************************************************************************)
EXTENDS Timers, FiniteSetTheorems, WellFoundedInduction, TLAPS

-----------------------------------------------------------------------------
(* Lists of differences.  There is no induction here: what holds of every  *)
(* entry is shown by looking at the first one of which it would not hold.  *)

LEMMA Least ==
    ASSUME NEW S \in SUBSET Nat, S # {}
    PROVE  \E m \in S : \A k \in S : m <= k
<1> DEFINE R == OpToRel(<, Nat)
<1>1. IsWellFoundedOn(R, Nat)
  BY NatLessThanWellFounded
<1>2. \A a \in Nat, b \in Nat : a < b => <<a, b>> \in R
  BY DEF OpToRel
<1> HIDE DEF R
<1>3. \E m \in S : \A k \in S : ~(<<k, m>> \in R)
  BY <1>1, WFMin
<1>4. PICK m \in S : \A k \in S : ~(<<k, m>> \in R)
  BY <1>3
<1>5. ASSUME NEW k \in S PROVE m <= k
  <2>1. k \in Nat /\ m \in Nat /\ ~(k < m)
    BY <1>2, <1>4
  <2> QED
    BY <2>1
<1> QED
  BY <1>5

(* DueIn adds up the times of a list: whatever has them as its differences *)
(* is that sum.                                                            *)
LEMMA DueIsSum ==
    ASSUME NEW l, Len(l) \in Nat, NEW D, D[0] = 0,
           \A k \in 1..Len(l) : D[k] = D[k - 1] + l[k].time,
           NEW i \in 0..Len(l)
    PROVE  DueIn(l, i) = D[i]
<1> DEFINE IsSum(g) == g = [k \in 0..i |-> IF k = 0 THEN 0 ELSE g[k - 1] + l[k].time]
<1>1. IsSum([k \in 0..i |-> D[k]])
  OBVIOUS
<1>2. ASSUME NEW g, IsSum(g) PROVE g[i] = D[i]
  <2> DEFINE S == {k \in 0..i : g[k] # D[k]}
  <2>1. SUFFICES ASSUME S # {} PROVE FALSE
    OBVIOUS
  <2>2. S \in SUBSET Nat
    OBVIOUS
  <2>3. PICK m \in S : \A k \in S : m <= k
    BY <2>1, <2>2, Least
  <2>4. CASE m = 0
    BY <1>2, <2>3, <2>4
  <2>5. CASE m # 0
    <3>1. m - 1 \in 0..i /\ m \in 1..Len(l) /\ m \in 0..i /\ ~(m <= m - 1)
      BY <2>5
    <3>2. g[m - 1] = D[m - 1]
      BY <2>3, <3>1
    <3>3. g[m] = g[m - 1] + l[m].time
      BY <1>2, <3>1, <2>5
    <3>4. D[m] = D[m - 1] + l[m].time
      BY <3>1
    <3> QED
      BY <3>2, <3>3, <3>4
  <2> QED
    BY <2>4, <2>5
<1>3. IsSum(CHOOSE g : IsSum(g))
  <2> HIDE DEF IsSum
  <2> QED
    BY <1>1
<1>4. DueIn(l, i) = (CHOOSE g : IsSum(g))[i]
  BY DEF DueIn
<1> QED
  BY <1>2, <1>3, <1>4

(* An entry of the list, and the shape of the state.                       *)
Entry == [h : Handler, time : Nat]
Where == {"start", "again", "wait", "woken", "message", "handler"}

Shape ==
    /\ timeouts \in Seq(Entry) /\ pc \in Where /\ waited \in Nat
    /\ current \in Handler \cup {Nobody}
    /\ tcpip_tcp_timer_active \in BOOLEAN /\ pcbs \in BOOLEAN
    /\ left \in [Handler -> Int] /\ missed \in [Handler -> Nat]

(* A handler is entered once, and not while it runs.                       *)
Once ==
    /\ \A i, j \in 1..Len(timeouts) : timeouts[i].h = timeouts[j].h => i = j
    /\ pc = "handler" <=> current # Nobody
    /\ current # Nobody => ~InList(current)

(* Who waits does so for the first entry, and not longer than it says.     *)
Waits ==
    /\ pc \in {"wait", "woken"} => timeouts # <<>>
    /\ pc = "wait" => waited <= timeouts[1].time
    /\ pc \notin {"wait", "woken"} => waited = 0

(* When the i-th entry is due, counted from the beginning of the wait and  *)
(* in ticks the list sees.                                                 *)
Due(i) == IF i = 0 THEN 0 ELSE left[timeouts[i].h] + missed[timeouts[i].h] + waited

(* Each entry holds the time from the one before it.                       *)
Gaps ==
    /\ \A i \in 1..Len(timeouts) : timeouts[i].time = Due(i) - Due(i - 1)
    /\ current # Nobody => left[current] + missed[current] = 0

TcpKnown ==
    /\ InList(Tcp) \/ current = Tcp => tcpip_tcp_timer_active
    /\ pcbs => tcpip_tcp_timer_active

IInv == Shape /\ Once /\ Waits /\ Gaps /\ TcpKnown

(* The place of a new entry: behind exactly those that are not due later.  *)
LEMMA PlaceSplits ==
    ASSUME NEW l \in Seq(Entry), NEW t \in Nat, NEW D, D[0] = 0,
           \A k \in 1..Len(l) : D[k] \in Int /\ D[k] = D[k - 1] + l[k].time
    PROVE  /\ Place(l, t) \in 0..Len(l)
           /\ D[Place(l, t)] <= t /\ DueIn(l, Place(l, t)) = D[Place(l, t)]
           /\ Place(l, t) < Len(l) => /\ D[Place(l, t) + 1] > t
                                      /\ DueIn(l, Place(l, t) + 1) = D[Place(l, t) + 1]
<1> DEFINE n == Len(l)
           Later == {k \in 1..n : D[k] > t}
<1>1. n \in Nat /\ \A k \in 0..n : D[k] \in Int
  OBVIOUS
<1>2. \A k \in 1..n : l[k].time \in Nat /\ D[k] = D[k - 1] + l[k].time
  <2>1. \A k \in 1..n : l[k] \in Entry
    OBVIOUS
  <2> QED
    BY <2>1 DEF Entry
<1>3. \A k \in 0..n : DueIn(l, k) = D[k]
  BY <1>1, <1>2, DueIsSum
<1>4. \E p \in 0..n : \A k \in 1..n : D[k] <= t <=> k <= p
  <2>1. CASE Later = {}
    <3>1. ASSUME NEW k \in 1..n PROVE D[k] <= t /\ k <= n
      <4>1. ~(D[k] > t) /\ D[k] \in Int
        BY <1>1, <2>1
      <4> QED
        BY <1>1, <4>1
    <3>2. n \in 0..n
      BY <1>1
    <3> QED
      BY <3>1, <3>2
  <2>2. CASE Later # {}
    <3>1. Later \in SUBSET Nat
      OBVIOUS
    <3>2. PICK m \in Later : \A k \in Later : m <= k
      BY <2>2, <3>1, Least
    <3>3. m \in 1..n /\ D[m] > t /\ m - 1 \in 0..n
      BY <1>1, <3>2
    <3> DEFINE Early == {k \in 1..n : k >= m /\ D[k] <= t}
    <3>4. Early = {}
      <4>1. SUFFICES ASSUME Early # {} PROVE FALSE
        OBVIOUS
      <4>2. Early \in SUBSET Nat
        OBVIOUS
      <4>3. PICK e \in Early : \A k \in Early : e <= k
        BY <4>1, <4>2, Least
      <4>4. e \in 1..n /\ e >= m /\ D[e] <= t /\ e # m
        BY <1>1, <3>3
      <4>5. e - 1 \in 1..n /\ e - 1 >= m /\ ~(e <= e - 1)
        BY <1>1, <3>3, <4>4
      <4>6. e - 1 \notin Early
        BY <4>3, <4>5
      <4>7. ~(D[e - 1] <= t) /\ D[e - 1] \in Int
        BY <1>1, <4>5, <4>6
      <4>8. D[e] = D[e - 1] + l[e].time /\ l[e].time \in Nat
        BY <1>2, <4>4
      <4> QED
        BY <4>4, <4>7, <4>8
    <3>5. ASSUME NEW k \in 1..n PROVE D[k] <= t <=> k <= m - 1
      <4>1. CASE k <= m - 1
        <5>1. ~(m <= k)
          BY <3>3, <4>1
        <5>2. ~(D[k] > t)
          BY <3>2, <5>1
        <5> QED
          BY <1>1, <4>1, <5>2
      <4>2. CASE ~(k <= m - 1)
        <5>1. k >= m
          BY <3>3, <4>2
        <5>2. ~(D[k] <= t)
          BY <3>4, <5>1
        <5> QED
          BY <4>2, <5>2
      <4> QED
        BY <4>1, <4>2
    <3> QED
      BY <3>3, <3>5
  <2> QED
    BY <2>1, <2>2
<1>5. PICK p \in 0..n : \A k \in 1..n : D[k] <= t <=> k <= p
  BY <1>4
<1>6. {i \in 1..n : DueIn(l, i) <= t} = 1..p
  <2>1. \A i \in 1..n : DueIn(l, i) <= t <=> i <= p
    BY <1>1, <1>3, <1>5
  <2>2. p \in Nat /\ p <= n
    BY <1>1, <1>5
  <2> QED
    BY <1>1, <2>1, <2>2
<1>7. Place(l, t) = p
  <2>1. p \in Int /\ p >= 0 /\ Cardinality(1..p) = p
    BY <1>1, FS_Interval
  <2> QED
    BY <1>6, <2>1 DEF Place
<1>8. D[p] <= t
  <2>1. CASE p = 0
    BY <2>1
  <2>2. CASE p # 0
    BY <1>1, <1>5, <2>2
  <2> QED
    BY <2>1, <2>2
<1>9. p < n => D[p + 1] > t /\ p + 1 \in 0..n
  BY <1>1, <1>5
<1> QED
  BY <1>1, <1>3, <1>7, <1>8, <1>9

(* Entering a timer makes it due after its interval and leaves the others  *)
(* where they were.                                                        *)
PlacedAt(p, e, l, h, t, D) ==
    /\ e \in Seq(Entry) /\ Len(e) = Len(l) + 1
    /\ \A i \in 1..p : e[i] = l[i]
    /\ e[p + 1] = [h |-> h, time |-> t - D[p]]
    /\ p < Len(l) => e[p + 2] = [h |-> l[p + 1].h, time |-> D[p + 1] - t]
    /\ \A i \in (p + 3)..(Len(l) + 1) : e[i] = l[i - 1]

LEMMA EnteredList ==
    ASSUME NEW l \in Seq(Entry), NEW t \in Nat, NEW h \in Handler, NEW D, D[0] = 0,
           \A k \in 1..Len(l) : D[k] \in Int /\ D[k] = D[k - 1] + l[k].time,
           NEW e, e = Entered(l, h, t)
    PROVE  \E p \in 0..Len(l) : PlacedAt(p, e, l, h, t, D)
<1> DEFINE n == Len(l)
           p == Place(l, t)
<1>1. n \in Nat /\ \A k \in 0..n : D[k] \in Int
  OBVIOUS
<1>2. /\ p \in 0..n /\ D[p] <= t /\ DueIn(l, p) = D[p]
      /\ p < n => D[p + 1] > t /\ DueIn(l, p + 1) = D[p + 1]
  BY PlaceSplits
<1>3. e = [i \in 1..(n + 1) |->
             IF i <= p THEN l[i]
             ELSE IF i = p + 1 THEN [h |-> h, time |-> t - DueIn(l, p)]
             ELSE IF i = p + 2 THEN [h |-> l[p + 1].h, time |-> DueIn(l, p + 1) - t]
             ELSE l[i - 1]]
  BY DEF Entered
<1> HIDE DEF p
<1>4. \A k \in 1..n : l[k] \in Entry
  OBVIOUS
<1>5. \A i \in 1..p : i \in 1..(n + 1) /\ e[i] = l[i]
  BY <1>1, <1>2, <1>3
<1>6. p + 1 \in 1..(n + 1) /\ e[p + 1] = [h |-> h, time |-> t - D[p]]
  <2>1. p + 1 \in 1..(n + 1) /\ ~(p + 1 <= p)
    BY <1>1, <1>2
  <2> QED
    BY <1>2, <1>3, <2>1
<1>7. ASSUME p < n
      PROVE  e[p + 2] = [h |-> l[p + 1].h, time |-> D[p + 1] - t] /\ p + 1 \in 1..n
  <2>1. p + 2 \in 1..(n + 1) /\ ~(p + 2 <= p) /\ p + 2 # p + 1 /\ p + 1 \in 1..n
    BY <1>1, <1>2, <1>7
  <2> QED
    BY <1>2, <1>3, <1>7, <2>1
<1>8. \A i \in (p + 3)..(n + 1) : e[i] = l[i - 1] /\ i - 1 \in 1..n
  <2>1. \A i \in (p + 3)..(n + 1) : i \in 1..(n + 1) /\ ~(i <= p) /\ i # p + 1 /\ i # p + 2
                                    /\ i - 1 \in 1..n
    BY <1>1, <1>2
  <2> QED
    BY <1>3, <2>1
<1>9. \A i \in 1..(n + 1) : e[i] \in Entry
  <2>1. SUFFICES ASSUME NEW i \in 1..(n + 1) PROVE e[i] \in Entry
    OBVIOUS
  <2>2. i \in 1..p \/ i = p + 1 \/ (i = p + 2 /\ p < n) \/ i \in (p + 3)..(n + 1)
    BY <1>1, <1>2
  <2>3. CASE i \in 1..p
    <3>1. i \in 1..n
      BY <1>1, <1>2, <2>3
    <3> QED
      BY <1>4, <1>5, <2>3, <3>1
  <2>4. CASE i = p + 1
    <3>1. t - D[p] \in Nat
      BY <1>1, <1>2
    <3> QED
      BY <1>6, <2>4, <3>1 DEF Entry
  <2>5. CASE i = p + 2 /\ p < n
    <3>1. p + 1 \in 1..n /\ p + 1 \in 0..n
      BY <1>1, <1>2, <2>5
    <3>2. D[p + 1] - t \in Nat /\ l[p + 1] \in Entry
      BY <1>1, <1>2, <1>4, <2>5, <3>1
    <3> QED
      BY <1>7, <2>5, <3>2 DEF Entry
  <2>6. CASE i \in (p + 3)..(n + 1)
    BY <1>4, <1>8, <2>6
  <2> QED
    BY <2>2, <2>3, <2>4, <2>5, <2>6
<1>10. e \in Seq(Entry) /\ Len(e) = n + 1
  <2>1. e \in [1..(n + 1) -> Entry] /\ n + 1 \in Nat
    BY <1>1, <1>3, <1>9
  <2>2. n + 1 = Len(e)
    <3> HIDE DEF n
    <3> QED
      BY <1>1, <2>1
  <2> HIDE DEF n
  <2> QED
    BY <2>1, <2>2
<1> QED
  BY <1>2, <1>5, <1>6, <1>7, <1>8, <1>10 DEF PlacedAt

-----------------------------------------------------------------------------
(* What the entries of the list are due at.                                *)
DueAt == [i \in 0..Len(timeouts) |-> Due(i)]

LEMMA DueFacts ==
    ASSUME Shape, Gaps
    PROVE  /\ DueAt[0] = 0 /\ \A i \in 0..Len(timeouts) : DueAt[i] = Due(i) /\ Due(i) \in Int
           /\ \A i \in 1..Len(timeouts) : /\ DueAt[i] \in Int
                                          /\ DueAt[i] = DueAt[i - 1] + timeouts[i].time
                                          /\ timeouts[i] \in Entry
<1>1. Len(timeouts) \in Nat /\ \A i \in 1..Len(timeouts) : timeouts[i] \in Entry
  BY DEF Shape
<1>2. ASSUME NEW i \in 0..Len(timeouts) PROVE Due(i) \in Int
  <2>1. CASE i = 0
    BY <2>1 DEF Due
  <2>2. CASE i # 0
    <3>1. timeouts[i].h \in Handler
      BY <1>1, <2>2 DEF Entry
    <3>2. left[timeouts[i].h] \in Int /\ missed[timeouts[i].h] \in Nat /\ waited \in Nat
      BY <3>1 DEF Shape
    <3> QED
      BY <2>2, <3>2 DEF Due
  <2> QED
    BY <2>1, <2>2
<1>3. \A i \in 0..Len(timeouts) : DueAt[i] = Due(i)
  BY DEF DueAt
<1>4. ASSUME NEW i \in 1..Len(timeouts)
      PROVE  DueAt[i] \in Int /\ DueAt[i] = DueAt[i - 1] + timeouts[i].time
  <2>1. i \in 0..Len(timeouts) /\ i - 1 \in 0..Len(timeouts)
    BY <1>1
  <2>2. timeouts[i].time = Due(i) - Due(i - 1) /\ Due(i) \in Int /\ Due(i - 1) \in Int
    BY <1>2, <2>1 DEF Gaps
  <2> QED
    BY <1>3, <2>1, <2>2
<1>5. DueAt[0] = 0
  BY <1>1, <1>3 DEF Due
<1> QED
  BY <1>1, <1>2, <1>3, <1>4, <1>5

(* sys_timeout of a handler that is not in the list.                       *)
LEMMA TimerEntered ==
    ASSUME Shape, Once, Gaps, waited = 0, waited' = 0, NEW h \in Handler, ~InList(h),
           sys_timeout(h)
    PROVE  /\ timeouts' \in Seq(Entry)
           /\ left' \in [Handler -> Int] /\ missed' \in [Handler -> Nat]
           /\ \A i, j \in 1..Len(timeouts') : timeouts'[i].h = timeouts'[j].h => i = j
           /\ \A i \in 1..Len(timeouts') : timeouts'[i].time = Due(i)' - Due(i - 1)'
           /\ \A g \in Handler \ {h} : InList(g)' <=> InList(g)
           /\ Len(timeouts) < MEMP_NUM_SYS_TIMEOUT => InList(h)'
<1> DEFINE n == Len(timeouts)
           t == Interval[h]
           e == timeouts'
           D == DueAt
<1>0. n \in Nat /\ t \in Nat /\ timeouts \in Seq(Entry) /\ MEMP_NUM_SYS_TIMEOUT \in Nat
  BY TimersAssumption DEF Shape
<1>1. CASE ~(n < MEMP_NUM_SYS_TIMEOUT)
  <2>1. timeouts' = timeouts /\ left' = left /\ missed' = missed
    BY <1>1 DEF sys_timeout
  <2>2. \A i \in 0..n : Due(i)' = Due(i)
    BY <2>1 DEF Due
  <2>3. ASSUME NEW i \in 1..Len(timeouts') PROVE timeouts'[i].time = Due(i)' - Due(i - 1)'
    <3>1. i \in 1..n /\ i \in 0..n /\ i - 1 \in 0..n
      BY <1>0, <2>1
    <3> QED
      BY <2>1, <2>2, <3>1 DEF Gaps
  <2> QED
    BY <1>1, <2>1, <2>3 DEF Shape, Once, InList
<1>2. CASE n < MEMP_NUM_SYS_TIMEOUT
  <2>1. /\ e = Entered(timeouts, h, t)
        /\ left' = [left EXCEPT ![h] = t] /\ missed' = [missed EXCEPT ![h] = 0]
    BY <1>2 DEF sys_timeout
  <2>2. /\ D[0] = 0 /\ \A i \in 0..n : D[i] = Due(i) /\ D[i] \in Int
        /\ \A i \in 1..n : D[i] \in Int /\ D[i] = D[i - 1] + timeouts[i].time
    BY DueFacts
  <2>3. \A i \in 1..n : timeouts[i].h # h /\ timeouts[i].h \in Handler
    BY DueFacts DEF InList, Entry
  <2> HIDE DEF D
  <2>4. PICK p \in 0..n :
          /\ e \in Seq(Entry) /\ Len(e) = n + 1
          /\ \A i \in 1..p : e[i] = timeouts[i]
          /\ e[p + 1] = [h |-> h, time |-> t - D[p]]
          /\ p < n => e[p + 2] = [h |-> timeouts[p + 1].h, time |-> D[p + 1] - t]
          /\ \A i \in (p + 3)..(n + 1) : e[i] = timeouts[i - 1]
    <3>1. \E q \in 0..Len(timeouts) : PlacedAt(q, e, timeouts, h, t, D)
      <4> HIDE DEF e, t
      <4> QED
        BY <1>0, <2>1, <2>2, EnteredList DEF n
    <3> QED
      BY <3>1 DEF PlacedAt
  <2> HIDE DEF e, n, t
  <2>5. left' \in [Handler -> Int] /\ missed' \in [Handler -> Nat]
        /\ left'[h] = t /\ missed'[h] = 0
        /\ \A g \in Handler \ {h} : left'[g] = left[g] /\ missed'[g] = missed[g]
    BY <1>0, <2>1 DEF Shape
  <2> DEFINE Old(i) == IF i <= p THEN i ELSE i - 1
  <2>6. p \in Nat /\ p <= n /\ p + 1 \in 1..(n + 1)
    BY <1>0, <2>4
  <2>7. ASSUME NEW i \in 1..(n + 1), i # p + 1
        PROVE  Old(i) \in 1..n /\ e[i].h = timeouts[Old(i)].h
    <3>1. CASE i <= p
      <4>1. i \in 1..p /\ i \in 1..n
        BY <1>0, <2>6, <3>1
      <4> QED
        BY <2>4, <3>1, <4>1
    <3>2. CASE ~(i <= p)
      <4>1. i - 1 \in 1..n /\ ((i = p + 2 /\ p < n /\ i - 1 = p + 1) \/ i \in (p + 3)..(n + 1))
        BY <1>0, <2>6, <2>7, <3>2
      <4> QED
        BY <2>4, <3>2, <4>1
    <3> QED
      BY <3>1, <3>2
  <2>8. e[p + 1].h = h
    BY <2>4
  <2>9. \A i, j \in 1..(n + 1) : e[i].h = e[j].h => i = j
    <3>1. SUFFICES ASSUME NEW i \in 1..(n + 1), NEW j \in 1..(n + 1), e[i].h = e[j].h
                   PROVE  i = j
      OBVIOUS
    <3>2. CASE i # p + 1 /\ j # p + 1
      <4>1. Old(i) \in 1..n /\ Old(j) \in 1..n /\ timeouts[Old(i)].h = timeouts[Old(j)].h
        BY <2>7, <3>1, <3>2
      <4>2. Old(i) = Old(j)
        BY <4>1 DEF Once, n
      <4> QED
        BY <1>0, <2>6, <3>2, <4>2
    <3>3. CASE i = p + 1 \/ j = p + 1
      <4>1. ASSUME NEW k \in 1..(n + 1), k # p + 1 PROVE e[k].h # h
        BY <2>3, <2>7, <4>1
      <4> QED
        BY <2>8, <3>1, <3>3, <4>1
    <3> QED
      BY <3>2, <3>3
  <2> DEFINE DD(i) == IF i <= p THEN D[i] ELSE IF i = p + 1 THEN t ELSE D[i - 1]
  <2>10. ASSUME NEW i \in 0..(n + 1) PROVE Due(i)' = DD(i)
    <3>1. Due(i)' = IF i = 0 THEN 0 ELSE left'[e[i].h] + missed'[e[i].h] + 0
      BY DEF Due, e
    <3>2. CASE i = 0
      BY <2>2, <2>6, <3>1, <3>2
    <3>3. CASE i = p + 1
      <4>1. left'[e[i].h] = t /\ missed'[e[i].h] = 0 /\ i # 0 /\ ~(i <= p)
        BY <2>5, <2>6, <2>8, <3>3
      <4> QED
        BY <1>0, <3>1, <3>3, <4>1
    <3>4. CASE i # 0 /\ i # p + 1
      <4>1. i \in 1..(n + 1)
        BY <1>0, <3>4
      <4>2. Old(i) \in 1..n /\ e[i].h = timeouts[Old(i)].h
        BY <2>7, <3>4, <4>1
      <4>3. /\ timeouts[Old(i)].h \in Handler \ {h}
            /\ left'[e[i].h] = left[timeouts[Old(i)].h]
            /\ missed'[e[i].h] = missed[timeouts[Old(i)].h]
        BY <2>3, <2>5, <4>2
      <4>4. D[Old(i)] = left[timeouts[Old(i)].h] + missed[timeouts[Old(i)].h] + 0
        <5>1. Old(i) \in 0..n /\ Old(i) # 0
          BY <1>0, <4>2
        <5>2. D[Old(i)] = Due(Old(i))
          BY <2>2, <5>1 DEF n
        <5> HIDE DEF Old
        <5> QED
          BY <5>1, <5>2 DEF Due
      <4>5. DD(i) = D[Old(i)]
        BY <3>4
      <4> QED
        BY <3>1, <3>4, <4>3, <4>4, <4>5
    <3> QED
      BY <3>2, <3>3, <3>4
  <2>11. ASSUME NEW i \in 1..(n + 1) PROVE e[i].time = DD(i) - DD(i - 1)
    <3>1. i \in 1..p \/ i = p + 1 \/ (i = p + 2 /\ p < n) \/ i \in (p + 3)..(n + 1)
      BY <1>0, <2>6
    <3>2. \A k \in 1..n : timeouts[k].time = D[k] - D[k - 1]
      <4>1. SUFFICES ASSUME NEW k \in 1..n PROVE timeouts[k].time = D[k] - D[k - 1]
        OBVIOUS
      <4>2. k \in 0..n /\ k - 1 \in 0..n
        BY <1>0
      <4>3. D[k] = Due(k) /\ D[k - 1] = Due(k - 1)
        BY <2>2, <4>2 DEF n
      <4> QED
        BY <4>3 DEF Gaps, n
    <3>3. CASE i \in 1..p
      <4>1. i \in 1..n /\ i <= p /\ i - 1 <= p
        BY <1>0, <2>6, <3>3
      <4>2. DD(i) = D[i] /\ DD(i - 1) = D[i - 1]
        BY <4>1
      <4>3. e[i].time = D[i] - D[i - 1]
        BY <2>4, <3>2, <3>3, <4>1
      <4> QED
        BY <4>2, <4>3
    <3>4. CASE i = p + 1
      <4>1. DD(i) = t /\ DD(i - 1) = D[p]
        BY <2>6, <3>4
      <4> QED
        BY <2>4, <3>4, <4>1
    <3>5. CASE i = p + 2 /\ p < n
      <4>1. DD(i) = D[p + 1] /\ DD(i - 1) = t
        BY <2>6, <3>5
      <4> QED
        BY <2>4, <3>5, <4>1
    <3>6. CASE i \in (p + 3)..(n + 1)
      <4>1. i - 1 \in 1..n /\ ~(i <= p) /\ i # p + 1 /\ ~(i - 1 <= p) /\ i - 1 # p + 1
        BY <1>0, <2>6, <3>6
      <4>2. DD(i) = D[i - 1] /\ DD(i - 1) = D[(i - 1) - 1]
        BY <4>1
      <4>3. e[i].time = D[i - 1] - D[(i - 1) - 1]
        BY <2>4, <3>2, <3>6, <4>1
      <4> QED
        BY <4>2, <4>3
    <3> QED
      BY <3>1, <3>3, <3>4, <3>5, <3>6
  <2>12. ASSUME NEW i \in 1..Len(e) PROVE e[i].time = Due(i)' - Due(i - 1)'
    <3>1. i \in 1..(n + 1) /\ i \in 0..(n + 1) /\ i - 1 \in 0..(n + 1)
      BY <1>0, <2>4
    <3> HIDE DEF DD
    <3> QED
      BY <2>10, <2>11, <3>1
  <2>13. ASSUME NEW g \in Handler \ {h} PROVE InList(g)' <=> InList(g)
    <3>1. InList(g)' <=> \E i \in 1..(n + 1) : e[i].h = g
      BY <2>4 DEF InList, e
    <3>2. InList(g) <=> \E i \in 1..n : timeouts[i].h = g
      BY DEF InList, n
    <3>3. ASSUME NEW i \in 1..(n + 1), e[i].h = g PROVE \E k \in 1..n : timeouts[k].h = g
      BY <2>7, <2>8, <3>3
    <3>4. ASSUME NEW k \in 1..n, timeouts[k].h = g PROVE \E i \in 1..(n + 1) : e[i].h = g
      <4> DEFINE i == IF k <= p THEN k ELSE k + 1
      <4>1. i \in 1..(n + 1) /\ i # p + 1 /\ Old(i) = k
        BY <1>0, <2>6
      <4> HIDE DEF i
      <4>2. e[i].h = timeouts[k].h
        BY <2>7, <4>1
      <4> QED
        BY <3>4, <4>1, <4>2
    <3> QED
      BY <3>1, <3>2, <3>3, <3>4
  <2>14. InList(h)'
    <3>1. p + 1 \in 1..Len(e)
      BY <2>4, <2>6
    <3> QED
      BY <2>8, <3>1 DEF InList, e
  <2> QED
    BY <2>4, <2>5, <2>9, <2>12, <2>13, <2>14 DEF e
<1> QED
  BY <1>1, <1>2 DEF n

-----------------------------------------------------------------------------
(* The invariant: every step keeps it.                                     *)

LEMMA InitIInv == Init => IInv
<1> SUFFICES ASSUME Init PROVE IInv
  OBVIOUS
<1>1. Shape
  <2>1. timeouts \in Seq(Entry) /\ pc \in Where /\ waited \in Nat
    BY DEF Init, Where
  <2>2. left \in [Handler -> Int] /\ missed \in [Handler -> Nat]
    BY DEF Init
  <2>3. current = Nobody /\ tcpip_tcp_timer_active \in BOOLEAN /\ pcbs \in BOOLEAN
    BY DEF Init
  <2> QED
    BY <2>1, <2>2, <2>3 DEF Shape
<1>2. Once /\ Waits /\ Gaps /\ TcpKnown
  BY TimersAssumption DEF Init, Once, Waits, Gaps, TcpKnown, InList, Handler
<1> QED
  BY <1>1, <1>2 DEF IInv

(* Only the ticks of the listed handlers are counted, between `waited',    *)
(* `left' and `missed': what an entry is due at stays.                     *)
LEMMA SameGaps ==
    ASSUME IInv, timeouts' = timeouts,
           \A g \in Handler : InList(g) =>
             left'[g] + missed'[g] + waited' = left[g] + missed[g] + waited
    PROVE  \A i \in 1..Len(timeouts') : timeouts'[i].time = Due(i)' - Due(i - 1)'
<1>1. Len(timeouts) \in Nat
  BY DEF IInv, Shape
<1>2. ASSUME NEW i \in 0..Len(timeouts) PROVE Due(i)' = Due(i)
  <2>1. CASE i = 0
    BY <2>1 DEF Due
  <2>2. CASE i # 0
    <3>1. i \in 1..Len(timeouts)
      BY <2>2
    <3>2. timeouts[i].h \in Handler /\ InList(timeouts[i].h)
      BY <3>1, DueFacts DEF IInv, Entry, InList
    <3> QED
      BY <2>2, <3>2 DEF Due
  <2> QED
    BY <2>1, <2>2
<1>3. ASSUME NEW i \in 1..Len(timeouts) PROVE timeouts[i].time = Due(i)' - Due(i - 1)'
  <2>1. i \in 0..Len(timeouts) /\ i - 1 \in 0..Len(timeouts)
    BY <1>1
  <2> QED
    BY <1>2, <2>1 DEF IInv, Gaps
<1> QED
  BY <1>3

LEMMA FirstEntry ==
    ASSUME IInv, timeouts # <<>>
    PROVE  /\ 1 \in 1..Len(timeouts) /\ timeouts[1].time \in Nat /\ timeouts[1].h \in Handler
           /\ timeouts[1].time = left[timeouts[1].h] + missed[timeouts[1].h] + waited
<1>1. 1 \in 1..Len(timeouts)
  BY DEF IInv, Shape
<1>2. timeouts[1] \in Entry
  BY <1>1 DEF IInv, Shape
<1>3. timeouts[1].time = Due(1) - Due(0) /\ Due(0) = 0 /\ Due(1) \in Int
  BY <1>1, DueFacts DEF IInv, Gaps, Due
<1> QED
  BY <1>1, <1>2, <1>3 DEF Due, Entry

LEMMA TickSeenIInv ==
    ASSUME IInv, TickSeen
    PROVE  IInv'
<1>1. /\ pc \in {"wait", "woken"} /\ timeouts # <<>> /\ current = Nobody
      /\ waited' = waited + 1 /\ pc' = pc /\ timeouts' = timeouts /\ current' = current
      /\ left' = [h \in Handler |-> IF InList(h) THEN left[h] - 1 ELSE left[h]]
      /\ UNCHANGED <<tcpip_tcp_timer_active, pcbs, missed>>
      /\ pc = "wait" => waited < timeouts[1].time
  BY DEF TickSeen, IInv, Once, Waits
<1>2. waited \in Nat /\ left \in [Handler -> Int] /\ missed \in [Handler -> Nat]
      /\ timeouts[1].time \in Nat
  BY <1>1, FirstEntry DEF IInv, Shape
<1>3. Shape'
  BY <1>1, <1>2 DEF IInv, Shape
<1>4. Waits'
  BY <1>1, <1>2 DEF IInv, Waits
<1>5. \A g \in Handler : InList(g) =>
        left'[g] + missed'[g] + waited' = left[g] + missed[g] + waited
  BY <1>1, <1>2
<1>6. Gaps'
  BY <1>1, <1>5, SameGaps DEF Gaps
<1>7. Once' /\ TcpKnown'
  BY <1>1 DEF IInv, Once, TcpKnown, InList
<1> QED
  BY <1>3, <1>4, <1>6, <1>7 DEF IInv

LEMMA TickMissedIInv ==
    ASSUME IInv, TickMissed
    PROVE  IInv'
<1>1. /\ left' = [h \in Handler |-> IF InList(h) THEN left[h] - 1 ELSE left[h]]
      /\ missed' = [h \in Handler |-> IF InList(h) THEN missed[h] + 1 ELSE missed[h]]
      /\ UNCHANGED <<timeouts, pc, waited, current, tcpip_tcp_timer_active, pcbs>>
  BY DEF TickMissed
<1>2. waited \in Nat /\ left \in [Handler -> Int] /\ missed \in [Handler -> Nat]
  BY DEF IInv, Shape
<1>3. Shape'
  BY <1>1, <1>2 DEF IInv, Shape
<1>4. Waits' /\ Once' /\ TcpKnown'
  BY <1>1 DEF IInv, Waits, Once, TcpKnown, InList
<1>5. \A g \in Handler : InList(g) =>
        left'[g] + missed'[g] + waited' = left[g] + missed[g] + waited
  BY <1>1, <1>2
<1>6. current # Nobody => left'[current'] + missed'[current'] = 0
  <2>1. SUFFICES ASSUME current # Nobody PROVE left'[current] + missed'[current] = 0
    BY <1>1
  <2>2. current \in Handler /\ ~InList(current) /\ left[current] + missed[current] = 0
    BY <2>1 DEF IInv, Shape, Once, Gaps
  <2> QED
    BY <1>1, <2>2
<1>7. Gaps'
  BY <1>1, <1>5, <1>6, SameGaps DEF Gaps
<1> QED
  BY <1>3, <1>4, <1>7 DEF IInv

(* Steps that leave the list and the clock alone.                          *)
LEMMA SameList ==
    ASSUME IInv, UNCHANGED <<timeouts, left, missed, waited>>
    PROVE  \A i \in 1..Len(timeouts') : timeouts'[i].time = Due(i)' - Due(i - 1)'
  BY SameGaps

LEMMA QuietIInv ==
    ASSUME IInv, Wait \/ Message \/ NetworkTaskEnds \/ UNCHANGED vars
    PROVE  IInv'
<1>1. /\ UNCHANGED <<timeouts, left, missed, current, tcpip_tcp_timer_active>>
      /\ waited' = waited /\ (pcbs' = pcbs \/ pcbs' = FALSE)
      /\ pc' \in Where /\ (pc' = "handler" <=> pc = "handler")
  BY DEF Wait, Message, NetworkTaskEnds, vars, IInv, Shape, Waits, Where
<1>2. Shape' /\ Once' /\ TcpKnown'
  <2>1. Shape'
    BY <1>1 DEF IInv, Shape
  <2>2. Once'
    BY <1>1 DEF IInv, Once, InList
  <2>3. TcpKnown'
    BY <1>1 DEF IInv, Shape, TcpKnown, InList
  <2> QED
    BY <2>1, <2>2, <2>3
<1>3. Gaps'
  BY <1>1, SameList DEF IInv, Gaps
<1>4. Waits'
  <2>1. CASE Wait
    <3>1. /\ pc' = "wait" /\ waited' = 0 /\ timeouts' = timeouts /\ timeouts # <<>>
          /\ timeouts[1].time > 0
      BY <2>1 DEF Wait
    <3>2. timeouts[1].time \in Nat
      BY <3>1, FirstEntry
    <3> QED
      BY <3>1, <3>2 DEF Waits
  <2>2. CASE Message
    BY <2>2 DEF IInv, Waits, Message
  <2>3. CASE NetworkTaskEnds \/ UNCHANGED vars
    BY <2>3 DEF IInv, Waits, NetworkTaskEnds, vars
  <2> QED
    BY <2>1, <2>2, <2>3
<1> QED
  BY <1>2, <1>3, <1>4 DEF IInv

LEMMA ExpireIInv ==
    ASSUME IInv, Expire
    PROVE  IInv'
<1> DEFINE n == Len(timeouts)
           h == timeouts[1].h
<1>1. /\ timeouts # <<>> /\ current' = h /\ timeouts' = Tail(timeouts) /\ pc' = "handler"
      /\ waited' = 0 /\ UNCHANGED <<tcpip_tcp_timer_active, pcbs, left, missed>>
  BY DEF Expire
<1>2. waited = timeouts[1].time
  BY DEF Expire, IInv, Waits
<1>3. /\ 1 \in 1..n /\ h \in Handler /\ timeouts[1].time \in Nat
      /\ timeouts[1].time = left[h] + missed[h] + waited
  BY <1>1, FirstEntry
<1>4. left[h] \in Int /\ missed[h] \in Nat
  BY <1>3 DEF IInv, Shape
<1>5. left[h] + missed[h] = 0
  BY <1>2, <1>3, <1>4
<1>6. /\ n \in Nat /\ Len(timeouts') = n - 1 /\ n - 1 \in Nat /\ timeouts' \in Seq(Entry)
      /\ \A i \in 1..(n - 1) : timeouts'[i] = timeouts[i + 1] /\ i + 1 \in 1..n
  BY <1>1 DEF IInv, Shape
<1> HIDE DEF n, h
<1>7. Shape'
  BY <1>1, <1>3, <1>6 DEF IInv, Shape, Where
<1>8. Once'
  <2>1. ASSUME NEW i \in 1..(n - 1), NEW j \in 1..(n - 1), timeouts'[i].h = timeouts'[j].h
        PROVE  i = j
    <3>1. i + 1 \in 1..n /\ j + 1 \in 1..n /\ timeouts[i + 1].h = timeouts[j + 1].h
      BY <1>6, <2>1
    <3>2. i + 1 = j + 1
      BY <3>1 DEF IInv, Once, n
    <3> QED
      BY <3>2
  <2>2. ASSUME NEW i \in 1..(n - 1) PROVE timeouts'[i].h # h
    <3>1. i + 1 \in 1..n /\ i + 1 # 1 /\ timeouts'[i].h = timeouts[i + 1].h
      BY <1>6
    <3>2. timeouts[i + 1].h # timeouts[1].h
      BY <1>3, <3>1 DEF IInv, Once, n
    <3> QED
      BY <3>1, <3>2 DEF h
  <2>3. ~InList(current)'
    BY <1>1, <1>6, <2>2 DEF InList
  <2>4. current' # Nobody
    BY <1>1, <1>3, TimersAssumption
  <2> QED
    BY <1>1, <1>6, <2>1, <2>3, <2>4 DEF Once
<1>9. Waits'
  BY <1>1 DEF Waits
<1>10. Gaps'
  <2>1. ASSUME NEW i \in 0..(n - 1) PROVE Due(i)' = Due(i + 1) - Due(1) /\ Due(i + 1) \in Int
    <3>1. i + 1 \in 0..n /\ 1 \in 0..n /\ i + 1 # 0
      BY <1>3, <1>6
    <3>2. Due(i + 1) \in Int /\ Due(1) \in Int
      BY <3>1, DueFacts DEF IInv, n
    <3>3. Due(1) = waited /\ waited \in Nat
      BY <1>2, <1>3 DEF Due, h
    <3>4. CASE i = 0
      BY <3>2, <3>3, <3>4 DEF Due
    <3>5. CASE i # 0
      <4>1. i \in 1..(n - 1)
        BY <1>6, <3>5
      <4>2. timeouts'[i] = timeouts[i + 1] /\ i + 1 \in 1..n
        BY <1>6, <4>1
      <4>3. timeouts[i + 1].h \in Handler
        BY <4>2, DueFacts DEF IInv, Entry, n
      <4>4. /\ left[timeouts[i + 1].h] \in Int /\ missed[timeouts[i + 1].h] \in Nat
            /\ Due(i)' = left[timeouts[i + 1].h] + missed[timeouts[i + 1].h] + 0
        BY <1>1, <3>5, <4>2, <4>3 DEF Due, IInv, Shape
      <4>5. Due(i + 1) = left[timeouts[i + 1].h] + missed[timeouts[i + 1].h] + waited
        BY <3>1 DEF Due
      <4> QED
        BY <3>2, <3>3, <4>4, <4>5
    <3> QED
      BY <3>4, <3>5
  <2>2. Due(1) \in Int
    BY <1>3, DueFacts DEF IInv, n
  <2>3. ASSUME NEW i \in 1..(n - 1) PROVE timeouts'[i].time = Due(i)' - Due(i - 1)'
    <3>1. i \in 0..(n - 1) /\ i - 1 \in 0..(n - 1) /\ (i - 1) + 1 = i /\ (i + 1) - 1 = i
      BY <1>6
    <3>2. timeouts'[i].time = Due(i + 1) - Due(i)
      <4>1. timeouts'[i] = timeouts[i + 1] /\ i + 1 \in 1..n
        BY <1>6
      <4>2. timeouts[i + 1].time = Due(i + 1) - Due((i + 1) - 1)
        BY <4>1 DEF IInv, Gaps, n
      <4> QED
        BY <3>1, <4>1, <4>2
    <3>3. /\ Due(i)' = Due(i + 1) - Due(1) /\ Due(i + 1) \in Int
          /\ Due(i - 1)' = Due((i - 1) + 1) - Due(1) /\ Due((i - 1) + 1) \in Int
      BY <2>1, <3>1
    <3>4. Due((i - 1) + 1) = Due(i)
      BY <3>1
    <3> QED
      BY <2>2, <3>2, <3>3, <3>4
  <2> QED
    BY <1>1, <1>5, <1>6, <2>3 DEF Gaps
<1>11. TcpKnown'
  <2>1. InList(Tcp)' \/ current' = Tcp => InList(Tcp)
    BY <1>1, <1>3, <1>6 DEF InList, n, h
  <2> QED
    BY <1>1, <2>1 DEF IInv, TcpKnown
<1> QED
  BY <1>7, <1>8, <1>9, <1>10, <1>11 DEF IInv

(* The wait is taken off the first entry; what exceeds its time is missed  *)
(* by all.                                                                 *)
LEMMA FetchedIInv ==
    ASSUME IInv, Fetched
    PROVE  IInv'
<1> DEFINE n == Len(timeouts)
           b == Beyond
           rest == IF waited < timeouts[1].time THEN timeouts[1].time - waited ELSE 0
<1>1. /\ pc = "woken" /\ timeouts # <<>> /\ pc' = "message" /\ waited' = 0
      /\ missed' = [h \in Handler |-> IF InList(h) THEN missed[h] + b ELSE missed[h]]
      /\ timeouts' = [timeouts EXCEPT ![1].time = rest]
      /\ UNCHANGED <<current, tcpip_tcp_timer_active, pcbs, left>>
  BY DEF Fetched, Spent, IInv, Waits
<1>2. 1 \in 1..n /\ timeouts[1].time \in Nat /\ waited \in Nat /\ timeouts \in Seq(Entry)
      /\ n \in Nat /\ current = Nobody
  BY <1>1, FirstEntry DEF IInv, Shape, Once
<1>3. rest \in Nat /\ b \in Nat /\ rest = timeouts[1].time - waited + b
  BY <1>2 DEF Beyond
<1> HIDE DEF b, rest, n
<1>4. /\ timeouts' \in Seq(Entry) /\ Len(timeouts') = n
      /\ \A i \in 1..n : timeouts'[i].h = timeouts[i].h
      /\ timeouts'[1].time = rest
      /\ \A i \in 1..n : i # 1 => timeouts'[i].time = timeouts[i].time
  <2>1. \A i \in 1..n : timeouts[i] \in Entry
    BY <1>2 DEF n
  <2>2. [timeouts[1] EXCEPT !.time = rest] \in Entry
        /\ [timeouts[1] EXCEPT !.time = rest].h = timeouts[1].h
        /\ [timeouts[1] EXCEPT !.time = rest].time = rest
    BY <1>2, <1>3, <2>1 DEF Entry
  <2>3. timeouts' = [timeouts EXCEPT ![1] = [timeouts[1] EXCEPT !.time = rest]]
    BY <1>1
  <2>4. timeouts'[1] = [timeouts[1] EXCEPT !.time = rest]
        /\ \A i \in 1..n : i # 1 => timeouts'[i] = timeouts[i]
    BY <1>2, <2>3 DEF n
  <2>5. timeouts' \in Seq(Entry) /\ Len(timeouts') = n
    BY <1>2, <2>2, <2>3 DEF n
  <2> QED
    BY <2>2, <2>4, <2>5
<1>5. \A g : InList(g)' <=> InList(g)
  BY <1>4 DEF InList, n
<1>6. missed' \in [Handler -> Nat]
  BY <1>1, <1>3 DEF IInv, Shape
<1>7. Shape'
  BY <1>1, <1>4, <1>6 DEF IInv, Shape, Where
<1>8. Once'
  BY <1>1, <1>2, <1>4 DEF IInv, Once, n
<1>9. Waits'
  BY <1>1 DEF Waits
<1>10. Gaps'
  <2>1. ASSUME NEW i \in 1..n PROVE Due(i)' = Due(i) - waited + b /\ Due(i) \in Int
    <3>1. timeouts[i].h \in Handler /\ InList(timeouts[i].h) /\ i # 0 /\ Due(i) \in Int
      BY <1>2, DueFacts DEF IInv, Entry, InList, n
    <3>2. left[timeouts[i].h] \in Int /\ missed[timeouts[i].h] \in Nat
      BY <3>1 DEF IInv, Shape
    <3>3. missed'[timeouts[i].h] = missed[timeouts[i].h] + b
      BY <1>1, <3>1
    <3>4. Due(i)' = left[timeouts[i].h] + (missed[timeouts[i].h] + b) + 0
      BY <1>1, <1>4, <3>1, <3>3 DEF Due
    <3>5. Due(i) = left[timeouts[i].h] + missed[timeouts[i].h] + waited
      BY <3>1 DEF Due
    <3> DEFINE x == left[timeouts[i].h]
               y == missed[timeouts[i].h]
    <3>6. x \in Int /\ y \in Int /\ b \in Int /\ waited \in Int
      BY <1>2, <1>3, <3>2
    <3>7. Due(i)' = x + (y + b) + 0 /\ Due(i) = x + y + waited
      BY <3>4, <3>5
    <3> HIDE DEF x, y
    <3>8. x + (y + b) + 0 = (x + y + waited) - waited + b
      BY <3>6
    <3> QED
      BY <3>1, <3>7, <3>8
  <2>2. ASSUME NEW i \in 1..n PROVE timeouts'[i].time = Due(i)' - Due(i - 1)'
    <3>1. timeouts[i].time = Due(i) - Due(i - 1)
      BY DEF IInv, Gaps, n
    <3>2. CASE i = 1
      <4>1. Due(0) = 0 /\ Due(0)' = 0 /\ i - 1 = 0
        BY <3>2 DEF Due
      <4> QED
        BY <1>2, <1>3, <1>4, <2>1, <3>1, <3>2, <4>1
    <3>3. CASE i # 1
      <4>1. i - 1 \in 1..n
        BY <1>2, <3>3
      <4>2. Due(i - 1)' = Due(i - 1) - waited + b /\ Due(i - 1) \in Int
        BY <2>1, <4>1
      <4> QED
        BY <1>2, <1>3, <1>4, <2>1, <3>1, <3>3, <4>2
    <3> QED
      BY <3>2, <3>3
  <2> QED
    BY <1>1, <1>2, <1>4, <2>2 DEF Gaps
<1>11. TcpKnown'
  BY <1>1, <1>5 DEF IInv, TcpKnown
<1> QED
  BY <1>7, <1>8, <1>9, <1>10, <1>11 DEF IInv

(* A step that enters the timer of h, if there is memory.                  *)
LEMMA EnterIInv ==
    ASSUME IInv, NEW h \in Handler, ~InList(h), sys_timeout(h), waited = 0, waited' = 0,
           pc' \in {"start", "again"}, current' = Nobody,
           tcpip_tcp_timer_active' \in BOOLEAN, pcbs' \in BOOLEAN,
           InList(Tcp) \/ h = Tcp \/ pcbs' => tcpip_tcp_timer_active'
    PROVE  IInv'
<1>1. /\ timeouts' \in Seq(Entry)
      /\ left' \in [Handler -> Int] /\ missed' \in [Handler -> Nat]
      /\ \A i, j \in 1..Len(timeouts') : timeouts'[i].h = timeouts'[j].h => i = j
      /\ \A i \in 1..Len(timeouts') : timeouts'[i].time = Due(i)' - Due(i - 1)'
      /\ \A g \in Handler \ {h} : InList(g)' <=> InList(g)
  BY TimerEntered DEF IInv
<1>2. Shape' /\ Waits'
  BY <1>1 DEF Shape, Waits, Where
<1>3. Once' /\ Gaps'
  BY <1>1 DEF Once, Gaps
<1>4. TcpKnown'
  <2>1. Tcp \in Handler /\ Tcp # Nobody
    BY TimersAssumption DEF Handler
  <2>2. InList(Tcp)' => InList(Tcp) \/ h = Tcp
    BY <1>1, <2>1
  <2> QED
    BY <2>1, <2>2 DEF TcpKnown
<1> QED
  BY <1>2, <1>3, <1>4 DEF IInv

LEMMA HandledIInv ==
    ASSUME IInv, NEW open \in BOOLEAN, Handled(open)
    PROVE  IInv'
<1>1. /\ pc = "message" /\ pc' = "again" /\ waited = 0 /\ waited' = 0
      /\ current = Nobody /\ current' = Nobody /\ pcbs' = open
  BY DEF Handled, IInv, Once, Waits
<1>2. CASE open /\ ~tcpip_tcp_timer_active
  <2>1. tcpip_tcp_timer_active' = TRUE /\ sys_timeout(Tcp)
    BY <1>2 DEF Handled
  <2>2. Tcp \in Handler /\ ~InList(Tcp)
    BY <1>2 DEF Handler, IInv, TcpKnown
  <2> QED
    BY <1>1, <2>1, <2>2, EnterIInv
<1>3. CASE ~(open /\ ~tcpip_tcp_timer_active)
  <2>1. UNCHANGED <<tcpip_tcp_timer_active, timeouts, left, missed>>
    BY <1>3 DEF Handled
  <2>2. Shape' /\ Once' /\ Waits'
    BY <1>1, <2>1 DEF IInv, Shape, Once, Waits, InList, Where
  <2>3. Gaps'
    BY <1>1, <2>1, SameList DEF Gaps
  <2>4. TcpKnown'
    BY <1>1, <1>3, <2>1 DEF IInv, TcpKnown, InList
  <2> QED
    BY <2>2, <2>3, <2>4 DEF IInv
<1> QED
  BY <1>2, <1>3

LEMMA CyclicIInv ==
    ASSUME IInv, CyclicTimer
    PROVE  IInv'
<1>1. /\ pc = "handler" /\ current \in Cyclic /\ sys_timeout(current)
      /\ pc' = "again" /\ current' = Nobody /\ waited = 0 /\ waited' = 0
      /\ UNCHANGED <<tcpip_tcp_timer_active, pcbs>>
  BY DEF CyclicTimer, IInv, Waits
<1>2. current \in Handler /\ ~InList(current) /\ current # Tcp
  BY <1>1, TimersAssumption DEF Handler, IInv, Once
<1>3. /\ tcpip_tcp_timer_active' \in BOOLEAN /\ pcbs' \in BOOLEAN
      /\ InList(Tcp) \/ current = Tcp \/ pcbs' => tcpip_tcp_timer_active'
  BY <1>1, <1>2 DEF IInv, Shape, TcpKnown
<1> QED
  BY <1>1, <1>2, <1>3, EnterIInv

LEMMA TcpTimerIInv ==
    ASSUME IInv, NEW open \in BOOLEAN, tcpip_tcp_timer(open)
    PROVE  IInv'
<1>1. /\ pc = "handler" /\ current = Tcp /\ pc' = "again" /\ current' = Nobody
      /\ waited = 0 /\ waited' = 0 /\ pcbs' = open
  BY DEF tcpip_tcp_timer, IInv, Waits
<1>2. current \in Handler /\ ~InList(Tcp) /\ tcpip_tcp_timer_active /\ current # Nobody
  BY <1>1, TimersAssumption DEF Handler, IInv, Once, TcpKnown
<1>3. CASE open
  <2>1. sys_timeout(Tcp) /\ UNCHANGED tcpip_tcp_timer_active
    BY <1>3 DEF tcpip_tcp_timer
  <2> QED
    BY <1>1, <1>2, <2>1, EnterIInv
<1>4. CASE ~open
  <2>1. tcpip_tcp_timer_active' = FALSE /\ UNCHANGED <<timeouts, left, missed>>
    BY <1>4 DEF tcpip_tcp_timer
  <2>2. Shape' /\ Once' /\ Waits'
    BY <1>1, <2>1 DEF IInv, Shape, Once, Waits, InList, Where
  <2>3. Gaps'
    BY <1>1, <2>1, SameList DEF Gaps
  <2>4. TcpKnown'
    BY <1>1, <1>2, <1>4, <2>1 DEF TcpKnown, InList
  <2> QED
    BY <2>2, <2>3, <2>4 DEF IInv
<1> QED
  BY <1>3, <1>4

LEMMA InitTimersIInv ==
    ASSUME IInv, sys_timeouts_init
    PROVE  IInv'
<1>1. /\ pc = "start" /\ current = Nobody /\ waited = 0
      /\ UNCHANGED <<waited, current, tcpip_tcp_timer_active, pcbs>>
  BY DEF sys_timeouts_init, IInv, Once, Waits
<1>2. CASE \A h \in Cyclic : InList(h)
  <2>1. pc' = "again" /\ UNCHANGED <<timeouts, left, missed>>
    BY <1>2 DEF sys_timeouts_init
  <2>2. Shape' /\ Once' /\ Waits' /\ TcpKnown'
    BY <1>1, <2>1 DEF IInv, Shape, Once, Waits, TcpKnown, InList, Where
  <2>3. Gaps'
    BY <1>1, <2>1, SameList DEF Gaps
  <2> QED
    BY <2>2, <2>3 DEF IInv
<1>3. CASE ~\A h \in Cyclic : InList(h)
  <2>1. PICK h \in Cyclic : ~InList(h) /\ sys_timeout(h) /\ pc' = pc
    BY <1>3 DEF sys_timeouts_init
  <2>2. h \in Handler /\ h # Tcp
    BY TimersAssumption DEF Handler
  <2>3. /\ tcpip_tcp_timer_active' \in BOOLEAN /\ pcbs' \in BOOLEAN
        /\ InList(Tcp) \/ h = Tcp \/ pcbs' => tcpip_tcp_timer_active'
    BY <1>1, <2>2 DEF IInv, Shape, TcpKnown
  <2> QED
    BY <1>1, <2>1, <2>2, <2>3, EnterIInv
<1> QED
  BY <1>2, <1>3

LEMMA StepIInv == IInv /\ [Next]_vars => IInv'
  BY TickSeenIInv, TickMissedIInv, QuietIInv, ExpireIInv, FetchedIInv, HandledIInv,
     CyclicIInv, TcpTimerIInv, InitTimersIInv
     DEF Next, tcpip_thread

LEMMA Invariant == Spec => []IInv
  BY InitIInv, StepIInv, PTL DEF Spec

(* The list agrees with the clock, whatever handlers there are and however *)
(* busy the thread is: what each entry still has to wait is the time until *)
(* it is due and the ticks its wait has not seen, and no handler runs      *)
(* before it is due (timers.c:261-308, 413-477).                           *)
THEOREM EachInTime == Spec => []InTime
<1>1. IInv => InTime
  <2> SUFFICES ASSUME IInv PROVE InTime
    OBVIOUS
  <2>1. ASSUME NEW i \in 1..Len(timeouts)
        PROVE  /\ timeouts[i].time >= 0
               /\ DueIn(timeouts, i) - waited = left[timeouts[i].h] + missed[timeouts[i].h]
    <3>1. Len(timeouts) \in Nat /\ i \in 0..Len(timeouts) /\ i # 0
      BY DEF IInv, Shape
    <3>2. /\ DueAt[0] = 0 /\ \A k \in 1..Len(timeouts) : DueAt[k] = DueAt[k - 1] + timeouts[k].time
          /\ DueAt[i] = Due(i) /\ timeouts[i] \in Entry
      BY <3>1, DueFacts DEF IInv
    <3>3. DueIn(timeouts, i) = Due(i)
      BY <3>1, <3>2, DueIsSum
    <3>4. /\ timeouts[i].h \in Handler /\ timeouts[i].time \in Nat
          /\ left[timeouts[i].h] \in Int /\ missed[timeouts[i].h] \in Nat /\ waited \in Nat
      BY <3>2 DEF IInv, Shape, Entry
    <3> QED
      BY <3>1, <3>3, <3>4 DEF Due
  <2>2. pc = "handler" => left[current] <= 0
    <3>1. SUFFICES ASSUME pc = "handler" PROVE left[current] <= 0
      OBVIOUS
    <3>2. current \in Handler /\ left[current] + missed[current] = 0
      BY <3>1 DEF IInv, Shape, Once, Gaps
    <3>3. left[current] \in Int /\ missed[current] \in Nat
      BY <3>2 DEF IInv, Shape
    <3> QED
      BY <3>2, <3>3
  <2> QED
    BY <2>1, <2>2 DEF InTime
<1> QED
  BY Invariant, <1>1, PTL

-----------------------------------------------------------------------------
(* The timer of TCP.                                                       *)

(* There is memory for an entry of each handler: lwipopts.h:34 has eight   *)
(* for five.                                                               *)
Enough == Cardinality(Handler) <= MEMP_NUM_SYS_TIMEOUT

LEMMA Room ==
    ASSUME Enough, IInv, NEW h \in Handler, ~InList(h)
    PROVE  Len(timeouts) < MEMP_NUM_SYS_TIMEOUT
<1> DEFINE n == Len(timeouts)
           f == [i \in 1..n |-> timeouts[i].h]
<1>1. n \in Nat /\ \A i \in 1..n : timeouts[i].h \in Handler /\ timeouts[i].h # h
  BY DueFacts DEF IInv, Shape, Entry, InList
<1>2. IsFiniteSet(Handler) /\ MEMP_NUM_SYS_TIMEOUT \in Nat
  BY TimersAssumption, FS_AddElement DEF Handler
<1>3. /\ IsFiniteSet(Handler \ {h}) /\ Cardinality(Handler \ {h}) = Cardinality(Handler) - 1
      /\ Cardinality(Handler) \in Nat
  BY <1>2, FS_RemoveElement, FS_CardinalityType
<1>4. f \in Injection(1..n, Handler \ {h})
  <2>1. f \in [1..n -> Handler \ {h}]
    BY <1>1
  <2>2. \A a, b \in 1..n : f[a] = f[b] => a = b
    BY DEF IInv, Once
  <2> HIDE DEF f
  <2> QED
    BY <2>1, <2>2 DEF Injection, IsInjective
<1>5. Cardinality(1..n) <= Cardinality(Handler \ {h})
  <2> HIDE DEF f
  <2> QED
    BY <1>3, <1>4, FS_Injection
<1>6. Cardinality(1..n) = n
  <2> HIDE DEF n
  <2>1. 1 \in Int /\ n \in Int /\ (IF 1 > n THEN 0 ELSE n - 1 + 1) = n
    BY <1>1
  <2>2. Cardinality(1..n) = IF 1 > n THEN 0 ELSE n - 1 + 1
    BY <2>1, FS_Interval
  <2> QED
    BY <2>1, <2>2
<1> QED
  BY <1>1, <1>2, <1>3, <1>5, <1>6 DEF Enough

TcpEntered == tcpip_tcp_timer_active => InList(Tcp) \/ current = Tcp

LEMMA StepEntered ==
    ASSUME Enough, IInv, TcpEntered, [Next]_vars
    PROVE  TcpEntered'
<1>0. Tcp \in Handler /\ Tcp \notin Cyclic /\ Tcp # Nobody
  BY TimersAssumption DEF Handler
(* Entering another timer keeps that of TCP, entering it finds memory.     *)
<1>1. ASSUME NEW h \in Handler, ~InList(h), sys_timeout(h), waited = 0, waited' = 0
      PROVE  InList(h)' /\ (InList(Tcp) => InList(Tcp)')
  <2>1. /\ \A g \in Handler \ {h} : InList(g)' <=> InList(g)
        /\ InList(h)'
    BY <1>1, TimerEntered, Room DEF IInv
  <2> QED
    BY <1>0, <1>1, <2>1
<1>2. CASE UNCHANGED <<timeouts, current, tcpip_tcp_timer_active>>
  BY <1>2 DEF TcpEntered, InList
<1>3. CASE Expire
  <2>1. /\ timeouts # <<>> /\ current' = timeouts[1].h /\ timeouts' = Tail(timeouts)
        /\ tcpip_tcp_timer_active' = tcpip_tcp_timer_active /\ current = Nobody
    BY <1>3 DEF Expire, IInv, Once
  <2>2. timeouts \in Seq(Entry) /\ Len(timeouts) \in Nat
    BY DEF IInv, Shape
  <2>3. ASSUME NEW i \in 1..Len(timeouts), timeouts[i].h = Tcp, i # 1 PROVE InList(Tcp)'
    <3>1. i - 1 \in 1..Len(timeouts') /\ timeouts'[i - 1] = timeouts[i]
      BY <2>1, <2>2, <2>3
    <3> QED
      BY <2>3, <3>1 DEF InList
  <2>4. InList(Tcp) => current' = Tcp \/ InList(Tcp)'
    BY <2>1, <2>3 DEF InList
  <2> QED
    BY <1>0, <2>1, <2>4 DEF TcpEntered
<1>4. CASE Fetched
  <2>1. /\ timeouts' = Spent /\ UNCHANGED <<current, tcpip_tcp_timer_active>>
        /\ timeouts \in Seq(Entry) /\ timeouts # <<>>
    BY <1>4 DEF Fetched, IInv, Waits, Shape
  <2>2. Len(timeouts') = Len(timeouts) /\ \A i \in 1..Len(timeouts) : timeouts'[i].h = timeouts[i].h
    BY <2>1 DEF Spent, Entry
  <2> QED
    BY <2>1, <2>2 DEF TcpEntered, InList
<1>5. CASE CyclicTimer
  <2>1. /\ current \in Cyclic /\ current \in Handler /\ ~InList(current) /\ sys_timeout(current)
        /\ waited = 0 /\ waited' = 0
        /\ tcpip_tcp_timer_active' = tcpip_tcp_timer_active
    BY <1>5, TimersAssumption DEF CyclicTimer, IInv, Once, Waits, Handler
  <2> QED
    BY <1>0, <1>1, <2>1 DEF TcpEntered
<1>6. ASSUME NEW open \in BOOLEAN, Handled(open) PROVE TcpEntered'
  <2>1. CASE open /\ ~tcpip_tcp_timer_active
    <3>1. sys_timeout(Tcp) /\ ~InList(Tcp) /\ waited = 0 /\ waited' = 0
      BY <1>6, <2>1 DEF Handled, IInv, TcpKnown, Waits
    <3> QED
      BY <1>0, <1>1, <3>1 DEF TcpEntered
  <2>2. CASE ~(open /\ ~tcpip_tcp_timer_active)
    BY <1>2, <1>6, <2>2 DEF Handled
  <2> QED
    BY <2>1, <2>2
<1>7. ASSUME NEW open \in BOOLEAN, tcpip_tcp_timer(open) PROVE TcpEntered'
  <2>1. CASE open
    <3>1. sys_timeout(Tcp) /\ ~InList(Tcp) /\ waited = 0 /\ waited' = 0
      BY <1>0, <1>7, <2>1 DEF tcpip_tcp_timer, IInv, Once, Waits
    <3> QED
      BY <1>0, <1>1, <3>1 DEF TcpEntered
  <2>2. CASE ~open
    BY <1>7, <2>2 DEF tcpip_tcp_timer, TcpEntered
  <2> QED
    BY <2>1, <2>2
<1>8. CASE sys_timeouts_init
  <2>1. CASE UNCHANGED timeouts
    BY <1>2, <1>8, <2>1 DEF sys_timeouts_init
  <2>2. CASE \E h \in Cyclic : ~InList(h) /\ sys_timeout(h)
    <3>1. PICK h \in Cyclic : ~InList(h) /\ sys_timeout(h)
      BY <2>2
    <3>2. /\ h \in Handler /\ waited = 0 /\ waited' = 0
          /\ UNCHANGED <<current, tcpip_tcp_timer_active>>
      BY <1>8 DEF sys_timeouts_init, Handler, IInv, Waits
    <3> QED
      BY <1>1, <3>1, <3>2 DEF TcpEntered
  <2> QED
    BY <1>8, <2>1, <2>2 DEF sys_timeouts_init
<1> QED
  BY <1>2, <1>3, <1>4, <1>5, <1>6, <1>7, <1>8
     DEF Next, tcpip_thread, TickSeen, TickMissed, Wait, Message, NetworkTaskEnds, vars

(* While there are connections the timer of TCP, which retransmits, is in  *)
(* the list or runs, and the flag that says so is right: it cannot stop    *)
(* for good, and is never entered twice, provided that there is memory for *)
(* the entry of each handler (timers.c:78-109).                            *)
THEOREM TcpAlwaysTimed ==
    ASSUME Enough
    PROVE  Spec => []TcpTimed
<1>1. Init => TcpEntered
  BY DEF Init, TcpEntered
<1>2. IInv /\ TcpEntered /\ [Next]_vars => TcpEntered'
  BY StepEntered
<1>3. IInv /\ TcpEntered => TcpTimed
  BY DEF IInv, Shape, TcpKnown, TcpEntered, TcpTimed
<1> QED
  BY Invariant, <1>1, <1>2, <1>3, PTL DEF Spec

(* Each cyclic handler is in the list or runs. *)
CyclicEntered == pc # "start" => \A h \in Cyclic : InList(h) \/ current = h

LEMMA StepCyclic ==
    ASSUME Enough, IInv, CyclicEntered, [Next]_vars
    PROVE  CyclicEntered'
<1>0. ASSUME NEW h \in Cyclic PROVE h \in Handler /\ h # Tcp /\ h # Nobody
  BY TimersAssumption DEF Handler
<1>1. ASSUME NEW h \in Handler, ~InList(h), sys_timeout(h), waited = 0, waited' = 0
      PROVE  InList(h)' /\ \A g \in Handler : InList(g) => InList(g)'
  <2>1. /\ \A g \in Handler \ {h} : InList(g)' <=> InList(g)
        /\ InList(h)'
    BY <1>1, TimerEntered, Room DEF IInv
  <2> QED
    BY <1>1, <2>1
<1>2. CASE UNCHANGED <<timeouts, current>> /\ (pc = "start" => pc' = "start")
  BY <1>2 DEF CyclicEntered, InList
<1>3. CASE Expire
  <2>1. /\ timeouts # <<>> /\ current' = timeouts[1].h /\ timeouts' = Tail(timeouts)
        /\ current = Nobody /\ pc # "start"
    BY <1>3 DEF Expire, IInv, Once
  <2>2. timeouts \in Seq(Entry) /\ Len(timeouts) \in Nat
    BY DEF IInv, Shape
  <2>3. ASSUME NEW h \in Cyclic PROVE current' = h \/ InList(h)'
    <3>1. PICK i \in 1..Len(timeouts) : timeouts[i].h = h
      BY <1>0, <2>1, <2>3 DEF CyclicEntered, InList
    <3>2. CASE i = 1
      BY <2>1, <3>1, <3>2
    <3>3. CASE i # 1
      <4>1. i - 1 \in 1..Len(timeouts') /\ timeouts'[i - 1] = timeouts[i]
        BY <2>1, <2>2, <3>3
      <4> QED
        BY <3>1, <4>1 DEF InList
    <3> QED
      BY <3>2, <3>3
  <2> QED
    BY <2>3 DEF CyclicEntered
<1>4. CASE Fetched
  <2>1. /\ timeouts' = Spent /\ current' = current /\ pc # "start"
        /\ timeouts \in Seq(Entry) /\ timeouts # <<>>
    BY <1>4 DEF Fetched, IInv, Waits, Shape
  <2>2. Len(timeouts') = Len(timeouts) /\ \A i \in 1..Len(timeouts) : timeouts'[i].h = timeouts[i].h
    BY <2>1 DEF Spent, Entry
  <2> QED
    BY <2>1, <2>2 DEF CyclicEntered, InList
<1>5. CASE CyclicTimer
  <2>1. /\ current \in Cyclic /\ current \in Handler /\ ~InList(current) /\ sys_timeout(current)
        /\ waited = 0 /\ waited' = 0 /\ pc # "start"
    BY <1>5, TimersAssumption DEF CyclicTimer, IInv, Once, Waits, Handler
  <2> QED
    BY <1>0, <1>1, <2>1 DEF CyclicEntered
<1>6. ASSUME NEW open \in BOOLEAN, Handled(open) PROVE CyclicEntered'
  <2>1. current' = current /\ pc # "start"
    BY <1>6 DEF Handled
  <2>2. CASE open /\ ~tcpip_tcp_timer_active
    <3>1. sys_timeout(Tcp) /\ ~InList(Tcp) /\ waited = 0 /\ waited' = 0 /\ Tcp \in Handler
      BY <1>6, <2>2 DEF Handled, IInv, TcpKnown, Waits, Handler
    <3> QED
      BY <1>0, <1>1, <2>1, <3>1 DEF CyclicEntered
  <2>3. CASE ~(open /\ ~tcpip_tcp_timer_active)
    BY <1>2, <1>6, <2>1, <2>3 DEF Handled
  <2> QED
    BY <2>2, <2>3
<1>7. ASSUME NEW open \in BOOLEAN, tcpip_tcp_timer(open) PROVE CyclicEntered'
  <2>1. /\ current = Tcp /\ pc # "start" /\ Tcp \in Handler /\ ~InList(Tcp)
        /\ waited = 0 /\ waited' = 0
    BY <1>7, TimersAssumption DEF tcpip_tcp_timer, IInv, Once, Waits, Handler
  <2>2. \A h \in Cyclic : InList(h)
    BY <1>0, <2>1 DEF CyclicEntered
  <2>3. CASE open
    BY <1>0, <1>1, <1>7, <2>1, <2>2, <2>3 DEF tcpip_tcp_timer, CyclicEntered
  <2>4. CASE ~open
    BY <1>7, <2>2, <2>4 DEF tcpip_tcp_timer, CyclicEntered, InList
  <2> QED
    BY <2>3, <2>4
<1>8. CASE sys_timeouts_init
  <2>1. CASE \A h \in Cyclic : InList(h)
    BY <1>8, <2>1 DEF sys_timeouts_init, CyclicEntered, InList
  <2>2. CASE ~\A h \in Cyclic : InList(h)
    BY <1>8, <2>2 DEF sys_timeouts_init, CyclicEntered
  <2> QED
    BY <2>1, <2>2
<1> QED
  BY <1>2, <1>3, <1>4, <1>5, <1>6, <1>7, <1>8
     DEF Next, tcpip_thread, TickSeen, TickMissed, Wait, Message, NetworkTaskEnds, vars

(* Once they are entered the cyclic timers of lwIP are never forgotten:    *)
(* each is in the list or runs, with memory for an entry of each handler.  *)
(* That the entry's time comes is HandlersRun, which needs fairness        *)
(* (timers.c:112-233, 443-464).                                            *)
THEOREM CyclicAlwaysEntered ==
    ASSUME Enough
    PROVE  Spec => []CyclicEntered
<1>1. Init => CyclicEntered
  BY DEF Init, CyclicEntered
<1>2. IInv /\ CyclicEntered /\ [Next]_vars => CyclicEntered'
  BY StepCyclic
<1> QED
  BY Invariant, <1>1, <1>2, PTL DEF Spec
=============================================================================
