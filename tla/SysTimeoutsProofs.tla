-------------------------- MODULE SysTimeoutsProofs --------------------------
(***************************************************************************)
(* Proofs about SysTimeouts, for every set of timers, every width of the   *)
(* clock and every delay of the loop below half of it: its invariants, and *)
(* that it implements Timers: a step of the list, the flag and the         *)
(* wrapping clock is a step of timers that each count down on their own,   *)
(* or changes nothing that their users see.                                *)
(***************************************************************************)
EXTENDS SysTimeouts, SequenceTheorems, FiniteSetTheorems,
        WellFoundedInduction, TLAPS

\* The time from u to t, negative when t is before u.
Dist(u, t) ==
  LET d == Minus(t, u) IN IF d > LWIP_MAX_TIMEOUT THEN d - Wrap ELSE d

\* An entry of a list, a timer with an entry.
In(L, e) == \E i \in 1..Len(L) : L[i] = e
Has(L, t) == \E i \in 1..Len(L) : L[i].h = t

\* When timers are at most MaxLate late and wait no longer than their interval,
\* TIME_LESS_THAN tells which of two is due first.
Near(L, u) ==
  \A i \in 1..Len(L) :
    -MaxLate <= Dist(u, L[i].time) /\ Dist(u, L[i].time) <= Interval[L[i].h]
Sorted(L, u) ==
  \A i, j \in 1..Len(L) : i < j => Dist(u, L[i].time) <= Dist(u, L[j].time)
Once(L) == \A i, j \in 1..Len(L) : L[i].h = L[j].h => i = j

Good(L, u) == L \in Seq(Entry) /\ Near(L, u) /\ Sorted(L, u) /\ Once(L)

-----------------------------------------------------------------------------
(***************************************************************************)
(* The wrapping clock.                                                     *)
(***************************************************************************)
LEMMA Constants ==
  /\ LWIP_MAX_TIMEOUT \in Nat /\ MaxLate \in Nat
  /\ Wrap \in Nat /\ Wrap = 2 * LWIP_MAX_TIMEOUT + 2
  /\ MaxLate < LWIP_MAX_TIMEOUT
  /\ 0 \in Time
<1>1. /\ LWIP_MAX_TIMEOUT \in Nat /\ MaxLate \in Nat
      /\ Interval["tcp"] \in Nat /\ Interval["tcp"] > 0
      /\ Interval["tcp"] + MaxLate <= LWIP_MAX_TIMEOUT
  BY TimersAssumption DEF Timer
<1> QED
  BY <1>1 DEF Wrap, Time

LEMMA IntervalType ==
  ASSUME NEW t \in Timer
  PROVE  /\ Interval[t] \in Nat /\ Interval[t] > 0
         /\ Interval[t] + MaxLate <= LWIP_MAX_TIMEOUT
BY TimersAssumption

LEMMA PlusType ==
  ASSUME NEW a \in Time, NEW d \in Nat, d <= LWIP_MAX_TIMEOUT
  PROVE  Plus(a, d) \in Time
BY Constants DEF Plus, Time

LEMMA DistType ==
  ASSUME NEW u \in Time, NEW t \in Time
  PROVE  Dist(u, t) \in Int
BY Constants DEF Dist, Minus, Time

LEMMA DistSelf ==
  ASSUME NEW u \in Time
  PROVE  Dist(u, u) = 0
BY Constants DEF Dist, Minus, Time

\* The clock goes on by one.
LEMMA DistTick ==
  ASSUME NEW u \in Time, NEW t \in Time, Dist(u, t) >= -LWIP_MAX_TIMEOUT
  PROVE  Dist(Plus(u, 1), t) = Dist(u, t) - 1
BY Constants DEF Dist, Minus, Plus, Time

\* A time that is put off.
LEMMA DistPlus ==
  ASSUME NEW u \in Time, NEW t \in Time, NEW d \in Nat, d <= LWIP_MAX_TIMEOUT,
         Dist(u, t) + d <= LWIP_MAX_TIMEOUT
  PROVE  Dist(u, Plus(t, d)) = Dist(u, t) + d
BY Constants DEF Dist, Minus, Plus, Time

\* The comparison is right for times less than half a turn of the clock apart.
LEMMA Compare ==
  ASSUME NEW u \in Time, NEW a \in Time, NEW b \in Time,
         Dist(u, a) - Dist(u, b) <= LWIP_MAX_TIMEOUT,
         Dist(u, b) - Dist(u, a) <= LWIP_MAX_TIMEOUT
  PROVE  TIME_LESS_THAN(a, b) <=> Dist(u, a) < Dist(u, b)
BY Constants DEF Dist, Minus, TIME_LESS_THAN, Time

-----------------------------------------------------------------------------
(***************************************************************************)
(* The list.                                                               *)
(***************************************************************************)
\* A set of positions has a first one.
LEMMA FirstExists ==
  ASSUME NEW n \in Nat, NEW S \in SUBSET (1..n), S # {}
  PROVE  \E s \in S : \A t \in S : s <= t
<1> DEFINE T == {1..p : p \in S}
<1>1. IsWellFoundedOn(StrictSubsetOrdering(1..n), FiniteSubsetsOf(1..n))
  BY FS_StrictSubsetOrderingWellFounded
<1>2. T \subseteq FiniteSubsetsOf(1..n) /\ T # {}
  <2>1. \A p \in S : 1..p \subseteq 1..n
    OBVIOUS
  <2>2. \A p \in S : IsFiniteSet(1..p)
    BY FS_Interval
  <2> QED
    BY <2>1, <2>2 DEF FiniteSubsetsOf
<1>3. PICK x \in T : \A y \in T : ~ (<<y, x>> \in StrictSubsetOrdering(1..n))
  <2> HIDE DEF T
  <2> QED
    BY <1>1, <1>2, WFMin
<1>4. PICK s \in S : x = 1..s
  OBVIOUS
<1>5. ASSUME NEW t \in S, t < s
      PROVE  FALSE
  <2>1. 1..t \in T /\ 1..s \in T
    OBVIOUS
  <2>2. 1..t \subseteq 1..n /\ 1..s \subseteq 1..n
    OBVIOUS
  <2>3. ~ (1..t \subseteq 1..s /\ 1..t # 1..s)
    BY <1>3, <1>4, <2>1, <2>2 DEF StrictSubsetOrdering
  <2>4. s \in 1..s /\ s \notin 1..t
    BY <1>5
  <2>5. 1..t \subseteq 1..s
    BY <1>5
  <2> QED
    BY <2>3, <2>4, <2>5
<1> QED
  BY <1>5

\* What an entry of a list is.
LEMMA EntryType ==
  ASSUME NEW L \in Seq(Entry), NEW i \in 1..Len(L)
  PROVE  /\ L[i] \in Entry /\ L[i].h \in Timer /\ L[i].time \in Time
         /\ Len(L) \in Nat
<1>1. L[i] \in Entry /\ Len(L) \in Nat
  BY ElementOfSeq, LenProperties
<1> QED
  BY <1>1 DEF Entry

\* Insert puts the entry after those that are not due later than it.
LEMMA InsertPlace ==
  ASSUME NEW L \in Seq(Entry), NEW e \in Entry
  PROVE  \E p \in 1..(Len(L) + 1) :
           /\ \A i \in 1..(p - 1) : ~TIME_LESS_THAN(e.time, L[i].time)
           /\ p <= Len(L) => TIME_LESS_THAN(e.time, L[p].time)
           /\ Insert(L, e) = [i \in 1..(Len(L) + 1) |->
                IF i < p THEN L[i] ELSE IF i = p THEN e ELSE L[i - 1]]
<1> DEFINE Later == {i \in 1..Len(L) : TIME_LESS_THAN(e.time, L[i].time)}
           Place(p) == /\ \A i \in 1..(p - 1) : ~TIME_LESS_THAN(e.time, L[i].time)
                       /\ p <= Len(L) => TIME_LESS_THAN(e.time, L[p].time)
<1>1. Len(L) \in Nat
  BY LenProperties
<1>2. \E p \in 1..(Len(L) + 1) : Place(p)
  <2>1. CASE Later = {}
    <3>1. Place(Len(L) + 1)
      BY <1>1, <2>1
    <3> QED
      BY <1>1, <3>1
  <2>2. CASE Later # {}
    <3>1. PICK p \in Later : \A i \in Later : p <= i
      BY <1>1, <2>2, FirstExists
    <3>2. Place(p)
      BY <1>1, <3>1
    <3> QED
      BY <1>1, <3>2
  <2> QED
    BY <2>1, <2>2
<1>3. PICK p \in 1..(Len(L) + 1) : p = CHOOSE q \in 1..(Len(L) + 1) : Place(q)
  BY <1>2
<1>4. Place(p)
  <2> HIDE DEF Place
  <2> QED
    BY <1>2, <1>3
<1>5. Insert(L, e) = [i \in 1..(Len(L) + 1) |->
                IF i < p THEN L[i] ELSE IF i = p THEN e ELSE L[i - 1]]
  BY <1>3 DEF Insert
<1> QED
  BY <1>4, <1>5

\* Two entries of a good list, or one and a new one, are near enough for
\* TIME_LESS_THAN.
LEMMA CompareNear ==
  ASSUME NEW u \in Time, NEW a \in Entry, NEW b \in Entry,
         -MaxLate <= Dist(u, a.time), Dist(u, a.time) <= Interval[a.h],
         -MaxLate <= Dist(u, b.time), Dist(u, b.time) <= Interval[b.h]
  PROVE  TIME_LESS_THAN(a.time, b.time) <=> Dist(u, a.time) < Dist(u, b.time)
<1>1. a.time \in Time /\ b.time \in Time /\ a.h \in Timer /\ b.h \in Timer
  BY DEF Entry
<1>2. Dist(u, a.time) \in Int /\ Dist(u, b.time) \in Int
  BY <1>1, DistType
<1>3. /\ Interval[a.h] \in Nat /\ Interval[a.h] + MaxLate <= LWIP_MAX_TIMEOUT
      /\ Interval[b.h] \in Nat /\ Interval[b.h] + MaxLate <= LWIP_MAX_TIMEOUT
  BY <1>1, IntervalType
<1>4. /\ Dist(u, a.time) - Dist(u, b.time) <= LWIP_MAX_TIMEOUT
      /\ Dist(u, b.time) - Dist(u, a.time) <= LWIP_MAX_TIMEOUT
  BY <1>2, <1>3, Constants
<1> QED
  BY <1>1, <1>4, Compare

\* A new entry leaves the list good.
LEMMA InsertGood ==
  ASSUME NEW u \in Time, NEW L, Good(L, u), NEW e \in Entry, ~Has(L, e.h),
         -MaxLate <= Dist(u, e.time), Dist(u, e.time) <= Interval[e.h]
  PROVE  /\ Good(Insert(L, e), u)
         /\ \A x : In(Insert(L, e), x) <=> In(L, x) \/ x = e
<1> DEFINE R == Insert(L, e)
           n == Len(L)
<1>1. L \in Seq(Entry) /\ n \in Nat /\ DOMAIN L = 1..n
  BY LenProperties DEF Good
<1>2. PICK p \in 1..(n + 1) :
           /\ \A i \in 1..(p - 1) : ~TIME_LESS_THAN(e.time, L[i].time)
           /\ p <= n => TIME_LESS_THAN(e.time, L[p].time)
           /\ R = [i \in 1..(n + 1) |->
                IF i < p THEN L[i] ELSE IF i = p THEN e ELSE L[i - 1]]
  BY <1>1, InsertPlace
<1> HIDE DEF R
<1>3. /\ R \in [1..(n + 1) -> Entry]
      /\ \A i \in 1..(n + 1) : /\ i < p => R[i] = L[i] /\ i \in 1..n
                               /\ i = p => R[i] = e
                               /\ i > p => R[i] = L[i - 1] /\ i - 1 \in 1..n
  <2>1. \A i \in 1..n : L[i] \in Entry
    BY <1>1, EntryType
  <2> QED
    BY <1>1, <1>2, <2>1
<1>4. R \in Seq(Entry) /\ Len(R) = n + 1
  <2>1. n + 1 \in Nat
    BY <1>1
  <2>2. R \in Seq(Entry)
    BY <1>3, <2>1, IsASeq
  <2>3. DOMAIN R = 1..(n + 1) /\ DOMAIN R = 1..Len(R) /\ Len(R) \in Nat
    BY <1>3, <2>2, LenProperties
  <2> QED
    BY <2>1, <2>2, <2>3
<1>5. ASSUME NEW i \in 1..n
      PROVE  /\ L[i] \in Entry
             /\ -MaxLate <= Dist(u, L[i].time) /\ Dist(u, L[i].time) <= Interval[L[i].h]
             /\ TIME_LESS_THAN(e.time, L[i].time) <=>
                  Dist(u, e.time) < Dist(u, L[i].time)
             /\ Dist(u, L[i].time) \in Int
  <2>1. /\ L[i] \in Entry /\ L[i].time \in Time
        /\ -MaxLate <= Dist(u, L[i].time) /\ Dist(u, L[i].time) <= Interval[L[i].h]
    BY <1>1, EntryType DEF Good, Near
  <2> QED
    BY <2>1, CompareNear, DistType
<1>6. Dist(u, e.time) \in Int
  BY DistType DEF Entry
<1>7. Near(R, u)
  <2>1. ASSUME NEW i \in 1..(n + 1)
        PROVE  /\ -MaxLate <= Dist(u, R[i].time)
               /\ Dist(u, R[i].time) <= Interval[R[i].h]
    <3>1. CASE i < p
      <4>1. R[i] = L[i] /\ i \in 1..n
        BY <1>3, <3>1
      <4> QED
        BY <1>5, <4>1
    <3>2. CASE i = p
      <4>1. R[i] = e
        BY <1>3, <3>2
      <4> QED
        BY <4>1
    <3>3. CASE i > p
      <4>1. R[i] = L[i - 1] /\ i - 1 \in 1..n
        BY <1>3, <3>3
      <4> QED
        BY <1>5, <4>1
    <3> QED
      BY <1>1, <3>1, <3>2, <3>3
  <2> QED
    BY <1>4, <2>1 DEF Near
<1>8. Sorted(R, u)
  <2>1. \A i, j \in 1..n : i < j => Dist(u, L[i].time) <= Dist(u, L[j].time)
    BY <1>1 DEF Good, Sorted
  <2>2. \A i \in 1..n : i < p => Dist(u, L[i].time) <= Dist(u, e.time)
    BY <1>1, <1>2, <1>5, <1>6
  <2>3. \A i \in 1..n : p <= i => Dist(u, e.time) <= Dist(u, L[i].time)
    <3>1. p <= n => Dist(u, e.time) < Dist(u, L[p].time)
      BY <1>1, <1>2, <1>5
    <3>2. TAKE i \in 1..n
    <3>3. HAVE p <= i
    <3>4. p \in 1..n
      BY <1>1, <3>3
    <3>5. Dist(u, L[p].time) <= Dist(u, L[i].time)
      BY <1>1, <1>5, <2>1, <3>3, <3>4
    <3> QED
      BY <1>5, <1>6, <3>1, <3>3, <3>4, <3>5
  <2>4. ASSUME NEW i \in 1..(n + 1), NEW j \in 1..(n + 1), i < j
        PROVE  Dist(u, R[i].time) <= Dist(u, R[j].time)
    <3>1. CASE j < p
      BY <1>1, <1>3, <2>1, <2>4, <3>1
    <3>2. CASE j = p
      BY <1>1, <1>3, <2>2, <2>4, <3>2
    <3>3. CASE j > p /\ i < p
      <4>1. R[i] = L[i] /\ R[j] = L[j - 1] /\ i \in 1..n /\ j - 1 \in 1..n
        BY <1>3, <3>3
      <4>2. i = j - 1 \/ i < j - 1
        BY <2>4
      <4> QED
        BY <1>5, <2>1, <4>1, <4>2
    <3>4. CASE j > p /\ i = p
      <4>1. R[i] = e /\ R[j] = L[j - 1] /\ j - 1 \in 1..n /\ p <= j - 1
        BY <1>3, <3>4
      <4> QED
        BY <2>3, <4>1
    <3>5. CASE j > p /\ i > p
      <4>1. R[i] = L[i - 1] /\ R[j] = L[j - 1] /\ i - 1 \in 1..n /\ j - 1 \in 1..n
        BY <1>3, <3>5
      <4>2. i - 1 < j - 1
        BY <2>4
      <4> QED
        BY <2>1, <4>1, <4>2
    <3> QED
      BY <1>1, <3>1, <3>2, <3>3, <3>4, <3>5
  <2> QED
    BY <1>4, <2>4 DEF Sorted
<1>9. Once(R)
  <2>1. \A i, j \in 1..n : L[i].h = L[j].h => i = j
    BY DEF Good, Once
  <2>2. \A i \in 1..n : L[i].h # e.h
    BY DEF Has
  <2>3. ASSUME NEW i \in 1..(n + 1), NEW j \in 1..(n + 1), R[i].h = R[j].h, i < j
        PROVE  FALSE
    <3>1. CASE j < p
      BY <1>1, <1>3, <2>1, <2>3, <3>1
    <3>2. CASE j = p
      BY <1>1, <1>3, <2>2, <2>3, <3>2
    <3>3. CASE j > p /\ i < p
      <4>1. R[i] = L[i] /\ R[j] = L[j - 1] /\ i \in 1..n /\ j - 1 \in 1..n
        BY <1>3, <3>3
      <4>2. i = j - 1
        BY <2>1, <2>3, <4>1
      <4> QED
        BY <1>1, <3>3, <4>2
    <3>4. CASE j > p /\ i = p
      BY <1>3, <2>2, <2>3, <3>4
    <3>5. CASE j > p /\ i > p
      <4>1. R[i] = L[i - 1] /\ R[j] = L[j - 1] /\ i - 1 \in 1..n /\ j - 1 \in 1..n
        BY <1>3, <3>5
      <4>2. i - 1 = j - 1
        BY <2>1, <2>3, <4>1
      <4> QED
        BY <2>3, <4>2
    <3> QED
      BY <1>1, <3>1, <3>2, <3>3, <3>4, <3>5
  <2> QED
    BY <1>1, <1>4, <2>3 DEF Once
<1>10. \A x : In(R, x) <=> In(L, x) \/ x = e
  <2>1. ASSUME NEW x, In(R, x)
        PROVE  In(L, x) \/ x = e
    BY <1>1, <1>3, <1>4, <2>1 DEF In
  <2>2. ASSUME NEW x, In(L, x)
        PROVE  In(R, x)
    <3>1. PICK i \in 1..n : L[i] = x
      BY <2>2 DEF In
    <3>2. CASE i < p
      <4>1. i \in 1..(n + 1) /\ R[i] = x
        BY <1>1, <1>3, <3>1, <3>2
      <4> QED
        BY <1>4, <4>1 DEF In
    <3>3. CASE i >= p
      <4>1. i + 1 \in 1..(n + 1) /\ i + 1 > p /\ (i + 1) - 1 = i
        BY <1>1, <3>3
      <4>2. R[i + 1] = x
        BY <1>3, <3>1, <4>1
      <4> QED
        BY <1>4, <4>1, <4>2 DEF In
    <3> QED
      BY <1>1, <3>2, <3>3
  <2>3. In(R, e)
    <3>1. p \in 1..(n + 1) /\ R[p] = e
      BY <1>3
    <3> QED
      BY <1>4, <3>1 DEF In
  <2> QED
    BY <2>1, <2>2, <2>3
<1> QED
  BY <1>4, <1>7, <1>8, <1>9, <1>10 DEF Good, R

\* A list without its entry at p.
LEMMA RemoveGood ==
  ASSUME NEW u \in Time, NEW L, Good(L, u), NEW p \in 1..Len(L), NEW R,
         R = [i \in 1..(Len(L) - 1) |-> IF i < p THEN L[i] ELSE L[i + 1]]
  PROVE  /\ Good(R, u)
         /\ \A x : In(R, x) <=> In(L, x) /\ x.h # L[p].h
<1> DEFINE n == Len(L)
<1>1. L \in Seq(Entry) /\ n \in Nat /\ n - 1 \in Nat
  <2>1. L \in Seq(Entry) /\ n \in Nat
    BY LenProperties DEF Good
  <2> QED
    BY <2>1
<1>2. \A i \in 1..n : L[i] \in Entry
  BY <1>1, EntryType
<1>3. /\ R \in [1..(n - 1) -> Entry]
      /\ \A i \in 1..(n - 1) : /\ i < p => R[i] = L[i] /\ i \in 1..n
                               /\ i >= p => R[i] = L[i + 1] /\ i + 1 \in 1..n
  BY <1>1, <1>2
<1>4. R \in Seq(Entry) /\ Len(R) = n - 1
  <2>1. R \in Seq(Entry)
    BY <1>1, <1>3, IsASeq
  <2>2. DOMAIN R = 1..(n - 1) /\ DOMAIN R = 1..Len(R) /\ Len(R) \in Nat
    BY <1>3, <2>1, LenProperties
  <2> QED
    BY <1>1, <2>2
<1> HIDE DEF n
<1>5. Near(R, u)
  <2>1. \A i \in 1..n : /\ -MaxLate <= Dist(u, L[i].time)
                        /\ Dist(u, L[i].time) <= Interval[L[i].h]
    BY DEF Good, Near, n
  <2>2. \A i \in 1..(n - 1) : \E k \in 1..n : R[i] = L[k]
    BY <1>1, <1>3
  <2> QED
    BY <1>4, <2>1, <2>2 DEF Near
<1>6. Len(L) = n /\ p \in 1..n /\ p \in Int
  BY <1>1 DEF n
\* The entries keep their order.
<1>7. \A i, j \in 1..(n - 1) : i < j =>
        \E k, l \in 1..n : k < l /\ R[i] = L[k] /\ R[j] = L[l]
  <2> TAKE i \in 1..(n - 1), j \in 1..(n - 1)
  <2> HAVE i < j
  <2>1. CASE j < p
    <3>1. R[i] = L[i] /\ R[j] = L[j] /\ i \in 1..n /\ j \in 1..n
      BY <1>1, <1>3, <1>6, <2>1
    <3> QED
      BY <3>1
  <2>2. CASE j >= p /\ i < p
    <3>1. R[i] = L[i] /\ R[j] = L[j + 1] /\ i \in 1..n /\ j + 1 \in 1..n /\ i < j + 1
      BY <1>1, <1>3, <1>6, <2>2
    <3> QED
      BY <3>1
  <2>3. CASE j >= p /\ i >= p
    <3>1. /\ R[i] = L[i + 1] /\ R[j] = L[j + 1]
          /\ i + 1 \in 1..n /\ j + 1 \in 1..n /\ i + 1 < j + 1
      BY <1>1, <1>3, <1>6, <2>3
    <3> QED
      BY <3>1
  <2> QED
    BY <1>1, <1>6, <2>1, <2>2, <2>3
<1>8. Sorted(R, u)
  <2>1. \A k, l \in 1..n : k < l => Dist(u, L[k].time) <= Dist(u, L[l].time)
    BY DEF Good, Sorted, n
  <2>2. \A i, j \in 1..(n - 1) : i < j => Dist(u, R[i].time) <= Dist(u, R[j].time)
    <3> TAKE i \in 1..(n - 1), j \in 1..(n - 1)
    <3> HAVE i < j
    <3>1. PICK k \in 1..n, l \in 1..n : k < l /\ R[i] = L[k] /\ R[j] = L[l]
      BY <1>7
    <3>2. Dist(u, L[k].time) <= Dist(u, L[l].time)
      BY <2>1, <3>1
    <3> QED
      BY <3>1, <3>2
  <2> QED
    BY <1>4, <2>2 DEF Sorted
<1>9. Once(R)
  <2>1. \A k, l \in 1..n : k < l => L[k].h # L[l].h
    BY <1>1 DEF Good, Once, n
  <2>2. ASSUME NEW i \in 1..(n - 1), NEW j \in 1..(n - 1), i < j
        PROVE  R[i].h # R[j].h
    <3>1. PICK k \in 1..n, l \in 1..n : k < l /\ R[i] = L[k] /\ R[j] = L[l]
      BY <1>7, <2>2
    <3> QED
      BY <2>1, <3>1
  <2>3. ASSUME NEW i \in 1..(n - 1), NEW j \in 1..(n - 1), R[i].h = R[j].h
        PROVE  i = j
    <3>1. ~ (i < j) /\ ~ (j < i)
      BY <2>2, <2>3
    <3> QED
      BY <1>1, <3>1
  <2> QED
    BY <1>4, <2>3 DEF Once
<1>10. \A x : In(R, x) <=> In(L, x) /\ x.h # L[p].h
  <2>1. \A i \in 1..n : L[i].h = L[p].h => i = p
    BY <1>6 DEF Good, Once
  <2>2. ASSUME NEW x, In(R, x)
        PROVE  In(L, x) /\ x.h # L[p].h
    <3>1. PICK i \in 1..(n - 1) : R[i] = x
      BY <1>4, <2>2 DEF In
    <3>2. CASE i < p
      <4>1. x = L[i] /\ i \in 1..n /\ i # p
        BY <1>3, <3>1, <3>2
      <4> QED
        BY <1>6, <2>1, <4>1 DEF In
    <3>3. CASE i >= p
      <4>1. x = L[i + 1] /\ i + 1 \in 1..n /\ i + 1 # p
        BY <1>1, <1>3, <1>6, <3>1, <3>3
      <4> QED
        BY <1>6, <2>1, <4>1 DEF In
    <3> QED
      BY <1>6, <3>2, <3>3
  <2>3. ASSUME NEW x, In(L, x), x.h # L[p].h
        PROVE  In(R, x)
    <3>1. PICK i \in 1..n : L[i] = x
      BY <1>6, <2>3 DEF In
    <3>2. i # p
      BY <2>3, <3>1
    <3>3. CASE i < p
      <4>1. i \in 1..(n - 1) /\ R[i] = x
        BY <1>1, <1>3, <1>6, <3>1, <3>3
      <4> QED
        BY <1>4, <4>1 DEF In
    <3>4. CASE i > p
      <4>1. i - 1 \in 1..(n - 1) /\ i - 1 >= p /\ (i - 1) + 1 = i
        BY <1>1, <1>6, <3>4
      <4>2. R[i - 1] = x
        BY <1>3, <3>1, <4>1
      <4> QED
        BY <1>4, <4>1, <4>2 DEF In
    <3> QED
      BY <1>6, <3>2, <3>3, <3>4
  <2> QED
    BY <2>2, <2>3
<1> QED
  BY <1>4, <1>5, <1>8, <1>9, <1>10 DEF Good

\* sys_untimeout removes the timer, if it is there, and nothing else.
LEMMA UntimeoutGood ==
  ASSUME NEW u \in Time, NEW L, Good(L, u), NEW t
  PROVE  /\ Good(sys_untimeout(L, t), u)
         /\ \A x : In(sys_untimeout(L, t), x) <=> In(L, x) /\ x.h # t
<1>1. CASE \A i \in 1..Len(L) : L[i].h # t
  <2>1. sys_untimeout(L, t) = L
    BY <1>1 DEF sys_untimeout
  <2>2. \A x : In(L, x) => x.h # t
    BY <1>1 DEF In
  <2> QED
    BY <2>1, <2>2
<1>2. CASE ~ \A i \in 1..Len(L) : L[i].h # t
  <2> DEFINE First(p) == L[p].h = t /\ \A i \in 1..(p - 1) : L[i].h # t
             S == {i \in 1..Len(L) : L[i].h = t}
  <2>1. Len(L) \in Nat
    BY LenProperties DEF Good
  <2>2. S # {}
    BY <1>2
  <2>3. PICK q \in S : \A i \in S : q <= i
    BY <2>1, <2>2, FirstExists
  <2>4. First(q)
    BY <2>1, <2>3
  <2>5. PICK p \in 1..Len(L) : p = CHOOSE r \in 1..Len(L) : First(r)
    BY <2>4
  <2>6. First(p)
    <3> HIDE DEF First
    <3> QED
      BY <2>4, <2>5
  <2>7. sys_untimeout(L, t) =
          [i \in 1..(Len(L) - 1) |-> IF i < p THEN L[i] ELSE L[i + 1]]
    BY <1>2, <2>5 DEF sys_untimeout
  <2>8. L[p].h = t
    BY <2>6
  <2> HIDE DEF First
  <2> QED
    BY <2>7, <2>8, RemoveGood
<1> QED
  BY <1>1, <1>2

\* The first entry is taken from the list.
LEMMA TailGood ==
  ASSUME NEW u \in Time, NEW L, Good(L, u), L # <<>>
  PROVE  /\ Good(Tail(L), u)
         /\ \A x : In(Tail(L), x) <=> In(L, x) /\ x.h # Head(L).h
         /\ In(L, Head(L)) /\ Head(L) \in Entry
<1>1. L \in Seq(Entry) /\ Len(L) \in Nat /\ Len(L) # 0
  BY LenProperties, EmptySeq DEF Good
<1>2. 1 \in 1..Len(L) /\ Head(L) = L[1]
  BY <1>1, HeadTailProperties
<1>3. Tail(L) = [i \in 1..(Len(L) - 1) |-> IF i < 1 THEN L[i] ELSE L[i + 1]]
  <2>1. /\ Tail(L) \in Seq(Entry) /\ Len(Tail(L)) = Len(L) - 1
        /\ \A i \in 1..Len(Tail(L)) : Tail(L)[i] = L[i + 1]
    BY <1>1, HeadTailProperties
  <2>2. Tail(L) = [i \in 1..Len(Tail(L)) |-> Tail(L)[i]]
    BY <2>1, LenProperties
  <2>3. \A i \in 1..(Len(L) - 1) : (IF i < 1 THEN L[i] ELSE L[i + 1]) = Tail(L)[i]
    BY <1>1, <2>1
  <2> QED
    BY <2>1, <2>2, <2>3
<1>4. In(L, Head(L)) /\ Head(L) \in Entry
  BY <1>1, <1>2, EntryType DEF In
<1>5. /\ Good(Tail(L), u)
      /\ \A x : In(Tail(L), x) <=> In(L, x) /\ x.h # L[1].h
  <2> DEFINE R == Tail(L)
  <2>1. R = [i \in 1..(Len(L) - 1) |-> IF i < 1 THEN L[i] ELSE L[i + 1]]
    BY <1>3
  <2>2. 1 \in 1..Len(L)
    BY <1>2
  <2> HIDE DEF R
  <2>3. /\ Good(R, u)
        /\ \A x : In(R, x) <=> In(L, x) /\ x.h # L[1].h
    BY <2>1, <2>2, RemoveGood, SMTT(30)
  <2> QED
    BY <2>3 DEF R
<1> QED
  BY <1>2, <1>4, <1>5

-----------------------------------------------------------------------------
(***************************************************************************)
(* The pool.                                                               *)
(***************************************************************************)
LEMMA TimersFinite == IsFiniteSet(Timer)
<1> DEFINE n == Len(lwip_cyclic_timers)
<1>1. n \in Nat /\ lwip_cyclic_timers \in [1..n -> Cyclic]
  BY TimersAssumption, LenProperties
<1>2. lwip_cyclic_timers \in Surjection(1..n, Cyclic)
  BY <1>1 DEF Cyclic, Surjection
<1>3. IsFiniteSet(1..n)
  BY <1>1, FS_Interval
<1>4. IsFiniteSet(Cyclic)
  BY <1>2, <1>3, FS_Surjection
<1>5. IsFiniteSet((Cyclic \cup {"tcp"}) \cup {"mqtt"})
  BY <1>4, FS_AddElement
<1>6. Timer = (Cyclic \cup {"tcp"}) \cup {"mqtt"}
  BY DEF Timer
<1> QED
  BY <1>5, <1>6

LEMMA CountTo == ASSUME NEW n \in Nat PROVE Cardinality(1..n) = n
<1>1. 1 \in Int /\ n \in Int
  OBVIOUS
<1>2. Cardinality(1..n) = IF 1 > n THEN 0 ELSE n - 1 + 1
  BY <1>1, FS_Interval, Zenon
<1> QED
  BY <1>2

\* While a timer is not in the list, an element of the pool is free for it.
LEMMA PoolNotEmpty ==
  ASSUME NEW L \in Seq(Entry), Once(L), NEW t \in Timer, ~Has(L, t)
  PROVE  Len(L) < PoolSize
<1> DEFINE n == Len(L)
           f == [i \in 1..n |-> L[i].h]
<1>1. n \in Nat
  BY LenProperties
<1>2. \A i \in 1..n : L[i].h \in Timer \ {t}
  BY EntryType DEF Has
<1>3. f \in Injection(1..n, Timer \ {t})
  <2>1. f \in [1..n -> Timer \ {t}]
    BY <1>2
  <2>2. \A i, j \in 1..n : f[i] = f[j] => i = j
    BY DEF Once
  <2> QED
    BY <2>1, <2>2 DEF Injection, IsInjective
<1>4. /\ IsFiniteSet(Timer \ {t})
      /\ Cardinality(Timer \ {t}) = Cardinality(Timer) - 1
      /\ Cardinality(Timer) \in Nat
  BY TimersFinite, FS_RemoveElement, FS_CardinalityType
<1>5. Cardinality(1..n) = n
  <2> HIDE DEF f, n
  <2> QED
    BY <1>1, CountTo, Zenon
<1>6. Cardinality(1..n) <= Cardinality(Timer \ {t})
  <2> HIDE DEF f, n
  <2> QED
    BY <1>3, <1>4, FS_Injection
<1>7. n < Cardinality(Timer)
  BY <1>1, <1>4, <1>5, <1>6
<1> QED
  BY <1>1, <1>4, <1>7, PoolAssumption, TimersAssumption

LEMMA HasIn ==
  ASSUME NEW L, NEW t
  PROVE  Has(L, t) <=> \E e : In(L, e) /\ e.h = t
BY DEF Has, In

\* What arms a timer that is not armed.
LEMMA ArmGood ==
  ASSUME NEW u \in Time, NEW L, Good(L, u), NEW t \in Timer, ~Has(L, t),
         NEW time \in Time, -MaxLate <= Dist(u, time), Dist(u, time) <= Interval[t]
  PROVE  /\ Good(sys_timeout_abs(L, time, t), u)
         /\ \A x : In(sys_timeout_abs(L, time, t), x) <=>
              In(L, x) \/ x = [h |-> t, time |-> time]
         /\ \A s : Has(sys_timeout_abs(L, time, t), s) <=> Has(L, s) \/ s = t
<1> DEFINE e == [h |-> t, time |-> time]
<1>1. e \in Entry /\ e.h = t /\ e.time = time
  BY DEF Entry
<1>2. Len(L) < PoolSize
  BY PoolNotEmpty DEF Good
<1>3. sys_timeout_abs(L, time, t) = Insert(L, e)
  BY <1>2 DEF sys_timeout_abs
<1> HIDE DEF e
<1>4. Good(Insert(L, e), u) /\ \A x : In(Insert(L, e), x) <=> In(L, x) \/ x = e
  BY <1>1, InsertGood
<1>5. \A s : Has(Insert(L, e), s) <=> Has(L, s) \/ s = t
  BY <1>1, <1>4, HasIn
<1> QED
  BY <1>3, <1>4, <1>5 DEF e

LEMMA ArmRelative ==
  ASSUME NEW u \in Time, u = uwTick, NEW L, Good(L, u), NEW t \in Timer, ~Has(L, t)
  PROVE  /\ Plus(u, Interval[t]) \in Time
         /\ Dist(u, Plus(u, Interval[t])) = Interval[t]
         /\ Good(sys_timeout(L, t), u)
         /\ \A x : In(sys_timeout(L, t), x) <=>
              In(L, x) \/ x = [h |-> t, time |-> Plus(u, Interval[t])]
         /\ \A s : Has(sys_timeout(L, t), s) <=> Has(L, s) \/ s = t
<1>1. Interval[t] \in Nat /\ Interval[t] <= LWIP_MAX_TIMEOUT /\ MaxLate \in Nat
  BY IntervalType, Constants
<1>2. Plus(u, Interval[t]) \in Time
  BY <1>1, PlusType
<1>3. Dist(u, Plus(u, Interval[t])) = Interval[t]
  BY <1>1, DistSelf, DistPlus
<1>4. sys_timeout(L, t) = sys_timeout_abs(L, Plus(u, Interval[t]), t)
  BY DEF sys_timeout
<1>5. -MaxLate <= Interval[t] /\ Interval[t] <= Interval[t]
  BY <1>1
<1> QED
  BY <1>2, <1>3, <1>4, <1>5, ArmGood

LEMMA UntimeoutHas ==
  ASSUME NEW u \in Time, NEW L, Good(L, u), NEW t
  PROVE  \A s : Has(sys_untimeout(L, t), s) <=> Has(L, s) /\ s # t
BY UntimeoutGood, HasIn

LEMMA TailHas ==
  ASSUME NEW u \in Time, NEW L, Good(L, u), L # <<>>
  PROVE  \A s : Has(Tail(L), s) <=> Has(L, s) /\ s # Head(L).h
BY TailGood, HasIn

\* The clock goes on while no timer is MaxLate late.
LEMMA TickGood ==
  ASSUME NEW u \in Time, NEW L, Good(L, u),
         \A i \in 1..Len(L) : Dist(u, L[i].time) > -MaxLate
  PROVE  Good(L, Plus(u, 1))
<1>1. L \in Seq(Entry) /\ Len(L) \in Nat
  BY LenProperties DEF Good
<1>2. ASSUME NEW i \in 1..Len(L)
      PROVE  /\ Dist(u, L[i].time) \in Int
             /\ Dist(Plus(u, 1), L[i].time) = Dist(u, L[i].time) - 1
             /\ -MaxLate <= Dist(Plus(u, 1), L[i].time)
             /\ Dist(Plus(u, 1), L[i].time) <= Interval[L[i].h]
  <2>1. L[i].time \in Time /\ L[i].h \in Timer
    BY <1>1, EntryType
  <2>2. Dist(u, L[i].time) \in Int /\ Interval[L[i].h] \in Nat
    BY <2>1, DistType, IntervalType
  <2>3. Dist(u, L[i].time) <= Interval[L[i].h]
    BY DEF Good, Near
  <2>4. Dist(u, L[i].time) >= -LWIP_MAX_TIMEOUT
    BY <2>2, Constants
  <2>5. Dist(Plus(u, 1), L[i].time) = Dist(u, L[i].time) - 1
    BY <2>1, <2>4, DistTick
  <2> QED
    BY <2>2, <2>3, <2>5, Constants
<1>3. Near(L, Plus(u, 1))
  BY <1>2 DEF Near
<1>4. Sorted(L, Plus(u, 1))
  <2>1. \A i, j \in 1..Len(L) : i < j => Dist(u, L[i].time) <= Dist(u, L[j].time)
    BY DEF Good, Sorted
  <2> QED
    BY <1>2, <2>1 DEF Sorted
<1> QED
  BY <1>3, <1>4 DEF Good

-----------------------------------------------------------------------------
(***************************************************************************)
(* The invariant.  WhoRuns needs that no timer is dropped for want of an   *)
(* element of the pool, which needs that none is in the list twice, which  *)
(* needs that a running one is not in it.  That the comparisons order the  *)
(* list needs that everything in sight is within half a turn of the clock. *)
(***************************************************************************)
Running ==
  running # "none" =>
    /\ checking
    /\ ~Has(next_timeout, running)
    /\ -MaxLate <= Dist(uwTick, current_timeout_due_time)
    /\ Dist(uwTick, current_timeout_due_time) <= 0
Checking ==
  checking => -MaxLate <= Dist(uwTick, now) /\ Dist(uwTick, now) <= 0
Connected == up => pcbs

Types ==
  /\ uwTick \in Time /\ current_timeout_due_time \in Time /\ now \in Time
  /\ running \in Timer \cup {"none"}
  /\ tcpip_tcp_timer_active \in BOOLEAN /\ checking \in BOOLEAN
  /\ pcbs \in BOOLEAN /\ up \in BOOLEAN

\* WhoRuns, of which its last conjuncts follow.
Who ==
  /\ \A t \in Cyclic : Has(next_timeout, t) \/ running = t
  /\ tcpip_tcp_timer_active <=> Has(next_timeout, "tcp") \/ running = "tcp"
  /\ pcbs => tcpip_tcp_timer_active
  /\ up => Has(next_timeout, "mqtt") \/ running = "mqtt"
  /\ ~up => ~Has(next_timeout, "mqtt")

IInv ==
  /\ Types
  /\ Good(next_timeout, uwTick)
  /\ Running /\ Checking /\ Connected
  /\ Who

LEMMA PendingHas == \A t : Pending(t) <=> Has(next_timeout, t)
BY DEF Pending, Has

LEMMA TimerTypes ==
  /\ "tcp" \in Timer /\ "mqtt" \in Timer /\ "tcp" # "mqtt"
  /\ Cyclic \subseteq Timer /\ "tcp" \notin Cyclic /\ "mqtt" \notin Cyclic
  /\ "none" \notin Timer
BY TimersAssumption DEF Timer

LEMMA InitInv == Init => IInv
<1> SUFFICES ASSUME Init
             PROVE  IInv
  OBVIOUS
<1> USE DEF Init
<1> DEFINE n == Len(lwip_cyclic_timers)
           L == [i \in 1..n |-> [h |-> lwip_cyclic_timers[i],
                                 time |-> Interval[lwip_cyclic_timers[i]]]]
<1>1. /\ n \in Nat
      /\ \A i \in 1..n : lwip_cyclic_timers[i] \in Cyclic
                         /\ lwip_cyclic_timers[i] \in Timer
  BY TimersAssumption, LenProperties DEF Cyclic, Timer
<1>2. next_timeout = L
  OBVIOUS
<1> HIDE DEF Init
<1>3. ASSUME NEW i \in 1..n
      PROVE  /\ L[i] \in Entry /\ L[i].h = lwip_cyclic_timers[i]
             /\ L[i].time = Interval[L[i].h]
             /\ Dist(0, L[i].time) = Interval[L[i].h]
             /\ Interval[L[i].h] \in Nat
  <2>1. /\ lwip_cyclic_timers[i] \in Timer
        /\ Interval[lwip_cyclic_timers[i]] \in Nat
        /\ Interval[lwip_cyclic_timers[i]] <= LWIP_MAX_TIMEOUT
    BY <1>1, IntervalType, Constants
  <2>2. Interval[lwip_cyclic_timers[i]] \in Time
    BY <2>1, Constants DEF Time
  <2>3. Dist(0, Interval[lwip_cyclic_timers[i]]) = Interval[lwip_cyclic_timers[i]]
    BY <2>1, Constants DEF Dist, Minus
  <2>4. L[i] = [h |-> lwip_cyclic_timers[i], time |-> Interval[lwip_cyclic_timers[i]]]
    OBVIOUS
  <2>5. L[i] \in Entry
    BY <2>1, <2>2, <2>4 DEF Entry
  <2> QED
    BY <2>1, <2>3, <2>4, <2>5
<1>4. L \in Seq(Entry) /\ Len(L) = n /\ DOMAIN L = 1..n
  <2>1. L \in [1..n -> Entry]
    BY <1>3
  <2>2. L \in Seq(Entry)
    BY <1>1, <2>1, IsASeq
  <2> QED
    BY <1>1, <2>1, <2>2, LenProperties
<1> HIDE DEF L
<1>5. Good(L, 0)
  <2>1. Near(L, 0)
    BY <1>3, <1>4, Constants DEF Near
  <2>2. Sorted(L, 0)
    <3>1. \A i, j \in 1..n : i < j =>
            Interval[lwip_cyclic_timers[i]] <= Interval[lwip_cyclic_timers[j]]
      BY TimersAssumption
    <3> QED
      BY <1>3, <1>4, <3>1 DEF Sorted
  <2>3. Once(L)
    <3>1. \A i, j \in 1..n : i < j => lwip_cyclic_timers[i] # lwip_cyclic_timers[j]
      BY TimersAssumption
    <3>2. \A i, j \in 1..n : lwip_cyclic_timers[i] = lwip_cyclic_timers[j] => i = j
      BY <1>1, <3>1
    <3> QED
      BY <1>3, <1>4, <3>2 DEF Once
  <2> QED
    BY <1>4, <2>1, <2>2, <2>3 DEF Good
<1>6. /\ uwTick = 0 /\ current_timeout_due_time = 0 /\ ~tcpip_tcp_timer_active
      /\ running = "none" /\ ~checking /\ now = 0 /\ ~pcbs /\ ~up
      /\ tcpip_tcp_timer_active \in BOOLEAN /\ checking \in BOOLEAN
      /\ pcbs \in BOOLEAN /\ up \in BOOLEAN
  BY DEF Init
<1>7. Types
  BY <1>6, Constants DEF Types
<1>8. Running /\ Checking /\ Connected
  BY <1>6 DEF Running, Checking, Connected
<1>9. Who
  <2>1. \A t : t \in Cyclic <=> \E i \in 1..n : lwip_cyclic_timers[i] = t
    BY DEF Cyclic
  <2>2. \A t : Has(next_timeout, t) <=> t \in Cyclic
    BY <1>2, <1>3, <1>4, <2>1 DEF Has
  <2> QED
    BY <1>6, <2>2, TimerTypes DEF Who
<1>10. Good(next_timeout, uwTick)
  BY <1>2, <1>5, <1>6
<1> QED
  BY <1>7, <1>8, <1>9, <1>10 DEF IInv

LEMMA InvHolds == IInv => TypeOK /\ InOrder /\ ArmedOnce /\ WhoRuns
<1> SUFFICES ASSUME IInv
             PROVE  TypeOK /\ InOrder /\ ArmedOnce /\ WhoRuns
  OBVIOUS
<1>1. next_timeout \in Seq(Entry)
  BY DEF IInv, Good
<1>2. TypeOK
  BY <1>1 DEF IInv, Types, TypeOK
<1>3. \A t : Ahead(t) = Dist(uwTick, t)
  BY DEF Ahead, Dist
<1>4. InOrder
  BY <1>3 DEF IInv, Good, Sorted, InOrder
<1>5. ArmedOnce
  <2>1. ~Pending("none")
    BY <1>1, EntryType, TimerTypes DEF Pending
  <2>2. running # "none" => ~Pending(running)
    BY PendingHas DEF IInv, Running
  <2>3. ~Pending(running)
    BY <2>1, <2>2
  <2> QED
    BY <2>3 DEF IInv, Good, Once, ArmedOnce
<1>6. WhoRuns
  BY PendingHas DEF IInv, Who, WhoRuns
<1> QED
  BY <1>2, <1>4, <1>5, <1>6

-----------------------------------------------------------------------------
(***************************************************************************)
(* Each action preserves it.                                               *)
(***************************************************************************)
LEMMA TickInv == IInv /\ Tick => IInv'
<1> SUFFICES ASSUME IInv, Tick
             PROVE  IInv'
  OBVIOUS
<1>1. /\ uwTick' = Plus(uwTick, 1)
      /\ \A i \in 1..Len(next_timeout) : Dist(uwTick, next_timeout[i].time) > -MaxLate
      /\ running # "none" => Dist(uwTick, current_timeout_due_time) > -MaxLate
      /\ checking => Dist(uwTick, now) > -MaxLate
      /\ UNCHANGED <<listVars, callVars, envVars>>
  BY DEF Tick, Ahead, Dist
<1>2. Types /\ uwTick \in Time /\ current_timeout_due_time \in Time /\ now \in Time
  BY DEF IInv, Types
<1>3. uwTick' \in Time
  BY <1>1, <1>2, PlusType, Constants
<1>4. Good(next_timeout, uwTick)'
  BY <1>1, <1>2, TickGood DEF IInv, listVars
<1>5. ASSUME NEW t \in Time, -MaxLate < Dist(uwTick, t), Dist(uwTick, t) <= 0
      PROVE  -MaxLate <= Dist(uwTick', t) /\ Dist(uwTick', t) <= 0
  <2>1. Dist(uwTick, t) \in Int /\ Dist(uwTick, t) >= -LWIP_MAX_TIMEOUT
    BY <1>2, <1>5, DistType, Constants
  <2>2. Dist(uwTick', t) = Dist(uwTick, t) - 1
    BY <1>1, <1>2, <2>1, DistTick
  <2> QED
    BY <1>5, <2>1, <2>2, Constants
<1>6. Running'
  BY <1>1, <1>2, <1>5 DEF IInv, Running, listVars, callVars
<1>7. Checking'
  BY <1>1, <1>2, <1>5 DEF IInv, Checking, callVars
<1>8. Types' /\ Connected' /\ Who'
  BY <1>1, <1>3 DEF IInv, Types, Connected, Who, listVars, callVars, envVars
<1> QED
  BY <1>4, <1>6, <1>7, <1>8 DEF IInv

LEMMA TcpRegInv == IInv /\ TcpReg => IInv'
<1> SUFFICES ASSUME IInv, TcpReg
             PROVE  IInv'
  OBVIOUS
<1>1. /\ ~checking /\ running = "none" /\ pcbs' = TRUE
      /\ uwTick' = uwTick /\ UNCHANGED callVars /\ up' = up
  BY TimerTypes DEF IInv, Running, TcpReg
<1>2. CASE tcpip_tcp_timer_active
  <2>1. UNCHANGED listVars
    BY <1>2 DEF TcpReg, tcp_timer_needed
  <2> QED
    BY <1>1, <1>2, <2>1
    DEF IInv, Types, Running, Checking, Connected, Who, listVars, callVars
<1>3. CASE ~tcpip_tcp_timer_active
  <2>1. /\ tcpip_tcp_timer_active' = TRUE
        /\ next_timeout' = sys_timeout(next_timeout, "tcp")
    BY <1>3 DEF TcpReg, tcp_timer_needed
  <2>2. uwTick \in Time /\ Good(next_timeout, uwTick) /\ ~Has(next_timeout, "tcp")
    BY <1>3 DEF IInv, Types, Who
  <2>3. /\ Good(next_timeout', uwTick)
        /\ \A s : Has(next_timeout', s) <=> Has(next_timeout, s) \/ s = "tcp"
    BY <2>1, <2>2, ArmRelative, TimerTypes
  <2>4. Good(next_timeout, uwTick)'
    BY <1>1, <2>3
  <2>5. Types' /\ Running' /\ Checking' /\ Connected'
    BY <1>1, <2>1 DEF IInv, Types, Running, Checking, Connected, callVars
  <2>6. Who'
    BY <1>1, <2>1, <2>3, TimerTypes DEF IInv, Who, callVars
  <2> QED
    BY <2>4, <2>5, <2>6 DEF IInv
<1> QED
  BY <1>2, <1>3

LEMMA TcpRmvInv == IInv /\ TcpRmv => IInv'
<1> SUFFICES ASSUME IInv, TcpRmv
             PROVE  IInv'
  OBVIOUS
<1>1. /\ ~up /\ pcbs' = FALSE
      /\ UNCHANGED <<uwTick, listVars, callVars, up>>
  BY DEF TcpRmv
<1>2. Types' /\ Running' /\ Checking' /\ Connected'
  BY <1>1 DEF IInv, Types, Running, Checking, Connected, listVars, callVars
<1>3. Who'
  BY <1>1 DEF IInv, Who, listVars, callVars
<1>4. Good(next_timeout, uwTick)'
  BY <1>1 DEF IInv, listVars
<1> QED
  BY <1>2, <1>3, <1>4 DEF IInv

LEMMA MqttConnectingInv == IInv /\ MqttConnecting => IInv'
<1> SUFFICES ASSUME IInv, MqttConnecting
             PROVE  IInv'
  OBVIOUS
<1>1. /\ ~checking /\ running = "none" /\ ~up /\ pcbs /\ up' = TRUE
      /\ uwTick' = uwTick /\ UNCHANGED <<callVars, pcbs, tcpip_tcp_timer_active>>
      /\ next_timeout' = sys_timeout(next_timeout, "mqtt")
  BY TimerTypes DEF IInv, Running, MqttConnecting
<1>2. uwTick \in Time /\ Good(next_timeout, uwTick) /\ ~Has(next_timeout, "mqtt")
  BY <1>1 DEF IInv, Types, Who
<1>3. /\ Good(next_timeout', uwTick)
      /\ \A s : Has(next_timeout', s) <=> Has(next_timeout, s) \/ s = "mqtt"
  BY <1>1, <1>2, ArmRelative, TimerTypes
<1>4. Good(next_timeout, uwTick)'
  BY <1>1, <1>3
<1>5. Types' /\ Running' /\ Checking' /\ Connected'
  BY <1>1 DEF IInv, Types, Running, Checking, Connected, callVars
<1>6. Who'
  BY <1>1, <1>3, TimerTypes DEF IInv, Who, callVars
<1> QED
  BY <1>4, <1>5, <1>6 DEF IInv

LEMMA MqttCloseInv == IInv /\ MqttClose => IInv'
<1> SUFFICES ASSUME IInv, MqttClose
             PROVE  IInv'
  OBVIOUS
<1>1. /\ ~checking \/ running \in {"tcp", "mqtt"}
      /\ up /\ up' = FALSE /\ pcbs' \in BOOLEAN
      /\ uwTick' = uwTick /\ UNCHANGED <<callVars, tcpip_tcp_timer_active>>
      /\ next_timeout' = sys_untimeout(next_timeout, "mqtt")
  BY DEF MqttClose
<1>2. uwTick \in Time /\ Good(next_timeout, uwTick) /\ pcbs
  BY <1>1 DEF IInv, Types, Connected
<1>3. /\ Good(next_timeout', uwTick)
      /\ \A s : Has(next_timeout', s) <=> Has(next_timeout, s) /\ s # "mqtt"
  BY <1>1, <1>2, UntimeoutGood, UntimeoutHas
<1>4. Good(next_timeout, uwTick)'
  BY <1>1, <1>3
<1>5. Types' /\ Running' /\ Checking' /\ Connected'
  BY <1>1, <1>3 DEF IInv, Types, Running, Checking, Connected, callVars
<1>6. Who'
  BY <1>1, <1>2, <1>3, TimerTypes DEF IInv, Who, callVars
<1> QED
  BY <1>4, <1>5, <1>6 DEF IInv

LEMMA CheckInv == IInv /\ Check => IInv'
<1> SUFFICES ASSUME IInv, Check
             PROVE  IInv'
  OBVIOUS
<1>1. /\ now' = uwTick /\ checking' = TRUE
      /\ UNCHANGED <<uwTick, listVars, current_timeout_due_time, running, envVars>>
  BY DEF Check
<1>2. uwTick \in Time /\ Dist(uwTick, uwTick) = 0
  BY DistSelf DEF IInv, Types
<1>3. Checking'
  BY <1>1, <1>2, Constants DEF Checking
<1> QED
  BY <1>1, <1>2, <1>3
  DEF IInv, Types, Running, Connected, Who, listVars, envVars

LEMMA ReturnInv == IInv /\ Return => IInv'
<1> SUFFICES ASSUME IInv, Return
             PROVE  IInv'
  OBVIOUS
<1> QED
  BY Constants DEF IInv, Types, Running, Checking, Connected, Who, Return, listVars, envVars

\* The first timer is due, and it was due no longer ago than any timer is late.
LEMMA ExpireDue ==
  ASSUME IInv, Expire
  PROVE  /\ next_timeout # <<>>
         /\ -MaxLate <= Dist(uwTick, Head(next_timeout).time)
         /\ Dist(uwTick, Head(next_timeout).time) <= 0
<1>1. checking /\ next_timeout # <<>> /\ ~TIME_LESS_THAN(now, Head(next_timeout).time)
  BY DEF Expire, NothingDue
<1>2. uwTick \in Time /\ now \in Time /\ Good(next_timeout, uwTick)
  BY DEF IInv, Types
<1>3. PICK i \in 1..Len(next_timeout) : next_timeout[i] = Head(next_timeout)
  BY <1>1, <1>2, TailGood DEF In
<1> DEFINE e == Head(next_timeout)
<1>4. e \in Entry /\ e.time \in Time /\ e.h \in Timer
  BY <1>1, <1>2, TailGood DEF Entry
<1>5. -MaxLate <= Dist(uwTick, e.time) /\ Dist(uwTick, e.time) <= Interval[e.h]
  BY <1>2, <1>3 DEF Good, Near
<1>6. -MaxLate <= Dist(uwTick, now) /\ Dist(uwTick, now) <= 0
  BY <1>1 DEF IInv, Checking
<1> HIDE DEF e
<1>7. /\ Dist(uwTick, e.time) \in Int /\ Dist(uwTick, now) \in Int
      /\ Interval[e.h] \in Nat /\ Interval[e.h] + MaxLate <= LWIP_MAX_TIMEOUT
  BY <1>2, <1>4, DistType, IntervalType
<1>8. TIME_LESS_THAN(now, e.time) <=> Dist(uwTick, now) < Dist(uwTick, e.time)
  <2>1. /\ Dist(uwTick, now) - Dist(uwTick, e.time) <= LWIP_MAX_TIMEOUT
        /\ Dist(uwTick, e.time) - Dist(uwTick, now) <= LWIP_MAX_TIMEOUT
    BY <1>5, <1>6, <1>7, Constants
  <2> QED
    BY <1>2, <1>4, <2>1, Compare
<1>9. Dist(uwTick, e.time) <= 0
  BY <1>1, <1>6, <1>7, <1>8 DEF e
<1> QED
  BY <1>1, <1>5, <1>9 DEF e

LEMMA ExpireInv == IInv /\ Expire => IInv'
<1> SUFFICES ASSUME IInv, Expire
             PROVE  IInv'
  OBVIOUS
<1> DEFINE e == Head(next_timeout)
<1>1. /\ checking /\ running = "none"
      /\ running' = e.h /\ current_timeout_due_time' = e.time
      /\ next_timeout' = Tail(next_timeout)
      /\ UNCHANGED <<uwTick, tcpip_tcp_timer_active, checking, now, envVars>>
  BY DEF Expire
<1>2. /\ next_timeout # <<>>
      /\ -MaxLate <= Dist(uwTick, e.time) /\ Dist(uwTick, e.time) <= 0
  BY ExpireDue
<1>3. uwTick \in Time /\ Good(next_timeout, uwTick)
  BY DEF IInv, Types
<1>4. /\ Good(Tail(next_timeout), uwTick)
      /\ \A s : Has(Tail(next_timeout), s) <=> Has(next_timeout, s) /\ s # e.h
      /\ e \in Entry /\ Has(next_timeout, e.h)
  BY <1>2, <1>3, TailGood, TailHas, HasIn
<1>5. e.h \in Timer /\ e.time \in Time
  BY <1>4 DEF Entry
<1> HIDE DEF e
<1>6. Good(next_timeout, uwTick)'
  BY <1>1, <1>4
<1>7. Types'
  BY <1>1, <1>5 DEF IInv, Types, envVars
<1>8. Running'
  BY <1>1, <1>2, <1>4 DEF Running
<1>9. Checking' /\ Connected'
  BY <1>1 DEF IInv, Checking, Connected, envVars
<1>10. Who'
  BY <1>1, <1>4, <1>5, TimerTypes DEF IInv, Who, envVars
<1> QED
  BY <1>6, <1>7, <1>8, <1>9, <1>10 DEF IInv

\* When the timers of the stack are set again: on their grid, unless the next
\* time on it is past.
LEMMA CyclicAgain ==
  ASSUME IInv, running \in Cyclic,
         NEW next, next = Plus(current_timeout_due_time, Interval[running])
  PROVE  /\ next \in Time
         /\ Dist(uwTick, next) =
              Dist(uwTick, current_timeout_due_time) + Interval[running]
         /\ TIME_LESS_THAN(next, uwTick) <=> Dist(uwTick, next) < 0
<1> DEFINE d == Dist(uwTick, current_timeout_due_time)
           n == Interval[running]
<1>1. uwTick \in Time /\ current_timeout_due_time \in Time
  BY DEF IInv, Types
<1>2. -MaxLate <= d /\ d <= 0
  BY TimerTypes DEF IInv, Running
<1>3. n \in Nat /\ n + MaxLate <= LWIP_MAX_TIMEOUT
  BY IntervalType, TimerTypes
<1>4. d \in Int
  BY <1>1, DistType
<1>5. n <= LWIP_MAX_TIMEOUT /\ d + n <= LWIP_MAX_TIMEOUT
  BY <1>2, <1>3, <1>4, Constants
<1>6. next \in Time /\ Dist(uwTick, next) = d + n
  BY <1>1, <1>3, <1>5, PlusType, DistPlus
<1>7. Dist(uwTick, uwTick) = 0
  BY <1>1, DistSelf
<1>8. TIME_LESS_THAN(next, uwTick) <=> Dist(uwTick, next) < 0
  <2>1. /\ Dist(uwTick, next) - Dist(uwTick, uwTick) <= LWIP_MAX_TIMEOUT
        /\ Dist(uwTick, uwTick) - Dist(uwTick, next) <= LWIP_MAX_TIMEOUT
    <3> HIDE DEF d, n
    <3> QED
      BY <1>2, <1>3, <1>4, <1>6, <1>7, Constants
  <2> QED
    BY <1>1, <1>6, <1>7, <2>1, Compare
<1> QED
  BY <1>6, <1>8

LEMMA CyclicGood ==
  ASSUME IInv, lwip_cyclic_timer
  PROVE  /\ Good(next_timeout', uwTick)
         /\ \A s : Has(next_timeout', s) <=> Has(next_timeout, s) \/ s = running
         /\ UNCHANGED tcpip_tcp_timer_active
<1> DEFINE next == Plus(current_timeout_due_time, Interval[running])
           time == IF TIME_LESS_THAN(next, uwTick)
                   THEN Plus(uwTick, Interval[running]) ELSE next
<1>1. /\ running \in Cyclic /\ running \in Timer /\ running # "none"
      /\ next_timeout' = sys_timeout_abs(next_timeout, time, running)
      /\ UNCHANGED tcpip_tcp_timer_active
  BY TimerTypes DEF lwip_cyclic_timer
<1>2. /\ uwTick \in Time /\ Good(next_timeout, uwTick) /\ ~Has(next_timeout, running)
      /\ current_timeout_due_time \in Time
      /\ -MaxLate <= Dist(uwTick, current_timeout_due_time)
      /\ Dist(uwTick, current_timeout_due_time) <= 0
  BY <1>1 DEF IInv, Types, Running
<1>3. /\ next \in Time
      /\ Dist(uwTick, next) = Dist(uwTick, current_timeout_due_time) + Interval[running]
      /\ TIME_LESS_THAN(next, uwTick) <=> Dist(uwTick, next) < 0
  BY <1>1, CyclicAgain
<1>4. /\ Plus(uwTick, Interval[running]) \in Time
      /\ Dist(uwTick, Plus(uwTick, Interval[running])) = Interval[running]
  BY <1>1, <1>2, ArmRelative
<1>5. /\ Interval[running] \in Nat
      /\ Dist(uwTick, current_timeout_due_time) \in Int /\ MaxLate \in Nat
  BY <1>1, <1>2, IntervalType, DistType, Constants
<1> HIDE DEF next
<1>6. /\ time \in Time
      /\ -MaxLate <= Dist(uwTick, time) /\ Dist(uwTick, time) <= Interval[running]
  <2>1. CASE TIME_LESS_THAN(next, uwTick)
    BY <1>4, <1>5, <2>1
  <2>2. CASE ~TIME_LESS_THAN(next, uwTick)
    BY <1>2, <1>3, <1>5, <2>2
  <2> QED
    BY <2>1, <2>2
<1> HIDE DEF time
<1> QED
  BY <1>1, <1>2, <1>6, ArmGood

LEMMA CyclicInv == IInv /\ HandlerReturns /\ lwip_cyclic_timer => IInv'
<1> SUFFICES ASSUME IInv, HandlerReturns, lwip_cyclic_timer
             PROVE  IInv'
  OBVIOUS
<1>1. /\ running \in Cyclic /\ running' = "none"
      /\ UNCHANGED <<uwTick, current_timeout_due_time, checking, now, envVars>>
  BY DEF HandlerReturns, lwip_cyclic_timer
<1>2. /\ Good(next_timeout', uwTick)
      /\ \A s : Has(next_timeout', s) <=> Has(next_timeout, s) \/ s = running
      /\ UNCHANGED tcpip_tcp_timer_active
  BY CyclicGood
<1>3. Good(next_timeout, uwTick)'
  BY <1>1, <1>2
<1>4. Types' /\ Running' /\ Checking' /\ Connected'
  BY <1>1, <1>2 DEF IInv, Types, Running, Checking, Connected, envVars
<1>5. Who'
  BY <1>1, <1>2, TimerTypes DEF IInv, Who, envVars
<1> QED
  BY <1>3, <1>4, <1>5 DEF IInv

LEMMA TcpTimerInv == IInv /\ HandlerReturns /\ tcpip_tcp_timer => IInv'
<1> SUFFICES ASSUME IInv, HandlerReturns, tcpip_tcp_timer
             PROVE  IInv'
  OBVIOUS
<1>1. /\ running = "tcp" /\ running' = "none"
      /\ UNCHANGED <<uwTick, current_timeout_due_time, checking, now, envVars>>
  BY DEF HandlerReturns, tcpip_tcp_timer
<1>2. uwTick \in Time /\ Good(next_timeout, uwTick) /\ ~Has(next_timeout, "tcp")
  BY <1>1, TimerTypes DEF IInv, Types, Running
<1>3. CASE pcbs
  <2>1. /\ next_timeout' = sys_timeout(next_timeout, "tcp")
        /\ UNCHANGED tcpip_tcp_timer_active
    BY <1>3 DEF tcpip_tcp_timer
  <2>2. /\ Good(next_timeout', uwTick)
        /\ \A s : Has(next_timeout', s) <=> Has(next_timeout, s) \/ s = "tcp"
    BY <1>2, <2>1, ArmRelative, TimerTypes
  <2>3. Good(next_timeout, uwTick)'
    BY <1>1, <2>2
  <2>4. Types' /\ Running' /\ Checking' /\ Connected'
    BY <1>1, <2>1 DEF IInv, Types, Running, Checking, Connected, envVars
  <2>5. Who'
    BY <1>1, <2>1, <2>2, TimerTypes DEF IInv, Who, envVars
  <2> QED
    BY <2>3, <2>4, <2>5 DEF IInv
<1>4. CASE ~pcbs
  <2>1. /\ tcpip_tcp_timer_active' = FALSE
        /\ UNCHANGED next_timeout
    BY <1>4 DEF tcpip_tcp_timer
  <2>2. Types' /\ Running' /\ Checking' /\ Connected'
    BY <1>1, <2>1 DEF IInv, Types, Running, Checking, Connected, envVars
  <2>3. Who'
    BY <1>1, <1>2, <1>4, <2>1, TimerTypes DEF IInv, Who, envVars
  <2>4. Good(next_timeout, uwTick)'
    BY <1>1, <2>1 DEF IInv
  <2> QED
    BY <2>2, <2>3, <2>4 DEF IInv
<1> QED
  BY <1>3, <1>4

LEMMA MqttTimerInv == IInv /\ HandlerReturns /\ mqtt_cyclic_timer => IInv'
<1> SUFFICES ASSUME IInv, HandlerReturns, mqtt_cyclic_timer
             PROVE  IInv'
  OBVIOUS
<1>1. /\ running = "mqtt" /\ running' = "none"
      /\ UNCHANGED <<uwTick, current_timeout_due_time, checking, now, envVars>>
      /\ next_timeout' = IF up THEN sys_timeout(next_timeout, "mqtt") ELSE next_timeout
      /\ UNCHANGED tcpip_tcp_timer_active
  BY DEF HandlerReturns, mqtt_cyclic_timer
<1>2. uwTick \in Time /\ Good(next_timeout, uwTick) /\ ~Has(next_timeout, "mqtt")
  BY <1>1, TimerTypes DEF IInv, Types, Running
<1>3. Types' /\ Running' /\ Checking' /\ Connected'
  BY <1>1 DEF IInv, Types, Running, Checking, Connected, envVars
<1>4. CASE up
  <2>1. /\ Good(next_timeout', uwTick)
        /\ \A s : Has(next_timeout', s) <=> Has(next_timeout, s) \/ s = "mqtt"
    BY <1>1, <1>2, <1>4, ArmRelative, TimerTypes
  <2>2. Good(next_timeout, uwTick)'
    BY <1>1, <2>1
  <2>3. Who'
    BY <1>1, <1>4, <2>1, TimerTypes DEF IInv, Who, envVars
  <2> QED
    BY <1>3, <2>2, <2>3 DEF IInv
<1>5. CASE ~up
  <2>1. next_timeout' = next_timeout
    BY <1>1, <1>5
  <2>2. Who'
    BY <1>1, <1>2, <1>5, <2>1, TimerTypes DEF IInv, Who, envVars
  <2>3. Good(next_timeout, uwTick)'
    BY <1>1, <1>2, <2>1
  <2> QED
    BY <1>3, <2>2, <2>3 DEF IInv
<1> QED
  BY <1>4, <1>5

LEMMA NextInv == IInv /\ [Next]_vars => IInv'
<1> SUFFICES ASSUME IInv, [Next]_vars
             PROVE  IInv'
  OBVIOUS
<1>1. CASE UNCHANGED vars
  BY <1>1 DEF IInv, Types, Running, Checking, Connected, Who, vars, listVars, callVars,
              envVars
<1>2. HandlerReturns => IInv'
  BY CyclicInv, TcpTimerInv, MqttTimerInv DEF HandlerReturns
<1> QED
  BY <1>1, <1>2, TickInv, TcpRegInv, TcpRmvInv, MqttConnectingInv, MqttCloseInv,
     CheckInv, ReturnInv, ExpireInv DEF Next

-----------------------------------------------------------------------------
(***************************************************************************)
(* What is proved of it.                                                   *)
(***************************************************************************)
LEMMA InvAlways == Spec => []IInv
BY InitInv, NextInv, PTL DEF Spec

\* The variables of core/timeouts.c stay what they are declared to be.
THEOREM TypeCorrect == Spec => []TypeOK
BY InvAlways, InvHolds, PTL

\* sys_check_timeouts may look at the first timer only: the list is in the
\* order in which they are due, whatever the width of the clock, for delays of
\* the loop that leave half a turn of it.
THEOREM OrderHolds == Spec => []InOrder
BY InvAlways, InvHolds, PTL

\* No timer is in the list twice, or in it while its handler runs.
THEOREM OnceHolds == Spec => []ArmedOnce
BY InvAlways, InvHolds, PTL

\* A pool of one element for each timer is enough for every timer that must run
\* to be waiting or running, and the flag of TCP says whether its does.
THEOREM WhoHolds == Spec => []WhoRuns
BY InvAlways, InvHolds, PTL

\* sys_check_timeouts leaves no timer that was due when it was called.
THEOREM AllChecked == Spec => ChecksAll
<1>1. IInv /\ [Next]_vars =>
        [checking /\ ~checking' =>
           \A i \in 1..Len(next_timeout) : Ahead(next_timeout[i].time) > Ahead(now)]_vars
  <2> SUFFICES ASSUME IInv, [Next]_vars, checking, ~checking', vars' # vars,
                      NEW i \in 1..Len(next_timeout)
               PROVE  Ahead(next_timeout[i].time) > Ahead(now)
    OBVIOUS
  <2>1. Return
    BY DEF Next, vars, Tick, TcpReg, TcpRmv, MqttConnecting, MqttClose, Check, Expire,
           HandlerReturns, callVars
  <2> DEFINE e == Head(next_timeout)
             f == next_timeout[i]
  <2>2. Good(next_timeout, uwTick) /\ uwTick \in Time /\ now \in Time
    BY DEF IInv, Types
  <2>3. next_timeout # <<>>
    BY <2>2, EmptySeq
  <2>4. TIME_LESS_THAN(now, e.time)
    BY <2>1, <2>3 DEF Return, NothingDue
  <2>5. 1 \in 1..Len(next_timeout) /\ e = next_timeout[1] /\ i \in Nat
    BY <2>2, <2>3, HeadTailProperties, LenProperties DEF Good
  <2>6. e \in Entry /\ e.time \in Time /\ e.h \in Timer /\ f.time \in Time
    BY <2>2, <2>5, EntryType DEF Good
  <2>7. /\ -MaxLate <= Dist(uwTick, now) /\ Dist(uwTick, now) <= 0
        /\ -MaxLate <= Dist(uwTick, e.time) /\ Dist(uwTick, e.time) <= Interval[e.h]
        /\ Dist(uwTick, e.time) <= Dist(uwTick, f.time) \/ i = 1
    BY <2>2, <2>5 DEF IInv, Checking, Good, Near, Sorted
  <2> HIDE DEF e, f
  <2>8. /\ Dist(uwTick, e.time) \in Int /\ Dist(uwTick, now) \in Int
        /\ Dist(uwTick, f.time) \in Int
        /\ Interval[e.h] \in Nat /\ Interval[e.h] + MaxLate <= LWIP_MAX_TIMEOUT
    BY <2>2, <2>6, DistType, IntervalType
  <2>9. Dist(uwTick, now) < Dist(uwTick, e.time)
    <3>1. /\ Dist(uwTick, now) - Dist(uwTick, e.time) <= LWIP_MAX_TIMEOUT
          /\ Dist(uwTick, e.time) - Dist(uwTick, now) <= LWIP_MAX_TIMEOUT
      BY <2>7, <2>8, Constants
    <3> QED
      BY <2>2, <2>4, <2>6, <3>1, Compare
  <2>10. Dist(uwTick, now) < Dist(uwTick, f.time)
    <3>1. CASE i = 1
      <4>1. f = e
        BY <2>5, <3>1 DEF f
      <4> QED
        BY <2>9, <4>1
    <3>2. CASE i # 1
      BY <2>7, <2>8, <2>9, <3>2
    <3> QED
      BY <3>1, <3>2
  <2>11. Ahead(f.time) = Dist(uwTick, f.time) /\ Ahead(now) = Dist(uwTick, now)
    BY DEF Ahead, Dist
  <2>12. Ahead(f.time) > Ahead(now)
    BY <2>8, <2>10, <2>11
  <2> QED
    BY <2>12 DEF f
<1> QED
  BY <1>1, InvAlways, PTL DEF Spec, ChecksAll

-----------------------------------------------------------------------------
(***************************************************************************)
(* SysTimeouts implements Timers.                                          *)
(***************************************************************************)
\* When the entry of t is due.
Due(L, t) == L[CHOOSE i \in 1..Len(L) : L[i].h = t].time

LEMMA DueIn ==
  ASSUME NEW L, Once(L), NEW e, In(L, e)
  PROVE  Due(L, e.h) = e.time
<1>1. PICK i \in 1..Len(L) : L[i] = e
  BY DEF In
<1>2. \A j \in 1..Len(L) : L[j].h = e.h => j = i
  BY <1>1 DEF Once
<1>3. i = CHOOSE j \in 1..Len(L) : L[j].h = e.h
  BY <1>1, <1>2
<1> QED
  BY <1>1, <1>3 DEF Due

\* It does not change while the entries of t do not.
LEMMA DueSame ==
  ASSUME NEW L, Once(L), NEW M, Once(M), NEW t, Has(L, t),
         \A x : In(L, x) /\ x.h = t => In(M, x)
  PROVE  Due(M, t) = Due(L, t)
<1>1. PICK e : In(L, e) /\ e.h = t
  BY HasIn
<1>2. In(M, e)
  BY <1>1
<1> QED
  BY <1>1, <1>2, DueIn

LEMMA DueType ==
  ASSUME NEW L \in Seq(Entry), Once(L), NEW t, Has(L, t)
  PROVE  Due(L, t) \in Time
<1>1. PICK i \in 1..Len(L) : L[i].h = t
  BY DEF Has
<1>2. L[i].time \in Time /\ In(L, L[i])
  BY EntryType DEF In
<1> QED
  BY <1>1, <1>2, DueIn

-----------------------------------------------------------------------------
(***************************************************************************)
(* The refinement mapping, timer by timer.                                 *)
(***************************************************************************)
LEMMA PhaseAt ==
  /\ Phase = [t \in Timer |-> IF running = t THEN "running"
                ELSE IF Has(next_timeout, t) THEN "armed" ELSE "idle"]
  /\ \A t \in Timer : Phase[t] = IF running = t THEN "running"
                ELSE IF Has(next_timeout, t) THEN "armed" ELSE "idle"
<1>1. \A t : Pending(t) <=> Has(next_timeout, t)
  BY PendingHas
<1> QED
  BY <1>1 DEF Phase

LEMMA LeftAt ==
  /\ Left = [t \in Timer |-> IF running = t THEN Dist(uwTick, current_timeout_due_time)
                ELSE IF Has(next_timeout, t) THEN Dist(uwTick, Due(next_timeout, t)) ELSE 0]
  /\ \A t \in Timer :
       Left[t] = IF running = t THEN Dist(uwTick, current_timeout_due_time)
                 ELSE IF Has(next_timeout, t) THEN Dist(uwTick, Due(next_timeout, t)) ELSE 0
<1>1. \A t : Pending(t) <=> Has(next_timeout, t)
  BY PendingHas
<1>2. \A t : Ahead(t) = Dist(uwTick, t)
  BY DEF Ahead, Dist
<1> QED
  BY <1>1, <1>2 DEF Left, Due

LEMMA PrimedAt ==
  /\ Phase' = [t \in Timer |-> IF running' = t THEN "running"
                ELSE IF Has(next_timeout', t) THEN "armed" ELSE "idle"]
  /\ Left' = [t \in Timer |-> IF running' = t THEN Dist(uwTick', current_timeout_due_time')
                ELSE IF Has(next_timeout', t) THEN Dist(uwTick', Due(next_timeout', t)) ELSE 0]
<1>1. \A t : Pending(t)' <=> Has(next_timeout', t)
  BY DEF Pending, Has
<1>2. \A t : Ahead(t)' = Dist(uwTick', t')
  BY DEF Ahead, Dist
<1>3. Phase' = [t \in Timer |-> IF running' = t THEN "running"
                ELSE IF Has(next_timeout', t) THEN "armed" ELSE "idle"]
  BY <1>1 DEF Phase
<1>4. Left' = [t \in Timer |-> IF running' = t THEN Dist(uwTick', current_timeout_due_time')
                ELSE IF Has(next_timeout', t) THEN Dist(uwTick', Due(next_timeout', t)) ELSE 0]
  BY <1>1, <1>2 DEF Left, Due, Ahead, Dist, Pending, Has
<1> QED
  BY <1>3, <1>4

\* The timer s is where it was.
Still(s) ==
  /\ running' = s <=> running = s
  /\ running = s => current_timeout_due_time' = current_timeout_due_time
  /\ Has(next_timeout', s) <=> Has(next_timeout, s)
  /\ Has(next_timeout, s) => Due(next_timeout', s) = Due(next_timeout, s)

LEMMA StillAt ==
  ASSUME uwTick' = uwTick, NEW s \in Timer, Still(s)
  PROVE  Phase'[s] = Phase[s] /\ Left'[s] = Left[s]
<1>1. Phase'[s] = Phase[s]
  BY PhaseAt, PrimedAt DEF Still
<1>2. Left'[s] = Left[s]
  BY LeftAt, PrimedAt DEF Still
<1> QED
  BY <1>1, <1>2

\* A step in which one timer moves.
LEMMA SetAt ==
  ASSUME uwTick' = uwTick, NEW t \in Timer, \A s \in Timer \ {t} : Still(s),
         NEW p, Phase'[t] = p, NEW n, Left'[t] = n
  PROVE  Promised!Set(t, p, n)
<1>1. \A s \in Timer \ {t} : Phase'[s] = Phase[s] /\ Left'[s] = Left[s]
  BY StillAt
<1>2. Phase' = [s \in Timer |-> Phase'[s]] /\ Phase = [s \in Timer |-> Phase[s]]
  BY PhaseAt, PrimedAt
<1>3. Left' = [s \in Timer |-> Left'[s]] /\ Left = [s \in Timer |-> Left[s]]
  BY LeftAt, PrimedAt
<1>4. Phase' = [Phase EXCEPT ![t] = p]
  BY <1>1, <1>2
<1>5. Left' = [Left EXCEPT ![t] = n]
  BY <1>1, <1>3
<1> QED
  BY <1>4, <1>5 DEF Promised!Set

\* A step in which none does.
LEMMA NoneMoves ==
  ASSUME uwTick' = uwTick, \A s \in Timer : Still(s)
  PROVE  UNCHANGED Promised!vars
<1>1. \A s \in Timer : Phase'[s] = Phase[s] /\ Left'[s] = Left[s]
  BY StillAt
<1>2. Phase' = [s \in Timer |-> Phase'[s]] /\ Phase = [s \in Timer |-> Phase[s]]
  BY PhaseAt, PrimedAt
<1>3. Left' = [s \in Timer |-> Left'[s]] /\ Left = [s \in Timer |-> Left[s]]
  BY LeftAt, PrimedAt
<1>4. Phase' = Phase
  BY <1>1, <1>2
<1>5. Left' = Left
  BY <1>1, <1>3
<1> QED
  BY <1>4, <1>5 DEF Promised!vars

-----------------------------------------------------------------------------
(***************************************************************************)
(* Step by step.                                                           *)
(***************************************************************************)
LEMMA InitMaps == Init => Promised!Init
<1> SUFFICES ASSUME Init
             PROVE  Promised!Init
  OBVIOUS
<1> DEFINE n == Len(lwip_cyclic_timers)
<1>1. IInv
  BY InitInv
<1>2. running = "none" /\ uwTick = 0
  BY DEF Init
<1>3. n \in Nat /\ \A i \in 1..n : lwip_cyclic_timers[i] \in Timer
  BY TimersAssumption, LenProperties DEF Cyclic, Timer
<1>4. \A t : Has(next_timeout, t) <=> t \in Cyclic
  <2>1. \A t : Has(next_timeout, t) <=> \E i \in 1..n : lwip_cyclic_timers[i] = t
    <3>1. /\ DOMAIN next_timeout = 1..n
          /\ \A i \in 1..n : next_timeout[i].h = lwip_cyclic_timers[i]
      BY <1>3 DEF Init
    <3>2. Len(next_timeout) = n
      BY <1>1, <1>3, <3>1, LenProperties DEF IInv, Good
    <3> QED
      BY <3>1, <3>2 DEF Has
  <2> QED
    BY <2>1 DEF Cyclic
<1>5. ASSUME NEW t \in Cyclic
      PROVE  Dist(uwTick, Due(next_timeout, t)) = Interval[t]
  <2>1. PICK i \in 1..n : lwip_cyclic_timers[i] = t
    BY DEF Cyclic
  <2>2. In(next_timeout, [h |-> t, time |-> Interval[t]])
    BY <1>3, <2>1 DEF Init, In
  <2>3. Due(next_timeout, t) = Interval[t]
    BY <1>1, <2>2, DueIn DEF IInv, Good
  <2>4. Interval[t] \in Nat /\ Interval[t] <= LWIP_MAX_TIMEOUT
    BY IntervalType, TimerTypes, Constants
  <2>5. Dist(0, Interval[t]) = Interval[t]
    BY <2>4, Constants DEF Dist, Minus
  <2> QED
    BY <1>2, <2>3, <2>5
<1>6. \A t \in Timer : running # t
  BY <1>2, TimerTypes
<1>7. Phase = [t \in Timer |-> IF t \in Cyclic THEN "armed" ELSE "idle"]
  BY <1>4, <1>6, PhaseAt
<1>8. Left = [t \in Timer |-> IF t \in Cyclic THEN Interval[t] ELSE 0]
  BY <1>4, <1>5, <1>6, LeftAt
<1> QED
  BY <1>7, <1>8 DEF Promised!Init

LEMMA TickMaps == IInv /\ Tick => Promised!Pass
<1> SUFFICES ASSUME IInv, Tick
             PROVE  Promised!Pass
  OBVIOUS
<1>1. /\ uwTick' = Plus(uwTick, 1) /\ next_timeout' = next_timeout
      /\ running' = running /\ current_timeout_due_time' = current_timeout_due_time
  BY DEF Tick, listVars, callVars
<1>2. /\ uwTick \in Time /\ current_timeout_due_time \in Time
      /\ next_timeout \in Seq(Entry) /\ Once(next_timeout)
  BY DEF IInv, Types, Good
<1>3. ASSUME NEW t \in Time, -MaxLate <= Dist(uwTick, t)
      PROVE  Dist(uwTick', t) = Dist(uwTick, t) - 1
  <2>1. Dist(uwTick, t) \in Int
    BY <1>2, DistType
  <2>2. Dist(uwTick, t) >= -LWIP_MAX_TIMEOUT
    BY <1>3, <2>1, Constants
  <2> QED
    BY <1>1, <1>2, <2>2, DistTick
<1>4. Phase' = Phase
  BY <1>1, PhaseAt, PrimedAt
<1>5. ASSUME NEW t \in Timer
      PROVE  Left'[t] = IF Phase[t] = "idle" THEN 0 ELSE Left[t] - 1
  <2>1. CASE running = t
    <3>1. -MaxLate <= Dist(uwTick, current_timeout_due_time)
      BY <2>1, TimerTypes DEF IInv, Running
    <3>2. Left'[t] = Dist(uwTick', current_timeout_due_time)
      BY <1>1, <2>1, PrimedAt
    <3>3. Left[t] = Dist(uwTick, current_timeout_due_time) /\ Phase[t] = "running"
      BY <2>1, LeftAt, PhaseAt
    <3> QED
      BY <1>2, <1>3, <3>1, <3>2, <3>3
  <2>2. CASE running # t /\ Has(next_timeout, t)
    <3>1. PICK i \in 1..Len(next_timeout) : next_timeout[i].h = t
      BY <2>2 DEF Has
    <3>2. /\ next_timeout[i].time \in Time
          /\ -MaxLate <= Dist(uwTick, next_timeout[i].time)
          /\ In(next_timeout, next_timeout[i])
      BY <1>2, EntryType DEF IInv, Good, Near, In
    <3>3. Due(next_timeout, t) = next_timeout[i].time
      BY <1>2, <3>1, <3>2, DueIn
    <3>4. Left'[t] = Dist(uwTick', Due(next_timeout, t))
      BY <1>1, <2>2, PrimedAt
    <3>5. Left[t] = Dist(uwTick, Due(next_timeout, t)) /\ Phase[t] = "armed"
      BY <2>2, LeftAt, PhaseAt
    <3> QED
      BY <1>3, <3>2, <3>3, <3>4, <3>5
  <2>3. CASE running # t /\ ~Has(next_timeout, t)
    <3>1. Left'[t] = 0
      BY <1>1, <2>3, PrimedAt
    <3>2. Phase[t] = "idle"
      BY <2>3, PhaseAt
    <3> QED
      BY <3>1, <3>2
  <2> QED
    BY <2>1, <2>2, <2>3
<1>6. Left' = [t \in Timer |-> IF Phase[t] = "idle" THEN 0 ELSE Left[t] - 1]
  <2>1. Left' = [t \in Timer |-> Left'[t]]
    BY PrimedAt
  <2> QED
    BY <1>5, <2>1
<1> QED
  BY <1>4, <1>6 DEF Promised!Pass

\* Outside sys_check_timeouts no handler runs.
LEMMA NoneRuns ==
  ASSUME IInv, ~checking
  PROVE  running = "none" /\ \A t \in Timer : running # t
BY TimerTypes DEF IInv, Running

\* A timer is set, for the first time or by its handler.
LEMMA ArmMaps ==
  ASSUME IInv, NEW t \in Timer, ~Has(next_timeout, t), NEW time \in Time,
         -MaxLate <= Dist(uwTick, time), Dist(uwTick, time) <= Interval[t],
         running \in {"none", t}, running' = "none",
         uwTick' = uwTick, current_timeout_due_time' = current_timeout_due_time,
         next_timeout' = sys_timeout_abs(next_timeout, time, t)
  PROVE  Promised!Set(t, "armed", Dist(uwTick, time))
<1>1. uwTick \in Time /\ Good(next_timeout, uwTick) /\ Once(next_timeout)
  BY DEF IInv, Types, Good
<1>2. /\ Good(next_timeout', uwTick) /\ Once(next_timeout')
      /\ \A x : In(next_timeout', x) <=>
           In(next_timeout, x) \/ x = [h |-> t, time |-> time]
      /\ \A s : Has(next_timeout', s) <=> Has(next_timeout, s) \/ s = t
  BY <1>1, ArmGood DEF Good
<1>3. ASSUME NEW s \in Timer \ {t}
      PROVE  Still(s)
  <2>1. running' # s /\ running # s
    BY TimerTypes
  <2>2. Has(next_timeout', s) <=> Has(next_timeout, s)
    BY <1>2
  <2>3. Has(next_timeout, s) => Due(next_timeout', s) = Due(next_timeout, s)
    BY <1>1, <1>2, DueSame
  <2> QED
    BY <2>1, <2>2, <2>3 DEF Still
<1>4. running' # t /\ Has(next_timeout', t)
  BY <1>2, TimerTypes
<1>5. Due(next_timeout', t) = time
  <2> DEFINE e == [h |-> t, time |-> time]
  <2>1. In(next_timeout', e) /\ e.h = t /\ e.time = time
    BY <1>2
  <2> HIDE DEF e
  <2> QED
    BY <1>2, <2>1, DueIn
<1>6. Phase'[t] = "armed"
  BY <1>4, PrimedAt
<1>7. Left'[t] = Dist(uwTick, time)
  BY <1>4, <1>5, PrimedAt
<1> QED
  BY <1>3, <1>6, <1>7, SetAt

LEMMA ArmRelativeMaps ==
  ASSUME IInv, NEW t \in Timer, ~Has(next_timeout, t),
         running \in {"none", t}, running' = "none",
         uwTick' = uwTick, current_timeout_due_time' = current_timeout_due_time,
         next_timeout' = sys_timeout(next_timeout, t)
  PROVE  Promised!Set(t, "armed", Interval[t])
<1> DEFINE time == Plus(uwTick, Interval[t])
<1>1. uwTick \in Time /\ Good(next_timeout, uwTick)
  BY DEF IInv, Types
<1>2. time \in Time /\ Dist(uwTick, time) = Interval[t]
  BY <1>1, ArmRelative
<1>3. next_timeout' = sys_timeout_abs(next_timeout, time, t)
  BY DEF sys_timeout
<1>4. Interval[t] \in Nat /\ MaxLate \in Nat
  BY IntervalType, Constants
<1>5. -MaxLate <= Dist(uwTick, time) /\ Dist(uwTick, time) <= Interval[t]
  BY <1>2, <1>4
<1> HIDE DEF time
<1>6. Promised!Set(t, "armed", Dist(uwTick, time))
  BY <1>2, <1>3, <1>5, ArmMaps
<1> QED
  BY <1>2, <1>6

\* A handler returns without setting its timer again.
LEMMA DoneMaps ==
  ASSUME IInv, NEW t \in Timer, running = t, running' = "none",
         uwTick' = uwTick, current_timeout_due_time' = current_timeout_due_time,
         next_timeout' = next_timeout
  PROVE  Promised!Set(t, "idle", 0)
<1>1. running' # t /\ ~Has(next_timeout', t)
  BY TimerTypes DEF IInv, Running
<1>2. \A s \in Timer \ {t} : Still(s)
  BY TimerTypes DEF Still
<1>3. Phase'[t] = "idle" /\ Left'[t] = 0
  BY <1>1, PrimedAt
<1> QED
  BY <1>2, <1>3, SetAt

\* Nothing that is seen of the timers changes.
LEMMA Unseen ==
  ASSUME uwTick' = uwTick, running' = running, next_timeout' = next_timeout,
         current_timeout_due_time' = current_timeout_due_time
  PROVE  UNCHANGED Promised!vars
BY NoneMoves DEF Still

LEMMA TcpRegMaps == IInv /\ TcpReg => [Promised!Next]_(Promised!vars)
<1> SUFFICES ASSUME IInv, TcpReg
             PROVE  Promised!Next \/ UNCHANGED Promised!vars
  OBVIOUS
<1>1. /\ ~checking /\ uwTick' = uwTick /\ running' = running
      /\ current_timeout_due_time' = current_timeout_due_time
      /\ tcp_timer_needed
  BY DEF TcpReg, callVars
<1>2. running = "none" /\ running # "tcp"
  BY <1>1, NoneRuns, TimerTypes
<1>3. CASE tcpip_tcp_timer_active
  BY <1>1, <1>3, Unseen DEF tcp_timer_needed, listVars
<1>4. CASE ~tcpip_tcp_timer_active
  <2>1. next_timeout' = sys_timeout(next_timeout, "tcp")
    BY <1>1, <1>4 DEF tcp_timer_needed
  <2>2. ~Has(next_timeout, "tcp")
    BY <1>4 DEF IInv, Who
  <2>3. Promised!Set("tcp", "armed", Interval["tcp"])
    BY <1>1, <1>2, <2>1, <2>2, ArmRelativeMaps, TimerTypes
  <2>4. Phase["tcp"] = "idle"
    BY <1>2, <2>2, PhaseAt, TimerTypes
  <2>5. Promised!Start("tcp")
    BY <2>3, <2>4 DEF Promised!Start
  <2> QED
    BY <2>5, TimerTypes DEF Promised!Next
<1> QED
  BY <1>3, <1>4

LEMMA MqttConnectingMaps == IInv /\ MqttConnecting => Promised!Next
<1> SUFFICES ASSUME IInv, MqttConnecting
             PROVE  Promised!Next
  OBVIOUS
<1>1. /\ ~checking /\ uwTick' = uwTick /\ running' = running /\ ~up
      /\ current_timeout_due_time' = current_timeout_due_time
      /\ next_timeout' = sys_timeout(next_timeout, "mqtt")
  BY DEF MqttConnecting, callVars
<1>2. running = "none" /\ running # "mqtt" /\ ~Has(next_timeout, "mqtt")
  BY <1>1, NoneRuns, TimerTypes DEF IInv, Who
<1>3. Promised!Set("mqtt", "armed", Interval["mqtt"])
  BY <1>1, <1>2, ArmRelativeMaps, TimerTypes
<1>4. Phase["mqtt"] = "idle"
  BY <1>2, PhaseAt, TimerTypes
<1>5. Promised!Start("mqtt")
  BY <1>3, <1>4 DEF Promised!Start
<1> QED
  BY <1>5, TimerTypes DEF Promised!Next

LEMMA MqttCloseMaps == IInv /\ MqttClose => [Promised!Next]_(Promised!vars)
<1> SUFFICES ASSUME IInv, MqttClose
             PROVE  Promised!Next \/ UNCHANGED Promised!vars
  OBVIOUS
<1>1. /\ uwTick' = uwTick /\ running' = running
      /\ current_timeout_due_time' = current_timeout_due_time
      /\ next_timeout' = sys_untimeout(next_timeout, "mqtt")
  BY DEF MqttClose, callVars
<1>2. uwTick \in Time /\ Good(next_timeout, uwTick) /\ Once(next_timeout)
  BY DEF IInv, Types, Good
<1>3. /\ Once(next_timeout')
      /\ \A x : In(next_timeout', x) <=> In(next_timeout, x) /\ x.h # "mqtt"
      /\ \A s : Has(next_timeout', s) <=> Has(next_timeout, s) /\ s # "mqtt"
  BY <1>1, <1>2, UntimeoutGood, UntimeoutHas DEF Good
<1>4. ASSUME NEW s \in Timer, s # "mqtt" \/ ~Has(next_timeout, "mqtt")
      PROVE  Still(s)
  <2>1. Has(next_timeout', s) <=> Has(next_timeout, s)
    BY <1>3, <1>4
  <2>2. Has(next_timeout, s) => s # "mqtt"
    BY <1>4
  <2>3. Has(next_timeout, s) => Due(next_timeout', s) = Due(next_timeout, s)
    BY <1>2, <1>3, <2>2, DueSame
  <2> QED
    BY <1>1, <2>1, <2>3 DEF Still
<1>5. CASE Has(next_timeout, "mqtt")
  <2>1. running # "mqtt"
    BY <1>5, TimerTypes DEF IInv, Running
  <2>2. Phase["mqtt"] = "armed"
    BY <1>5, <2>1, PhaseAt, TimerTypes
  <2>3. Phase'["mqtt"] = "idle" /\ Left'["mqtt"] = 0
    BY <1>1, <1>3, <2>1, PrimedAt, TimerTypes
  <2>4. Promised!Set("mqtt", "idle", 0)
    BY <1>1, <1>4, <2>3, SetAt, TimerTypes
  <2>5. Promised!Stop("mqtt")
    BY <2>2, <2>4 DEF Promised!Stop
  <2> QED
    BY <2>5, TimerTypes DEF Promised!Next
<1>6. CASE ~Has(next_timeout, "mqtt")
  BY <1>1, <1>4, <1>6, NoneMoves
<1> QED
  BY <1>5, <1>6

LEMMA ExpireMaps == IInv /\ Expire => Promised!Next
<1> SUFFICES ASSUME IInv, Expire
             PROVE  Promised!Next
  OBVIOUS
<1> DEFINE e == Head(next_timeout)
           t == e.h
<1>1. /\ running = "none" /\ running' = t /\ current_timeout_due_time' = e.time
      /\ next_timeout' = Tail(next_timeout) /\ uwTick' = uwTick
  BY DEF Expire
<1>2. next_timeout # <<>> /\ Dist(uwTick, e.time) <= 0
  BY ExpireDue
<1>3. /\ uwTick \in Time /\ Good(next_timeout, uwTick) /\ Once(next_timeout)
      /\ next_timeout \in Seq(Entry)
  BY DEF IInv, Types, Good
<1>4. /\ Once(next_timeout')
      /\ \A x : In(next_timeout', x) <=> In(next_timeout, x) /\ x.h # t
      /\ \A s : Has(next_timeout', s) <=> Has(next_timeout, s) /\ s # t
      /\ In(next_timeout, e) /\ e \in Entry
  BY <1>1, <1>2, <1>3, TailGood, TailHas DEF Good
<1>5. t \in Timer /\ \A s \in Timer : running # s
  BY <1>1, <1>4, TimerTypes DEF Entry
<1>6. Has(next_timeout, t) /\ Due(next_timeout, t) = e.time
  BY <1>3, <1>4, HasIn, DueIn
<1>7. 1 \in 1..Len(next_timeout) /\ e = next_timeout[1]
  BY <1>2, <1>3, LenProperties, EmptySeq, HeadTailProperties
<1> HIDE DEF e
<1>8. Phase[t] = "armed" /\ Left[t] = Dist(uwTick, e.time)
  BY <1>5, <1>6, PhaseAt, LeftAt
<1>9. ASSUME NEW s \in Timer, Phase[s] = "armed"
      PROVE  Left[t] <= Left[s]
  <2>1. Has(next_timeout, s)
    BY <1>9, PhaseAt
  <2>2. PICK i \in 1..Len(next_timeout) : next_timeout[i].h = s
    BY <2>1 DEF Has
  <2>3. In(next_timeout, next_timeout[i]) /\ next_timeout[i].time \in Time
    BY <1>3, EntryType DEF In
  <2>4. Due(next_timeout, s) = next_timeout[i].time
    BY <1>3, <2>2, <2>3, DueIn
  <2>5. Left[s] = Dist(uwTick, next_timeout[i].time)
    BY <1>5, <2>1, <2>4, LeftAt
  <2>6. Dist(uwTick, next_timeout[i].time) \in Int
    BY <1>3, <2>3, DistType
  <2>7. CASE i = 1
    BY <1>7, <1>8, <2>5, <2>6, <2>7
  <2>8. CASE i # 1
    <3>1. 1 < i
      BY <1>7, <2>8
    <3> QED
      BY <1>3, <1>7, <1>8, <2>5, <3>1 DEF Good, Sorted
  <2> QED
    BY <2>7, <2>8
<1>10. ASSUME NEW s \in Timer \ {t}
       PROVE  Still(s)
  <2>1. Has(next_timeout', s) <=> Has(next_timeout, s)
    BY <1>4
  <2>2. Has(next_timeout, s) => Due(next_timeout', s) = Due(next_timeout, s)
    BY <1>3, <1>4, DueSame
  <2> QED
    BY <1>1, <1>5, <2>1, <2>2 DEF Still
<1>11. Phase'[t] = "running" /\ Left'[t] = Left[t]
  BY <1>1, <1>5, <1>8, PrimedAt
<1>12. Promised!Set(t, "running", Left[t])
  BY <1>1, <1>5, <1>10, <1>11, SetAt
<1>13. Left' = Left /\ Phase' = [Phase EXCEPT ![t] = "running"]
  <2>1. Left = [s \in Timer |-> Left[s]]
    BY LeftAt
  <2>2. [Left EXCEPT ![t] = Left[t]] = Left
    BY <2>1
  <2> QED
    BY <1>12, <2>2 DEF Promised!Set
<1>14. \A s \in Timer : Phase[s] # "running"
  BY <1>5, PhaseAt
<1>15. Left[t] <= 0
  BY <1>2, <1>8
<1>16. \A s \in Promised!Armed : Left[t] <= Left[s]
  BY <1>9 DEF Promised!Armed
<1>17. Promised!Expire(t)
  BY <1>8, <1>13, <1>14, <1>15, <1>16 DEF Promised!Expire
<1> QED
  BY <1>5, <1>17 DEF Promised!Next

LEMMA CyclicMaps == IInv /\ HandlerReturns /\ lwip_cyclic_timer => Promised!Next
<1> SUFFICES ASSUME IInv, HandlerReturns, lwip_cyclic_timer
             PROVE  Promised!Next
  OBVIOUS
<1> DEFINE t == running
           next == Plus(current_timeout_due_time, Interval[t])
           onGrid == Left[t] + Interval[t]
<1>1. /\ t \in Cyclic /\ t \in Timer /\ running' = "none"
      /\ UNCHANGED <<uwTick, current_timeout_due_time>>
      /\ next_timeout' = sys_timeout_abs(next_timeout,
           IF TIME_LESS_THAN(next, uwTick) THEN Plus(uwTick, Interval[t]) ELSE next, t)
  BY TimerTypes DEF HandlerReturns, lwip_cyclic_timer
<1>2. Phase[t] = "running" /\ Left[t] = Dist(uwTick, current_timeout_due_time)
  BY <1>1, PhaseAt, LeftAt
<1>3. ~Has(next_timeout, t) /\ -MaxLate <= Left[t] /\ Left[t] <= 0
  BY <1>1, <1>2, TimerTypes DEF IInv, Running
<1>4. /\ next \in Time /\ Dist(uwTick, next) = onGrid
      /\ TIME_LESS_THAN(next, uwTick) <=> Dist(uwTick, next) < 0
  BY <1>1, <1>2, CyclicAgain
<1>5. Left[t] \in Int /\ Interval[t] \in Nat /\ MaxLate \in Nat
  BY <1>1, <1>2, DistType, IntervalType, Constants DEF IInv, Types
<1> HIDE DEF next
<1>6. Promised!Set(t, "armed", IF t \in Cyclic /\ onGrid >= 0 THEN onGrid ELSE Interval[t])
  <2>1. CASE onGrid < 0
    <3>1. next_timeout' = sys_timeout(next_timeout, t)
      BY <1>1, <1>4, <2>1 DEF sys_timeout
    <3>2. Promised!Set(t, "armed", Interval[t])
      BY <1>1, <1>3, <3>1, ArmRelativeMaps
    <3> QED
      BY <1>5, <2>1, <3>2
  <2>2. CASE onGrid >= 0
    <3>1. next_timeout' = sys_timeout_abs(next_timeout, next, t)
      BY <1>1, <1>4, <1>5, <2>2
    <3>2. -MaxLate <= Dist(uwTick, next) /\ Dist(uwTick, next) <= Interval[t]
      BY <1>3, <1>4, <1>5
    <3>3. Promised!Set(t, "armed", onGrid)
      BY <1>1, <1>3, <1>4, <3>1, <3>2, ArmMaps
    <3> QED
      BY <1>1, <2>2, <3>3
  <2> QED
    BY <1>5, <2>1, <2>2
<1>7. Promised!Again(t)
  BY <1>2, <1>6 DEF Promised!Again
<1> QED
  BY <1>1, <1>7 DEF Promised!Next

\* The handlers that are set from the time at which they return.
LEMMA RelativeMaps ==
  ASSUME IInv, NEW t \in Timer \ Cyclic, running = t, running' = "none",
         UNCHANGED <<uwTick, current_timeout_due_time>>,
         \/ next_timeout' = sys_timeout(next_timeout, t)
         \/ next_timeout' = next_timeout
  PROVE  Promised!Next
<1>1. Phase[t] = "running" /\ ~Has(next_timeout, t)
  BY PhaseAt, TimerTypes DEF IInv, Running
<1>2. CASE next_timeout' = sys_timeout(next_timeout, t)
  <2>1. Promised!Set(t, "armed", Interval[t])
    BY <1>1, <1>2, ArmRelativeMaps
  <2>2. Promised!Again(t)
    BY <1>1, <2>1 DEF Promised!Again
  <2> QED
    BY <2>2 DEF Promised!Next
<1>3. CASE next_timeout' = next_timeout
  <2>1. Promised!Set(t, "idle", 0)
    BY <1>3, DoneMaps
  <2>2. Promised!Done(t)
    BY <1>1, <2>1 DEF Promised!Done
  <2> QED
    BY <2>2 DEF Promised!Next
<1> QED
  BY <1>2, <1>3

LEMMA HandlerMaps == IInv /\ HandlerReturns => Promised!Next
<1> SUFFICES ASSUME IInv, HandlerReturns
             PROVE  Promised!Next
  OBVIOUS
<1>1. running' = "none" /\ UNCHANGED <<uwTick, current_timeout_due_time>>
  BY DEF HandlerReturns
<1>2. CASE tcpip_tcp_timer
  <2>1. /\ running = "tcp"
        /\ \/ next_timeout' = sys_timeout(next_timeout, "tcp")
           \/ next_timeout' = next_timeout
    BY <1>2 DEF tcpip_tcp_timer
  <2> QED
    BY <1>1, <2>1, RelativeMaps, TimerTypes
<1>3. CASE mqtt_cyclic_timer
  <2>1. /\ running = "mqtt"
        /\ \/ next_timeout' = sys_timeout(next_timeout, "mqtt")
           \/ next_timeout' = next_timeout
    BY <1>3 DEF mqtt_cyclic_timer
  <2> QED
    BY <1>1, <2>1, RelativeMaps, TimerTypes
<1> QED
  BY <1>2, <1>3, CyclicMaps DEF HandlerReturns

LEMMA NextMaps == IInv /\ [Next]_vars => [Promised!Next]_(Promised!vars)
<1> SUFFICES ASSUME IInv, [Next]_vars
             PROVE  Promised!Next \/ UNCHANGED Promised!vars
  OBVIOUS
<1>1. CASE \/ UNCHANGED vars \/ TcpRmv \/ Check \/ Return
  BY <1>1, Unseen DEF vars, TcpRmv, Check, Return, listVars, callVars
<1>2. CASE Tick
  BY <1>2, TickMaps DEF Promised!Next
<1> QED
  BY <1>1, <1>2, TcpRegMaps, MqttConnectingMaps, MqttCloseMaps, ExpireMaps, HandlerMaps
  DEF Next

-----------------------------------------------------------------------------
\* Whoever uses sys_timeout may forget the list and the wrap-around: a timer
\* runs when it is due, never before one that was due earlier, the cyclic ones
\* on their grid.
THEOREM TimersImplemented == Spec => RefinesTimers
<1>1. Init => Promised!Init
  BY InitMaps
<1>2. IInv /\ [Next]_vars => [Promised!Next]_(Promised!vars)
  BY NextMaps
<1> QED
  BY <1>1, <1>2, InvAlways, PTL DEF Spec, RefinesTimers, Promised!Spec
=============================================================================
