---------------------------- MODULE KernelProofs ----------------------------
(***************************************************************************)
(* Proofs about Kernel, for every set of tasks, every delay shorter than   *)
(* the counter of ticks takes to wrap around, and any number of ticks that *)
(* come while the scheduler is suspended: no task is ever lost or in two   *)
(* lists, the running one has the highest priority of those that are       *)
(* ready, every delay lasts as many ticks as the task said, and the        *)
(* watchdog is fed before a bound that the delays determine.               *)
(***************************************************************************)
EXTENDS Kernel, SequenceTheorems, FiniteSetTheorems, TLAPS

\* Induction over the natural numbers, for a set instead of a formula.
LEMMA Induction ==
  ASSUME NEW S \in SUBSET Nat, 0 \in S, \A n \in S : n + 1 \in S
  PROVE  S = Nat
<1> SUFFICES ASSUME S # Nat
             PROVE  FALSE
  OBVIOUS
<1> DEFINE T == Nat \ S
           R == OpToRel(<, Nat)
<1>1. IsWellFoundedOn(R, Nat)
  BY NatLessThanWellFounded
<1>2. T \subseteq Nat /\ T # {}
  OBVIOUS
<1>3. PICK x \in T : \A y \in T : ~ (<<y, x>> \in R)
  BY <1>1, <1>2, WFMin
<1>4. x # 0 /\ x \in Nat /\ x - 1 \in Nat
  OBVIOUS
<1>5. x - 1 \in T
  OBVIOUS
<1>6. <<x - 1, x>> \in R
  BY <1>4 DEF OpToRel
<1> QED
  BY <1>3, <1>5, <1>6

\* A set of natural numbers has a least one.
LEMMA Least ==
  ASSUME NEW S \in SUBSET Nat, S # {}
  PROVE  \E x \in S : \A y \in S : x <= y
<1> DEFINE R == OpToRel(<, Nat)
<1>1. IsWellFoundedOn(R, Nat)
  BY NatLessThanWellFounded
<1>2. PICK x \in S : \A y \in S : ~ (<<y, x>> \in R)
  BY <1>1, WFMin
<1>3. ASSUME NEW y \in S, y < x
      PROVE  FALSE
  <2>1. <<y, x>> \in R
    BY <1>3 DEF OpToRel
  <2> QED
    BY <1>2, <2>1
<1>4. \A y \in S : x <= y
  BY <1>3
<1> QED
  BY <1>4

-----------------------------------------------------------------------------
(***************************************************************************)
(* Rings: xListEnd and the tasks of a set, each once.                      *)
(***************************************************************************)
Node == Task \cup {"end"}

IsRing(r, S) ==
  /\ r \in Seq(Node)
  /\ \A i, j \in 1..Len(r) : r[i] = r[j] => i = j
  /\ \A x : x \in S \cup {"end"} <=> \E i \in 1..Len(r) : r[i] = x

\* A ring holds xListEnd and one entry for each of its tasks.
LEMMA RingLen ==
  ASSUME NEW S, "end" \notin S, NEW r, IsRing(r, S)
  PROVE  /\ Len(r) \in Nat /\ Len(r) >= 1 /\ r # <<>> /\ Head(r) = r[1]
         /\ Len(r) = 1 <=> S = {}
         /\ \A i \in 1..Len(r) : r[i] \in Node /\ (r[i] = "end" \/ r[i] \in S)
<1>1. r \in Seq(Node) /\ Len(r) \in Nat
  BY LenProperties DEF IsRing
<1>2. PICK e \in 1..Len(r) : r[e] = "end"
  BY DEF IsRing
<1>3. Len(r) >= 1
  BY <1>1, <1>2
<1>4. r # <<>>
  BY <1>3, EmptySeq
<1>5. Head(r) = r[1]
  BY <1>1, <1>4
<1>6. \A i \in 1..Len(r) : r[i] \in Node /\ (r[i] = "end" \/ r[i] \in S)
  BY <1>1, ElementOfSeq DEF IsRing
<1>7. ASSUME Len(r) = 1
      PROVE  S = {}
  <2>1. \A i \in 1..Len(r) : i = e
    BY <1>2, <1>7
  <2>2. \A x \in S : x = "end"
    BY <1>2, <2>1 DEF IsRing
  <2> QED
    BY <2>2
<1>8. ASSUME Len(r) # 1
      PROVE  S # {}
  <2>1. 1 \in 1..Len(r) /\ 2 \in 1..Len(r)
    <3>1. \A n \in Nat : n >= 1 /\ n # 1 => 1 \in 1..n /\ 2 \in 1..n
      OBVIOUS
    <3> QED
      BY <1>1, <1>3, <1>8, <3>1
  <2>2. r[1] # r[2]
    BY <2>1 DEF IsRing
  <2>3. r[1] \in S \/ r[2] \in S
    BY <1>6, <2>1, <2>2
  <2> QED
    BY <2>3
<1> QED
  BY <1>1, <1>3, <1>4, <1>5, <1>6, <1>7, <1>8

\* vListInsertEnd.
LEMMA RingAppend ==
  ASSUME NEW S, "end" \notin S, NEW r, IsRing(r, S), NEW t \in Task, t # "end", t \notin S
  PROVE  /\ IsRing(Append(r, t), S \cup {t})
         /\ Head(Append(r, t)) = Head(r) /\ Len(Append(r, t)) = Len(r) + 1
<1>1. r \in Seq(Node) /\ Len(r) \in Nat /\ Len(r) >= 1
  BY RingLen DEF IsRing
<1> DEFINE a == Append(r, t)
<1>2. /\ a \in Seq(Node) /\ a # <<>> /\ Len(a) = Len(r) + 1
      /\ \A i \in 1..Len(r) : a[i] = r[i]
      /\ a[Len(r) + 1] = t
  BY <1>1, AppendProperties DEF Node
<1> HIDE DEF a
<1>3. \A i \in 1..Len(r) : r[i] # t
  BY DEF IsRing
<1>4. \A i \in 1..Len(a) : i \in 1..Len(r) \/ i = Len(r) + 1
  BY <1>1, <1>2
<1>5. ASSUME NEW i \in 1..Len(a), NEW j \in 1..Len(a), a[i] = a[j]
      PROVE  i = j
  <2>1. CASE i \in 1..Len(r) /\ j \in 1..Len(r)
    BY <1>2, <1>5, <2>1 DEF IsRing
  <2> QED
    BY <1>2, <1>3, <1>4, <1>5, <2>1
<1>6. ASSUME NEW x
      PROVE  x \in S \cup {t} \cup {"end"} <=> \E i \in 1..Len(a) : a[i] = x
  <2>1. x \in S \cup {"end"} <=> \E i \in 1..Len(r) : r[i] = x
    BY DEF IsRing
  <2>2. \A i \in 1..Len(r) : i \in 1..Len(a) /\ Len(r) + 1 \in 1..Len(a)
    BY <1>1, <1>2
  <2>3. 1 \in 1..Len(r)
    BY <1>1
  <2> QED
    BY <1>2, <1>4, <2>1, <2>2, <2>3
<1>7. IsRing(a, S \cup {t})
  BY <1>2, <1>5, <1>6 DEF IsRing
<1>8. Head(a) = a[1] /\ Head(r) = r[1] /\ 1 \in 1..Len(r)
  BY <1>1, <1>2, RingLen
<1> QED
  BY <1>2, <1>7, <1>8 DEF a

\* The tasks of a set, each once.
AreTasks(u, W) ==
  /\ u \in Seq(Task) /\ "end" \notin W
  /\ \A i, j \in 1..Len(u) : u[i] = u[j] => i = j
  /\ \A x : x \in W <=> \E i \in 1..Len(u) : u[i] = x

\* A ring that begins like r.
Prolongs(r, a) == Len(a) >= Len(r) /\ \A i \in 1..Len(r) : a[i] = r[i]

IsJoined(a, r, S, u, W) ==
  /\ IsRing(a, S \cup W) /\ Head(a) = Head(r) /\ Len(a) = Len(r) + Len(u)
  /\ Prolongs(r, a)

\* Several tasks are put at the end.
LEMMA RingConcat ==
  ASSUME NEW S, "end" \notin S, NEW r, IsRing(r, S), NEW u, NEW W, AreTasks(u, W),
         S \cap W = {}
  PROVE  IsJoined(r \o u, r, S, u, W)
<1>0. /\ u \in Seq(Task) /\ "end" \notin W
      /\ \A i, j \in 1..Len(u) : u[i] = u[j] => i = j
      /\ \A x : x \in W <=> \E i \in 1..Len(u) : u[i] = x
  BY DEF AreTasks
<1>1. r \in Seq(Node) /\ Len(r) \in Nat /\ Len(r) >= 1
  BY RingLen DEF IsRing
<1>2. u \in Seq(Node) /\ Len(u) \in Nat
  <2>1. Len(u) \in Nat /\ \A i \in 1..Len(u) : u[i] \in Node
    BY <1>0, LenProperties, ElementOfSeq DEF Node
  <2>2. u = [i \in 1..Len(u) |-> u[i]]
    BY <1>0, LenProperties
  <2> QED
    BY <2>1, <2>2, IsASeq
<1> DEFINE a == r \o u
<1>3. /\ a \in Seq(Node) /\ Len(a) = Len(r) + Len(u)
      /\ \A i \in 1..(Len(r) + Len(u)) : a[i] = IF i <= Len(r) THEN r[i] ELSE u[i - Len(r)]
  BY <1>1, <1>2, ConcatProperties
<1> HIDE DEF a
<1>4. \A i \in 1..Len(a) : \/ i \in 1..Len(r) /\ a[i] = r[i]
                           \/ i - Len(r) \in 1..Len(u) /\ i > Len(r) /\ a[i] = u[i - Len(r)]
  BY <1>1, <1>2, <1>3
<1>5. \A i \in 1..Len(r), j \in 1..Len(u) : r[i] # u[j]
  <2> SUFFICES ASSUME NEW i \in 1..Len(r), NEW j \in 1..Len(u), r[i] = u[j]
               PROVE  FALSE
    OBVIOUS
  <2>1. u[j] \in W /\ r[i] \in S \cup {"end"}
    BY <1>0 DEF IsRing
  <2> QED
    BY <1>0, <2>1
<1>6. ASSUME NEW i \in 1..Len(a), NEW j \in 1..Len(a), a[i] = a[j]
      PROVE  i = j
  <2>1. CASE i \in 1..Len(r) /\ j \in 1..Len(r) /\ a[i] = r[i] /\ a[j] = r[j]
    BY <1>6, <2>1 DEF IsRing
  <2>2. CASE i - Len(r) \in 1..Len(u) /\ j - Len(r) \in 1..Len(u)
             /\ a[i] = u[i - Len(r)] /\ a[j] = u[j - Len(r)]
    <3>1. i - Len(r) = j - Len(r)
      BY <1>0, <1>6, <2>2
    <3> QED
      BY <1>1, <3>1
  <2> QED
    BY <1>4, <1>5, <1>6, <2>1, <2>2
<1>7. ASSUME NEW x
      PROVE  x \in S \cup W \cup {"end"} <=> \E i \in 1..Len(a) : a[i] = x
  <2>1. x \in S \cup {"end"} <=> \E i \in 1..Len(r) : r[i] = x
    BY DEF IsRing
  <2>2. ASSUME NEW i \in 1..Len(r)
        PROVE  i \in 1..Len(a) /\ a[i] = r[i]
    BY <1>1, <1>2, <1>3
  <2>3. ASSUME NEW i \in 1..Len(u)
        PROVE  Len(r) + i \in 1..Len(a) /\ a[Len(r) + i] = u[i]
    <3>1. Len(r) + i \in 1..Len(a) /\ (Len(r) + i) - Len(r) = i /\ ~(Len(r) + i <= Len(r))
      BY <1>1, <1>2, <1>3
    <3> QED
      BY <1>3, <3>1
  <2>4. x \in W <=> \E i \in 1..Len(u) : u[i] = x
    BY <1>0
  <2>5. ASSUME NEW i \in 1..Len(a), a[i] = x
        PROVE  x \in S \cup W \cup {"end"}
    BY <1>4, <2>1, <2>4, <2>5
  <2> QED
    BY <2>1, <2>2, <2>3, <2>4, <2>5
<1>8. IsRing(a, S \cup W)
  BY <1>3, <1>6, <1>7 DEF IsRing
<1>9. Head(a) = a[1] /\ Head(r) = r[1] /\ a[1] = r[1]
  <2>1. 1 \in 1..(Len(r) + Len(u)) /\ 1 <= Len(r)
    BY <1>1, <1>2
  <2>2. Head(r) = r[1] /\ Head(a) = a[1]
    BY <1>8, RingLen
  <2> QED
    BY <1>3, <2>1, <2>2
<1>10. Prolongs(r, a)
  <2>1. Len(a) >= Len(r)
    BY <1>1, <1>2, <1>3
  <2>2. ASSUME NEW i \in 1..Len(r)
        PROVE  a[i] = r[i]
    BY <1>1, <1>2, <1>3
  <2> QED
    BY <2>1, <2>2 DEF Prolongs
<1> QED
  BY <1>3, <1>8, <1>9, <1>10 DEF a, IsJoined

\* The first of a ring is gone, and the last one is where it was.
SteppedBack(r, a) ==
  Len(a) = Len(r) - 1 /\ \A i \in 1..(Len(r) - 1) : a[i] = IF i = 1 THEN r[Len(r)] ELSE r[i]

\* uxListRemove of the task pxIndex points to: it steps back.
LEMMA RingRemove ==
  ASSUME NEW S, "end" \notin S, NEW r, IsRing(r, S), NEW t \in S, Head(r) = t
  PROVE  IsRing(uxListRemove(r, t), S \ {t}) /\ SteppedBack(r, uxListRemove(r, t))
<1> DEFINE n == Len(r)
           s == SubSeq(r, 2, n - 1)
           a == <<r[n]>> \o s
<1>1. r \in Seq(Node) /\ n \in Nat /\ n >= 1 /\ r[1] = t
  BY RingLen DEF IsRing
<1>2. n >= 2
  <2>1. n # 1
    BY RingLen
  <2>2. \A k \in Nat : k >= 1 /\ k # 1 => k >= 2
    OBVIOUS
  <2> QED
    BY <1>1, <2>1, <2>2
<1>3. uxListRemove(r, t) = a
  BY DEF uxListRemove
<1>4. \A i \in 1..n : r[i] \in Node
  BY RingLen
<1>5. /\ s \in Seq(Node) /\ Len(s) = n - 2
      /\ \A i \in 1..(n - 2) : s[i] = r[i + 1]
  <2>1. \A i \in 2..(n - 1) : r[i] \in Node
    BY <1>1, <1>4
  <2>2. 2 \in Int /\ n - 1 \in Int
    BY <1>1
  <2>3. /\ s \in Seq(Node)
        /\ Len(s) = IF 2 <= n - 1 THEN (n - 1) - 2 + 1 ELSE 0
        /\ \A i \in 1..((n - 1) - 2 + 1) : s[i] = r[2 + i - 1]
    BY <2>1, <2>2, SubSeqProperties
  <2>4. (n - 1) - 2 + 1 = n - 2 /\ (~(2 <= n - 1) => n - 2 = 0)
        /\ \A i \in 1..(n - 2) : 2 + i - 1 = i + 1
    <3>1. \A k \in Nat : k >= 2 =>
            /\ (k - 1) - 2 + 1 = k - 2 /\ (~(2 <= k - 1) => k - 2 = 0)
            /\ \A i \in 1..(k - 2) : 2 + i - 1 = i + 1
      OBVIOUS
    <3> QED
      BY <1>1, <1>2, <3>1
  <2> HIDE DEF s, n
  <2> QED
    BY <2>3, <2>4
<1> HIDE DEF s
<1>6. /\ <<r[n]>> \in Seq(Node) /\ Len(<<r[n]>>) = 1 /\ <<r[n]>>[1] = r[n]
  BY <1>2, <1>4
<1>7. /\ a \in Seq(Node) /\ Len(a) = n - 1
      /\ \A i \in 1..(n - 1) : a[i] = IF i = 1 THEN r[n] ELSE r[i]
  <2>1. /\ a \in Seq(Node) /\ Len(a) = 1 + (n - 2)
        /\ \A i \in 1..(1 + (n - 2)) : a[i] = IF i <= 1 THEN <<r[n]>>[i] ELSE s[i - 1]
    BY <1>5, <1>6, ConcatProperties
  <2>2. 1 + (n - 2) = n - 1
    BY <1>1
  <2>3. ASSUME NEW i \in 1..(n - 1), i # 1
        PROVE  a[i] = r[i]
    <3>1. i - 1 \in 1..(n - 2) /\ (i - 1) + 1 = i /\ ~(i <= 1)
      BY <1>1, <2>3
    <3>2. a[i] = s[i - 1]
      BY <2>1, <2>2, <3>1
    <3> QED
      BY <1>5, <3>1, <3>2
  <2> QED
    BY <1>6, <2>1, <2>2, <2>3
<1> HIDE DEF a
<1>8. \A i, j \in 1..n : r[i] = r[j] => i = j
  BY DEF IsRing
<1>9. \A i \in 1..(n - 1) : i \in 1..n /\ i # n /\ n \in 1..n
  BY <1>1
<1>10. ASSUME NEW i \in 1..Len(a), NEW j \in 1..Len(a), a[i] = a[j]
       PROVE  i = j
  BY <1>7, <1>8, <1>9, <1>10
<1>11. ASSUME NEW x
       PROVE  x \in (S \ {t}) \cup {"end"} <=> \E i \in 1..Len(a) : a[i] = x
  <2>1. x \in S \cup {"end"} <=> \E i \in 1..n : r[i] = x
    BY DEF IsRing
  <2>2. ASSUME NEW i \in 1..(n - 1)
        PROVE  a[i] # t
    <3>1. 1 \in 1..n /\ n # 1
      BY <1>1, <1>2
    <3> QED
      BY <1>1, <1>7, <1>8, <1>9, <3>1
  <2>3. ASSUME NEW i \in 1..n, r[i] # t
        PROVE  \E j \in 1..(n - 1) : a[j] = r[i]
    <3>1. i # 1
      BY <1>1, <2>3
    <3>2. 1 \in 1..(n - 1) /\ (i # n => i \in 1..(n - 1))
      BY <1>1, <1>2
    <3> QED
      BY <1>7, <3>1, <3>2
  <2>4. t # "end"
    OBVIOUS
  <2>5. ASSUME x \in (S \ {t}) \cup {"end"}
        PROVE  \E i \in 1..Len(a) : a[i] = x
    <3>1. PICK i \in 1..n : r[i] = x /\ x # t
      BY <2>1, <2>4, <2>5
    <3> QED
      BY <1>7, <2>3, <3>1
  <2>6. ASSUME NEW i \in 1..Len(a), a[i] = x
        PROVE  x \in (S \ {t}) \cup {"end"}
    <3>1. i \in 1..(n - 1) /\ x # t
      BY <1>7, <2>2, <2>6
    <3>2. \E j \in 1..n : r[j] = x
      BY <1>7, <1>9, <2>6, <3>1
    <3> QED
      BY <2>1, <3>1, <3>2
  <2> QED
    BY <2>5, <2>6
<1>12. IsRing(a, S \ {t})
  BY <1>7, <1>10, <1>11 DEF IsRing
<1>13. SteppedBack(r, a)
  BY <1>7 DEF SteppedBack
<1> QED
  BY <1>3, <1>12, <1>13

\* pxIndex goes on by one.
Turn(r) == Append(Tail(r), Head(r))

\* pxIndex takes one step; nothing else changes.
LEMMA RingTurn ==
  ASSUME NEW S, "end" \notin S, NEW r, IsRing(r, S)
  PROVE  /\ IsRing(Turn(r), S) /\ Len(Turn(r)) = Len(r)
         /\ \A i \in 1..Len(r) : Turn(r)[i] = IF i = Len(r) THEN r[1] ELSE r[i + 1]
<1> DEFINE n == Len(r)
           a == Turn(r)
<1>1. r \in Seq(Node) /\ n \in Nat /\ n >= 1 /\ r # <<>> /\ Head(r) = r[1]
  BY RingLen DEF IsRing
<1>2. /\ Tail(r) \in Seq(Node) /\ Len(Tail(r)) = n - 1 /\ Head(r) \in Node
      /\ \A i \in 1..(n - 1) : Tail(r)[i] = r[i + 1]
  BY <1>1, HeadTailProperties
<1>3. /\ a \in Seq(Node) /\ Len(a) = n
      /\ \A i \in 1..(n - 1) : a[i] = r[i + 1]
      /\ a[n] = r[1]
  <2>1. /\ a \in Seq(Node) /\ Len(a) = (n - 1) + 1
        /\ \A i \in 1..(n - 1) : a[i] = Tail(r)[i]
        /\ a[(n - 1) + 1] = Head(r)
    BY <1>2, AppendProperties DEF Turn
  <2>2. (n - 1) + 1 = n
    BY <1>1
  <2> QED
    BY <1>1, <1>2, <2>1, <2>2
<1> HIDE DEF a
<1>4. \A i \in 1..n : /\ i # n => i \in 1..(n - 1) /\ i + 1 \in 1..n /\ i + 1 # 1
                      /\ i # 1 => i - 1 \in 1..(n - 1) /\ (i - 1) + 1 = i /\ i - 1 \in 1..n
                      /\ 1 \in 1..n /\ n \in 1..n
  BY <1>1
<1>5. \A i \in 1..n : a[i] = IF i = n THEN r[1] ELSE r[i + 1]
  BY <1>3, <1>4
<1>6. ASSUME NEW i \in 1..n, NEW j \in 1..n, a[i] = a[j]
      PROVE  i = j
  <2>1. \A k, l \in 1..n : r[k] = r[l] => k = l
    BY DEF IsRing
  <2>2. CASE i = n \/ j = n
    BY <1>4, <1>5, <1>6, <2>1, <2>2
  <2>3. CASE i # n /\ j # n
    <3>1. i + 1 = j + 1
      BY <1>4, <1>5, <1>6, <2>1, <2>3
    <3> QED
      BY <3>1
  <2> QED
    BY <2>2, <2>3
<1>7. ASSUME NEW x
      PROVE  x \in S \cup {"end"} <=> \E i \in 1..n : a[i] = x
  <2>1. x \in S \cup {"end"} <=> \E i \in 1..n : r[i] = x
    BY DEF IsRing
  <2>2. ASSUME NEW i \in 1..n
        PROVE  \E j \in 1..n : a[j] = r[i]
    <3>1. CASE i = 1
      BY <1>3, <1>4, <3>1
    <3>2. CASE i # 1
      <4>1. i - 1 \in 1..n /\ i - 1 # n /\ (i - 1) + 1 = i
        BY <1>4, <3>2
      <4>2. a[i - 1] = r[i]
        BY <1>5, <4>1
      <4> QED
        BY <4>1, <4>2
    <3> QED
      BY <3>1, <3>2
  <2>3. ASSUME NEW i \in 1..n
        PROVE  \E j \in 1..n : r[j] = a[i]
    BY <1>4, <1>5
  <2> QED
    BY <2>1, <2>2, <2>3
<1>8. IsRing(a, S)
  BY <1>3, <1>6, <1>7 DEF IsRing
<1> QED
  BY <1>3, <1>5, <1>8 DEF a

\* It is at a task then.
LEMMA RingNext ==
  ASSUME NEW S, "end" \notin S, S # {}, NEW r, IsRing(r, S)
  PROVE  /\ IsRing(listGET_OWNER_OF_NEXT_ENTRY(r), S)
         /\ Head(listGET_OWNER_OF_NEXT_ENTRY(r)) \in S
         /\ Len(listGET_OWNER_OF_NEXT_ENTRY(r)) = Len(r)
<1>1. listGET_OWNER_OF_NEXT_ENTRY(r) =
        IF Head(Turn(r)) = "end" THEN Turn(Turn(r)) ELSE Turn(r)
  BY DEF listGET_OWNER_OF_NEXT_ENTRY, Turn
<1>2. IsRing(Turn(r), S) /\ Len(Turn(r)) = Len(r)
  BY RingTurn
<1>3. IsRing(Turn(Turn(r)), S) /\ Len(Turn(Turn(r))) = Len(r)
  <2> DEFINE q == Turn(r)
  <2>1. IsRing(q, S) /\ Len(q) = Len(r)
    BY <1>2
  <2> HIDE DEF q
  <2>2. IsRing(Turn(q), S)
    BY ONLY <2>1, "end" \notin S, RingTurn
  <2>3. Len(Turn(q)) = Len(q)
    BY ONLY <2>1, "end" \notin S, RingTurn
  <2> QED
    BY <2>1, <2>2, <2>3 DEF q
<1>4. Len(r) \in Nat /\ Len(r) >= 2
  <2>1. Len(r) \in Nat /\ Len(r) >= 1
    BY RingLen
  <2>2. Len(r) # 1
    BY RingLen
  <2> DEFINE n == Len(r)
  <2>3. n \in Nat /\ n >= 1 /\ n # 1
    BY <2>1, <2>2
  <2> HIDE DEF n
  <2>4. n \in Nat /\ n >= 2
    BY ONLY <2>3
  <2> QED
    BY <2>4 DEF n
<1>5. CASE Head(Turn(r)) = "end"
  <2>1. Head(Turn(Turn(r))) = Turn(r)[2]
    <3>1. 1 \in 1..Len(Turn(r)) /\ 1 # Len(Turn(r)) /\ 1 + 1 = 2
      BY <1>2, <1>4
    <3>2. Turn(Turn(r))[1] = Turn(r)[1 + 1]
      BY <1>2, <3>1, RingTurn
    <3> QED
      BY <1>3, <3>1, <3>2, RingLen
  <2>2. Turn(r)[1] = "end"
    BY <1>2, <1>5, RingLen
  <2>3. 1 \in 1..Len(Turn(r)) /\ 2 \in 1..Len(Turn(r))
    BY <1>2, <1>4
  <2>4. Turn(r)[2] # "end"
    BY <1>2, <2>2, <2>3 DEF IsRing
  <2>5. Turn(r)[2] \in S
    BY <1>2, <2>3, <2>4, RingLen
  <2> QED
    BY <1>1, <1>3, <1>5, <2>1, <2>5
<1>6. CASE Head(Turn(r)) # "end"
  <2>1. Head(Turn(r)) = Turn(r)[1] /\ 1 \in 1..Len(Turn(r))
    BY <1>2, <1>4, RingLen
  <2>2. Head(Turn(r)) \in S
    BY <1>2, <1>6, <2>1, RingLen
  <2> QED
    BY <1>1, <1>2, <1>6, <2>2
<1> QED
  BY <1>5, <1>6

-----------------------------------------------------------------------------
(***************************************************************************)
(* The delayed lists: in order, each task once.                            *)
(***************************************************************************)
LEMMA Constants ==
  /\ portMAX_DELAY \in Nat /\ Delay \in [App -> Nat]
  /\ \A t \in App : Delay[t] > 0 /\ Delay[t] < portMAX_DELAY
  /\ "InitTask" \notin App /\ "idle" \notin App /\ "end" \notin App
  /\ "end" \notin Task /\ App \subseteq Task /\ "InitTask" \in Task /\ "idle" \in Task
BY KernelAssumption DEF Task

In(L, e) == \E i \in 1..Len(L) : L[i] = e

IsList(L) ==
  /\ L \in Seq(Item)
  /\ \A i, j \in 1..Len(L) : i <= j => L[i].value <= L[j].value
  /\ \A i, j \in 1..Len(L) : L[i].task = L[j].task => i = j

\* What is in a list of tasks that sleep.
LEMMA ListTypes ==
  ASSUME NEW L, IsList(L)
  PROVE  /\ Len(L) \in Nat /\ L \in Seq(Item)
         /\ \A i \in 1..Len(L) : L[i] \in Item /\ L[i].task \in App /\ L[i].value \in Tick32
         /\ \A e : In(L, e) => e \in Item /\ e.task \in App /\ e.value \in Tick32
         /\ Tick32 \subseteq Nat
<1>1. Len(L) \in Nat /\ L \in Seq(Item)
  BY LenProperties DEF IsList
<1>2. \A i \in 1..Len(L) : L[i] \in Item
  BY <1>1, ElementOfSeq
<1> QED
  BY <1>1, <1>2, Constants DEF Item, In, Tick32

\* The list that vListInitialise makes.
LEMMA EmptyList == IsList(<<>>) /\ \A e : ~In(<<>>, e)
<1>1. <<>> \in Seq(Item) /\ Len(<<>>) = 0
  BY EmptySeq
<1> QED
  BY <1>1 DEF IsList, In

\* Up to where the values of a list are at most v.
Place(L, v, n) ==
  /\ n \in 0..Len(L)
  /\ \A i \in 1..n : L[i].value <= v
  /\ n < Len(L) => L[n + 1].value > v

\* There is such a place: what the CHOOSE of vListInsert chooses.
LEMMA PlaceExists ==
  ASSUME NEW L, IsList(L), NEW v \in Nat
  PROVE  \E n : Place(L, v, n)
<1>1. Len(L) \in Nat /\ \A i \in 1..Len(L) : L[i].value \in Nat
  BY ListTypes
<1> DEFINE S == {n \in 0..Len(L) : n = Len(L) \/ L[n + 1].value > v}
<1>2. S \in SUBSET Nat /\ S # {}
  BY <1>1
<1>3. PICK n \in S : \A m \in S : n <= m
  BY <1>2, Least
<1>4. n \in 0..Len(L) /\ (n < Len(L) => L[n + 1].value > v)
  BY <1>1
<1>5. ASSUME NEW i \in 1..n
      PROVE  L[i].value <= v
  <2>1. i - 1 \in 0..Len(L) /\ (i - 1) + 1 = i /\ i - 1 < n /\ i \in 1..Len(L)
    BY <1>1, <1>4
  <2>2. i - 1 \notin S
    <3>1. ~(n <= i - 1)
      BY <1>1, <1>4, <2>1
    <3> HIDE DEF S
    <3> QED
      BY <1>3, <3>1
  <2>3. ~(L[i].value > v)
    BY <2>1, <2>2
  <2> QED
    BY <1>1, <2>1, <2>3
<1> QED
  BY <1>4, <1>5 DEF Place

\* Before it the values are at most v, behind it they are more.
LEMMA PlaceSplits ==
  ASSUME NEW L, IsList(L), NEW v \in Nat, NEW n, Place(L, v, n)
  PROVE  /\ n \in Nat /\ n <= Len(L)
         /\ \A i \in 1..Len(L) : i <= n <=> L[i].value <= v
<1>1. Len(L) \in Nat /\ \A i \in 1..Len(L) : L[i].value \in Nat
  BY ListTypes
<1>2. n \in Nat /\ n <= Len(L)
  BY <1>1 DEF Place
<1>3. ASSUME NEW i \in 1..Len(L), i <= n
      PROVE  L[i].value <= v
  BY <1>1, <1>2, <1>3 DEF Place
<1>4. ASSUME NEW i \in 1..Len(L), ~(i <= n)
      PROVE  ~(L[i].value <= v)
  <2>1. n < Len(L) /\ n + 1 \in 1..Len(L) /\ n + 1 <= i
    BY <1>1, <1>2, <1>4
  <2>2. L[n + 1].value > v /\ L[n + 1].value <= L[i].value
    BY <2>1 DEF Place, IsList
  <2> QED
    BY <1>1, <2>1, <2>2
<1> QED
  BY <1>2, <1>3, <1>4

\* What vListInsert does.
LEMMA InsertIs ==
  ASSUME NEW L, IsList(L), NEW e \in Item, \A i \in 1..Len(L) : L[i].task # e.task
  PROVE  /\ IsList(vListInsert(L, e))
         /\ \A x : In(vListInsert(L, e), x) <=> In(L, x) \/ x = e
<1> DEFINE l == Len(L)
           M == vListInsert(L, e)
<1>1. /\ l \in Nat /\ L \in Seq(Item)
      /\ \A i \in 1..l : L[i] \in Item /\ L[i].value \in Nat
      /\ e.value \in Nat
  BY ListTypes, Constants DEF Item, Tick32
<1>2. PICK n : /\ Place(L, e.value, n)
               /\ M = SubSeq(L, 1, n) \o <<e>> \o SubSeq(L, n + 1, l)
  <2> DEFINE c == CHOOSE m \in 0..Len(L) :
                    /\ \A i \in 1..m : L[i].value <= e.value
                    /\ m < Len(L) => L[m + 1].value > e.value
  <2>1. \E n \in 0..Len(L) : /\ \A i \in 1..n : L[i].value <= e.value
                             /\ n < Len(L) => L[n + 1].value > e.value
    BY <1>1, PlaceExists DEF Place
  <2>2. Place(L, e.value, c)
    BY <2>1 DEF Place
  <2>3. M = SubSeq(L, 1, c) \o <<e>> \o SubSeq(L, c + 1, l)
    BY DEF vListInsert
  <2> QED
    BY <2>2, <2>3
<1>3. n \in Nat /\ n <= l /\ \A i \in 1..l : i <= n <=> L[i].value <= e.value
  BY <1>1, <1>2, PlaceSplits
<1> DEFINE A == SubSeq(L, 1, n)
           B == SubSeq(L, n + 1, l)
<1>4. /\ A \in Seq(Item) /\ Len(A) = n
      /\ \A i \in 1..n : A[i] = L[i]
  <2>1. \A i \in 1..n : L[i] \in Item
    BY <1>1, <1>3
  <2>2. /\ A \in Seq(Item) /\ Len(A) = IF 1 <= n THEN n - 1 + 1 ELSE 0
        /\ \A i \in 1..(n - 1 + 1) : A[i] = L[1 + i - 1]
    BY <1>3, <2>1, SubSeqProperties
  <2>3. n - 1 + 1 = n /\ (~(1 <= n) => n = 0) /\ \A i \in 1..n : 1 + i - 1 = i
    BY <1>3
  <2> HIDE DEF A
  <2> QED
    BY <2>2, <2>3
<1>5. /\ B \in Seq(Item) /\ Len(B) = l - n
      /\ \A i \in 1..(l - n) : B[i] = L[n + i]
  <2>1. \A i \in (n + 1)..l : L[i] \in Item
    BY <1>1, <1>3
  <2>2. n + 1 \in Int /\ l \in Int
    BY <1>1, <1>3
  <2>3. /\ B \in Seq(Item) /\ Len(B) = IF n + 1 <= l THEN l - (n + 1) + 1 ELSE 0
        /\ \A i \in 1..(l - (n + 1) + 1) : B[i] = L[(n + 1) + i - 1]
    BY <2>1, <2>2, SubSeqProperties
  <2>4. l - (n + 1) + 1 = l - n /\ (~(n + 1 <= l) => l - n = 0)
        /\ \A i \in 1..(l - n) : (n + 1) + i - 1 = n + i
    BY <1>1, <1>3
  <2> HIDE DEF B, l
  <2> QED
    BY <2>3, <2>4
<1> HIDE DEF A, B
<1>6. /\ <<e>> \in Seq(Item) /\ Len(<<e>>) = 1 /\ <<e>>[1] = e
  OBVIOUS
<1>7. /\ A \o <<e>> \in Seq(Item) /\ Len(A \o <<e>>) = n + 1
      /\ \A i \in 1..(n + 1) : (A \o <<e>>)[i] = IF i <= n THEN L[i] ELSE e
  <2>1. /\ A \o <<e>> \in Seq(Item) /\ Len(A \o <<e>>) = n + 1
        /\ \A i \in 1..(n + 1) : (A \o <<e>>)[i] = IF i <= n THEN A[i] ELSE <<e>>[i - n]
    BY <1>4, <1>6, ConcatProperties
  <2>2. \A i \in 1..(n + 1) : (i <= n => i \in 1..n) /\ (~(i <= n) => i - n = 1)
    BY <1>3
  <2> QED
    BY <1>4, <1>6, <2>1, <2>2
<1>8. /\ M \in Seq(Item) /\ Len(M) = l + 1
      /\ \A i \in 1..(l + 1) :
           M[i] = IF i <= n THEN L[i] ELSE IF i = n + 1 THEN e ELSE L[i - 1]
  <2>1. /\ M \in Seq(Item) /\ Len(M) = (n + 1) + (l - n)
        /\ \A i \in 1..((n + 1) + (l - n)) :
             M[i] = IF i <= n + 1 THEN (A \o <<e>>)[i] ELSE B[i - (n + 1)]
    <3>1. M = (A \o <<e>>) \o B
      BY <1>2 DEF A, B
    <3> DEFINE C == A \o <<e>>
    <3> HIDE DEF C, M
    <3>2. C \in Seq(Item) /\ B \in Seq(Item) /\ M = C \o B
      BY <1>5, <1>7, <3>1 DEF C
    <3>3. /\ M \in Seq(Item) /\ Len(M) = Len(C) + Len(B)
          /\ \A i \in 1..(Len(C) + Len(B)) :
               M[i] = IF i <= Len(C) THEN C[i] ELSE B[i - Len(C)]
      BY <3>2, ConcatProperties
    <3>4. Len(C) = n + 1 /\ Len(B) = l - n
      BY <1>5, <1>7 DEF C
    <3> QED
      BY <3>3, <3>4 DEF C
  <2>2. (n + 1) + (l - n) = l + 1
    BY <1>1, <1>3
  <2>3. \A i \in 1..(l + 1) :
          /\ i <= n + 1 => i \in 1..(n + 1)
          /\ ~(i <= n) /\ i <= n + 1 => i = n + 1
          /\ ~(i <= n + 1) => /\ i - (n + 1) \in 1..(l - n) /\ n + (i - (n + 1)) = i - 1
                              /\ ~(i <= n) /\ i # n + 1
    BY <1>1, <1>3
  <2> HIDE DEF M, l
  <2> QED
    BY <1>5, <1>7, <2>1, <2>2, <2>3
<1> HIDE DEF M
<1>9. \A i \in 1..(l + 1) :
        \/ i <= n /\ i \in 1..l /\ M[i] = L[i]
        \/ i = n + 1 /\ M[i] = e
        \/ i > n + 1 /\ i - 1 \in 1..l /\ ~(i - 1 <= n) /\ M[i] = L[i - 1]
  BY <1>1, <1>3, <1>8
<1>10. ASSUME NEW i \in 1..(l + 1), NEW j \in 1..(l + 1), i <= j
       PROVE  M[i].value <= M[j].value
  <2>1. \A a, b \in 1..l : a <= b => L[a].value <= L[b].value
    BY DEF IsList
  <2>2. CASE i <= n /\ i \in 1..l /\ M[i] = L[i]
    <3>1. CASE j <= n /\ j \in 1..l /\ M[j] = L[j]
      BY <1>10, <2>1, <2>2, <3>1
    <3>2. CASE j = n + 1 /\ M[j] = e
      BY <1>3, <2>2, <3>2
    <3>3. CASE j > n + 1 /\ j - 1 \in 1..l /\ ~(j - 1 <= n) /\ M[j] = L[j - 1]
      <4>1. i <= j - 1
        BY <1>3, <2>2, <3>3
      <4> QED
        BY <2>1, <2>2, <3>3, <4>1
    <3> QED
      BY <1>9, <3>1, <3>2, <3>3
  <2>3. CASE i = n + 1 /\ M[i] = e
    <3>1. CASE j = n + 1 /\ M[j] = e
      BY <1>1, <2>3, <3>1
    <3>2. CASE j > n + 1 /\ j - 1 \in 1..l /\ ~(j - 1 <= n) /\ M[j] = L[j - 1]
      <4>1. ~(L[j - 1].value <= e.value) /\ L[j - 1].value \in Nat
        BY <1>1, <1>3, <3>2
      <4> QED
        BY <1>1, <2>3, <3>2, <4>1
    <3>3. ~(j <= n)
      BY <1>3, <1>10, <2>3
    <3> QED
      BY <1>9, <3>1, <3>2, <3>3
  <2>4. CASE i > n + 1 /\ i - 1 \in 1..l /\ ~(i - 1 <= n) /\ M[i] = L[i - 1]
    <3>1. j > n + 1 /\ j # n + 1 /\ ~(j <= n) /\ i - 1 <= j - 1
      BY <1>3, <1>10, <2>4
    <3> QED
      BY <1>9, <2>1, <2>4, <3>1
  <2> QED
    BY <1>9, <2>2, <2>3, <2>4
<1>11. ASSUME NEW i \in 1..(l + 1), NEW j \in 1..(l + 1), M[i].task = M[j].task
       PROVE  i = j
  <2>1. \A a, b \in 1..l : L[a].task = L[b].task => a = b
    BY DEF IsList
  <2>2. CASE i <= n /\ i \in 1..l /\ M[i] = L[i]
    <3>1. CASE j <= n /\ j \in 1..l /\ M[j] = L[j]
      BY <1>11, <2>1, <2>2, <3>1
    <3>2. CASE j > n + 1 /\ j - 1 \in 1..l /\ ~(j - 1 <= n) /\ M[j] = L[j - 1]
      BY <1>11, <2>1, <2>2, <3>2
    <3> QED
      BY <1>9, <1>11, <2>2, <3>1, <3>2
  <2>3. CASE i = n + 1 /\ M[i] = e
    BY <1>9, <1>11, <2>3
  <2>4. CASE i > n + 1 /\ i - 1 \in 1..l /\ ~(i - 1 <= n) /\ M[i] = L[i - 1]
    <3>1. CASE j <= n /\ j \in 1..l /\ M[j] = L[j]
      BY <1>11, <2>1, <2>4, <3>1
    <3>2. CASE j > n + 1 /\ j - 1 \in 1..l /\ ~(j - 1 <= n) /\ M[j] = L[j - 1]
      <4>1. i - 1 = j - 1
        BY <1>11, <2>1, <2>4, <3>2
      <4> QED
        BY <4>1
    <3> QED
      BY <1>9, <1>11, <2>4, <3>1, <3>2
  <2> QED
    BY <1>9, <2>2, <2>3, <2>4
<1>12. ASSUME NEW x
       PROVE  In(M, x) <=> In(L, x) \/ x = e
  <2>1. ASSUME NEW i \in 1..l
        PROVE  \E j \in 1..(l + 1) : M[j] = L[i]
    <3>1. CASE i <= n
      <4>1. i \in 1..(l + 1)
        BY <1>1
      <4> QED
        BY <1>8, <3>1, <4>1
    <3>2. CASE ~(i <= n)
      <4>1. i + 1 \in 1..(l + 1) /\ ~(i + 1 <= n) /\ i + 1 # n + 1 /\ (i + 1) - 1 = i
        BY <1>1, <1>3, <3>2
      <4> QED
        BY <1>8, <4>1
    <3> QED
      BY <3>1, <3>2
  <2>2. n + 1 \in 1..(l + 1) /\ ~(n + 1 <= n)
    BY <1>1, <1>3
  <2>3. M[n + 1] = e
    BY <1>8, <2>2
  <2>4. In(L, x) => In(M, x)
    BY <1>8, <2>1 DEF In
  <2>5. In(M, x) => In(L, x) \/ x = e
    BY <1>8, <1>9 DEF In
  <2>6. In(M, e)
    BY <1>8, <2>2, <2>3 DEF In
  <2> QED
    BY <2>4, <2>5, <2>6
<1>13. IsList(M)
  BY <1>8, <1>10, <1>11 DEF IsList
<1> QED
  BY <1>12, <1>13 DEF M

\* What is left when the first n items are taken.
LEMMA RestIs ==
  ASSUME NEW L, IsList(L), NEW n \in 0..Len(L)
  PROVE  /\ IsList(SubSeq(L, n + 1, Len(L)))
         /\ \A x : In(SubSeq(L, n + 1, Len(L)), x) <=>
                     \E i \in 1..Len(L) : ~(i <= n) /\ L[i] = x
<1> DEFINE l == Len(L)
           M == SubSeq(L, n + 1, l)
<1>1. l \in Nat /\ n \in Nat /\ n <= l /\ \A i \in 1..l : L[i] \in Item
  BY ListTypes
<1>2. /\ M \in Seq(Item) /\ Len(M) = l - n
      /\ \A i \in 1..(l - n) : M[i] = L[n + i]
  <2>1. \A i \in (n + 1)..l : L[i] \in Item
    BY <1>1
  <2>2. n + 1 \in Int /\ l \in Int
    BY <1>1
  <2>3. /\ M \in Seq(Item) /\ Len(M) = IF n + 1 <= l THEN l - (n + 1) + 1 ELSE 0
        /\ \A i \in 1..(l - (n + 1) + 1) : M[i] = L[(n + 1) + i - 1]
    BY <2>1, <2>2, SubSeqProperties
  <2>4. l - (n + 1) + 1 = l - n /\ (~(n + 1 <= l) => l - n = 0)
        /\ \A i \in 1..(l - n) : (n + 1) + i - 1 = n + i
    BY <1>1
  <2> HIDE DEF M, l
  <2> QED
    BY <2>3, <2>4
<1> HIDE DEF M
<1>3. \A i \in 1..(l - n) : n + i \in 1..l /\ ~(n + i <= n)
  BY <1>1
<1>4. \A i, j \in 1..(l - n) : (i <= j => n + i <= n + j) /\ (n + i = n + j => i = j)
  BY <1>1
<1>5. IsList(M)
  <2>1. /\ \A i, j \in 1..l : i <= j => L[i].value <= L[j].value
        /\ \A i, j \in 1..l : L[i].task = L[j].task => i = j
    BY DEF IsList
  <2> HIDE DEF l
  <2>2. \A i, j \in 1..(l - n) : i <= j => M[i].value <= M[j].value
    BY <1>2, <1>3, <1>4, <2>1
  <2>3. \A i, j \in 1..(l - n) : M[i].task = M[j].task => i = j
    BY <1>2, <1>3, <1>4, <2>1
  <2> QED
    BY <1>2, <2>2, <2>3 DEF IsList
<1>6. ASSUME NEW x
      PROVE  In(M, x) <=> \E i \in 1..l : ~(i <= n) /\ L[i] = x
  <2>1. \A i \in 1..l : ~(i <= n) => i - n \in 1..(l - n) /\ n + (i - n) = i
    BY <1>1
  <2>2. ASSUME NEW i \in 1..l, ~(i <= n), L[i] = x
        PROVE  In(M, x)
    BY <1>2, <2>1, <2>2 DEF In
  <2>3. In(M, x) => \E i \in 1..l : ~(i <= n) /\ L[i] = x
    BY <1>2, <1>3 DEF In
  <2> QED
    BY <2>2, <2>3
<1> QED
  BY <1>5, <1>6 DEF M

\* The first value of a list, or portMAX_DELAY.
Earliest(L, u) ==
  /\ u \in Tick32
  /\ \A e : In(L, e) => u <= e.value
  /\ u = portMAX_DELAY \/ \E e : In(L, e) /\ e.value = u

\* It is what prvResetNextTaskUnblockTime computes.
LEMMA EarliestIs ==
  ASSUME NEW L, IsList(L)
  PROVE  Earliest(L, prvResetNextTaskUnblockTime(L))
<1>1. CASE L = <<>>
  BY <1>1, EmptyList, Constants DEF Earliest, prvResetNextTaskUnblockTime, Tick32
<1>2. CASE L # <<>>
  <2>1. Len(L) \in Nat /\ L \in Seq(Item)
    BY ListTypes
  <2>2. Len(L) # 0 /\ Head(L) = L[1]
    BY <1>2, <2>1, EmptySeq
  <2>3. 1 \in 1..Len(L) /\ \A i \in 1..Len(L) : 1 <= i
    BY <2>1, <2>2
  <2>4. \A i \in 1..Len(L) : L[1].value <= L[i].value
    BY <2>3 DEF IsList
  <2>5. L[1].value \in Tick32
    BY <2>3, ListTypes
  <2> QED
    BY <1>2, <2>2, <2>3, <2>4, <2>5 DEF Earliest, prvResetNextTaskUnblockTime, In
<1> QED
  BY <1>1, <1>2

-----------------------------------------------------------------------------
(***************************************************************************)
(* What the kernel's functions keep, as long as the tasks of a set E exist.*)
(***************************************************************************)
LEMMA Prio ==
  /\ Priorities = {0, 4} /\ tskIDLE_PRIORITY = 0 /\ tskIDLE_PRIORITY + 4 = 4
  /\ \A t : /\ uxPriority(t) \in Priorities /\ uxPriority(t) \in Nat
            /\ t \in App => uxPriority(t) = 4
            /\ t \notin App => uxPriority(t) = 0
BY DEF Priorities, tskIDLE_PRIORITY, uxPriority

KernelType ==
  [xTickCount : Tick32, xNextTaskUnblockTime : Tick32,
   uxTopReadyPriority : SUBSET Priorities,
   pxDelayedTaskList : Seq(Item), pxOverflowDelayedTaskList : Seq(Item),
   pxReadyTasksLists : [Priorities -> Seq(Node)], pxCurrentTCB : Task]

InK(k, x) == In(k.pxDelayedTaskList, x) \/ In(k.pxOverflowDelayedTaskList, x)
AsleepIn(k) == {t \in App : \E x \in Item : InK(k, x) /\ x.task = t}
ReadyIn(k, E, p) == {t \in E \ AsleepIn(k) : uxPriority(t) = p}

\* What sleeps wakes before the counter wraps around, or after.
GoodLists(k) ==
  /\ IsList(k.pxDelayedTaskList) /\ IsList(k.pxOverflowDelayedTaskList)
  /\ \A x, y : In(k.pxDelayedTaskList, x) /\ In(k.pxOverflowDelayedTaskList, y)
               => x.task # y.task
  /\ \A x : In(k.pxDelayedTaskList, x) => x.value > k.xTickCount
  /\ \A x : In(k.pxOverflowDelayedTaskList, x) => x.value < k.xTickCount
  /\ Earliest(k.pxDelayedTaskList, k.xNextTaskUnblockTime)

GoodRings(k, E) ==
  \A p \in Priorities : /\ IsRing(k.pxReadyTasksLists[p], ReadyIn(k, E, p))
                        /\ p \in k.uxTopReadyPriority <=> ReadyIn(k, E, p) # {}

GoodKernel(k, E) ==
  k \in KernelType /\ GoodLists(k) /\ AsleepIn(k) \subseteq E /\ GoodRings(k, E)

\* Two kernels in which the same tasks sleep.
SameLists(k, k2) ==
  /\ k2.xTickCount = k.xTickCount
  /\ k2.xNextTaskUnblockTime = k.xNextTaskUnblockTime
  /\ k2.pxDelayedTaskList = k.pxDelayedTaskList
  /\ k2.pxOverflowDelayedTaskList = k.pxOverflowDelayedTaskList

\* Whatever depends on the two lists alone is the same then.
LEMMA SameSleepers ==
  ASSUME NEW k, NEW k2, SameLists(k, k2)
  PROVE  /\ AsleepIn(k2) = AsleepIn(k)
         /\ \A x : InK(k2, x) <=> InK(k, x)
         /\ \A E, p : ReadyIn(k2, E, p) = ReadyIn(k, E, p)
         /\ GoodLists(k) => GoodLists(k2)
<1>1. \A x : InK(k2, x) <=> InK(k, x)
  BY DEF SameLists, InK
<1>2. AsleepIn(k2) = AsleepIn(k)
  BY <1>1 DEF AsleepIn
<1>3. \A E, p : ReadyIn(k2, E, p) = ReadyIn(k, E, p)
  BY <1>2 DEF ReadyIn
<1>4. GoodLists(k) => GoodLists(k2)
  BY DEF SameLists, GoodLists
<1> QED
  BY <1>1, <1>2, <1>3, <1>4

\* The tasks that are ready: idle is always one of them.
LEMMA ReadyTasks ==
  ASSUME NEW k, NEW E \in SUBSET Task, "idle" \in E
  PROVE  /\ "idle" \in ReadyIn(k, E, 0)
         /\ \A p : "end" \notin ReadyIn(k, E, p) /\ ReadyIn(k, E, p) \subseteq Task
         /\ AsleepIn(k) \subseteq App
         /\ \A p, t : t \in ReadyIn(k, E, p) => t \in E \ AsleepIn(k) /\ uxPriority(t) = p
         /\ \A t \in E \ AsleepIn(k) : t \in ReadyIn(k, E, uxPriority(t))
BY Constants, Prio DEF ReadyIn, AsleepIn

\* The types are kept by the assignments of vTaskSwitchContext.
LEMMA SwitchType ==
  ASSUME NEW k \in KernelType, NEW p \in Priorities, NEW r \in Seq(Node), NEW t \in Task
  PROVE  [k EXCEPT !.pxReadyTasksLists[p] = r, !.pxCurrentTCB = t] \in KernelType
BY DEF KernelType

\* A switch goes to the first of the tasks of the highest priority that are ready.
LEMMA SwitchGood ==
  ASSUME NEW E \in SUBSET Task, "idle" \in E, NEW k, GoodKernel(k, E),
         NEW k2, k2 = vTaskSwitchContext(k)
  PROVE  /\ GoodKernel(k2, E) /\ SameLists(k, k2)
         /\ k2.pxCurrentTCB \in E \ AsleepIn(k2)
         /\ Head(k2.pxReadyTasksLists[uxPriority(k2.pxCurrentTCB)]) = k2.pxCurrentTCB
         /\ \A p \in k2.uxTopReadyPriority : p <= uxPriority(k2.pxCurrentTCB)
<1> DEFINE p == CHOOSE p \in k.uxTopReadyPriority : \A q \in k.uxTopReadyPriority : q <= p
           ring == listGET_OWNER_OF_NEXT_ENTRY(k.pxReadyTasksLists[p])
<1>1. k2 = [k EXCEPT !.pxReadyTasksLists[p] = ring, !.pxCurrentTCB = Head(ring)]
  BY DEF vTaskSwitchContext
<1>2. k \in KernelType /\ k.uxTopReadyPriority \subseteq {0, 4} /\ 0 \in k.uxTopReadyPriority
  BY ReadyTasks, Prio DEF GoodKernel, GoodRings, KernelType
<1>3. p \in k.uxTopReadyPriority /\ \A q \in k.uxTopReadyPriority : q <= p
  <2>1. \E m \in k.uxTopReadyPriority : \A q \in k.uxTopReadyPriority : q <= m
    <3>1. CASE 4 \in k.uxTopReadyPriority
      BY <1>2, <3>1
    <3>2. CASE 4 \notin k.uxTopReadyPriority
      BY <1>2, <3>2
    <3> QED
      BY <3>1, <3>2
  <2> QED
    BY <2>1
<1>4. p \in Priorities
  BY <1>2, <1>3, Prio
<1> HIDE DEF p
<1>5. ReadyIn(k, E, p) # {} /\ IsRing(k.pxReadyTasksLists[p], ReadyIn(k, E, p))
  BY <1>3, <1>4 DEF GoodKernel, GoodRings
<1>6. IsRing(ring, ReadyIn(k, E, p)) /\ Head(ring) \in ReadyIn(k, E, p)
  BY <1>5, ReadyTasks, RingNext
<1> HIDE DEF ring
<1>7. Head(ring) \in E \ AsleepIn(k) /\ uxPriority(Head(ring)) = p /\ Head(ring) \in Task
  <2>1. \A t : t \in ReadyIn(k, E, p) => t \in E \ AsleepIn(k) /\ uxPriority(t) = p
    BY ReadyTasks
  <2> QED
    BY <1>6, <2>1
<1>8. ring \in Seq(Node)
  BY <1>6 DEF IsRing
<1>9. /\ k2 \in KernelType /\ SameLists(k, k2)
      /\ k2.uxTopReadyPriority = k.uxTopReadyPriority
      /\ k2.pxCurrentTCB = Head(ring)
      /\ k2.pxReadyTasksLists[p] = ring
      /\ \A q \in Priorities : q # p => k2.pxReadyTasksLists[q] = k.pxReadyTasksLists[q]
  <2>1. k2 \in KernelType
    <3>1. k \in KernelType /\ Head(ring) \in Task
      BY <1>2, <1>7
    <3>2. [k EXCEPT !.pxReadyTasksLists[p] = ring, !.pxCurrentTCB = Head(ring)] \in KernelType
      BY <1>4, <1>8, <3>1, SwitchType
    <3> QED
      BY <1>1, <3>2
  <2>2. SameLists(k, k2)
    BY <1>1, <1>2 DEF KernelType, SameLists
  <2>3. k2.uxTopReadyPriority = k.uxTopReadyPriority /\ k2.pxCurrentTCB = Head(ring)
    BY <1>1, <1>2 DEF KernelType
  <2>4. /\ k2.pxReadyTasksLists[p] = ring
        /\ \A q \in Priorities : q # p => k2.pxReadyTasksLists[q] = k.pxReadyTasksLists[q]
    BY <1>1, <1>2, <1>4 DEF KernelType
  <2> QED
    BY <2>1, <2>2, <2>3, <2>4
<1>10. /\ AsleepIn(k2) = AsleepIn(k)
       /\ \A q : ReadyIn(k2, E, q) = ReadyIn(k, E, q)
       /\ GoodLists(k2)
  BY <1>9, SameSleepers DEF GoodKernel
<1>11. GoodRings(k2, E)
  <2> SUFFICES ASSUME NEW q \in Priorities
               PROVE  /\ IsRing(k2.pxReadyTasksLists[q], ReadyIn(k, E, q))
                      /\ q \in k2.uxTopReadyPriority <=> ReadyIn(k, E, q) # {}
    BY <1>10 DEF GoodRings
  <2>1. /\ IsRing(k.pxReadyTasksLists[q], ReadyIn(k, E, q))
        /\ q \in k.uxTopReadyPriority <=> ReadyIn(k, E, q) # {}
    BY DEF GoodKernel, GoodRings
  <2>2. CASE q = p
    BY <1>6, <1>9, <2>1, <2>2
  <2>3. CASE q # p
    BY <1>9, <2>1, <2>3
  <2> QED
    BY <2>2, <2>3
<1>12. GoodKernel(k2, E)
  BY <1>9, <1>10, <1>11 DEF GoodKernel
<1>13. \A q \in k2.uxTopReadyPriority : q <= p
  BY <1>3, <1>9
<1> QED
  BY <1>7, <1>9, <1>10, <1>12, <1>13

\* A task sleeps until one time.
LEMMA OneItem ==
  ASSUME NEW k, GoodLists(k), NEW x, NEW y, InK(k, x), InK(k, y), x.task = y.task
  PROVE  x = y
<1>1. ASSUME NEW L, IsList(L), In(L, x), In(L, y)
      PROVE  x = y
  <2>1. PICK i \in 1..Len(L) : L[i] = x
    BY <1>1 DEF In
  <2>2. PICK j \in 1..Len(L) : L[j] = y
    BY <1>1 DEF In
  <2>3. i = j
    BY <1>1, <2>1, <2>2 DEF IsList
  <2> QED
    BY <2>1, <2>2, <2>3
<1> QED
  BY <1>1 DEF GoodLists, InK

\* What a kernel has in its lists, and its counter.
LEMMA ItemTypes ==
  ASSUME NEW k, GoodLists(k)
  PROVE  /\ \A x : InK(k, x) => x \in Item /\ x.task \in AsleepIn(k) /\ x.value \in Tick32
         /\ \A t : t \in AsleepIn(k) <=> \E x : InK(k, x) /\ x.task = t
<1>1. \A x : InK(k, x) => x \in Item /\ x.task \in App /\ x.value \in Tick32
  BY ListTypes DEF GoodLists, InK
<1> QED
  BY <1>1 DEF AsleepIn

\* The first of the list are due, and only they.
LEMMA DueIs ==
  ASSUME NEW L, IsList(L), NEW tick \in Nat, NEW next, Earliest(L, next),
         NEW n, n = IF tick < next THEN 0
                    ELSE CHOOSE m \in 0..Len(L) :
                           /\ \A i \in 1..m : L[i].value <= tick
                           /\ m < Len(L) => L[m + 1].value > tick
  PROVE  n \in 0..Len(L) /\ \A i \in 1..Len(L) : i <= n <=> L[i].value <= tick
<1>1. Len(L) \in Nat /\ \A i \in 1..Len(L) : L[i].value \in Nat
  BY ListTypes
<1>2. CASE tick < next
  <2>1. n = 0
    BY <1>2
  <2>2. next \in Nat
    BY Constants DEF Earliest, Tick32
  <2>3. ASSUME NEW i \in 1..Len(L)
        PROVE  ~(L[i].value <= tick) /\ ~(i <= 0)
    <3>1. next <= L[i].value
      BY DEF Earliest, In
    <3> QED
      BY <1>1, <1>2, <2>2, <3>1
  <2>4. 0 \in 0..Len(L)
    BY <1>1
  <2>5. \A i \in 1..Len(L) : i <= 0 <=> L[i].value <= tick
    BY <2>3
  <2> QED
    BY ONLY <2>1, <2>4, <2>5
<1>3. CASE ~(tick < next)
  <2>1. \E m \in 0..Len(L) : /\ \A i \in 1..m : L[i].value <= tick
                             /\ m < Len(L) => L[m + 1].value > tick
    BY PlaceExists DEF Place
  <2>2. Place(L, tick, n)
    BY <1>3, <2>1 DEF Place
  <2>3. n \in 0..Len(L)
    BY <2>2 DEF Place
  <2> QED
    BY <2>2, <2>3, PlaceSplits
<1> QED
  BY <1>2, <1>3

\* The counter of ticks.
LEMMA TickWraps ==
  ASSUME NEW t \in Tick32
  PROVE  /\ (t + 1) % (portMAX_DELAY + 1) = IF t = portMAX_DELAY THEN 0 ELSE t + 1
         /\ (t + 1) % (portMAX_DELAY + 1) \in Tick32
<1>1. \A m \in Nat : \A a \in 0..m : (a + 1) % (m + 1) = IF a = m THEN 0 ELSE a + 1
  OBVIOUS
<1>2. \A m \in Nat : \A a \in 0..m : (IF a = m THEN 0 ELSE a + 1) \in 0..m
  OBVIOUS
<1> QED
  BY <1>1, <1>2, Constants DEF Tick32

\* What is looked at when the counter has become tick: what sleeps until later
\* than before, and if it wrapped around, what slept until then.
LEMMA TickLists ==
  ASSUME NEW k, GoodLists(k), k.xTickCount \in Tick32, NEW tick,
         tick = IF k.xTickCount = portMAX_DELAY THEN 0 ELSE k.xTickCount + 1,
         NEW over, over = IF tick = 0 THEN k.pxDelayedTaskList ELSE k.pxOverflowDelayedTaskList,
         NEW next, next = IF tick = 0 THEN prvResetNextTaskUnblockTime(DelayedList(k, tick))
                          ELSE k.xNextTaskUnblockTime
  PROVE  /\ IsList(DelayedList(k, tick)) /\ IsList(over)
         /\ \A x : InK(k, x) <=> In(DelayedList(k, tick), x) \/ In(over, x)
         /\ \A x, y : In(DelayedList(k, tick), x) /\ In(over, y) => x.task # y.task
         /\ \A x : In(DelayedList(k, tick), x) => x.value >= tick
         /\ \A x : In(over, x) => x.value < tick
         /\ Earliest(DelayedList(k, tick), next)
<1>1. /\ tick \in Nat /\ k.xTickCount \in Nat /\ portMAX_DELAY \in Nat
      /\ tick # 0 => tick = k.xTickCount + 1
      /\ tick = 0 => k.xTickCount = portMAX_DELAY
  BY Constants DEF Tick32
<1>2. \A x : InK(k, x) => x.value \in Tick32
  BY ItemTypes
<1>3. CASE tick = 0
  <2>1. /\ DelayedList(k, tick) = k.pxOverflowDelayedTaskList /\ over = k.pxDelayedTaskList
        /\ next = prvResetNextTaskUnblockTime(DelayedList(k, tick))
    BY <1>3 DEF DelayedList
  <2>2. \A x : ~In(over, x)
    <3> SUFFICES ASSUME NEW x, In(over, x)
                 PROVE  FALSE
      OBVIOUS
    <3>1. x.value \in Tick32 /\ x.value > k.xTickCount
      BY <1>2, <2>1 DEF GoodLists, InK
    <3> QED
      BY <1>1, <1>3, <3>1 DEF Tick32
  <2>3. \A x : In(DelayedList(k, tick), x) => x.value >= tick
    <3> SUFFICES ASSUME NEW x, In(DelayedList(k, tick), x)
                 PROVE  x.value >= tick
      OBVIOUS
    <3>1. x.value \in Tick32
      BY <1>2, <2>1 DEF InK
    <3> QED
      BY <1>3, <3>1 DEF Tick32
  <2>4. IsList(DelayedList(k, tick)) /\ IsList(over)
    BY <2>1 DEF GoodLists
  <2>5. Earliest(DelayedList(k, tick), next)
    BY <2>1, <2>4, EarliestIs
  <2> QED
    BY <2>1, <2>2, <2>3, <2>4, <2>5 DEF InK
<1>4. CASE tick # 0
  <2>1. /\ DelayedList(k, tick) = k.pxDelayedTaskList /\ over = k.pxOverflowDelayedTaskList
        /\ next = k.xNextTaskUnblockTime
    BY <1>4 DEF DelayedList
  <2>2. ASSUME NEW x, In(DelayedList(k, tick), x)
        PROVE  x.value >= tick
    <3>1. x.value \in Tick32 /\ x.value > k.xTickCount
      BY <1>2, <2>1, <2>2 DEF GoodLists, InK
    <3> QED
      BY <1>1, <1>4, <3>1 DEF Tick32
  <2>3. ASSUME NEW x, In(over, x)
        PROVE  x.value < tick
    <3>1. x.value \in Tick32 /\ x.value < k.xTickCount
      BY <1>2, <2>1, <2>3 DEF GoodLists, InK
    <3> QED
      BY <1>1, <1>4, <3>1 DEF Tick32
  <2>4. /\ IsList(DelayedList(k, tick)) /\ IsList(over)
        /\ \A x, y : In(DelayedList(k, tick), x) /\ In(over, y) => x.task # y.task
        /\ Earliest(DelayedList(k, tick), next)
    BY <2>1 DEF GoodLists
  <2>5. \A x : InK(k, x) <=> In(DelayedList(k, tick), x) \/ In(over, x)
    BY <2>1 DEF InK
  <2> QED
    BY <2>2, <2>3, <2>4, <2>5
<1> QED
  BY <1>3, <1>4

\* The types are kept by the assignments of IncrementTick.
LEMMA TickType ==
  ASSUME NEW k \in KernelType, NEW tick \in Tick32, NEW d \in Seq(Item), NEW o \in Seq(Item),
         NEW u \in Tick32, NEW b \in SUBSET Priorities, NEW w \in Seq(Node)
  PROVE  [k EXCEPT !.xTickCount = tick, !.pxDelayedTaskList = d,
            !.pxOverflowDelayedTaskList = o, !.xNextTaskUnblockTime = u,
            !.uxTopReadyPriority = b, !.pxReadyTasksLists[4] = w] \in KernelType
BY Prio DEF KernelType

\* A tick wakes the tasks that sleep until it, and no other.
LEMMA TickIs ==
  ASSUME NEW E \in SUBSET Task, "idle" \in E, NEW k, GoodKernel(k, E),
         NEW k2, k2 = IncrementTick(k)
  PROVE  /\ GoodKernel(k2, E)
         /\ k2.pxCurrentTCB = k.pxCurrentTCB
         /\ k2.xTickCount = IF k.xTickCount = portMAX_DELAY THEN 0 ELSE k.xTickCount + 1
         /\ \A x : InK(k2, x) <=> InK(k, x) /\ x.value # k2.xTickCount
         /\ \A p \in Priorities : Head(k2.pxReadyTasksLists[p]) = Head(k.pxReadyTasksLists[p])
         /\ \/ Len(k2.pxReadyTasksLists[4]) > Len(k.pxReadyTasksLists[4])
            \/ /\ AsleepIn(k2) = AsleepIn(k)
               /\ \A p \in Priorities : k2.pxReadyTasksLists[p] = k.pxReadyTasksLists[p]
               /\ k2.uxTopReadyPriority = k.uxTopReadyPriority
         /\ Prolongs(k.pxReadyTasksLists[4], k2.pxReadyTasksLists[4])
<1> DEFINE tick == (k.xTickCount + 1) % (portMAX_DELAY + 1)
           list == DelayedList(k, tick)
           next == IF tick = 0 THEN prvResetNextTaskUnblockTime(list)
                   ELSE k.xNextTaskUnblockTime
           n == Due(k, tick)
           rest == SubSeq(list, n + 1, Len(list))
           unblocked == [i \in 1..n |-> list[i].task]
           over == IF tick = 0 THEN k.pxDelayedTaskList ELSE k.pxOverflowDelayedTaskList
           u == IF tick < next THEN next ELSE prvResetNextTaskUnblockTime(rest)
           b == k.uxTopReadyPriority \cup {uxPriority(list[i].task) : i \in 1..n}
           w == k.pxReadyTasksLists[4] \o unblocked
<1>1. k2 = [k EXCEPT !.xTickCount = tick, !.pxDelayedTaskList = rest,
              !.pxOverflowDelayedTaskList = over, !.xNextTaskUnblockTime = u,
              !.uxTopReadyPriority = b, !.pxReadyTasksLists[4] = w]
  <2>1. k \in KernelType
    BY DEF GoodKernel
  <2> QED
    BY <2>1, Prio DEF IncrementTick
<1>2. n = IF tick < next THEN 0
          ELSE CHOOSE m \in 0..Len(list) :
                 /\ \A i \in 1..m : list[i].value <= tick
                 /\ m < Len(list) => list[m + 1].value > tick
  BY DEF Due
<1>3. /\ k \in KernelType /\ k.xTickCount \in Tick32
      /\ k.pxReadyTasksLists \in [Priorities -> Seq(Node)]
      /\ k.uxTopReadyPriority \in SUBSET Priorities
      /\ GoodLists(k) /\ AsleepIn(k) \subseteq E /\ GoodRings(k, E)
  BY DEF GoodKernel, KernelType
<1>4. /\ tick = IF k.xTickCount = portMAX_DELAY THEN 0 ELSE k.xTickCount + 1
      /\ tick \in Tick32 /\ tick \in Nat
  <2>1. tick = IF k.xTickCount = portMAX_DELAY THEN 0 ELSE k.xTickCount + 1
    BY <1>3, TickWraps
  <2>2. tick \in Tick32
    BY <1>3, TickWraps
  <2> HIDE DEF tick
  <2> QED
    BY <2>1, <2>2, Constants DEF Tick32
<1> HIDE DEF tick
<1>5. /\ IsList(list) /\ IsList(over)
      /\ \A x : InK(k, x) <=> In(list, x) \/ In(over, x)
      /\ \A x, y : In(list, x) /\ In(over, y) => x.task # y.task
      /\ \A x : In(list, x) => x.value >= tick
      /\ \A x : In(over, x) => x.value < tick
      /\ Earliest(list, next)
  BY <1>3, <1>4, TickLists
<1> HIDE DEF list, over, next
<1>6. n \in 0..Len(list) /\ \A i \in 1..Len(list) : i <= n <=> list[i].value <= tick
  <2> HIDE DEF n
  <2>1. IsList(list) /\ Earliest(list, next) /\ tick \in Nat
    BY <1>4, <1>5
  <2> QED
    BY <1>2, <2>1, DueIs
<1> HIDE DEF n
<1>7. /\ n \in Nat /\ Len(list) \in Nat /\ n <= Len(list)
      /\ \A i \in 1..Len(list) : list[i].value \in Nat /\ list[i].task \in App
      /\ \A i \in 1..Len(list) : i <= n <=> list[i].value = tick
  <2>1. /\ n \in Nat /\ Len(list) \in Nat /\ n <= Len(list)
        /\ \A i \in 1..Len(list) : list[i].value \in Nat /\ list[i].task \in App
    BY <1>5, <1>6, ListTypes
  <2>2. \A i \in 1..Len(list) : list[i].value >= tick
    BY <1>5 DEF In
  <2> QED
    BY <1>4, <1>6, <2>1, <2>2
<1>8. IsList(rest) /\ \A x : In(rest, x) <=> \E i \in 1..Len(list) : ~(i <= n) /\ list[i] = x
  BY <1>5, <1>6, RestIs
<1>9. /\ \A x : In(rest, x) <=> In(list, x) /\ x.value # tick
      /\ Earliest(rest, u)
  <2>1. \A x : In(rest, x) <=> In(list, x) /\ x.value # tick
    BY <1>7, <1>8 DEF In
  <2>2. CASE tick < next
    <3>1. u = next
      BY <2>2
    <3>2. n = 0
      BY <1>2, <2>2
    <3>3. \A x : In(rest, x) <=> In(list, x)
      <4>1. \A i \in 1..Len(list) : ~(i <= n)
        BY <1>7, <3>2
      <4> QED
        BY <1>8, <4>1 DEF In
    <3>4. Earliest(list, next)
      BY <1>5
    <3>5. Earliest(rest, next)
      BY <3>3, <3>4 DEF Earliest
    <3> QED
      BY <2>1, <3>1, <3>5
  <2>3. CASE ~(tick < next)
    <3>1. u = prvResetNextTaskUnblockTime(rest)
      BY <2>3
    <3> QED
      BY <1>8, <3>1, EarliestIs, <2>1
  <2> QED
    BY <2>1, <2>2, <2>3
<1> HIDE DEF rest, u
<1> DEFINE W == {t \in App : \E i \in 1..n : list[i].task = t}
<1>10. /\ unblocked \in Seq(Task) /\ Len(unblocked) = n
       /\ \A i \in 1..n : unblocked[i] = list[i].task /\ i \in 1..Len(list)
       /\ \A i, j \in 1..n : unblocked[i] = unblocked[j] => i = j
       /\ \A t : t \in W <=> \E i \in 1..n : unblocked[i] = t
       /\ "end" \notin W
  <2>1. \A i \in 1..n : i \in 1..Len(list) /\ list[i].task \in App
    BY <1>7
  <2>2. \A i \in 1..n : list[i].task \in Task
    BY <2>1, Constants
  <2>3. unblocked \in Seq(Task) /\ Len(unblocked) = n
    BY <1>7, <2>2, IsASeq
  <2>4. \A i \in 1..n : unblocked[i] = list[i].task
    OBVIOUS
  <2> HIDE DEF unblocked
  <2>5. \A i, j \in 1..n : unblocked[i] = unblocked[j] => i = j
    BY <1>5, <2>1, <2>4 DEF IsList
  <2>6. \A t : t \in W <=> \E i \in 1..n : unblocked[i] = t
    BY <2>1, <2>4
  <2> QED
    BY <2>1, <2>3, <2>4, <2>5, <2>6, Constants
<1> HIDE DEF unblocked
<1>11. \A t : t \in W <=> \E x : In(list, x) /\ x.value = tick /\ x.task = t
  <2>1. ASSUME NEW t, t \in W
        PROVE  \E x : In(list, x) /\ x.value = tick /\ x.task = t
    <3>1. PICK i \in 1..n : list[i].task = t
      BY <2>1
    <3>2. i \in 1..Len(list) /\ i <= n
      BY <1>7
    <3> QED
      BY <1>7, <3>1, <3>2 DEF In
  <2>2. ASSUME NEW t, NEW x, In(list, x), x.value = tick, x.task = t
        PROVE  t \in W
    <3>1. PICK i \in 1..Len(list) : list[i] = x
      BY <2>2 DEF In
    <3>2. i <= n /\ list[i].task \in App
      BY <1>7, <2>2, <3>1
    <3>3. i \in 1..n
      BY <1>7, <3>2
    <3> QED
      BY <2>2, <3>1, <3>2, <3>3
  <2> QED
    BY <2>1, <2>2
<1> HIDE DEF W
<1>12. /\ k2.xTickCount = tick /\ k2.pxDelayedTaskList = rest
       /\ k2.pxOverflowDelayedTaskList = over /\ k2.xNextTaskUnblockTime = u
       /\ k2.uxTopReadyPriority = b /\ k2.pxCurrentTCB = k.pxCurrentTCB
       /\ k2.pxReadyTasksLists = [k.pxReadyTasksLists EXCEPT ![4] = w]
  <2> HIDE DEF b, w
  <2>1. k2.xTickCount = tick /\ k2.pxDelayedTaskList = rest
    BY <1>1, <1>3 DEF KernelType
  <2>2. k2.pxOverflowDelayedTaskList = over /\ k2.xNextTaskUnblockTime = u
    BY <1>1, <1>3 DEF KernelType
  <2>3. k2.uxTopReadyPriority = b /\ k2.pxCurrentTCB = k.pxCurrentTCB
    BY <1>1, <1>3 DEF KernelType
  <2>4. k2.pxReadyTasksLists = [k.pxReadyTasksLists EXCEPT ![4] = w]
    BY <1>1, <1>3 DEF KernelType
  <2> QED
    BY <2>1, <2>2, <2>3, <2>4
<1>13. \A x : InK(k2, x) <=> InK(k, x) /\ x.value # k2.xTickCount
  <2>1. ASSUME NEW x, In(over, x)
        PROVE  x.value # tick
    <3>1. x.value < tick /\ x.value \in Tick32
      BY <1>5, <2>1, ListTypes
    <3> QED
      BY <1>4, <3>1, Constants DEF Tick32
  <2> QED
    BY <1>5, <1>9, <1>12, <2>1 DEF InK
<1>14. AsleepIn(k2) = AsleepIn(k) \ W /\ W \subseteq AsleepIn(k)
  <2>1. GoodLists(k)
    BY <1>3
  <2>2. \A t : t \in W <=> \E x : InK(k, x) /\ x.value = tick /\ x.task = t
    BY <1>5, <1>11, <1>12, <1>13, <1>4 DEF InK
  <2>3. \A t : t \in AsleepIn(k) <=> \E x : InK(k, x) /\ x.task = t
    BY <2>1, ItemTypes
  <2>4. \A t : t \in AsleepIn(k2) <=> \E x : InK(k2, x) /\ x.task = t
    <3>1. \A x : InK(k2, x) => x \in Item /\ x.task \in App
      BY <1>13, <2>1, ItemTypes DEF Item
    <3> QED
      BY <3>1 DEF AsleepIn
  <2>5. \A x, y : InK(k, x) /\ InK(k, y) /\ x.task = y.task => x = y
    BY <2>1, OneItem
  <2>6. ASSUME NEW t
        PROVE  t \in AsleepIn(k2) <=> t \in AsleepIn(k) /\ t \notin W
    BY <1>12, <1>13, <2>2, <2>3, <2>4, <2>5
  <2> QED
    BY <2>2, <2>3, <2>6
<1>15. /\ ReadyIn(k2, E, 4) = ReadyIn(k, E, 4) \cup W /\ ReadyIn(k, E, 4) \cap W = {}
       /\ ReadyIn(k2, E, 0) = ReadyIn(k, E, 0)
  <2>1. \A t \in W : t \in E /\ uxPriority(t) = 4 /\ t \in AsleepIn(k)
    BY <1>3, <1>10, <1>14, ReadyTasks, Prio
  <2>2. ASSUME NEW t
        PROVE  t \in ReadyIn(k2, E, 4) <=> t \in ReadyIn(k, E, 4) \/ t \in W
    BY <1>14, <2>1 DEF ReadyIn
  <2>3. ASSUME NEW t
        PROVE  t \in ReadyIn(k2, E, 0) <=> t \in ReadyIn(k, E, 0)
    <3>1. t \in W => uxPriority(t) # 0
      BY <2>1
    <3> QED
      BY <1>14, <3>1 DEF ReadyIn
  <2>4. \A t \in W : t \notin ReadyIn(k, E, 4)
    BY <2>1 DEF ReadyIn
  <2> QED
    BY <2>2, <2>3, <2>4
<1>16. /\ IsRing(w, ReadyIn(k2, E, 4))
       /\ Head(w) = Head(k.pxReadyTasksLists[4])
       /\ Len(w) = Len(k.pxReadyTasksLists[4]) + n
       /\ Len(k.pxReadyTasksLists[4]) \in Nat
       /\ Prolongs(k.pxReadyTasksLists[4], w)
  <2>1. IsRing(k.pxReadyTasksLists[4], ReadyIn(k, E, 4)) /\ "end" \notin ReadyIn(k, E, 4)
    BY <1>3, Prio, ReadyTasks DEF GoodRings
  <2>2. AreTasks(unblocked, W) /\ Len(unblocked) = n
    BY <1>10 DEF AreTasks
  <2>3. IsJoined(w, k.pxReadyTasksLists[4], ReadyIn(k, E, 4), unblocked, W)
    BY <1>15, <2>1, <2>2, RingConcat
  <2>4. Len(k.pxReadyTasksLists[4]) \in Nat
    BY <2>1, RingLen
  <2> HIDE DEF w
  <2> QED
    BY <1>15, <2>2, <2>3, <2>4 DEF IsJoined
<1> HIDE DEF w
<1>17. /\ k2.pxReadyTasksLists[4] = w
       /\ k2.pxReadyTasksLists[0] = k.pxReadyTasksLists[0]
  BY <1>3, <1>12, Prio
<1>18. /\ 4 \in k2.uxTopReadyPriority <=> 4 \in k.uxTopReadyPriority \/ n > 0
       /\ 0 \in k2.uxTopReadyPriority <=> 0 \in k.uxTopReadyPriority
       /\ b \in SUBSET Priorities
  <2>1. \A i \in 1..n : uxPriority(list[i].task) = 4
    BY <1>7, Prio
  <2>2. n > 0 <=> 1 \in 1..n
    BY <1>7
  <2>3. \A q : q \in b <=> q \in k.uxTopReadyPriority \/ \E i \in 1..n : q = 4
    BY <2>1
  <2> HIDE DEF b
  <2>4. \A q : q \in b <=> q \in k.uxTopReadyPriority \/ (q = 4 /\ n > 0)
    <3>1. (\E i \in 1..n : TRUE) <=> n > 0
      BY <1>7
    <3> QED
      BY <2>3, <3>1
  <2>5. 0 # 4
    OBVIOUS
  <2> QED
    BY <1>3, <1>12, <2>4, <2>5, Prio
<1> HIDE DEF b
<1>19. W # {} <=> n > 0
  <2>1. n > 0 => 1 \in 1..n
    BY <1>7
  <2>2. ~(n > 0) => \A i \in 1..n : FALSE
    BY <1>7
  <2> QED
    BY <1>10, <2>1, <2>2
<1>20. GoodRings(k2, E)
  <2>1. IsRing(k.pxReadyTasksLists[0], ReadyIn(k, E, 0))
        /\ (0 \in k.uxTopReadyPriority <=> ReadyIn(k, E, 0) # {})
        /\ (4 \in k.uxTopReadyPriority <=> ReadyIn(k, E, 4) # {})
    BY <1>3, Prio DEF GoodRings
  <2>2. /\ IsRing(k2.pxReadyTasksLists[0], ReadyIn(k2, E, 0))
        /\ 0 \in k2.uxTopReadyPriority <=> ReadyIn(k2, E, 0) # {}
    BY <1>15, <1>17, <1>18, <2>1
  <2>3. /\ IsRing(k2.pxReadyTasksLists[4], ReadyIn(k2, E, 4))
        /\ 4 \in k2.uxTopReadyPriority <=> ReadyIn(k2, E, 4) # {}
    BY <1>15, <1>16, <1>17, <1>18, <1>19, <2>1
  <2> QED
    BY <2>2, <2>3, Prio DEF GoodRings
<1>21. GoodLists(k2)
  <2>1. IsList(rest) /\ IsList(over) /\ Earliest(rest, u)
    BY <1>5, <1>8, <1>9
  <2>2. \A x, y : In(rest, x) /\ In(over, y) => x.task # y.task
    BY <1>5, <1>9
  <2>3. ASSUME NEW x, In(rest, x)
        PROVE  x.value > tick
    <3>1. x.value >= tick /\ x.value # tick /\ x.value \in Tick32
      BY <1>5, <1>9, <2>1, <2>3, ListTypes
    <3> QED
      BY <1>4, <3>1, Constants DEF Tick32
  <2>4. \A x : In(over, x) => x.value < tick
    BY <1>5
  <2> QED
    BY <1>12, <2>1, <2>2, <2>3, <2>4 DEF GoodLists
<1>22. k2 \in KernelType
  <2>1. /\ tick \in Tick32 /\ rest \in Seq(Item) /\ over \in Seq(Item) /\ u \in Tick32
        /\ b \in SUBSET Priorities /\ w \in Seq(Node)
    BY <1>4, <1>5, <1>8, <1>9, <1>16, <1>18 DEF IsList, IsRing, Earliest
  <2>2. [k EXCEPT !.xTickCount = tick, !.pxDelayedTaskList = rest,
            !.pxOverflowDelayedTaskList = over, !.xNextTaskUnblockTime = u,
            !.uxTopReadyPriority = b, !.pxReadyTasksLists[4] = w] \in KernelType
    BY <1>3, <2>1, TickType
  <2> QED
    BY <1>1, <2>2
<1>23. GoodKernel(k2, E)
  <2>1. AsleepIn(k2) \subseteq E
    BY <1>3, <1>14
  <2> QED
    BY <1>20, <1>21, <1>22, <2>1 DEF GoodKernel
<1>24. \/ Len(k2.pxReadyTasksLists[4]) > Len(k.pxReadyTasksLists[4])
       \/ /\ AsleepIn(k2) = AsleepIn(k)
          /\ \A p \in Priorities : k2.pxReadyTasksLists[p] = k.pxReadyTasksLists[p]
          /\ k2.uxTopReadyPriority = k.uxTopReadyPriority
  <2>1. CASE n > 0
    BY <1>7, <1>16, <1>17, <2>1
  <2>2. CASE ~(n > 0)
    <3>1. n = 0 /\ W = {}
      BY <1>7, <1>19, <2>2
    <3>2. unblocked = <<>>
      BY <1>10, <3>1, EmptySeq
    <3>3. k.pxReadyTasksLists[4] \in Seq(Node)
      BY <1>3, Prio
    <3>4. w = k.pxReadyTasksLists[4]
      <4> DEFINE r == k.pxReadyTasksLists[4]
      <4> HIDE DEF r
      <4>1. r \in Seq(Node) /\ w = r \o <<>>
        BY <3>2, <3>3 DEF r, w
      <4>2. r \o <<>> = r
        BY <4>1, ConcatEmptySeq
      <4> QED
        BY <4>1, <4>2 DEF r
    <3>5. k2.uxTopReadyPriority = k.uxTopReadyPriority
      <4>1. k2.uxTopReadyPriority \subseteq {0, 4} /\ k.uxTopReadyPriority \subseteq {0, 4}
        BY <1>3, <1>12, <1>18, Prio
      <4>2. /\ 4 \in k2.uxTopReadyPriority <=> 4 \in k.uxTopReadyPriority
            /\ 0 \in k2.uxTopReadyPriority <=> 0 \in k.uxTopReadyPriority
        BY <1>18, <2>2
      <4> QED
        BY <4>1, <4>2
    <3> QED
      BY <1>14, <1>17, <3>1, <3>4, <3>5, Prio
  <2> QED
    BY <2>1, <2>2
<1>25. \A p \in Priorities : Head(k2.pxReadyTasksLists[p]) = Head(k.pxReadyTasksLists[p])
  BY <1>16, <1>17, Prio
<1>26. Prolongs(k.pxReadyTasksLists[4], k2.pxReadyTasksLists[4])
  BY <1>16, <1>17
<1> QED
  BY <1>4, <1>12, <1>13, <1>23, <1>24, <1>25, <1>26

\* The types are kept by a change of a ready list and of the bits.
LEMMA RingType ==
  ASSUME NEW k \in KernelType, NEW p \in Priorities, NEW r \in Seq(Node),
         NEW b \in SUBSET Priorities
  PROVE  /\ [k EXCEPT !.pxReadyTasksLists[p] = r, !.uxTopReadyPriority = b] \in KernelType
         /\ [k EXCEPT !.uxTopReadyPriority = b, !.pxReadyTasksLists[p] = r] \in KernelType
BY DEF KernelType

\* Rings as before, but for the task t.
RingsWithout(k, E, t, k2) ==
  \A p \in Priorities : /\ IsRing(k2.pxReadyTasksLists[p], ReadyIn(k, E, p) \ {t})
                        /\ p \in k2.uxTopReadyPriority <=> ReadyIn(k, E, p) \ {t} # {}

\* The task that runs leaves its ring.
LEMMA RemoveIs ==
  ASSUME NEW E \in SUBSET Task, "idle" \in E, NEW k, GoodKernel(k, E),
         NEW t \in E \ AsleepIn(k), Head(k.pxReadyTasksLists[uxPriority(t)]) = t,
         NEW k2, k2 = RemoveFromReadyList(k, t)
  PROVE  /\ k2 \in KernelType /\ SameLists(k, k2) /\ k2.pxCurrentTCB = k.pxCurrentTCB
         /\ RingsWithout(k, E, t, k2)
         /\ k2.uxTopReadyPriority \subseteq k.uxTopReadyPriority
<1> DEFINE p == uxPriority(t)
           ring == uxListRemove(k.pxReadyTasksLists[p], t)
           b == IF listCURRENT_LIST_LENGTH(ring) = 0 THEN k.uxTopReadyPriority \ {p}
                ELSE k.uxTopReadyPriority
<1>1. /\ k \in KernelType /\ p \in Priorities
      /\ k.pxReadyTasksLists \in [Priorities -> Seq(Node)]
      /\ k.uxTopReadyPriority \in SUBSET Priorities
  <2>1. k \in KernelType
    BY DEF GoodKernel
  <2> QED
    BY <2>1, Prio DEF KernelType
<1>2. t \in ReadyIn(k, E, p)
  BY ReadyTasks
<1>3. IsRing(k.pxReadyTasksLists[p], ReadyIn(k, E, p))
      /\ (p \in k.uxTopReadyPriority <=> ReadyIn(k, E, p) # {})
  BY <1>1 DEF GoodKernel, GoodRings
<1>4. IsRing(ring, ReadyIn(k, E, p) \ {t})
  <2>1. "end" \notin ReadyIn(k, E, p)
    BY ReadyTasks
  <2> QED
    BY <1>2, <1>3, <2>1, RingRemove
<1>5. ring \in Seq(Node) /\ (listCURRENT_LIST_LENGTH(ring) = 0 <=> ReadyIn(k, E, p) \ {t} = {})
  <2>1. "end" \notin ReadyIn(k, E, p) \ {t}
    BY ReadyTasks
  <2>2. Len(ring) \in Nat /\ (Len(ring) = 1 <=> ReadyIn(k, E, p) \ {t} = {})
    <3> DEFINE S == ReadyIn(k, E, p) \ {t}
    <3>1. IsRing(ring, S) /\ "end" \notin S
      BY <1>4, <2>1
    <3> HIDE DEF S, ring
    <3> QED
      BY <3>1, RingLen DEF S
  <2>3. ring \in Seq(Node)
    BY <1>4 DEF IsRing
  <2> QED
    BY <2>2, <2>3 DEF listCURRENT_LIST_LENGTH
<1>6. k2 = [k EXCEPT !.pxReadyTasksLists[p] = ring, !.uxTopReadyPriority = b]
  <2> HIDE DEF ring
  <2> QED
    BY <1>1 DEF RemoveFromReadyList, KernelType, ring
<1>7. /\ p \in b <=> ReadyIn(k, E, p) \ {t} # {}
      /\ \A q : q # p => (q \in b <=> q \in k.uxTopReadyPriority)
      /\ b \subseteq k.uxTopReadyPriority /\ b \in SUBSET Priorities
  BY <1>1, <1>2, <1>3, <1>5
<1> HIDE DEF b, ring
<1>8. k2 \in KernelType
  <2>1. [k EXCEPT !.pxReadyTasksLists[p] = ring, !.uxTopReadyPriority = b] \in KernelType
    BY <1>1, <1>5, <1>7, RingType
  <2> QED
    BY <1>6, <2>1
<1>9. SameLists(k, k2) /\ k2.pxCurrentTCB = k.pxCurrentTCB
  BY <1>1, <1>6 DEF KernelType, SameLists
<1>10. k2.uxTopReadyPriority = b
       /\ k2.pxReadyTasksLists[p] = ring
       /\ \A q \in Priorities : q # p => k2.pxReadyTasksLists[q] = k.pxReadyTasksLists[q]
  BY <1>1, <1>6 DEF KernelType
<1>11. ASSUME NEW q \in Priorities
       PROVE  /\ IsRing(k2.pxReadyTasksLists[q], ReadyIn(k, E, q) \ {t})
              /\ q \in k2.uxTopReadyPriority <=> ReadyIn(k, E, q) \ {t} # {}
  <2>1. CASE q = p
    BY <1>4, <1>7, <1>10, <2>1
  <2>2. CASE q # p
    <3>1. IsRing(k.pxReadyTasksLists[q], ReadyIn(k, E, q))
          /\ (q \in k.uxTopReadyPriority <=> ReadyIn(k, E, q) # {})
      BY DEF GoodKernel, GoodRings
    <3>2. ReadyIn(k, E, q) \ {t} = ReadyIn(k, E, q)
      <4>1. t \notin ReadyIn(k, E, q)
        BY <2>2, ReadyTasks
      <4> QED
        BY <4>1
    <3> QED
      BY <1>7, <1>10, <2>2, <3>1, <3>2
  <2> QED
    BY <2>1, <2>2
<1> QED
  <2>1. RingsWithout(k, E, t, k2)
    BY <1>11 DEF RingsWithout
  <2> QED
    BY <1>7, <1>8, <1>9, <1>10, <2>1

\* vTaskDelete of the task that runs.
LEMMA RemoveGood ==
  ASSUME NEW E \in SUBSET Task, "idle" \in E, NEW k, GoodKernel(k, E),
         NEW t \in E \ AsleepIn(k), Head(k.pxReadyTasksLists[uxPriority(t)]) = t,
         NEW k2, k2 = RemoveFromReadyList(k, t)
  PROVE  /\ GoodKernel(k2, E \ {t}) /\ SameLists(k, k2)
         /\ k2.pxCurrentTCB = k.pxCurrentTCB
         /\ k2.uxTopReadyPriority \subseteq k.uxTopReadyPriority
<1>1. /\ k2 \in KernelType /\ SameLists(k, k2) /\ k2.pxCurrentTCB = k.pxCurrentTCB
      /\ RingsWithout(k, E, t, k2)
      /\ k2.uxTopReadyPriority \subseteq k.uxTopReadyPriority
  <2>1. k2 \in KernelType /\ SameLists(k, k2) /\ k2.pxCurrentTCB = k.pxCurrentTCB
    BY RemoveIs
  <2>2. RingsWithout(k, E, t, k2)
    BY RemoveIs
  <2>3. k2.uxTopReadyPriority \subseteq k.uxTopReadyPriority
    BY RemoveIs
  <2> QED
    BY <2>1, <2>2, <2>3
<1>2. AsleepIn(k2) = AsleepIn(k) /\ GoodLists(k2)
  BY <1>1, SameSleepers DEF GoodKernel
<1>3. \A p : ReadyIn(k2, E \ {t}, p) = ReadyIn(k, E, p) \ {t}
  BY <1>2 DEF ReadyIn
<1>4. AsleepIn(k2) \subseteq E \ {t}
  BY <1>2 DEF GoodKernel
<1>5. GoodKernel(k2, E \ {t})
  BY <1>1, <1>2, <1>3, <1>4 DEF GoodKernel, GoodRings, RingsWithout
<1> QED
  BY <1>1, <1>5

\* prvAddNewTaskToReadyList.
LEMMA AddGood ==
  ASSUME NEW E \in SUBSET Task, "idle" \in E, NEW k, GoodKernel(k, E),
         NEW t \in App, t \notin E, NEW k2, k2 = prvAddTaskToReadyList(k, t)
  PROVE  /\ GoodKernel(k2, E \cup {t}) /\ SameLists(k, k2)
         /\ k2.pxCurrentTCB = k.pxCurrentTCB
<1> DEFINE ring == Append(k.pxReadyTasksLists[4], t)
           b == k.uxTopReadyPriority \cup {4}
<1>1. /\ k \in KernelType
      /\ k.pxReadyTasksLists \in [Priorities -> Seq(Node)]
      /\ k.uxTopReadyPriority \in SUBSET Priorities
      /\ GoodLists(k) /\ AsleepIn(k) \subseteq E
  <2>1. k \in KernelType
    BY DEF GoodKernel
  <2> QED
    BY <2>1 DEF KernelType, GoodKernel
<1>2. uxPriority(t) = 4 /\ 4 \in Priorities /\ t \notin AsleepIn(k) /\ t \in Task
  BY <1>1, Prio, Constants
<1>3. k2 = [k EXCEPT !.uxTopReadyPriority = b, !.pxReadyTasksLists[4] = ring]
  BY <1>1, <1>2 DEF prvAddTaskToReadyList, vListInsertEnd, KernelType
<1>4. \A p \in Priorities : /\ IsRing(k.pxReadyTasksLists[p], ReadyIn(k, E, p))
                            /\ p \in k.uxTopReadyPriority <=> ReadyIn(k, E, p) # {}
  BY DEF GoodKernel, GoodRings
<1>5. IsRing(ring, ReadyIn(k, E, 4) \cup {t})
  <2>1. "end" \notin ReadyIn(k, E, 4) /\ t \notin ReadyIn(k, E, 4) /\ t # "end"
    BY <1>2, ReadyTasks, Constants
  <2> QED
    BY <1>2, <1>4, <2>1, RingAppend
<1>6. ring \in Seq(Node)
  BY <1>5 DEF IsRing
<1> HIDE DEF ring
<1>7. b \in SUBSET Priorities /\ 4 \in b
      /\ (0 \in b <=> 0 \in k.uxTopReadyPriority)
  <2>1. 0 # 4
    OBVIOUS
  <2> QED
    BY <1>1, <1>2, <2>1
<1> HIDE DEF b
<1>8. k2 \in KernelType
  <2>1. [k EXCEPT !.uxTopReadyPriority = b, !.pxReadyTasksLists[4] = ring] \in KernelType
    BY <1>1, <1>2, <1>6, <1>7, RingType
  <2> QED
    BY <1>3, <2>1
<1>9. SameLists(k, k2) /\ k2.pxCurrentTCB = k.pxCurrentTCB
  BY <1>1, <1>3 DEF KernelType, SameLists
<1>10. /\ k2.uxTopReadyPriority = b /\ k2.pxReadyTasksLists[4] = ring
       /\ k2.pxReadyTasksLists[0] = k.pxReadyTasksLists[0]
  BY <1>1, <1>2, <1>3 DEF KernelType
<1>11. AsleepIn(k2) = AsleepIn(k) /\ GoodLists(k2)
  BY <1>1, <1>9, SameSleepers
<1>12. /\ ReadyIn(k2, E \cup {t}, 4) = ReadyIn(k, E, 4) \cup {t}
       /\ ReadyIn(k2, E \cup {t}, 0) = ReadyIn(k, E, 0)
  <2>1. ASSUME NEW u
        PROVE  u \in ReadyIn(k2, E \cup {t}, 4) <=> u \in ReadyIn(k, E, 4) \/ u = t
    BY <1>2, <1>11 DEF ReadyIn
  <2>2. ASSUME NEW u
        PROVE  u \in ReadyIn(k2, E \cup {t}, 0) <=> u \in ReadyIn(k, E, 0)
    <3>1. uxPriority(t) # 0
      BY <1>2
    <3> QED
      BY <1>11, <3>1 DEF ReadyIn
  <2> QED
    BY <2>1, <2>2
<1>13. GoodRings(k2, E \cup {t})
  <2>1. \A p \in Priorities : p = 0 \/ p = 4
    BY Prio
  <2>2. 0 \in Priorities
    BY Prio
  <2> QED
    BY <1>4, <1>5, <1>7, <1>10, <1>12, <2>1, <2>2 DEF GoodRings
<1>14. GoodKernel(k2, E \cup {t})
  BY <1>1, <1>8, <1>11, <1>13 DEF GoodKernel
<1> QED
  BY <1>9, <1>14

\* xTimeToWake does not wrap around to the current tick.
LEMMA WakeTime ==
  ASSUME NEW a \in Tick32, NEW n \in Nat, n > 0, n < portMAX_DELAY
  PROVE  /\ (a + n) % (portMAX_DELAY + 1) \in Tick32
         /\ (a + n) % (portMAX_DELAY + 1) =
              IF a + n <= portMAX_DELAY THEN a + n ELSE a + n - (portMAX_DELAY + 1)
         /\ (a + n) % (portMAX_DELAY + 1) # a
<1>1. \A m, b, c \in Nat : b <= m /\ c > 0 /\ c < m =>
        (b + c) % (m + 1) = IF b + c <= m THEN b + c ELSE b + c - (m + 1)
  OBVIOUS
<1>2. \A m, b, c \in Nat : b <= m /\ c > 0 /\ c < m =>
        /\ (IF b + c <= m THEN b + c ELSE b + c - (m + 1)) \in 0..m
        /\ (IF b + c <= m THEN b + c ELSE b + c - (m + 1)) # b
  OBVIOUS
<1>3. a \in Nat /\ a <= portMAX_DELAY /\ portMAX_DELAY \in Nat
  BY Constants DEF Tick32
<1>4. (a + n) % (portMAX_DELAY + 1) =
        IF a + n <= portMAX_DELAY THEN a + n ELSE a + n - (portMAX_DELAY + 1)
  BY <1>1, <1>3
<1>5. (a + n) % (portMAX_DELAY + 1) \in 0..portMAX_DELAY /\ (a + n) % (portMAX_DELAY + 1) # a
  <2>1. (IF a + n <= portMAX_DELAY THEN a + n ELSE a + n - (portMAX_DELAY + 1))
          \in 0..portMAX_DELAY
        /\ (IF a + n <= portMAX_DELAY THEN a + n ELSE a + n - (portMAX_DELAY + 1)) # a
    BY <1>2, <1>3
  <2> QED
    BY <1>4, <2>1
<1> QED
  BY <1>4, <1>5 DEF Tick32

\* Two kernels with the same rings but other lists.
SameRings(k, k2) ==
  /\ k2.pxReadyTasksLists = k.pxReadyTasksLists
  /\ k2.uxTopReadyPriority = k.uxTopReadyPriority
  /\ k2.pxCurrentTCB = k.pxCurrentTCB
  /\ k2.xTickCount = k.xTickCount

\* The task that runs goes to sleep.
LEMMA SleepGood ==
  ASSUME NEW E \in SUBSET Task, "idle" \in E, NEW k, GoodKernel(k, E),
         NEW t \in App, t = k.pxCurrentTCB, t \in E \ AsleepIn(k),
         Head(k.pxReadyTasksLists[uxPriority(t)]) = t,
         NEW n \in Nat, n > 0, n < portMAX_DELAY,
         NEW k2, k2 = prvAddCurrentTaskToDelayedList(k, n)
  PROVE  /\ GoodKernel(k2, E)
         /\ k2.pxCurrentTCB = t
         /\ k2.xTickCount = k.xTickCount
         /\ k2.uxTopReadyPriority \subseteq k.uxTopReadyPriority
         /\ \A x : InK(k2, x) <=>
              \/ InK(k, x)
              \/ x = [task |-> t, value |-> (k.xTickCount + n) % (portMAX_DELAY + 1)]
         /\ AsleepIn(k2) = AsleepIn(k) \cup {t}
<1> DEFINE v == (k.xTickCount + n) % (portMAX_DELAY + 1)
           item == [task |-> t, value |-> v]
           r == RemoveFromReadyList(k, t)
           d == vListInsert(k.pxDelayedTaskList, item)
           o == vListInsert(k.pxOverflowDelayedTaskList, item)
           u == IF v < k.xNextTaskUnblockTime THEN v ELSE k.xNextTaskUnblockTime
<1>1. /\ k \in KernelType /\ k.xTickCount \in Tick32 /\ k.xNextTaskUnblockTime \in Tick32
      /\ GoodLists(k) /\ AsleepIn(k) \subseteq E
  <2>1. k \in KernelType
    BY DEF GoodKernel
  <2> QED
    BY <2>1 DEF KernelType, GoodKernel
<1>2. /\ r \in KernelType /\ SameLists(k, r) /\ r.pxCurrentTCB = k.pxCurrentTCB
      /\ RingsWithout(k, E, t, r)
      /\ r.uxTopReadyPriority \subseteq k.uxTopReadyPriority
  <2>1. r = RemoveFromReadyList(k, t)
    OBVIOUS
  <2> HIDE DEF r
  <2>2. t \in E \ AsleepIn(k) /\ Head(k.pxReadyTasksLists[uxPriority(t)]) = t
    OBVIOUS
  <2>3. r \in KernelType /\ SameLists(k, r) /\ r.pxCurrentTCB = k.pxCurrentTCB
    BY <2>1, <2>2, RemoveIs
  <2>4. RingsWithout(k, E, t, r)
    BY <2>1, <2>2, RemoveIs
  <2>5. r.uxTopReadyPriority \subseteq k.uxTopReadyPriority
    BY <2>1, <2>2, RemoveIs
  <2> QED
    BY <2>3, <2>4, <2>5
<1> HIDE DEF r
<1>3. v \in Tick32 /\ v # k.xTickCount /\ item \in Item /\ item.task = t /\ item.value = v
  <2>1. v \in Tick32 /\ v # k.xTickCount
    BY <1>1, WakeTime
  <2> HIDE DEF v
  <2> QED
    BY <2>1 DEF Item
<1>4. k2 = IF v < k.xTickCount
           THEN [r EXCEPT !.pxOverflowDelayedTaskList = o]
           ELSE [r EXCEPT !.pxDelayedTaskList = d, !.xNextTaskUnblockTime = u]
  <2> HIDE DEF v
  <2>1. k2 = IF v < k.xTickCount
             THEN [r EXCEPT !.pxOverflowDelayedTaskList = vListInsert(@, item)]
             ELSE [r EXCEPT !.pxDelayedTaskList = vListInsert(@, item),
                     !.xNextTaskUnblockTime = IF v < @ THEN v ELSE @]
    BY DEF prvAddCurrentTaskToDelayedList, v, r
  <2>2. /\ r.pxDelayedTaskList = k.pxDelayedTaskList
        /\ r.pxOverflowDelayedTaskList = k.pxOverflowDelayedTaskList
        /\ r.xNextTaskUnblockTime = k.xNextTaskUnblockTime
    BY <1>2 DEF SameLists
  <2> HIDE DEF item
  <2>3. [r EXCEPT !.pxOverflowDelayedTaskList = vListInsert(@, item)]
          = [r EXCEPT !.pxOverflowDelayedTaskList = o]
    BY <2>2
  <2>4. [r EXCEPT !.pxDelayedTaskList = vListInsert(@, item),
                     !.xNextTaskUnblockTime = IF v < @ THEN v ELSE @]
          = [r EXCEPT !.pxDelayedTaskList = d, !.xNextTaskUnblockTime = u]
    BY <1>2, <2>2 DEF KernelType
  <2> HIDE DEF d, o, u
  <2> QED
    BY <2>1, <2>3, <2>4
<1> HIDE DEF v, item
<1>5. \A x : InK(k, x) => x.task # t
  BY <1>1, ItemTypes
<1>6. /\ IsList(k.pxDelayedTaskList) /\ IsList(k.pxOverflowDelayedTaskList)
      /\ \A i \in 1..Len(k.pxDelayedTaskList) : k.pxDelayedTaskList[i].task # item.task
      /\ \A i \in 1..Len(k.pxOverflowDelayedTaskList) :
           k.pxOverflowDelayedTaskList[i].task # item.task
  BY <1>1, <1>3, <1>5 DEF GoodLists, InK, In
<1>7. IsList(d) /\ \A x : In(d, x) <=> In(k.pxDelayedTaskList, x) \/ x = item
  BY <1>3, <1>6, InsertIs
<1>8. IsList(o) /\ \A x : In(o, x) <=> In(k.pxOverflowDelayedTaskList, x) \/ x = item
  BY <1>3, <1>6, InsertIs
<1>9. u \in Tick32
  BY <1>1, <1>3
<1>10. Earliest(d, u)
  <2>1. Earliest(k.pxDelayedTaskList, k.xNextTaskUnblockTime)
    BY <1>1 DEF GoodLists
  <2>2. \A x : In(k.pxDelayedTaskList, x) => x.value \in Nat
    BY <1>6, ListTypes
  <2>3. v \in Nat /\ k.xNextTaskUnblockTime \in Nat
    BY <1>1, <1>3, Constants DEF Tick32
  <2>4. ASSUME NEW x, In(d, x)
        PROVE  u <= x.value
    <3>1. CASE x = item
      BY <1>3, <2>3, <3>1
    <3>2. CASE In(k.pxDelayedTaskList, x)
      <4>1. k.xNextTaskUnblockTime <= x.value /\ x.value \in Nat
        BY <2>1, <2>2, <3>2 DEF Earliest
      <4> QED
        BY <2>3, <4>1
    <3> QED
      BY <1>7, <2>4, <3>1, <3>2
  <2>5. u = portMAX_DELAY \/ \E x : In(d, x) /\ x.value = u
    <3>1. CASE v < k.xNextTaskUnblockTime
      BY <1>3, <1>7, <3>1
    <3>2. CASE ~(v < k.xNextTaskUnblockTime)
      BY <1>7, <2>1, <3>2 DEF Earliest
    <3> QED
      BY <3>1, <3>2
  <2> HIDE DEF u
  <2> QED
    BY <1>9, <2>4, <2>5 DEF Earliest
<1> HIDE DEF d, o, u
<1>11. ASSUME NEW x
       PROVE  In(k.pxDelayedTaskList, x) => x.task # t /\ x.value > k.xTickCount
  BY <1>1, <1>5 DEF GoodLists, InK
<1>12. ASSUME NEW x
       PROVE  In(k.pxOverflowDelayedTaskList, x) => x.task # t /\ x.value < k.xTickCount
  BY <1>1, <1>5 DEF GoodLists, InK
<1>13. \A x, y : In(k.pxDelayedTaskList, x) /\ In(k.pxOverflowDelayedTaskList, y)
                 => x.task # y.task
  BY <1>1 DEF GoodLists
<1>14. /\ k2 \in KernelType /\ SameRings(r, k2) /\ GoodLists(k2)
       /\ \A x : InK(k2, x) <=> InK(k, x) \/ x = item
  <2>1. CASE v < k.xTickCount
    <3>1. k2 = [r EXCEPT !.pxOverflowDelayedTaskList = o]
      BY <1>4, <2>1
    <3>2. o \in Seq(Item)
      BY <1>8 DEF IsList
    <3>3. k2 \in KernelType
      BY <1>2, <3>1, <3>2 DEF KernelType
    <3>4. SameRings(r, k2)
      BY <1>2, <3>1 DEF KernelType, SameRings
    <3>5. /\ k2.pxOverflowDelayedTaskList = o /\ k2.pxDelayedTaskList = k.pxDelayedTaskList
          /\ k2.xNextTaskUnblockTime = k.xNextTaskUnblockTime /\ k2.xTickCount = k.xTickCount
      BY <1>2, <3>1 DEF KernelType, SameLists
    <3>6. GoodLists(k2)
      <4>1. \A x, y : In(k.pxDelayedTaskList, x) /\ In(o, y) => x.task # y.task
        BY <1>3, <1>8, <1>11, <1>13
      <4>2. \A x : In(o, x) => x.value < k.xTickCount
        BY <1>3, <1>8, <1>12, <2>1
      <4>3. Earliest(k.pxDelayedTaskList, k.xNextTaskUnblockTime)
        BY <1>1 DEF GoodLists
      <4> QED
        BY <1>6, <1>8, <1>11, <3>5, <4>1, <4>2, <4>3 DEF GoodLists
    <3>7. \A x : InK(k2, x) <=> InK(k, x) \/ x = item
      BY <1>8, <3>5 DEF InK
    <3> QED
      BY <3>3, <3>4, <3>6, <3>7
  <2>2. CASE ~(v < k.xTickCount)
    <3>1. k2 = [r EXCEPT !.pxDelayedTaskList = d, !.xNextTaskUnblockTime = u]
      BY <1>4, <2>2
    <3>2. d \in Seq(Item)
      BY <1>7 DEF IsList
    <3>3. k2 \in KernelType
      BY <1>2, <1>9, <3>1, <3>2 DEF KernelType
    <3>4. SameRings(r, k2)
      BY <1>2, <3>1 DEF KernelType, SameRings
    <3>5. /\ k2.pxOverflowDelayedTaskList = k.pxOverflowDelayedTaskList
          /\ k2.pxDelayedTaskList = d
          /\ k2.xNextTaskUnblockTime = u /\ k2.xTickCount = k.xTickCount
      BY <1>2, <3>1 DEF KernelType, SameLists
    <3>6. GoodLists(k2)
      <4>1. \A x, y : In(d, x) /\ In(k.pxOverflowDelayedTaskList, y) => x.task # y.task
        BY <1>3, <1>7, <1>12, <1>13
      <4>2. \A x : In(d, x) => x.value > k.xTickCount
        <5>1. v > k.xTickCount
          BY <1>1, <1>3, <2>2, Constants DEF Tick32
        <5> QED
          BY <1>3, <1>7, <1>11, <5>1
      <4> QED
        BY <1>6, <1>7, <1>10, <1>12, <3>5, <4>1, <4>2 DEF GoodLists
    <3>7. \A x : InK(k2, x) <=> InK(k, x) \/ x = item
      BY <1>7, <3>5 DEF InK
    <3> QED
      BY <3>3, <3>4, <3>6, <3>7
  <2> QED
    BY <2>1, <2>2
<1>15. AsleepIn(k2) = AsleepIn(k) \cup {t}
  BY <1>3, <1>14 DEF AsleepIn
<1>16. \A p : ReadyIn(k2, E, p) = ReadyIn(k, E, p) \ {t}
  BY <1>15 DEF ReadyIn
<1>17. GoodRings(k2, E)
  BY <1>2, <1>14, <1>16 DEF GoodRings, SameRings, RingsWithout
<1>18. GoodKernel(k2, E)
  BY <1>1, <1>14, <1>15, <1>17 DEF GoodKernel
<1>19. /\ k2.pxCurrentTCB = t /\ k2.xTickCount = k.xTickCount
       /\ k2.uxTopReadyPriority \subseteq k.uxTopReadyPriority
  BY <1>2, <1>14 DEF SameRings, SameLists
<1> QED
  BY <1>14, <1>15, <1>18, <1>19 DEF item, v

-----------------------------------------------------------------------------
(***************************************************************************)
(* The unwinding of the ticks that came while the scheduler was suspended. *)
(***************************************************************************)
Unwound(k, ticks, f) ==
  f = [n \in 0..ticks |-> IF n = 0 THEN k ELSE IncrementTick(f[n - 1])]

\* The recursive function of xTaskResumeAll is defined, by induction.
LEMMA UnwoundExists ==
  ASSUME NEW k, NEW ticks \in Nat
  PROVE  \E f : Unwound(k, ticks, f)
<1> DEFINE S == {n \in Nat : \E f : Unwound(k, n, f)}
<1>1. 0 \in S
  <2> DEFINE f == [n \in 0..0 |-> k]
  <2>1. f = [n \in 0..0 |-> IF n = 0 THEN k ELSE IncrementTick(f[n - 1])]
    OBVIOUS
  <2> HIDE DEF f
  <2> QED
    BY <2>1 DEF Unwound
<1>2. ASSUME NEW n \in S
      PROVE  n + 1 \in S
  <2>1. PICK f : Unwound(k, n, f)
    OBVIOUS
  <2>2. n \in Nat /\ n \in 0..n
    OBVIOUS
  <2> DEFINE h == [i \in 0..(n + 1) |-> IF i <= n THEN f[i] ELSE IncrementTick(f[n])]
             g == [i \in 0..(n + 1) |-> IF i = 0 THEN k ELSE IncrementTick(h[i - 1])]
  <2>3. ASSUME NEW i \in 0..(n + 1)
        PROVE  h[i] = IF i = 0 THEN k ELSE IncrementTick(h[i - 1])
    <3>1. CASE i = 0
      <4>1. f[0] = k
        BY <2>1, <2>2 DEF Unwound
      <4> QED
        BY <2>2, <3>1, <4>1
    <3>2. CASE i # 0 /\ i <= n
      <4>1. i \in 0..n /\ i - 1 \in 0..(n + 1) /\ i - 1 <= n
        BY <2>2, <3>2
      <4>2. f[i] = IncrementTick(f[i - 1])
        BY <2>1, <3>2, <4>1 DEF Unwound
      <4>3. h[i] = f[i] /\ h[i - 1] = f[i - 1]
        BY <3>2, <4>1
      <4> HIDE DEF h
      <4> QED
        BY <3>2, <4>2, <4>3
    <3>3. CASE ~(i <= n)
      <4>1. i = n + 1 /\ i - 1 = n /\ n \in 0..(n + 1) /\ i # 0
        BY <2>2, <3>3
      <4>2. h[i] = IncrementTick(f[n]) /\ h[n] = f[n]
        BY <2>2, <3>3, <4>1
      <4> HIDE DEF h
      <4> QED
        BY <4>1, <4>2
    <3> QED
      BY <3>1, <3>2, <3>3
  <2>4. h = g
    <3>1. \A i \in 0..(n + 1) : h[i] = g[i]
      BY <2>3
    <3>2. h = [i \in 0..(n + 1) |-> h[i]]
      OBVIOUS
    <3>3. g = [i \in 0..(n + 1) |-> g[i]]
      OBVIOUS
    <3> HIDE DEF h, g
    <3> QED
      BY <3>1, <3>2, <3>3
  <2> HIDE DEF h
  <2>5. Unwound(k, n + 1, h)
    BY <2>4 DEF Unwound
  <2> QED
    BY <2>2, <2>5
<1> HIDE DEF S
<1>3. S \in SUBSET Nat
  BY DEF S
<1>4. S = Nat
  BY <1>1, <1>2, <1>3, Induction
<1> QED
  BY <1>4 DEF S

\* Nothing woke.
SameReady(k, k2) ==
  /\ AsleepIn(k2) = AsleepIn(k)
  /\ \A p \in Priorities : k2.pxReadyTasksLists[p] = k.pxReadyTasksLists[p]
  /\ k2.uxTopReadyPriority = k.uxTopReadyPriority

\* A task that wakes asks for a switch.
LEMMA SwitchIsRequired ==
  ASSUME NEW k, NEW k2, Len(k2.pxReadyTasksLists[4]) > Len(k.pxReadyTasksLists[4])
  PROVE  xSwitchRequired(k, k2)
<1>1. 4 \in Priorities /\ 4 >= uxPriority(k.pxCurrentTCB)
  BY Prio
<1> QED
  BY <1>1 DEF xSwitchRequired

\* After each of them; a switch is asked for if a task woke.
LEMMA UnwoundGood ==
  ASSUME NEW E \in SUBSET Task, "idle" \in E, NEW k, GoodKernel(k, E),
         NEW ticks \in Nat, NEW f, Unwound(k, ticks, f), NEW n \in 0..ticks
  PROVE  /\ GoodKernel(f[n], E)
         /\ f[n].pxCurrentTCB = k.pxCurrentTCB
         /\ \/ \E m \in 1..n : xSwitchRequired(f[m - 1], f[m])
            \/ SameReady(k, f[n])
<1> DEFINE P(i) == /\ GoodKernel(f[i], E)
                   /\ f[i].pxCurrentTCB = k.pxCurrentTCB
                   /\ \/ \E m \in 1..i : xSwitchRequired(f[m - 1], f[m])
                      \/ SameReady(k, f[i])
           S == {i \in Nat : i <= ticks => P(i)}
<1>1. f[0] = k /\ \A i \in Nat : i + 1 <= ticks => f[i + 1] = IncrementTick(f[i])
  <2>1. f[0] = k
    <3>1. 0 \in 0..ticks
      OBVIOUS
    <3> QED
      BY <3>1 DEF Unwound
  <2>2. ASSUME NEW i \in Nat, i + 1 <= ticks
        PROVE  f[i + 1] = IncrementTick(f[i])
    <3>1. i + 1 \in 0..ticks /\ i + 1 # 0 /\ (i + 1) - 1 = i
      BY <2>2
    <3> QED
      BY <3>1 DEF Unwound
  <2> QED
    BY <2>1, <2>2
<1>2. 0 \in S
  BY <1>1 DEF SameReady
<1>3. ASSUME NEW i \in S
      PROVE  i + 1 \in S
  <2> SUFFICES ASSUME i + 1 <= ticks
               PROVE  P(i + 1)
    OBVIOUS
  <2>1. i \in Nat /\ i <= ticks
    OBVIOUS
  <2>2. P(i)
    BY <2>1
  <2>3. f[i + 1] = IncrementTick(f[i])
    BY <1>1, <2>1
  <2>4. GoodKernel(f[i], E)
    BY <2>2
  <2> DEFINE a == f[i]
             b == f[i + 1]
  <2>5. /\ GoodKernel(b, E) /\ b.pxCurrentTCB = a.pxCurrentTCB
        /\ \/ Len(b.pxReadyTasksLists[4]) > Len(a.pxReadyTasksLists[4])
           \/ SameReady(a, b)
    <3> HIDE DEF a, b
    <3>1. GoodKernel(a, E) /\ b = IncrementTick(a)
      BY <2>3, <2>4 DEF a, b
    <3>2. GoodKernel(b, E) /\ b.pxCurrentTCB = a.pxCurrentTCB
      BY <3>1, TickIs
    <3>3. \/ Len(b.pxReadyTasksLists[4]) > Len(a.pxReadyTasksLists[4])
          \/ /\ AsleepIn(b) = AsleepIn(a)
             /\ \A p \in Priorities : b.pxReadyTasksLists[p] = a.pxReadyTasksLists[p]
             /\ b.uxTopReadyPriority = a.uxTopReadyPriority
      BY <3>1, TickIs
    <3> QED
      BY <3>2, <3>3 DEF SameReady
  <2>6. CASE Len(b.pxReadyTasksLists[4]) > Len(a.pxReadyTasksLists[4])
    <3>1. xSwitchRequired(a, b)
      <4> HIDE DEF a, b
      <4> QED
        BY <2>6, SwitchIsRequired
    <3>2. i + 1 \in 1..(i + 1) /\ (i + 1) - 1 = i
      BY <2>1
    <3>3. \E m \in 1..(i + 1) : xSwitchRequired(f[m - 1], f[m])
      BY <3>1, <3>2
    <3> QED
      BY <2>2, <2>5, <3>3
  <2>7. CASE SameReady(a, b)
    <3>1. CASE SameReady(k, a)
      <4>1. SameReady(k, b)
        <5> HIDE DEF a, b
        <5> QED
          BY <2>7, <3>1 DEF SameReady
      <4> QED
        BY <2>2, <2>5, <4>1
    <3>2. CASE \E m \in 1..i : xSwitchRequired(f[m - 1], f[m])
      <4>1. \A m \in 1..i : m \in 1..(i + 1)
        BY <2>1
      <4>2. \E m \in 1..(i + 1) : xSwitchRequired(f[m - 1], f[m])
        BY <3>2, <4>1
      <4> QED
        BY <2>2, <2>5, <4>2
    <3> QED
      BY <2>2, <3>1, <3>2
  <2> QED
    BY <2>5, <2>6, <2>7
<1>4. S = Nat
  <2>1. S \in SUBSET Nat
    OBVIOUS
  <2> HIDE DEF S
  <2> QED
    BY <1>2, <1>3, <2>1, Induction
<1>5. n \in Nat /\ n <= ticks
  OBVIOUS
<1>6. P(n)
  <2>1. n \in S
    BY <1>4, <1>5
  <2> QED
    BY <1>5, <2>1
<1> QED
  BY <1>6

\* Nobody goes to sleep meanwhile.
LEMMA UnwoundSleepers ==
  ASSUME NEW E \in SUBSET Task, "idle" \in E, NEW k, GoodKernel(k, E),
         NEW ticks \in Nat, NEW f, Unwound(k, ticks, f), NEW n \in 0..ticks
  PROVE  AsleepIn(f[n]) \subseteq AsleepIn(k)
<1> DEFINE S == {i \in Nat : i <= ticks => AsleepIn(f[i]) \subseteq AsleepIn(k)}
<1>1. 0 \in S
  <2>1. 0 \in 0..ticks
    OBVIOUS
  <2>2. f[0] = k
    BY <2>1 DEF Unwound
  <2> QED
    BY <2>2
<1>2. ASSUME NEW i \in S
      PROVE  i + 1 \in S
  <2> SUFFICES ASSUME i + 1 <= ticks
               PROVE  AsleepIn(f[i + 1]) \subseteq AsleepIn(k)
    OBVIOUS
  <2>1. i \in 0..ticks /\ i + 1 \in 0..ticks /\ i + 1 # 0 /\ (i + 1) - 1 = i
    OBVIOUS
  <2>2. f[i + 1] = IncrementTick(f[i])
    BY <2>1 DEF Unwound
  <2>3. GoodKernel(f[i], E)
    BY <2>1, UnwoundGood
  <2>4. \A x : InK(f[i + 1], x) => InK(f[i], x)
    BY <2>2, <2>3, TickIs
  <2>5. AsleepIn(f[i]) \subseteq AsleepIn(k)
    BY <2>1
  <2> QED
    BY <2>4, <2>5 DEF AsleepIn
<1>3. S = Nat
  <2>1. S \in SUBSET Nat
    OBVIOUS
  <2> HIDE DEF S
  <2> QED
    BY <1>1, <1>2, <2>1, Induction
<1>4. n \in S
  BY <1>3
<1> QED
  BY <1>4

\* What of a kernel the scheduler's steps keep: the task that runs is where its
\* ring begins, unless it sleeps or is deleted (or is idle, before the first
\* switch), and no ready one is of higher priority.
Runs(k, E) ==
  /\ GoodKernel(k, E)
  /\ k.pxCurrentTCB \in E \ AsleepIn(k) /\ k.pxCurrentTCB # "idle"
       => Head(k.pxReadyTasksLists[uxPriority(k.pxCurrentTCB)]) = k.pxCurrentTCB
  /\ \A p \in k.uxTopReadyPriority : p <= uxPriority(k.pxCurrentTCB)

\* Ticks, and a switch unless nothing woke.
LEMMA TicksThenSwitch ==
  ASSUME NEW E \in SUBSET Task, "idle" \in E, NEW k, Runs(k, E), NEW k2, GoodKernel(k2, E),
         k2.pxCurrentTCB = k.pxCurrentTCB, NEW s \in BOOLEAN, s \/ SameReady(k, k2),
         NEW k3, k3 = IF s THEN vTaskSwitchContext(k2) ELSE k2
  PROVE  /\ Runs(k3, E) /\ SameLists(k2, k3)
         /\ s => k3.pxCurrentTCB \in E \ AsleepIn(k3)
         /\ ~s => AsleepIn(k3) = AsleepIn(k) /\ k3.pxCurrentTCB = k.pxCurrentTCB
<1>1. CASE s
  <2>1. k3 = vTaskSwitchContext(k2)
    BY <1>1
  <2>2. GoodKernel(k3, E) /\ SameLists(k2, k3)
    BY <2>1, SwitchGood
  <2>3. k3.pxCurrentTCB \in E \ AsleepIn(k3)
    BY <2>1, SwitchGood
  <2>4. Head(k3.pxReadyTasksLists[uxPriority(k3.pxCurrentTCB)]) = k3.pxCurrentTCB
    BY <2>1, SwitchGood
  <2>5. \A p \in k3.uxTopReadyPriority : p <= uxPriority(k3.pxCurrentTCB)
    BY <2>1, SwitchGood
  <2> QED
    BY <1>1, <2>2, <2>3, <2>4, <2>5 DEF Runs
<1>2. CASE ~s
  <2>1. k3 = k2 /\ SameReady(k, k3)
    BY <1>2
  <2>2. uxPriority(k.pxCurrentTCB) \in Priorities
    BY Prio
  <2>3. Runs(k3, E)
    BY <2>1, <2>2 DEF Runs, SameReady
  <2>4. SameLists(k2, k3)
    BY <2>1 DEF SameLists
  <2> QED
    BY <1>2, <2>1, <2>3, <2>4 DEF SameReady
<1> QED
  BY <1>1, <1>2

-----------------------------------------------------------------------------
(***************************************************************************)
(* The inductive invariant: of a kernel k, uxSchedulerSuspended s,         *)
(* uxPendedTicks u, pc w and created c.                                    *)
(***************************************************************************)
ExistIn(w) == {t \in Task : w[t] \notin {"none", "deleted", "freed"}}
Moving == {"call", "delay", "resume", "yield", "work"}
Suspending == {"delay", "resume", "heap"}

\* Where each task can be.
Places(w, c) ==
  /\ w \in [Task -> Where] /\ c \in 0..Len(AppTasks)
  /\ \A t \in App : w[t] \in Moving \cup {"none"}
  /\ w["InitTask"] \in {"call", "heap", "create", "deleted", "freed"}
  /\ w["idle"] \in {"call", "heap"}
  /\ \A i \in 1..Len(AppTasks) : w[AppTasks[i]] = "none" <=> i > c
  /\ w["InitTask"] \in {"heap", "create"} => c < Len(AppTasks)

\* The task that runs exists or has just deleted itself; only it can have suspended
\* the scheduler.
Running(t, s, u, w) ==
  /\ t \in ExistIn(w) \/ (t = "InitTask" /\ w[t] = "deleted")
  /\ s \in BOOLEAN /\ (s <=> w[t] \in Suspending)
  /\ \A v \in Task \ {t} : w[v] \notin Suspending
  /\ u \in 0..MaxPended /\ (~s => u = 0)

\* A task that sleeps has called vTaskDelay; it is still in it if it runs.
Sleeping(k, w) ==
  \A t \in AsleepIn(k) : /\ w[t] \in {"resume", "yield", "call", "work"}
                         /\ t = k.pxCurrentTCB => w[t] \in {"resume", "yield"}

Good(k, s, u, w, c) ==
  /\ Runs(k, ExistIn(w)) /\ Places(w, c)
  /\ Running(k.pxCurrentTCB, s, u, w) /\ Sleeping(k, w)

IInv ==
  /\ Good(kernel, uxSchedulerSuspended, uxPendedTicks, pc, created)
  /\ dog \in 0..Timeout /\ hits \in 0..MaxHits /\ fed \in BOOLEAN

\* The types that follow from the invariant.
LEMMA GoodFacts ==
  ASSUME NEW k, NEW s, NEW u, NEW w, NEW c, Good(k, s, u, w, c)
  PROVE  /\ ExistIn(w) \in SUBSET Task /\ "idle" \in ExistIn(w)
         /\ GoodKernel(k, ExistIn(w)) /\ k.pxCurrentTCB \in Task
         /\ s \in BOOLEAN /\ u \in Nat /\ c \in Nat /\ Len(AppTasks) \in Nat
         /\ AsleepIn(k) \subseteq App
         /\ w \in [Task -> Where]
<1>1. ExistIn(w) \in SUBSET Task /\ "idle" \in ExistIn(w)
  BY Constants DEF Good, Places, ExistIn
<1>2. GoodKernel(k, ExistIn(w))
  BY DEF Good, Runs
<1>3. k.pxCurrentTCB \in Task
  <2>1. k \in KernelType
    BY <1>2 DEF GoodKernel
  <2> QED
    BY <2>1 DEF KernelType
<1>4. MaxPended \in Nat /\ Len(AppTasks) \in Nat
  BY KernelAssumption, LenProperties
<1>5. u \in Nat /\ c \in Nat /\ s \in BOOLEAN
  BY <1>4 DEF Good, Places, Running
<1>6. w \in [Task -> Where]
  BY DEF Good, Places
<1>7. AsleepIn(k) \subseteq App
  BY DEF AsleepIn
<1> QED
  BY <1>1, <1>2, <1>3, <1>4, <1>5, <1>6, <1>7

\* Only t moves.
Moves(w, t, to, w2) ==
  w2 \in [Task -> Where] /\ \A v \in Task : w2[v] = IF v = t THEN to ELSE w[v]

\* To stay is to move to where one is.
LEMMA Stays ==
  ASSUME NEW w \in [Task -> Where], NEW t \in Task
  PROVE  Moves(w, t, w[t], w)
BY DEF Moves

\* The assignment to pc, as a move.
LEMMA ExceptMoves ==
  ASSUME NEW w \in [Task -> Where], NEW t \in Task, NEW to \in Where,
         NEW w2, w2 = [w EXCEPT ![t] = to]
  PROVE  Moves(w, t, to, w2)
BY DEF Moves

\* A task of the application goes on.
LEMMA AppMoves ==
  ASSUME NEW w, NEW c, Places(w, c), NEW t \in App, t \in ExistIn(w), NEW to \in Moving,
         NEW w2, Moves(w, t, to, w2)
  PROVE  Places(w2, c) /\ ExistIn(w2) = ExistIn(w)
<1>1. w \in [Task -> Where] /\ t \in Task /\ to \in Where
  BY Constants DEF Places, Moving, Where
<1>2. w2 \in [Task -> Where] /\ \A v \in Task : w2[v] = IF v = t THEN to ELSE w[v]
  BY DEF Moves
<1>3. w[t] \in Moving /\ to # "none" /\ w[t] # "none"
  BY DEF Places, ExistIn, Moving
<1>4. ExistIn(w2) = ExistIn(w)
  BY <1>2, <1>3 DEF ExistIn, Moving
<1>5. t # "InitTask" /\ t # "idle"
  BY Constants
<1>6. \A i \in 1..Len(AppTasks) : AppTasks[i] \in App /\ AppTasks[i] \in Task
  BY Constants DEF App
<1>7. \A i \in 1..Len(AppTasks) : w2[AppTasks[i]] = "none" <=> i > c
  <2> SUFFICES ASSUME NEW i \in 1..Len(AppTasks)
               PROVE  w2[AppTasks[i]] = "none" <=> i > c
    OBVIOUS
  <2>1. w[AppTasks[i]] = "none" <=> i > c
    BY DEF Places
  <2> QED
    BY <1>2, <1>3, <1>6, <2>1
<1>8. /\ w2["InitTask"] = w["InitTask"] /\ w2["idle"] = w["idle"]
      /\ \A v \in App : w2[v] \in Moving \cup {"none"}
  BY <1>2, <1>5, Constants DEF Places
<1>9. Places(w2, c)
  BY <1>2, <1>7, <1>8 DEF Places
<1> QED
  BY <1>4, <1>9

\* The task that runs goes on.
LEMMA RunningMoves ==
  ASSUME NEW t \in Task, NEW s, NEW u, NEW w, Running(t, s, u, w),
         NEW to, NEW w2, Moves(w, t, to, w2),
         to \notin {"none", "deleted", "freed"} \/ (t = "InitTask" /\ to = "deleted"),
         NEW s2 \in BOOLEAN, s2 <=> to \in Suspending,
         NEW u2 \in 0..MaxPended, ~s2 => u2 = 0
  PROVE  Running(t, s2, u2, w2)
BY DEF Running, Moves, ExistIn

\* Another task runs.
LEMMA RunningSwitches ==
  ASSUME NEW t \in Task, NEW s, NEW u, NEW w, Running(t, s, u, w),
         NEW to, NEW w2, Moves(w, t, to, w2), to \notin Suspending,
         NEW t2 \in ExistIn(w2)
  PROVE  Running(t2, FALSE, 0, w2)
<1>1. \A v \in Task : w2[v] \notin Suspending
  BY DEF Running, Moves
<1>2. 0 \in 0..MaxPended /\ t2 \in Task
  BY KernelAssumption DEF ExistIn
<1> QED
  BY <1>1, <1>2 DEF Running

\* The tick, while the scheduler runs.
LEMMA GoodTick ==
  ASSUME NEW k, NEW u, NEW w, NEW c, Good(k, FALSE, u, w, c),
         NEW k1, k1 = IncrementTick(k),
         NEW k2, k2 = IF xSwitchRequired(k, k1) THEN vTaskSwitchContext(k1) ELSE k1
  PROVE  Good(k2, FALSE, u, w, c) /\ SameLists(k1, k2)
<1> DEFINE E == ExistIn(w)
           r == xSwitchRequired(k, k1)
<1>1. E \in SUBSET Task /\ "idle" \in E /\ GoodKernel(k, E) /\ k.pxCurrentTCB \in Task
  BY GoodFacts
<1>2. Runs(k, E) /\ Places(w, c) /\ Running(k.pxCurrentTCB, FALSE, u, w) /\ Sleeping(k, w)
  BY DEF Good
<1> HIDE DEF E
<1>3. /\ GoodKernel(k1, E) /\ k1.pxCurrentTCB = k.pxCurrentTCB
      /\ \A x : InK(k1, x) => InK(k, x)
  BY <1>1, TickIs
<1>4. r \/ SameReady(k, k1)
  <2>1. \/ Len(k1.pxReadyTasksLists[4]) > Len(k.pxReadyTasksLists[4])
        \/ /\ AsleepIn(k1) = AsleepIn(k)
           /\ \A p \in Priorities : k1.pxReadyTasksLists[p] = k.pxReadyTasksLists[p]
           /\ k1.uxTopReadyPriority = k.uxTopReadyPriority
    BY <1>1, TickIs
  <2>2. CASE Len(k1.pxReadyTasksLists[4]) > Len(k.pxReadyTasksLists[4])
    BY <2>2, SwitchIsRequired
  <2> QED
    BY <2>1, <2>2 DEF SameReady
<1>5. r \in BOOLEAN
  BY DEF xSwitchRequired
<1> HIDE DEF r
<1>6. k2 = IF r THEN vTaskSwitchContext(k1) ELSE k1
  BY DEF r
<1>7. /\ Runs(k2, E) /\ SameLists(k1, k2)
      /\ r => k2.pxCurrentTCB \in E \ AsleepIn(k2)
      /\ ~r => AsleepIn(k2) = AsleepIn(k) /\ k2.pxCurrentTCB = k.pxCurrentTCB
  BY <1>1, <1>2, <1>3, <1>4, <1>5, <1>6, TicksThenSwitch
<1>8. AsleepIn(k2) \subseteq AsleepIn(k)
  <2>1. AsleepIn(k2) = AsleepIn(k1)
    BY <1>7, SameSleepers
  <2> QED
    BY <1>3, <2>1 DEF AsleepIn
<1>9. Sleeping(k2, w)
  BY <1>2, <1>7, <1>8 DEF Sleeping
<1>10. Running(k2.pxCurrentTCB, FALSE, u, w)
  <2>1. u = 0 /\ w[k.pxCurrentTCB] \notin Suspending
    BY <1>2 DEF Running
  <2>2. CASE r
    <3>1. Moves(w, k.pxCurrentTCB, w[k.pxCurrentTCB], w)
      BY <1>1, <1>2, Stays DEF Places, Where
    <3> QED
      BY <1>1, <1>2, <1>7, <2>1, <2>2, <3>1, RunningSwitches DEF E
  <2>3. CASE ~r
    BY <1>2, <1>7, <2>3
  <2> QED
    BY <2>2, <2>3
<1> QED
  BY <1>2, <1>7, <1>9, <1>10 DEF Good, E

\* A switch without any tick, by a task that does not sleep or has said that it does.
LEMMA GoodSwitch ==
  ASSUME NEW k, NEW s, NEW u, NEW w, NEW c, Good(k, s, u, w, c),
         w[k.pxCurrentTCB] \notin Suspending, NEW k2, k2 = vTaskSwitchContext(k)
  PROVE  Good(k2, s, u, w, c) /\ SameLists(k, k2)
<1> DEFINE E == ExistIn(w)
<1>1. E \in SUBSET Task /\ "idle" \in E /\ GoodKernel(k, E) /\ k.pxCurrentTCB \in Task
  BY GoodFacts
<1>2. Runs(k, E) /\ Places(w, c) /\ Running(k.pxCurrentTCB, s, u, w) /\ Sleeping(k, w)
  BY DEF Good
<1> HIDE DEF E
<1>3. SameReady(k, k)
  BY DEF SameReady
<1>4. /\ Runs(k2, E) /\ SameLists(k, k2)
      /\ k2.pxCurrentTCB \in E \ AsleepIn(k2)
  BY <1>1, <1>2, <1>3, TicksThenSwitch
<1>5. Sleeping(k2, w)
  <2>1. AsleepIn(k2) = AsleepIn(k)
    BY <1>4, SameSleepers
  <2> QED
    BY <1>2, <1>4, <2>1 DEF Sleeping
<1>6. Running(k2.pxCurrentTCB, s, u, w)
  <2>1. s = FALSE /\ u = 0
    BY <1>2 DEF Running
  <2> QED
    <3>1. Moves(w, k.pxCurrentTCB, w[k.pxCurrentTCB], w)
      BY <1>1, <1>2, Stays DEF Places, Where
    <3> QED
      BY <1>1, <1>2, <1>4, <2>1, <3>1, RunningSwitches DEF E
<1> QED
  BY <1>2, <1>4, <1>5, <1>6 DEF Good, E

\* vTaskDelay begins, and monitor has fed the watchdog.
BeginsOrFeeds(k, s2, w, w2) ==
  /\ k.pxCurrentTCB \in App
  /\ \/ /\ s2 = TRUE /\ w[k.pxCurrentTCB] = "call"
        /\ Moves(w, k.pxCurrentTCB, "delay", w2)
     \/ /\ s2 = FALSE /\ w[k.pxCurrentTCB] = "work"
        /\ Moves(w, k.pxCurrentTCB, "call", w2)

\* Either keeps the invariant.
LEMMA GoodMove ==
  ASSUME NEW k, NEW s, NEW u, NEW w, NEW c, Good(k, s, u, w, c),
         NEW s2, NEW w2, BeginsOrFeeds(k, s2, w, w2)
  PROVE  Good(k, s2, u, w2, c)
<1> DEFINE t == k.pxCurrentTCB
           to == IF s2 = TRUE THEN "delay" ELSE "call"
<1>0. /\ t \in App /\ s2 \in BOOLEAN /\ (s2 <=> to = "delay") /\ Moves(w, t, to, w2)
      /\ w[t] = IF to = "delay" THEN "call" ELSE "work"
      /\ to \in {"delay", "call"}
  BY DEF BeginsOrFeeds
<1> HIDE DEF to
<1>1. Runs(k, ExistIn(w)) /\ Places(w, c) /\ Running(t, s, u, w) /\ Sleeping(k, w)
  BY DEF Good
<1>2. t \in App /\ t \in Task /\ w[t] \in {"call", "work"} /\ to \in Moving
  BY <1>0, Constants DEF Moving
<1>3. t \in ExistIn(w) /\ w[t] \notin Suspending
  BY <1>2 DEF ExistIn, Suspending
<1> HIDE DEF t
<1>4. /\ Places(w2, c) /\ ExistIn(w2) = ExistIn(w) /\ Moves(w, t, to, w2)
      /\ \A v \in Task : w2[v] = IF v = t THEN to ELSE w[v]
  <2>2. Moves(w, t, to, w2)
    BY <1>0
  <2>3. Places(w2, c) /\ ExistIn(w2) = ExistIn(w)
    BY <1>1, <1>2, <1>3, <2>2, AppMoves
  <2> QED
    BY <2>2, <2>3 DEF Moves
<1>5. Running(t, s2, u, w2)
  <2>1. u = 0 /\ u \in 0..MaxPended
    BY <1>1, <1>3 DEF Running
  <2>2. s2 <=> to \in Suspending
    BY <1>0 DEF Suspending
  <2>3. to \notin {"none", "deleted", "freed"}
    BY <1>2 DEF Moving
  <2> QED
    BY <1>0, <1>1, <1>2, <1>4, <2>1, <2>2, <2>3, RunningMoves
<1>6. t \notin AsleepIn(k)
  BY <1>1, <1>2 DEF Sleeping, t
<1>7. Sleeping(k, w2)
  BY <1>1, <1>4, <1>6, Constants DEF Sleeping, AsleepIn
<1> QED
  BY <1>1, <1>4, <1>5, <1>7 DEF Good, t

\* The task goes to sleep.
FallsAsleep(k, k2, w, w2) ==
  /\ w[k.pxCurrentTCB] = "delay" /\ Moves(w, k.pxCurrentTCB, "resume", w2)
  /\ k2 = prvAddCurrentTaskToDelayedList(k, Delay[k.pxCurrentTCB])

\* Of a kernel k and the next k2: only t falls asleep.
Slept(k, k2, t) ==
  /\ t \in App /\ t \notin AsleepIn(k)
  /\ k2.xTickCount = k.xTickCount
  /\ \A x : InK(k2, x) <=>
       \/ InK(k, x)
       \/ x = [task |-> t, value |-> (k.xTickCount + Delay[t]) % (portMAX_DELAY + 1)]

\* It keeps the invariant.
LEMMA GoodSleep ==
  ASSUME NEW k, NEW s, NEW u, NEW w, NEW c, Good(k, s, u, w, c),
         NEW k2, NEW w2, FallsAsleep(k, k2, w, w2)
  PROVE  /\ Good(k2, s, u, w2, c) /\ s = TRUE
         /\ Slept(k, k2, k.pxCurrentTCB)
<1> DEFINE t == k.pxCurrentTCB
           E == ExistIn(w)
<1>1. Runs(k, E) /\ Places(w, c) /\ Running(t, s, u, w) /\ Sleeping(k, w)
  BY DEF Good
<1>0. w[t] = "delay"
  BY DEF FallsAsleep
<1>2. t \in App
  <2>1. t \in Task
    BY GoodFacts
  <2> QED
    BY <1>0, <1>1, <2>1 DEF Places, Task
<1>3. t \in E /\ t \notin AsleepIn(k) /\ t \in Task
  BY <1>0, <1>1, <1>2, Constants DEF Sleeping, ExistIn
<1>4. E \in SUBSET Task /\ "idle" \in E /\ GoodKernel(k, E)
  BY GoodFacts
<1>5. Head(k.pxReadyTasksLists[uxPriority(t)]) = t
  BY <1>1, <1>2, <1>3, Constants DEF Runs
<1> DEFINE n == Delay[t]
<1>6. n \in Nat /\ n > 0 /\ n < portMAX_DELAY
  BY <1>2, Constants
<1>7. k2 = prvAddCurrentTaskToDelayedList(k, n) /\ Moves(w, t, "resume", w2)
      /\ t = k.pxCurrentTCB
  BY DEF FallsAsleep
<1> HIDE DEF E, t, n
<1>8. GoodKernel(k2, E) /\ k2.pxCurrentTCB = t
  BY <1>2, <1>3, <1>4, <1>5, <1>6, <1>7, SleepGood
<1>9. /\ k2.xTickCount = k.xTickCount
      /\ k2.uxTopReadyPriority \subseteq k.uxTopReadyPriority
  BY <1>2, <1>3, <1>4, <1>5, <1>6, <1>7, SleepGood
<1>10. \A x : InK(k2, x) <=>
              \/ InK(k, x)
              \/ x = [task |-> t, value |-> (k.xTickCount + n) % (portMAX_DELAY + 1)]
  BY <1>2, <1>3, <1>4, <1>5, <1>6, <1>7, SleepGood
<1>11. AsleepIn(k2) = AsleepIn(k) \cup {t}
  BY <1>2, <1>3, <1>4, <1>5, <1>6, <1>7, SleepGood
<1>12. /\ Places(w2, c) /\ ExistIn(w2) = E /\ Moves(w, t, "resume", w2)
       /\ \A v \in Task : w2[v] = IF v = t THEN "resume" ELSE w[v]
  <2>1. "resume" \in Moving /\ t \in ExistIn(w)
    BY <1>3 DEF Moving, E
  <2>2. Moves(w, t, "resume", w2)
    BY <1>7
  <2>3. Places(w2, c) /\ ExistIn(w2) = E
    BY <1>1, <1>2, <2>1, <2>2, AppMoves DEF E
  <2> QED
    BY <2>2, <2>3 DEF Moves
<1>13. w[t] = "delay"
  BY <1>0
<1>14. s = TRUE /\ Running(t, s, u, w2)
  <2>1. s = TRUE /\ u \in 0..MaxPended
    BY <1>1, <1>13 DEF Running, Suspending
  <2>2. "resume" \in Suspending /\ "resume" \notin {"none", "deleted", "freed"}
    BY DEF Suspending
  <2> QED
    BY <1>1, <1>3, <1>12, <2>1, <2>2, RunningMoves
<1>15. Sleeping(k2, w2)
  <2>1. \A v \in AsleepIn(k) : v \in Task
    BY Constants DEF AsleepIn
  <2> QED
    BY <1>1, <1>3, <1>8, <1>11, <1>12, <2>1 DEF Sleeping
<1>16. Runs(k2, E)
  <2>1. t \notin E \ AsleepIn(k2)
    BY <1>11
  <2>2. \A p \in k2.uxTopReadyPriority : p <= uxPriority(t)
    BY <1>1, <1>9 DEF Runs, t
  <2> QED
    BY <1>8, <2>1, <2>2 DEF Runs
<1>17. Good(k2, s, u, w2, c)
  BY <1>8, <1>12, <1>14, <1>15, <1>16 DEF Good
<1>18. Slept(k, k2, t)
  BY <1>2, <1>3, <1>9, <1>10 DEF Slept, n
<1> QED
  BY <1>14, <1>17, <1>18 DEF t

\* portYIELD at the end of vTaskDelay.
LEMMA GoodYield ==
  ASSUME NEW k, NEW s, NEW u, NEW w, NEW c, Good(k, s, u, w, c), w[k.pxCurrentTCB] = "yield",
         NEW to \in {"call", "work"}, NEW w2, Moves(w, k.pxCurrentTCB, to, w2),
         NEW k2, k2 = vTaskSwitchContext(k)
  PROVE  Good(k2, s, u, w2, c) /\ SameLists(k, k2)
<1> DEFINE t == k.pxCurrentTCB
           E == ExistIn(w)
<1>1. Runs(k, E) /\ Places(w, c) /\ Running(t, s, u, w) /\ Sleeping(k, w)
  BY DEF Good
<1>2. t \in App
  <2>1. t \in Task
    BY GoodFacts
  <2> QED
    BY <1>1, <2>1 DEF Places, Task
<1>3. t \in E /\ t \in Task /\ w[t] \notin Suspending
  BY <1>2, Constants DEF ExistIn, Suspending
<1>4. E \in SUBSET Task /\ "idle" \in E /\ GoodKernel(k, E)
  BY GoodFacts
<1>5. Moves(w, t, to, w2)
  OBVIOUS
<1> HIDE DEF E, t
<1>6. SameReady(k, k)
  BY DEF SameReady
<1>7. Runs(k2, E) /\ SameLists(k, k2) /\ k2.pxCurrentTCB \in E \ AsleepIn(k2)
  BY <1>1, <1>4, <1>6, TicksThenSwitch
<1>8. /\ Places(w2, c) /\ ExistIn(w2) = E /\ Moves(w, t, to, w2)
      /\ \A v \in Task : w2[v] = IF v = t THEN to ELSE w[v]
  <2>1. to \in Moving /\ t \in ExistIn(w)
    BY <1>3 DEF Moving, E
  <2>2. Moves(w, t, to, w2)
    BY <1>5
  <2>3. Places(w2, c) /\ ExistIn(w2) = E
    BY <1>1, <1>2, <2>1, <2>2, AppMoves DEF E
  <2> QED
    BY <2>2, <2>3 DEF Moves
<1>9. Sleeping(k2, w2)
  <2>1. AsleepIn(k2) = AsleepIn(k)
    BY <1>7, SameSleepers
  <2>2. \A v \in AsleepIn(k) : v \in Task
    BY Constants DEF AsleepIn
  <2> QED
    BY <1>1, <1>7, <1>8, <2>1, <2>2 DEF Sleeping
<1>10. Running(k2.pxCurrentTCB, s, u, w2)
  <2>1. s = FALSE /\ u = 0
    BY <1>1, <1>3 DEF Running
  <2>2. to \notin Suspending
    BY DEF Suspending
  <2> QED
    BY <1>1, <1>3, <1>7, <1>8, <2>1, <2>2, RunningSwitches
<1> QED
  BY <1>7, <1>8, <1>9, <1>10 DEF Good

\* InitTask and idle go on.
LEMMA SystemMoves ==
  ASSUME NEW w, NEW c, Places(w, c), NEW t \in {"InitTask", "idle"}, NEW to \in Where,
         NEW w2, Moves(w, t, to, w2),
         t = "idle" => to \in {"call", "heap"},
         t = "InitTask" => to \in {"call", "heap", "create", "deleted", "freed"},
         t = "InitTask" /\ to \in {"heap", "create"} => c < Len(AppTasks)
  PROVE  Places(w2, c)
<1>1. "InitTask" # "idle" /\ t \in Task
  BY Constants
<1>2. w2 \in [Task -> Where] /\ \A v \in Task : w2[v] = IF v = t THEN to ELSE w[v]
  BY DEF Moves
<1>3. \A i \in 1..Len(AppTasks) : AppTasks[i] \in App
  BY DEF App
<1>4. \A v \in App : v \in Task /\ v # t /\ w2[v] = w[v]
  BY <1>2, Constants
<1>5. \A i \in 1..Len(AppTasks) : w2[AppTasks[i]] = "none" <=> i > c
  <2> SUFFICES ASSUME NEW i \in 1..Len(AppTasks)
               PROVE  w2[AppTasks[i]] = "none" <=> i > c
    OBVIOUS
  <2>1. w[AppTasks[i]] = "none" <=> i > c
    BY DEF Places
  <2> QED
    BY <1>3, <1>4, <2>1
<1>6. "InitTask" \in Task /\ "idle" \in Task
  BY Constants
<1>7. /\ w2["InitTask"] \in {"call", "heap", "create", "deleted", "freed"}
      /\ w2["idle"] \in {"call", "heap"}
      /\ w2["InitTask"] \in {"heap", "create"} => c < Len(AppTasks)
  BY <1>1, <1>2, <1>6 DEF Places
<1>8. (\A v \in App : w2[v] \in Moving \cup {"none"}) /\ c \in 0..Len(AppTasks)
  BY <1>4 DEF Places
<1> QED
  BY <1>2, <1>5, <1>7, <1>8 DEF Places

\* xTaskResumeAll: where the task that runs gets to, with or without a switch.
ResumeTo(t, from, switch) ==
  IF from = "heap" THEN IF t = "InitTask" THEN "create" ELSE "call"
  ELSE IF ~switch THEN "yield" ELSE IF t = "monitor" THEN "work" ELSE "call"

\* With f what the kernel is after each tick and r whether one of them asks for a
\* switch.
Resumes(k, k2, w, w2, u, f, r) ==
  /\ Unwound(k, u, f) /\ w[k.pxCurrentTCB] \in {"resume", "heap"}
  /\ r = \E n \in 1..u : xSwitchRequired(f[n - 1], f[n])
  /\ k2 = IF r THEN vTaskSwitchContext(f[u]) ELSE f[u]
  /\ Moves(w, k.pxCurrentTCB, ResumeTo(k.pxCurrentTCB, w[k.pxCurrentTCB], r), w2)

\* xTaskResumeAll keeps the invariant.
LEMMA GoodResume ==
  ASSUME NEW k, NEW s, NEW u, NEW w, NEW c, Good(k, s, u, w, c),
         NEW k2, NEW w2, NEW f, NEW r, Resumes(k, k2, w, w2, u, f, r),
         NEW s2, s2 = FALSE
  PROVE  Good(k2, s2, 0, w2, c) /\ SameLists(f[u], k2) /\ s = TRUE
<1> DEFINE t == k.pxCurrentTCB
           E == ExistIn(w)
           to == ResumeTo(t, w[t], r)
<1>0. /\ Unwound(k, u, f) /\ w[t] \in {"resume", "heap"}
      /\ r = \E n \in 1..u : xSwitchRequired(f[n - 1], f[n])
      /\ k2 = IF r THEN vTaskSwitchContext(f[u]) ELSE f[u]
      /\ Moves(w, t, to, w2)
  BY DEF Resumes
<1>1. Runs(k, E) /\ Places(w, c) /\ Running(t, s, u, w) /\ Sleeping(k, w)
  BY DEF Good
<1>2. E \in SUBSET Task /\ "idle" \in E /\ GoodKernel(k, E) /\ t \in Task /\ u \in Nat
  BY GoodFacts
<1>3. r \in BOOLEAN
  BY <1>0
<1>4. /\ w[t] \in {"resume", "heap"}
      /\ w[t] = "resume" => t \in App
      /\ w[t] = "heap" => t \in {"InitTask", "idle"}
      /\ w \in [Task -> Where]
  BY <1>0, <1>1, <1>2 DEF Places, Task, Moving
<1>5. /\ to \in Where /\ to \notin Suspending /\ to \notin {"none", "deleted", "freed"}
      /\ w[t] = "resume" => to \in {"yield", "work", "call"}
      /\ w[t] = "resume" /\ ~r => to = "yield"
      /\ w[t] = "heap" => to = IF t = "InitTask" THEN "create" ELSE "call"
  BY <1>4 DEF ResumeTo, Where, Suspending
<1>7. /\ GoodKernel(f[u], E) /\ f[u].pxCurrentTCB = t
      /\ r \/ SameReady(k, f[u])
  <2>1. u \in 0..u
    BY <1>2
  <2>2. GoodKernel(f[u], E)
    BY <1>0, <1>2, <2>1, UnwoundGood
  <2>3. f[u].pxCurrentTCB = k.pxCurrentTCB
    BY <1>0, <1>2, <2>1, UnwoundGood
  <2>4. r \/ SameReady(k, f[u])
    BY <1>0, <1>2, <2>1, UnwoundGood
  <2> QED
    BY <2>2, <2>3, <2>4
<1>8. t = k.pxCurrentTCB
  OBVIOUS
<1> HIDE DEF t, E, to
<1>9. /\ Runs(k2, E) /\ SameLists(f[u], k2)
      /\ r => k2.pxCurrentTCB \in E \ AsleepIn(k2)
      /\ ~r => AsleepIn(k2) = AsleepIn(k) /\ k2.pxCurrentTCB = t
  <2> DEFINE k1 == f[u]
  <2>1. GoodKernel(k1, E) /\ k1.pxCurrentTCB = k.pxCurrentTCB /\ (r \/ SameReady(k, k1))
    BY <1>7, <1>8
  <2>2. k2 = IF r THEN vTaskSwitchContext(k1) ELSE k1
    BY <1>0
  <2> HIDE DEF k1
  <2>3. Runs(k2, E) /\ SameLists(k1, k2)
    BY <1>1, <1>2, <1>3, <2>1, <2>2, TicksThenSwitch
  <2>4. r => k2.pxCurrentTCB \in E \ AsleepIn(k2)
    BY <1>1, <1>2, <1>3, <2>1, <2>2, TicksThenSwitch
  <2>5. CASE ~r
    <3>1. k2 = k1 /\ SameReady(k, k1)
      BY <2>1, <2>2, <2>5
    <3> QED
      BY <1>8, <2>1, <2>3, <2>5, <3>1 DEF SameReady, k1
  <2> QED
    BY <1>3, <1>8, <2>3, <2>4, <2>5 DEF k1
<1>10. Moves(w, t, to, w2)
  BY <1>0
<1>11. Places(w2, c) /\ ExistIn(w2) = E
  <2>1. CASE w[t] = "resume"
    <3>1. t \in App /\ t \in ExistIn(w) /\ to \in Moving
      BY <1>2, <1>4, <1>5, <2>1 DEF ExistIn, Moving
    <3> QED
      BY <1>1, <1>10, <3>1, AppMoves DEF E
  <2>2. CASE w[t] = "heap"
    <3>1. t \in {"InitTask", "idle"} /\ to = IF t = "InitTask" THEN "create" ELSE "call"
      BY <1>4, <1>5, <2>2
    <3>2. t = "InitTask" => c < Len(AppTasks)
      BY <1>1, <2>2 DEF Places
    <3>3. "InitTask" # "idle"
      OBVIOUS
    <3>4. Places(w2, c)
      BY <1>1, <1>5, <1>10, <3>1, <3>2, <3>3, SystemMoves
    <3>5. ExistIn(w2) = ExistIn(w)
      BY <1>5, <1>10, <2>2 DEF Moves, ExistIn
    <3> QED
      BY <3>4, <3>5 DEF E
  <2> QED
    BY <1>4, <2>1, <2>2
<1>12. Running(k2.pxCurrentTCB, s2, 0, w2)
  <2>1. CASE r
    BY <1>1, <1>2, <1>5, <1>9, <1>10, <1>11, <2>1, RunningSwitches
  <2>2. CASE ~r
    <3>1. 0 \in 0..MaxPended /\ (FALSE <=> to \in Suspending)
      BY <1>5, KernelAssumption
    <3>2. Running(t, FALSE, 0, w2)
      BY <1>1, <1>2, <1>5, <1>10, <3>1, RunningMoves
    <3> QED
      BY <1>9, <2>2, <3>2
  <2> QED
    BY <1>3, <2>1, <2>2
<1>13. Sleeping(k2, w2)
  <2>2. AsleepIn(k2) \subseteq AsleepIn(k)
    <3>1. AsleepIn(k2) = AsleepIn(f[u])
      BY <1>9, SameSleepers
    <3>2. u \in 0..u
      BY <1>2
    <3> QED
      BY <1>0, <1>2, <3>1, <3>2, UnwoundSleepers
  <2>3. ASSUME NEW v \in AsleepIn(k2)
        PROVE  /\ w2[v] \in {"resume", "yield", "call", "work"}
               /\ v = k2.pxCurrentTCB => w2[v] \in {"resume", "yield"}
    <3>1. v \in AsleepIn(k) /\ v \in App /\ v \in Task
      BY <2>2, Constants DEF AsleepIn
    <3>2. /\ w[v] \in {"resume", "yield", "call", "work"}
          /\ v = t => w[v] \in {"resume", "yield"}
      BY <1>1, <1>8, <3>1 DEF Sleeping
    <3>3. CASE v = t
      <4>1. w[t] = "resume" /\ w2[v] = to
        BY <1>4, <1>10, <3>1, <3>2, <3>3 DEF Moves
      <4>2. r => v # k2.pxCurrentTCB
        BY <1>9
      <4> QED
        BY <1>5, <4>1, <4>2
    <3>4. CASE v # t
      <4>1. w2[v] = w[v]
        BY <1>10, <3>1, <3>4 DEF Moves
      <4>2. v # k2.pxCurrentTCB
        BY <1>9, <3>4
      <4> QED
        BY <3>2, <4>1, <4>2
    <3> QED
      BY <3>3, <3>4
  <2> QED
    BY <2>3 DEF Sleeping
<1>14. s = TRUE
  BY <1>1, <1>4 DEF Running, Suspending
<1> QED
  BY <1>9, <1>11, <1>12, <1>13, <1>14 DEF Good

\* InitTask allocates, and idle frees what InitTask had.
LEMMA GoodHeap ==
  ASSUME NEW k, NEW s, NEW u, NEW w, NEW c, Good(k, s, u, w, c), w[k.pxCurrentTCB] = "call",
         NEW w2,
         \/ /\ k.pxCurrentTCB = "InitTask" /\ c < Len(AppTasks)
            /\ w2 = [w EXCEPT !["InitTask"] = "heap"]
         \/ /\ k.pxCurrentTCB = "idle" /\ w["InitTask"] = "deleted"
            /\ w2 = [w EXCEPT !["idle"] = "heap", !["InitTask"] = "freed"]
  PROVE  Good(k, TRUE, u, w2, c) /\ s = FALSE
<1> DEFINE t == k.pxCurrentTCB
           E == ExistIn(w)
<1>1. Runs(k, E) /\ Places(w, c) /\ Running(t, s, u, w) /\ Sleeping(k, w)
  BY DEF Good
<1>2. w[t] = "call" /\ t \in {"InitTask", "idle"} /\ t \in Task /\ t \notin App
      /\ t = k.pxCurrentTCB /\ t \in E
  BY Constants DEF ExistIn
<1>3. /\ t = "InitTask" => c < Len(AppTasks) /\ w2 = [w EXCEPT !["InitTask"] = "heap"]
      /\ t = "idle" => /\ w["InitTask"] = "deleted"
                       /\ w2 = [w EXCEPT !["idle"] = "heap", !["InitTask"] = "freed"]
  OBVIOUS
<1> HIDE DEF t, E
<1>4. w \in [Task -> Where] /\ "InitTask" \in Task /\ "idle" \in Task
  BY <1>1, Constants DEF Places
<1>5. /\ w2 \in [Task -> Where] /\ w2[t] = "heap"
      /\ \A v \in Task : v # t => \/ w2[v] = w[v]
                                  \/ v = "InitTask" /\ w[v] = "deleted" /\ w2[v] = "freed"
  <2>1. CASE t = "InitTask"
    BY <1>3, <1>4, <2>1 DEF Where
  <2>2. CASE t = "idle"
    BY <1>3, <1>4, <2>2 DEF Where
  <2> QED
    BY <1>2, <2>1, <2>2
<1>6. Places(w2, c)
  <2>1. \A v \in App : w2[v] = w[v]
    BY <1>2, <1>5, Constants
  <2>2. \A i \in 1..Len(AppTasks) : AppTasks[i] \in App
    BY DEF App
  <2>3. \A i \in 1..Len(AppTasks) : w2[AppTasks[i]] = "none" <=> i > c
    BY <1>1, <2>1, <2>2 DEF Places
  <2>4. /\ w2["InitTask"] \in {"call", "heap", "create", "deleted", "freed"}
        /\ w2["idle"] \in {"call", "heap"}
        /\ w2["InitTask"] \in {"heap", "create"} => c < Len(AppTasks)
    <3>1. "idle" # "InitTask"
      OBVIOUS
    <3>2. CASE t = "InitTask"
      BY <1>1, <1>3, <1>4, <1>5, <3>1, <3>2 DEF Places
    <3>3. CASE t = "idle"
      BY <1>1, <1>3, <1>4, <1>5, <3>1, <3>3 DEF Places
    <3> QED
      BY <1>2, <3>2, <3>3
  <2>5. (\A v \in App : w2[v] \in Moving \cup {"none"}) /\ c \in 0..Len(AppTasks)
    BY <1>1, <2>1 DEF Places
  <2> QED
    BY <1>5, <2>3, <2>4, <2>5 DEF Places
<1>7. ExistIn(w2) = E
  <2>1. \A v \in Task : v \in ExistIn(w2) <=> v \in ExistIn(w)
    BY <1>2, <1>5 DEF ExistIn
  <2> QED
    BY <2>1 DEF E, ExistIn
<1>8. s = FALSE /\ Running(t, TRUE, u, w2)
  <2>1. s = FALSE /\ u \in 0..MaxPended /\ \A v \in Task \ {t} : w[v] \notin Suspending
    BY <1>1, <1>2 DEF Running, Suspending
  <2>2. \A v \in Task \ {t} : w2[v] \notin Suspending
    BY <1>5, <2>1 DEF Suspending
  <2> QED
    BY <1>2, <1>5, <1>7, <2>1, <2>2 DEF Running, Suspending
<1>9. Sleeping(k, w2)
  <2>1. \A v \in AsleepIn(k) : v \in Task /\ v # t /\ v # "InitTask"
    BY <1>2, Constants DEF AsleepIn
  <2> QED
    BY <1>1, <1>5, <2>1 DEF Sleeping
<1> QED
  BY <1>1, <1>6, <1>7, <1>8, <1>9 DEF Good, t

\* A task of the application appears, and runs.
LEMMA GoodCreate ==
  ASSUME NEW k, NEW s, NEW u, NEW w, NEW c, Good(k, s, u, w, c),
         k.pxCurrentTCB = "InitTask", w["InitTask"] = "create",
         NEW t, t = AppTasks[c + 1],
         NEW w2, w2 = [w EXCEPT !["InitTask"] = "call", ![t] = "call"],
         NEW k1, k1 = prvAddTaskToReadyList(k, t),
         NEW k2, k2 = IF uxPriority("InitTask") < uxPriority(t) THEN vTaskSwitchContext(k1)
                      ELSE k1
  PROVE  Good(k2, s, u, w2, c + 1) /\ SameLists(k, k2)
<1> DEFINE E == ExistIn(w)
<1>1. Runs(k, E) /\ Places(w, c) /\ Running("InitTask", s, u, w) /\ Sleeping(k, w)
  BY DEF Good
<1>2. E \in SUBSET Task /\ "idle" \in E /\ GoodKernel(k, E) /\ c \in Nat /\ Len(AppTasks) \in Nat
  BY GoodFacts
<1>3. c + 1 \in 1..Len(AppTasks)
  BY <1>1, <1>2 DEF Places
<1>4. t \in App /\ t \in Task /\ w[t] = "none"
  <2>1. t \in App
    BY <1>3 DEF App
  <2>2. w[t] = "none"
    BY <1>1, <1>2, <1>3 DEF Places
  <2> QED
    BY <2>1, <2>2, Constants
<1>5. t \notin E
  BY <1>4 DEF ExistIn
<1> HIDE DEF E
<1>6. GoodKernel(k1, E \cup {t}) /\ SameLists(k, k1)
  BY <1>2, <1>4, <1>5, AddGood
<1>7. k2 = vTaskSwitchContext(k1)
  <2>1. uxPriority("InitTask") = 0 /\ uxPriority(t) = 4
    BY <1>4, Prio, Constants
  <2> QED
    BY <2>1
<1> DEFINE E2 == E \cup {t}
<1>8. E2 \in SUBSET Task /\ "idle" \in E2 /\ GoodKernel(k1, E2)
  BY <1>2, <1>4, <1>6
<1> HIDE DEF E2
<1>9. GoodKernel(k2, E2) /\ SameLists(k1, k2)
  BY <1>7, <1>8, SwitchGood
<1>10. k2.pxCurrentTCB \in E2 \ AsleepIn(k2)
  BY <1>7, <1>8, SwitchGood
<1>11. Head(k2.pxReadyTasksLists[uxPriority(k2.pxCurrentTCB)]) = k2.pxCurrentTCB
  BY <1>7, <1>8, SwitchGood
<1>12. \A p \in k2.uxTopReadyPriority : p <= uxPriority(k2.pxCurrentTCB)
  BY <1>7, <1>8, SwitchGood
<1>13. Runs(k2, E2)
  BY <1>9, <1>10, <1>11, <1>12 DEF Runs
<1>14. SameLists(k, k2)
  BY <1>6, <1>9 DEF SameLists
<1>15. w \in [Task -> Where] /\ "InitTask" \in Task /\ "InitTask" \notin App /\ "idle" \in Task
       /\ "idle" \notin App /\ "idle" # "InitTask"
  BY <1>1, Constants DEF Places
<1>16. /\ w2 \in [Task -> Where]
       /\ \A v \in Task : w2[v] = IF v = t \/ v = "InitTask" THEN "call" ELSE w[v]
  BY <1>4, <1>15 DEF Where
<1>17. ExistIn(w2) = E2
  <2>1. \A v \in Task : v \in ExistIn(w2) <=> v \in ExistIn(w) \/ v = t
    BY <1>1, <1>4, <1>15, <1>16 DEF ExistIn
  <2> QED
    BY <1>4, <2>1 DEF E, E2, ExistIn
<1>18. Places(w2, c + 1)
  <2>1. \A i \in 1..Len(AppTasks) : w2[AppTasks[i]] = "none" <=> i > c + 1
    <3> SUFFICES ASSUME NEW i \in 1..Len(AppTasks)
                 PROVE  w2[AppTasks[i]] = "none" <=> i > c + 1
      OBVIOUS
    <3>1. AppTasks[i] \in App /\ AppTasks[i] \in Task /\ AppTasks[i] # "InitTask"
      BY <1>15, Constants DEF App
    <3>2. w[AppTasks[i]] = "none" <=> i > c
      BY <1>1 DEF Places
    <3>3. CASE AppTasks[i] = t
      <4>1. i = c + 1
        BY <1>3, <3>3, KernelAssumption
      <4> QED
        BY <1>2, <1>16, <3>1, <3>3, <4>1
    <3>4. CASE AppTasks[i] # t
      <4>1. i # c + 1
        BY <3>4
      <4>2. i > c <=> i > c + 1
        BY <1>2, <4>1
      <4> QED
        BY <1>16, <3>1, <3>2, <3>4, <4>2
    <3> QED
      BY <3>3, <3>4
  <2>2. \A v \in App : v \in Task /\ v # "InitTask" /\ w2[v] \in Moving \cup {"none"}
    BY <1>1, <1>15, <1>16, Constants DEF Places, Moving
  <2>3. w2["InitTask"] = "call" /\ w2["idle"] = w["idle"]
    BY <1>4, <1>15, <1>16
  <2>4. c + 1 \in 0..Len(AppTasks)
    BY <1>2, <1>3
  <2> QED
    BY <1>1, <1>16, <2>1, <2>2, <2>3, <2>4 DEF Places
<1>19. s = FALSE /\ u = 0 /\ Running(k2.pxCurrentTCB, s, u, w2)
  <2>1. s = FALSE /\ u = 0 /\ u \in 0..MaxPended
    BY <1>1 DEF Running, Suspending
  <2>2. \A v \in Task : w2[v] \notin Suspending
    BY <1>1, <1>16 DEF Running, Suspending
  <2>3. k2.pxCurrentTCB \in ExistIn(w2) /\ k2.pxCurrentTCB \in Task
    BY <1>8, <1>10, <1>17
  <2> QED
    BY <2>1, <2>2, <2>3 DEF Running
<1>20. Sleeping(k2, w2)
  <2>1. AsleepIn(k2) = AsleepIn(k)
    BY <1>14, SameSleepers
  <2>2. \A v \in AsleepIn(k) : v \in Task /\ v # "InitTask" /\ v # t
    BY <1>1, <1>4, <1>15, Constants DEF Sleeping, AsleepIn
  <2> QED
    BY <1>1, <1>10, <1>16, <2>1, <2>2 DEF Sleeping
<1> QED
  BY <1>13, <1>14, <1>17, <1>18, <1>19, <1>20 DEF Good

\* InitTask deletes itself.
LEMMA GoodDelete ==
  ASSUME NEW k, NEW s, NEW u, NEW w, NEW c, Good(k, s, u, w, c),
         k.pxCurrentTCB = "InitTask", w["InitTask"] = "call",
         NEW w2, w2 = [w EXCEPT !["InitTask"] = "deleted"],
         NEW k2, k2 = RemoveFromReadyList(k, "InitTask")
  PROVE  Good(k2, s, u, w2, c) /\ SameLists(k, k2)
<1> DEFINE t == "InitTask"
           E == ExistIn(w)
<1>1. Runs(k, E) /\ Places(w, c) /\ Running(t, s, u, w) /\ Sleeping(k, w)
  BY DEF Good
<1>2. E \in SUBSET Task /\ "idle" \in E /\ GoodKernel(k, E)
  BY GoodFacts
<1>3. t \in E \ AsleepIn(k) /\ t \in Task /\ t \notin App
  BY Constants DEF ExistIn, AsleepIn
<1>4. Head(k.pxReadyTasksLists[uxPriority(t)]) = t
  BY <1>1, <1>3 DEF Runs
<1> HIDE DEF E
<1>5. /\ GoodKernel(k2, E \ {t}) /\ SameLists(k, k2)
      /\ k2.pxCurrentTCB = k.pxCurrentTCB
      /\ k2.uxTopReadyPriority \subseteq k.uxTopReadyPriority
  BY <1>2, <1>3, <1>4, RemoveGood
<1>6. k2.pxCurrentTCB = t /\ k2.uxTopReadyPriority \subseteq k.uxTopReadyPriority
  BY <1>5
<1>7. Runs(k2, E \ {t})
  BY <1>1, <1>5, <1>6 DEF Runs
<1>8. /\ w2 \in [Task -> Where]
      /\ \A v \in Task : w2[v] = IF v = t THEN "deleted" ELSE w[v]
  BY <1>1, <1>3 DEF Places, Where
<1>9. ExistIn(w2) = E \ {t}
  BY <1>8 DEF ExistIn, E
<1>10. Places(w2, c)
  <2>1. Moves(w, t, "deleted", w2) /\ "deleted" \in Where
    BY <1>8 DEF Moves, Where
  <2> QED
    BY <1>1, <2>1, SystemMoves
<1>11. Running(t, s, u, w2)
  <2>1. s = FALSE /\ u = 0 /\ u \in 0..MaxPended
    BY <1>1 DEF Running, Suspending
  <2>2. \A v \in Task : w2[v] \notin Suspending
    BY <1>1, <1>8 DEF Running, Suspending
  <2> QED
    BY <1>3, <1>8, <2>1, <2>2 DEF Running
<1>12. Sleeping(k2, w2)
  <2>1. AsleepIn(k2) = AsleepIn(k)
    BY <1>5, SameSleepers
  <2>2. \A v \in AsleepIn(k) : v \in Task /\ v # t
    BY <1>3, Constants DEF AsleepIn
  <2> QED
    BY <1>1, <1>6, <1>8, <2>1, <2>2 DEF Sleeping
<1> QED
  BY <1>5, <1>6, <1>7, <1>9, <1>10, <1>11, <1>12 DEF Good

-----------------------------------------------------------------------------
\* When the scheduler starts.
LEMMA InitGood == Init => IInv
<1> SUFFICES ASSUME Init
             PROVE  IInv
  OBVIOUS
<1> DEFINE k == [xTickCount |-> 0, xNextTaskUnblockTime |-> portMAX_DELAY,
                 uxTopReadyPriority |-> {tskIDLE_PRIORITY},
                 pxDelayedTaskList |-> <<>>, pxOverflowDelayedTaskList |-> <<>>,
                 pxReadyTasksLists |-> [p \in Priorities |->
                   IF p = tskIDLE_PRIORITY THEN <<"end", "InitTask", "idle">> ELSE <<"end">>],
                 pxCurrentTCB |-> "idle"]
           w == [t \in Task |-> IF t \in App THEN "none" ELSE "call"]
           E == {"InitTask", "idle"}
<1>1. kernel = k /\ pc = w /\ uxSchedulerSuspended = FALSE /\ uxPendedTicks = 0 /\ created = 0
  BY DEF Init
<1>2. /\ k.xTickCount = 0 /\ k.xNextTaskUnblockTime = portMAX_DELAY
      /\ k.uxTopReadyPriority = {0}
      /\ k.pxDelayedTaskList = <<>> /\ k.pxOverflowDelayedTaskList = <<>>
      /\ k.pxReadyTasksLists[0] = <<"end", "InitTask", "idle">>
      /\ k.pxReadyTasksLists[4] = <<"end">>
      /\ k.pxCurrentTCB = "idle"
  BY Prio
<1>3. k \in KernelType
  <2>1. 0 \in Tick32 /\ portMAX_DELAY \in Tick32 /\ {tskIDLE_PRIORITY} \in SUBSET Priorities
    BY Constants, Prio DEF Tick32
  <2>2. <<>> \in Seq(Item) /\ "idle" \in Task
    BY EmptySeq, Constants
  <2>3. <<"end", "InitTask", "idle">> \in Seq(Node) /\ <<"end">> \in Seq(Node)
    BY Constants DEF Node
  <2>4. [p \in Priorities |->
           IF p = tskIDLE_PRIORITY THEN <<"end", "InitTask", "idle">> ELSE <<"end">>]
          \in [Priorities -> Seq(Node)]
    BY <2>3
  <2> QED
    BY <2>1, <2>2, <2>4 DEF KernelType
<1>4. /\ w \in [Task -> Where] /\ w["InitTask"] = "call" /\ w["idle"] = "call"
      /\ \A t \in App : w[t] = "none"
  BY Constants DEF Where
<1> HIDE DEF k, w
<1>5. ExistIn(w) = E
  BY <1>4, Constants DEF ExistIn, Task
<1>6. AsleepIn(k) = {}
  BY <1>2, EmptyList DEF AsleepIn, InK
<1>7. GoodLists(k)
  <2>1. Earliest(<<>>, portMAX_DELAY)
    BY EmptyList, Constants DEF Earliest, Tick32
  <2> QED
    BY <1>2, <2>1, EmptyList DEF GoodLists
<1>8. ReadyIn(k, E, 0) = E /\ ReadyIn(k, E, 4) = {}
  BY <1>6, Prio, Constants DEF ReadyIn
<1>9. GoodRings(k, E)
  <2>1. IsRing(<<"end", "InitTask", "idle">>, E)
    <3> DEFINE r == <<"end", "InitTask", "idle">>
    <3>1. r \in Seq(Node) /\ Len(r) = 3
      BY Constants DEF Node
    <3>2. r[1] = "end" /\ r[2] = "InitTask" /\ r[3] = "idle"
      OBVIOUS
    <3>3. 1..3 = {1, 2, 3}
      OBVIOUS
    <3> HIDE DEF r
    <3>4. \A i, j \in 1..Len(r) : r[i] = r[j] => i = j
      BY <3>1, <3>2, <3>3
    <3>5. \A x : x \in E \cup {"end"} <=> \E i \in 1..Len(r) : r[i] = x
      BY <3>1, <3>2, <3>3
    <3>6. IsRing(r, E)
      BY <3>1, <3>4, <3>5 DEF IsRing
    <3> QED
      BY <3>6 DEF r
  <2>2. IsRing(<<"end">>, {})
    <3>1. <<"end">> \in Seq(Node) /\ Len(<<"end">>) = 1 /\ <<"end">>[1] = "end"
      BY DEF Node
    <3>2. 1..1 = {1}
      OBVIOUS
    <3> QED
      BY <3>1, <3>2 DEF IsRing
  <2>3. 0 # 4 /\ \A p \in Priorities : p = 0 \/ p = 4
    BY Prio
  <2> QED
    BY <1>2, <1>8, <2>1, <2>2, <2>3 DEF GoodRings
<1>10. Runs(k, E)
  <2>1. GoodKernel(k, E)
    BY <1>3, <1>6, <1>7, <1>9 DEF GoodKernel
  <2>2. uxPriority("idle") = 0
    BY Prio, Constants
  <2>3. \A p \in k.uxTopReadyPriority : p <= uxPriority(k.pxCurrentTCB)
    BY <1>2, <2>2
  <2> QED
    BY <1>2, <2>1, <2>3 DEF Runs
<1>11. Places(w, 0)
  <2>1. 0 \in 0..Len(AppTasks)
    BY KernelAssumption, LenProperties
  <2>2. \A i \in 1..Len(AppTasks) : AppTasks[i] \in App /\ i > 0
    BY DEF App
  <2> QED
    BY <1>4, <2>1, <2>2 DEF Places
<1>12. Running(k.pxCurrentTCB, uxSchedulerSuspended, uxPendedTicks, w)
  <2>1. 0 \in 0..MaxPended
    BY KernelAssumption
  <2>2. \A t \in Task : w[t] \notin Suspending
    BY <1>4 DEF Suspending, Task
  <2> QED
    BY <1>1, <1>2, <1>5, <2>1, <2>2, Constants DEF Running
<1>13. Sleeping(k, w)
  BY <1>6 DEF Sleeping
<1>14. Good(kernel, uxSchedulerSuspended, uxPendedTicks, pc, created)
  <2>1. Runs(k, ExistIn(w))
    BY <1>5, <1>10
  <2>2. Good(k, uxSchedulerSuspended, uxPendedTicks, w, 0)
    BY <1>11, <1>12, <1>13, <2>1 DEF Good
  <2> QED
    BY <1>1, <2>2
<1>15. dog \in 0..Timeout /\ hits \in 0..MaxHits /\ fed \in BOOLEAN
  <2>1. dog = 0 /\ hits = 0 /\ fed = FALSE
    BY DEF Init
  <2>2. 0 \in 0..Timeout /\ 0 \in 0..MaxHits
    BY KernelAssumption
  <2> QED
    BY <2>1, <2>2
<1> QED
  BY <1>14, <1>15 DEF IInv

\* What xTaskResumeAll does, with f what the kernel is after each tick and r
\* whether one of them asks for a switch.
Resumed(f, r) ==
  /\ Unwound(kernel, uxPendedTicks, f)
  /\ r = \E n \in 1..uxPendedTicks : xSwitchRequired(f[n - 1], f[n])
  /\ pc[kernel.pxCurrentTCB] \in {"resume", "heap"}
  /\ uxSchedulerSuspended' = FALSE /\ uxPendedTicks' = 0
  /\ kernel' = IF r THEN vTaskSwitchContext(f[uxPendedTicks]) ELSE f[uxPendedTicks]
  /\ Moves(pc, kernel.pxCurrentTCB,
           ResumeTo(kernel.pxCurrentTCB, pc[kernel.pxCurrentTCB], r), pc')
  /\ UNCHANGED <<created, dogVars>>

\* The step of xTaskResumeAll, with its recursive function and whether it switches named.
LEMMA ResumedExists ==
  ASSUME IInv, xTaskResumeAll
  PROVE  \E f, r : Resumed(f, r)
<1> DEFINE F == CHOOSE f : f = [n \in 0..uxPendedTicks |->
                            IF n = 0 THEN kernel ELSE IncrementTick(f[n - 1])]
           switch(ks) == \E n \in 1..uxPendedTicks : xSwitchRequired(ks[n - 1], ks[n])
           r == switch(F)
<1>1. uxPendedTicks \in Nat
  BY GoodFacts DEF IInv
<1>2. Unwound(kernel, uxPendedTicks, F)
  <2>1. PICK k, t : k = kernel /\ t = uxPendedTicks
    OBVIOUS
  <2>2. \E f : Unwound(k, t, f)
    BY <1>1, <2>1, UnwoundExists
  <2>3. \E f : f = [n \in 0..uxPendedTicks |-> IF n = 0 THEN kernel ELSE IncrementTick(f[n - 1])]
    BY <2>1, <2>2 DEF Unwound
  <2> QED
    BY <2>3 DEF Unwound
<1>3. /\ pc[Current] \in {"resume", "heap"}
      /\ uxSchedulerSuspended' = FALSE /\ uxPendedTicks' = 0
      /\ kernel' = IF r THEN vTaskSwitchContext(F[uxPendedTicks]) ELSE F[uxPendedTicks]
      /\ \/ Step("resume", IF r THEN AfterDelay ELSE "yield")
         \/ Step("heap", IF Current = "InitTask" THEN "create" ELSE "call")
      /\ UNCHANGED <<created, dogVars>>
  BY DEF xTaskResumeAll
<1> HIDE DEF F
<1>4. r = \E n \in 1..uxPendedTicks : xSwitchRequired(F[n - 1], F[n])
  OBVIOUS
<1> HIDE DEF r
<1>5. pc' = [pc EXCEPT ![Current] = ResumeTo(Current, pc[Current], r)]
  <2>1. CASE Step("resume", IF r THEN AfterDelay ELSE "yield")
    <3>1. ResumeTo(Current, pc[Current], r) = IF r THEN AfterDelay ELSE "yield"
      BY <2>1 DEF Step, ResumeTo, AfterDelay
    <3> QED
      BY <2>1, <3>1 DEF Step
  <2>2. CASE Step("heap", IF Current = "InitTask" THEN "create" ELSE "call")
    <3>1. ResumeTo(Current, pc[Current], r) = IF Current = "InitTask" THEN "create" ELSE "call"
      BY <2>2 DEF Step, ResumeTo
    <3> QED
      BY <2>2, <3>1 DEF Step
  <2> QED
    BY <1>3, <2>1, <2>2
<1>6. Moves(pc, Current, ResumeTo(Current, pc[Current], r), pc')
  <2> DEFINE to == ResumeTo(Current, pc[Current], r)
  <2>1. pc \in [Task -> Where] /\ Current \in Task
    BY GoodFacts DEF IInv, Current
  <2>2. to \in Where
    BY DEF ResumeTo, Where
  <2>3. pc' = [pc EXCEPT ![Current] = to]
    BY <1>5
  <2> HIDE DEF to
  <2>4. Moves(pc, Current, to, pc')
    BY ONLY <2>1, <2>2, <2>3 DEF Moves
  <2> QED
    BY <2>4 DEF to
<1>7. Resumed(F, r)
  BY <1>2, <1>3, <1>4, <1>6 DEF Resumed, Current
<1> QED
  BY <1>7

\* The step keeps the invariant.
LEMMA ResumedGood ==
  ASSUME Good(kernel, uxSchedulerSuspended, uxPendedTicks, pc, created),
         NEW f, NEW r, Resumed(f, r)
  PROVE  /\ Good(kernel', uxSchedulerSuspended', uxPendedTicks', pc', created')
         /\ SameLists(f[uxPendedTicks], kernel') /\ uxSchedulerSuspended = TRUE
         /\ UNCHANGED dogVars
<1>1. /\ Unwound(kernel, uxPendedTicks, f)
      /\ r = \E n \in 1..uxPendedTicks : xSwitchRequired(f[n - 1], f[n])
      /\ pc[kernel.pxCurrentTCB] \in {"resume", "heap"}
      /\ kernel' = IF r THEN vTaskSwitchContext(f[uxPendedTicks]) ELSE f[uxPendedTicks]
      /\ Moves(pc, kernel.pxCurrentTCB,
               ResumeTo(kernel.pxCurrentTCB, pc[kernel.pxCurrentTCB], r), pc')
      /\ uxSchedulerSuspended' = FALSE /\ uxPendedTicks' = 0
      /\ UNCHANGED <<created, dogVars>>
  BY DEF Resumed
<1>2. Resumes(kernel, kernel', pc, pc', uxPendedTicks, f, r)
  BY <1>1 DEF Resumes
<1>3. Good(kernel', uxSchedulerSuspended', 0, pc', created)
  BY <1>1, <1>2, GoodResume
<1>4. SameLists(f[uxPendedTicks], kernel')
  <2>1. uxSchedulerSuspended' = FALSE
    BY <1>1
  <2> QED
    BY ONLY <1>2, <2>1, Good(kernel, uxSchedulerSuspended, uxPendedTicks, pc, created), GoodResume
<1>5. uxSchedulerSuspended = TRUE
  <2>1. pc[kernel.pxCurrentTCB] \in Suspending
    BY <1>1 DEF Suspending
  <2> QED
    BY <2>1 DEF Good, Running
<1> QED
  BY <1>1, <1>3, <1>4, <1>5

\* Every step keeps the invariant.
LEMMA NextGood == IInv /\ [Next]_vars => IInv'
<1> SUFFICES ASSUME IInv, [Next]_vars
             PROVE  IInv'
  OBVIOUS
<1>1. /\ Good(kernel, uxSchedulerSuspended, uxPendedTicks, pc, created)
      /\ dog \in 0..Timeout /\ hits \in 0..MaxHits /\ fed \in BOOLEAN
  BY DEF IInv
<1>2. /\ Timeout \in Nat /\ MaxHits \in Nat /\ MaxPended \in Nat
      /\ pc \in [Task -> Where] /\ kernel.pxCurrentTCB \in Task
  BY <1>1, GoodFacts, KernelAssumption
<1> DEFINE G == Good(kernel', uxSchedulerSuspended', uxPendedTicks', pc', created')
<1>3. CASE xPortSysTickHandler
  <2>1. G
    <3>1. CASE uxSchedulerSuspended
      <4>1. /\ uxPendedTicks < MaxPended /\ uxPendedTicks' = uxPendedTicks + 1
            /\ UNCHANGED <<kernel, uxSchedulerSuspended, pc, created>>
        BY <1>3, <3>1 DEF xPortSysTickHandler, xTaskIncrementTick
      <4>2. Good(kernel, uxSchedulerSuspended, uxPendedTicks + 1, pc, created)
        <5>1. uxPendedTicks \in Nat
          BY <1>1, GoodFacts
        <5>2. uxPendedTicks + 1 \in 0..MaxPended
          BY <1>2, <4>1, <5>1
        <5> QED
          BY <1>1, <3>1, <5>2 DEF Good, Running
      <4> QED
        BY <4>1, <4>2
    <3>2. CASE ~uxSchedulerSuspended
      <4>1. PICK k1 : /\ k1 = IncrementTick(kernel)
                      /\ kernel' = IF xSwitchRequired(kernel, k1) THEN vTaskSwitchContext(k1)
                                   ELSE k1
        BY <1>3, <3>2 DEF xPortSysTickHandler, xTaskIncrementTick
      <4>2. UNCHANGED <<uxSchedulerSuspended, uxPendedTicks, pc, created>>
        BY <1>3, <3>2 DEF xPortSysTickHandler, xTaskIncrementTick
      <4>3. uxSchedulerSuspended = FALSE
        BY <1>1, <3>2, GoodFacts
      <4>4. Good(kernel', FALSE, uxPendedTicks, pc, created)
        BY <1>1, <4>1, <4>3, GoodTick
      <4> QED
        BY <4>2, <4>3, <4>4
    <3> QED
      BY <3>1, <3>2
  <2>2. dog' \in 0..Timeout /\ hits' \in 0..MaxHits /\ fed' = fed
    BY <1>1, <1>2, <1>3 DEF xPortSysTickHandler
  <2> QED
    BY <1>1, <2>1, <2>2 DEF IInv
<1>4. CASE vTaskDelay
  <2>1. /\ Current \in App /\ pc[Current] = "call" /\ pc' = [pc EXCEPT ![Current] = "delay"]
        /\ uxSchedulerSuspended' = TRUE /\ UNCHANGED <<kernel, uxPendedTicks, created, dogVars>>
    BY <1>4 DEF vTaskDelay, Step
  <2>2. /\ kernel.pxCurrentTCB \in App /\ pc[kernel.pxCurrentTCB] = "call"
        /\ Moves(pc, kernel.pxCurrentTCB, "delay", pc')
    BY <1>2, <2>1, ExceptMoves DEF Current, Where
  <2>3. Good(kernel, TRUE, uxPendedTicks, pc', created)
    <3>1. BeginsOrFeeds(kernel, TRUE, pc, pc')
      BY <2>2 DEF BeginsOrFeeds
    <3> QED
      BY <1>1, <3>1, GoodMove
  <2> QED
    BY <1>1, <2>1, <2>3 DEF IInv, dogVars
<1>5. CASE AddToDelayedList
  <2>1. /\ pc[Current] = "delay" /\ pc' = [pc EXCEPT ![Current] = "resume"]
        /\ kernel' = prvAddCurrentTaskToDelayedList(kernel, Delay[Current])
        /\ hits' \in {0, hits}
        /\ UNCHANGED <<uxSchedulerSuspended, uxPendedTicks, created, dog, fed>>
    BY <1>5 DEF AddToDelayedList, Step
  <2>2. Good(kernel', uxSchedulerSuspended, uxPendedTicks, pc', created)
    <3>1. /\ pc[kernel.pxCurrentTCB] = "delay"
          /\ Moves(pc, kernel.pxCurrentTCB, "resume", pc')
          /\ kernel' = prvAddCurrentTaskToDelayedList(kernel, Delay[kernel.pxCurrentTCB])
      BY <1>2, <2>1, ExceptMoves DEF Current, Where
    <3>2. FallsAsleep(kernel, kernel', pc, pc')
      BY <3>1 DEF FallsAsleep
    <3> QED
      BY <1>1, <3>2, GoodSleep
  <2>3. hits' \in 0..MaxHits
    BY <1>1, <1>2, <2>1
  <2> QED
    BY <1>1, <2>1, <2>2, <2>3 DEF IInv
<1>6. CASE xTaskResumeAll
  <2>1. PICK f, r : Resumed(f, r)
    BY <1>6, ResumedExists
  <2>2. G /\ UNCHANGED dogVars
    BY <1>1, <2>1, ResumedGood
  <2> QED
    BY <1>1, <2>2 DEF IInv, dogVars
<1>7. CASE portYIELD
  <2>1. /\ pc[Current] = "yield" /\ pc' = [pc EXCEPT ![Current] = AfterDelay]
        /\ kernel' = vTaskSwitchContext(kernel) /\ AfterDelay \in {"call", "work"}
        /\ UNCHANGED <<uxSchedulerSuspended, uxPendedTicks, created, dogVars>>
    BY <1>7 DEF portYIELD, Step, AfterDelay
  <2>2. Good(kernel', uxSchedulerSuspended, uxPendedTicks, pc', created)
    <3>1. Moves(pc, kernel.pxCurrentTCB, AfterDelay, pc') /\ AfterDelay \in {"call", "work"}
      BY <1>2, <2>1, ExceptMoves DEF Current, Where
    <3> QED
      BY <1>1, <2>1, <3>1, GoodYield DEF Current
  <2> QED
    BY <1>1, <2>1, <2>2 DEF IInv, dogVars
<1>8. CASE HeapCall
  <2>1. /\ pc[Current] = "call" /\ uxSchedulerSuspended' = TRUE
        /\ UNCHANGED <<kernel, uxPendedTicks, created, dogVars>>
        /\ \/ /\ Current = "InitTask" /\ created < Len(AppTasks)
              /\ pc' = [pc EXCEPT !["InitTask"] = "heap"]
           \/ /\ Current = "idle" /\ pc["InitTask"] = "deleted"
              /\ pc' = [pc EXCEPT !["idle"] = "heap", !["InitTask"] = "freed"]
    BY <1>8 DEF HeapCall
  <2>2. Good(kernel, TRUE, uxPendedTicks, pc', created)
    BY <1>1, <2>1, GoodHeap DEF Current
  <2> QED
    BY <1>1, <2>1, <2>2 DEF IInv, dogVars
<1>9. CASE xTaskCreate
  <2> DEFINE t == AppTasks[created + 1]
             k1 == prvAddTaskToReadyList(kernel, t)
  <2>1. /\ pc["InitTask"] = "create" /\ Current = "InitTask"
        /\ pc' = [pc EXCEPT !["InitTask"] = "call", ![t] = "call"]
        /\ created' = created + 1
        /\ kernel' = IF uxPriority("InitTask") < uxPriority(t) THEN vTaskSwitchContext(k1)
                     ELSE k1
        /\ UNCHANGED <<uxSchedulerSuspended, uxPendedTicks, dogVars>>
    BY <1>9 DEF xTaskCreate
  <2>2. Good(kernel', uxSchedulerSuspended, uxPendedTicks, pc', created + 1)
    BY <1>1, <2>1, GoodCreate DEF Current
  <2> QED
    BY <1>1, <2>1, <2>2 DEF IInv, dogVars
<1>10. CASE vTaskDelete
  <2>1. /\ Current = "InitTask" /\ pc["InitTask"] = "call"
        /\ pc' = [pc EXCEPT !["InitTask"] = "deleted"]
        /\ kernel' = RemoveFromReadyList(kernel, "InitTask")
        /\ UNCHANGED <<uxSchedulerSuspended, uxPendedTicks, created, dogVars>>
    BY <1>10 DEF vTaskDelete, Step
  <2>2. Good(kernel', uxSchedulerSuspended, uxPendedTicks, pc', created)
    BY <1>1, <2>1, GoodDelete DEF Current
  <2> QED
    BY <1>1, <2>1, <2>2 DEF IInv, dogVars
<1>11. CASE DeletedYields \/ IdleYields
  <2>1. /\ pc[Current] \in {"deleted", "call"} /\ kernel' = vTaskSwitchContext(kernel)
        /\ UNCHANGED <<uxSchedulerSuspended, uxPendedTicks, pc, created, dogVars>>
    BY <1>11 DEF DeletedYields, IdleYields
  <2>2. pc[Current] \notin Suspending
    BY <2>1 DEF Suspending
  <2>3. Good(kernel', uxSchedulerSuspended, uxPendedTicks, pc, created)
    BY <1>1, <2>1, <2>2, GoodSwitch DEF Current
  <2> QED
    BY <1>1, <2>1, <2>3 DEF IInv, dogVars
<1>12. CASE IWDG_Feed
  <2>1. /\ Current \in App /\ pc[Current] = "work" /\ pc' = [pc EXCEPT ![Current] = "call"]
        /\ dog' = 0 /\ fed' = TRUE
        /\ UNCHANGED <<kernel, uxSchedulerSuspended, uxPendedTicks, created, hits>>
    BY <1>12, KernelAssumption DEF IWDG_Feed, Step
  <2>2. uxSchedulerSuspended = FALSE
    <3>1. pc[Current] \notin Suspending
      BY <2>1 DEF Suspending
    <3> QED
      BY <1>1, <3>1 DEF Good, Running, Current
  <2>3. Good(kernel, FALSE, uxPendedTicks, pc', created)
    <3>1. /\ kernel.pxCurrentTCB \in App /\ pc[kernel.pxCurrentTCB] = "work"
          /\ Moves(pc, kernel.pxCurrentTCB, "call", pc')
      BY <1>2, <2>1, ExceptMoves DEF Current, Where
    <3>2. BeginsOrFeeds(kernel, FALSE, pc, pc')
      BY <3>1 DEF BeginsOrFeeds
    <3> QED
      BY <1>1, <3>2, GoodMove
  <2>4. dog' \in 0..Timeout /\ hits' \in 0..MaxHits /\ fed' \in BOOLEAN
    BY <1>1, <1>2, <2>1
  <2> QED
    BY <2>1, <2>2, <2>3, <2>4 DEF IInv
<1>13. CASE UNCHANGED vars
  BY <1>1, <1>13 DEF vars, dogVars, IInv
<1> QED
  BY <1>3, <1>4, <1>5, <1>6, <1>7, <1>8, <1>9, <1>10, <1>11, <1>12, <1>13 DEF Next

-----------------------------------------------------------------------------
(***************************************************************************)
(* The two lists of tasks that sleep, one after the other.                 *)
(***************************************************************************)
OncePerTask(s) == \A i, j \in 1..Len(s) : s[i].task = s[j].task => i = j

\* Two lists of different tasks, one after the other.
LEMMA JoinedLists ==
  ASSUME NEW d, IsList(d), NEW o, IsList(o),
         \A x, y : In(d, x) /\ In(o, y) => x.task # y.task,
         NEW s, s = d \o o
  PROVE  /\ s \in Seq(Item) /\ Len(s) \in Nat
         /\ \A x : In(s, x) <=> In(d, x) \/ In(o, x)
         /\ OncePerTask(s)
<1>1. d \in Seq(Item) /\ o \in Seq(Item) /\ Len(d) \in Nat /\ Len(o) \in Nat
  BY ListTypes
<1>2. /\ s \in Seq(Item) /\ Len(s) = Len(d) + Len(o)
      /\ \A i \in 1..(Len(d) + Len(o)) : s[i] = IF i <= Len(d) THEN d[i] ELSE o[i - Len(d)]
  BY <1>1, ConcatProperties
<1>3. \A i \in 1..Len(s) : \/ i \in 1..Len(d) /\ s[i] = d[i]
                           \/ i - Len(d) \in 1..Len(o) /\ s[i] = o[i - Len(d)]
  BY <1>1, <1>2
<1>4. ASSUME NEW x
      PROVE  In(s, x) <=> In(d, x) \/ In(o, x)
  <2>1. In(s, x) => In(d, x) \/ In(o, x)
    BY <1>3 DEF In
  <2>2. ASSUME NEW i \in 1..Len(d), d[i] = x
        PROVE  In(s, x)
    <3>1. i \in 1..Len(s) /\ s[i] = x
      BY <1>1, <1>2, <2>2
    <3> QED
      BY <3>1 DEF In
  <2>3. ASSUME NEW i \in 1..Len(o), o[i] = x
        PROVE  In(s, x)
    <3> DEFINE j == i + Len(d)
    <3>1. j \in 1..Len(s) /\ ~(j <= Len(d)) /\ j - Len(d) = i
      BY <1>1, <1>2
    <3>2. s[j] = o[j - Len(d)]
      BY <1>2, <3>1
    <3> HIDE DEF j
    <3> QED
      BY <2>3, <3>1, <3>2 DEF In
  <2> QED
    BY <2>1, <2>2, <2>3 DEF In
<1>5. ASSUME NEW i \in 1..Len(s), NEW j \in 1..Len(s), s[i].task = s[j].task
      PROVE  i = j
  <2>1. \A m, n \in 1..Len(d) : d[m].task = d[n].task => m = n
    BY DEF IsList
  <2>2. \A m, n \in 1..Len(o) : o[m].task = o[n].task => m = n
    BY DEF IsList
  <2>3. \A m \in 1..Len(d), n \in 1..Len(o) : d[m].task # o[n].task
    BY DEF In
  <2>4. i \in Int /\ j \in Int
    BY <1>1, <1>2
  <2>5. CASE i \in 1..Len(d) /\ s[i] = d[i]
    <3>1. CASE j \in 1..Len(d) /\ s[j] = d[j]
      BY <1>5, <2>1, <2>5, <3>1
    <3>2. CASE j - Len(d) \in 1..Len(o) /\ s[j] = o[j - Len(d)]
      BY <1>5, <2>3, <2>5, <3>2
    <3> QED
      BY <1>3, <3>1, <3>2
  <2>6. CASE i - Len(d) \in 1..Len(o) /\ s[i] = o[i - Len(d)]
    <3>1. CASE j \in 1..Len(d) /\ s[j] = d[j]
      BY <1>5, <2>3, <2>6, <3>1
    <3>2. CASE j - Len(d) \in 1..Len(o) /\ s[j] = o[j - Len(d)]
      <4>1. i - Len(d) = j - Len(d)
        BY <1>5, <2>2, <2>6, <3>2
      <4> QED
        BY <1>1, <2>4, <4>1
    <3> QED
      BY <1>3, <3>1, <3>2
  <2> QED
    BY <1>3, <2>5, <2>6
<1> QED
  BY <1>1, <1>2, <1>4, <1>5 DEF OncePerTask

SleepersIn(k) == k.pxDelayedTaskList \o k.pxOverflowDelayedTaskList

\* The tasks that sleep are those of both lists.
LEMMA SleepersAre ==
  ASSUME NEW k, NEW E, GoodKernel(k, E)
  PROVE  /\ Len(SleepersIn(k)) \in Nat
         /\ \A x : InK(k, x) <=> In(SleepersIn(k), x)
         /\ \A x : InK(k, x) => x \in Item /\ x.task \in App /\ x.value \in Tick32
         /\ \A i, j \in 1..Len(SleepersIn(k)) :
              SleepersIn(k)[i].task = SleepersIn(k)[j].task => i = j
         /\ Tasks(SleepersIn(k)) = AsleepIn(k)
<1> DEFINE d == k.pxDelayedTaskList
           o == k.pxOverflowDelayedTaskList
           s == SleepersIn(k)
<1>1. /\ IsList(d) /\ IsList(o)
      /\ \A x, y : In(d, x) /\ In(o, y) => x.task # y.task
  BY DEF GoodKernel, GoodLists
<1>2. s = d \o o /\ \A x : InK(k, x) <=> In(d, x) \/ In(o, x)
  BY DEF SleepersIn, InK
<1> HIDE DEF d, o, s
<1>3. Len(s) \in Nat /\ \A i, j \in 1..Len(s) : s[i].task = s[j].task => i = j
  <2>1. Len(s) \in Nat
    BY <1>1, <1>2, JoinedLists
  <2>2. OncePerTask(s)
    BY <1>1, <1>2, JoinedLists
  <2> QED
    BY <2>1, <2>2 DEF OncePerTask
<1>4. \A x : InK(k, x) <=> In(s, x)
  BY <1>1, <1>2, JoinedLists
<1>5. \A x : InK(k, x) => x \in Item /\ x.task \in App /\ x.value \in Tick32
  BY <1>1, <1>2, ListTypes
<1>6. Tasks(s) = AsleepIn(k)
  <2>1. ASSUME NEW t \in Tasks(s)
        PROVE  t \in AsleepIn(k)
    <3>1. PICK i \in 1..Len(s) : s[i].task = t
      BY DEF Tasks
    <3>2. InK(k, s[i])
      BY <1>4 DEF In
    <3> QED
      BY <1>5, <3>1, <3>2 DEF AsleepIn
  <2>2. ASSUME NEW t \in AsleepIn(k)
        PROVE  t \in Tasks(s)
    <3>1. PICK x : InK(k, x) /\ x.task = t
      BY DEF AsleepIn
    <3>2. PICK i \in 1..Len(s) : s[i] = x
      BY <1>4, <3>1 DEF In
    <3> QED
      BY <3>1, <3>2 DEF Tasks
  <2> QED
    BY <2>1, <2>2
<1> QED
  BY <1>3, <1>4, <1>5, <1>6 DEF s

\* A task sleeps once.
LEMMA OneSleeper ==
  ASSUME NEW k, NEW E, GoodKernel(k, E), NEW x, NEW y, InK(k, x), InK(k, y), x.task = y.task
  PROVE  x = y
<1> DEFINE s == SleepersIn(k)
<1>1. /\ In(s, x) /\ In(s, y)
      /\ \A i, j \in 1..Len(s) : s[i].task = s[j].task => i = j
  BY SleepersAre
<1> QED
  BY <1>1 DEF In

-----------------------------------------------------------------------------
(***************************************************************************)
(* The invariant holds, and the properties follow from it.                 *)
(***************************************************************************)
\* Whatever the scheduler, its ticks and the tasks do, each task is where Places,
\* Running and Sleeping say, and the kernel's lists fit them.
THEOREM Invariance == Spec => []IInv
<1>1. Init => IInv
  BY InitGood
<1>2. IInv /\ [Next]_vars => IInv'
  BY NextGood
<1> QED
  BY <1>1, <1>2, PTL DEF Spec

\* The invariant says more than OneList.
LEMMA IInvOneList == IInv => OneList
<1> SUFFICES ASSUME IInv
             PROVE  OneList
  OBVIOUS
<1> DEFINE E == ExistIn(pc)
<1>1. Good(kernel, uxSchedulerSuspended, uxPendedTicks, pc, created)
  BY DEF IInv
<1>2. E \in SUBSET Task /\ "idle" \in E /\ GoodKernel(kernel, E)
  BY <1>1, GoodFacts
<1>3. kernel \in KernelType /\ AsleepIn(kernel) \subseteq E /\ GoodRings(kernel, E)
  BY <1>2 DEF GoodKernel
<1>4. E = Exist /\ SleepersIn(kernel) = Sleepers /\ Asleep = Tasks(SleepersIn(kernel))
  BY DEF ExistIn, Exist, SleepersIn, Sleepers, Asleep
<1> HIDE DEF E
<1>5. Asleep = AsleepIn(kernel)
  BY <1>2, <1>4, SleepersAre
<1>6. \A i, j \in 1..Len(Sleepers) : Sleepers[i].task = Sleepers[j].task => i = j
  BY <1>2, <1>4, SleepersAre
<1>7. TypeOK
  <2>1. /\ kernel.xTickCount \in Tick32 /\ kernel.xNextTaskUnblockTime \in Tick32
        /\ kernel.uxTopReadyPriority \in SUBSET Priorities
        /\ kernel.pxDelayedTaskList \in Seq(Item)
        /\ kernel.pxOverflowDelayedTaskList \in Seq(Item)
        /\ kernel.pxReadyTasksLists \in [Priorities -> Seq(Task \cup {"end"})]
        /\ kernel.pxCurrentTCB \in Task
    BY <1>3 DEF KernelType, Node
  <2>2. /\ uxSchedulerSuspended \in BOOLEAN
        /\ uxPendedTicks \in 0..MaxPended
        /\ pc \in [Task -> Where]
        /\ created \in 0..Len(AppTasks)
    BY <1>1 DEF Good, Running, Places
  <2>3. dog \in 0..Timeout /\ hits \in 0..MaxHits /\ fed \in BOOLEAN
    BY DEF IInv
  <2> QED
    BY <2>1, <2>2, <2>3 DEF TypeOK
<1>8. ASSUME NEW p \in Priorities
      PROVE  /\ Ring(p) = {"end"} \cup {t \in Exist \ Asleep : uxPriority(t) = p}
             /\ \A i, j \in 1..Len(kernel.pxReadyTasksLists[p]) :
                  kernel.pxReadyTasksLists[p][i] = kernel.pxReadyTasksLists[p][j] => i = j
             /\ p \in kernel.uxTopReadyPriority <=> Ring(p) # {"end"}
  <2> DEFINE r == kernel.pxReadyTasksLists[p]
             S == ReadyIn(kernel, E, p)
  <2>1. IsRing(r, S) /\ (p \in kernel.uxTopReadyPriority <=> S # {})
    BY <1>3 DEF GoodRings
  <2>2. S = {t \in Exist \ Asleep : uxPriority(t) = p}
    BY <1>4, <1>5 DEF ReadyIn
  <2>3. Ring(p) = {r[i] : i \in 1..Len(r)}
    BY DEF Ring
  <2>4. "end" \notin S
    BY <1>2, ReadyTasks
  <2> HIDE DEF r, S
  <2>5. Ring(p) = {"end"} \cup S
    <3>1. \A x : x \in S \cup {"end"} <=> \E i \in 1..Len(r) : r[i] = x
      BY <2>1 DEF IsRing
    <3>2. \A x : x \in Ring(p) <=> \E i \in 1..Len(r) : r[i] = x
      BY <2>3
    <3> QED
      BY <3>1, <3>2
  <2>6. p \in kernel.uxTopReadyPriority <=> Ring(p) # {"end"}
    BY <2>1, <2>4, <2>5
  <2>7. \A i, j \in 1..Len(r) : r[i] = r[j] => i = j
    BY <2>1 DEF IsRing
  <2> QED
    BY <2>2, <2>5, <2>6, <2>7 DEF r
<1> QED
  BY <1>3, <1>4, <1>5, <1>6, <1>7, <1>8 DEF OneList

\* The invariant says more than HighestRuns.
LEMMA IInvHighestRuns == IInv => HighestRuns
BY DEF IInv, Good, Runs, HighestRuns, Current

\* No task is ever lost or in two lists (tasks.c and list.c): a task that exists is in
\* the ring of its priority or sleeps, once, and uxTopReadyPriority says which rings
\* have tasks.
THEOREM NoTaskIsLost == Spec => []OneList
<1>1. IInv => OneList
  BY IInvOneList
<1> QED
  BY <1>1, Invariance, PTL

\* vTaskSwitchContext, and every place that decides whether to call it, leave no
\* ready task of higher priority waiting.
THEOREM Preemption == Spec => []HighestRuns
<1>1. IInv => HighestRuns
  BY IInvHighestRuns
<1> QED
  BY <1>1, Invariance, PTL

-----------------------------------------------------------------------------
(***************************************************************************)
(* The ticks that each task still has to sleep: Left, of a kernel k.       *)
(***************************************************************************)
LeftIn(k) ==
  [t \in App |->
     IF t \notin Tasks(SleepersIn(k)) THEN 0
     ELSE LET item == SleepersIn(k)[CHOOSE i \in 1..Len(SleepersIn(k)) :
                                      SleepersIn(k)[i].task = t]
              d == (item.value - k.xTickCount) % (portMAX_DELAY + 1)
          IN IF d = 0 THEN portMAX_DELAY + 1 ELSE d]

\* From tick until the counter is v, later.
Until(v, tick) == IF v > tick THEN v - tick ELSE v - tick + (portMAX_DELAY + 1)

\* L says how long each task still sleeps.
Lasts(k, L) ==
  /\ L \in [App -> Nat]
  /\ \A t \in App : t \notin AsleepIn(k) => L[t] = 0
  /\ \A x : InK(k, x) => L[x.task] = Until(x.value, k.xTickCount)

\* The subtraction in Left, of numbers that wrap around.
LEMMA UntilIs ==
  ASSUME NEW v \in Tick32, NEW tick \in Tick32, v # tick
  PROVE  /\ Until(v, tick) \in Nat /\ Until(v, tick) > 0
         /\ (v - tick) % (portMAX_DELAY + 1) = Until(v, tick)
<1>1. \A m \in Nat : \A a, b \in 0..m : a # b =>
        /\ (IF a > b THEN a - b ELSE a - b + (m + 1)) \in Nat
        /\ (IF a > b THEN a - b ELSE a - b + (m + 1)) > 0
  OBVIOUS
<1>2. \A m \in Nat : \A a, b \in 0..m : a # b =>
        (a - b) % (m + 1) = IF a > b THEN a - b ELSE a - b + (m + 1)
  OBVIOUS
<1>3. portMAX_DELAY \in Nat /\ v \in 0..portMAX_DELAY /\ tick \in 0..portMAX_DELAY
  BY Constants DEF Tick32
<1> QED
  BY <1>1, <1>2, <1>3 DEF Until

\* Left is what its definition in terms of the items says.
LEMMA LeftLasts ==
  ASSUME NEW k, NEW E, GoodKernel(k, E)
  PROVE  Lasts(k, LeftIn(k))
<1> DEFINE s == SleepersIn(k)
           M == portMAX_DELAY + 1
           at(t) == CHOOSE i \in 1..Len(s) : s[i].task = t
           d(t) == (s[at(t)].value - k.xTickCount) % M
           L == LeftIn(k)
<1>1. k.xTickCount \in Tick32
  BY DEF GoodKernel, KernelType
<1>2. \A t \in App : L[t] = IF t \notin Tasks(s) THEN 0 ELSE IF d(t) = 0 THEN M ELSE d(t)
  BY DEF LeftIn
<1>3. DOMAIN L = App /\ L = [t \in App |-> L[t]]
  BY DEF LeftIn
<1>4. Tasks(s) = AsleepIn(k) /\ \A x : InK(k, x) <=> In(s, x)
  BY SleepersAre
<1>5. \A x : InK(k, x) => x \in Item /\ x.task \in App /\ x.value \in Tick32
  BY SleepersAre
<1>6. \A x : InK(k, x) => x.value # k.xTickCount
  <2>1. /\ \A x : In(k.pxDelayedTaskList, x) => x.value > k.xTickCount /\ x.value \in Nat
        /\ \A x : In(k.pxOverflowDelayedTaskList, x) => x.value < k.xTickCount /\ x.value \in Nat
    <3>1. GoodLists(k) /\ \A x : InK(k, x) => x.value \in Nat
      BY <1>5, Constants DEF GoodKernel, Tick32
    <3> QED
      BY <3>1 DEF GoodLists, InK
  <2>2. k.xTickCount \in Nat
    BY <1>1, Constants DEF Tick32
  <2> QED
    BY <2>1, <2>2 DEF InK
<1>7. \A i, j \in 1..Len(s) : s[i].task = s[j].task => i = j
  BY SleepersAre
<1> HIDE DEF L
<1>8. \A t \in App : t \notin AsleepIn(k) => L[t] = 0
  <2> HIDE DEF d, s
  <2> QED
    BY <1>2, <1>4
<1>9. ASSUME NEW x, InK(k, x)
      PROVE  L[x.task] = Until(x.value, k.xTickCount)
  <2>1. PICK i \in 1..Len(s) : s[i] = x
    BY <1>4, <1>9 DEF In
  <2>2. s[at(x.task)] = x
    <3>1. at(x.task) \in 1..Len(s) /\ s[at(x.task)].task = x.task
      BY <2>1
    <3>2. at(x.task) = i
      BY <1>7, <2>1, <3>1
    <3> QED
      BY <2>1, <3>2
  <2>3. x.task \in Tasks(s) /\ x.task \in App
    BY <1>5, <1>9, <2>1 DEF Tasks
  <2>4. /\ d(x.task) = Until(x.value, k.xTickCount)
        /\ Until(x.value, k.xTickCount) > 0 /\ Until(x.value, k.xTickCount) \in Nat
    BY <1>1, <1>5, <1>6, <1>9, <2>2, UntilIs
  <2> HIDE DEF d
  <2> QED
    BY <1>2, <2>3, <2>4
<1>10. \A t \in App : L[t] \in Nat
  <2>1. ASSUME NEW t \in AsleepIn(k)
        PROVE  L[t] \in Nat
    <3>1. PICK x : InK(k, x) /\ x.task = t
      BY DEF AsleepIn
    <3>2. Until(x.value, k.xTickCount) \in Nat
      BY <1>1, <1>5, <1>6, <3>1, UntilIs
    <3> QED
      BY <1>9, <3>1, <3>2
  <2> QED
    BY <1>8, <2>1
<1>11. L \in [App -> Nat]
  BY <1>3, <1>10
<1> QED
  BY <1>9, <1>8, <1>11 DEF Lasts, L

\* Nothing else is.
LEMMA LastsOnce ==
  ASSUME NEW k, NEW L, Lasts(k, L), NEW L2, Lasts(k, L2)
  PROVE  L = L2
<1>1. L \in [App -> Nat] /\ L2 \in [App -> Nat]
  BY DEF Lasts
<1>2. ASSUME NEW t \in App
      PROVE  L[t] = L2[t]
  <2>1. CASE t \in AsleepIn(k)
    <3>1. PICK x : InK(k, x) /\ x.task = t
      BY <2>1 DEF AsleepIn
    <3> QED
      BY <3>1 DEF Lasts
  <2>2. CASE t \notin AsleepIn(k)
    BY <2>2 DEF Lasts
  <2> QED
    BY <2>1, <2>2
<1> QED
  BY <1>1, <1>2

\* It depends on the two lists and the counter alone.
LEMMA SameLeft ==
  ASSUME NEW k, NEW k2, SameLists(k, k2), NEW L, Lasts(k, L)
  PROVE  Lasts(k2, L)
<1>1. AsleepIn(k2) = AsleepIn(k) /\ k2.xTickCount = k.xTickCount
      /\ \A x : InK(k2, x) <=> InK(k, x)
  BY SameSleepers DEF SameLists
<1> QED
  BY <1>1 DEF Lasts

LessIn(L, n) == [t \in App |-> IF L[t] > n THEN L[t] - n ELSE 0]

\* Ticks can be taken away one by one.
LEMMA LessIs ==
  ASSUME NEW L \in [App -> Nat]
  PROVE  /\ LessIn(L, 0) = L
         /\ \A n \in Nat : LessIn(L, n) \in [App -> Nat]
         /\ \A n \in Nat : LessIn(LessIn(L, n), 1) = LessIn(L, n + 1)
<1>1. \A a, n \in Nat : /\ (IF a > n THEN a - n ELSE 0) \in Nat
                        /\ (IF a > 0 THEN a - 0 ELSE 0) = a
  OBVIOUS
<1>2. LessIn(L, 0) = L
  <2>1. \A t \in App : L[t] \in Nat /\ (IF L[t] > 0 THEN L[t] - 0 ELSE 0) = L[t]
    BY <1>1
  <2> QED
    BY <2>1 DEF LessIn
<1>3. ASSUME NEW n \in Nat
      PROVE  LessIn(L, n) \in [App -> Nat]
  BY <1>1 DEF LessIn
<1>4. ASSUME NEW n \in Nat
      PROVE  LessIn(LessIn(L, n), 1) = LessIn(L, n + 1)
  <2> DEFINE A == LessIn(L, n)
  <2>1. \A t \in App : A[t] = IF L[t] > n THEN L[t] - n ELSE 0
    BY DEF LessIn
  <2>2. LessIn(A, 1) = [t \in App |-> IF A[t] > 1 THEN A[t] - 1 ELSE 0]
    BY DEF LessIn
  <2> HIDE DEF A
  <2>3. \A a \in Nat : (IF (IF a > n THEN a - n ELSE 0) > 1
                        THEN (IF a > n THEN a - n ELSE 0) - 1 ELSE 0)
                       = IF a > n + 1 THEN a - (n + 1) ELSE 0
    OBVIOUS
  <2>4. \A t \in App : (IF A[t] > 1 THEN A[t] - 1 ELSE 0)
                       = IF L[t] > n + 1 THEN L[t] - (n + 1) ELSE 0
    BY <2>1, <2>3
  <2>5. LessIn(A, 1) = LessIn(L, n + 1)
    BY <2>2, <2>4 DEF LessIn
  <2> QED
    BY <2>5 DEF A
<1> QED
  BY <1>2, <1>3, <1>4

\* A tick is one of the ticks for which each task sleeps.
LEMMA TickLeft ==
  ASSUME NEW E \in SUBSET Task, "idle" \in E, NEW k, GoodKernel(k, E),
         NEW k2, k2 = IncrementTick(k), NEW L, Lasts(k, L)
  PROVE  Lasts(k2, LessIn(L, 1))
<1> DEFINE T == k.xTickCount
           T2 == k2.xTickCount
           L2 == LessIn(L, 1)
<1>1. L \in [App -> Nat] /\ L2 \in [App -> Nat]
  <2>1. L \in [App -> Nat]
    BY DEF Lasts
  <2>2. 1 \in Nat
    OBVIOUS
  <2> QED
    BY <2>1, <2>2, LessIs
<1>2. \A t \in App : L2[t] = IF L[t] > 1 THEN L[t] - 1 ELSE 0
  BY DEF LessIn
<1>3. GoodKernel(k2, E) /\ T2 = IF T = portMAX_DELAY THEN 0 ELSE T + 1
  BY TickIs
<1>4. \A x : InK(k2, x) <=> InK(k, x) /\ x.value # T2
  BY TickIs
<1>5. \A x : InK(k, x) => x \in Item /\ x.task \in App /\ x.value \in Tick32
  BY SleepersAre
<1>6. \A x : InK(k, x) => L[x.task] = Until(x.value, T)
  BY DEF Lasts
<1>7. \A x, y : InK(k, x) /\ InK(k, y) /\ x.task = y.task => x = y
  BY OneSleeper
<1>8. T \in Tick32 /\ T2 \in Tick32
  BY <1>3 DEF GoodKernel, KernelType
<1>9. \A x : InK(k, x) => x.value # T
  <2>1. GoodLists(k) /\ T \in Nat /\ \A x : InK(k, x) => x.value \in Nat
    BY <1>5, <1>8, Constants DEF GoodKernel, Tick32
  <2> QED
    BY <2>1 DEF GoodLists, InK
<1> HIDE DEF T, T2, L2
<1>10. ASSUME NEW v \in Tick32, v # T
       PROVE  /\ v = T2 <=> Until(v, T) = 1
              /\ v # T2 => Until(v, T2) = Until(v, T) - 1 /\ Until(v, T) > 1
  <2>1. \A m \in Nat : \A a, b, c \in 0..m :
          a # b /\ c = (IF b = m THEN 0 ELSE b + 1) =>
          LET d == IF a > b THEN a - b ELSE a - b + (m + 1)
              e == IF a > c THEN a - c ELSE a - c + (m + 1)
          IN (a = c <=> d = 1) /\ (a # c => e = d - 1 /\ d > 1)
    OBVIOUS
  <2>2. portMAX_DELAY \in Nat /\ v \in 0..portMAX_DELAY /\ T \in 0..portMAX_DELAY
        /\ T2 \in 0..portMAX_DELAY
    BY <1>8, Constants DEF Tick32
  <2> QED
    BY <1>3, <1>10, <2>1, <2>2 DEF Until
<1>11. ASSUME NEW x, InK(k2, x)
       PROVE  L2[x.task] = Until(x.value, T2)
  <2>1. InK(k, x) /\ x.value # T2 /\ x.task \in App /\ x.value \in Tick32
    BY <1>4, <1>5, <1>11
  <2>2. L[x.task] = Until(x.value, T) /\ x.value # T
    BY <1>6, <1>9, <2>1
  <2>3. Until(x.value, T2) = Until(x.value, T) - 1 /\ Until(x.value, T) > 1
    BY <1>10, <2>1, <2>2
  <2> QED
    BY <1>2, <2>1, <2>2, <2>3
<1>12. ASSUME NEW t \in App, t \notin AsleepIn(k2)
       PROVE  L2[t] = 0
  <2>1. CASE t \notin AsleepIn(k)
    <3>1. L[t] = 0
      BY <2>1 DEF Lasts
    <3> QED
      BY <1>2, <3>1
  <2>2. CASE t \in AsleepIn(k)
    <3>1. PICK x : InK(k, x) /\ x.task = t
      BY <2>2 DEF AsleepIn
    <3>2. x.value = T2
      BY <1>4, <1>5, <1>12, <3>1 DEF AsleepIn
    <3>3. L[t] = 1
      BY <1>5, <1>6, <1>9, <1>10, <3>1, <3>2
    <3> QED
      BY <1>2, <3>3
  <2> QED
    BY <2>1, <2>2
<1>13. Lasts(k2, L2)
  BY <1>1, <1>11, <1>12 DEF Lasts, T2
<1> QED
  BY <1>13 DEF L2

\* The task that goes to sleep does so for as long as it said.
LEMMA SleptLeft ==
  ASSUME NEW E, NEW k, GoodKernel(k, E), NEW t, NEW k2, Slept(k, k2, t), NEW L, Lasts(k, L)
  PROVE  L[t] = 0 /\ Lasts(k2, [L EXCEPT ![t] = Delay[t]])
<1> DEFINE T == k.xTickCount
           v == (T + Delay[t]) % (portMAX_DELAY + 1)
           new == [task |-> t, value |-> v]
           L2 == [L EXCEPT ![t] = Delay[t]]
<1>1. /\ t \in App /\ t \notin AsleepIn(k) /\ k2.xTickCount = T
      /\ \A x : InK(k2, x) <=> InK(k, x) \/ x = new
  BY DEF Slept
<1>2. /\ L \in [App -> Nat] /\ \A u \in App : u \notin AsleepIn(k) => L[u] = 0
      /\ \A x : InK(k, x) => L[x.task] = Until(x.value, T)
  BY DEF Lasts
<1>3. \A x : InK(k, x) => x \in Item /\ x.task \in App
  BY SleepersAre
<1>4. Delay[t] \in Nat /\ Delay[t] > 0 /\ Delay[t] < portMAX_DELAY /\ T \in Tick32
  BY <1>1, Constants DEF GoodKernel, KernelType
<1>5. /\ v \in Tick32
      /\ v = IF T + Delay[t] <= portMAX_DELAY THEN T + Delay[t]
             ELSE T + Delay[t] - (portMAX_DELAY + 1)
  <2> DEFINE n == Delay[t]
  <2>1. n \in Nat /\ n > 0 /\ n < portMAX_DELAY
    BY <1>4
  <2> HIDE DEF n
  <2>2. (T + n) % (portMAX_DELAY + 1) \in Tick32
    BY <1>4, <2>1, WakeTime
  <2>3. (T + n) % (portMAX_DELAY + 1) = IF T + n <= portMAX_DELAY THEN T + n
                                        ELSE T + n - (portMAX_DELAY + 1)
    BY <1>4, <2>1, WakeTime
  <2> QED
    BY <2>2, <2>3 DEF n
<1>6. Until(v, T) = Delay[t]
  <2>1. \A m \in Nat : \A a \in 0..m : \A n \in Nat : n > 0 /\ n < m =>
          LET b == IF a + n <= m THEN a + n ELSE a + n - (m + 1)
          IN (IF b > a THEN b - a ELSE b - a + (m + 1)) = n
    OBVIOUS
  <2>2. portMAX_DELAY \in Nat /\ T \in 0..portMAX_DELAY
    BY <1>4, Constants DEF Tick32
  <2> HIDE DEF v
  <2> QED
    BY <1>4, <1>5, <2>1, <2>2 DEF Until
<1>7. new \in Item /\ new.task = t /\ new.value = v
  BY <1>1, <1>5 DEF Item
<1> HIDE DEF v, T, new
<1>8. /\ L2 \in [App -> Nat] /\ L2[t] = Delay[t]
      /\ \A u \in App : u # t => L2[u] = L[u]
  BY <1>1, <1>2, <1>4
<1> HIDE DEF L2
<1>9. ASSUME NEW x, InK(k2, x)
      PROVE  L2[x.task] = Until(x.value, T)
  <2>1. CASE x = new
    BY <1>6, <1>7, <1>8, <2>1
  <2>2. CASE InK(k, x)
    <3>1. x.task \in AsleepIn(k) /\ x.task \in App
      BY <1>3, <2>2 DEF AsleepIn
    <3> QED
      BY <1>1, <1>2, <1>8, <2>2, <3>1
  <2> QED
    BY <1>1, <1>9, <2>1, <2>2
<1>10. ASSUME NEW u \in App, u \notin AsleepIn(k2)
       PROVE  L2[u] = 0
  <2>1. u # t
    BY <1>1, <1>7, <1>10 DEF AsleepIn
  <2>2. u \notin AsleepIn(k)
    BY <1>1, <1>10 DEF AsleepIn
  <2> QED
    BY <1>2, <1>8, <2>1, <2>2
<1>11. Lasts(k2, L2)
  BY <1>1, <1>8, <1>9, <1>10 DEF Lasts
<1> QED
  BY <1>1, <1>2, <1>11 DEF L2

\* The ticks that came while the scheduler was suspended are made up for.
LEMMA UnwoundLeft ==
  ASSUME NEW E \in SUBSET Task, "idle" \in E, NEW k, GoodKernel(k, E),
         NEW ticks \in Nat, NEW f, Unwound(k, ticks, f), NEW L, Lasts(k, L)
  PROVE  Lasts(f[ticks], LessIn(L, ticks))
<1> DEFINE S == {i \in Nat : i <= ticks => Lasts(f[i], LessIn(L, i))}
<1>0. L \in [App -> Nat]
  BY DEF Lasts
<1>1. 0 \in S
  <2>1. 0 \in 0..ticks /\ LessIn(L, 0) = L
    BY <1>0, LessIs
  <2>2. f[0] = k
    BY <2>1 DEF Unwound
  <2> QED
    BY <2>1, <2>2
<1>2. ASSUME NEW i \in S
      PROVE  i + 1 \in S
  <2> SUFFICES ASSUME i + 1 <= ticks
               PROVE  Lasts(f[i + 1], LessIn(L, i + 1))
    OBVIOUS
  <2>1. i \in 0..ticks /\ i + 1 \in 0..ticks /\ i + 1 # 0 /\ (i + 1) - 1 = i
    OBVIOUS
  <2>2. f[i + 1] = IncrementTick(f[i])
    BY <2>1 DEF Unwound
  <2>3. GoodKernel(f[i], E)
    BY <2>1, UnwoundGood
  <2>4. Lasts(f[i], LessIn(L, i))
    BY <2>1
  <2>5. Lasts(f[i + 1], LessIn(LessIn(L, i), 1))
    BY <2>2, <2>3, <2>4, TickLeft
  <2> QED
    BY <1>0, <2>1, <2>5, LessIs
<1>3. S = Nat
  <2>1. S \in SUBSET Nat
    OBVIOUS
  <2> HIDE DEF S
  <2> QED
    BY <1>1, <1>2, <2>1, Induction
<1>4. ticks \in S
  BY <1>3
<1> QED
  BY <1>4

-----------------------------------------------------------------------------
(***************************************************************************)
(* Every step is one of Delays, or leaves its variables alone.             *)
(***************************************************************************)
LEMMA InitPromised == Init => Promised!Init
<1> SUFFICES ASSUME Init
             PROVE  Promised!Init
  OBVIOUS
<1>1. /\ kernel.pxDelayedTaskList = <<>> /\ kernel.pxOverflowDelayedTaskList = <<>>
      /\ uxSchedulerSuspended = FALSE /\ uxPendedTicks = 0
  BY DEF Init
<1>2. Sleepers = <<>>
  BY <1>1 DEF Sleepers
<1>3. Asleep = {}
  BY <1>2 DEF Asleep, Tasks
<1>4. Left = [t \in App |-> 0]
  BY <1>3 DEF Left
<1> QED
  BY <1>1, <1>4 DEF Promised!Init

\* Left before a step and after it.
LEMMA StepLeft ==
  ASSUME IInv, IInv'
  PROVE  Lasts(kernel, Left) /\ \A L : Lasts(kernel', L) => Left' = L
<1>1. Left = LeftIn(kernel)
  BY DEF Left, LeftIn, SleepersIn, Asleep, Sleepers
<1>2. Left' = LeftIn(kernel')
  BY DEF Left, LeftIn, SleepersIn, Asleep, Sleepers
<1>3. GoodKernel(kernel, ExistIn(pc))
  BY DEF IInv, Good, Runs
<1>4. GoodKernel(kernel', ExistIn(pc'))
  BY DEF IInv, Good, Runs
<1>5. Lasts(kernel, LeftIn(kernel))
  BY <1>3, LeftLasts
<1>6. Lasts(kernel', LeftIn(kernel'))
  BY <1>4, LeftLasts
<1>7. ASSUME NEW L, Lasts(kernel', L)
      PROVE  LeftIn(kernel') = L
  BY <1>6, <1>7, LastsOnce
<1> QED
  BY <1>1, <1>2, <1>5, <1>7

\* Each action of Kernel and the action of Delays it is, if any.
LEMMA NextPromised == IInv /\ [Next]_vars => [Promised!Next]_(Promised!vars)
<1> SUFFICES ASSUME IInv, [Next]_vars
             PROVE  Promised!Next \/ UNCHANGED Promised!vars
  OBVIOUS
<1> DEFINE E == ExistIn(pc)
           P == Promised!Next \/ UNCHANGED Promised!vars
<1>1. /\ Lasts(kernel, Left)
      /\ \A L : Lasts(kernel', L) => Left' = L
  BY NextGood, StepLeft
<1>2. Good(kernel, uxSchedulerSuspended, uxPendedTicks, pc, created)
  BY DEF IInv
<1>3. /\ E \in SUBSET Task /\ "idle" \in E /\ GoodKernel(kernel, E)
      /\ pc \in [Task -> Where] /\ kernel.pxCurrentTCB \in Task
      /\ uxPendedTicks \in Nat /\ uxSchedulerSuspended \in BOOLEAN
  BY <1>2, GoodFacts
<1>4. uxSchedulerSuspended <=> pc[kernel.pxCurrentTCB] \in Suspending
  BY <1>2 DEF Good, Running
<1> HIDE DEF E
<1>5. ASSUME SameLists(kernel, kernel'), UNCHANGED <<uxSchedulerSuspended, uxPendedTicks>>
      PROVE  P
  <2>1. Left' = Left
    BY <1>1, <1>5, SameLeft
  <2> QED
    BY <1>5, <2>1 DEF Promised!vars
<1>6. ASSUME ~uxSchedulerSuspended, uxSchedulerSuspended' = TRUE,
             UNCHANGED <<kernel, uxPendedTicks>>
      PROVE  P
  <2>1. Left' = Left
    BY <1>1, <1>6
  <2> QED
    BY <1>6, <2>1 DEF Promised!Next, Promised!Hold
<1>7. CASE xPortSysTickHandler
  <2>1. CASE uxSchedulerSuspended
    <3>1. UNCHANGED <<kernel, uxSchedulerSuspended>> /\ uxPendedTicks' = uxPendedTicks + 1
      BY <1>7, <2>1 DEF xPortSysTickHandler, xTaskIncrementTick
    <3>2. Left' = Left
      BY <1>1, <3>1
    <3> QED
      BY <2>1, <3>1, <3>2 DEF Promised!Next, Promised!Tick
  <2>2. CASE ~uxSchedulerSuspended
    <3>1. PICK k1 : /\ k1 = IncrementTick(kernel)
                    /\ kernel' = IF xSwitchRequired(kernel, k1) THEN vTaskSwitchContext(k1)
                                 ELSE k1
      BY <1>7, <2>2 DEF xPortSysTickHandler, xTaskIncrementTick
    <3>2. UNCHANGED <<uxSchedulerSuspended, uxPendedTicks>> /\ uxSchedulerSuspended = FALSE
      BY <1>3, <1>7, <2>2 DEF xPortSysTickHandler, xTaskIncrementTick
    <3>3. SameLists(k1, kernel')
      BY <1>2, <3>1, <3>2, GoodTick
    <3>4. Lasts(k1, LessIn(Left, 1))
      BY <1>1, <1>3, <3>1, TickLeft
    <3>5. Left' = LessIn(Left, 1)
      BY <1>1, <3>3, <3>4, SameLeft
    <3> QED
      BY <2>2, <3>2, <3>5 DEF Promised!Next, Promised!Tick, Promised!Less, LessIn
  <2> QED
    BY <2>1, <2>2
<1>8. CASE vTaskDelay
  <2>1. /\ pc[Current] = "call" /\ uxSchedulerSuspended' = TRUE
        /\ UNCHANGED <<kernel, uxPendedTicks>>
    BY <1>8 DEF vTaskDelay, Step
  <2>2. ~uxSchedulerSuspended
    BY <1>4, <2>1 DEF Suspending, Current
  <2> QED
    BY <1>6, <2>1, <2>2
<1>9. CASE AddToDelayedList
  <2> DEFINE t == kernel.pxCurrentTCB
  <2>1. /\ pc[t] = "delay" /\ pc' = [pc EXCEPT ![t] = "resume"]
        /\ kernel' = prvAddCurrentTaskToDelayedList(kernel, Delay[t])
        /\ UNCHANGED <<uxSchedulerSuspended, uxPendedTicks>>
    BY <1>9 DEF AddToDelayedList, Step, Current
  <2>2. FallsAsleep(kernel, kernel', pc, pc')
    BY <1>3, <2>1, ExceptMoves DEF FallsAsleep, Where
  <2>3. Slept(kernel, kernel', t)
    BY <1>2, <2>2, GoodSleep
  <2>4. uxSchedulerSuspended
    BY <1>4, <2>1 DEF Suspending
  <2> HIDE DEF t
  <2>5. Left[t] = 0 /\ Left' = [Left EXCEPT ![t] = Delay[t]]
    <3>1. Left[t] = 0
      BY <1>1, <1>3, <2>3, SleptLeft
    <3>2. Lasts(kernel', [Left EXCEPT ![t] = Delay[t]])
      BY <1>1, <1>3, <2>3, SleptLeft
    <3> QED
      BY <1>1, <3>1, <3>2
  <2>6. t \in App
    BY <2>3 DEF Slept
  <2>7. Promised!Sleep(t)
    BY <2>1, <2>4, <2>5 DEF Promised!Sleep
  <2> QED
    BY <2>6, <2>7 DEF Promised!Next
<1>10. CASE xTaskResumeAll
  <2>1. PICK f, r : Resumed(f, r)
    BY <1>10, ResumedExists
  <2>2. SameLists(f[uxPendedTicks], kernel') /\ uxSchedulerSuspended = TRUE
    BY <1>2, <2>1, ResumedGood
  <2>3. /\ Unwound(kernel, uxPendedTicks, f)
        /\ uxSchedulerSuspended' = FALSE /\ uxPendedTicks' = 0
    BY <2>1 DEF Resumed
  <2>4. Lasts(f[uxPendedTicks], LessIn(Left, uxPendedTicks))
    BY <1>1, <1>3, <2>3, UnwoundLeft
  <2>5. Left' = LessIn(Left, uxPendedTicks)
    BY <1>1, <2>2, <2>4, SameLeft
  <2> QED
    BY <2>2, <2>3, <2>5 DEF Promised!Next, Promised!Release, Promised!Less, LessIn
<1>11. CASE portYIELD \/ DeletedYields \/ IdleYields
  <2>1. /\ kernel' = vTaskSwitchContext(kernel)
        /\ UNCHANGED <<uxSchedulerSuspended, uxPendedTicks>>
    BY <1>11 DEF portYIELD, DeletedYields, IdleYields
  <2>2. SameLists(kernel, kernel')
    BY <1>3, <2>1, SwitchGood
  <2> QED
    BY <1>5, <2>1, <2>2
<1>12. CASE HeapCall
  <2>1. /\ pc[Current] = "call" /\ uxSchedulerSuspended' = TRUE
        /\ UNCHANGED <<kernel, uxPendedTicks>>
    BY <1>12 DEF HeapCall
  <2>2. ~uxSchedulerSuspended
    BY <1>4, <2>1 DEF Suspending, Current
  <2> QED
    BY <1>6, <2>1, <2>2
<1>13. CASE xTaskCreate
  <2> DEFINE t == AppTasks[created + 1]
             k1 == prvAddTaskToReadyList(kernel, t)
  <2>1. /\ pc["InitTask"] = "create" /\ Current = "InitTask"
        /\ pc' = [pc EXCEPT !["InitTask"] = "call", ![t] = "call"]
        /\ kernel' = IF uxPriority("InitTask") < uxPriority(t) THEN vTaskSwitchContext(k1)
                     ELSE k1
        /\ UNCHANGED <<uxSchedulerSuspended, uxPendedTicks>>
    BY <1>13 DEF xTaskCreate
  <2>2. SameLists(kernel, kernel')
    BY <1>2, <2>1, GoodCreate DEF Current
  <2> QED
    BY <1>5, <2>1, <2>2
<1>14. CASE vTaskDelete
  <2>1. /\ Current = "InitTask" /\ pc["InitTask"] = "call"
        /\ pc' = [pc EXCEPT !["InitTask"] = "deleted"]
        /\ kernel' = RemoveFromReadyList(kernel, "InitTask")
        /\ UNCHANGED <<uxSchedulerSuspended, uxPendedTicks>>
    BY <1>14 DEF vTaskDelete, Step
  <2>2. SameLists(kernel, kernel')
    BY <1>2, <2>1, GoodDelete DEF Current
  <2> QED
    BY <1>5, <2>1, <2>2
<1>15. CASE IWDG_Feed \/ UNCHANGED vars
  <2>1. UNCHANGED <<kernel, uxSchedulerSuspended, uxPendedTicks>>
    BY <1>15 DEF IWDG_Feed, vars
  <2>2. SameLists(kernel, kernel')
    BY <2>1 DEF SameLists
  <2> QED
    BY <1>5, <2>1, <2>2
<1> QED
  BY <1>7, <1>8, <1>9, <1>10, <1>11, <1>12, <1>13, <1>14, <1>15 DEF Next

\* vTaskDelay keeps its promise: with the two lists, the counter that wraps around and
\* the ticks made up for by xTaskResumeAll, every task sleeps for exactly the ticks it
\* asked for.
THEOREM DelaysAreExact == Spec => RefinesDelays
<1>1. Init => Promised!Init
  BY InitPromised
<1>2. IInv /\ [Next]_vars => [Promised!Next]_(Promised!vars)
  BY NextPromised
<1> QED
  BY <1>1, <1>2, Invariance, PTL DEF Spec, RefinesDelays, Promised!Spec

-----------------------------------------------------------------------------
(***************************************************************************)
(* Tasks of one priority take turns.                                       *)
(***************************************************************************)
TurnsIn(r, t) ==
  LET at == CHOOSE i \in 1..Len(r) : r[i] = t
  IN Cardinality({i \in 1..Len(r) :
       r[i] # "end" /\ (at = 1 \/ (1 < i /\ i <= at))})

\* Of a ring of n entries, with the task at a and xListEnd at e.
TurnsAt(n, a, e) ==
  IF a = 1 THEN n - 1 ELSE IF 1 < e /\ e <= a THEN a - 2 ELSE a - 1

\* What the set of entries before a task counts.
LEMMA TurnsAre ==
  ASSUME NEW S, "end" \notin S, NEW r, IsRing(r, S),
         NEW a \in 1..Len(r), NEW e \in 1..Len(r), r[e] = "end"
  PROVE  TurnsIn(r, r[a]) = TurnsAt(Len(r), a, e)
<1> DEFINE n == Len(r)
           at == CHOOSE i \in 1..n : r[i] = r[a]
           T == {i \in 1..n : r[i] # "end" /\ (at = 1 \/ (1 < i /\ i <= at))}
<1>1. n \in Nat /\ n >= 1
  BY RingLen
<1>2. \A i, j \in 1..n : r[i] = r[j] => i = j
  BY DEF IsRing
<1>3. at = a
  BY <1>2
<1> HIDE DEF at
<1>4. T = {i \in 1..n : i # e /\ (a = 1 \/ (1 < i /\ i <= a))}
  BY <1>2, <1>3
<1>5. TurnsIn(r, r[a]) = Cardinality(T)
  BY DEF TurnsIn, at
<1> HIDE DEF T, n
<1>6. a \in Nat /\ e \in Nat /\ a >= 1 /\ e >= 1 /\ a <= n /\ e <= n
  BY <1>1 DEF n
<1>7. CASE a = 1
  <2>1. T = (1..n) \ {e}
    BY <1>4, <1>7
  <2>2. IsFiniteSet(1..n) /\ Cardinality(1..n) = n
    <3>1. IsFiniteSet(1..n) /\ Cardinality(1..n) = IF 1 > n THEN 0 ELSE n - 1 + 1
      <4>1. 1 \in Int /\ n \in Int
        BY <1>1
      <4> QED
        BY ONLY <4>1, FS_Interval
    <3> QED
      BY <1>1, <3>1
  <2>3. Cardinality(T) = n - 1
    <3>1. Cardinality((1..n) \ {e}) = IF e \in 1..n THEN Cardinality(1..n) - 1
                                      ELSE Cardinality(1..n)
      BY <2>2, FS_RemoveElement
    <3>2. e \in 1..n
      BY <1>1, <1>6
    <3> QED
      BY <2>1, <2>2, <3>1, <3>2
  <2> QED
    BY <1>5, <1>7, <2>3 DEF TurnsAt, n
<1>8. CASE a # 1
  <2>1. T = (2..a) \ {e}
    BY <1>1, <1>4, <1>6, <1>8
  <2>2. IsFiniteSet(2..a) /\ Cardinality(2..a) = a - 1
    BY <1>6, <1>8, FS_Interval
  <2>3. Cardinality(T) = IF e \in 2..a THEN a - 2 ELSE a - 1
    <3>1. Cardinality(T) = IF e \in 2..a THEN (a - 1) - 1 ELSE a - 1
      BY <2>1, <2>2, FS_RemoveElement
    <3> QED
      BY <1>6, <3>1
  <2>4. e \in 2..a <=> 1 < e /\ e <= a
    BY <1>6
  <2> QED
    BY <1>5, <1>8, <2>3, <2>4 DEF TurnsAt
<1> QED
  BY <1>7, <1>8

\* Where a task and xListEnd are, and the turns that makes.
LEMMA TurnsOf ==
  ASSUME NEW S, "end" \notin S, NEW r, IsRing(r, S), NEW t \in S
  PROVE  /\ TurnsIn(r, t) \in Int
         /\ \E a, e \in 1..Len(r) : /\ r[a] = t /\ r[e] = "end" /\ a # e
                                    /\ TurnsIn(r, t) = TurnsAt(Len(r), a, e)
<1>1. PICK a \in 1..Len(r) : r[a] = t
  BY DEF IsRing
<1>2. PICK e \in 1..Len(r) : r[e] = "end"
  BY DEF IsRing
<1>3. TurnsIn(r, t) = TurnsAt(Len(r), a, e)
  BY <1>1, <1>2, TurnsAre
<1>4. Len(r) \in Nat
  BY RingLen
<1>5. TurnsAt(Len(r), a, e) \in Int
  BY <1>4 DEF TurnsAt
<1> QED
  BY <1>1, <1>2, <1>3, <1>5

\* Tasks that are put at the end come after all that wait, but the first.
LEMMA TurnsStay ==
  ASSUME NEW S, "end" \notin S, NEW r, IsRing(r, S), NEW t \in S, Head(r) # t,
         NEW Z, "end" \notin Z, NEW q, IsRing(q, Z), Prolongs(r, q)
  PROVE  TurnsIn(q, t) = TurnsIn(r, t) /\ Head(q) # t
<1>1. PICK a, e \in 1..Len(r) : /\ r[a] = t /\ r[e] = "end" /\ a # e
                                /\ TurnsIn(r, t) = TurnsAt(Len(r), a, e)
  BY TurnsOf
<1>2. Len(r) \in Nat /\ Len(q) \in Nat /\ Len(r) >= 1 /\ Head(r) = r[1] /\ Head(q) = q[1]
  BY RingLen
<1>3. a \in 1..Len(q) /\ e \in 1..Len(q) /\ q[a] = t /\ q[e] = "end" /\ q[1] = r[1]
  BY <1>1, <1>2 DEF Prolongs
<1>4. TurnsIn(q, t) = TurnsAt(Len(q), a, e)
  BY <1>3, TurnsAre
<1>5. a # 1
  BY <1>1, <1>2
<1> QED
  BY <1>1, <1>2, <1>3, <1>4, <1>5 DEF TurnsAt

\* A switch takes one turn, of the one that runs next.
LEMMA TurnsLess ==
  ASSUME NEW S, "end" \notin S, NEW r, IsRing(r, S), NEW t \in S, Head(r) # t,
         NEW q, q = listGET_OWNER_OF_NEXT_ENTRY(r), Head(q) # t
  PROVE  TurnsIn(q, t) < TurnsIn(r, t)
<1> DEFINE n == Len(r)
<1>1. PICK a, e \in 1..n : /\ r[a] = t /\ r[e] = "end" /\ a # e
                           /\ TurnsIn(r, t) = TurnsAt(n, a, e)
  BY TurnsOf
<1>2. n \in Nat /\ n >= 1 /\ Head(r) = r[1]
  BY RingLen
<1>3. a # 1 /\ n >= 2 /\ 1 \in 1..n /\ 2 \in 1..n
  BY <1>1, <1>2
<1> DEFINE p == Turn(r)
<1>4. /\ IsRing(p, S) /\ Len(p) = n
      /\ \A i \in 1..n : p[i] = IF i = n THEN r[1] ELSE r[i + 1]
  BY RingTurn
<1>5. q = IF Head(p) = "end" THEN Turn(p) ELSE p
  BY DEF listGET_OWNER_OF_NEXT_ENTRY, Turn
<1> HIDE DEF p
<1>6. Head(p) = p[1] /\ p[1] = r[2]
  BY <1>2, <1>3, <1>4, RingLen
<1>7. \A i, j \in 1..n : r[i] = r[j] => i = j
  BY DEF IsRing
<1> HIDE DEF n
<1>8. CASE Head(p) # "end"
  <2> DEFINE f == IF e = 1 THEN n ELSE e - 1
  <2>1. q = p /\ e # 2
    BY <1>1, <1>5, <1>6, <1>8
  <2>2. a - 1 \in 1..n /\ p[a - 1] = t /\ f \in 1..n /\ p[f] = "end"
    BY <1>1, <1>2, <1>3, <1>4
  <2>3. a - 1 # 1
    BY <1>6, <2>1, <2>2
  <2>4. TurnsIn(p, t) = TurnsAt(n, a - 1, f)
    BY <1>4, <2>2, TurnsAre
  <2>5. TurnsAt(n, a - 1, f) < TurnsAt(n, a, e)
    BY <1>1, <1>2, <1>3, <2>1, <2>3 DEF TurnsAt
  <2> QED
    BY <1>1, <2>1, <2>4, <2>5
<1>9. CASE Head(p) = "end"
  <2>1. q = Turn(p) /\ e = 2
    BY <1>1, <1>3, <1>5, <1>6, <1>7, <1>9
  <2>2. /\ IsRing(q, S) /\ Len(q) = n
        /\ \A i \in 1..n : q[i] = IF i = n THEN p[1] ELSE p[i + 1]
    <3>1. IsRing(Turn(p), S)
      BY ONLY <1>4, "end" \notin S, RingTurn
    <3>2. Len(Turn(p)) = Len(p)
      BY ONLY <1>4, "end" \notin S, RingTurn
    <3>3. \A i \in 1..Len(p) : Turn(p)[i] = IF i = Len(p) THEN p[1] ELSE p[i + 1]
      BY ONLY <1>4, "end" \notin S, RingTurn
    <3> QED
      BY <1>4, <2>1, <3>1, <3>2, <3>3
  <2>3. a - 2 \in 1..n /\ q[a - 2] = t /\ n \in 1..n /\ q[n] = "end"
    <3>1. a >= 3
      BY <1>1, <1>3, <2>1
    <3>2. a - 2 \in 1..n /\ a - 2 # n /\ a - 1 \in 1..n /\ a - 1 # n
          /\ (a - 2) + 1 = a - 1 /\ (a - 1) + 1 = a /\ n \in 1..n
      BY <1>1, <1>2, <3>1
    <3> QED
      BY <1>1, <1>4, <1>6, <1>9, <2>2, <3>2
  <2>4. a - 2 # 1
    <3>1. Head(q) = q[1]
      BY <2>2, RingLen
    <3> QED
      BY <2>3, <3>1
  <2>5. TurnsIn(q, t) = TurnsAt(n, a - 2, n)
    BY <2>2, <2>3, TurnsAre
  <2>6. TurnsAt(n, a - 2, n) < TurnsAt(n, a, e)
    BY <1>1, <1>2, <2>1, <2>3, <2>4 DEF TurnsAt
  <2> QED
    BY <1>1, <2>5, <2>6
<1> QED
  BY <1>8, <1>9

\* Nor is a task put back by the one that runs and goes to sleep.
LEMMA TurnsKept ==
  ASSUME NEW S, "end" \notin S, NEW r, IsRing(r, S), NEW t \in S, NEW c \in S, Head(r) = c,
         t # c, NEW q, q = uxListRemove(r, c)
  PROVE  TurnsIn(q, t) = TurnsIn(r, t)
<1> DEFINE n == Len(r)
<1>1. PICK a, e \in 1..n : /\ r[a] = t /\ r[e] = "end" /\ a # e
                           /\ TurnsIn(r, t) = TurnsAt(n, a, e)
  BY TurnsOf
<1>2. n \in Nat /\ n >= 1 /\ Head(r) = r[1]
  BY RingLen
<1>3. IsRing(q, S \ {c}) /\ SteppedBack(r, q)
  BY RingRemove
<1>4. Len(q) = n - 1 /\ \A i \in 1..(n - 1) : q[i] = IF i = 1 THEN r[n] ELSE r[i]
  BY <1>3 DEF SteppedBack
<1>5. a # 1 /\ e # 1
  BY <1>1, <1>2
<1> HIDE DEF n
<1> DEFINE b == IF a = n THEN 1 ELSE a
           f == IF e = n THEN 1 ELSE e
<1>6. b \in 1..Len(q) /\ f \in 1..Len(q) /\ q[b] = t /\ q[f] = "end"
  BY <1>1, <1>2, <1>4, <1>5
<1>7. TurnsIn(q, t) = TurnsAt(n - 1, b, f)
  <2> DEFINE Z == S \ {c}
  <2>1. "end" \notin Z /\ IsRing(q, Z)
    BY <1>3
  <2> HIDE DEF Z, b, f
  <2>2. TurnsIn(q, q[b]) = TurnsAt(Len(q), b, f)
    BY <1>6, <2>1, TurnsAre
  <2> QED
    BY <1>4, <1>6, <2>2
<1>8. TurnsAt(n - 1, b, f) = TurnsAt(n, a, e)
  BY <1>1, <1>2, <1>5 DEF TurnsAt
<1> QED
  BY <1>1, <1>7, <1>8

\* What TakesTurns says of a step from a kernel k to k2.
Nearer(k, k2, t) ==
  /\ Waits(k, t) /\ Waits(k2, t)
  /\ Head(k.pxReadyTasksLists[uxPriority(t)]) # t
  => IF \/ k2.pxCurrentTCB # k.pxCurrentTCB
        \/ k2.xTickCount # k.xTickCount /\ Ready(k, k.pxCurrentTCB)
     THEN Turns(k2, t) < Turns(k, t)
     ELSE Turns(k2, t) <= Turns(k, t)

\* A task that is ready is in the set of which its ring is one.
LEMMA ReadyIs ==
  ASSUME NEW E \in SUBSET Task, "idle" \in E, NEW k, GoodKernel(k, E), NEW t \in Task
  PROVE  /\ Ready(k, t) <=> t \in ReadyIn(k, E, uxPriority(t))
         /\ Turns(k, t) = TurnsIn(k.pxReadyTasksLists[uxPriority(t)], t)
         /\ IsRing(k.pxReadyTasksLists[uxPriority(t)], ReadyIn(k, E, uxPriority(t)))
         /\ "end" \notin ReadyIn(k, E, uxPriority(t))
         /\ ReadyIn(k, E, uxPriority(t)) # {} => uxPriority(t) \in k.uxTopReadyPriority
<1>1. uxPriority(t) \in Priorities /\ t # "end"
  BY Prio, Constants
<1>2. /\ IsRing(k.pxReadyTasksLists[uxPriority(t)], ReadyIn(k, E, uxPriority(t)))
      /\ ReadyIn(k, E, uxPriority(t)) # {} => uxPriority(t) \in k.uxTopReadyPriority
  BY <1>1 DEF GoodKernel, GoodRings
<1>3. "end" \notin ReadyIn(k, E, uxPriority(t))
  BY ReadyTasks
<1>4. Ready(k, t) <=> t \in ReadyIn(k, E, uxPriority(t))
  BY <1>1, <1>2 DEF Ready, IsRing
<1>5. Turns(k, t) = TurnsIn(k.pxReadyTasksLists[uxPriority(t)], t)
  BY DEF Turns, TurnsIn
<1> QED
  BY <1>2, <1>3, <1>4, <1>5

\* The ring that a switch takes one turn of, when a task of the application is ready.
LEMMA SwitchRing ==
  ASSUME NEW E \in SUBSET Task, "idle" \in E, NEW k, GoodKernel(k, E),
         4 \in k.uxTopReadyPriority, NEW k2, k2 = vTaskSwitchContext(k)
  PROVE  /\ k2.pxReadyTasksLists[4] = listGET_OWNER_OF_NEXT_ENTRY(k.pxReadyTasksLists[4])
         /\ k2.pxCurrentTCB = Head(k2.pxReadyTasksLists[4])
<1> DEFINE p == CHOOSE p \in k.uxTopReadyPriority : \A q \in k.uxTopReadyPriority : q <= p
           ring == listGET_OWNER_OF_NEXT_ENTRY(k.pxReadyTasksLists[p])
<1>1. k2 = [k EXCEPT !.pxReadyTasksLists[p] = ring, !.pxCurrentTCB = Head(ring)]
  BY DEF vTaskSwitchContext
<1>2. k \in KernelType /\ k.uxTopReadyPriority \subseteq {0, 4}
  BY Prio DEF GoodKernel, KernelType
<1>3. p = 4
  <2>1. \A q \in k.uxTopReadyPriority : q <= 4
    BY <1>2
  <2>2. p \in k.uxTopReadyPriority /\ \A q \in k.uxTopReadyPriority : q <= p
    BY <2>1
  <2> HIDE DEF p
  <2> QED
    BY <1>2, <2>2
<1> HIDE DEF p
<1>4. 4 \in Priorities
  BY Prio
<1> HIDE DEF ring
<1>5. k2.pxReadyTasksLists[4] = ring /\ k2.pxCurrentTCB = Head(ring)
  BY <1>1, <1>2, <1>3, <1>4 DEF KernelType
<1> QED
  BY <1>3, <1>5 DEF ring

\* Two tasks of the application that are ready make a slice.
LEMMA SliceIsRequired ==
  ASSUME NEW E \in SUBSET Task, "idle" \in E, NEW k, GoodKernel(k, E),
         NEW t \in App, Ready(k, t), NEW c \in App, Ready(k, c), c # t,
         k.pxCurrentTCB = c, NEW k2, GoodKernel(k2, E),
         Prolongs(k.pxReadyTasksLists[4], k2.pxReadyTasksLists[4])
  PROVE  xSwitchRequired(k, k2)
<1> DEFINE r == k.pxReadyTasksLists[4]
           q == k2.pxReadyTasksLists[4]
<1>1. /\ uxPriority(t) = 4 /\ uxPriority(c) = 4 /\ t \in Task /\ c \in Task
      /\ t # "end" /\ c # "end"
  BY Prio, Constants
<1>2. /\ t \in ReadyIn(k, E, 4) /\ c \in ReadyIn(k, E, 4) /\ IsRing(r, ReadyIn(k, E, 4))
      /\ "end" \notin ReadyIn(k, E, 4)
  <2>1. t \in ReadyIn(k, E, 4) /\ IsRing(r, ReadyIn(k, E, 4)) /\ "end" \notin ReadyIn(k, E, 4)
    BY <1>1, ReadyIs
  <2>2. c \in ReadyIn(k, E, 4)
    BY <1>1, ReadyIs
  <2> QED
    BY <2>1, <2>2
<1>3. Len(r) \in Nat
  BY <1>2, RingLen
<1>4. PICK i, j, e \in 1..Len(r) : r[i] = t /\ r[j] = c /\ r[e] = "end"
  BY <1>2 DEF IsRing
<1>5. Len(q) \in Nat /\ Len(q) >= Len(r)
  <2>1. IsRing(q, ReadyIn(k2, E, 4)) /\ "end" \notin ReadyIn(k2, E, 4)
    BY <1>1, ReadyIs
  <2>2. Len(q) \in Nat
    BY <2>1, RingLen
  <2> QED
    BY <2>2 DEF Prolongs
<1>6. i # j /\ i # e /\ j # e
  BY <1>1, <1>4
<1> HIDE DEF r, q
<1>7. Len(q) - 1 > 1
  BY <1>3, <1>4, <1>5, <1>6
<1> QED
  BY <1>1, <1>7 DEF xSwitchRequired, listCURRENT_LIST_LENGTH, q

\* Ticks wake tasks, which come after those that wait; a switch follows, or none.
LEMMA TicksNearer ==
  ASSUME NEW E \in SUBSET Task, "idle" \in E, NEW k, GoodKernel(k, E),
         NEW k1, GoodKernel(k1, E), k1.pxCurrentTCB = k.pxCurrentTCB,
         Prolongs(k.pxReadyTasksLists[4], k1.pxReadyTasksLists[4]),
         NEW t \in App, NEW s \in BOOLEAN,
         ~s /\ Waits(k, t) /\ Ready(k, k.pxCurrentTCB) => k1.xTickCount = k.xTickCount,
         NEW k2, k2 = IF s THEN vTaskSwitchContext(k1) ELSE k1
  PROVE  Nearer(k, k2, t)
<1> SUFFICES ASSUME Waits(k, t), Waits(k2, t), Head(k.pxReadyTasksLists[4]) # t
             PROVE  IF \/ k2.pxCurrentTCB # k.pxCurrentTCB
                       \/ k2.xTickCount # k.xTickCount /\ Ready(k, k.pxCurrentTCB)
                    THEN Turns(k2, t) < Turns(k, t)
                    ELSE Turns(k2, t) <= Turns(k, t)
  BY Prio DEF Nearer
<1> DEFINE r == k.pxReadyTasksLists[4]
           q == k1.pxReadyTasksLists[4]
           S == ReadyIn(k, E, 4)
           Z == ReadyIn(k1, E, 4)
<1>1. uxPriority(t) = 4 /\ t \in Task
  BY Prio, Constants
<1>2. IsRing(r, S) /\ "end" \notin S /\ t \in S /\ Turns(k, t) = TurnsIn(r, t)
  BY <1>1, ReadyIs DEF Waits
<1>3. IsRing(q, Z) /\ "end" \notin Z /\ (Z # {} => 4 \in k1.uxTopReadyPriority)
      /\ Turns(k1, t) = TurnsIn(q, t)
  BY <1>1, ReadyIs
<1>4. TurnsIn(q, t) = TurnsIn(r, t) /\ Head(q) # t
  <2> HIDE DEF r, q, S, Z
  <2>1. Head(r) # t /\ Prolongs(r, q)
    BY DEF r, q
  <2> QED
    BY <1>2, <1>3, <2>1, TurnsStay
<1>5. TurnsIn(r, t) \in Int
  BY <1>2, TurnsOf
<1>6. CASE s
  <2>1. t \in Z
    <3>1. PICK i \in 1..Len(r) : r[i] = t
      BY <1>2 DEF IsRing
    <3>2. Len(r) \in Nat /\ Len(q) \in Nat
      BY <1>2, <1>3, RingLen
    <3>3. i \in 1..Len(q) /\ q[i] = t
      BY <3>1, <3>2 DEF Prolongs
    <3> QED
      BY <1>2, <1>3, <3>3 DEF IsRing
  <2>2. k2 = vTaskSwitchContext(k1) /\ 4 \in k1.uxTopReadyPriority
    BY <1>3, <1>6, <2>1
  <2>3. /\ k2.pxReadyTasksLists[4] = listGET_OWNER_OF_NEXT_ENTRY(q)
        /\ k2.pxCurrentTCB = Head(k2.pxReadyTasksLists[4])
    BY <2>2, SwitchRing
  <2>4. Head(listGET_OWNER_OF_NEXT_ENTRY(q)) # t
    BY <2>3 DEF Waits
  <2>5. TurnsIn(listGET_OWNER_OF_NEXT_ENTRY(q), t) < TurnsIn(q, t)
    <3> DEFINE x == listGET_OWNER_OF_NEXT_ENTRY(q)
    <3>1. Head(x) # t
      BY <2>4
    <3>2. x = listGET_OWNER_OF_NEXT_ENTRY(q)
      OBVIOUS
    <3> HIDE DEF x, q, Z
    <3>3. TurnsIn(x, t) < TurnsIn(q, t)
      BY <1>3, <1>4, <2>1, <3>1, <3>2, TurnsLess
    <3> QED
      BY <3>3 DEF x
  <2>6. Turns(k2, t) = TurnsIn(k2.pxReadyTasksLists[4], t)
    BY <1>1 DEF Turns, TurnsIn
  <2>7. Turns(k2, t) < Turns(k, t) /\ Turns(k2, t) \in Int
    <3>1. TurnsIn(k2.pxReadyTasksLists[4], t) \in Int
      <4>1. GoodKernel(k2, E)
        BY <2>2, SwitchGood
      <4>2. IsRing(k2.pxReadyTasksLists[4], ReadyIn(k2, E, 4)) /\ "end" \notin ReadyIn(k2, E, 4)
            /\ t \in ReadyIn(k2, E, 4)
        BY <1>1, <4>1, ReadyIs DEF Waits
      <4> QED
        BY <4>2, TurnsOf
    <3> QED
      BY <1>2, <1>4, <2>3, <2>5, <2>6, <3>1
  <2> QED
    BY <1>2, <1>5, <2>7
<1>7. CASE ~s
  <2>1. k2 = k1
    BY <1>7
  <2>2. Turns(k2, t) = Turns(k, t)
    BY <1>2, <1>3, <1>4, <2>1
  <2>3. Turns(k2, t) <= Turns(k, t)
    BY <1>2, <1>5, <2>2
  <2> QED
    BY <1>7, <2>1, <2>3
<1> QED
  BY <1>6, <1>7

\* A task that runs goes to sleep.
LEMMA SleepNearer ==
  ASSUME NEW E \in SUBSET Task, "idle" \in E, NEW k, GoodKernel(k, E),
         k.pxCurrentTCB \in App, k.pxCurrentTCB \in E \ AsleepIn(k),
         Head(k.pxReadyTasksLists[4]) = k.pxCurrentTCB,
         NEW n \in Nat, n > 0, n < portMAX_DELAY,
         NEW k2, k2 = prvAddCurrentTaskToDelayedList(k, n), NEW t \in App
  PROVE  Nearer(k, k2, t)
<1> SUFFICES ASSUME Waits(k, t), Waits(k2, t), Head(k.pxReadyTasksLists[4]) # t
             PROVE  IF \/ k2.pxCurrentTCB # k.pxCurrentTCB
                       \/ k2.xTickCount # k.xTickCount /\ Ready(k, k.pxCurrentTCB)
                    THEN Turns(k2, t) < Turns(k, t)
                    ELSE Turns(k2, t) <= Turns(k, t)
  BY Prio DEF Nearer
<1> DEFINE c == k.pxCurrentTCB
           r == RemoveFromReadyList(k, c)
<1>1. uxPriority(t) = 4 /\ t \in Task /\ uxPriority(c) = 4 /\ 4 \in Priorities
  BY Prio, Constants
<1>2. k \in KernelType
  BY DEF GoodKernel
<1>3. r \in KernelType /\ SameLists(k, r) /\ r.pxCurrentTCB = c
  <2> HIDE DEF r, c
  <2>1. c \in E \ AsleepIn(k) /\ Head(k.pxReadyTasksLists[uxPriority(c)]) = c
        /\ r = RemoveFromReadyList(k, c) /\ c = k.pxCurrentTCB
    BY <1>1 DEF c, r
  <2>2. r \in KernelType /\ SameLists(k, r) /\ r.pxCurrentTCB = k.pxCurrentTCB
    BY <2>1, RemoveIs
  <2> QED
    BY <2>1, <2>2
<1>4. r.pxReadyTasksLists[4] = uxListRemove(k.pxReadyTasksLists[4], c)
  BY <1>1, <1>2 DEF RemoveFromReadyList, KernelType
<1>5. \E d, o, u : k2 = [r EXCEPT !.pxOverflowDelayedTaskList = o]
                   \/ k2 = [r EXCEPT !.pxDelayedTaskList = d, !.xNextTaskUnblockTime = u]
  BY DEF prvAddCurrentTaskToDelayedList
<1> HIDE DEF r
<1>6. k2.pxReadyTasksLists = r.pxReadyTasksLists /\ k2.pxCurrentTCB = c
      /\ k2.xTickCount = k.xTickCount
  BY <1>3, <1>5 DEF KernelType, SameLists
<1> HIDE DEF c
<1> DEFINE x == k.pxReadyTasksLists[4]
           S == ReadyIn(k, E, 4)
<1>7. IsRing(x, S) /\ "end" \notin S /\ t \in S /\ Turns(k, t) = TurnsIn(x, t)
  BY <1>1, ReadyIs DEF Waits
<1>8. c \in S /\ t # c /\ Head(x) = c
  BY <1>1, ReadyTasks DEF c, Waits
<1>9. TurnsIn(uxListRemove(x, c), t) = TurnsIn(x, t)
  <2> HIDE DEF x, S
  <2> QED
    BY <1>7, <1>8, TurnsKept
<1>10. Turns(k2, t) = TurnsIn(uxListRemove(x, c), t)
  <2>1. Turns(k2, t) = TurnsIn(k2.pxReadyTasksLists[4], t)
    BY <1>1 DEF Turns, TurnsIn
  <2> QED
    BY <1>4, <1>6, <2>1
<1>11. TurnsIn(x, t) \in Int
  BY <1>7, TurnsOf
<1>12. Turns(k2, t) <= Turns(k, t)
  BY <1>7, <1>9, <1>10, <1>11
<1> QED
  BY <1>6, <1>12 DEF c

\* InitTask and idle do not run while a task of the application waits.
LEMMA SystemNearer ==
  ASSUME NEW E \in SUBSET Task, "idle" \in E, NEW k, Runs(k, E),
         k.pxCurrentTCB \in {"InitTask", "idle"}, NEW t \in App, NEW k2
  PROVE  Nearer(k, k2, t)
<1> SUFFICES ASSUME Ready(k, t)
             PROVE  FALSE
  BY DEF Nearer, Waits
<1>1. uxPriority(t) = 4 /\ t \in Task /\ uxPriority(k.pxCurrentTCB) = 0
  BY Prio, Constants
<1>2. 4 \in k.uxTopReadyPriority
  BY <1>1, ReadyIs DEF Runs
<1>3. 4 <= 0
  BY <1>1, <1>2 DEF Runs
<1> QED
  BY <1>3

\* The ring of the application's tasks begins as before after any number of ticks.
LEMMA UnwoundProlongs ==
  ASSUME NEW E \in SUBSET Task, "idle" \in E, NEW k, GoodKernel(k, E),
         NEW ticks \in Nat, NEW f, Unwound(k, ticks, f), NEW n \in 0..ticks
  PROVE  Prolongs(k.pxReadyTasksLists[4], f[n].pxReadyTasksLists[4])
<1> DEFINE r == k.pxReadyTasksLists[4]
           S == {i \in Nat : i <= ticks => Prolongs(r, f[i].pxReadyTasksLists[4])}
<1>0. Len(r) \in Nat
  <2>1. IsRing(r, ReadyIn(k, E, 4)) /\ "end" \notin ReadyIn(k, E, 4)
    BY Prio, ReadyTasks DEF GoodKernel, GoodRings
  <2> QED
    BY <2>1, RingLen
<1>1. 0 \in S
  <2>1. 0 \in 0..ticks
    OBVIOUS
  <2>2. f[0] = k
    BY <2>1 DEF Unwound
  <2>3. Prolongs(r, r)
    BY <1>0 DEF Prolongs
  <2> QED
    BY <2>2, <2>3
<1>2. ASSUME NEW i \in S
      PROVE  i + 1 \in S
  <2> SUFFICES ASSUME i + 1 <= ticks
               PROVE  Prolongs(r, f[i + 1].pxReadyTasksLists[4])
    OBVIOUS
  <2>1. i \in 0..ticks /\ i + 1 \in 0..ticks /\ i + 1 # 0 /\ (i + 1) - 1 = i
    OBVIOUS
  <2> DEFINE a == f[i].pxReadyTasksLists[4]
             b == f[i + 1].pxReadyTasksLists[4]
  <2>2. f[i + 1] = IncrementTick(f[i])
    BY <2>1 DEF Unwound
  <2>3. GoodKernel(f[i], E) /\ GoodKernel(f[i + 1], E)
    BY <2>1, UnwoundGood
  <2>4. Prolongs(a, b)
    BY <2>2, <2>3, TickIs
  <2>5. Prolongs(r, a)
    BY <2>1
  <2>6. Len(a) \in Nat /\ Len(b) \in Nat
    <3>1. IsRing(a, ReadyIn(f[i], E, 4)) /\ "end" \notin ReadyIn(f[i], E, 4)
      BY <2>3, Prio, ReadyTasks DEF GoodKernel, GoodRings
    <3>2. IsRing(b, ReadyIn(f[i + 1], E, 4)) /\ "end" \notin ReadyIn(f[i + 1], E, 4)
      BY <2>3, Prio, ReadyTasks DEF GoodKernel, GoodRings
    <3>3. Len(a) \in Nat
      BY <3>1, RingLen
    <3>4. Len(b) \in Nat
      BY <3>2, RingLen
    <3> QED
      BY <3>3, <3>4
  <2> HIDE DEF r, a, b
  <2>7. Prolongs(r, b)
    BY <1>0, <2>4, <2>5, <2>6 DEF Prolongs
  <2> QED
    BY <2>7 DEF b
<1>3. S = Nat
  <2>1. S \in SUBSET Nat
    OBVIOUS
  <2> HIDE DEF S
  <2> QED
    BY <1>1, <1>2, <2>1, Induction
<1>4. n \in S
  BY <1>3
<1> QED
  BY <1>4

\* Every step leaves a task that waits as near to the processor as TakesTurns says.
LEMMA NextNearer ==
  ASSUME IInv, Next, NEW t \in App
  PROVE  Nearer(kernel, kernel', t)
<1> DEFINE E == ExistIn(pc)
           P == Nearer(kernel, kernel', t)
           c == kernel.pxCurrentTCB
<1>1. Good(kernel, uxSchedulerSuspended, uxPendedTicks, pc, created)
  BY DEF IInv
<1>2. /\ E \in SUBSET Task /\ "idle" \in E /\ GoodKernel(kernel, E)
      /\ c \in Task /\ uxPendedTicks \in Nat /\ uxSchedulerSuspended \in BOOLEAN
  BY <1>1, GoodFacts
<1>3. Runs(kernel, E) /\ Places(pc, created) /\ Sleeping(kernel, pc)
  BY <1>1 DEF Good
<1> HIDE DEF E
<1>4. ASSUME c \in {"InitTask", "idle"}
      PROVE  P
  BY <1>2, <1>3, <1>4, SystemNearer
<1>5. Prolongs(kernel.pxReadyTasksLists[4], kernel.pxReadyTasksLists[4])
  <2>1. IsRing(kernel.pxReadyTasksLists[4], ReadyIn(kernel, E, 4))
        /\ "end" \notin ReadyIn(kernel, E, 4)
    BY <1>2, Prio, ReadyTasks DEF GoodKernel, GoodRings
  <2>2. Len(kernel.pxReadyTasksLists[4]) \in Nat
    BY <2>1, RingLen
  <2> QED
    BY <2>2 DEF Prolongs
<1>6. ASSUME kernel' = kernel
      PROVE  P
  <2>1. PICK s \in BOOLEAN : ~s
    OBVIOUS
  <2>2. kernel' = IF s THEN vTaskSwitchContext(kernel) ELSE kernel
    BY <1>6, <2>1
  <2> QED
    BY <1>2, <1>5, <2>1, <2>2, TicksNearer
<1>7. ASSUME kernel' = vTaskSwitchContext(kernel)
      PROVE  P
  <2>1. PICK s \in BOOLEAN : s
    OBVIOUS
  <2>2. kernel' = IF s THEN vTaskSwitchContext(kernel) ELSE kernel
    BY <1>7, <2>1
  <2> QED
    BY <1>2, <1>5, <2>1, <2>2, TicksNearer
<1>8. ASSUME NEW k1, GoodKernel(k1, E),
             Prolongs(kernel.pxReadyTasksLists[4], k1.pxReadyTasksLists[4]),
             Waits(kernel, t), Ready(kernel, c), c \in App
      PROVE  xSwitchRequired(kernel, k1)
  <2>1. Ready(kernel, t) /\ c # t
    BY <1>8 DEF Waits
  <2> QED
    BY <1>2, <1>8, <2>1, SliceIsRequired
<1>9. c \in App \/ c \in {"InitTask", "idle"}
  BY <1>2 DEF Task
<1>10. CASE xPortSysTickHandler
  <2>1. CASE uxSchedulerSuspended
    <3>1. kernel' = kernel
      BY <1>10, <2>1 DEF xPortSysTickHandler, xTaskIncrementTick
    <3> QED
      BY <1>6, <3>1
  <2>2. CASE ~uxSchedulerSuspended
    <3>1. PICK k1 : /\ k1 = IncrementTick(kernel)
                    /\ kernel' = IF xSwitchRequired(kernel, k1) THEN vTaskSwitchContext(k1)
                                 ELSE k1
      BY <1>10, <2>2 DEF xPortSysTickHandler, xTaskIncrementTick
    <3>2. GoodKernel(k1, E) /\ k1.pxCurrentTCB = c
      BY <1>2, <3>1, TickIs
    <3>3. Prolongs(kernel.pxReadyTasksLists[4], k1.pxReadyTasksLists[4])
      BY <1>2, <3>1, TickIs
    <3>4. PICK s : s = xSwitchRequired(kernel, k1)
      OBVIOUS
    <3>5. s \in BOOLEAN
      BY <3>4 DEF xSwitchRequired
    <3>6. kernel' = IF s THEN vTaskSwitchContext(k1) ELSE k1
      BY <3>1, <3>4
    <3>7. CASE c \in App
      <4>1. ~(~s /\ Waits(kernel, t) /\ Ready(kernel, c))
        BY <1>8, <3>2, <3>3, <3>4, <3>7
      <4> QED
        BY <1>2, <3>2, <3>3, <3>5, <3>6, <4>1, TicksNearer
    <3> QED
      BY <1>4, <1>9, <3>7
  <2> QED
    BY <2>1, <2>2
<1>11. CASE vTaskDelay \/ HeapCall \/ IWDG_Feed
  <2>1. kernel' = kernel
    BY <1>11 DEF vTaskDelay, HeapCall, IWDG_Feed
  <2> QED
    BY <1>6, <2>1
<1>12. CASE AddToDelayedList
  <2>1. pc[c] = "delay" /\ kernel' = prvAddCurrentTaskToDelayedList(kernel, Delay[c])
    BY <1>12 DEF AddToDelayedList, Step, Current
  <2>2. c \in App
    BY <1>2, <1>3, <2>1 DEF Places, Task
  <2>3. c \in E \ AsleepIn(kernel) /\ c # "idle" /\ uxPriority(c) = 4
    BY <1>2, <1>3, <2>1, <2>2, Prio, Constants DEF Sleeping, E, ExistIn
  <2>4. Head(kernel.pxReadyTasksLists[4]) = c
    BY <1>3, <2>3 DEF Runs
  <2>5. PICK n \in Nat : n = Delay[c] /\ n > 0 /\ n < portMAX_DELAY
    BY <2>2, Constants
  <2> QED
    BY <1>2, <2>1, <2>2, <2>3, <2>4, <2>5, SleepNearer
<1>13. CASE xTaskResumeAll
  <2>1. PICK f, r : Resumed(f, r)
    BY <1>13, ResumedExists
  <2>2. /\ Unwound(kernel, uxPendedTicks, f)
        /\ r = \E n \in 1..uxPendedTicks : xSwitchRequired(f[n - 1], f[n])
        /\ kernel' = IF r THEN vTaskSwitchContext(f[uxPendedTicks]) ELSE f[uxPendedTicks]
    BY <2>1 DEF Resumed
  <2>3. uxPendedTicks \in 0..uxPendedTicks /\ 0 \in 0..uxPendedTicks
    BY <1>2
  <2>4. PICK k1 : k1 = f[uxPendedTicks]
    OBVIOUS
  <2>5. GoodKernel(k1, E) /\ k1.pxCurrentTCB = c
    BY <1>2, <2>2, <2>3, <2>4, UnwoundGood
  <2>6. Prolongs(kernel.pxReadyTasksLists[4], k1.pxReadyTasksLists[4])
    BY <1>2, <2>2, <2>3, <2>4, UnwoundProlongs
  <2>7. f[0] = kernel /\ r \in BOOLEAN
    BY <2>2, <2>3 DEF Unwound
  <2>8. CASE c \in App
    <3>1. ASSUME ~r, Waits(kernel, t), Ready(kernel, c)
          PROVE  k1.xTickCount = kernel.xTickCount
      <4>1. CASE uxPendedTicks = 0
        BY <2>4, <2>7, <4>1
      <4>2. CASE uxPendedTicks # 0
        <5>1. 1 \in 0..uxPendedTicks /\ 1 \in 1..uxPendedTicks /\ 1 - 1 = 0
          BY <1>2, <4>2
        <5>2. GoodKernel(f[1], E)
          BY <1>2, <2>2, <5>1, UnwoundGood
        <5>3. Prolongs(kernel.pxReadyTasksLists[4], f[1].pxReadyTasksLists[4])
          BY <1>2, <2>2, <5>1, UnwoundProlongs
        <5>4. xSwitchRequired(kernel, f[1])
          BY <1>8, <2>8, <3>1, <5>2, <5>3
        <5>5. \E n \in 1..uxPendedTicks : xSwitchRequired(f[n - 1], f[n])
          BY <2>7, <5>1, <5>4
        <5> QED
          BY <2>2, <3>1, <5>5
      <4> QED
        BY <4>1, <4>2
    <3>2. kernel' = IF r THEN vTaskSwitchContext(k1) ELSE k1
      BY <2>2, <2>4
    <3> QED
      BY <1>2, <2>5, <2>6, <2>7, <3>1, <3>2, TicksNearer
  <2> QED
    BY <1>4, <1>9, <2>8
<1>14. CASE portYIELD
  <2>1. kernel' = vTaskSwitchContext(kernel)
    BY <1>14 DEF portYIELD
  <2> QED
    BY <1>7, <2>1
<1>15. CASE xTaskCreate \/ vTaskDelete \/ DeletedYields \/ IdleYields
  <2>1. c \in {"InitTask", "idle"}
    BY <1>15 DEF xTaskCreate, vTaskDelete, DeletedYields, IdleYields, Current
  <2> QED
    BY <1>4, <2>1
<1> QED
  BY <1>10, <1>11, <1>12, <1>13, <1>14, <1>15 DEF Next

\* The tasks of the application share the processor (listGET_OWNER_OF_NEXT_ENTRY, the
\* time slices of xTaskIncrementTick and the switch at the end of vTaskDelay): each
\* switch and each tick that is counted brings the ones that wait nearer to it,
\* whatever the others do.
THEOREM EachGetsItsTurn == Spec => TakesTurns
<1>1. IInv /\ [Next]_vars =>
        [\A t \in App : Nearer(kernel, kernel', t)]_vars
  BY NextNearer
<1>2. (\A t \in App : Nearer(kernel, kernel', t)) <=>
        \A t \in App :
          /\ Waits(kernel, t) /\ Waits(kernel', t)
          /\ Head(kernel.pxReadyTasksLists[uxPriority(t)]) # t
          => IF \/ kernel'.pxCurrentTCB # kernel.pxCurrentTCB
                \/ kernel'.xTickCount # kernel.xTickCount /\ Ready(kernel, Current)
             THEN Turns(kernel', t) < Turns(kernel, t)
             ELSE Turns(kernel', t) <= Turns(kernel, t)
  BY DEF Nearer, Current
<1> QED
  BY <1>1, <1>2, Invariance, PTL DEF Spec, TakesTurns

-----------------------------------------------------------------------------
(***************************************************************************)
(* How long the other tasks can keep monitor from feeding the watchdog.    *)
(***************************************************************************)
\* With monitor at a and xListEnd at e, no fewer than the switches until it runs: a
\* number that tasks which are put at the end, or leave, do not change.
DistAt(a, e) == IF a # 1 /\ (e = 1 \/ e > a) THEN a - 1 ELSE e - 2 + Len(AppTasks)
DistIn(r) == DistAt(CHOOSE i \in 1..Len(r) : r[i] = "monitor",
                    CHOOSE i \in 1..Len(r) : r[i] = "end")

\* There are no more tasks than InitTask creates.
LEMMA RingShort ==
  ASSUME NEW S \in SUBSET App, NEW r, IsRing(r, S)
  PROVE  Len(r) <= Len(AppTasks) + 1 /\ Len(AppTasks) \in Nat /\ Len(AppTasks) >= 1
<1> DEFINE n == Len(AppTasks)
           I == 1..n
           B == I \cup {0}
           J == 1..Len(r)
<1>1. /\ n \in Nat /\ n >= 1
  <2>1. n \in Nat
    BY KernelAssumption, LenProperties
  <2>2. \E i \in 1..n : AppTasks[i] = "monitor"
    BY KernelAssumption DEF App
  <2> QED
    BY <2>1, <2>2
<1>2. "end" \notin S /\ "end" \notin App
  BY Constants
<1>3. Len(r) \in Nat /\ \A i \in J : r[i] = "end" \/ r[i] \in S
  BY <1>2, RingLen
<1>4. \A i, j \in J : r[i] = r[j] => i = j
  BY DEF IsRing
<1> DEFINE at(x) == IF x = "end" THEN 0 ELSE CHOOSE i \in I : AppTasks[i] = x
           f == [i \in J |-> at(r[i])]
<1>5. \A x \in App : at(x) \in I /\ AppTasks[at(x)] = x
  BY <1>2 DEF App
<1>6. at("end") = 0
  OBVIOUS
<1> HIDE DEF at
<1>7. \A i \in J : f[i] \in B
  BY <1>3, <1>5, <1>6
<1>8. ASSUME NEW i \in J, NEW j \in J, f[i] = f[j]
      PROVE  i = j
  <2>1. at(r[i]) = at(r[j])
    BY <1>8
  <2>2. r[i] = r[j]
    <3>1. 0 \notin I
      OBVIOUS
    <3> QED
      BY <1>3, <1>5, <1>6, <2>1, <3>1
  <2> QED
    BY <1>4, <2>2
<1>9. IsFiniteSet(B) /\ Cardinality(B) = n + 1
  <2>1. IsFiniteSet(I) /\ Cardinality(I) = n
    <3>1. 1 \in Int /\ n \in Int
      BY <1>1
    <3> QED
      BY <1>1, <3>1, FS_Interval
  <2>2. 0 \notin I
    OBVIOUS
  <2> HIDE DEF I
  <2> QED
    BY <1>1, <2>1, <2>2, FS_AddElement
<1>10. IsFiniteSet(J) /\ Cardinality(J) = Len(r)
  <2>1. 1 \in Int /\ Len(r) \in Int
    BY <1>3
  <2>2. IsFiniteSet(1..Len(r)) /\ Cardinality(1..Len(r)) = IF 1 > Len(r) THEN 0
                                                         ELSE Len(r) - 1 + 1
    BY ONLY <2>1, FS_Interval
  <2> QED
    BY <1>3, <2>2
<1>11. f \in Injection(J, B)
  <2>1. f \in [J -> B]
    BY <1>7
  <2> QED
    BY <1>8, <2>1 DEF Injection, IsInjective
<1>12. Cardinality(J) <= Cardinality(B)
  <2> HIDE DEF J, B, f
  <2> QED
    BY <1>9, <1>11, FS_Injection
<1> QED
  BY <1>1, <1>9, <1>10, <1>12

\* Where monitor and xListEnd are.
LEMMA DistIs ==
  ASSUME NEW S \in SUBSET App, NEW r, IsRing(r, S), "monitor" \in S
  PROVE  /\ \E a, e \in 1..Len(r) : /\ r[a] = "monitor" /\ r[e] = "end" /\ a # e
                                    /\ DistIn(r) = DistAt(a, e)
         /\ \A a, e \in 1..Len(r) : r[a] = "monitor" /\ r[e] = "end"
                                    => DistIn(r) = DistAt(a, e)
<1>1. "end" # "monitor"
  BY Constants
<1>2. PICK a \in 1..Len(r) : r[a] = "monitor"
  BY DEF IsRing
<1>3. PICK e \in 1..Len(r) : r[e] = "end"
  BY DEF IsRing
<1>4. \A i, j \in 1..Len(r) : r[i] = r[j] => i = j
  BY DEF IsRing
<1> DEFINE a0 == CHOOSE i \in 1..Len(r) : r[i] = "monitor"
           e0 == CHOOSE i \in 1..Len(r) : r[i] = "end"
<1>5. a0 \in 1..Len(r) /\ r[a0] = "monitor" /\ e0 \in 1..Len(r) /\ r[e0] = "end"
  BY <1>2, <1>3
<1>6. DistIn(r) = DistAt(a0, e0)
  BY DEF DistIn
<1> HIDE DEF a0, e0
<1>7. a0 # e0
  BY <1>1, <1>5
<1>8. \A i, j \in 1..Len(r) : r[i] = "monitor" /\ r[j] = "end" => i = a0 /\ j = e0
  BY <1>4, <1>5
<1> QED
  BY <1>5, <1>6, <1>7, <1>8

LEMMA DistBounds ==
  ASSUME NEW S \in SUBSET App, NEW r, IsRing(r, S), "monitor" \in S
  PROVE  DistIn(r) \in 1..(2 * Len(AppTasks) - 1)
<1>1. PICK a, e \in 1..Len(r) : a # e /\ DistIn(r) = DistAt(a, e)
  BY DistIs
<1>2. /\ Len(r) <= Len(AppTasks) + 1 /\ Len(AppTasks) \in Nat /\ Len(AppTasks) >= 1
      /\ Len(r) \in Nat
  <2>1. "end" \notin S
    BY Constants
  <2> QED
    BY <2>1, RingShort, RingLen
<1> QED
  BY <1>1, <1>2 DEF DistAt

\* Tasks that wake come after monitor or are taken for it already.
LEMMA DistStays ==
  ASSUME NEW S \in SUBSET App, NEW r, IsRing(r, S), "monitor" \in S,
         NEW Z \in SUBSET App, NEW q, IsRing(q, Z), Prolongs(r, q)
  PROVE  DistIn(q) = DistIn(r) /\ "monitor" \in Z
<1>1. PICK a, e \in 1..Len(r) : /\ r[a] = "monitor" /\ r[e] = "end"
                                /\ DistIn(r) = DistAt(a, e)
  BY DistIs
<1>2. Len(r) \in Nat /\ Len(q) \in Nat
  <2>1. "end" \notin S /\ "end" \notin Z
    BY Constants
  <2>2. Len(r) \in Nat
    BY <2>1, RingLen
  <2>3. Len(q) \in Nat
    BY <2>1, RingLen
  <2> QED
    BY <2>2, <2>3
<1>3. a \in 1..Len(q) /\ e \in 1..Len(q) /\ q[a] = "monitor" /\ q[e] = "end"
  BY <1>1, <1>2 DEF Prolongs
<1>4. "monitor" \in Z
  <2>1. "monitor" # "end"
    BY Constants
  <2> QED
    BY <1>3, <2>1 DEF IsRing
<1> QED
  BY <1>1, <1>3, <1>4, DistIs

\* Nor does the task that runs put monitor back when it goes to sleep.
LEMMA DistKept ==
  ASSUME NEW S \in SUBSET App, NEW r, IsRing(r, S), "monitor" \in S,
         NEW c \in S, Head(r) = c, c # "monitor", NEW q, q = uxListRemove(r, c)
  PROVE  DistIn(q) = DistIn(r)
<1> DEFINE n == Len(r)
<1>1. PICK a, e \in 1..n : /\ r[a] = "monitor" /\ r[e] = "end" /\ a # e
                           /\ DistIn(r) = DistAt(a, e)
  BY DistIs
<1>2. "end" \notin S /\ c # "end"
  BY Constants
<1>3. n \in Nat /\ n >= 1 /\ Head(r) = r[1]
  BY <1>2, RingLen
<1>4. IsRing(q, S \ {c}) /\ SteppedBack(r, q)
  BY <1>2, RingRemove
<1>5. Len(q) = n - 1 /\ \A i \in 1..(n - 1) : q[i] = IF i = 1 THEN r[n] ELSE r[i]
  BY <1>4 DEF SteppedBack
<1>6. a # 1 /\ e # 1
  BY <1>1, <1>2, <1>3
<1> HIDE DEF n
<1> DEFINE b == IF a = n THEN 1 ELSE a
           f == IF e = n THEN 1 ELSE e
<1>7. b \in 1..Len(q) /\ f \in 1..Len(q) /\ q[b] = "monitor" /\ q[f] = "end"
  BY <1>1, <1>3, <1>5, <1>6
<1>8. DistAt(b, f) = DistAt(a, e)
  BY <1>1, <1>3, <1>6 DEF DistAt
<1>9. DistIn(q) = DistAt(b, f)
  <2> DEFINE Z == S \ {c}
  <2>1. Z \in SUBSET App /\ "monitor" \in Z /\ IsRing(q, Z)
    BY <1>4
  <2> HIDE DEF Z, b, f
  <2> QED
    BY <1>7, <2>1, DistIs
<1> QED
  BY <1>1, <1>8, <1>9

\* A switch takes one away.
LEMMA DistLess ==
  ASSUME NEW S \in SUBSET App, NEW r, IsRing(r, S), "monitor" \in S,
         NEW q, q = listGET_OWNER_OF_NEXT_ENTRY(r), Head(q) # "monitor"
  PROVE  DistIn(q) < DistIn(r)
<1> DEFINE n == Len(r)
<1>1. PICK a, e \in 1..n : /\ r[a] = "monitor" /\ r[e] = "end" /\ a # e
                           /\ DistIn(r) = DistAt(a, e)
  BY DistIs
<1>0. "end" \notin S /\ "end" # "monitor"
  BY Constants
<1>2. n \in Nat /\ n >= 1 /\ Head(r) = r[1]
  BY <1>0, RingLen
<1>3. n >= 2 /\ 1 \in 1..n /\ 2 \in 1..n
  BY <1>1, <1>2
<1>10. n <= Len(AppTasks) + 1 /\ Len(AppTasks) \in Nat /\ Len(AppTasks) >= 1
  BY RingShort
<1> DEFINE p == Turn(r)
<1>4. /\ IsRing(p, S) /\ Len(p) = n
      /\ \A i \in 1..n : p[i] = IF i = n THEN r[1] ELSE r[i + 1]
  BY <1>0, RingTurn
<1>5. q = IF Head(p) = "end" THEN Turn(p) ELSE p
  BY DEF listGET_OWNER_OF_NEXT_ENTRY, Turn
<1> HIDE DEF p
<1>6. Head(p) = p[1] /\ p[1] = r[2]
  <2>1. Head(p) = p[1]
    BY <1>0, <1>4, RingLen
  <2> QED
    BY <1>2, <1>3, <1>4, <2>1
<1>7. \A i, j \in 1..n : r[i] = r[j] => i = j
  BY DEF IsRing
<1> HIDE DEF n
<1>8. CASE Head(p) # "end"
  <2> DEFINE f == IF e = 1 THEN n ELSE e - 1
             b == IF a = 1 THEN n ELSE a - 1
  <2>1. q = p /\ e # 2
    BY <1>1, <1>5, <1>6, <1>8
  <2>2. b \in 1..n /\ p[b] = "monitor" /\ f \in 1..n /\ p[f] = "end"
    BY <1>1, <1>2, <1>3, <1>4
  <2>3. b # 1
    BY <1>6, <2>1, <2>2
  <2>4. DistIn(p) = DistAt(b, f)
    <3> HIDE DEF b, f
    <3>1. b \in 1..Len(p) /\ f \in 1..Len(p) /\ p[b] = "monitor" /\ p[f] = "end"
      BY <1>4, <2>2
    <3>2. IsRing(p, S)
      BY <1>4
    <3> QED
      BY ONLY <3>1, <3>2, S \in SUBSET App, "monitor" \in S, DistIs
  <2>5. DistAt(b, f) < DistAt(a, e)
    BY <1>1, <1>2, <1>3, <1>10, <2>1, <2>3 DEF DistAt
  <2> QED
    BY <1>1, <2>1, <2>4, <2>5
<1>9. CASE Head(p) = "end"
  <2>1. q = Turn(p) /\ e = 2
    BY <1>1, <1>3, <1>5, <1>6, <1>7, <1>9
  <2>2. /\ IsRing(q, S) /\ Len(q) = n
        /\ \A i \in 1..n : q[i] = IF i = n THEN p[1] ELSE p[i + 1]
    <3>1. IsRing(Turn(p), S)
      BY ONLY <1>4, <1>0, RingTurn
    <3>2. Len(Turn(p)) = Len(p)
      BY ONLY <1>4, <1>0, RingTurn
    <3>3. \A i \in 1..Len(p) : Turn(p)[i] = IF i = Len(p) THEN p[1] ELSE p[i + 1]
      BY ONLY <1>4, <1>0, RingTurn
    <3> QED
      BY <1>4, <2>1, <3>1, <3>2, <3>3
  <2>3. Head(q) = q[1]
    BY <1>0, <2>2, RingLen
  <2>4. n # 2
    <3>1. ASSUME n = 2
          PROVE  FALSE
      <4>1. a = 1
        BY <1>1, <2>1, <3>1
      <4>2. p[2] = r[1]
        BY <1>3, <1>4, <3>1
      <4>3. q[1] = p[2]
        BY <1>3, <2>2, <3>1
      <4> QED
        BY <1>1, <2>3, <4>1, <4>2, <4>3
    <3> QED
      BY <3>1
  <2> DEFINE b == IF a = 1 THEN n - 1 ELSE a - 2
  <2>5. n - 1 \in 1..n /\ n \in 1..n /\ n - 1 # n /\ (n - 1) + 1 = n
    BY <1>2, <1>3
  <2>6. q[n] = "end"
    BY <1>6, <1>9, <2>2, <2>5
  <2>7. b \in 1..n /\ q[b] = "monitor"
    <3>1. CASE a = 1
      <4>1. q[n - 1] = p[n] /\ p[n] = r[1]
        BY <1>4, <2>2, <2>5
      <4> QED
        BY <1>1, <2>5, <3>1, <4>1
    <3>2. CASE a # 1
      <4>1. a >= 3
        BY <1>1, <2>1, <3>2
      <4>2. a - 2 \in 1..n /\ a - 2 # n /\ a - 1 \in 1..n /\ a - 1 # n
            /\ (a - 2) + 1 = a - 1 /\ (a - 1) + 1 = a
        BY <1>1, <1>2, <4>1
      <4>3. q[a - 2] = p[a - 1] /\ p[a - 1] = r[a]
        BY <1>4, <2>2, <4>2
      <4> QED
        BY <1>1, <3>2, <4>2, <4>3
    <3> QED
      BY <3>1, <3>2
  <2>8. b # 1
    BY <2>3, <2>7
  <2>9. DistIn(q) = DistAt(b, n)
    <3> HIDE DEF b
    <3>1. /\ IsRing(q, S) /\ b \in 1..Len(q) /\ n \in 1..Len(q)
          /\ q[b] = "monitor" /\ q[n] = "end"
      BY <2>2, <2>5, <2>6, <2>7
    <3> QED
      BY ONLY <3>1, S \in SUBSET App, "monitor" \in S, DistIs
  <2>10. DistAt(b, n) < DistAt(a, e)
    BY <1>1, <1>2, <1>3, <1>10, <2>1, <2>4, <2>8 DEF DistAt
  <2> QED
    BY <1>1, <2>9, <2>10
<1> QED
  BY <1>8, <1>9

-----------------------------------------------------------------------------
\* D is the longest delay of the others.  A task that runs has the processor for no more
\* than this before a switch: until the next tick, unless it is in vTaskDelay with the
\* scheduler suspended, or has resumed it and is about to yield.
Share(D) == MaxPended + D
\* From when monitor is ready until it runs, and with the ticks that come while it runs,
\* each of which may be the end of its slice.
Round(D) == (2 * Len(AppTasks) - 1) * Share(D)
Rounds(h, D) == h * (1 + Round(D))
WatchdogBound(D) == 2 * Rounds(MaxHits, D) + Delay["monitor"] + MaxPended + Round(D)

LEMMA Products ==
  ASSUME NEW a \in Nat, NEW b \in Nat, NEW q \in Nat
  PROVE  /\ a * q \in Nat
         /\ a <= b => a * q <= b * q
         /\ (a + 1) * q = a * q + q
OBVIOUS

LEMMA RoundTypes ==
  ASSUME NEW D \in Nat
  PROVE  /\ Share(D) \in Nat /\ Round(D) \in Nat /\ MaxPended \in Nat
         /\ Len(AppTasks) \in Nat /\ Len(AppTasks) >= 1
         /\ \A h \in Nat : /\ Rounds(h, D) \in Nat
                           /\ Rounds(h + 1, D) = Rounds(h, D) + 1 + Round(D)
<1>1. Len(AppTasks) \in Nat /\ Len(AppTasks) >= 1
  <2>1. Len(AppTasks) \in Nat
    BY KernelAssumption, LenProperties
  <2>2. \E i \in 1..Len(AppTasks) : AppTasks[i] = "monitor"
    BY KernelAssumption DEF App
  <2> QED
    BY <2>1, <2>2
<1>2. MaxPended \in Nat
  BY KernelAssumption
<1>3. Share(D) \in Nat
  BY <1>2 DEF Share
<1>4. 2 * Len(AppTasks) - 1 \in Nat
  BY <1>1
<1>5. Round(D) \in Nat
  BY <1>3, <1>4, Products DEF Round
<1>6. ASSUME NEW h \in Nat
      PROVE  /\ Rounds(h, D) \in Nat
             /\ Rounds(h + 1, D) = Rounds(h, D) + 1 + Round(D)
  <2> DEFINE q == 1 + Round(D)
  <2>1. q \in Nat
    BY <1>5
  <2>2. Rounds(h, D) = h * q /\ Rounds(h + 1, D) = (h + 1) * q
    BY DEF Rounds
  <2>3. h * q \in Nat /\ (h + 1) * q = h * q + q
    <3> HIDE DEF q
    <3> QED
      BY <2>1, Products
  <2> QED
    BY <1>5, <2>2, <2>3
<1> QED
  BY <1>1, <1>2, <1>3, <1>5, <1>6

Dist(k) == DistIn(k.pxReadyTasksLists[4])

\* The ticks until monitor, which is ready, runs.
Wait(k, u, D) ==
  IF k.pxCurrentTCB = "monitor" THEN 0
  ELSE (Dist(k) - 1) * Share(D) + (MaxPended - u)
       + (IF k.pxCurrentTCB \in AsleepIn(k) THEN LeftIn(k)[k.pxCurrentTCB] ELSE D)

\* The ring of the application's tasks.
LEMMA AppRing ==
  ASSUME NEW E \in SUBSET Task, "idle" \in E, NEW k, GoodKernel(k, E)
  PROVE  /\ ReadyIn(k, E, 4) \in SUBSET App
         /\ IsRing(k.pxReadyTasksLists[4], ReadyIn(k, E, 4))
         /\ ReadyIn(k, E, 4) # {} => 4 \in k.uxTopReadyPriority
         /\ \A t \in App : t \in ReadyIn(k, E, 4) <=> t \in E \ AsleepIn(k)
<1>1. 4 \in Priorities /\ \A t : (t \in App => uxPriority(t) = 4) /\ (t \notin App => uxPriority(t) = 0)
  BY Prio
<1>2. ReadyIn(k, E, 4) \in SUBSET App
  BY <1>1 DEF ReadyIn
<1>3. \A t \in App : t \in ReadyIn(k, E, 4) <=> t \in E \ AsleepIn(k)
  BY <1>1 DEF ReadyIn
<1>4. /\ IsRing(k.pxReadyTasksLists[4], ReadyIn(k, E, 4))
      /\ ReadyIn(k, E, 4) # {} => 4 \in k.uxTopReadyPriority
  BY <1>1 DEF GoodKernel, GoodRings
<1> QED
  BY <1>2, <1>3, <1>4

\* A switch while monitor is ready.
LEMMA SwitchWait ==
  ASSUME NEW D \in Nat, NEW E \in SUBSET Task, "idle" \in E, NEW k, GoodKernel(k, E),
         "monitor" \in E \ AsleepIn(k), NEW k2, k2 = vTaskSwitchContext(k)
  PROVE  /\ Dist(k) \in 1..(2 * Len(AppTasks) - 1)
         /\ Wait(k2, 0, D) \in Nat /\ Wait(k2, 0, D) <= Round(D)
         /\ Wait(k2, 0, D) <= (Dist(k) - 1) * Share(D)
<1> DEFINE r == k.pxReadyTasksLists[4]
           q == k2.pxReadyTasksLists[4]
           S == ReadyIn(k, E, 4)
           N == 2 * Len(AppTasks) - 1
<1>0. "monitor" \in App
  BY KernelAssumption
<1>1. S \in SUBSET App /\ IsRing(r, S) /\ "monitor" \in S /\ 4 \in k.uxTopReadyPriority
  <2>1. "monitor" \in ReadyIn(k, E, 4)
    BY <1>0, AppRing
  <2> QED
    BY <2>1, AppRing
<1>2. q = listGET_OWNER_OF_NEXT_ENTRY(r) /\ k2.pxCurrentTCB = Head(q)
  BY <1>1, SwitchRing
<1>3. GoodKernel(k2, E) /\ SameLists(k, k2) /\ k2.pxCurrentTCB \notin AsleepIn(k2)
  BY SwitchGood
<1>4. IsRing(q, S)
  <2>1. ReadyIn(k2, E, 4) = S
    BY <1>3, SameSleepers
  <2>2. IsRing(q, ReadyIn(k2, E, 4))
    BY <1>3, AppRing
  <2> QED
    BY <2>1, <2>2
<1> HIDE DEF S
<1>5. DistIn(r) \in 1..N /\ DistIn(q) \in 1..N
  <2> HIDE DEF r, q
  <2>1. DistIn(r) \in 1..N
    BY <1>1, DistBounds
  <2>2. DistIn(q) \in 1..N
    BY <1>1, <1>4, DistBounds
  <2> QED
    BY <2>1, <2>2
<1>6. /\ Share(D) \in Nat /\ Round(D) \in Nat /\ MaxPended \in Nat
      /\ Len(AppTasks) \in Nat /\ Len(AppTasks) >= 1
  BY RoundTypes
<1>7. N \in Nat
  BY <1>6
<1>8. Dist(k) = DistIn(r) /\ Dist(k2) = DistIn(q)
  BY DEF Dist
<1>9. CASE k2.pxCurrentTCB = "monitor"
  <2>1. Wait(k2, 0, D) = 0
    BY <1>9 DEF Wait
  <2>2. DistIn(r) - 1 \in Nat
    BY <1>5, <1>7
  <2>3. (DistIn(r) - 1) * Share(D) \in Nat
    BY <1>6, <2>2, Products
  <2> QED
    BY <1>5, <1>6, <1>8, <2>1, <2>3
<1>10. CASE k2.pxCurrentTCB # "monitor"
  <2>1. DistIn(q) < DistIn(r)
    <3>1. Head(q) # "monitor"
      BY <1>2, <1>10
    <3> HIDE DEF r, q
    <3> QED
      BY <1>1, <1>2, <3>1, DistLess
  <2> DEFINE b == DistIn(q)
             a == DistIn(r)
  <2>2. Wait(k2, 0, D) = (b - 1) * Share(D) + (MaxPended - 0) + D
    BY <1>3, <1>8, <1>10 DEF Wait
  <2> HIDE DEF a, b
  <2>3. b \in Nat /\ b - 1 \in Nat /\ a - 1 \in Nat /\ b <= a - 1 /\ b <= N
    BY <1>5, <1>7, <2>1 DEF a, b
  <2>4. (b - 1) * Share(D) + Share(D) = b * Share(D)
    <3>1. ((b - 1) + 1) * Share(D) = (b - 1) * Share(D) + Share(D)
      BY <1>6, <2>3, Products
    <3>2. (b - 1) + 1 = b
      BY <2>3
    <3> QED
      BY <3>1, <3>2
  <2>5. b * Share(D) \in Nat /\ b * Share(D) <= (a - 1) * Share(D) /\ b * Share(D) <= N * Share(D)
    <3>1. b * Share(D) \in Nat /\ b * Share(D) <= (a - 1) * Share(D)
      BY <1>6, <2>3, Products
    <3>2. b * Share(D) <= N * Share(D)
      <4> HIDE DEF N
      <4> QED
        BY <1>6, <1>7, <2>3, Products
    <3> QED
      BY <3>1, <3>2
  <2>6. Wait(k2, 0, D) = b * Share(D)
    <3>1. (b - 1) * Share(D) \in Nat
      BY <1>6, <2>3, Products
    <3>2. Share(D) = MaxPended + D
      BY DEF Share
    <3> DEFINE z == (b - 1) * Share(D)
    <3>3. z \in Nat /\ z + Share(D) = b * Share(D) /\ Wait(k2, 0, D) = z + (MaxPended - 0) + D
      BY <2>2, <2>4, <3>1
    <3> HIDE DEF z
    <3>4. z + (MaxPended - 0) + D = z + Share(D)
      BY <1>6, <3>2, <3>3
    <3> QED
      BY <3>3, <3>4
  <2>7. Round(D) = N * Share(D)
    BY DEF Round
  <2>8. Wait(k2, 0, D) \in Nat /\ Wait(k2, 0, D) <= Round(D)
    BY <2>5, <2>6, <2>7
  <2>9. Wait(k2, 0, D) <= (Dist(k) - 1) * Share(D)
    BY <1>8, <2>5, <2>6 DEF a
  <2> QED
    BY <1>5, <1>8, <2>8, <2>9
<1> QED
  BY <1>9, <1>10

\* How long the tasks that still sleep do so, after n ticks.
LEMMA LeftAfter ==
  ASSUME NEW E, NEW k, GoodKernel(k, E), NEW E2, NEW k2, GoodKernel(k2, E2),
         NEW n \in Nat, Lasts(k2, LessIn(LeftIn(k), n))
  PROVE  /\ \A t \in App : LeftIn(k)[t] \in Nat
         /\ \A t \in AsleepIn(k) : LeftIn(k)[t] >= 1
         /\ \A t \in AsleepIn(k2) : LeftIn(k2)[t] >= 1 /\ LeftIn(k2)[t] = LeftIn(k)[t] - n
<1>1. Lasts(k, LeftIn(k)) /\ Lasts(k2, LeftIn(k2))
  BY LeftLasts
<1>2. ASSUME NEW e, NEW x, GoodKernel(x, e)
      PROVE  \A t \in AsleepIn(x) : LeftIn(x)[t] >= 1 /\ LeftIn(x)[t] \in Nat
  <2>0. Lasts(x, LeftIn(x))
    BY <1>2, LeftLasts
  <2> SUFFICES ASSUME NEW t \in AsleepIn(x)
               PROVE  LeftIn(x)[t] >= 1 /\ LeftIn(x)[t] \in Nat
    OBVIOUS
  <2>1. PICK y \in Item : InK(x, y) /\ y.task = t
    BY DEF AsleepIn
  <2>2. LeftIn(x)[t] = Until(y.value, x.xTickCount)
    BY <2>0, <2>1 DEF Lasts
  <2>3. y.value \in Tick32 /\ x.xTickCount \in Tick32
    BY <1>2, <2>1 DEF Item, GoodKernel, KernelType
  <2>4. y.value # x.xTickCount
    <3>1. x.xTickCount \in Nat /\ y.value \in Nat
      BY <2>3, Constants DEF Tick32
    <3>2. y.value > x.xTickCount \/ y.value < x.xTickCount
      BY <1>2, <2>1 DEF InK, GoodKernel, GoodLists
    <3> QED
      BY <3>1, <3>2
  <2>5. Until(y.value, x.xTickCount) \in Nat /\ Until(y.value, x.xTickCount) > 0
    BY <2>3, <2>4, UntilIs
  <2> QED
    BY <2>2, <2>5
<1>3. LeftIn(k) \in [App -> Nat]
  BY <1>1 DEF Lasts
<1>4. LeftIn(k2) = LessIn(LeftIn(k), n)
  BY <1>1, LastsOnce
<1>5. ASSUME NEW t \in AsleepIn(k2)
      PROVE  LeftIn(k2)[t] >= 1 /\ LeftIn(k2)[t] = LeftIn(k)[t] - n
  <2>1. t \in App
    BY DEF AsleepIn
  <2>2. LeftIn(k2)[t] >= 1
    BY <1>2
  <2>3. LeftIn(k2)[t] = IF LeftIn(k)[t] > n THEN LeftIn(k)[t] - n ELSE 0
    BY <1>4, <2>1 DEF LessIn
  <2> QED
    BY <2>2, <2>3
<1> QED
  BY <1>2, <1>3, <1>5

\* What n ticks, and a switch if one is asked for, change.
Ticked(E, k, n, s, k1, k2) ==
  /\ GoodKernel(k1, E) /\ k1.pxCurrentTCB = k.pxCurrentTCB
  /\ Prolongs(k.pxReadyTasksLists[4], k1.pxReadyTasksLists[4])
  /\ AsleepIn(k1) \subseteq AsleepIn(k)
  /\ Lasts(k1, LessIn(LeftIn(k), n))
  /\ s \in BOOLEAN /\ (s \/ SameReady(k, k1))
  /\ k2 = IF s THEN vTaskSwitchContext(k1) ELSE k1

\* The tasks that sleep then.
LEMMA TickedSleepers ==
  ASSUME NEW E \in SUBSET Task, "idle" \in E, NEW k, GoodKernel(k, E), NEW n \in Nat,
         NEW s, NEW k1, NEW k2, Ticked(E, k, n, s, k1, k2)
  PROVE  /\ GoodKernel(k2, E) /\ AsleepIn(k2) \subseteq AsleepIn(k)
         /\ \A t \in App : LeftIn(k)[t] \in Nat
         /\ \A t \in AsleepIn(k) : LeftIn(k)[t] >= 1
         /\ \A t \in AsleepIn(k2) : LeftIn(k2)[t] = LeftIn(k)[t] - n
         /\ s => k2.pxCurrentTCB \notin AsleepIn(k2)
         /\ ~s => /\ k2.pxCurrentTCB = k.pxCurrentTCB /\ AsleepIn(k2) = AsleepIn(k)
                  /\ k2.pxReadyTasksLists[4] = k.pxReadyTasksLists[4]
<1>1. /\ GoodKernel(k1, E) /\ k1.pxCurrentTCB = k.pxCurrentTCB
      /\ AsleepIn(k1) \subseteq AsleepIn(k) /\ Lasts(k1, LessIn(LeftIn(k), n))
      /\ s \in BOOLEAN /\ (s \/ SameReady(k, k1))
      /\ k2 = IF s THEN vTaskSwitchContext(k1) ELSE k1
  BY DEF Ticked
<1>2. /\ GoodKernel(k2, E) /\ SameLists(k1, k2)
      /\ s => k2.pxCurrentTCB \notin AsleepIn(k2)
  <2>1. CASE s
    <3>1. k2 = vTaskSwitchContext(k1)
      BY <1>1, <2>1
    <3>2. GoodKernel(k2, E) /\ SameLists(k1, k2)
      BY <1>1, <3>1, SwitchGood
    <3>3. k2.pxCurrentTCB \in E \ AsleepIn(k2)
      BY <1>1, <3>1, SwitchGood
    <3> QED
      BY <3>2, <3>3
  <2>2. CASE ~s
    BY <1>1, <2>2 DEF SameLists
  <2> QED
    BY <2>1, <2>2
<1>3. AsleepIn(k2) = AsleepIn(k1)
  BY <1>2, SameSleepers
<1>4. Lasts(k2, LessIn(LeftIn(k), n))
  BY <1>1, <1>2, SameLeft
<1>5. ~s => /\ k2.pxCurrentTCB = k.pxCurrentTCB /\ AsleepIn(k2) = AsleepIn(k)
            /\ k2.pxReadyTasksLists[4] = k.pxReadyTasksLists[4]
  <2>1. 4 \in Priorities
    BY Prio
  <2> QED
    BY <1>1, <2>1 DEF SameReady
<1>6. /\ \A t \in App : LeftIn(k)[t] \in Nat
      /\ \A t \in AsleepIn(k) : LeftIn(k)[t] >= 1
      /\ \A t \in AsleepIn(k2) : LeftIn(k2)[t] = LeftIn(k)[t] - n
  BY <1>2, <1>4, LeftAfter
<1> QED
  BY <1>1, <1>2, <1>3, <1>5, <1>6

\* How long monitor waits then, if it is ready.
LEMMA TickedWait ==
  ASSUME NEW D \in Nat, NEW E \in SUBSET Task, "idle" \in E, NEW k, GoodKernel(k, E),
         NEW n \in Nat, NEW s, NEW k1, NEW k2, Ticked(E, k, n, s, k1, k2),
         "monitor" \in E \ AsleepIn(k2)
  PROVE  /\ s \/ k.pxCurrentTCB = "monitor" =>
              Wait(k2, 0, D) \in Nat /\ Wait(k2, 0, D) <= Round(D)
         /\ "monitor" \notin AsleepIn(k) =>
              /\ Dist(k) \in 1..(2 * Len(AppTasks) - 1)
              /\ s => Wait(k2, 0, D) <= (Dist(k) - 1) * Share(D)
              /\ ~s => Dist(k2) = Dist(k)
<1>1. /\ GoodKernel(k1, E) /\ k1.pxCurrentTCB = k.pxCurrentTCB
      /\ Prolongs(k.pxReadyTasksLists[4], k1.pxReadyTasksLists[4])
      /\ k2 = IF s THEN vTaskSwitchContext(k1) ELSE k1
      /\ s \in BOOLEAN
  BY DEF Ticked
<1>2. ~s => /\ k2.pxCurrentTCB = k.pxCurrentTCB
            /\ k2.pxReadyTasksLists[4] = k.pxReadyTasksLists[4]
  BY TickedSleepers
<1>3. "monitor" \notin AsleepIn(k1)
  <2>1. CASE s
    <3>1. k2 = vTaskSwitchContext(k1)
      BY <1>1, <2>1
    <3>2. SameLists(k1, k2)
      BY <1>1, <3>1, SwitchGood
    <3> QED
      BY <3>2, SameSleepers
  <2>2. CASE ~s
    BY <1>1, <2>2
  <2> QED
    BY <1>1, <2>1, <2>2
<1>4. CASE s
  <2>1. k2 = vTaskSwitchContext(k1)
    BY <1>1, <1>4
  <2>2. /\ Wait(k2, 0, D) \in Nat /\ Wait(k2, 0, D) <= Round(D)
        /\ Wait(k2, 0, D) <= (Dist(k1) - 1) * Share(D)
    BY <1>1, <1>3, <2>1, SwitchWait
  <2>3. ASSUME "monitor" \notin AsleepIn(k)
        PROVE  Dist(k1) = Dist(k) /\ Dist(k) \in 1..(2 * Len(AppTasks) - 1)
    <3> DEFINE S == ReadyIn(k, E, 4)
               Z == ReadyIn(k1, E, 4)
               r == k.pxReadyTasksLists[4]
               q == k1.pxReadyTasksLists[4]
    <3>1. S \in SUBSET App /\ IsRing(r, S) /\ "monitor" \in S
      <4>1. "monitor" \in App
        BY KernelAssumption
      <4> QED
        BY <2>3, <4>1, AppRing
    <3>2. Z \in SUBSET App /\ IsRing(q, Z)
      BY <1>1, AppRing
    <3>3. Prolongs(r, q)
      BY <1>1
    <3> HIDE DEF S, Z, r, q
    <3>4. DistIn(q) = DistIn(r)
      BY <3>1, <3>2, <3>3, DistStays
    <3>5. DistIn(r) \in 1..(2 * Len(AppTasks) - 1)
      BY <3>1, DistBounds
    <3> QED
      BY <3>4, <3>5 DEF Dist, q, r
  <2> QED
    BY <1>4, <2>2, <2>3
<1>5. CASE ~s
  <2>1. Dist(k2) = Dist(k)
    BY <1>2, <1>5 DEF Dist
  <2>2. k.pxCurrentTCB = "monitor" => Wait(k2, 0, D) = 0
    BY <1>2, <1>5 DEF Wait
  <2>3. ASSUME "monitor" \notin AsleepIn(k)
        PROVE  Dist(k) \in 1..(2 * Len(AppTasks) - 1)
    <3> DEFINE S == ReadyIn(k, E, 4)
               r == k.pxReadyTasksLists[4]
    <3>1. S \in SUBSET App /\ IsRing(r, S) /\ "monitor" \in S
      <4>1. "monitor" \in App
        BY KernelAssumption
      <4> QED
        BY <2>3, <4>1, AppRing
    <3> HIDE DEF S, r
    <3>2. DistIn(r) \in 1..(2 * Len(AppTasks) - 1)
      BY <3>1, DistBounds
    <3> QED
      BY <3>2 DEF Dist, r
  <2>4. Round(D) \in Nat
    BY RoundTypes
  <2> QED
    BY <1>5, <2>1, <2>2, <2>3, <2>4
<1> QED
  BY <1>1, <1>4, <1>5

Longest(D) == D \in Nat /\ \A t \in App \ {"monitor"} : Delay[t] <= D

\* From when monitor runs until it feeds the watchdog or sleeps: nothing, or a switch
\* before that; or its whole delay and what follows.
After(at, D) ==
  CASE at \in {"call", "delay"} ->
         Delay["monitor"] + MaxPended + Round(D) + Rounds(MaxHits, D)
    [] at = "yield" -> Round(D)
    [] OTHER -> 0

\* The ticks until monitor feeds the watchdog, but for what those that come while it runs
\* cost.
Rest(k, u, w, D) ==
  IF "monitor" \in AsleepIn(k)
  THEN LeftIn(k)["monitor"] + (MaxPended - u) + Round(D)
       + (IF w["monitor"] = "yield" /\ k.pxCurrentTCB # "monitor" THEN Round(D) ELSE 0)
  ELSE Wait(k, u, D) + After(w["monitor"], D)

LEMMA AfterType ==
  ASSUME NEW D \in Nat, NEW at
  PROVE  /\ After(at, D) \in Nat /\ Delay["monitor"] \in Nat
         /\ at = "yield" => After(at, D) = Round(D)
         /\ at \notin {"yield", "call", "delay"} => After(at, D) = 0
<1>1. Round(D) \in Nat /\ MaxPended \in Nat
  BY RoundTypes
<1>2. MaxHits \in Nat /\ Delay["monitor"] \in Nat
  BY KernelAssumption
<1>3. Rounds(MaxHits, D) \in Nat
  BY <1>2, RoundTypes
<1> DEFINE z == Delay["monitor"] + MaxPended + Round(D) + Rounds(MaxHits, D)
<1>4. z \in Nat
  BY <1>1, <1>2, <1>3
<1>5. /\ at \in {"call", "delay"} => After(at, D) = z
      /\ at = "yield" => After(at, D) = Round(D)
      /\ at \notin {"yield", "call", "delay"} => After(at, D) = 0
  BY DEF After
<1> HIDE DEF z
<1> QED
  BY <1>1, <1>2, <1>4, <1>5

\* A task of the application runs while monitor is ready.
LEMMA AppRuns ==
  ASSUME NEW E \in SUBSET Task, "idle" \in E, NEW k, Runs(k, E), "monitor" \in E \ AsleepIn(k)
  PROVE  k.pxCurrentTCB \in App
<1>0. "monitor" \in App /\ GoodKernel(k, E)
  BY KernelAssumption DEF Runs
<1>1. 4 \in k.uxTopReadyPriority
  <2>1. "monitor" \in ReadyIn(k, E, 4)
    BY <1>0, AppRing
  <2> QED
    BY <1>0, <2>1, AppRing
<1>2. 4 <= uxPriority(k.pxCurrentTCB)
  BY <1>1 DEF Runs
<1> QED
  BY <1>2, Prio

\* While another task runs.
LEMMA OthersRest ==
  ASSUME NEW D, Longest(D), NEW E \in SUBSET Task, "idle" \in E, NEW k, Runs(k, E),
         NEW n \in Nat, NEW s, NEW k1, NEW k2, Ticked(E, k, n, s, k1, k2),
         "monitor" \in E, k.pxCurrentTCB # "monitor",
         NEW u \in 0..MaxPended, n \in {u, u + 1}, NEW w, NEW w2, w2["monitor"] = w["monitor"],
         "monitor" \notin AsleepIn(k) => s \/ k.pxCurrentTCB \in AsleepIn(k),
         "monitor" \in AsleepIn(k) => w["monitor"] \notin {"call", "delay"}
  PROVE  Rest(k2, 0, w2, D) + (n - u) <= Rest(k, u, w, D)
<1> DEFINE c == k.pxCurrentTCB
           at == w["monitor"]
           A == (Dist(k) - 1) * Share(D)
<1>1. D \in Nat /\ GoodKernel(k, E) /\ u \in Nat /\ u <= MaxPended /\ MaxPended \in Nat
  BY KernelAssumption DEF Longest, Runs
<1>2. Round(D) \in Nat /\ After(at, D) \in Nat
      /\ (at = "yield" => After(at, D) = Round(D))
      /\ (at \notin {"yield", "call", "delay"} => After(at, D) = 0)
  BY <1>1, RoundTypes, AfterType
<1>3. /\ AsleepIn(k2) \subseteq AsleepIn(k)
      /\ \A t \in App : LeftIn(k)[t] \in Nat
      /\ \A t \in AsleepIn(k) : LeftIn(k)[t] >= 1
      /\ \A t \in AsleepIn(k2) : LeftIn(k2)[t] = LeftIn(k)[t] - n
      /\ s => k2.pxCurrentTCB \notin AsleepIn(k2)
      /\ ~s => k2.pxCurrentTCB = k.pxCurrentTCB /\ AsleepIn(k2) = AsleepIn(k)
  BY <1>1, TickedSleepers
<1>4. s \in BOOLEAN
  BY DEF Ticked
<1>5. "monitor" \in App
  BY KernelAssumption
<1> HIDE DEF at, A
<1>6. CASE "monitor" \in AsleepIn(k2)
  <2> DEFINE x == IF at = "yield" THEN Round(D) ELSE 0
  <2>1. "monitor" \in AsleepIn(k) /\ k2.pxCurrentTCB # "monitor"
    BY <1>3, <1>4, <1>6
  <2>2. Rest(k2, 0, w2, D) = LeftIn(k2)["monitor"] + (MaxPended - 0) + Round(D) + x
    BY <1>6, <2>1 DEF Rest, at
  <2>3. Rest(k, u, w, D) = LeftIn(k)["monitor"] + (MaxPended - u) + Round(D) + x
    BY <2>1 DEF Rest, at
  <2>4. LeftIn(k2)["monitor"] = LeftIn(k)["monitor"] - n /\ LeftIn(k)["monitor"] \in Nat
    BY <1>3, <1>5, <1>6
  <2>5. x \in Nat
    BY <1>2
  <2> HIDE DEF x
  <2> QED
    BY <1>1, <1>2, <2>2, <2>3, <2>4, <2>5
<1>7. CASE "monitor" \notin AsleepIn(k2) /\ "monitor" \in AsleepIn(k)
  <2> DEFINE x == IF at = "yield" THEN Round(D) ELSE 0
  <2>1. s /\ at \notin {"call", "delay"}
    BY <1>3, <1>4, <1>7 DEF at
  <2>2. Wait(k2, 0, D) \in Nat /\ Wait(k2, 0, D) <= Round(D)
    <3>1. /\ D \in Nat /\ E \in SUBSET Task /\ "idle" \in E /\ GoodKernel(k, E) /\ n \in Nat
          /\ Ticked(E, k, n, s, k1, k2) /\ "monitor" \in E \ AsleepIn(k2) /\ s
      BY <1>1, <1>7, <2>1
    <3> QED
      BY ONLY <3>1, TickedWait
  <2>3. Rest(k2, 0, w2, D) = Wait(k2, 0, D) + x
    BY <1>2, <1>7, <2>1 DEF Rest, at
  <2>4. Rest(k, u, w, D) = LeftIn(k)["monitor"] + (MaxPended - u) + Round(D) + x
    BY <1>7 DEF Rest, at
  <2>5. LeftIn(k)["monitor"] \in Nat /\ LeftIn(k)["monitor"] >= 1
    BY <1>3, <1>5, <1>7
  <2>6. x \in Nat
    BY <1>2
  <2> HIDE DEF x
  <2>7. n - u \in {0, 1}
    BY <1>1
  <2> QED
    BY <1>1, <1>2, <2>2, <2>3, <2>4, <2>5, <2>6, <2>7
<1>8. CASE "monitor" \notin AsleepIn(k2) /\ "monitor" \notin AsleepIn(k)
  <2>1. c \in App /\ D >= 1
    <3>1. c \in App
      BY <1>8, AppRuns
    <3>2. Delay[c] \in Nat /\ Delay[c] > 0 /\ Delay[c] <= D
      BY <3>1, Constants DEF Longest
    <3> QED
      BY <1>1, <3>1, <3>2
  <2>2. /\ s => Wait(k2, 0, D) <= A /\ Wait(k2, 0, D) \in Nat
        /\ ~s => Dist(k2) = Dist(k)
        /\ Dist(k) \in 1..(2 * Len(AppTasks) - 1)
    <3>1. /\ D \in Nat /\ E \in SUBSET Task /\ "idle" \in E /\ GoodKernel(k, E) /\ n \in Nat
          /\ Ticked(E, k, n, s, k1, k2) /\ "monitor" \in E \ AsleepIn(k2)
          /\ "monitor" \notin AsleepIn(k)
      BY <1>1, <1>8
    <3>2. /\ s => Wait(k2, 0, D) <= (Dist(k) - 1) * Share(D) /\ Wait(k2, 0, D) \in Nat
          /\ ~s => Dist(k2) = Dist(k)
          /\ Dist(k) \in 1..(2 * Len(AppTasks) - 1)
      BY ONLY <3>1, TickedWait
    <3> QED
      BY <3>2 DEF A
  <2>3. A \in Nat
    <3>0. Dist(k) \in 1..(2 * Len(AppTasks) - 1)
      BY <2>2
    <3>1. Share(D) \in Nat /\ Len(AppTasks) \in Nat
      BY <1>1, RoundTypes
    <3>2. Dist(k) - 1 \in Nat
      BY <3>0, <3>1
    <3> QED
      BY <3>1, <3>2, Products DEF A
  <2> DEFINE y == IF c \in AsleepIn(k) THEN LeftIn(k)[c] ELSE D
  <2>4. y \in Nat /\ y >= 1
    BY <1>1, <1>3, <2>1
  <2>5. Rest(k, u, w, D) = A + (MaxPended - u) + y + After(at, D)
    BY <1>8 DEF Rest, Wait, at, A
  <2>6. Rest(k2, 0, w2, D) = Wait(k2, 0, D) + After(at, D)
    BY <1>8 DEF Rest, at
  <2>7. n - u \in {0, 1}
    BY <1>1
  <2>8. CASE s
    <3> HIDE DEF y
    <3> QED
      BY <1>1, <1>2, <2>2, <2>3, <2>4, <2>5, <2>6, <2>7, <2>8
  <2>9. CASE ~s
    <3>1. c \in AsleepIn(k) /\ k2.pxCurrentTCB = c /\ c \in AsleepIn(k2)
      BY <1>3, <1>8, <2>9
    <3>2. LeftIn(k2)[c] = LeftIn(k)[c] - n /\ y = LeftIn(k)[c]
      BY <1>3, <3>1
    <3>3. Wait(k2, 0, D) = A + (MaxPended - 0) + LeftIn(k2)[c]
      BY <2>2, <2>9, <3>1 DEF Wait, A
    <3> HIDE DEF y
    <3> QED
      BY <1>1, <1>2, <2>3, <2>4, <2>5, <2>6, <3>2, <3>3
  <2> QED
    BY <1>4, <2>8, <2>9
<1> QED
  BY <1>3, <1>6, <1>7, <1>8

\* While monitor itself runs: a tick may be the end of its slice, and at the end of its
\* vTaskDelay it yields.
LEMMA MonitorsRest ==
  ASSUME NEW D \in Nat, NEW E \in SUBSET Task, "idle" \in E, NEW k, GoodKernel(k, E),
         NEW n \in Nat, NEW s, NEW k1, NEW k2, Ticked(E, k, n, s, k1, k2),
         "monitor" \in E, k.pxCurrentTCB = "monitor",
         NEW u \in 0..MaxPended, n >= u, NEW w, NEW w2
  PROVE  /\ /\ w2["monitor"] = w["monitor"]
            /\ "monitor" \in AsleepIn(k) => w["monitor"] \in {"resume", "yield"}
            => Rest(k2, 0, w2, D) <= Rest(k, u, w, D) + Round(D)
         /\ /\ "monitor" \in AsleepIn(k) /\ w["monitor"] = "resume"
            /\ w2["monitor"] = IF s THEN "work" ELSE "yield"
            => Rest(k2, 0, w2, D) <= Rest(k, u, w, D)
         /\ w["monitor"] = "yield" /\ w2["monitor"] = "work"
            => Rest(k2, 0, w2, D) <= Rest(k, u, w, D)
<1> DEFINE at == w["monitor"]
           to == w2["monitor"]
           R == Rest(k, u, w, D)
           R2 == Rest(k2, 0, w2, D)
           L == LeftIn(k)["monitor"]
<1>1. u \in Nat /\ u <= MaxPended /\ MaxPended \in Nat
  BY KernelAssumption
<1>2. /\ Round(D) \in Nat
      /\ \A x : /\ After(x, D) \in Nat
                /\ x = "yield" => After(x, D) = Round(D)
                /\ x \notin {"yield", "call", "delay"} => After(x, D) = 0
  BY RoundTypes, AfterType
<1>3. /\ AsleepIn(k2) \subseteq AsleepIn(k)
      /\ \A t \in App : LeftIn(k)[t] \in Nat
      /\ \A t \in AsleepIn(k) : LeftIn(k)[t] >= 1
      /\ \A t \in AsleepIn(k2) : LeftIn(k2)[t] = LeftIn(k)[t] - n
      /\ s => k2.pxCurrentTCB \notin AsleepIn(k2)
      /\ ~s => k2.pxCurrentTCB = k.pxCurrentTCB /\ AsleepIn(k2) = AsleepIn(k)
  BY TickedSleepers
<1>4. s \in BOOLEAN
  BY DEF Ticked
<1>5. L \in Nat /\ ("monitor" \in AsleepIn(k2) => LeftIn(k2)["monitor"] = L - n)
  BY <1>3, KernelAssumption
<1>6. "monitor" \notin AsleepIn(k2) => Wait(k2, 0, D) \in Nat /\ Wait(k2, 0, D) <= Round(D)
  BY TickedWait
<1>7. "monitor" \in AsleepIn(k) => R = L + (MaxPended - u) + Round(D)
  BY <1>1, <1>2, <1>5 DEF Rest
<1>8. "monitor" \notin AsleepIn(k) => R = After(at, D)
  <2>1. Wait(k, u, D) = 0
    BY DEF Wait
  <2> QED
    BY <1>2, <2>1 DEF Rest
<1>9. "monitor" \in AsleepIn(k2) =>
        R2 = (L - n) + MaxPended + Round(D) + IF to = "yield" /\ s THEN Round(D) ELSE 0
  <2> SUFFICES ASSUME "monitor" \in AsleepIn(k2)
               PROVE  R2 = (L - n) + MaxPended + Round(D)
                           + IF to = "yield" /\ s THEN Round(D) ELSE 0
    OBVIOUS
  <2>1. k2.pxCurrentTCB # "monitor" <=> s
    BY <1>3, <1>4
  <2>2. R2 = LeftIn(k2)["monitor"] + (MaxPended - 0) + Round(D)
             + IF to = "yield" /\ k2.pxCurrentTCB # "monitor" THEN Round(D) ELSE 0
    BY DEF Rest
  <2>3. MaxPended - 0 = MaxPended
    BY <1>1
  <2> QED
    BY <1>5, <2>1, <2>2, <2>3
<1>10. "monitor" \notin AsleepIn(k2) => R2 = Wait(k2, 0, D) + After(to, D)
  BY DEF Rest
<1> HIDE DEF R, R2, L, at, to
<1>11. ASSUME to = at, "monitor" \in AsleepIn(k) => at \in {"resume", "yield"}
       PROVE  R2 <= R + Round(D)
  <2>1. CASE "monitor" \in AsleepIn(k2)
    BY <1>1, <1>2, <1>3, <1>5, <1>7, <1>9, <2>1
  <2>2. CASE "monitor" \notin AsleepIn(k2) /\ "monitor" \in AsleepIn(k)
    <3>1. After(to, D) <= Round(D) /\ After(to, D) \in Nat
      BY <1>2, <1>11, <2>2
    <3> QED
      BY <1>1, <1>2, <1>5, <1>6, <1>7, <1>10, <2>2, <3>1
  <2>3. CASE "monitor" \notin AsleepIn(k2) /\ "monitor" \notin AsleepIn(k)
    <3>1. After(to, D) \in Nat /\ R = After(to, D)
      BY <1>2, <1>8, <1>11, <2>3
    <3> QED
      BY <1>2, <1>6, <1>10, <2>3, <3>1
  <2> QED
    BY <1>3, <2>1, <2>2, <2>3
<1>12. ASSUME "monitor" \in AsleepIn(k), at = "resume", to = IF s THEN "work" ELSE "yield"
       PROVE  R2 <= R
  <2>1. CASE "monitor" \in AsleepIn(k2)
    <3>1. R2 = (L - n) + MaxPended + Round(D) + 0
      BY <1>4, <1>9, <1>12, <2>1
    <3> QED
      BY <1>1, <1>2, <1>5, <1>7, <1>12, <3>1
  <2>2. CASE "monitor" \notin AsleepIn(k2)
    <3>1. s /\ to = "work"
      BY <1>3, <1>4, <1>12, <2>2
    <3>2. After(to, D) = 0
      BY <1>2, <3>1
    <3> QED
      BY <1>1, <1>2, <1>5, <1>6, <1>7, <1>10, <1>12, <2>2, <3>2
  <2> QED
    BY <2>1, <2>2
<1>13. ASSUME at = "yield", to = "work"
       PROVE  R2 <= R
  <2>1. After(to, D) = 0 /\ After(at, D) = Round(D)
    BY <1>2, <1>13
  <2>2. CASE "monitor" \in AsleepIn(k2)
    <3>1. R2 = (L - n) + MaxPended + Round(D) + 0
      BY <1>9, <1>13, <2>2
    <3> QED
      BY <1>1, <1>2, <1>3, <1>5, <1>7, <2>2, <3>1
  <2>3. CASE "monitor" \notin AsleepIn(k2)
    BY <1>1, <1>2, <1>3, <1>5, <1>6, <1>7, <1>8, <1>10, <2>1, <2>3
  <2> QED
    BY <2>2, <2>3
<1> QED
  BY <1>11, <1>12, <1>13 DEF R, R2, at, to

-----------------------------------------------------------------------------
\* Steps of the three functions that switch, as Ticked describes them.
LEMMA SwitchTicked ==
  ASSUME NEW E \in SUBSET Task, "idle" \in E, NEW k, GoodKernel(k, E),
         NEW k2, k2 = vTaskSwitchContext(k)
  PROVE  Ticked(E, k, 0, TRUE, k, k2)
<1>1. Lasts(k, LeftIn(k))
  BY LeftLasts
<1>2. Lasts(k, LessIn(LeftIn(k), 0))
  <2>1. LeftIn(k) \in [App -> Nat]
    BY <1>1 DEF Lasts
  <2>2. LessIn(LeftIn(k), 0) = LeftIn(k)
    BY <2>1, LessIs
  <2> QED
    BY <1>1, <2>2
<1>3. Prolongs(k.pxReadyTasksLists[4], k.pxReadyTasksLists[4])
  <2> DEFINE r == k.pxReadyTasksLists[4]
             S == ReadyIn(k, E, 4)
  <2>1. IsRing(r, S) /\ S \in SUBSET App
    BY AppRing
  <2> HIDE DEF r, S
  <2>2. "end" \notin S
    BY <2>1, Constants
  <2>3. Len(r) \in Nat
    BY ONLY <2>1, <2>2, RingLen
  <2> QED
    BY <2>3 DEF Prolongs, r
<1> QED
  BY <1>2, <1>3 DEF Ticked

LEMMA TickTicked ==
  ASSUME NEW E \in SUBSET Task, "idle" \in E, NEW k, GoodKernel(k, E),
         NEW k1, k1 = IncrementTick(k), NEW s, s = xSwitchRequired(k, k1),
         NEW k2, k2 = IF s THEN vTaskSwitchContext(k1) ELSE k1
  PROVE  Ticked(E, k, 1, s, k1, k2)
<1>1. /\ GoodKernel(k1, E) /\ k1.pxCurrentTCB = k.pxCurrentTCB
      /\ \A x : InK(k1, x) => InK(k, x)
      /\ \/ Len(k1.pxReadyTasksLists[4]) > Len(k.pxReadyTasksLists[4])
         \/ SameReady(k, k1)
      /\ Prolongs(k.pxReadyTasksLists[4], k1.pxReadyTasksLists[4])
  BY TickIs DEF SameReady
<1>2. AsleepIn(k1) \subseteq AsleepIn(k)
  BY <1>1 DEF AsleepIn
<1>3. Lasts(k1, LessIn(LeftIn(k), 1))
  <2>1. Lasts(k, LeftIn(k))
    BY LeftLasts
  <2> QED
    BY <2>1, TickLeft
<1>4. s \in BOOLEAN
  BY DEF xSwitchRequired
<1>5. s \/ SameReady(k, k1)
  BY <1>1, SwitchIsRequired
<1> QED
  BY <1>1, <1>2, <1>3, <1>4, <1>5 DEF Ticked

LEMMA ResumeTicked ==
  ASSUME NEW E \in SUBSET Task, "idle" \in E, NEW k, GoodKernel(k, E), NEW u \in Nat,
         NEW f, Unwound(k, u, f),
         NEW r, r = \E n \in 1..u : xSwitchRequired(f[n - 1], f[n]),
         NEW k2, k2 = IF r THEN vTaskSwitchContext(f[u]) ELSE f[u]
  PROVE  Ticked(E, k, u, r, f[u], k2)
<1>0. u \in 0..u
  OBVIOUS
<1>1. /\ GoodKernel(f[u], E) /\ f[u].pxCurrentTCB = k.pxCurrentTCB
      /\ (\E n \in 1..u : xSwitchRequired(f[n - 1], f[n])) \/ SameReady(k, f[u])
  BY <1>0, UnwoundGood
<1>2. AsleepIn(f[u]) \subseteq AsleepIn(k)
  BY <1>0, UnwoundSleepers
<1>3. Prolongs(k.pxReadyTasksLists[4], f[u].pxReadyTasksLists[4])
  BY <1>0, UnwoundProlongs
<1>4. Lasts(f[u], LessIn(LeftIn(k), u))
  <2>1. Lasts(k, LeftIn(k))
    BY LeftLasts
  <2> QED
    BY <2>1, UnwoundLeft
<1> QED
  BY <1>1, <1>2, <1>3, <1>4 DEF Ticked

\* What the task that runs changes when it goes to sleep.
LEMMA SleepIs ==
  ASSUME NEW k, NEW s, NEW u, NEW w, NEW c, Good(k, s, u, w, c),
         NEW k2, NEW w2, FallsAsleep(k, k2, w, w2), NEW t, t = k.pxCurrentTCB
  PROVE  /\ t \in App /\ k2.pxCurrentTCB = t
         /\ t \notin AsleepIn(k) /\ AsleepIn(k2) = AsleepIn(k) \cup {t}
         /\ LeftIn(k2) = [LeftIn(k) EXCEPT ![t] = Delay[t]]
         /\ Head(k.pxReadyTasksLists[4]) = t
         /\ k2.pxReadyTasksLists[4] = uxListRemove(k.pxReadyTasksLists[4], t)
         /\ Moves(w, t, "resume", w2) /\ w[t] = "delay"
<1> DEFINE E == ExistIn(w)
<1>1. /\ E \in SUBSET Task /\ "idle" \in E /\ GoodKernel(k, E) /\ t \in Task
      /\ w \in [Task -> Where]
  BY GoodFacts
<1>2. Runs(k, E) /\ Places(w, c) /\ Sleeping(k, w)
  BY DEF Good
<1>3. /\ w[t] = "delay" /\ Moves(w, t, "resume", w2)
      /\ k2 = prvAddCurrentTaskToDelayedList(k, Delay[t])
  BY DEF FallsAsleep
<1>4. t \in App
  BY <1>1, <1>2, <1>3 DEF Places, Task
<1>5. t \in E \ AsleepIn(k) /\ t # "idle" /\ uxPriority(t) = 4 /\ 4 \in Priorities
  BY <1>1, <1>2, <1>3, <1>4, Prio, Constants DEF Sleeping, ExistIn
<1>6. Head(k.pxReadyTasksLists[4]) = t
  BY <1>2, <1>5 DEF Runs
<1>7. Slept(k, k2, t) /\ Good(k2, s, u, w2, c)
  BY GoodSleep
<1> HIDE DEF E
<1>8. LeftIn(k2) = [LeftIn(k) EXCEPT ![t] = Delay[t]]
  <2>1. Lasts(k, LeftIn(k))
    BY <1>1, LeftLasts
  <2>2. Lasts(k2, [LeftIn(k) EXCEPT ![t] = Delay[t]])
    BY <1>1, <1>7, <2>1, SleptLeft
  <2>3. Lasts(k2, LeftIn(k2))
    <3>1. GoodKernel(k2, ExistIn(w2))
      BY <1>7, GoodFacts
    <3> QED
      BY <3>1, LeftLasts
  <2> QED
    BY <2>2, <2>3, LastsOnce
<1>9. k2.pxCurrentTCB = t /\ AsleepIn(k2) = AsleepIn(k) \cup {t}
  <2>1. PICK n \in Nat : n = Delay[t] /\ n > 0 /\ n < portMAX_DELAY
    BY <1>4, Constants
  <2>2. k2 = prvAddCurrentTaskToDelayedList(k, n)
    BY <1>3, <2>1
  <2>3. Head(k.pxReadyTasksLists[uxPriority(t)]) = t
    BY <1>5, <1>6
  <2> QED
    BY <1>1, <1>4, <1>5, <2>1, <2>2, <2>3, SleepGood
<1>10. k2.pxReadyTasksLists[4] = uxListRemove(k.pxReadyTasksLists[4], t)
  <2> DEFINE r == RemoveFromReadyList(k, t)
  <2>1. k \in KernelType
    BY <1>1 DEF GoodKernel
  <2>2. r \in KernelType
    <3> HIDE DEF r
    <3>1. t \in E \ AsleepIn(k) /\ Head(k.pxReadyTasksLists[uxPriority(t)]) = t
          /\ r = RemoveFromReadyList(k, t)
      BY <1>5, <1>6 DEF r
    <3> QED
      BY <1>1, <3>1, RemoveIs
  <2>3. r.pxReadyTasksLists[4] = uxListRemove(k.pxReadyTasksLists[4], t)
    BY <1>5, <2>1 DEF RemoveFromReadyList, KernelType
  <2>4. \E d, o, v : k2 = [r EXCEPT !.pxOverflowDelayedTaskList = o]
                     \/ k2 = [r EXCEPT !.pxDelayedTaskList = d, !.xNextTaskUnblockTime = v]
    BY <1>3 DEF prvAddCurrentTaskToDelayedList
  <2> HIDE DEF r
  <2>5. k2.pxReadyTasksLists = r.pxReadyTasksLists
    BY <2>2, <2>4 DEF KernelType
  <2> QED
    BY <2>3, <2>5
<1> QED
  BY <1>3, <1>4, <1>5, <1>6, <1>8, <1>9, <1>10

-----------------------------------------------------------------------------
\* A task that has to resume the scheduler sleeps, and monitor does not sleep before it
\* has called vTaskDelay again.
Settled(k, w) ==
  /\ w[k.pxCurrentTCB] = "resume" => k.pxCurrentTCB \in AsleepIn(k)
  /\ "monitor" \in AsleepIn(k) => w["monitor"] # "call"

\* Every step keeps that.
LEMMA NextSettled ==
  ASSUME IInv, Settled(kernel, pc), Next
  PROVE  Settled(kernel', pc')
<1> DEFINE E == ExistIn(pc)
           c == kernel.pxCurrentTCB
           P == Settled(kernel', pc')
<1>1. Good(kernel, uxSchedulerSuspended, uxPendedTicks, pc, created)
  BY DEF IInv
<1>2. /\ E \in SUBSET Task /\ "idle" \in E /\ GoodKernel(kernel, E)
      /\ c \in Task /\ uxPendedTicks \in Nat /\ pc \in [Task -> Where]
  BY <1>1, GoodFacts
<1>3. Places(pc, created) /\ Sleeping(kernel, pc) /\ AsleepIn(kernel) \subseteq E
  BY <1>1, <1>2 DEF Good, GoodKernel
<1>4. /\ c = kernel.pxCurrentTCB /\ "monitor" \in App /\ "monitor" \in Task
      /\ "monitor" \notin {"InitTask", "idle"}
  BY Constants, KernelAssumption
<1>5. ASSUME uxSchedulerSuspended' = FALSE
      PROVE  pc'[kernel'.pxCurrentTCB] # "resume"
  <2>1. Good(kernel', uxSchedulerSuspended', uxPendedTicks', pc', created')
    BY NextGood DEF IInv
  <2> QED
    BY <1>5, <2>1 DEF Good, Running, Suspending
<1>6. uxSchedulerSuspended <=> pc[c] \in Suspending
  BY <1>1 DEF Good, Running
<1>7. /\ pc[c] = "resume" => c \in AsleepIn(kernel)
      /\ "monitor" \in AsleepIn(kernel) => pc["monitor"] # "call"
  BY DEF Settled
<1> HIDE DEF E, c
<1>8. ASSUME uxSchedulerSuspended' = FALSE, AsleepIn(kernel') \subseteq AsleepIn(kernel),
             pc'["monitor"] # "call" \/ pc'["monitor"] = pc["monitor"]
      PROVE  P
  BY <1>5, <1>7, <1>8 DEF Settled
<1>9. ASSUME kernel' = kernel, pc'[c] # "resume",
             pc'["monitor"] # "call" \/ pc'["monitor"] = pc["monitor"]
      PROVE  P
  BY <1>4, <1>7, <1>9 DEF Settled
<1>10. CASE xPortSysTickHandler
  <2>1. CASE uxSchedulerSuspended
    <3>1. kernel' = kernel /\ pc' = pc
      BY <1>10, <2>1 DEF xPortSysTickHandler, xTaskIncrementTick
    <3> QED
      BY <3>1 DEF Settled
  <2>2. CASE ~uxSchedulerSuspended
    <3>1. PICK k1, s : /\ k1 = IncrementTick(kernel) /\ s = xSwitchRequired(kernel, k1)
                       /\ kernel' = IF s THEN vTaskSwitchContext(k1) ELSE k1
      BY <1>10, <2>2 DEF xPortSysTickHandler, xTaskIncrementTick
    <3>2. Ticked(E, kernel, 1, s, k1, kernel')
      BY <1>2, <3>1, TickTicked
    <3>3. 1 \in Nat
      OBVIOUS
    <3>4. AsleepIn(kernel') \subseteq AsleepIn(kernel)
      BY ONLY <1>2, <3>2, <3>3, TickedSleepers
    <3>5. uxSchedulerSuspended' = FALSE /\ pc' = pc
      BY <1>10, <1>1, <2>2, GoodFacts DEF xPortSysTickHandler
    <3> QED
      BY <1>8, <3>4, <3>5
  <2> QED
    BY <2>1, <2>2
<1>11. CASE vTaskDelay
  <2>1. kernel' = kernel /\ pc' = [pc EXCEPT ![c] = "delay"]
    BY <1>11 DEF vTaskDelay, Step, Current, c
  <2> QED
    BY <1>2, <1>4, <1>9, <2>1
<1>12. CASE AddToDelayedList
  <2>1. /\ pc[c] = "delay" /\ pc' = [pc EXCEPT ![c] = "resume"]
        /\ kernel' = prvAddCurrentTaskToDelayedList(kernel, Delay[c])
    BY <1>12 DEF AddToDelayedList, Step, Current, c
  <2>2. Moves(pc, c, "resume", pc')
    BY <1>2, <2>1, ExceptMoves DEF Where
  <2>3. FallsAsleep(kernel, kernel', pc, pc')
    BY <2>1, <2>2 DEF FallsAsleep, c
  <2>4. kernel'.pxCurrentTCB = c /\ AsleepIn(kernel') = AsleepIn(kernel) \cup {c}
    BY <1>1, <1>4, <2>3, SleepIs
  <2>5. pc'["monitor"] = IF c = "monitor" THEN "resume" ELSE pc["monitor"]
    BY <1>2, <1>4, <2>1
  <2> QED
    BY <1>7, <2>4, <2>5 DEF Settled
<1>13. CASE xTaskResumeAll
  <2>1. PICK f, r : Resumed(f, r)
    BY <1>13, ResumedExists
  <2>2. /\ Unwound(kernel, uxPendedTicks, f)
        /\ r = \E n \in 1..uxPendedTicks : xSwitchRequired(f[n - 1], f[n])
        /\ kernel' = IF r THEN vTaskSwitchContext(f[uxPendedTicks]) ELSE f[uxPendedTicks]
        /\ uxSchedulerSuspended' = FALSE
        /\ Moves(pc, c, ResumeTo(c, pc[c], r), pc') /\ pc[c] \in {"resume", "heap"}
    BY <2>1 DEF Resumed, c
  <2>3. Ticked(E, kernel, uxPendedTicks, r, f[uxPendedTicks], kernel')
    BY <1>2, <2>2, ResumeTicked
  <2>4. AsleepIn(kernel') \subseteq AsleepIn(kernel)
    BY ONLY <1>2, <2>3, TickedSleepers
  <2>5. pc'["monitor"] # "call" \/ pc'["monitor"] = pc["monitor"]
    <3>1. CASE c = "monitor"
      <4>1. pc["monitor"] = "resume"
        BY <1>3, <1>4, <2>2, <3>1 DEF Places, Moving
      <4>2. ResumeTo(c, pc[c], r) # "call"
        BY <3>1, <4>1 DEF ResumeTo
      <4> QED
        BY <1>4, <2>2, <3>1, <4>2 DEF Moves
    <3>2. CASE c # "monitor"
      BY <1>4, <2>2, <3>2 DEF Moves
    <3> QED
      BY <3>1, <3>2
  <2> QED
    BY <1>8, <2>2, <2>4, <2>5
<1>14. CASE portYIELD
  <2>1. /\ pc[c] = "yield" /\ kernel' = vTaskSwitchContext(kernel)
        /\ pc' = [pc EXCEPT ![c] = AfterDelay] /\ UNCHANGED uxSchedulerSuspended
        /\ (c = "monitor" => AfterDelay = "work")
    BY <1>14 DEF portYIELD, Step, Current, c, AfterDelay
  <2>2. uxSchedulerSuspended' = FALSE
    <3>1. ~uxSchedulerSuspended
      BY <1>6, <2>1 DEF Suspending
    <3> QED
      BY <1>1, <2>1, <3>1, GoodFacts
  <2>3. SameLists(kernel, kernel')
    BY <1>2, <2>1, SwitchGood
  <2>4. AsleepIn(kernel') = AsleepIn(kernel)
    BY <2>3, SameSleepers
  <2>5. pc'["monitor"] # "call" \/ pc'["monitor"] = pc["monitor"]
    BY <1>2, <1>4, <2>1
  <2> QED
    BY <1>8, <2>2, <2>4, <2>5
<1>15. CASE HeapCall
  <2>1. /\ pc[Current] = "call" /\ kernel' = kernel
        /\ \/ /\ Current = "InitTask" /\ pc' = [pc EXCEPT !["InitTask"] = "heap"]
           \/ /\ Current = "idle"
              /\ pc' = [pc EXCEPT !["idle"] = "heap", !["InitTask"] = "freed"]
    BY <1>15 DEF HeapCall
  <2>2. pc'[c] = "heap" /\ pc'["monitor"] = pc["monitor"]
    BY <1>2, <1>4, <2>1, Constants DEF Current, c
  <2> QED
    BY <1>9, <2>1, <2>2
<1>16. CASE xTaskCreate
  <2>1. PICK t, k1 : /\ t = AppTasks[created + 1] /\ k1 = prvAddTaskToReadyList(kernel, t)
                     /\ pc["InitTask"] = "create" /\ c = "InitTask"
                     /\ pc' = [pc EXCEPT !["InitTask"] = "call", ![t] = "call"]
                     /\ kernel' = IF uxPriority("InitTask") < uxPriority(t)
                                  THEN vTaskSwitchContext(k1) ELSE k1
                     /\ UNCHANGED uxSchedulerSuspended
    BY <1>16 DEF xTaskCreate, Current, c
  <2>2. SameLists(kernel, kernel')
    BY <1>1, <2>1, GoodCreate DEF c
  <2>3. AsleepIn(kernel') = AsleepIn(kernel)
    BY <2>2, SameSleepers
  <2>4. uxSchedulerSuspended' = FALSE
    <3>1. ~uxSchedulerSuspended
      BY <1>6, <2>1 DEF Suspending
    <3> QED
      BY <1>1, <2>1, <3>1, GoodFacts
  <2>5. CASE t = "monitor"
    <3>1. pc["monitor"] = "none"
      <4>1. created + 1 \in 1..Len(AppTasks) /\ created + 1 > created
        <5>1. created < Len(AppTasks) /\ created \in 0..Len(AppTasks) /\ Len(AppTasks) \in Nat
          BY <1>1, <1>3, <2>1, GoodFacts DEF Places
        <5> QED
          BY <5>1
      <4> QED
        BY <1>3, <2>1, <2>5, <4>1 DEF Places
    <3>2. "monitor" \notin AsleepIn(kernel')
      BY <1>3, <2>3, <3>1 DEF E, ExistIn
    <3> QED
      BY <1>5, <2>4, <3>2 DEF Settled
  <2>6. CASE t # "monitor"
    <3>1. pc'["monitor"] = pc["monitor"]
      BY <1>2, <1>4, <2>1, <2>6
    <3> QED
      BY <1>8, <2>3, <2>4, <3>1
  <2> QED
    BY <2>5, <2>6
<1>17. CASE vTaskDelete
  <2>1. /\ c = "InitTask" /\ pc["InitTask"] = "call"
        /\ pc' = [pc EXCEPT !["InitTask"] = "deleted"]
        /\ kernel' = RemoveFromReadyList(kernel, "InitTask") /\ UNCHANGED uxSchedulerSuspended
    BY <1>17 DEF vTaskDelete, Step, Current, c
  <2>2. SameLists(kernel, kernel')
    BY <1>1, <2>1, GoodDelete DEF c
  <2>3. AsleepIn(kernel') = AsleepIn(kernel)
    BY <2>2, SameSleepers
  <2>4. uxSchedulerSuspended' = FALSE
    <3>1. ~uxSchedulerSuspended
      BY <1>6, <2>1 DEF Suspending
    <3> QED
      BY <1>1, <2>1, <3>1, GoodFacts
  <2>5. pc'["monitor"] = pc["monitor"]
    BY <1>2, <1>4, <2>1
  <2> QED
    BY <1>8, <2>3, <2>4, <2>5
<1>18. CASE DeletedYields \/ IdleYields
  <2>1. /\ pc[c] \in {"deleted", "call"} /\ kernel' = vTaskSwitchContext(kernel)
        /\ UNCHANGED <<uxSchedulerSuspended, pc>>
    BY <1>18 DEF DeletedYields, IdleYields, Current, c
  <2>2. uxSchedulerSuspended' = FALSE
    <3>1. ~uxSchedulerSuspended
      BY <1>6, <2>1 DEF Suspending
    <3> QED
      BY <1>1, <2>1, <3>1, GoodFacts
  <2>3. SameLists(kernel, kernel')
    BY <1>2, <2>1, SwitchGood
  <2>4. AsleepIn(kernel') = AsleepIn(kernel)
    BY <2>3, SameSleepers
  <2> QED
    BY <1>8, <2>1, <2>2, <2>4
<1>19. CASE IWDG_Feed
  <2>1. /\ c = "monitor" /\ pc[c] = "work" /\ kernel' = kernel
        /\ pc' = [pc EXCEPT ![c] = "call"]
    BY <1>19 DEF IWDG_Feed, Step, Current, c
  <2>2. "monitor" \notin AsleepIn(kernel)
    BY <1>3, <2>1 DEF Sleeping, c
  <2>3. pc'[c] = "call"
    BY <1>2, <2>1
  <2> QED
    BY <2>1, <2>2, <2>3 DEF Settled, c
<1> QED
  BY <1>10, <1>11, <1>12, <1>13, <1>14, <1>15, <1>16, <1>17, <1>18, <1>19 DEF Next

-----------------------------------------------------------------------------
\* What a step takes from what is left, R before it and R2 after it: a tick takes one,
\* or costs no more than a round if it comes while monitor runs.
Spends(D, R, R2) ==
  \/ dog' <= dog + 1 /\ hits' = hits /\ R2 + 1 <= R
  \/ /\ dog' <= dog + 1 /\ hits < MaxHits /\ hits' = hits + 1
     /\ R2 <= R + Round(D)
  \/ dog' = dog /\ hits' = hits /\ R2 <= R
  \/ dog' = dog /\ hits' = 0 /\ R2 + Rounds(MaxHits, D) <= R
  \/ dog' = 0 /\ hits' = hits /\ R2 <= After("call", D)

\* What is left counts down with the ticks that are pended, but while monitor runs.
LEMMA RestCounts ==
  ASSUME NEW D \in Nat, NEW k, NEW s, NEW u, NEW w, NEW c, Good(k, s, u, w, c),
         w["monitor"] # "none"
  PROVE  /\ \/ /\ k.pxCurrentTCB = "monitor"
               /\ \E a \in Nat : \A v \in Nat : Rest(k, v, w, D) = a
            \/ \E a \in Nat : \A v \in Nat : Rest(k, v, w, D) = a + (MaxPended - v)
         /\ u \in Nat /\ u <= MaxPended /\ MaxPended \in Nat
         /\ Rest(k, u, w, D) \in Nat
<1> DEFINE E == ExistIn(w)
           t == k.pxCurrentTCB
           at == w["monitor"]
           P == \/ /\ k.pxCurrentTCB = "monitor"
                   /\ \E a \in Nat : \A v \in Nat : Rest(k, v, w, D) = a
                \/ \E a \in Nat : \A v \in Nat : Rest(k, v, w, D) = a + (MaxPended - v)
<1>1. /\ E \in SUBSET Task /\ "idle" \in E /\ GoodKernel(k, E) /\ u \in Nat
      /\ "monitor" \in App /\ "monitor" \in Task /\ MaxPended \in Nat
  BY GoodFacts, Constants, KernelAssumption
<1>2. u <= MaxPended /\ Runs(k, E)
  BY <1>1 DEF Good, Running
<1>3. "monitor" \in E
  BY <1>1 DEF E, ExistIn, Good, Places, Moving
<1> HIDE DEF E
<1>4. LeftIn(k) \in [App -> Nat]
  BY <1>1, LeftLasts DEF Lasts
<1>5. Round(D) \in Nat /\ After(at, D) \in Nat
  BY RoundTypes, AfterType
<1>6. SUFFICES P
  BY <1>1, <1>2
<1>7. CASE "monitor" \in AsleepIn(k)
  <2> DEFINE x == IF at = "yield" /\ t # "monitor" THEN Round(D) ELSE 0
             L == LeftIn(k)["monitor"]
             a == L + Round(D) + x
  <2>1. x \in Nat /\ L \in Nat
    BY <1>1, <1>4, <1>5
  <2>2. \A v \in Nat : Rest(k, v, w, D) = L + (MaxPended - v) + Round(D) + x
    BY <1>7 DEF Rest
  <2> HIDE DEF x, L
  <2>3. a \in Nat /\ \A v \in Nat : Rest(k, v, w, D) = a + (MaxPended - v)
    BY <1>1, <1>5, <2>1, <2>2
  <2> HIDE DEF a
  <2> QED
    BY <2>3
<1>8. CASE "monitor" \notin AsleepIn(k) /\ t = "monitor"
  <2>1. \A v \in Nat : Rest(k, v, w, D) = 0 + After(at, D)
    BY <1>8 DEF Rest, Wait
  <2>2. \A v \in Nat : Rest(k, v, w, D) = After(at, D)
    BY <1>5, <2>1
  <2> QED
    BY <1>5, <1>8, <2>2
<1>9. CASE "monitor" \notin AsleepIn(k) /\ t # "monitor"
  <2> DEFINE y == IF t \in AsleepIn(k) THEN LeftIn(k)[t] ELSE D
             A == (Dist(k) - 1) * Share(D)
             x == After(at, D)
             a == A + y + x
  <2>1. A \in Nat
    <3> DEFINE S == ReadyIn(k, E, 4)
               r == k.pxReadyTasksLists[4]
    <3>1. S \in SUBSET App /\ IsRing(r, S) /\ "monitor" \in S
      BY <1>1, <1>3, <1>9, AppRing
    <3> HIDE DEF S, r
    <3>2. DistIn(r) \in 1..(2 * Len(AppTasks) - 1)
      BY <3>1, DistBounds
    <3>3. Share(D) \in Nat /\ Len(AppTasks) \in Nat
      BY RoundTypes
    <3>4. Dist(k) - 1 \in Nat
      BY <3>2, <3>3 DEF Dist, r
    <3> QED
      BY <3>3, <3>4, Products
  <2>2. y \in Nat
    BY <1>4 DEF AsleepIn
  <2>3. \A v \in Nat : Rest(k, v, w, D) = A + (MaxPended - v) + y + x
    BY <1>9 DEF Rest, Wait
  <2> HIDE DEF A, y
  <2>4. x \in Nat
    BY <1>5
  <2> HIDE DEF x
  <2>5. a \in Nat /\ \A v \in Nat : Rest(k, v, w, D) = a + (MaxPended - v)
    BY <1>1, <2>1, <2>2, <2>3, <2>4
  <2> HIDE DEF a
  <2> QED
    BY <2>5
<1> QED
  BY <1>7, <1>8, <1>9

\* Nothing changes when monitor calls vTaskDelay or another task moves.
LEMMA RestStays ==
  ASSUME NEW D, NEW k, NEW u, NEW w, NEW w2,
         \/ w2["monitor"] = w["monitor"]
         \/ w["monitor"] = "call" /\ w2["monitor"] = "delay"
  PROVE  Rest(k, u, w2, D) = Rest(k, u, w, D)
<1>1. After(w2["monitor"], D) = After(w["monitor"], D)
  BY DEF After
<1> QED
  BY <1>1 DEF Rest

\* A step of InitTask or idle, which run only while monitor sleeps.
LEMMA SystemRest ==
  ASSUME NEW D \in Nat, NEW E \in SUBSET Task, "idle" \in E, NEW k, Runs(k, E),
         "monitor" \in E, k.pxCurrentTCB \in {"InitTask", "idle"},
         NEW E2, NEW k2, GoodKernel(k2, E2), SameLists(k, k2),
         NEW u \in 0..MaxPended, NEW w, NEW w2, w2["monitor"] = w["monitor"]
  PROVE  Rest(k2, u, w2, D) <= Rest(k, u, w, D)
<1>1. /\ GoodKernel(k, E) /\ k.pxCurrentTCB # "monitor" /\ k.pxCurrentTCB \notin App
      /\ "monitor" \in App /\ MaxPended \in Nat /\ u \in Nat /\ u <= MaxPended
  BY Constants, KernelAssumption DEF Runs
<1>2. "monitor" \in AsleepIn(k)
  BY <1>1, AppRuns
<1>3. AsleepIn(k2) = AsleepIn(k)
  BY SameSleepers
<1>4. LeftIn(k2) = LeftIn(k) /\ LeftIn(k)["monitor"] \in Nat
  <2>1. Lasts(k, LeftIn(k)) /\ Lasts(k2, LeftIn(k2))
    BY <1>1, LeftLasts
  <2>2. Lasts(k2, LeftIn(k))
    BY <2>1, SameLeft
  <2>3. LeftIn(k2) = LeftIn(k)
    BY <2>1, <2>2, LastsOnce
  <2> QED
    BY <1>1, <2>1, <2>3 DEF Lasts
<1>5. Round(D) \in Nat
  BY RoundTypes
<1> DEFINE L == LeftIn(k)["monitor"] + (MaxPended - u) + Round(D)
           at == w["monitor"]
<1>6. L \in Nat
  BY <1>1, <1>4, <1>5
<1>7. Rest(k, u, w, D) = L + IF at = "yield" THEN Round(D) ELSE 0
  BY <1>1, <1>2 DEF Rest
<1>8. Rest(k2, u, w2, D) = L + IF at = "yield" /\ k2.pxCurrentTCB # "monitor"
                               THEN Round(D) ELSE 0
  BY <1>2, <1>3, <1>4 DEF Rest
<1> HIDE DEF L, at
<1> QED
  BY <1>5, <1>6, <1>7, <1>8

\* Another task goes to sleep while monitor waits or sleeps.
LEMMA SleptRest ==
  ASSUME NEW D, Longest(D), NEW k, NEW s, NEW u, NEW w, NEW c, Good(k, s, u, w, c),
         NEW k2, NEW w2, FallsAsleep(k, k2, w, w2), w["monitor"] # "none"
  PROVE  IF k.pxCurrentTCB = "monitor"
         THEN "monitor" \notin AsleepIn(k)
              => Rest(k2, u, w2, D) + Rounds(MaxHits, D) <= Rest(k, u, w, D)
         ELSE Rest(k2, u, w2, D) <= Rest(k, u, w, D)
<1> DEFINE E == ExistIn(w)
           t == k.pxCurrentTCB
<1>1. /\ E \in SUBSET Task /\ "idle" \in E /\ GoodKernel(k, E) /\ u \in Nat
      /\ w \in [Task -> Where]
  BY GoodFacts
<1>2. /\ t \in App /\ k2.pxCurrentTCB = t
      /\ t \notin AsleepIn(k) /\ AsleepIn(k2) = AsleepIn(k) \cup {t}
      /\ LeftIn(k2) = [LeftIn(k) EXCEPT ![t] = Delay[t]]
      /\ Head(k.pxReadyTasksLists[4]) = t
      /\ k2.pxReadyTasksLists[4] = uxListRemove(k.pxReadyTasksLists[4], t)
      /\ Moves(w, t, "resume", w2) /\ w[t] = "delay"
  BY SleepIs
<1>3. "monitor" \in App /\ "monitor" \in Task /\ MaxPended \in Nat /\ D \in Nat
  BY Constants, KernelAssumption DEF Longest
<1>4. u <= MaxPended
  BY <1>3 DEF Good, Running
<1>5. LeftIn(k) \in [App -> Nat]
  BY <1>1, LeftLasts DEF Lasts
<1>6. "monitor" \in E
  BY <1>3 DEF E, ExistIn, Good, Places, Moving
<1> HIDE DEF E, t
<1>7. Round(D) \in Nat /\ Delay["monitor"] \in Nat /\ Rounds(MaxHits, D) \in Nat
      /\ \A x : After(x, D) \in Nat
  BY <1>3, RoundTypes, AfterType, KernelAssumption
<1>8. CASE t = "monitor"
  <2>1. Rest(k, u, w, D) = 0 + After("delay", D)
    BY <1>2, <1>8 DEF Rest, Wait, t
  <2>2. After("delay", D) = Delay["monitor"] + MaxPended + Round(D) + Rounds(MaxHits, D)
    BY DEF After
  <2>3. w2["monitor"] = "resume" /\ LeftIn(k2)["monitor"] = Delay["monitor"]
    BY <1>2, <1>3, <1>5, <1>8 DEF Moves
  <2>4. Rest(k2, u, w2, D) = Delay["monitor"] + (MaxPended - u) + Round(D) + 0
    BY <1>2, <1>8, <2>3 DEF Rest
  <2>5. Rest(k2, u, w2, D) + Rounds(MaxHits, D) <= Rest(k, u, w, D)
    BY <1>1, <1>3, <1>4, <1>7, <2>1, <2>2, <2>4
  <2> QED
    BY <1>8, <2>5 DEF t
<1>9. CASE t # "monitor" /\ "monitor" \in AsleepIn(k)
  <2>1. w2["monitor"] = w["monitor"] /\ LeftIn(k2)["monitor"] = LeftIn(k)["monitor"]
    BY <1>2, <1>3, <1>5, <1>9 DEF Moves
  <2>2. Rest(k2, u, w2, D) = Rest(k, u, w, D)
    BY <1>2, <1>9, <2>1 DEF Rest, t
  <2>3. Rest(k, u, w, D) \in Nat
    <3> DEFINE L == LeftIn(k)["monitor"] + (MaxPended - u) + Round(D)
               x == IF w["monitor"] = "yield" /\ t # "monitor" THEN Round(D) ELSE 0
    <3>1. L \in Nat /\ x \in Nat
      BY <1>1, <1>3, <1>4, <1>5, <1>7
    <3>2. Rest(k, u, w, D) = L + x
      BY <1>9 DEF Rest, t
    <3> HIDE DEF L, x
    <3> QED
      BY <3>1, <3>2
  <2> QED
    BY <1>9, <2>2, <2>3 DEF t
<1>10. CASE t # "monitor" /\ "monitor" \notin AsleepIn(k)
  <2> DEFINE S == ReadyIn(k, E, 4)
             r == k.pxReadyTasksLists[4]
             q == k2.pxReadyTasksLists[4]
             A == (Dist(k) - 1) * Share(D)
  <2>1. S \in SUBSET App /\ IsRing(r, S) /\ "monitor" \in S /\ t \in S
    <3>1. S \in SUBSET App /\ IsRing(r, S)
      BY <1>1, AppRing
    <3>2. t \in E
      BY <1>2, Constants DEF E, ExistIn
    <3> QED
      BY <1>1, <1>2, <1>3, <1>6, <1>10, <3>1, <3>2, AppRing
  <2>2. Head(r) = t /\ q = uxListRemove(r, t)
    BY <1>2
  <2>3. DistIn(q) = DistIn(r) /\ DistIn(r) \in 1..(2 * Len(AppTasks) - 1)
    <3> HIDE DEF S, r, q
    <3>1. DistIn(q) = DistIn(r)
      BY <1>10, <2>1, <2>2, DistKept
    <3> QED
      BY <2>1, <3>1, DistBounds
  <2>4. Dist(k2) = Dist(k)
    BY <2>3 DEF Dist
  <2>5. A \in Nat
    <3>1. Share(D) \in Nat /\ Len(AppTasks) \in Nat
      BY <1>3, RoundTypes
    <3>2. Dist(k) - 1 \in Nat
      BY <2>3, <3>1 DEF Dist
    <3> QED
      BY <3>1, <3>2, Products
  <2> HIDE DEF A
  <2>6. w2["monitor"] = w["monitor"] /\ LeftIn(k2)[t] = Delay[t]
    BY <1>2, <1>3, <1>5, <1>10 DEF Moves
  <2>7. Rest(k, u, w, D) = A + (MaxPended - u) + D + After(w["monitor"], D)
    BY <1>2, <1>10 DEF Rest, Wait, A, t
  <2>8. Rest(k2, u, w2, D) = A + (MaxPended - u) + Delay[t] + After(w["monitor"], D)
    BY <1>2, <1>10, <2>4, <2>6 DEF Rest, Wait, A
  <2>9. Delay[t] \in Nat /\ Delay[t] <= D
    BY <1>2, <1>10, Constants DEF Longest
  <2>10. After(w["monitor"], D) \in Nat
    BY <1>7
  <2> QED
    BY <1>1, <1>3, <1>4, <1>10, <2>5, <2>7, <2>8, <2>9, <2>10 DEF t
<1> QED
  BY <1>8, <1>9, <1>10

\* IWDG_Feed, after which the whole delay of monitor and what follows is left.
LEMMA FeedRest ==
  ASSUME NEW D \in Nat, IInv, IWDG_Feed
  PROVE  /\ pc'["monitor"] # "none" /\ dog' = 0 /\ hits' = hits
         /\ Rest(kernel', uxPendedTicks', pc', D) <= After("call", D)
<1>1. Good(kernel, uxSchedulerSuspended, uxPendedTicks, pc, created)
  BY DEF IInv
<1>2. pc \in [Task -> Where] /\ "monitor" \in Task
  BY <1>1, Constants, KernelAssumption, GoodFacts
<1>3. /\ kernel.pxCurrentTCB = "monitor" /\ pc["monitor"] = "work"
      /\ kernel' = kernel /\ dog' = 0 /\ hits' = hits
      /\ pc' = [pc EXCEPT !["monitor"] = "call"]
  BY DEF IWDG_Feed, Step, Current
<1>4. pc'["monitor"] = "call"
  BY <1>2, <1>3
<1>5. "monitor" \notin AsleepIn(kernel)
  <2>1. Sleeping(kernel, pc) /\ "monitor" \in App
    BY <1>1, Constants, KernelAssumption DEF Good
  <2> QED
    BY <1>3, <2>1 DEF Sleeping
<1>6. Rest(kernel', uxPendedTicks', pc', D) = 0 + After("call", D)
  BY <1>3, <1>4, <1>5 DEF Rest, Wait
<1>7. After("call", D) \in Nat
  BY AfterType
<1> QED
  BY <1>3, <1>4, <1>6, <1>7

\* Every step takes what Spends says from what is left.
LEMMA NextRest ==
  ASSUME NEW D, Longest(D), IInv, Settled(kernel, pc), Next, pc["monitor"] # "none"
  PROVE  /\ pc'["monitor"] # "none"
         /\ Spends(D, Rest(kernel, uxPendedTicks, pc, D), Rest(kernel', uxPendedTicks', pc', D))
<1> DEFINE E == ExistIn(pc)
           c == kernel.pxCurrentTCB
           u == uxPendedTicks
           R == Rest(kernel, uxPendedTicks, pc, D)
           R2 == Rest(kernel', uxPendedTicks', pc', D)
           P == pc'["monitor"] # "none" /\ Spends(D, R, R2)
<1>1. Good(kernel, uxSchedulerSuspended, u, pc, created) /\ D \in Nat
  BY DEF IInv, Longest
<1>2. /\ E \in SUBSET Task /\ "idle" \in E /\ GoodKernel(kernel, E)
      /\ c \in Task /\ pc \in [Task -> Where] /\ uxSchedulerSuspended \in BOOLEAN
  BY <1>1, GoodFacts
<1>3. Places(pc, created) /\ Sleeping(kernel, pc) /\ Runs(kernel, E)
  BY <1>1 DEF Good
<1>4. /\ c = kernel.pxCurrentTCB /\ "monitor" \in App /\ "monitor" \in Task
      /\ "monitor" \notin {"InitTask", "idle"} /\ MaxPended \in Nat
      /\ dog \in Nat /\ hits \in Nat /\ MaxHits \in Nat
  BY Constants, KernelAssumption DEF IInv
<1>5. "monitor" \in E
  BY <1>3, <1>4 DEF E, ExistIn, Places, Moving
<1>6. uxSchedulerSuspended <=> pc[c] \in Suspending
  BY <1>1 DEF Good, Running
<1>7. /\ u \in Nat /\ u <= MaxPended /\ u \in 0..MaxPended /\ (~uxSchedulerSuspended => u = 0)
  BY <1>1, <1>2, <1>4, GoodFacts DEF Good, Running
<1>8. /\ pc[c] = "resume" => c \in AsleepIn(kernel)
      /\ "monitor" \in AsleepIn(kernel) =>
           /\ pc["monitor"] \in {"resume", "yield", "work"}
           /\ c = "monitor" => pc["monitor"] \in {"resume", "yield"}
  BY <1>3, <1>4 DEF Settled, Sleeping
<1>9. R \in Nat /\ Round(D) \in Nat
  BY <1>1, RestCounts, RoundTypes
<1> SUFFICES P
  OBVIOUS
<1> HIDE DEF E, c, u, R, R2
<1>10. CASE xPortSysTickHandler
  <2>1. /\ pc' = pc /\ u < MaxPended
        /\ dog' = IF dog < Timeout THEN dog + 1 ELSE dog
        /\ hits' = IF c = "monitor" THEN hits + 1 ELSE hits
        /\ c = "monitor" => hits < MaxHits
    BY <1>10 DEF xPortSysTickHandler, Current, c, u
  <2>2. dog' <= dog + 1
    BY <1>4, <2>1
  <2>3. CASE uxSchedulerSuspended
    <3>1. kernel' = kernel /\ uxPendedTicks' = u + 1
      BY <1>10, <2>3 DEF xPortSysTickHandler, xTaskIncrementTick, u
    <3>2. R2 = Rest(kernel, u + 1, pc, D)
      BY <2>1, <3>1 DEF R2
    <3>3. R = Rest(kernel, u, pc, D) /\ u + 1 \in Nat
      BY <1>7 DEF R, u
    <3>4. \/ c = "monitor" /\ \E a \in Nat : \A v \in Nat : Rest(kernel, v, pc, D) = a
          \/ \E a \in Nat : \A v \in Nat : Rest(kernel, v, pc, D) = a + (MaxPended - v)
      BY <1>1, RestCounts DEF c
    <3>5. CASE c = "monitor" /\ \E a \in Nat : \A v \in Nat : Rest(kernel, v, pc, D) = a
      <4>1. R2 = R
        BY <1>7, <3>2, <3>3, <3>5
      <4> QED
        BY <1>9, <2>1, <2>2, <3>5, <4>1 DEF Spends
    <3>6. CASE \E a \in Nat : \A v \in Nat : Rest(kernel, v, pc, D) = a + (MaxPended - v)
      <4>1. R2 + 1 = R /\ R2 \in Nat
        BY <1>4, <1>7, <2>1, <3>2, <3>3, <3>6
      <4>2. R2 <= R + Round(D) /\ R2 + 1 <= R
        BY <1>9, <4>1
      <4> QED
        BY <2>1, <2>2, <4>2 DEF Spends
    <3> QED
      BY <3>4, <3>5, <3>6
  <2>4. CASE ~uxSchedulerSuspended
    <3>1. PICK k1, s : /\ k1 = IncrementTick(kernel) /\ s = xSwitchRequired(kernel, k1)
                       /\ kernel' = IF s THEN vTaskSwitchContext(k1) ELSE k1
      BY <1>10, <2>4 DEF xPortSysTickHandler, xTaskIncrementTick
    <3>2. Ticked(E, kernel, 1, s, k1, kernel')
      BY <1>2, <3>1, TickTicked
    <3>3. uxPendedTicks' = 0 /\ u = 0
      BY <1>7, <1>10, <2>4 DEF xPortSysTickHandler, xTaskIncrementTick, u
    <3>4. R = Rest(kernel, u, pc, D) /\ R2 = Rest(kernel', 0, pc', D)
      BY <3>3 DEF R, R2, u
    <3>5. CASE c = "monitor"
      <4>1. 1 \in Nat /\ 1 >= u
        BY <3>3
      <4>2. /\ pc'["monitor"] = pc["monitor"] /\ kernel.pxCurrentTCB = "monitor"
            /\ "monitor" \in AsleepIn(kernel) => pc["monitor"] \in {"resume", "yield"}
        BY <1>8, <2>1, <3>5 DEF c
      <4>3. Rest(kernel', 0, pc', D) <= Rest(kernel, u, pc, D) + Round(D)
        BY ONLY <1>1, <1>2, <1>5, <1>7, <3>2, <4>1, <4>2, MonitorsRest
      <4> QED
        BY <2>1, <2>2, <3>4, <3>5, <4>3 DEF Spends
    <3>6. CASE c # "monitor"
      <4>1. "monitor" \notin AsleepIn(kernel) => s \/ c \in AsleepIn(kernel)
        <5> SUFFICES ASSUME "monitor" \notin AsleepIn(kernel), c \notin AsleepIn(kernel)
                     PROVE  s
          OBVIOUS
        <5>1. c \in App
          BY <1>2, <1>3, <1>5, AppRuns DEF c
        <5>2. c \in E
          BY <1>1, <5>1, Constants DEF E, ExistIn, Good, Running, c
        <5>3. Ready(kernel, "monitor") /\ Ready(kernel, c)
          <6>1. "monitor" \in ReadyIn(kernel, E, 4) /\ c \in ReadyIn(kernel, E, 4)
            BY <1>2, <1>4, <1>5, <5>1, <5>2, AppRing
          <6>2. uxPriority("monitor") = 4 /\ uxPriority(c) = 4
            BY <1>4, <5>1, Prio
          <6>3. Ready(kernel, "monitor")
            BY <1>2, <1>4, <6>1, <6>2, ReadyIs
          <6>4. Ready(kernel, c)
            BY <1>2, <6>1, <6>2, ReadyIs
          <6> QED
            BY <6>3, <6>4
        <5>4. GoodKernel(k1, E) /\ Prolongs(kernel.pxReadyTasksLists[4], k1.pxReadyTasksLists[4])
          BY <3>2 DEF Ticked
        <5>5. xSwitchRequired(kernel, k1)
          BY <1>2, <1>4, <3>6, <5>1, <5>3, <5>4, SliceIsRequired
        <5> QED
          BY <3>1, <5>5
      <4>2. /\ pc'["monitor"] = pc["monitor"] /\ kernel.pxCurrentTCB # "monitor"
            /\ "monitor" \notin AsleepIn(kernel) => s \/ kernel.pxCurrentTCB \in AsleepIn(kernel)
            /\ "monitor" \in AsleepIn(kernel) => pc["monitor"] \notin {"call", "delay"}
            /\ 1 \in Nat /\ 1 \in {u, u + 1}
        BY <1>8, <2>1, <3>3, <3>6, <4>1 DEF c
      <4>3. Rest(kernel', 0, pc', D) + (1 - u) <= Rest(kernel, u, pc, D)
        BY ONLY Longest(D), <1>2, <1>3, <1>5, <1>7, <3>2, <4>2, OthersRest
      <4>4. R2 + 1 <= R
        BY <3>3, <3>4, <4>3
      <4> QED
        BY <2>1, <2>2, <3>6, <4>4 DEF Spends
    <3> QED
      BY <3>5, <3>6
  <2> QED
    BY <1>4, <2>1, <2>3, <2>4
<1>11. ASSUME kernel' = kernel, uxPendedTicks' = u, UNCHANGED dogVars,
              \/ pc'["monitor"] = pc["monitor"]
              \/ pc["monitor"] = "call" /\ pc'["monitor"] = "delay"
       PROVE  P
  <2>1. R2 = R
    BY <1>11, RestStays DEF R, R2, u
  <2>2. R2 <= R /\ pc'["monitor"] # "none"
    BY <1>9, <1>11, <2>1
  <2> QED
    BY <1>11, <2>2 DEF Spends, dogVars
<1>12. CASE vTaskDelay
  <2>1. /\ kernel' = kernel /\ uxPendedTicks' = u /\ UNCHANGED dogVars
        /\ pc[c] = "call" /\ pc' = [pc EXCEPT ![c] = "delay"]
    BY <1>12 DEF vTaskDelay, Step, Current, c, u
  <2>2. \/ pc'["monitor"] = pc["monitor"]
        \/ pc["monitor"] = "call" /\ pc'["monitor"] = "delay"
    BY <1>2, <1>4, <2>1
  <2> QED
    BY <1>11, <2>1, <2>2
<1>13. CASE AddToDelayedList
  <2>1. /\ pc[c] = "delay" /\ pc' = [pc EXCEPT ![c] = "resume"]
        /\ kernel' = prvAddCurrentTaskToDelayedList(kernel, Delay[c])
        /\ hits' = (IF c = "monitor" THEN 0 ELSE hits)
        /\ uxPendedTicks' = u /\ dog' = dog
    BY <1>13 DEF AddToDelayedList, Step, Current, c, u
  <2>2. FallsAsleep(kernel, kernel', pc, pc')
    <3>1. Moves(pc, c, "resume", pc')
      BY <1>2, <2>1, ExceptMoves DEF Where
    <3> QED
      BY <2>1, <3>1 DEF FallsAsleep, c
  <2>3. IF c = "monitor"
        THEN "monitor" \notin AsleepIn(kernel) => R2 + Rounds(MaxHits, D) <= R
        ELSE R2 <= R
    <3>1. IF kernel.pxCurrentTCB = "monitor"
          THEN "monitor" \notin AsleepIn(kernel)
               => Rest(kernel', u, pc', D) + Rounds(MaxHits, D) <= Rest(kernel, u, pc, D)
          ELSE Rest(kernel', u, pc', D) <= Rest(kernel, u, pc, D)
      BY <1>1, <2>2, SleptRest
    <3> QED
      BY <2>1, <3>1 DEF c, R, R2, u
  <2>4. pc'["monitor"] # "none"
    BY <1>2, <1>4, <2>1
  <2>5. c = "monitor" => "monitor" \notin AsleepIn(kernel)
    BY <1>8, <2>1
  <2> QED
    BY <2>1, <2>3, <2>4, <2>5 DEF Spends
<1>14. CASE xTaskResumeAll
  <2>1. PICK f, r : Resumed(f, r)
    BY <1>14, ResumedExists
  <2>2. /\ Unwound(kernel, u, f)
        /\ r = \E n \in 1..u : xSwitchRequired(f[n - 1], f[n])
        /\ kernel' = IF r THEN vTaskSwitchContext(f[u]) ELSE f[u]
        /\ uxPendedTicks' = 0 /\ UNCHANGED dogVars
        /\ Moves(pc, c, ResumeTo(c, pc[c], r), pc') /\ pc[c] \in {"resume", "heap"}
    BY <2>1 DEF Resumed, c, u
  <2>3. Ticked(E, kernel, u, r, f[u], kernel')
    BY <1>2, <1>7, <2>2, ResumeTicked
  <2>4. R = Rest(kernel, u, pc, D) /\ R2 = Rest(kernel', 0, pc', D)
    BY <2>2 DEF R, R2, u
  <2>5. CASE c = "monitor"
    <3>1. pc["monitor"] = "resume"
      BY <1>3, <1>4, <2>2, <2>5 DEF Places, Moving
    <3>2. pc'["monitor"] = IF r THEN "work" ELSE "yield"
      <4>1. ResumeTo(c, pc[c], r) = IF r THEN "work" ELSE "yield"
        BY <2>5, <3>1 DEF ResumeTo
      <4> QED
        BY <1>4, <2>2, <2>5, <4>1 DEF Moves
    <3>3. u >= u /\ kernel.pxCurrentTCB = "monitor" /\ "monitor" \in AsleepIn(kernel)
      BY <1>7, <1>8, <2>5, <3>1 DEF c
    <3>4. Rest(kernel', 0, pc', D) <= Rest(kernel, u, pc, D)
      BY ONLY <1>1, <1>2, <1>5, <1>7, <2>3, <3>1, <3>2, <3>3, MonitorsRest
    <3> QED
      BY <2>2, <2>4, <3>2, <3>4 DEF Spends, dogVars
  <2>6. CASE c # "monitor"
    <3>1. pc'["monitor"] = pc["monitor"]
      BY <1>4, <2>2, <2>6 DEF Moves
    <3>2. "monitor" \notin AsleepIn(kernel) => r \/ c \in AsleepIn(kernel)
      <4> SUFFICES ASSUME "monitor" \notin AsleepIn(kernel)
                   PROVE  c \in AsleepIn(kernel)
        OBVIOUS
      <4>1. c \in App
        BY <1>2, <1>3, <1>5, AppRuns DEF c
      <4>2. pc[c] = "resume"
        BY <1>3, <2>2, <4>1 DEF Places, Moving
      <4> QED
        BY <1>8, <4>2
    <3>3. /\ pc'["monitor"] = pc["monitor"] /\ kernel.pxCurrentTCB # "monitor"
          /\ "monitor" \notin AsleepIn(kernel) => r \/ kernel.pxCurrentTCB \in AsleepIn(kernel)
          /\ "monitor" \in AsleepIn(kernel) => pc["monitor"] \notin {"call", "delay"}
          /\ u \in {u, u + 1}
      BY <1>8, <2>6, <3>1, <3>2 DEF c
    <3>4. Rest(kernel', 0, pc', D) + (u - u) <= Rest(kernel, u, pc, D)
      BY ONLY Longest(D), <1>2, <1>3, <1>5, <1>7, <2>3, <3>3, OthersRest
    <3>5. R2 <= R
      <4>1. R2 \in Nat
        <5>1. Good(kernel', uxSchedulerSuspended', uxPendedTicks', pc', created')
          BY NextGood DEF IInv
        <5> QED
          BY <1>1, <3>1, <5>1, RestCounts DEF R2
      <4> QED
        BY <1>7, <1>9, <2>4, <3>4, <4>1
    <3> QED
      BY <2>2, <3>1, <3>5 DEF Spends, dogVars
  <2> QED
    BY <2>5, <2>6
<1>15. CASE portYIELD
  <2>1. /\ pc[c] = "yield" /\ kernel' = vTaskSwitchContext(kernel)
        /\ pc' = [pc EXCEPT ![c] = AfterDelay] /\ uxPendedTicks' = uxPendedTicks
        /\ UNCHANGED dogVars /\ (c = "monitor" => AfterDelay = "work")
    BY <1>15 DEF portYIELD, Step, Current, c, AfterDelay
  <2>2. u = 0
    BY <1>6, <1>7, <2>1 DEF Suspending
  <2>3. R = Rest(kernel, u, pc, D) /\ R2 = Rest(kernel', 0, pc', D)
    BY <2>1, <2>2 DEF R, R2, u
  <2>4. PICK n \in Nat, s \in BOOLEAN : n = 0 /\ s = TRUE
    OBVIOUS
  <2>5. Ticked(E, kernel, n, s, kernel, kernel')
    BY <1>2, <2>1, <2>4, SwitchTicked
  <2>6. CASE c = "monitor"
    <3>1. /\ pc["monitor"] = "yield" /\ pc'["monitor"] = "work" /\ n >= u
          /\ kernel.pxCurrentTCB = "monitor"
      BY <1>2, <1>4, <2>1, <2>2, <2>4, <2>6 DEF c
    <3>2. Rest(kernel', 0, pc', D) <= Rest(kernel, u, pc, D)
      BY ONLY <1>1, <1>2, <1>5, <1>7, <2>5, <3>1, MonitorsRest
    <3> QED
      BY <2>1, <2>3, <3>1, <3>2 DEF Spends, dogVars
  <2>7. CASE c # "monitor"
    <3>1. /\ pc'["monitor"] = pc["monitor"] /\ kernel.pxCurrentTCB # "monitor"
          /\ "monitor" \notin AsleepIn(kernel) => s \/ kernel.pxCurrentTCB \in AsleepIn(kernel)
          /\ "monitor" \in AsleepIn(kernel) => pc["monitor"] \notin {"call", "delay"}
          /\ n \in {u, u + 1}
      BY <1>2, <1>4, <1>8, <2>1, <2>2, <2>4, <2>7 DEF c
    <3>2. Rest(kernel', 0, pc', D) + (n - u) <= Rest(kernel, u, pc, D)
      BY ONLY Longest(D), <1>2, <1>3, <1>5, <1>7, <2>5, <3>1, OthersRest
    <3>3. R2 \in Nat
      <4>1. Good(kernel', uxSchedulerSuspended', uxPendedTicks', pc', created')
        BY NextGood DEF IInv
      <4> QED
        BY <1>1, <3>1, <4>1, RestCounts DEF R2
    <3>4. R2 <= R
      BY <1>9, <2>2, <2>3, <2>4, <3>2, <3>3
    <3> QED
      BY <2>1, <3>1, <3>4 DEF Spends, dogVars
  <2> QED
    BY <2>6, <2>7
<1>16. CASE HeapCall
  <2>1. /\ kernel' = kernel /\ uxPendedTicks' = u /\ UNCHANGED dogVars
        /\ \/ pc' = [pc EXCEPT !["InitTask"] = "heap"]
           \/ pc' = [pc EXCEPT !["idle"] = "heap", !["InitTask"] = "freed"]
    BY <1>16 DEF HeapCall, u
  <2>2. pc'["monitor"] = pc["monitor"]
    BY <1>2, <1>4, <2>1
  <2> QED
    BY <1>11, <2>1, <2>2
<1>17. ASSUME c \in {"InitTask", "idle"}, SameLists(kernel, kernel'), uxPendedTicks' = u,
              UNCHANGED dogVars, pc'["monitor"] = pc["monitor"]
       PROVE  P
  <2>1. GoodKernel(kernel', ExistIn(pc'))
    BY NextGood, GoodFacts DEF IInv
  <2>2. Rest(kernel', u, pc', D) <= Rest(kernel, u, pc, D)
    BY <1>1, <1>2, <1>3, <1>5, <1>7, <1>17, <2>1, SystemRest DEF c
  <2>3. R2 <= R
    BY <1>17, <2>2 DEF R, R2, u
  <2> QED
    BY <1>17, <2>3 DEF Spends, dogVars
<1>18. CASE xTaskCreate
  <2>1. PICK t, k1 : /\ t = AppTasks[created + 1] /\ k1 = prvAddTaskToReadyList(kernel, t)
                     /\ pc["InitTask"] = "create" /\ c = "InitTask"
                     /\ pc' = [pc EXCEPT !["InitTask"] = "call", ![t] = "call"]
                     /\ kernel' = IF uxPriority("InitTask") < uxPriority(t)
                                  THEN vTaskSwitchContext(k1) ELSE k1
                     /\ uxPendedTicks' = u /\ UNCHANGED dogVars
    BY <1>18 DEF xTaskCreate, Current, c, u
  <2>2. SameLists(kernel, kernel')
    BY <1>1, <2>1, GoodCreate DEF c
  <2>3. t # "monitor"
    <3>1. created + 1 \in 1..Len(AppTasks) /\ created + 1 > created
      <4>1. created < Len(AppTasks) /\ created \in 0..Len(AppTasks) /\ Len(AppTasks) \in Nat
        BY <1>1, <1>3, <2>1, GoodFacts DEF Places
      <4> QED
        BY <4>1
    <3> QED
      BY <1>3, <2>1, <3>1 DEF Places
  <2>4. pc'["monitor"] = pc["monitor"]
    BY <1>2, <1>4, <2>1, <2>3
  <2> QED
    BY <1>17, <2>1, <2>2, <2>4
<1>19. CASE vTaskDelete
  <2>1. /\ c = "InitTask" /\ pc["InitTask"] = "call"
        /\ pc' = [pc EXCEPT !["InitTask"] = "deleted"]
        /\ kernel' = RemoveFromReadyList(kernel, "InitTask")
        /\ uxPendedTicks' = u /\ UNCHANGED dogVars
    BY <1>19 DEF vTaskDelete, Step, Current, c, u
  <2>2. SameLists(kernel, kernel')
    BY <1>1, <2>1, GoodDelete DEF c
  <2>3. pc'["monitor"] = pc["monitor"]
    BY <1>2, <1>4, <2>1
  <2> QED
    BY <1>17, <2>1, <2>2, <2>3
<1>20. CASE DeletedYields \/ IdleYields
  <2>1. /\ c \in {"InitTask", "idle"} /\ kernel' = vTaskSwitchContext(kernel)
        /\ pc' = pc /\ uxPendedTicks' = u /\ UNCHANGED dogVars
    BY <1>20 DEF DeletedYields, IdleYields, Current, c, u
  <2>2. SameLists(kernel, kernel')
    BY <1>2, <2>1, SwitchGood
  <2> QED
    BY <1>17, <2>1, <2>2
<1>21. CASE IWDG_Feed
  <2>1. /\ pc'["monitor"] # "none" /\ dog' = 0 /\ hits' = hits
        /\ R2 <= After("call", D)
    BY <1>1, <1>21, FeedRest DEF R2
  <2> QED
    BY <2>1 DEF Spends
<1> QED
  BY <1>10, <1>12, <1>13, <1>14, <1>15, <1>16, <1>18, <1>19, <1>20, <1>21 DEF Next

-----------------------------------------------------------------------------
\* Once monitor has fed the watchdog, what its counter shows, what is left until
\* it is fed again and a round for every tick that may still come while monitor
\* runs stay below the bound.
FedInv(D) ==
  /\ IInv
  /\ Settled(kernel, pc)
  /\ fed => /\ pc["monitor"] # "none"
            /\ dog + Rest(kernel, uxPendedTicks, pc, D) + Rounds(MaxHits - hits, D)
               <= WatchdogBound(D)

LEMMA FedInit ==
  ASSUME NEW D, Init
  PROVE  FedInv(D)
<1>1. IInv
  BY InitGood
<1>2. fed = FALSE
  BY DEF Init
<1>3. pc["monitor"] = "none"
  BY Constants, KernelAssumption DEF Init
<1>4. Settled(kernel, pc)
  <2>1. pc[kernel.pxCurrentTCB] = "call" /\ "monitor" \in Task
    BY Constants, KernelAssumption DEF Init
  <2> QED
    BY <1>3, <2>1 DEF Settled
<1> QED
  BY <1>1, <1>2, <1>4 DEF FedInv

\* What is kept for the ticks that may still come while monitor runs.
LEMMA RoundsKept ==
  ASSUME NEW D \in Nat, NEW h \in 0..MaxHits
  PROVE  /\ Rounds(MaxHits - h, D) \in Nat
         /\ Rounds(MaxHits - h, D) <= Rounds(MaxHits, D)
         /\ h + 1 <= MaxHits
            => Rounds(MaxHits - h, D) = Rounds(MaxHits - (h + 1), D) + 1 + Round(D)
<1>1. MaxHits \in Nat /\ 1 + Round(D) \in Nat
  <2>1. Round(D) \in Nat
    BY RoundTypes
  <2> QED
    BY <2>1, KernelAssumption
<1>2. h \in Nat /\ MaxHits - h \in Nat /\ MaxHits - h <= MaxHits
  BY <1>1
<1> DEFINE a == MaxHits - h
<1>3. Rounds(a, D) \in Nat /\ Rounds(a, D) <= Rounds(MaxHits, D)
  <2> HIDE DEF a
  <2>1. a \in Nat /\ a <= MaxHits
    BY <1>2 DEF a
  <2>2. Rounds(a, D) \in Nat
    BY <2>1, RoundTypes
  <2>3. Rounds(a, D) <= Rounds(MaxHits, D)
    BY <1>1, <2>1, Products DEF Rounds
  <2> QED
    BY <2>2, <2>3
<1>4. ASSUME h + 1 <= MaxHits
      PROVE  Rounds(a, D) = Rounds(MaxHits - (h + 1), D) + 1 + Round(D)
  <2> DEFINE b == MaxHits - (h + 1)
  <2>1. b \in Nat /\ a = b + 1
    BY <1>1, <1>2, <1>4
  <2> HIDE DEF a, b
  <2>2. Rounds(b + 1, D) = Rounds(b, D) + 1 + Round(D)
    BY <2>1, RoundTypes
  <2> QED
    BY <2>1, <2>2 DEF b
<1> QED
  BY <1>3, <1>4

LEMMA FedStep ==
  ASSUME NEW D, Longest(D), FedInv(D), [Next]_vars
  PROVE  FedInv(D)'
<1> DEFINE R == Rest(kernel, uxPendedTicks, pc, D)
           R2 == Rest(kernel', uxPendedTicks', pc', D)
           A == Rounds(MaxHits - hits, D)
           A2 == Rounds(MaxHits - hits', D)
           W == WatchdogBound(D)
<1>1. IInv /\ Settled(kernel, pc) /\ D \in Nat
  BY DEF FedInv, Longest
<1>2. IInv'
  BY <1>1, NextGood
<1>3. CASE UNCHANGED vars
  <2>1. UNCHANGED <<kernel, pc, uxPendedTicks, dog, hits, fed>>
    BY <1>3 DEF vars, dogVars
  <2> QED
    BY <1>2, <2>1 DEF FedInv
<1>4. CASE Next
  <2>1. Settled(kernel', pc')
    BY <1>1, <1>4, NextSettled
  <2>2. /\ MaxHits \in Nat /\ hits \in 0..MaxHits /\ hits' \in 0..MaxHits
        /\ dog \in Nat /\ dog' \in Nat
    BY <1>1, <1>2, KernelAssumption DEF IInv
  <2>3. /\ Round(D) \in Nat /\ Rounds(MaxHits, D) \in Nat /\ A \in Nat /\ A2 \in Nat
        /\ A <= Rounds(MaxHits, D) /\ A2 <= Rounds(MaxHits, D)
        /\ hits < MaxHits /\ hits' = hits + 1 => A = A2 + 1 + Round(D)
        /\ hits' = hits => A2 = A
    <3>1. /\ A \in Nat /\ A <= Rounds(MaxHits, D)
          /\ hits + 1 <= MaxHits => A = Rounds(MaxHits - (hits + 1), D) + 1 + Round(D)
      BY <1>1, <2>2, RoundsKept
    <3>2. A2 \in Nat /\ A2 <= Rounds(MaxHits, D)
      BY <1>1, <2>2, RoundsKept
    <3>3. Round(D) \in Nat /\ Rounds(MaxHits, D) \in Nat
      BY <1>1, <2>2, RoundTypes
    <3>4. hits < MaxHits => hits + 1 <= MaxHits
      BY <2>2
    <3> QED
      BY <3>1, <3>2, <3>3, <3>4
  <2>4. /\ W = 2 * Rounds(MaxHits, D) + Delay["monitor"] + MaxPended + Round(D)
        /\ After("call", D) = Delay["monitor"] + MaxPended + Round(D) + Rounds(MaxHits, D)
        /\ Delay["monitor"] \in Nat /\ MaxPended \in Nat
    BY <1>1, AfterType, RoundTypes DEF WatchdogBound, After
  <2> SUFFICES ASSUME fed'
               PROVE  pc'["monitor"] # "none" /\ dog' + R2 + A2 <= W
    BY <1>2, <2>1 DEF FedInv
  <2>5. CASE IWDG_Feed
    <3>1. /\ pc'["monitor"] # "none" /\ dog' = 0 /\ hits' = hits
          /\ R2 <= After("call", D)
      BY <1>1, <2>5, FeedRest
    <3>2. R2 \in Nat
      BY <1>1, <1>2, <3>1, RestCounts DEF IInv
    <3> HIDE DEF R2, A, A2, W
    <3> QED
      BY <2>3, <2>4, <3>1, <3>2
  <2>6. CASE fed
    <3>1. pc["monitor"] # "none" /\ dog + R + A <= W
      BY <2>6 DEF FedInv
    <3>2. pc'["monitor"] # "none" /\ Spends(D, R, R2)
      BY <1>1, <1>4, <3>1, NextRest
    <3>3. R \in Nat /\ R2 \in Nat
      BY <1>1, <1>2, <3>1, <3>2, RestCounts DEF IInv
    <3>4. W \in Nat
      BY <2>3, <2>4
    <3>5. /\ dog + R + A <= W /\ A \in Nat /\ A2 \in Nat
          /\ dog \in Nat /\ dog' \in Nat /\ Round(D) \in Nat /\ Rounds(MaxHits, D) \in Nat
      BY <2>2, <2>3, <3>1
    <3> HIDE DEF R, R2, A, A2, W
    <3>6. dog' + R2 + A2 <= W
      <4>1. CASE dog' <= dog + 1 /\ hits' = hits /\ R2 + 1 <= R
        <5>1. A2 = A
          BY <2>3, <4>1
        <5>2. PICK a \in Nat, r \in Nat, r2 \in Nat, w \in Nat, d \in Nat, d2 \in Nat :
                /\ a = A /\ r = R /\ r2 = R2 /\ w = W /\ d = dog /\ d2 = dog'
          BY <3>3, <3>4, <3>5
        <5>3. r2 + 1 <= r /\ d2 <= d + 1 /\ d + r + a <= w
          BY <3>5, <4>1, <5>2
        <5>4. d2 + r2 + a <= w
          BY <5>3
        <5> QED
          BY <5>1, <5>2, <5>4
      <4>2. CASE /\ dog' <= dog + 1 /\ hits < MaxHits /\ hits' = hits + 1
                 /\ R2 <= R + Round(D)
        <5>1. A = A2 + 1 + Round(D) /\ R2 <= R + Round(D) /\ dog' <= dog + 1
          BY <2>3, <4>2
        <5>2. PICK m \in Nat, a \in Nat, a2 \in Nat, r \in Nat, r2 \in Nat, w \in Nat,
                   d \in Nat, d2 \in Nat :
                /\ m = Round(D) /\ a = A /\ a2 = A2 /\ r = R /\ r2 = R2 /\ w = W
                /\ d = dog /\ d2 = dog'
          BY <3>3, <3>4, <3>5
        <5>3. a = a2 + 1 + m /\ r2 <= r + m /\ d2 <= d + 1 /\ d + r + a <= w
          BY <3>5, <5>1, <5>2
        <5>4. d2 + r2 + a2 <= w
          BY <5>3
        <5> QED
          BY <5>2, <5>4
      <4>3. CASE dog' = dog /\ hits' = hits /\ R2 <= R
        <5>1. A2 = A
          BY <2>3, <4>3
        <5> QED
          BY <3>3, <3>4, <3>5, <4>3, <5>1
      <4>4. CASE dog' = dog /\ hits' = 0 /\ R2 + Rounds(MaxHits, D) <= R
        <5>1. A2 <= Rounds(MaxHits, D)
          BY <2>3
        <5> QED
          BY <3>3, <3>4, <3>5, <4>4, <5>1
      <4>5. CASE dog' = 0 /\ hits' = hits /\ R2 <= After("call", D)
        <5>1. A2 <= Rounds(MaxHits, D)
          BY <2>3
        <5> QED
          BY <2>4, <3>3, <3>4, <3>5, <4>5, <5>1
      <4> QED
        BY <3>2, <4>1, <4>2, <4>3, <4>4, <4>5 DEF Spends
    <3> QED
      BY <3>2, <3>6
  <2>7. IWDG_Feed \/ fed' = fed
    BY <1>4 DEF Next, xPortSysTickHandler, vTaskDelay, AddToDelayedList, xTaskResumeAll,
       portYIELD, HeapCall, xTaskCreate, vTaskDelete, DeletedYields, IdleYields, dogVars
  <2> QED
    BY <2>5, <2>6, <2>7
<1> QED
  BY <1>3, <1>4

\* The watchdog is fed in time: when the other tasks delay for at most D ticks and the
\* timeout exceeds the bound, its counter does not get there once monitor_loop has
\* called IWDG_Feed, though the other tasks take their time slices, may work without
\* end and suspend the scheduler in vTaskDelay, for any number of tasks and any delays.
THEOREM FedInTime ==
  ASSUME NEW D \in Nat, \A t \in App \ {"monitor"} : Delay[t] <= D,
         Timeout > WatchdogBound(D)
  PROVE  Spec => []WatchdogFed
<1>1. Longest(D)
  BY DEF Longest
<1>2. Init => FedInv(D)
  BY FedInit
<1>3. FedInv(D) /\ [Next]_vars => FedInv(D)'
  BY <1>1, FedStep
<1>4. FedInv(D) => WatchdogFed
  <2> SUFFICES ASSUME FedInv(D), fed
               PROVE  dog < Timeout
    BY DEF WatchdogFed
  <2> DEFINE R == Rest(kernel, uxPendedTicks, pc, D)
             A == Rounds(MaxHits - hits, D)
             W == WatchdogBound(D)
  <2>1. /\ IInv /\ pc["monitor"] # "none" /\ dog + R + A <= W
    BY DEF FedInv
  <2>2. /\ MaxHits \in Nat /\ hits \in 0..MaxHits /\ dog \in Nat /\ Timeout \in Nat
    BY <2>1, KernelAssumption DEF IInv
  <2>3. R \in Nat
    BY <2>1, RestCounts DEF IInv
  <2>4. A \in Nat
    BY <2>2, RoundsKept
  <2>5. W \in Nat /\ Timeout > W
    <3>1. /\ Round(D) \in Nat /\ Rounds(MaxHits, D) \in Nat
          /\ Delay["monitor"] \in Nat /\ MaxPended \in Nat
      BY <2>2, RoundTypes, AfterType
    <3> QED
      BY <3>1 DEF WatchdogBound
  <2> HIDE DEF R, A, W
  <2> QED
    BY <2>1, <2>2, <2>3, <2>4, <2>5
<1> QED
  BY <1>2, <1>3, <1>4, PTL DEF Spec

\* So it is in this build, of four tasks, where monitor_loop sleeps for 100 ticks, the
\* others for at most 20 and main sets the watchdog to a second, as long as vTaskDelay
\* never suspends the scheduler for more than 20 ticks and no more than one tick comes
\* while monitor works.
COROLLARY FedInTheBuild ==
  ASSUME Len(AppTasks) = 4, Delay["monitor"] = 100,
         \A t \in App \ {"monitor"} : Delay[t] <= 20,
         MaxPended <= 20, MaxHits <= 1, Timeout = 1000
  PROVE  Spec => []WatchdogFed
<1>1. MaxPended \in Nat /\ MaxHits \in {0, 1}
  BY KernelAssumption
<1>2. Round(20) = 7 * (MaxPended + 20)
  BY <1>1 DEF Round, Share
<1>3. Round(20) \in Nat /\ Round(20) <= 280
  BY <1>1, <1>2
<1>4. Rounds(MaxHits, 20) \in Nat /\ Rounds(MaxHits, 20) <= 281
  <2>1. Rounds(0, 20) = 0 /\ Rounds(1, 20) = 1 + Round(20)
    BY <1>3 DEF Rounds
  <2> QED
    BY <1>1, <1>3, <2>1
<1>5. 1000 > WatchdogBound(20)
  BY <1>1, <1>3, <1>4 DEF WatchdogBound
<1> QED
  BY <1>5, FedInTime
=============================================================================
