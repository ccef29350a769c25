-------------------------- MODULE MqttParserProofs --------------------------
(***************************************************************************)
(* Proofs about MqttParser, for every size of rx_buffer, every base of     *)
(* the length bytes, every topic and any payloads that a header of five    *)
(* bytes can announce.                                                     *)
(***************************************************************************)
EXTENDS MqttParser, SequenceTheorems, WellFoundedInduction, TLAPS

\* Induction over the natural numbers, for a set instead of a formula.
LEMMA Induction ==
  ASSUME NEW S \in SUBSET Nat, 0 \in S, \A n \in S : n + 1 \in S
  PROVE  S = Nat
<1> SUFFICES ASSUME S # Nat
             PROVE  FALSE
  OBVIOUS
<1> DEFINE T == Nat \ S
           R == OpToRel(<, Nat)
<1>1. IsWellFoundedOn(R, Nat)
  BY NatLessThanWellFounded
<1>2. T \subseteq Nat /\ T # {}
  OBVIOUS
<1>3. PICK x \in T : \A y \in T : ~ (<<y, x>> \in R)
  BY <1>1, <1>2, WFMin
<1>4. x # 0 /\ x \in Nat /\ x - 1 \in Nat
  OBVIOUS
<1>5. x - 1 \in T
  OBVIOUS
<1>6. <<x - 1, x>> \in R
  BY <1>4 DEF OpToRel
<1> QED
  BY <1>3, <1>5, <1>6

\* Division by a positive number.
LEMMA DivMod ==
  ASSUME NEW n \in Nat, NEW d \in Nat, d > 0
  PROVE  /\ n \div d \in Nat /\ n % d \in 0..(d - 1)
         /\ n = (n \div d) * d + (n % d)
OBVIOUS

\* A quotient and a remainder are unique.
LEMMA DivIs ==
  ASSUME NEW q \in Nat, NEW r \in Nat, NEW d \in Nat, r < d, NEW n, n = q * d + r
  PROVE  n \div d = q /\ n % d = r
OBVIOUS

LEMMA ModIs ==
  ASSUME NEW r \in Nat, NEW d \in Nat, r < d
  PROVE  (d + r) % d = r /\ r % d = r
OBVIOUS

LEMMA Products ==
  ASSUME NEW a \in Nat, NEW q \in Nat, NEW d \in Nat, NEW p \in Nat, NEW r \in Nat, a = q * d + r
  PROVE  r * p + q * (d * p) = a * p
OBVIOUS

-----------------------------------------------------------------------------
(* Concatenating a sequence of sequences                                   *)

\* f[i] is the concatenation of the first i of n members of s.
Runs(s, n, f) ==
  f = [i \in 1..n |-> IF i = 1 THEN s[i] ELSE f[i - 1] \o s[i]]

LEMMA RunsStep ==
  ASSUME NEW s, NEW n \in Nat, NEW f, Runs(s, n, f)
  PROVE  /\ DOMAIN f = 1..n
         /\ \A i \in 1..n : f[i] = IF i = 1 THEN s[i] ELSE f[i - 1] \o s[i]
<1>1. f = [i \in 1..n |-> IF i = 1 THEN s[i] ELSE f[i - 1] \o s[i]]
  BY DEF Runs
<1> QED
  BY ONLY <1>1

LEMMA RunsExist ==
  ASSUME NEW s
  PROVE  \A n \in Nat : \E f : Runs(s, n, f)
<1> DEFINE S == {n \in Nat : \E f : Runs(s, n, f)}
<1>1. 0 \in S
  <2>1. Runs(s, 0, [i \in 1..0 |-> s[i]])
    BY DEF Runs
  <2> QED
    BY <2>1
<1>2. ASSUME NEW n \in S
      PROVE  n + 1 \in S
  <2>1. PICK f : Runs(s, n, f)
    BY <1>2
  <2> DEFINE g == [i \in 1..(n + 1) |->
                     IF i \in 1..n THEN f[i]
                     ELSE IF n = 0 THEN s[i] ELSE f[n] \o s[i]]
  <2>2. ASSUME NEW i \in 1..(n + 1)
        PROVE  g[i] = IF i = 1 THEN s[i] ELSE g[i - 1] \o s[i]
    <3>1. n \in Nat /\ \A k \in 1..n : f[k] = IF k = 1 THEN s[k] ELSE f[k - 1] \o s[k]
      BY <2>1, RunsStep
    <3>2. CASE i \in 1..n
      <4>1. g[i] = f[i] /\ (i # 1 => g[i - 1] = f[i - 1])
        BY <3>1, <3>2
      <4> QED
        BY <3>1, <3>2, <4>1
    <3>3. CASE i = n + 1 /\ n = 0
      BY <3>1, <3>3
    <3>4. CASE i = n + 1 /\ n # 0
      <4>1. n \in 1..n /\ i - 1 = n /\ i \notin 1..n /\ n \in 1..(n + 1)
        BY <3>1, <3>4
      <4>2. g[i] = f[n] \o s[i] /\ g[n] = f[n]
        BY <3>4, <4>1
      <4> QED
        BY <3>1, <3>4, <4>1, <4>2
    <3> QED
      BY <3>1, <3>2, <3>3, <3>4
  <2>3. Runs(s, n + 1, g)
    <3> HIDE DEF g
    <3>1. g = [i \in 1..(n + 1) |-> g[i]]
      BY DEF g
    <3> QED
      BY ONLY <2>2, <3>1 DEF Runs
  <2> QED
    BY <2>3
<1>3. S \in SUBSET Nat
  OBVIOUS
<1>4. S = Nat
  <2> HIDE DEF S
  <2> QED
    BY <1>1, <1>2, <1>3, Induction
<1> QED
  BY <1>4

Agree(s, t, n) == \A i \in 1..n : s[i] = t[i]

LEMMA RunsAgree ==
  ASSUME NEW s, NEW t, NEW n \in Nat, NEW m \in Nat, NEW f, NEW g,
         Runs(s, n, f), Runs(t, m, g), n <= m, Agree(s, t, n)
  PROVE  Agree(f, g, n)
<1> USE DEF Agree
<1> DEFINE S == {i \in Nat : i \in 1..n => f[i] = g[i]}
<1>1. S \in SUBSET Nat /\ 0 \in S
  OBVIOUS
<1>a. /\ \A i \in 1..n : f[i] = IF i = 1 THEN s[i] ELSE f[i - 1] \o s[i]
      /\ \A i \in 1..m : g[i] = IF i = 1 THEN t[i] ELSE g[i - 1] \o t[i]
  BY RunsStep
<1>2. ASSUME NEW i \in S
      PROVE  i + 1 \in S
  <2>1. CASE i + 1 \in 1..n /\ i # 0
    <3>1. i \in 1..n /\ f[i] = g[i] /\ i + 1 \in 1..m /\ i + 1 # 1 /\ (i + 1) - 1 = i
      BY <2>1
    <3>2. f[i + 1] = f[i] \o s[i + 1] /\ g[i + 1] = g[i] \o t[i + 1]
      BY <1>a, <2>1, <3>1
    <3>3. s[i + 1] = t[i + 1]
      BY <2>1
    <3>4. f[i + 1] = g[i + 1]
      BY <3>1, <3>2, <3>3
    <3> QED
      BY <3>4
  <2>2. CASE i + 1 \in 1..n /\ i = 0
    BY <1>a, <2>2
  <2>3. CASE i + 1 \notin 1..n
    BY <2>3
  <2> QED
    BY <2>1, <2>2, <2>3
<1>3. S = Nat
  <2> HIDE DEF S
  <2> QED
    BY <1>1, <1>2, Induction
<1> QED
  BY <1>3

LEMMA FlattenIs ==
  ASSUME NEW s, NEW n \in Nat \ {0}, Len(s) = n
  PROVE  \E f : Runs(s, n, f) /\ FlattenSeq(s) = f[n]
<1> DEFINE f == CHOOSE g : Runs(s, n, g)
<1>1. Runs(s, n, f)
  BY RunsExist
<1>2. FlattenSeq(s) = f[n]
  BY DEF FlattenSeq, Runs
<1> QED
  BY <1>1, <1>2

LEMMA FlattenEmpty == FlattenSeq(<<>>) = <<>>
BY DEF FlattenSeq

LEMMA FlattenAppend ==
  ASSUME NEW X, NEW s \in Seq(Seq(X)), NEW x \in Seq(X)
  PROVE  FlattenSeq(Append(s, x)) = FlattenSeq(s) \o x
<1> DEFINE t == Append(s, x)
           n == Len(s)
<1>1. /\ n \in Nat /\ Len(t) = n + 1 /\ t[n + 1] = x
      /\ \A i \in 1..n : t[i] = s[i]
  OBVIOUS
<1>2. PICK g : Runs(t, n + 1, g) /\ FlattenSeq(t) = g[n + 1]
  <2> HIDE DEF t, n
  <2> QED
    BY <1>1, FlattenIs
<1>3. CASE n = 0
  <2>1. s = <<>>
    BY <1>3
  <2>2. g[n + 1] = x
    BY <1>1, <1>2, <1>3, RunsStep
  <2>3. <<>> \o x = x
    BY ConcatEmptySeq
  <2> QED
    BY <1>2, <2>1, <2>2, <2>3, FlattenEmpty
<1>4. CASE n # 0
  <2>1. PICK f : Runs(s, n, f) /\ FlattenSeq(s) = f[n]
    <3> HIDE DEF n
    <3> QED
      BY <1>1, <1>4, FlattenIs DEF n
  <2>2. f[n] = g[n]
    <3> HIDE DEF t, n
    <3>1. n + 1 \in Nat /\ n \in Nat /\ n <= n + 1 /\ Agree(s, t, n)
      BY <1>1 DEF Agree
    <3>2. Agree(f, g, n)
      BY ONLY <1>2, <2>1, <3>1, RunsAgree
    <3>3. n \in 1..n
      BY <1>1, <1>4
    <3> QED
      BY <3>2, <3>3 DEF Agree
  <2>3. g[n + 1] = g[n] \o t[n + 1]
    <3> HIDE DEF t, n
    <3>1. \A i \in 1..(n + 1) : g[i] = IF i = 1 THEN t[i] ELSE g[i - 1] \o t[i]
      BY <1>1, <1>2, RunsStep
    <3>2. n + 1 \in 1..(n + 1) /\ n + 1 # 1 /\ (n + 1) - 1 = n
      BY <1>1, <1>4
    <3> QED
      BY <3>1, <3>2
  <2> QED
    BY <1>1, <1>2, <2>1, <2>2, <2>3
<1> QED
  BY <1>3, <1>4

\* The concatenation of the first n members of s.
UpTo(s, n) == FlattenSeq(SubSeq(s, 1, n))

LEMMA UpToStep ==
  ASSUME NEW X, NEW s \in Seq(Seq(X)), NEW n \in 0..(Len(s) - 1)
  PROVE  UpTo(s, n + 1) = UpTo(s, n) \o s[n + 1]
<1> DEFINE t == SubSeq(s, 1, n)
<1>1. /\ t \in Seq(Seq(X)) /\ s[n + 1] \in Seq(X)
      /\ SubSeq(s, 1, n + 1) = Append(t, s[n + 1])
  OBVIOUS
<1>2. FlattenSeq(Append(t, s[n + 1])) = FlattenSeq(t) \o s[n + 1]
  <2> HIDE DEF t
  <2> QED
    BY <1>1, FlattenAppend
<1> QED
  BY <1>1, <1>2 DEF UpTo

LEMMA UpToEnds ==
  ASSUME NEW X, NEW s \in Seq(Seq(X))
  PROVE  UpTo(s, 0) = <<>> /\ UpTo(s, Len(s)) = FlattenSeq(s)
<1>1. SubSeq(s, 1, 0) = <<>> /\ SubSeq(s, 1, Len(s)) = s
  OBVIOUS
<1> QED
  BY <1>1, FlattenEmpty DEF UpTo

LEMMA UpToType ==
  ASSUME NEW X, NEW s \in Seq(Seq(X))
  PROVE  \A n \in 0..Len(s) : UpTo(s, n) \in Seq(X)
<1> DEFINE S == {n \in Nat : n <= Len(s) => UpTo(s, n) \in Seq(X)}
<1>1. 0 \in S
  <2>1. <<>> \in Seq(X)
    OBVIOUS
  <2> QED
    BY <2>1, UpToEnds
<1>2. ASSUME NEW n \in S
      PROVE  n + 1 \in S
  <2>1. CASE n + 1 <= Len(s)
    <3>1. n \in 0..(Len(s) - 1) /\ UpTo(s, n) \in Seq(X) /\ s[n + 1] \in Seq(X)
      BY <2>1
    <3>2. UpTo(s, n + 1) = UpTo(s, n) \o s[n + 1]
      BY <3>1, UpToStep
    <3>3. UpTo(s, n) \o s[n + 1] \in Seq(X)
      BY <3>1, ConcatProperties
    <3>4. UpTo(s, n + 1) \in Seq(X)
      BY <3>2, <3>3
    <3> QED
      BY <3>4
  <2> QED
    BY <2>1
<1>3. S \in SUBSET Nat
  OBVIOUS
<1>4. S = Nat
  <2> HIDE DEF S
  <2> QED
    BY <1>1, <1>2, <1>3, Induction
<1> QED
  BY <1>4

LEMMA FlattenType ==
  ASSUME NEW X, NEW s \in Seq(Seq(X))
  PROVE  FlattenSeq(s) \in Seq(X)
<1>1. Len(s) \in 0..Len(s)
  OBVIOUS
<1> QED
  BY <1>1, UpToType, UpToEnds

LEMMA FlattenNothing ==
  ASSUME NEW X, NEW s \in Seq(Seq(X)), \A i \in 1..Len(s) : s[i] = <<>>
  PROVE  FlattenSeq(s) = <<>>
<1> DEFINE S == {n \in Nat : n <= Len(s) => UpTo(s, n) = <<>>}
<1>1. 0 \in S
  BY UpToEnds
<1>2. ASSUME NEW n \in S
      PROVE  n + 1 \in S
  <2>1. CASE n + 1 <= Len(s)
    <3>1. n \in 0..(Len(s) - 1) /\ UpTo(s, n) = <<>> /\ s[n + 1] = <<>>
      BY <2>1
    <3>2. UpTo(s, n + 1) = UpTo(s, n) \o s[n + 1]
      BY <3>1, UpToStep
    <3> QED
      BY <3>1, <3>2
  <2> QED
    BY <2>1
<1>3. S \in SUBSET Nat
  OBVIOUS
<1>4. S = Nat
  <2> HIDE DEF S
  <2> QED
    BY <1>1, <1>2, <1>3, Induction
<1>5. UpTo(s, Len(s)) = <<>>
  BY <1>4
<1> QED
  BY <1>5, UpToEnds

\* One more member.
LEMMA FlattenMore ==
  ASSUME NEW X, NEW s \in Seq(Seq(X)), NEW t \in Seq(Seq(X)),
         Len(t) = Len(s) + 1, Agree(s, t, Len(s))
  PROVE  FlattenSeq(t) = FlattenSeq(s) \o t[Len(t)]
<1>1. t = Append(s, t[Len(t)]) /\ t[Len(t)] \in Seq(X)
  BY DEF Agree
<1>2. FlattenSeq(Append(s, t[Len(t)])) = FlattenSeq(s) \o t[Len(t)]
  BY <1>1, FlattenAppend
<1> QED
  BY <1>1, <1>2

\* From s to t the j-th member grows by x, and there is nothing behind it.
Grows(s, t, j, x) ==
  /\ Len(t) = Len(s) /\ j \in 1..Len(s) /\ t[j] = s[j] \o x
  /\ \A i \in 1..Len(s) : /\ i < j => s[i] = t[i]
                          /\ i > j => s[i] = <<>> /\ t[i] = <<>>

LEMMA FlattenGrow ==
  ASSUME NEW X, NEW s \in Seq(Seq(X)), NEW t \in Seq(Seq(X)), NEW j, NEW x \in Seq(X),
         Grows(s, t, j, x)
  PROVE  FlattenSeq(t) = FlattenSeq(s) \o x
<1>0. \A u, v, w \in Seq(X) : (u \o v) \o w = u \o (v \o w)
  BY SMTT(30)
<1> USE DEF Grows
<1> DEFINE S == {n \in Nat : n \in j..Len(s) => UpTo(t, n) = UpTo(s, n) \o x}
<1>1. 0 \in S
  OBVIOUS
<1>2. ASSUME NEW n \in S
      PROVE  n + 1 \in S
  <2> SUFFICES ASSUME n + 1 \in j..Len(s)
               PROVE  UpTo(t, n + 1) = UpTo(s, n + 1) \o x
    BY SMTT(30)
  <2>1. n \in 0..(Len(s) - 1) /\ n \in 0..(Len(t) - 1) /\ n \in 0..Len(s)
    BY SMTT(30)
  <2>2. /\ UpTo(s, n + 1) = UpTo(s, n) \o s[n + 1]
        /\ UpTo(t, n + 1) = UpTo(t, n) \o t[n + 1]
    BY <2>1, UpToStep
  <2>3. UpTo(s, n) \in Seq(X) /\ s[n + 1] \in Seq(X)
    BY <2>1, UpToType
  <2>4. CASE n + 1 = j
    <3>1. SubSeq(s, 1, n) = SubSeq(t, 1, n)
      BY <2>4
    <3>2. UpTo(s, n) = UpTo(t, n)
      BY <3>1 DEF UpTo
    <3>3. t[n + 1] = s[n + 1] \o x
      BY <2>4
    <3>4. UpTo(t, n + 1) = UpTo(s, n) \o t[n + 1]
      BY <2>2, <3>2
    <3>5. PICK u \in Seq(X), v \in Seq(X) : u = UpTo(s, n) /\ v = s[n + 1]
      BY <2>3
    <3>6. UpTo(s, n + 1) = u \o v /\ t[n + 1] = v \o x /\ UpTo(t, n + 1) = u \o (v \o x)
      BY <2>2, <3>3, <3>4, <3>5
    <3>7. (u \o v) \o x = u \o (v \o x)
      BY <1>0
    <3> QED
      BY <3>6, <3>7
  <2>5. CASE n + 1 # j
    <3>1. n \in j..Len(s) /\ n + 1 > j
      BY <2>5
    <3>2. UpTo(t, n) = UpTo(s, n) \o x
      BY <3>1
    <3>a. s[n + 1] = <<>> /\ t[n + 1] = <<>>
      <4>1. n + 1 \in 1..Len(s)
        BY <2>1
      <4> QED
        BY <3>1, <4>1
    <3>3. UpTo(s, n) \o x \in Seq(X)
      BY <2>3
    <3>4. (UpTo(s, n) \o x) \o <<>> = UpTo(s, n) \o x
      BY <3>3, ConcatEmptySeq
    <3>5. UpTo(s, n) \o <<>> = UpTo(s, n)
      BY <2>3, ConcatEmptySeq
    <3> QED
      BY <2>2, <3>2, <3>a, <3>4, <3>5
  <2> QED
    BY <2>4, <2>5
<1>3. S \in SUBSET Nat
  OBVIOUS
<1>4. S = Nat
  <2> HIDE DEF S
  <2> QED
    BY <1>1, <1>2, <1>3, Induction
<1>5. UpTo(t, Len(s)) = UpTo(s, Len(s)) \o x
  <2>1. Len(s) \in Nat /\ Len(s) \in j..Len(s)
    OBVIOUS
  <2> QED
    BY <1>4, <2>1
<1> QED
  BY <1>5, UpToEnds

-----------------------------------------------------------------------------
(* The bytes of a frame                                                    *)

FrameSet ==
  {Frame(CONNACK, 0, 5), Frame(CONNACK, 0, 0), Frame(SUBACK, 0, 0), Frame(PINGRESP, 0, 0)}
    \cup {Frame(PUBLISH, q, n) : q \in 0..MaxQos, n \in Payloads}

\* A conforming broker begins with its one CONNACK and acknowledges the one
\* SUBSCRIBE at most once.
LEMMA StreamFacts ==
  ASSUME NEW fs \in Streams
  PROVE  /\ fs \in Seq(FrameSet) /\ Len(fs) >= 1 /\ fs[1].type = CONNACK
         /\ \A i \in 2..Len(fs) : fs[i].type # CONNACK
         /\ \A i, j \in 1..Len(fs) : fs[i].type = SUBACK /\ fs[j].type = SUBACK => i = j
<1>1. CASE fs = <<Frame(CONNACK, 0, 5)>>
  <2>1. Len(fs) = 1 /\ fs[1] = Frame(CONNACK, 0, 5) /\ Frame(CONNACK, 0, 5) \in FrameSet
    BY <1>1 DEF FrameSet
  <2>2. fs \in Seq(FrameSet)
    BY <1>1, <2>1
  <2>3. fs[1].type = CONNACK /\ CONNACK # SUBACK
    BY <2>1 DEF Frame, CONNACK, SUBACK
  <2> QED
    BY <2>1, <2>2, <2>3
<1>2. CASE \E t \in BoundedSeq(Later, MaxFrames) : OneAnswer(t) /\ fs = <<Frame(CONNACK, 0, 0)>> \o t
  <2>1. PICK t \in BoundedSeq(Later, MaxFrames) : OneAnswer(t) /\ fs = <<Frame(CONNACK, 0, 0)>> \o t
    BY <1>2
  <2>2. t \in Seq(Later)
    <3>1. PICK m \in 0..MaxFrames : t \in [1..m -> Later]
      BY <2>1 DEF BoundedSeq, SeqOf
    <3>2. m \in Nat
      OBVIOUS
    <3> QED
      BY <3>1, <3>2
  <2>3. /\ \A f \in Later : f.type # CONNACK /\ f \in FrameSet
        /\ Frame(CONNACK, 0, 0) \in FrameSet /\ Frame(CONNACK, 0, 0).type = CONNACK
        /\ CONNACK # SUBACK
    BY DEF Later, FrameSet, Frame, CONNACK, SUBACK, PUBLISH, PINGRESP
  <2>4. /\ Len(fs) = Len(t) + 1 /\ fs[1] = Frame(CONNACK, 0, 0) /\ Len(t) \in Nat
        /\ \A i \in 2..Len(fs) : i - 1 \in 1..Len(t) /\ fs[i] = t[i - 1] /\ fs[i] \in Later
    <3> QED
      BY <2>1, <2>2
  <2>5. fs \in Seq(FrameSet)
    <3>1. t \in Seq(FrameSet)
      BY <2>2, <2>3
    <3> QED
      BY <2>1, <2>3, <3>1
  <2>6. \A i \in 2..Len(fs) : fs[i].type # CONNACK
    BY <2>3, <2>4
  <2>7. fs[1].type = CONNACK
    BY <2>3, <2>4
  <2>8. ASSUME NEW i \in 1..Len(fs), NEW j \in 1..Len(fs),
               fs[i].type = SUBACK, fs[j].type = SUBACK
        PROVE  i = j
    <3>1. i # 1 /\ j # 1
      BY <2>3, <2>7, <2>8
    <3>2. i \in 2..Len(fs) /\ j \in 2..Len(fs)
      BY <2>4, <3>1
    <3>3. i - 1 \in DOMAIN t /\ j - 1 \in DOMAIN t
      BY <2>2, <2>4, <3>2
    <3>4. t[i - 1].type = SUBACK /\ t[j - 1].type = SUBACK
      BY <2>4, <2>8, <3>2
    <3>5. i - 1 = j - 1
      BY <2>1, <3>3, <3>4 DEF OneAnswer
    <3> QED
      BY <3>5
  <2>9. Len(fs) >= 1
    BY <2>4
  <2> QED
    BY <2>5, <2>6, <2>7, <2>8, <2>9
<1>3. fs \in Streams
  OBVIOUS
<1> QED
  BY <1>1, <1>2, <1>3 DEF Streams

LEMMA PowerStep == Power[1] = 1 /\ \A i \in 1..3 : Power[i] \in Nat /\ Power[i + 1] = Power[i] * LenBase
<1>1. LenBase \in Nat
  BY ParserAssumption
<1>2. /\ Power[1] = 1 /\ Power[2] = LenBase /\ Power[3] = LenBase * LenBase
      /\ Power[4] = LenBase * LenBase * LenBase
  BY DEF Power
<1> QED
  BY <1>1, <1>2

LEMMA RestStep ==
  ASSUME NEW n \in Nat
  PROVE  /\ Rest(n)[1] = n /\ \A i \in 1..4 : Rest(n)[i] \in Nat
         /\ \A i \in 1..3 : Rest(n)[i + 1] = Rest(n)[i] \div LenBase
<1>1. LenBase \in Nat /\ LenBase > 0
  BY ParserAssumption
<1>2. \A a \in Nat : a \div LenBase \in Nat
  BY <1>1, DivMod
<1>3. /\ Rest(n)[1] = n /\ Rest(n)[2] = n \div LenBase
      /\ Rest(n)[3] = (n \div LenBase) \div LenBase
      /\ Rest(n)[4] = ((n \div LenBase) \div LenBase) \div LenBase
  BY DEF Rest
<1>4. \A i \in 1..4 : Rest(n)[i] \in Nat
  BY <1>2, <1>3
<1>5. \A i \in 1..3 : Rest(n)[i + 1] = Rest(n)[i] \div LenBase
  BY <1>3
<1> QED
  BY <1>3, <1>4, <1>5

LEMMA DivBelow ==
  ASSUME NEW n \in Nat, NEW d \in Nat, d > 0, NEW a \in Nat, n < a * d
  PROVE  n \div d < a
<1> DEFINE q == n \div d
<1>1. q \in Nat /\ n >= q * d
  BY DivMod
<1>2. q >= a => q * d >= a * d
  BY <1>1
<1>3. q * d \in Nat /\ a * d \in Nat
  BY <1>1
<1> QED
  BY <1>1, <1>2, <1>3

Cube == LenBase * LenBase * LenBase * LenBase

LEMMA LastRest ==
  ASSUME NEW n \in Nat, n < Cube
  PROVE  Rest(n)[4] < LenBase
<1>1. LenBase \in Nat /\ LenBase > 0
  BY ParserAssumption
<1>2. PICK c2 \in Nat, c3 \in Nat : c2 = LenBase * LenBase /\ c3 = c2 * LenBase /\ Cube = c3 * LenBase
  BY <1>1 DEF Cube
<1>3. Rest(n)[2] < c3
  <2>1. n < c3 * LenBase /\ Rest(n)[2] = n \div LenBase
    BY <1>2, RestStep
  <2> QED
    BY <1>1, <2>1, DivBelow
<1>4. Rest(n)[3] < c2
  <2>1. Rest(n)[2] \in Nat /\ Rest(n)[2] < c2 * LenBase /\ Rest(n)[3] = Rest(n)[2] \div LenBase
    BY <1>2, <1>3, RestStep
  <2> QED
    BY <1>1, <2>1, DivBelow
<1>5. Rest(n)[3] \in Nat /\ Rest(n)[3] < LenBase * LenBase /\ Rest(n)[4] = Rest(n)[3] \div LenBase
  BY <1>2, <1>4, RestStep
<1> QED
  BY <1>1, <1>5, DivBelow

\* The length bytes: the digits of n, all but the last announcing another.
LEMMA LenBytesAre ==
  ASSUME NEW n \in Nat, n < Cube
  PROVE  /\ LenBytes(n) \in Seq(Nat) /\ Len(LenBytes(n)) \in 1..4
         /\ \A i \in 1..(Len(LenBytes(n)) - 1) :
              LenBytes(n)[i] = LenBase + (Rest(n)[i] % LenBase)
         /\ LenBytes(n)[Len(LenBytes(n))] = Rest(n)[Len(LenBytes(n))]
         /\ Rest(n)[Len(LenBytes(n))] < LenBase
<1> DEFINE Ends(k) == Rest(n)[k] < LenBase /\ \A i \in 1..(k - 1) : Rest(n)[i] >= LenBase
           m == CHOOSE k \in 1..4 : Ends(k)
<1>0. LenBase \in Nat /\ LenBase > 0 /\ \A i \in 1..4 : Rest(n)[i] \in Nat
  BY ParserAssumption, RestStep
<1>1. \E k \in 1..4 : Ends(k)
  <2>1. Rest(n)[4] < LenBase
    BY LastRest
  <2>2. \A i \in 1..4 : Rest(n)[i] >= LenBase \/ Rest(n)[i] < LenBase
    BY <1>0
  <2>3. CASE Rest(n)[1] < LenBase
    <3>1. Ends(1)
      BY <2>3
    <3> QED
      BY <3>1
  <2>4. CASE Rest(n)[1] >= LenBase /\ Rest(n)[2] < LenBase
    <3>1. Ends(2)
      BY <2>4
    <3> QED
      BY <3>1
  <2>5. CASE Rest(n)[1] >= LenBase /\ Rest(n)[2] >= LenBase /\ Rest(n)[3] < LenBase
    <3>1. Ends(3)
      BY <2>5
    <3> QED
      BY <3>1
  <2>6. CASE Rest(n)[1] >= LenBase /\ Rest(n)[2] >= LenBase /\ Rest(n)[3] >= LenBase
    <3>1. Ends(4)
      BY <2>1, <2>6
    <3> QED
      BY <3>1
  <2> QED
    BY <2>2, <2>3, <2>4, <2>5, <2>6
<1>2. m \in 1..4 /\ Ends(m)
  BY <1>1
<1> DEFINE t == [i \in 1..m |-> IF i < m THEN LenBase + (Rest(n)[i] % LenBase) ELSE Rest(n)[m]]
<1>3. LenBytes(n) = t
  BY DEF LenBytes
<1> HIDE DEF m, Ends
<1>4. \A i \in 1..m : t[i] \in Nat
  <2>1. ASSUME NEW i \in 1..m
        PROVE  t[i] \in Nat
    <3>1. Rest(n)[i] \in Nat /\ Rest(n)[m] \in Nat
      BY <1>0, <1>2
    <3>2. Rest(n)[i] % LenBase \in Nat
      BY <1>0, <3>1, DivMod
    <3> QED
      BY <1>0, <3>1, <3>2
  <2> QED
    BY <2>1
<1>5. t \in Seq(Nat) /\ Len(t) = m
  BY <1>2, <1>4
<1>6. \A i \in 1..(m - 1) : t[i] = LenBase + (Rest(n)[i] % LenBase)
  BY <1>2
<1>7. t[m] = Rest(n)[m]
  BY <1>2
<1>8. Rest(n)[m] < LenBase
  BY <1>2 DEF Ends
<1> HIDE DEF t
<1> QED
  BY <1>2, <1>3, <1>5, <1>6, <1>7, <1>8

\* Where the payload of a PUBLISH begins in what follows the fixed header.
Ahead(f) == 2 + TopicLen + (IF f.qos = 0 THEN 0 ELSE 2)

LEMMA FrameTypes ==
  ASSUME NEW f \in FrameSet
  PROVE  /\ f.type \in {CONNACK, PUBLISH, SUBACK, PINGRESP} /\ f.qos \in {0, 1} /\ f.n \in Nat
         /\ f.type # PUBLISH => f.qos = 0
         /\ f.type = CONNACK => f.n \in {0, 5}
         /\ f.type = SUBACK => f.n = 0
         /\ f.type = PUBLISH => f.n \in Payloads
<1>1. CASE f \in {Frame(CONNACK, 0, 5), Frame(CONNACK, 0, 0), Frame(SUBACK, 0, 0), Frame(PINGRESP, 0, 0)}
  BY <1>1 DEF Frame, CONNACK, PUBLISH, SUBACK, PINGRESP
<1>2. CASE f \in {Frame(PUBLISH, q, n) : q \in 0..MaxQos, n \in Payloads}
  <2>1. PICK q \in 0..MaxQos, n \in Payloads : f = Frame(PUBLISH, q, n)
    BY <1>2
  <2>2. q \in {0, 1} /\ n \in Nat
    BY ParserAssumption
  <2> QED
    BY <2>1, <2>2 DEF Frame, CONNACK, PUBLISH, SUBACK, PINGRESP
<1> QED
  BY <1>1, <1>2 DEF FrameSet

LEMMA Distinct ==
  /\ CONNACK # PUBLISH /\ CONNACK # SUBACK /\ CONNACK # PINGRESP /\ PUBLISH # SUBACK
  /\ PUBLISH # PINGRESP /\ SUBACK # PINGRESP
BY DEF CONNACK, PUBLISH, SUBACK, PINGRESP

LEMMA VarPartOfPublish ==
  ASSUME NEW f \in FrameSet, f.type = PUBLISH
  PROVE  /\ VarPart(f) \in Seq(Nat) /\ Len(VarPart(f)) = Ahead(f) + f.n
         /\ VarPart(f)[1] = 0 /\ VarPart(f)[2] = TopicLen
         /\ f.qos > 0 => /\ VarPart(f)[2 + TopicLen + 1] = 0
                         /\ VarPart(f)[2 + TopicLen + 2] = MessageId
         /\ \A i \in 1..f.n : VarPart(f)[Ahead(f) + i] = i
<1> DEFINE a == <<0, TopicLen>>
           c == [i \in 1..TopicLen |-> 0]
           d == IF f.qos = 0 THEN <<>> ELSE <<0, MessageId>>
           e == [i \in 1..f.n |-> i]
<1>1. f.n \in Nat /\ TopicLen \in Nat /\ f.qos \in {0, 1}
  BY FrameTypes, ParserAssumption
<1>2. /\ a \in Seq(Nat) /\ Len(a) = 2 /\ a[1] = 0 /\ a[2] = TopicLen
      /\ c \in Seq(Nat) /\ Len(c) = TopicLen
      /\ e \in Seq(Nat) /\ Len(e) = f.n /\ \A i \in 1..f.n : e[i] = i
  BY <1>1
<1>3. /\ d \in Seq(Nat) /\ Len(d) = Ahead(f) - 2 - TopicLen
      /\ f.qos > 0 => Len(d) = 2 /\ d[1] = 0 /\ d[2] = MessageId
  BY <1>1 DEF Ahead, MessageId
<1>4. Ahead(f) \in Nat /\ Ahead(f) >= 2 + TopicLen
  BY <1>1 DEF Ahead
<1>5. VarPart(f) = ((a \o c) \o d) \o e
  BY Distinct, Zenon DEF VarPart
<1> HIDE DEF a, c, d, e
<1>6. /\ a \o c \in Seq(Nat) /\ Len(a \o c) = 2 + TopicLen
      /\ (a \o c)[1] = 0 /\ (a \o c)[2] = TopicLen
  <2>1. /\ a \o c \in Seq(Nat) /\ Len(a \o c) = Len(a) + Len(c)
        /\ \A i \in 1..(Len(a) + Len(c)) :
             (a \o c)[i] = IF i <= Len(a) THEN a[i] ELSE c[i - Len(a)]
    BY <1>2, ConcatProperties
  <2>2. 1 \in 1..(Len(a) + Len(c)) /\ 2 \in 1..(Len(a) + Len(c))
    BY <1>1, <1>2
  <2> QED
    BY <1>1, <1>2, <2>1, <2>2
<1> DEFINE ac == a \o c
<1>7. /\ ac \o d \in Seq(Nat) /\ Len(ac \o d) = Ahead(f)
      /\ (ac \o d)[1] = 0 /\ (ac \o d)[2] = TopicLen
      /\ f.qos > 0 => (ac \o d)[2 + TopicLen + 1] = 0 /\ (ac \o d)[2 + TopicLen + 2] = MessageId
  <2>1. ac \in Seq(Nat) /\ Len(ac) = 2 + TopicLen /\ ac[1] = 0 /\ ac[2] = TopicLen
    BY <1>6
  <2> HIDE DEF ac
  <2>2. /\ ac \o d \in Seq(Nat) /\ Len(ac \o d) = Len(ac) + Len(d)
        /\ \A i \in 1..(Len(ac) + Len(d)) :
             (ac \o d)[i] = IF i <= Len(ac) THEN ac[i] ELSE d[i - Len(ac)]
    BY <1>3, <2>1, ConcatProperties
  <2>3. 1 \in 1..(Len(ac) + Len(d)) /\ 2 \in 1..(Len(ac) + Len(d))
    BY <1>1, <1>3, <1>4, <2>1
  <2>4. /\ f.qos > 0 => /\ 2 + TopicLen + 1 \in 1..(Len(ac) + Len(d))
                        /\ 2 + TopicLen + 2 \in 1..(Len(ac) + Len(d))
    BY <1>1, <1>3, <1>4, <2>1, SMTT(30)
  <2>5. (ac \o d)[1] = 0 /\ (ac \o d)[2] = TopicLen
    BY <1>1, <2>1, <2>2, <2>3
  <2>6. ASSUME f.qos > 0
        PROVE  (ac \o d)[2 + TopicLen + 1] = 0 /\ (ac \o d)[2 + TopicLen + 2] = MessageId
    <3>1. /\ ~ (2 + TopicLen + 1 <= Len(ac)) /\ (2 + TopicLen + 1) - Len(ac) = 1
          /\ ~ (2 + TopicLen + 2 <= Len(ac)) /\ (2 + TopicLen + 2) - Len(ac) = 2
      BY <1>1, <2>1
    <3> QED
      BY <1>3, <2>2, <2>4, <2>6, <3>1
  <2>7. Len(ac \o d) = Ahead(f)
    <3>1. Len(ac \o d) = (2 + TopicLen) + (Ahead(f) - 2 - TopicLen)
      BY <1>3, <2>1, <2>2
    <3>2. \A u, v \in Nat : (2 + u) + (v - 2 - u) = v
      OBVIOUS
    <3> QED
      BY <1>1, <1>4, <3>1, <3>2
  <2> QED
    BY <2>2, <2>5, <2>6, <2>7
<1> DEFINE acd == ac \o d
<1>8. /\ acd \o e \in Seq(Nat) /\ Len(acd \o e) = Ahead(f) + f.n
      /\ (acd \o e)[1] = 0 /\ (acd \o e)[2] = TopicLen
      /\ f.qos > 0 => (acd \o e)[2 + TopicLen + 1] = 0 /\ (acd \o e)[2 + TopicLen + 2] = MessageId
      /\ \A i \in 1..f.n : (acd \o e)[Ahead(f) + i] = i
  <2>1. /\ acd \in Seq(Nat) /\ Len(acd) = Ahead(f) /\ acd[1] = 0 /\ acd[2] = TopicLen
        /\ f.qos > 0 => acd[2 + TopicLen + 1] = 0 /\ acd[2 + TopicLen + 2] = MessageId
    BY <1>7
  <2> HIDE DEF acd
  <2>2. /\ acd \o e \in Seq(Nat) /\ Len(acd \o e) = Len(acd) + Len(e)
        /\ \A i \in 1..(Len(acd) + Len(e)) :
             (acd \o e)[i] = IF i <= Len(acd) THEN acd[i] ELSE e[i - Len(acd)]
    BY <1>2, <2>1, ConcatProperties
  <2>3. 1 \in 1..(Len(acd) + Len(e)) /\ 2 \in 1..(Len(acd) + Len(e))
    BY <1>1, <1>2, <1>4, <2>1
  <2>4. f.qos > 0 => 2 + TopicLen + 2 <= Ahead(f)
    BY <1>1 DEF Ahead
  <2>5. ASSUME NEW i \in 1..f.n
        PROVE  (acd \o e)[Ahead(f) + i] = i
    <3>0. i \in Nat /\ 1 <= i /\ i <= f.n
      BY <1>1
    <3>1. /\ Ahead(f) + i \in 1..(Ahead(f) + f.n) /\ ~ (Ahead(f) + i <= Ahead(f))
          /\ (Ahead(f) + i) - Ahead(f) = i
      <4>1. \A u, v, w \in Nat : 1 <= v /\ v <= w =>
              u + v \in 1..(u + w) /\ ~ (u + v <= u) /\ (u + v) - u = v
        OBVIOUS
      <4> QED
        BY <1>1, <1>4, <3>0, <4>1
    <3> QED
      BY <1>2, <2>1, <2>2, <3>1
  <2>6. (acd \o e)[1] = 0 /\ (acd \o e)[2] = TopicLen
    BY <1>1, <1>4, <2>1, <2>2, <2>3
  <2>7. ASSUME f.qos > 0
        PROVE  (acd \o e)[2 + TopicLen + 1] = 0 /\ (acd \o e)[2 + TopicLen + 2] = MessageId
    <3>1. /\ 2 + TopicLen + 1 <= Len(acd) /\ 2 + TopicLen + 1 \in 1..(Len(acd) + Len(e))
          /\ 2 + TopicLen + 2 <= Len(acd) /\ 2 + TopicLen + 2 \in 1..(Len(acd) + Len(e))
      BY <1>1, <1>2, <1>4, <2>1, <2>4, <2>7, SMTT(30)
    <3> QED
      BY <2>1, <2>2, <2>7, <3>1
  <2>8. Len(acd \o e) = Ahead(f) + f.n
    BY <1>2, <2>1, <2>2
  <2> QED
    BY <2>2, <2>5, <2>6, <2>7, <2>8
<1> QED
  BY <1>5, <1>8

LEMMA VarParts ==
  ASSUME NEW f \in FrameSet
  PROVE  /\ VarPart(f) \in Seq(Nat) /\ Body(f) \in Nat /\ Body(f) < Cube
         /\ f.type = CONNACK => Body(f) = 2 /\ VarPart(f)[1] = 0 /\ VarPart(f)[2] = f.n
         /\ f.type = SUBACK => /\ Body(f) = 3 /\ VarPart(f)[1] = 0 /\ VarPart(f)[2] = SubId
                               /\ VarPart(f)[3] = f.n
         /\ f.type = PINGRESP <=> Body(f) = 0
<1>1. /\ f.type \in {CONNACK, PUBLISH, SUBACK, PINGRESP} /\ f.qos \in {0, 1} /\ f.n \in Nat
      /\ f.type = PUBLISH => f.n \in Payloads
  BY FrameTypes
<1>2. 3 < Cube /\ TopicLen \in Nat /\ Cube \in Nat
  <2>1. LenBase \in Nat /\ LenBase >= 2
    BY ParserAssumption
  <2>2. PICK c2 \in Nat : c2 = LenBase * LenBase /\ c2 >= 4
    <3>1. LenBase * LenBase >= 2 * LenBase /\ LenBase * LenBase \in Nat
      BY <2>1
    <3> QED
      BY <2>1, <3>1
  <2>3. Cube = c2 * LenBase * LenBase /\ c2 * LenBase \in Nat
    BY <2>1, <2>2 DEF Cube
  <2>4. c2 * LenBase >= c2
    BY <2>1, <2>2
  <2>5. (c2 * LenBase) * LenBase >= c2 * LenBase /\ (c2 * LenBase) * LenBase \in Nat
    <3>1. PICK c3 \in Nat : c3 = c2 * LenBase
      BY <2>3
    <3>2. c3 * LenBase >= c3 /\ c3 * LenBase \in Nat
      BY <2>1
    <3> QED
      BY <3>1, <3>2
  <2> QED
    BY <2>2, <2>3, <2>4, <2>5, ParserAssumption
<1>3. CASE f.type = CONNACK
  <2>1. VarPart(f) = <<0, f.n>>
    BY <1>3, Distinct DEF VarPart
  <2> QED
    BY <1>1, <1>2, <1>3, <2>1 DEF Body, CONNACK, SUBACK, PINGRESP, PUBLISH
<1>4. CASE f.type = SUBACK
  <2>1. VarPart(f) = <<0, SubId, f.n>>
    BY <1>4, Distinct DEF VarPart
  <2> QED
    BY <1>1, <1>2, <1>4, <2>1 DEF Body, CONNACK, SUBACK, PINGRESP, PUBLISH, SubId
<1>5. CASE f.type = PINGRESP
  <2>1. VarPart(f) = <<>>
    BY <1>5, Distinct DEF VarPart
  <2> QED
    BY <1>1, <1>2, <1>5, <2>1 DEF Body, CONNACK, SUBACK, PINGRESP, PUBLISH
<1>6. CASE f.type = PUBLISH
  <2>1. VarPart(f) \in Seq(Nat) /\ Body(f) = Ahead(f) + f.n
    BY <1>6, VarPartOfPublish DEF Body
  <2>2. Ahead(f) \in Nat /\ Ahead(f) <= 2 + TopicLen + 2 /\ Ahead(f) > 0
    BY <1>1, <1>2 DEF Ahead
  <2>3. 2 + TopicLen + 2 + f.n < Cube
    BY <1>1, <1>6, ParserAssumption DEF Cube
  <2> QED
    BY <1>1, <1>2, <1>6, <2>1, <2>2, <2>3 DEF CONNACK, SUBACK, PINGRESP, PUBLISH
<1> QED
  BY <1>1, <1>3, <1>4, <1>5, <1>6

Header(f) == Len(HeaderOf(f))
Size(f) == Len(Bytes(f))

LEMMA BytesAre ==
  ASSUME NEW f \in FrameSet
  PROVE  /\ Header(f) \in 2..5 /\ Header(f) < BufLen
         /\ Bytes(f) \in Seq(Nat) /\ Size(f) = Header(f) + Body(f) /\ Size(f) \in Nat
         /\ Bytes(f)[1] = f.type * 16 + f.qos * 2
         /\ \A i \in 1..(Header(f) - 2) : Bytes(f)[i + 1] = LenBase + (Rest(Body(f))[i] % LenBase)
         /\ Bytes(f)[Header(f)] = Rest(Body(f))[Header(f) - 1]
         /\ Rest(Body(f))[Header(f) - 1] < LenBase
         /\ \A i \in 1..Body(f) : Bytes(f)[Header(f) + i] = VarPart(f)[i]
<1> DEFINE n == Body(f)
           l == LenBytes(n)
           first == f.type * 16 + f.qos * 2
           v == VarPart(f)
<1>1. n \in Nat /\ n < Cube /\ v \in Seq(Nat) /\ Len(v) = n
  BY VarParts DEF Body
<1>2. first \in Nat
  BY FrameTypes DEF CONNACK, PUBLISH, SUBACK, PINGRESP
<1>3. /\ l \in Seq(Nat) /\ Len(l) \in 1..4
      /\ \A i \in 1..(Len(l) - 1) : l[i] = LenBase + (Rest(n)[i] % LenBase)
      /\ l[Len(l)] = Rest(n)[Len(l)] /\ Rest(n)[Len(l)] < LenBase
  <2> HIDE DEF n
  <2> QED
    BY <1>1, LenBytesAre
<1>4. HeaderOf(f) = <<first>> \o l /\ Bytes(f) = (<<first>> \o l) \o v
  BY DEF HeaderOf, Bytes, Body
<1> HIDE DEF n, l, first, v
<1>5. /\ <<first>> \o l \in Seq(Nat) /\ Len(<<first>> \o l) = 1 + Len(l)
      /\ (<<first>> \o l)[1] = first /\ \A i \in 1..Len(l) : (<<first>> \o l)[i + 1] = l[i]
  BY <1>2, <1>3
<1> DEFINE h == <<first>> \o l
<1>6. Header(f) = Len(h) /\ Len(h) = 1 + Len(l) /\ Len(h) \in 2..5
  <2>1. Header(f) = Len(h)
    BY <1>4 DEF Header
  <2>2. Len(h) = 1 + Len(l)
    BY <1>5
  <2>3. Len(h) \in 2..5
    <3>1. Len(l) \in 1..4
      BY <1>3
    <3>2. \A k \in 1..4 : 1 + k \in 2..5
      OBVIOUS
    <3> QED
      BY ONLY <2>2, <3>1, <3>2
  <2> QED
    BY <2>1, <2>2, <2>3
<1>7. /\ h \o v \in Seq(Nat) /\ Len(h \o v) = Len(h) + n
      /\ \A i \in 1..(Len(h) + Len(v)) : (h \o v)[i] = IF i <= Len(h) THEN h[i] ELSE v[i - Len(h)]
  <2>1. h \in Seq(Nat)
    BY <1>5
  <2> HIDE DEF h
  <2> QED
    BY <1>1, <2>1, ConcatProperties
<1>8. \A i \in 1..Len(h) : (h \o v)[i] = h[i]
  <2> HIDE DEF h
  <2> QED
    BY <1>1, <1>6, <1>7
<1>9. \A i \in 1..n : (h \o v)[Len(h) + i] = v[i]
  <2> HIDE DEF h
  <2>1. ASSUME NEW i \in 1..n
        PROVE  (h \o v)[Len(h) + i] = v[i]
    <3>1. /\ Len(h) + i \in 1..(Len(h) + n) /\ ~ (Len(h) + i <= Len(h))
          /\ (Len(h) + i) - Len(h) = i
      BY <1>1, <1>6
    <3> QED
      BY <1>1, <1>7, <3>1
  <2> QED
    BY <2>1
<1>10. \A i \in 1..Len(l) : i + 1 \in 1..Len(h) /\ h[i + 1] = l[i]
  BY <1>3, <1>5, <1>6
<1>11. h[1] = first /\ 1 \in 1..Len(h)
  BY <1>5, <1>6
<1> HIDE DEF h
<1>12. Bytes(f) = h \o v
  BY <1>4 DEF h
<1>13. \A i \in 1..Len(l) : Bytes(f)[i + 1] = l[i]
  BY <1>8, <1>10, <1>12
<1>14. Header(f) \in 2..5 /\ Header(f) < BufLen
  <2>1. BufLen \in Nat /\ BufLen > 5
    BY ParserAssumption
  <2> QED
    BY <1>6, <2>1
<1>15. Bytes(f) \in Seq(Nat) /\ Size(f) = Header(f) + n /\ Size(f) \in Nat
  BY <1>1, <1>6, <1>7, <1>12 DEF Size
<1>16. Bytes(f)[1] = first
  BY <1>8, <1>11, <1>12
<1>17. \A i \in 1..(Header(f) - 2) : Bytes(f)[i + 1] = LenBase + (Rest(n)[i] % LenBase)
  <2>1. Header(f) - 2 = Len(l) - 1
    BY <1>3, <1>6
  <2> QED
    BY <1>3, <1>13, <2>1
<1>18. Bytes(f)[Header(f)] = Rest(n)[Header(f) - 1] /\ Rest(n)[Header(f) - 1] < LenBase
  <2>1. Header(f) = Len(l) + 1 /\ Header(f) - 1 = Len(l) /\ Len(l) \in 1..Len(l)
    BY <1>3, <1>6
  <2> QED
    BY <1>3, <1>13, <2>1
<1>19. \A i \in 1..n : Bytes(f)[Header(f) + i] = v[i]
  BY <1>6, <1>9, <1>12
<1> QED
  BY <1>14, <1>15, <1>16, <1>17, <1>18, <1>19 DEF n, first, v

\* What msg_rem_len is after x bytes of the header, fewer than all.
Partial(f, x, rem) ==
  IF x = 0 THEN rem = 0 ELSE rem + Rest(Body(f))[x] * Power[x] = Body(f)

\* One more byte of the header: it says whether another one follows, and after
\* the last one the remaining length is known.
LEMMA HeaderStep ==
  ASSUME NEW f \in FrameSet, NEW x \in 0..(Header(f) - 1), NEW rem \in Nat, Partial(f, x, rem),
         NEW c, c = Bytes(f)[x + 1],
         NEW sum, sum = IF x + 1 < 2 THEN rem ELSE rem + (c % LenBase) * Power[x]
  PROVE  /\ c \in Nat /\ sum \in Nat
         /\ x + 1 < Header(f) => Partial(f, x + 1, sum) /\ (x + 1 >= 2 => c >= LenBase)
         /\ x + 1 = Header(f) => sum = Body(f) /\ c < LenBase
<1> DEFINE n == Body(f)
           h == Header(f)
<1>1. /\ h \in 2..5 /\ n \in Nat /\ LenBase \in Nat /\ LenBase > 0
      /\ \A i \in 1..(h - 2) : Bytes(f)[i + 1] = LenBase + (Rest(n)[i] % LenBase)
      /\ Bytes(f)[h] = Rest(n)[h - 1] /\ Rest(n)[h - 1] < LenBase
  BY BytesAre, VarParts, ParserAssumption
<1>2. c \in Nat
  <2>1. Bytes(f) \in Seq(Nat) /\ Len(Bytes(f)) >= h
    BY <1>1, BytesAre DEF Size
  <2>2. x + 1 \in 1..Len(Bytes(f))
    BY <1>1, <2>1
  <2> QED
    BY <2>1, <2>2
<1>3. CASE x = 0
  <2>1. rem = 0 /\ sum = 0
    BY <1>3 DEF Partial
  <2>2. x + 1 # h /\ x + 1 = 1
    BY <1>1, <1>3
  <2>3. Partial(f, 1, 0)
    <3>1. Rest(n)[1] * Power[1] = n
      BY <1>1, RestStep, PowerStep
    <3> QED
      BY <1>1, <3>1 DEF Partial
  <2> QED
    BY <1>2, <2>1, <2>2, <2>3
<1>4. CASE x # 0
  <2>1. x \in 1..(h - 1) /\ x \in 1..4 /\ x + 1 >= 2
    BY <1>1, <1>4
  <2>2. PICK a \in Nat, p \in Nat : a = Rest(n)[x] /\ p = Power[x]
    <3>1. Rest(n)[x] \in Nat
      BY <1>1, <2>1, RestStep
    <3>2. Power[x] \in Nat
      <4>1. \A i \in 1..3 : Power[i] \in Nat
        BY PowerStep
      <4>2. Power[4] \in Nat
        BY <4>1, PowerStep, <1>1 DEF Power
      <4> QED
        BY <2>1, <4>1, <4>2
    <3> QED
      BY <3>1, <3>2
  <2>3. rem + a * p = n
    BY <1>4, <2>2 DEF Partial
  <2>4. sum = rem + (c % LenBase) * p
    BY <2>1, <2>2
  <2>5. CASE x + 1 < h
    <3>1. x \in 1..(h - 2) /\ x \in 1..3
      BY <1>1, <2>1, <2>5
    <3>2. PICK q \in Nat, r \in Nat : q = a \div LenBase /\ r = a % LenBase /\ a = q * LenBase + r /\ r < LenBase
      BY <1>1, DivMod
    <3>3. c = LenBase + r
      BY <1>1, <2>2, <3>1, <3>2
    <3>4. c % LenBase = r
      <4>1. (LenBase + r) % LenBase = r
        BY <1>1, <3>2, ModIs
      <4> QED
        BY <3>3, <4>1
    <3>5. Rest(n)[x + 1] = q
      BY <1>1, <2>2, <3>1, <3>2, RestStep
    <3>6. Power[x + 1] = p * LenBase
      BY <2>2, <3>1, PowerStep
    <3>7. r * p + q * (LenBase * p) = a * p
      BY <1>1, <3>2, Products
    <3>8. r * p \in Nat /\ sum = rem + r * p
      BY <2>4, <3>4
    <3>9. sum + q * (p * LenBase) = n
      <4>1. q * (p * LenBase) = q * (LenBase * p) /\ q * (LenBase * p) \in Nat /\ a * p \in Nat
        BY <1>1
      <4> QED
        BY <2>3, <3>7, <3>8, <4>1
    <3>10. Partial(f, x + 1, sum)
      BY <2>1, <3>5, <3>6, <3>9 DEF Partial
    <3>11. sum \in Nat /\ c >= LenBase /\ x + 1 # h
      BY <1>1, <2>5, <3>2, <3>3, <3>8
    <3> QED
      BY <1>2, <3>10, <3>11
  <2>6. CASE x + 1 = h
    <3>1. x = h - 1
      BY <2>1, <2>6
    <3>2. c = a /\ a < LenBase
      BY <1>1, <2>2, <2>6, <3>1
    <3>3. c % LenBase = a
      BY <1>1, <2>2, <3>2, ModIs
    <3>4. sum = n
      BY <2>3, <2>4, <3>3
    <3> QED
      BY <1>1, <1>2, <2>6, <3>2, <3>4
  <2> QED
    BY <1>1, <2>1, <2>5, <2>6
<1> QED
  BY <1>3, <1>4

-----------------------------------------------------------------------------
(* The bytes of the stream                                                 *)

\* How many bytes are ahead of the i-th frame.
Start(fs, i) == Len(Encode(SubSeq(fs, 1, i - 1)))

BytesOf(fs) == [i \in DOMAIN fs |-> Bytes(fs[i])]

LEMMA BytesOfType ==
  ASSUME NEW fs \in Seq(FrameSet)
  PROVE  /\ BytesOf(fs) \in Seq(Seq(Nat)) /\ Len(BytesOf(fs)) = Len(fs)
         /\ \A i \in 1..Len(fs) : BytesOf(fs)[i] = Bytes(fs[i]) /\ fs[i] \in FrameSet
         /\ Encode(fs) = UpTo(BytesOf(fs), Len(fs))
         /\ \A i \in 1..(Len(fs) + 1) : Start(fs, i) = Len(UpTo(BytesOf(fs), i - 1))
<1>1. \A i \in 1..Len(fs) : fs[i] \in FrameSet /\ Bytes(fs[i]) \in Seq(Nat)
  BY BytesAre
<1>2. /\ BytesOf(fs) \in Seq(Seq(Nat)) /\ Len(BytesOf(fs)) = Len(fs)
      /\ \A i \in 1..Len(fs) : BytesOf(fs)[i] = Bytes(fs[i])
  BY <1>1 DEF BytesOf
<1>3. Encode(fs) = UpTo(BytesOf(fs), Len(fs))
  <2>1. Encode(fs) = FlattenSeq(BytesOf(fs))
    BY DEF Encode, BytesOf
  <2> QED
    BY <1>2, <2>1, UpToEnds
<1>4. ASSUME NEW i \in 1..(Len(fs) + 1)
      PROVE  Start(fs, i) = Len(UpTo(BytesOf(fs), i - 1))
  <2> DEFINE t == SubSeq(fs, 1, i - 1)
  <2>1. Len(t) = i - 1 /\ DOMAIN t = 1..(i - 1) /\ \A k \in 1..(i - 1) : t[k] = fs[k]
    OBVIOUS
  <2>2. BytesOf(t) = SubSeq(BytesOf(fs), 1, i - 1)
    <3>1. BytesOf(t) = [k \in 1..(i - 1) |-> Bytes(fs[k])]
      BY <2>1 DEF BytesOf
    <3>2. /\ SubSeq(BytesOf(fs), 1, i - 1) = [k \in 1..(i - 1) |-> BytesOf(fs)[k]]
          /\ \A k \in 1..(i - 1) : BytesOf(fs)[k] = Bytes(fs[k])
      BY <1>2
    <3> QED
      BY <3>1, <3>2
  <2>3. Encode(t) = FlattenSeq(BytesOf(t))
    BY DEF Encode, BytesOf
  <2> QED
    BY <2>2, <2>3 DEF Start, UpTo
<1> QED
  BY <1>1, <1>2, <1>3, <1>4

LEMMA StartStep ==
  ASSUME NEW fs \in Seq(FrameSet)
  PROVE  /\ Start(fs, 1) = 0 /\ Len(Encode(fs)) = Start(fs, Len(fs) + 1) /\ Encode(fs) \in Seq(Nat)
         /\ \A j \in 1..(Len(fs) + 1) : Start(fs, j) \in Nat
         /\ \A j \in 1..Len(fs) : Start(fs, j + 1) = Start(fs, j) + Size(fs[j])
<1> DEFINE s == BytesOf(fs)
<1>1. /\ s \in Seq(Seq(Nat)) /\ Len(s) = Len(fs) /\ Len(fs) \in Nat
      /\ \A i \in 1..Len(fs) : s[i] = Bytes(fs[i]) /\ fs[i] \in FrameSet
      /\ Encode(fs) = UpTo(s, Len(fs))
      /\ \A i \in 1..(Len(fs) + 1) : Start(fs, i) = Len(UpTo(s, i - 1))
  BY BytesOfType
<1> HIDE DEF s
<1>2. UpTo(s, 0) = <<>> /\ \A n \in 0..Len(fs) : UpTo(s, n) \in Seq(Nat)
  BY <1>1, UpToEnds, UpToType
<1>3. Start(fs, 1) = 0
  <2>1. Start(fs, 1) = Len(UpTo(s, 1 - 1)) /\ 1 - 1 = 0
    BY <1>1
  <2>2. Len(<<>>) = 0
    OBVIOUS
  <2> QED
    BY <1>2, <2>1, <2>2
<1>4. Len(Encode(fs)) = Start(fs, Len(fs) + 1) /\ Encode(fs) \in Seq(Nat)
  BY <1>1, <1>2
<1>5. ASSUME NEW j \in 1..(Len(fs) + 1)
      PROVE  Start(fs, j) \in Nat
  <2>1. j - 1 \in 0..Len(fs)
    BY <1>1
  <2>2. UpTo(s, j - 1) \in Seq(Nat)
    BY <1>2, <2>1
  <2> QED
    BY <1>1, <2>2
<1>6. ASSUME NEW j \in 1..Len(fs)
      PROVE  Start(fs, j + 1) = Start(fs, j) + Size(fs[j])
  <2>1. /\ j - 1 \in 0..(Len(s) - 1) /\ (j - 1) + 1 = j /\ j - 1 \in 0..Len(fs)
        /\ j \in 1..(Len(fs) + 1) /\ j + 1 \in 1..(Len(fs) + 1) /\ (j + 1) - 1 = j
    BY <1>1
  <2>2. UpTo(s, (j - 1) + 1) = UpTo(s, j - 1) \o s[(j - 1) + 1]
    BY <1>1, <2>1, UpToStep
  <2>3. UpTo(s, j - 1) \in Seq(Nat) /\ s[j] \in Seq(Nat)
    BY <1>1, <1>2, <2>1, SMTT(30)
  <2>4. UpTo(s, j) = UpTo(s, j - 1) \o s[j]
    BY <2>1, <2>2
  <2>5. Len(UpTo(s, j)) = Len(UpTo(s, j - 1)) + Len(s[j])
    BY <2>3, <2>4, ConcatProperties
  <2> QED
    BY <1>1, <2>1, <2>5 DEF Size
<1> QED
  BY <1>3, <1>4, <1>5, <1>6

\* The bytes of the frames stand on the wire one frame after the other.
LEMMA WireAt ==
  ASSUME NEW fs \in Seq(FrameSet), NEW j \in 1..Len(fs), NEW m \in 1..Size(fs[j])
  PROVE  Encode(fs)[Start(fs, j) + m] = Bytes(fs[j])[m]
<1> DEFINE s == BytesOf(fs)
           x == Start(fs, j) + m
           S == {n \in Nat : n \in j..Len(fs) => x \in 1..Len(UpTo(s, n)) /\ UpTo(s, n)[x] = Bytes(fs[j])[m]}
<1>1. /\ s \in Seq(Seq(Nat)) /\ Len(s) = Len(fs) /\ Len(fs) \in Nat
      /\ \A i \in 1..Len(fs) : s[i] = Bytes(fs[i]) /\ fs[i] \in FrameSet
      /\ Encode(fs) = UpTo(s, Len(fs))
      /\ \A i \in 1..(Len(fs) + 1) : Start(fs, i) = Len(UpTo(s, i - 1))
  BY BytesOfType
<1>2. UpTo(s, 0) = <<>> /\ \A n \in 0..Len(fs) : UpTo(s, n) \in Seq(Nat)
  <2> HIDE DEF s
  <2> QED
    BY <1>1, UpToEnds, UpToType
<1>3. Start(fs, j) \in Nat /\ Size(fs[j]) \in Nat /\ x \in Nat
  BY <1>1, StartStep, BytesAre, SMTT(30)
<1>4. 0 \in S
  OBVIOUS
<1>5. ASSUME NEW n \in S
      PROVE  n + 1 \in S
  <2> SUFFICES ASSUME n + 1 \in j..Len(fs)
               PROVE  x \in 1..Len(UpTo(s, n + 1)) /\ UpTo(s, n + 1)[x] = Bytes(fs[j])[m]
    OBVIOUS
  <2>1. n \in Nat /\ n \in 0..(Len(s) - 1) /\ n \in 0..Len(fs) /\ n + 1 \in 1..Len(fs)
    BY <1>1
  <2>2. \/ x \in 1..Len(UpTo(s, n)) /\ UpTo(s, n)[x] = Bytes(fs[j])[m]
        \/ n + 1 = j
    OBVIOUS
  <2> HIDE DEF S, s, x
  <2>3. UpTo(s, n) \in Seq(Nat) /\ s[n + 1] \in Seq(Nat)
    BY <1>1, <1>2, <2>1
  <2>4. UpTo(s, n + 1) = UpTo(s, n) \o s[n + 1]
    BY <1>1, <2>1, UpToStep
  <2> DEFINE u == UpTo(s, n)
             v == s[n + 1]
  <2>5. u \in Seq(Nat) /\ v \in Seq(Nat)
    BY <2>3
  <2>6. CASE x \in 1..Len(u) /\ u[x] = Bytes(fs[j])[m]
    <3> HIDE DEF u, v
    <3>1. x \in 1..Len(u \o v) /\ (u \o v)[x] = u[x]
      BY <2>5, <2>6
    <3> QED
      BY <2>4, <2>6, <3>1 DEF u, v
  <2>7. CASE n + 1 = j
    <3>0. v = s[j] /\ s[j] = Bytes(fs[j])
      BY <1>1, <2>7
    <3>1. n = j - 1 /\ v = Bytes(fs[j]) /\ Len(v) = Size(fs[j])
      BY <2>1, <2>7, <3>0 DEF Size
    <3>2. Start(fs, j) = Len(u)
      BY <1>1, <3>1
    <3>3. x = Len(u) + m
      BY <3>2 DEF x
    <3> HIDE DEF u, v
    <3>4. m \in 1..Len(v)
      BY <3>1
    <3>5. x \in 1..Len(u \o v) /\ (u \o v)[x] = v[m]
      BY <2>5, <3>3, <3>4
    <3> QED
      BY <2>4, <3>1, <3>5 DEF u, v
  <2> QED
    BY <2>2, <2>6, <2>7
<1>6. S \in SUBSET Nat
  OBVIOUS
<1>7. S = Nat
  <2> HIDE DEF S
  <2> QED
    BY <1>4, <1>5, <1>6, Induction
<1>8. UpTo(s, Len(fs))[x] = Bytes(fs[j])[m]
  <2>1. Len(fs) \in S /\ Len(fs) \in j..Len(fs)
    <3> HIDE DEF S
    <3> QED
      BY <1>1, <1>7
  <2> HIDE DEF s, x
  <2> QED
    BY <2>1
<1> QED
  BY <1>1, <1>8

LEMMA StartsGrow ==
  ASSUME NEW fs \in Seq(FrameSet), NEW i \in 1..Len(fs)
  PROVE  \A j \in (i + 1)..(Len(fs) + 1) : Start(fs, i) + Size(fs[i]) <= Start(fs, j)
<1> DEFINE S == {j \in Nat : j \in (i + 1)..(Len(fs) + 1) => Start(fs, i) + Size(fs[i]) <= Start(fs, j)}
<1>1. /\ Len(fs) \in Nat
      /\ \A j \in 1..(Len(fs) + 1) : Start(fs, j) \in Nat
      /\ \A j \in 1..Len(fs) : Start(fs, j + 1) = Start(fs, j) + Size(fs[j]) /\ Size(fs[j]) \in Nat
  BY StartStep, BytesAre, SMTT(30)
<1>2. 0 \in S
  OBVIOUS
<1>3. ASSUME NEW j \in S
      PROVE  j + 1 \in S
  <2>1. CASE j + 1 = i + 1
    BY <1>1, <2>1
  <2>2. CASE j + 1 \in (i + 1)..(Len(fs) + 1) /\ j + 1 # i + 1
    <3>1. j \in (i + 1)..(Len(fs) + 1) /\ j \in 1..Len(fs) /\ j + 1 \in 1..(Len(fs) + 1)
      BY <1>1, <2>2
    <3>2. Start(fs, i) + Size(fs[i]) <= Start(fs, j)
      BY <3>1
    <3>3. Start(fs, i) \in Nat /\ Size(fs[i]) \in Nat
      BY <1>1
    <3> QED
      BY <1>1, <3>1, <3>2, <3>3
  <2> QED
    BY <2>1, <2>2
<1>4. S \in SUBSET Nat
  OBVIOUS
<1>5. S = Nat
  <2> HIDE DEF S
  <2> QED
    BY <1>2, <1>3, <1>4, Induction
<1>6. ASSUME NEW j \in (i + 1)..(Len(fs) + 1)
      PROVE  Start(fs, i) + Size(fs[i]) <= Start(fs, j)
  <2>1. j \in S
    <3> HIDE DEF S
    <3>1. j \in Nat
      BY <1>1
    <3> QED
      BY <1>5, <3>1
  <2> QED
    BY <2>1
<1> QED
  BY <1>6

-----------------------------------------------------------------------------
(* The calls that the stream brings about                                  *)

LEMMA MaxIs ==
  ASSUME NEW a \in Int, NEW c \in Int
  PROVE  Max({a, c}) = IF a >= c THEN a ELSE c
<1> DEFINE m == IF a >= c THEN a ELSE c
<1>1. m \in {a, c} /\ \A y \in {a, c} : m >= y
  OBVIOUS
<1>2. \A x \in {a, c} : (\A y \in {a, c} : x >= y) => x = m
  OBVIOUS
<1> HIDE DEF m
<1>3. Max({a, c}) = m
  BY <1>1, <1>2 DEF Max
<1> QED
  BY <1>3 DEF m

LEMMA MinIs ==
  ASSUME NEW a \in Int, NEW c \in Int
  PROVE  Min({a, c}) = IF a <= c THEN a ELSE c
<1> DEFINE m == IF a <= c THEN a ELSE c
<1>1. m \in {a, c} /\ \A y \in {a, c} : m =< y
  OBVIOUS
<1>2. \A x \in {a, c} : (\A y \in {a, c} : x =< y) => x = m
  OBVIOUS
<1> HIDE DEF m
<1>3. Min({a, c}) = m
  BY <1>1, <1>2 DEF Min
<1> QED
  BY <1>3 DEF m

CallSet == [fn : {"connect_cb", "pub_cb", "data_cb", "suback", "PUBACK"}, n : Nat,
            data : Seq(Nat), last : BOOLEAN]

\* The first bytes of a piece of the payload.
Count(base, d) == [i \in 1..d |-> base + i]

LEMMA CountIs ==
  ASSUME NEW base \in Nat, NEW d \in Int
  PROVE  /\ Count(base, d) \in Seq(Nat) /\ Len(Count(base, d)) \in Nat
         /\ Count(base, d) = [i \in 1..d |-> base + i]
         /\ d >= 0 => Len(Count(base, d)) = d /\ (Count(base, d) = <<>> <=> d = 0)
<1>1. CASE d >= 0
  BY <1>1 DEF Count
<1>2. CASE ~ (d >= 0)
  <2>1. 1..d = {}
    BY <1>2
  <2>2. Count(base, d) = <<>>
    BY <2>1 DEF Count
  <2>3. <<>> \in Seq(Nat) /\ Len(<<>>) = 0
    OBVIOUS
  <2> QED
    BY <1>2, <2>2, <2>3 DEF Count
<1> QED
  BY <1>1, <1>2

LEMMA FrameSizes ==
  ASSUME NEW f \in FrameSet
  PROVE  /\ Room(f) = BufLen - Header(f) /\ Room(f) \in Nat /\ Room(f) > 2 + TopicLen + 2
         /\ Ahead(f) \in Nat /\ Ahead(f) > 0 /\ Ahead(f) < Room(f) /\ Body(f) \in Nat
         /\ Header(f) \in 2..5 /\ Size(f) = Header(f) + Body(f) /\ Size(f) \in Nat
         /\ f.type = PUBLISH => Body(f) = Ahead(f) + f.n /\ f.n \in Nat
         /\ f.type # PUBLISH => Body(f) < Room(f) /\ Body(f) <= 3
<1>1. Header(f) \in 2..5 /\ Size(f) = Header(f) + Body(f) /\ Size(f) \in Nat
  BY BytesAre
<1>2. BufLen \in Nat /\ BufLen > 5 + 2 + TopicLen + 2 /\ TopicLen \in Nat
  BY ParserAssumption
<1>3. Room(f) = BufLen - Header(f) /\ Room(f) \in Nat /\ Room(f) > 2 + TopicLen + 2
  <2>1. Room(f) = BufLen - Header(f)
    BY DEF Room, Header
  <2> QED
    BY <1>1, <1>2, <2>1
<1>4. /\ f.qos \in {0, 1} /\ f.n \in Nat
      /\ f.type \in {CONNACK, PUBLISH, SUBACK, PINGRESP} /\ Body(f) \in Nat
      /\ f.type = CONNACK => Body(f) = 2
      /\ f.type = SUBACK => Body(f) = 3
      /\ f.type = PINGRESP => Body(f) = 0
  BY FrameTypes, VarParts
<1>5. Ahead(f) \in Nat /\ Ahead(f) > 0 /\ Ahead(f) < Room(f)
  BY <1>2, <1>3, <1>4 DEF Ahead
<1>6. f.type = PUBLISH => Body(f) = Ahead(f) + f.n
  BY VarPartOfPublish DEF Body
<1>7. f.type # PUBLISH => Body(f) < Room(f) /\ Body(f) <= 3
  <2>1. Room(f) > 4
    BY <1>2, <1>3
  <2> QED
    BY <1>3, <1>4, <2>1
<1> QED
  BY <1>1, <1>3, <1>4, <1>5, <1>6, <1>7

LEMMA PieceType ==
  ASSUME NEW f \in FrameSet, f.type = PUBLISH, NEW i \in Nat
  PROVE  Piece(f, i) \in Seq(CallSet)
<1> DEFINE a == (i - 1) * Room(f) - (Body(f) - f.n)
           c == i * Room(f) - (Body(f) - f.n)
           data == Count(From(f, i), To(f, i) - From(f, i))
           last == i * Room(f) >= Body(f)
           call == Call("data_cb", Len(data), data, last)
<1>1. Room(f) \in Nat /\ Body(f) \in Nat /\ f.n \in Nat
  BY FrameSizes
<1>2. a \in Int /\ c \in Int
  BY <1>1
<1>3. From(f, i) \in Nat /\ To(f, i) \in Int
  <2>1. From(f, i) = Max({0, a}) /\ To(f, i) = Min({f.n, c})
    BY DEF From, To
  <2> HIDE DEF a, c
  <2>2. Max({0, a}) = (IF 0 >= a THEN 0 ELSE a) /\ Min({f.n, c}) = IF f.n <= c THEN f.n ELSE c
    BY <1>1, <1>2, MaxIs, MinIs
  <2> QED
    BY <1>1, <1>2, <2>1, <2>2
<1>4. data \in Seq(Nat) /\ Len(data) \in Nat
  <2>1. To(f, i) - From(f, i) \in Int
    BY <1>3
  <2> QED
    BY <1>3, <2>1, CountIs
<1>5. Piece(f, i) = IF data = <<>> /\ ~last THEN <<>> ELSE <<call>>
  BY DEF Piece, Count
<1>6. call \in CallSet
  <2> HIDE DEF data
  <2>1. last \in BOOLEAN
    OBVIOUS
  <2> HIDE DEF last
  <2> QED
    BY <1>4, <2>1 DEF Call, CallSet
<1> HIDE DEF call, data, last
<1>7. <<>> \in Seq(CallSet) /\ <<call>> \in Seq(CallSet)
  BY <1>6
<1> QED
  BY <1>5, <1>7

\* The pieces of a PUBLISH and what is said before and after them.
Parts(f, m) == [i \in 1..m |-> Piece(f, i)]
Opening(f, m) == IF m = 0 THEN <<>> ELSE <<Call("pub_cb", f.n, <<>>, TRUE)>>
Closing(f, k) == IF k = Size(f) /\ f.qos > 0 THEN <<Call("PUBACK", MessageId, <<>>, TRUE)>> ELSE <<>>

LEMMA CallsOfPublish ==
  ASSUME NEW f \in FrameSet, f.type = PUBLISH, NEW k
  PROVE  CallsOf(f, k) = (Opening(f, Pieces(f, k)) \o FlattenSeq(Parts(f, Pieces(f, k)))) \o Closing(f, k)
BY Distinct, Zenon DEF CallsOf, Opening, Parts, Closing, Size

LEMMA CallsOfOther ==
  ASSUME NEW f \in FrameSet, f.type # PUBLISH, NEW k
  PROVE  CallsOf(f, k) =
           IF f.type = CONNACK /\ k = Size(f) /\ f.n = 0 THEN <<Call("connect_cb", 0, <<>>, TRUE)>>
           ELSE IF f.type = SUBACK /\ k = Size(f) THEN <<Call("suback", f.n, <<>>, TRUE)>>
           ELSE <<>>
<1>1. CASE f.type = CONNACK /\ k = Size(f) /\ f.n = 0
  BY <1>1, Distinct DEF CallsOf, Size
<1>2. CASE f.type = SUBACK /\ k = Size(f)
  BY <1>2, Distinct DEF CallsOf, Size
<1>3. CASE ~ (f.type = CONNACK /\ k = Size(f) /\ f.n = 0) /\ ~ (f.type = SUBACK /\ k = Size(f))
  BY <1>3, Distinct DEF CallsOf, Size
<1> QED
  BY <1>1, <1>2, <1>3, Distinct

LEMMA Singleton ==
  ASSUME NEW X, NEW x \in X
  PROVE  <<x>> \in Seq(X) /\ <<>> \in Seq(X)
OBVIOUS

LEMMA OpeningType ==
  ASSUME NEW f \in FrameSet, NEW m, NEW k
  PROVE  Opening(f, m) \in Seq(CallSet) /\ Closing(f, k) \in Seq(CallSet)
<1>1. f.n \in Nat /\ <<>> \in Seq(Nat) /\ MessageId \in Nat
  BY FrameTypes DEF MessageId
<1>2. Call("pub_cb", f.n, <<>>, TRUE) \in CallSet /\ Call("PUBACK", MessageId, <<>>, TRUE) \in CallSet
  BY <1>1 DEF Call, CallSet
<1>3. /\ <<>> \in Seq(CallSet) /\ <<Call("pub_cb", f.n, <<>>, TRUE)>> \in Seq(CallSet)
      /\ <<Call("PUBACK", MessageId, <<>>, TRUE)>> \in Seq(CallSet)
  BY <1>2, Singleton
<1> QED
  BY <1>3 DEF Opening, Closing

LEMMA PartsType ==
  ASSUME NEW f \in FrameSet, f.type = PUBLISH, NEW m \in Nat
  PROVE  Parts(f, m) \in Seq(Seq(CallSet)) /\ Len(Parts(f, m)) = m /\ FlattenSeq(Parts(f, m)) \in Seq(CallSet)
<1>1. \A i \in 1..m : Piece(f, i) \in Seq(CallSet)
  BY PieceType
<1>2. Parts(f, m) \in Seq(Seq(CallSet)) /\ Len(Parts(f, m)) = m
  BY <1>1 DEF Parts
<1> QED
  BY <1>2, FlattenType

LEMMA PartsStep ==
  ASSUME NEW f \in FrameSet, f.type = PUBLISH, NEW m \in Nat
  PROVE  FlattenSeq(Parts(f, m + 1)) = FlattenSeq(Parts(f, m)) \o Piece(f, m + 1)
<1> DEFINE s == Parts(f, m)
           t == Parts(f, m + 1)
<1>1. /\ s \in Seq(Seq(CallSet)) /\ t \in Seq(Seq(CallSet)) /\ Len(t) = m + 1 /\ Len(s) = m
  BY PartsType
<1>2. Agree(s, t, Len(s)) /\ t[m + 1] = Piece(f, m + 1)
  BY <1>1 DEF Parts, Agree
<1> HIDE DEF s, t
<1>3. FlattenSeq(t) = FlattenSeq(s) \o t[Len(t)]
  BY <1>1, <1>2, FlattenMore
<1> QED
  BY <1>1, <1>2, <1>3 DEF s, t

\* Written so that the provers meet the product only where it matters.
Times(x, y) == x * y

\* How many pieces there are when p times Room and r more bytes have come.
LEMMA PiecesAre ==
  ASSUME NEW f \in FrameSet, NEW p \in Nat, NEW q, q = Times(p, Room(f)), NEW r \in Nat,
         NEW k, k = Header(f) + (q + r)
  PROVE  /\ q + r < Body(f) /\ r < Room(f) => Pieces(f, k) = p
         /\ q + r = Body(f) /\ 1 <= r /\ r <= Room(f) => Pieces(f, k) = p + 1
<1>1. /\ Room(f) \in Nat /\ Room(f) > 0 /\ Header(f) \in Nat /\ q \in Nat
      /\ q = p * Room(f)
  BY FrameSizes DEF Times
<1>2. k - Len(HeaderOf(f)) = q + r
  <2>1. k - Header(f) = q + r
    BY <1>1
  <2> QED
    BY <2>1 DEF Header
<1>3. Pieces(f, k) = IF q + r < 0 THEN 0
                     ELSE IF q + r = Body(f) THEN (Body(f) + Room(f) - 1) \div Room(f)
                     ELSE (q + r) \div Room(f)
  BY <1>2 DEF Pieces
<1>4. ASSUME q + r < Body(f), r < Room(f)
      PROVE  Pieces(f, k) = p
  <2>1. (q + r) \div Room(f) = p
    BY <1>1, <1>4, DivIs
  <2>2. ~ (q + r < 0) /\ q + r # Body(f)
    BY <1>1, <1>4, FrameSizes
  <2> QED
    BY <1>3, <2>1, <2>2
<1>5. ASSUME q + r = Body(f), 1 <= r, r <= Room(f)
      PROVE  Pieces(f, k) = p + 1
  <2>1. PICK d \in Nat : d = r - 1 /\ d < Room(f)
    BY <1>1, <1>5
  <2>2. (p + 1) * Room(f) = q + Room(f)
    BY <1>1
  <2>3. Body(f) + Room(f) - 1 = (p + 1) * Room(f) + d
    BY <1>1, <1>5, <2>1, <2>2
  <2>4. p + 1 \in Nat
    OBVIOUS
  <2>5. (Body(f) + Room(f) - 1) \div Room(f) = p + 1
    BY <1>1, <2>1, <2>3, <2>4, DivIs
  <2> QED
    BY <1>1, <1>3, <1>5, <2>5
<1> QED
  BY <1>4, <1>5

\* Nothing is called before the byte behind the header.
LEMMA NoCallsYet ==
  ASSUME NEW f \in FrameSet, NEW k \in 0..Header(f)
  PROVE  CallsOf(f, k) = <<>>
<1>1. Header(f) \in 2..5 /\ Size(f) = Header(f) + Body(f) /\ Body(f) \in Nat
  BY FrameSizes
<1>2. CASE f.type = PUBLISH
  <2>1. Body(f) > 0
    BY <1>2, FrameSizes
  <2>2. k # Size(f)
    BY <1>1, <2>1
  <2>3. Pieces(f, k) = 0
    <3>1. CASE k < Header(f)
      <4>1. k - Len(HeaderOf(f)) < 0
        BY <1>1, <3>1 DEF Header
      <4> QED
        BY <4>1 DEF Pieces
    <3>2. CASE k = Header(f)
      <4>1. 0 = Times(0, Room(f)) /\ k = Header(f) + (0 + 0) /\ 0 + 0 < Body(f) /\ 0 < Room(f)
        BY <1>1, <2>1, <3>2, FrameSizes DEF Times
      <4> DEFINE z == 0
      <4>2. z \in Nat /\ z = Times(z, Room(f)) /\ k = Header(f) + (z + z) /\ z + z < Body(f) /\ z < Room(f)
        BY <4>1
      <4> HIDE DEF z
      <4>3. Pieces(f, k) = z
        BY <4>2, PiecesAre
      <4> QED
        BY <4>3 DEF z
    <3> QED
      BY <1>1, <3>1, <3>2
  <2>4. Parts(f, 0) = <<>>
    BY DEF Parts
  <2>5. CallsOf(f, k) = (<<>> \o <<>>) \o <<>>
    BY <1>2, <2>2, <2>3, <2>4, CallsOfPublish, FlattenEmpty DEF Opening, Closing
  <2> QED
    BY <2>5
<1>3. CASE f.type # PUBLISH
  <2>1. (f.type = CONNACK \/ f.type = SUBACK) => Body(f) > 0
    BY VarParts
  <2>2. (f.type = CONNACK \/ f.type = SUBACK) => k # Size(f)
    BY <1>1, <2>1
  <2> QED
    BY <1>3, <2>2, CallsOfOther
<1> QED
  BY <1>2, <1>3

LEMMA CallsOfType ==
  ASSUME NEW f \in FrameSet, NEW k \in 0..Size(f)
  PROVE  CallsOf(f, k) \in Seq(CallSet)
<1>1. CASE f.type # PUBLISH
  <2>1. f.n \in Nat /\ <<>> \in Seq(Nat)
    BY FrameTypes
  <2>2. Call("connect_cb", 0, <<>>, TRUE) \in CallSet /\ Call("suback", f.n, <<>>, TRUE) \in CallSet
    BY <2>1 DEF Call, CallSet
  <2>3. /\ <<>> \in Seq(CallSet) /\ <<Call("connect_cb", 0, <<>>, TRUE)>> \in Seq(CallSet)
        /\ <<Call("suback", f.n, <<>>, TRUE)>> \in Seq(CallSet)
    BY <2>2, Singleton
  <2> QED
    BY <1>1, <2>3, CallsOfOther
<1>2. CASE f.type = PUBLISH
  <2>1. Pieces(f, k) \in Nat
    <3>1. Header(f) = Len(HeaderOf(f)) /\ Header(f) \in Nat /\ Room(f) \in Nat /\ Room(f) > 0 /\ Body(f) \in Nat
      BY FrameSizes DEF Header
    <3>2. \A a \in Nat : a \div Room(f) \in Nat
      BY <3>1, DivMod
    <3>3. Body(f) + Room(f) - 1 \in Nat /\ (~ (k - Header(f) < 0) => k - Header(f) \in Nat)
      BY <3>1, FrameSizes
    <3> QED
      BY <3>1, <3>2, <3>3 DEF Pieces
  <2>2. Opening(f, Pieces(f, k)) \in Seq(CallSet) /\ Closing(f, k) \in Seq(CallSet)
    BY OpeningType
  <2>3. FlattenSeq(Parts(f, Pieces(f, k))) \in Seq(CallSet)
    BY <1>2, <2>1, PartsType
  <2> QED
    BY <1>2, <2>2, <2>3, CallsOfPublish, ConcatProperties, ZenonT(30)
<1> QED
  BY <1>1, <1>2

LEMMA FromTo ==
  ASSUME NEW f, NEW i, NEW a, a = (i - 1) * Room(f) - (Body(f) - f.n),
         NEW c, c = i * Room(f) - (Body(f) - f.n)
  PROVE  From(f, i) = Max({0, a}) /\ To(f, i) = Min({f.n, c})
BY DEF From, To

\* Arithmetic on a piece of c bytes behind q, with w of room, a ahead of the n of the payload.
PieceNumbers(q, c, w, a, n, s) ==
  /\ q \in Nat /\ c \in Nat /\ w \in Nat /\ a \in Nat /\ n \in Nat /\ s = a + n
  /\ 1 <= c /\ c <= w /\ a < w /\ q + c <= s /\ (c = w \/ q + c = s)

PieceResult(q, c, w, a, n, s) ==
  /\ q + w >= s <=> q + c = s
  /\ (IF n <= q + w - a THEN n ELSE q + w - a) = q + c - a
  /\ q = 0 => c - a \in Nat
  /\ q >= w => q - a \in Nat /\ (q + c - a) - (q - a) = c /\ ~ (0 >= q - a)

LEMMA PieceArithmetic ==
  ASSUME NEW q, NEW c, NEW w, NEW a, NEW n, NEW s, PieceNumbers(q, c, w, a, n, s)
  PROVE  PieceResult(q, c, w, a, n, s)
BY DEF PieceNumbers, PieceResult

\* The piece that ends with the c-th byte behind the p-th filling of the buffer.
LEMMA PieceIs ==
  ASSUME NEW f \in FrameSet, f.type = PUBLISH, NEW p \in Nat, NEW q, q = Times(p, Room(f)),
         NEW c \in Nat, 1 <= c, c <= Room(f), q + c <= Body(f), c = Room(f) \/ q + c = Body(f),
         NEW d, d = IF p = 0 THEN c - Ahead(f) ELSE c,
         NEW base, base = IF p = 0 THEN 0 ELSE q - Ahead(f)
  PROVE  /\ d \in Nat /\ base \in Nat
         /\ Piece(f, p + 1) = IF Count(base, d) = <<>> /\ q + c # Body(f) THEN <<>>
                              ELSE <<Call("data_cb", Len(Count(base, d)), Count(base, d), q + c = Body(f))>>
<1>1. /\ Room(f) \in Nat /\ Room(f) > 0 /\ Ahead(f) \in Nat /\ Ahead(f) < Room(f) /\ f.n \in Nat
      /\ Body(f) = Ahead(f) + f.n /\ Body(f) \in Nat
  BY FrameSizes
<1>2. q \in Nat /\ (p = 0 => q = 0) /\ (p # 0 => q >= Room(f))
  <2>1. q = p * Room(f)
    BY DEF Times
  <2>2. p # 0 => p * Room(f) >= Room(f)
    BY <1>1
  <2> QED
    BY <1>1, <2>1, <2>2
<1>3. /\ (p + 1) * Room(f) = q + Room(f)
      /\ q - Ahead(f) = ((p + 1) - 1) * Room(f) - (Body(f) - f.n)
      /\ q + Room(f) - Ahead(f) = (p + 1) * Room(f) - (Body(f) - f.n)
  <2>1. ((p + 1) - 1) * Room(f) = q /\ (p + 1) * Room(f) = q + Room(f) /\ Body(f) - f.n = Ahead(f)
    BY <1>1 DEF Times
  <2>2. q - Ahead(f) = ((p + 1) - 1) * Room(f) - (Body(f) - f.n)
    BY ONLY <2>1
  <2>3. q + Room(f) - Ahead(f) = (p + 1) * Room(f) - (Body(f) - f.n)
    BY <1>1, <1>2, <2>1
  <2> QED
    BY ONLY <2>1, <2>2, <2>3
<1>4. /\ q + Room(f) >= Body(f) <=> q + c = Body(f)
      /\ (IF f.n <= q + Room(f) - Ahead(f) THEN f.n ELSE q + Room(f) - Ahead(f)) = q + c - Ahead(f)
      /\ q = 0 => c - Ahead(f) \in Nat
      /\ q >= Room(f) => /\ q - Ahead(f) \in Nat /\ (q + c - Ahead(f)) - (q - Ahead(f)) = c
                         /\ ~ (0 >= q - Ahead(f))
  <2>1. PieceNumbers(q, c, Room(f), Ahead(f), f.n, Body(f))
    BY <1>1, <1>2 DEF PieceNumbers
  <2>2. PieceResult(q, c, Room(f), Ahead(f), f.n, Body(f))
    BY <2>1, PieceArithmetic
  <2> QED
    BY <2>2 DEF PieceResult
<1>5. From(f, p + 1) = Max({0, q - Ahead(f)}) /\ To(f, p + 1) = Min({f.n, q + Room(f) - Ahead(f)})
  BY <1>3, FromTo, ZenonT(30)
<1>6. From(f, p + 1) = base /\ d \in Nat /\ base \in Nat
  <2>1. 0 \in Int /\ q - Ahead(f) \in Int
    BY <1>1, <1>2
  <2>2. Max({0, q - Ahead(f)}) = IF 0 >= q - Ahead(f) THEN 0 ELSE q - Ahead(f)
    BY <2>1, MaxIs
  <2>3. CASE p = 0
    <3>1. q = 0 /\ 0 >= q - Ahead(f)
      BY <1>1, <1>2, <2>3
    <3> QED
      BY <1>4, <1>5, <2>2, <2>3, <3>1
  <2>4. CASE p # 0
    <3>1. q >= Room(f)
      BY <1>2, <2>4
    <3> QED
      BY <1>4, <1>5, <2>2, <2>4, <3>1
  <2> QED
    BY <2>3, <2>4
<1>7. To(f, p + 1) = q + c - Ahead(f)
  <2>1. q + Room(f) - Ahead(f) \in Int /\ f.n \in Int
    BY <1>1, <1>2
  <2>2. Min({f.n, q + Room(f) - Ahead(f)}) = IF f.n <= q + Room(f) - Ahead(f) THEN f.n ELSE q + Room(f) - Ahead(f)
    BY <2>1, MinIs
  <2> QED
    BY <1>4, <1>5, <2>2
<1>8. To(f, p + 1) - From(f, p + 1) = d
  <2>1. CASE p = 0
    <3>1. q = 0 /\ base = 0 /\ d = c - Ahead(f)
      BY <1>2, <2>1
    <3> QED
      BY <1>1, <1>6, <1>7, <3>1
  <2>2. CASE p # 0
    <3>1. q >= Room(f) /\ base = q - Ahead(f) /\ d = c
      BY <1>2, <2>2
    <3> QED
      BY <1>4, <1>6, <1>7, <3>1
  <2> QED
    BY <2>1, <2>2
<1>9. (p + 1) * Room(f) >= Body(f) <=> q + c = Body(f)
  BY <1>3, <1>4
<1> DEFINE data == Count(base, d)
           last == (p + 1) * Room(f) >= Body(f)
<1>10. Piece(f, p + 1) = IF data = <<>> /\ ~last THEN <<>> ELSE <<Call("data_cb", Len(data), data, last)>>
  <2>1. data = [j \in 1..(To(f, p + 1) - From(f, p + 1)) |-> From(f, p + 1) + j]
    BY <1>6, <1>8 DEF Count
  <2> HIDE DEF data
  <2> QED
    BY ONLY <2>1 DEF Piece
<1> HIDE DEF data
<1>11. Piece(f, p + 1) = IF data = <<>> /\ ~ (q + c = Body(f)) THEN <<>>
                         ELSE <<Call("data_cb", Len(data), data, q + c = Body(f))>>
  BY ONLY <1>9, <1>10
<1> QED
  BY <1>6, <1>11 DEF data

\* A byte that neither fills the buffer nor ends the frame.
LEMMA NothingNew ==
  ASSUME NEW f \in FrameSet, f.type = PUBLISH, NEW p \in Nat, NEW q, q = Times(p, Room(f)),
         NEW r \in Nat, NEW c \in Nat, r + c < Room(f), q + r + c < Body(f),
         NEW k, k = Header(f) + (q + r), NEW l, l = k + c
  PROVE  CallsOf(f, l) = CallsOf(f, k)
<1>1. /\ Room(f) \in Nat /\ Room(f) > 0 /\ Header(f) \in Nat /\ Body(f) \in Nat /\ q \in Nat
      /\ Size(f) = Header(f) + Body(f)
  BY FrameSizes DEF Times
<1>2. Pieces(f, k) = p
  <2>1. q + r < Body(f) /\ r < Room(f)
    BY <1>1
  <2> QED
    BY <2>1, PiecesAre
<1>3. Pieces(f, l) = p
  <2>1. PICK s \in Nat : s = r + c
    OBVIOUS
  <2>2. q + s < Body(f) /\ s < Room(f) /\ l = Header(f) + (q + s)
    BY <1>1, <2>1
  <2> QED
    BY <2>2, PiecesAre
<1>4. k # Size(f) /\ l # Size(f)
  BY <1>1
<1>5. Closing(f, k) = <<>> /\ Closing(f, l) = <<>>
  BY <1>4 DEF Closing
<1> QED
  BY <1>2, <1>3, <1>5, CallsOfPublish

Cat(u, v) == u \o v

LEMMA CatProperties ==
  ASSUME NEW X
  PROVE  /\ \A u, v \in Seq(X) : Cat(u, v) \in Seq(X)
         /\ \A u, v, w \in Seq(X) : Cat(Cat(u, v), w) = Cat(u, Cat(v, w))
         /\ \A u \in Seq(X) : Cat(u, <<>>) = u /\ Cat(<<>>, u) = u
         /\ <<>> \in Seq(X)
<1>1. \A u, v, w \in Seq(X) : Cat(Cat(u, v), w) = Cat(u, Cat(v, w))
  BY DEF Cat
<1> QED
  BY <1>1 DEF Cat

LEMMA Regroup ==
  ASSUME NEW X, NEW o \in Seq(X), NEW u \in Seq(X), NEW v \in Seq(X), NEW w \in Seq(X)
  PROVE  Cat(Cat(o, Cat(u, v)), w) = Cat(Cat(Cat(o, u), <<>>), Cat(Cat(<<>>, v), w))
BY CatProperties

\* The buffer is full behind the header for the p-th time, or the frame ends.
Full(f, p, q, c) ==
  /\ p \in Nat /\ q = Times(p, Room(f)) /\ c \in Nat /\ 1 <= c /\ c <= Room(f)
  /\ q + c <= Body(f) /\ (c = Room(f) \/ q + c = Body(f))

\* What a PUBLISH that is handed over brings about.
News(f, p, q, c) ==
  ((IF p = 0 THEN Opening(f, 1) ELSE <<>>) \o Piece(f, p + 1)) \o Closing(f, Header(f) + (q + c))

\* The bytes that fill the buffer or end the frame: one piece more.
LEMMA OnePieceMore ==
  ASSUME NEW f \in FrameSet, f.type = PUBLISH, NEW p, NEW q, NEW c, Full(f, p, q, c),
         NEW r \in Nat, r < c,
         NEW k, k = Header(f) + (q + r), NEW l, l = Header(f) + (q + c)
  PROVE  CallsOf(f, l) = Cat(CallsOf(f, k), News(f, p, q, c))
<1>0. /\ p \in Nat /\ q = Times(p, Room(f)) /\ c \in Nat /\ 1 <= c /\ c <= Room(f)
      /\ q + c <= Body(f) /\ (c = Room(f) \/ q + c = Body(f))
  BY DEF Full
<1>1. /\ Room(f) \in Nat /\ Room(f) > 0 /\ Header(f) \in Nat /\ Body(f) \in Nat /\ q \in Nat
      /\ Size(f) = Header(f) + Body(f)
  BY <1>0, FrameSizes DEF Times
<1>2. Pieces(f, k) = p
  <2>1. q + r < Body(f) /\ r < Room(f)
    BY <1>0, <1>1
  <2> QED
    BY <1>0, <2>1, PiecesAre
<1>3. Pieces(f, l) = p + 1
  <2>1. CASE q + c = Body(f)
    BY <1>0, <2>1, PiecesAre
  <2>2. CASE q + c # Body(f)
    <3>0. p + 1 \in Nat /\ q + Room(f) \in Nat /\ 0 \in Nat /\ q + Room(f) = Times(p + 1, Room(f))
      BY <1>0, <1>1 DEF Times
    <3>1. PICK p2 \in Nat, q2 \in Nat, z \in Nat : p2 = p + 1 /\ q2 = q + Room(f) /\ z = 0
      BY <3>0
    <3>2. q2 = Times(p2, Room(f))
      BY <3>0, <3>1
    <3>a. q2 + z < Body(f) /\ z < Room(f)
      BY <1>0, <1>1, <2>2, <3>1
    <3>b. q2 + z = q + c
      BY <1>0, <1>1, <2>2, <3>1
    <3>3. l = Header(f) + (q2 + z)
      BY <3>b
    <3>4. Pieces(f, l) = p2
      BY <3>2, <3>a, <3>3, PiecesAre
    <3> QED
      BY <3>1, <3>4
  <2> QED
    BY <2>1, <2>2
<1>4. Closing(f, k) = <<>>
  <2>1. k # Size(f)
    BY <1>0, <1>1
  <2> QED
    BY <2>1 DEF Closing
<1> DEFINE F == FlattenSeq(Parts(f, p))
           P == Piece(f, p + 1)
           C == Closing(f, l)
           O == Opening(f, 1)
<1>5. /\ F \in Seq(CallSet) /\ P \in Seq(CallSet) /\ C \in Seq(CallSet) /\ O \in Seq(CallSet)
      /\ FlattenSeq(Parts(f, p + 1)) = F \o P
  <2>1. p + 1 \in Nat
    BY <1>0
  <2>2. F \in Seq(CallSet)
    BY <1>0, PartsType
  <2>3. P \in Seq(CallSet)
    BY <2>1, PieceType
  <2>4. C \in Seq(CallSet) /\ O \in Seq(CallSet)
    BY OpeningType
  <2>5. FlattenSeq(Parts(f, p + 1)) = F \o P
    BY <1>0, PartsStep
  <2> QED
    BY <2>2, <2>3, <2>4, <2>5
<1>6. Opening(f, p + 1) = O /\ (p # 0 => Opening(f, p) = O)
  <2>1. p + 1 # 0 /\ 1 # 0
    BY <1>0
  <2> QED
    BY <2>1 DEF Opening
<1>7. CallsOf(f, l) = (O \o (F \o P)) \o C
  BY <1>3, <1>5, <1>6, CallsOfPublish
<1>8. CallsOf(f, k) = (Opening(f, p) \o F) \o <<>>
  BY <1>2, <1>4, CallsOfPublish
<1>9. CASE p # 0
  <2>1. CallsOf(f, k) = (O \o F) \o <<>>
    BY <1>6, <1>8, <1>9
  <2> HIDE DEF O, F, P, C
  <2>a. Cat(Cat(O, Cat(F, P)), C) = Cat(Cat(Cat(O, F), <<>>), Cat(Cat(<<>>, P), C))
    BY <1>5, Regroup
  <2>2. (O \o (F \o P)) \o C = ((O \o F) \o <<>>) \o ((<<>> \o P) \o C)
    BY ONLY <2>a DEF Cat
  <2>3. CallsOf(f, l) = CallsOf(f, k) \o ((<<>> \o P) \o C)
    BY <1>7, <2>1, <2>2
  <2> QED
    BY <1>9, <2>3 DEF O, P, C, News, Cat
<1>10. CASE p = 0
  <2>1. F = <<>>
    <3>1. Parts(f, p) = <<>>
      BY <1>10 DEF Parts
    <3> QED
      BY <3>1, FlattenEmpty
  <2>2. Opening(f, p) = <<>>
    BY <1>10 DEF Opening
  <2>3. CallsOf(f, k) = <<>>
    <3>1. (<<>> \o <<>>) \o <<>> = <<>>
      OBVIOUS
    <3> HIDE DEF F
    <3> QED
      BY <1>8, <2>1, <2>2, <3>1
  <2> HIDE DEF O, F, P, C
  <2>4. F \o P = P
    BY <1>5, <2>1, ConcatEmptySeq
  <2>5. <<>> \o ((O \o P) \o C) = (O \o P) \o C
    BY <1>5, ConcatProperties, ConcatEmptySeq
  <2>6. CallsOf(f, l) = CallsOf(f, k) \o ((O \o P) \o C)
    BY <1>7, <2>3, <2>4, <2>5
  <2> QED
    BY <1>10, <2>6 DEF O, P, C, News, Cat
<1> QED
  BY <1>9, <1>10

\* How much of the i-th frame is in the first k bytes.
Part(fs, i, k) == Max({0, Min({Len(Bytes(fs[i])), k - Start(fs, i)})})

CallsUpTo(fs, k) == [i \in DOMAIN fs |-> CallsOf(fs[i], Part(fs, i, k))]

LEMMA PartIs ==
  ASSUME NEW fs \in Seq(FrameSet), NEW j \in 1..Len(fs), NEW a \in 0..Size(fs[j]),
         NEW k, k = Start(fs, j) + a, NEW i \in 1..Len(fs)
  PROVE  Part(fs, i, k) = IF i < j THEN Size(fs[i]) ELSE IF i = j THEN a ELSE 0
<1>1. /\ Start(fs, i) \in Nat /\ Start(fs, j) \in Nat /\ Size(fs[i]) \in Nat /\ Size(fs[j]) \in Nat
      /\ k \in Nat /\ Len(fs) \in Nat
  <2>1. i \in 1..(Len(fs) + 1) /\ j \in 1..(Len(fs) + 1) /\ fs[i] \in FrameSet /\ fs[j] \in FrameSet
    OBVIOUS
  <2>2. Start(fs, i) \in Nat /\ Start(fs, j) \in Nat
    BY <2>1, StartStep
  <2>3. Size(fs[i]) \in Nat /\ Size(fs[j]) \in Nat
    BY <2>1, BytesAre
  <2> QED
    BY <2>2, <2>3
<1>2. i < j => Start(fs, i) + Size(fs[i]) <= Start(fs, j)
  <2>1. i < j => j \in (i + 1)..(Len(fs) + 1)
    BY <1>1
  <2> QED
    BY <2>1, StartsGrow
<1>3. i > j => Start(fs, j) + Size(fs[j]) <= Start(fs, i)
  <2>1. i > j => i \in (j + 1)..(Len(fs) + 1)
    BY <1>1
  <2> QED
    BY <2>1, StartsGrow
<1>4. PICK s \in Nat, d \in Int : s = Size(fs[i]) /\ d = k - Start(fs, i)
  BY <1>1
<1>5. Part(fs, i, k) = Max({0, Min({s, d})})
  BY <1>4 DEF Part, Size
<1>6. Min({s, d}) = IF s <= d THEN s ELSE d
  BY <1>4, MinIs
<1>7. PICK m \in Int : m = IF s <= d THEN s ELSE d
  OBVIOUS
<1>8. Max({0, m}) = IF 0 >= m THEN 0 ELSE m
  BY MaxIs
<1>9. Part(fs, i, k) = IF 0 >= m THEN 0 ELSE m
  BY <1>5, <1>6, <1>7, <1>8
<1>10. CASE i < j
  <2>1. d >= s
    BY <1>1, <1>2, <1>4, <1>10, SMTT(30)
  <2> QED
    BY <1>4, <1>7, <1>9, <1>10, <2>1
<1>11. CASE i = j
  <2>1. d = a /\ a <= s /\ a >= 0
    BY <1>1, <1>4, <1>11
  <2> QED
    BY <1>7, <1>9, <1>11, <2>1
<1>12. CASE i > j
  <2>1. d <= 0
    BY <1>1, <1>3, <1>4, <1>12, SMTT(30)
  <2> QED
    BY <1>7, <1>9, <1>12, <2>1
<1> QED
  BY <1>10, <1>11, <1>12

\* s is the calls of each frame: all of those before the j-th, of a bytes of that one.
CallsAt(s, fs, j, a) ==
  /\ s \in Seq(Seq(CallSet)) /\ Len(s) = Len(fs)
  /\ \A i \in 1..Len(fs) :
       s[i] = CallsOf(fs[i], IF i < j THEN Size(fs[i]) ELSE IF i = j THEN a ELSE 0)

LEMMA CallsUpToType ==
  ASSUME NEW fs \in Seq(FrameSet), NEW j \in 1..Len(fs), NEW a \in 0..Size(fs[j]),
         NEW k, k = Start(fs, j) + a
  PROVE  CallsAt(CallsUpTo(fs, k), fs, j, a)
<1>1. ASSUME NEW i \in 1..Len(fs)
      PROVE  /\ CallsOf(fs[i], Part(fs, i, k)) \in Seq(CallSet)
             /\ Part(fs, i, k) = IF i < j THEN Size(fs[i]) ELSE IF i = j THEN a ELSE 0
  <2>1. Part(fs, i, k) = IF i < j THEN Size(fs[i]) ELSE IF i = j THEN a ELSE 0
    BY PartIs
  <2>2. Size(fs[i]) \in Nat /\ fs[i] \in FrameSet
    BY BytesAre
  <2>3. Part(fs, i, k) \in 0..Size(fs[i])
    BY <2>1, <2>2
  <2> QED
    BY <2>1, <2>2, <2>3, CallsOfType
<1>2. CallsUpTo(fs, k) = [i \in 1..Len(fs) |-> CallsOf(fs[i], Part(fs, i, k))]
  BY DEF CallsUpTo
<1>3. CallsUpTo(fs, k) \in Seq(Seq(CallSet)) /\ Len(CallsUpTo(fs, k)) = Len(fs)
  BY <1>1, <1>2
<1>4. \A i \in 1..Len(fs) : CallsUpTo(fs, k)[i] =
        CallsOf(fs[i], IF i < j THEN Size(fs[i]) ELSE IF i = j THEN a ELSE 0)
  BY <1>1, <1>2
<1> QED
  BY <1>3, <1>4 DEF CallsAt

\* The calls grow by those of the frame that is being received.
LEMMA CallsGrow ==
  ASSUME NEW fs \in Seq(FrameSet), NEW j \in 1..Len(fs),
         NEW a \in 0..Size(fs[j]), NEW c \in 0..Size(fs[j]),
         NEW x \in Seq(CallSet), CallsOf(fs[j], c) = Cat(CallsOf(fs[j], a), x),
         NEW k, k = Start(fs, j) + a, NEW l, l = Start(fs, j) + c
  PROVE  FlattenSeq(CallsUpTo(fs, l)) = Cat(FlattenSeq(CallsUpTo(fs, k)), x)
<1> DEFINE s == CallsUpTo(fs, k)
           t == CallsUpTo(fs, l)
<1>1. CallsAt(s, fs, j, a) /\ CallsAt(t, fs, j, c)
  BY CallsUpToType
<1> HIDE DEF s, t
<1>2. /\ s \in Seq(Seq(CallSet)) /\ t \in Seq(Seq(CallSet)) /\ Len(s) = Len(fs) /\ Len(t) = Len(fs)
      /\ \A i \in 1..Len(fs) :
           /\ s[i] = CallsOf(fs[i], IF i < j THEN Size(fs[i]) ELSE IF i = j THEN a ELSE 0)
           /\ t[i] = CallsOf(fs[i], IF i < j THEN Size(fs[i]) ELSE IF i = j THEN c ELSE 0)
  BY <1>1 DEF CallsAt
<1>3. t[j] = s[j] \o x
  <2>1. s[j] = CallsOf(fs[j], a) /\ t[j] = CallsOf(fs[j], c)
    <3>1. j \in 1..Len(fs) /\ ~ (j < j)
      OBVIOUS
    <3> QED
      BY <1>2, <3>1
  <2> QED
    BY <2>1 DEF Cat
<1>4. ASSUME NEW i \in 1..Len(fs)
      PROVE  /\ i < j => s[i] = t[i]
             /\ i > j => s[i] = <<>> /\ t[i] = <<>>
  <2>1. i < j => s[i] = CallsOf(fs[i], Size(fs[i])) /\ t[i] = CallsOf(fs[i], Size(fs[i]))
    BY <1>2
  <2>2. i > j => s[i] = CallsOf(fs[i], 0) /\ t[i] = CallsOf(fs[i], 0)
    BY <1>2, SMTT(30)
  <2>3. CallsOf(fs[i], 0) = <<>>
    <3>1. fs[i] \in FrameSet
      OBVIOUS
    <3>2. 0 \in 0..Header(fs[i])
      <4>1. Header(fs[i]) \in 2..5
        BY <3>1, BytesAre
      <4> QED
        BY <4>1
    <3> QED
      BY <3>1, <3>2, NoCallsYet
  <2> QED
    BY <2>1, <2>2, <2>3
<1>5. Grows(s, t, j, x)
  BY <1>2, <1>3, <1>4 DEF Grows
<1>6. FlattenSeq(t) = FlattenSeq(s) \o x
  BY <1>2, <1>5, FlattenGrow
<1> QED
  BY <1>6 DEF s, t, Cat

\* Before the first byte nothing has been called.
LEMMA NoCallsAtFirst ==
  ASSUME NEW fs \in Seq(FrameSet), Len(fs) >= 1
  PROVE  FlattenSeq(CallsUpTo(fs, 0)) = <<>>
<1>1. Start(fs, 1) = 0 /\ 1 \in 1..Len(fs) /\ Len(fs) \in Nat
  BY StartStep
<1>2. 0 \in 0..Size(fs[1]) /\ 0 = Start(fs, 1) + 0
  BY <1>1, BytesAre
<1>3. PICK one \in 1..Len(fs) : one = 1
  BY <1>1
<1>a. PICK a \in 0..Size(fs[one]) : a = 0 /\ a = Start(fs, one) + a
  BY <1>2, <1>3
<1>b. CallsAt(CallsUpTo(fs, a), fs, one, a)
  BY <1>a, CallsUpToType
<1>4. /\ CallsUpTo(fs, a) \in Seq(Seq(CallSet)) /\ Len(CallsUpTo(fs, a)) = Len(fs)
      /\ \A i \in 1..Len(fs) : CallsUpTo(fs, a)[i] =
           CallsOf(fs[i], IF i < one THEN Size(fs[i]) ELSE IF i = one THEN a ELSE 0)
  BY <1>b DEF CallsAt
<1>5. ASSUME NEW i \in 1..Len(fs)
      PROVE  CallsUpTo(fs, a)[i] = <<>>
  <2>1. CallsUpTo(fs, a)[i] = CallsOf(fs[i], 0)
    BY <1>1, <1>3, <1>a, <1>4
  <2>2. fs[i] \in FrameSet
    OBVIOUS
  <2>3. 0 \in 0..Header(fs[i])
    <3>1. Header(fs[i]) \in 2..5
      BY <2>2, BytesAre
    <3> QED
      BY <3>1
  <2> QED
    BY <2>1, <2>2, <2>3, NoCallsYet
<1>6. FlattenSeq(CallsUpTo(fs, a)) = <<>>
  BY <1>4, <1>5, FlattenNothing
<1> QED
  BY <1>a, <1>6

LEMMA ExpectedIs ==
  ASSUME NEW k
  PROVE  Expected(k) = FlattenSeq(CallsUpTo(frames, k))
BY DEF Expected, CallsUpTo, Part, Start

-----------------------------------------------------------------------------
(* What the handlers read in the buffer                                    *)

\* The first byte of a frame says what it is.
LEMMA FirstByte ==
  ASSUME NEW f \in FrameSet, NEW buf, buf[0] = Bytes(f)[1]
  PROVE  /\ Type(buf) = f.type /\ Qos(buf) = f.qos
         /\ IdLen(buf) = IF f.qos = 0 THEN 0 ELSE 2
<1>1. buf[0] = f.type * 16 + f.qos * 2
  BY BytesAre
<1>2. f.type \in {2, 3, 9, 13} /\ f.qos \in {0, 1}
  BY FrameTypes DEF CONNACK, PUBLISH, SUBACK, PINGRESP
<1>3. buf[0] \div 16 = f.type /\ (buf[0] \div 2) % 4 = f.qos
  <2>1. /\ (2 * 16 + 0 * 2) \div 16 = 2 /\ ((2 * 16 + 0 * 2) \div 2) % 4 = 0
        /\ (2 * 16 + 1 * 2) \div 16 = 2 /\ ((2 * 16 + 1 * 2) \div 2) % 4 = 1
        /\ (3 * 16 + 0 * 2) \div 16 = 3 /\ ((3 * 16 + 0 * 2) \div 2) % 4 = 0
        /\ (3 * 16 + 1 * 2) \div 16 = 3 /\ ((3 * 16 + 1 * 2) \div 2) % 4 = 1
        /\ (9 * 16 + 0 * 2) \div 16 = 9 /\ ((9 * 16 + 0 * 2) \div 2) % 4 = 0
        /\ (9 * 16 + 1 * 2) \div 16 = 9 /\ ((9 * 16 + 1 * 2) \div 2) % 4 = 1
        /\ (13 * 16 + 0 * 2) \div 16 = 13 /\ ((13 * 16 + 0 * 2) \div 2) % 4 = 0
        /\ (13 * 16 + 1 * 2) \div 16 = 13 /\ ((13 * 16 + 1 * 2) \div 2) % 4 = 1
    OBVIOUS
  <2> QED
    BY <1>1, <1>2, <2>1
<1> QED
  BY <1>2, <1>3 DEF Type, Qos, IdLen

\* Behind the header the buffer holds the c bytes of f that follow q of its body.
Holds(f, buf, q, c) ==
  /\ buf[0] = Bytes(f)[1]
  /\ \A i \in 0..(c - 1) : buf[Header(f) + i] = VarPart(f)[q + i + 1]

LEMMA FullFacts ==
  ASSUME NEW f \in FrameSet, NEW p, NEW q, NEW c, Full(f, p, q, c)
  PROVE  /\ p \in Nat /\ q \in Nat /\ c \in Nat /\ Room(f) \in Nat /\ Header(f) \in 2..5
         /\ Room(f) = BufLen - Header(f) /\ BufLen \in Nat
         /\ p = 0 => q = 0 /\ (f.type = PUBLISH => Ahead(f) <= c)
         /\ p # 0 => q >= Room(f)
         /\ Header(f) + (q + c) <= BufLen <=> p = 0
<1>1. /\ p \in Nat /\ q = p * Room(f) /\ c \in Nat /\ 1 <= c /\ c <= Room(f)
      /\ q + c <= Body(f) /\ (c = Room(f) \/ q + c = Body(f))
  BY DEF Full, Times
<1>2. /\ Room(f) = BufLen - Header(f) /\ Room(f) \in Nat /\ Room(f) > 0 /\ Header(f) \in 2..5
      /\ Ahead(f) \in Nat /\ Ahead(f) < Room(f) /\ Body(f) \in Nat
      /\ f.type = PUBLISH => Body(f) = Ahead(f) + f.n /\ f.n \in Nat
      /\ BufLen \in Nat
  BY FrameSizes, ParserAssumption
<1>3. q \in Nat /\ (p = 0 => q = 0) /\ (p # 0 => q >= Room(f))
  <2>1. p # 0 => p * Room(f) >= Room(f)
    BY <1>1, <1>2
  <2>2. p = 0 => p * Room(f) = 0
    BY <1>2
  <2>3. p * Room(f) \in Nat
    BY <1>1, <1>2
  <2> QED
    BY <1>1, <2>1, <2>2, <2>3
<1>a. p \in Nat /\ c \in Nat /\ 1 <= c /\ c <= Room(f) /\ (c = Room(f) \/ q + c = Body(f))
  BY <1>1
<1>4. p = 0 /\ f.type = PUBLISH => Ahead(f) <= c
  <2>1. f.type = PUBLISH => Ahead(f) <= Body(f)
    BY <1>2
  <2>2. p = 0 => c = Room(f) \/ c = Body(f)
    BY <1>3, <1>a
  <2> QED
    BY <1>2, <2>1, <2>2
<1>5. Header(f) + (q + c) <= BufLen <=> p = 0
  <2>1. p = 0 => Header(f) + (q + c) <= BufLen
    BY <1>2, <1>3, <1>a
  <2>2. p # 0 => ~ (Header(f) + (q + c) <= BufLen)
    BY <1>2, <1>3, <1>a
  <2> QED
    BY <2>1, <2>2
<1> QED
  BY <1>1, <1>2, <1>3, <1>4, <1>5

LEMMA ReadTopic ==
  ASSUME NEW f \in FrameSet, f.type = PUBLISH, NEW buf, NEW c, Full(f, 0, 0, c), Holds(f, buf, 0, c)
  PROVE  /\ Word(buf, Header(f)) = TopicLen
         /\ f.qos > 0 => Word(buf, Header(f) + 2 + TopicLen) = MessageId
         /\ ~ Short(buf, Header(f), c)
<1>1. /\ c \in Nat /\ Ahead(f) <= c /\ Header(f) \in 2..5 /\ Room(f) \in Nat /\ BufLen \in Nat
      /\ Room(f) = BufLen - Header(f)
  BY FullFacts
<1>2. TopicLen \in Nat /\ f.qos \in {0, 1} /\ Room(f) > 2 + TopicLen + 2
  BY ParserAssumption, FrameTypes, FrameSizes
<1>3. Ahead(f) = 2 + TopicLen + (IF f.qos = 0 THEN 0 ELSE 2)
  BY DEF Ahead
<1>4. \A i \in 0..(c - 1) : buf[Header(f) + i] = VarPart(f)[i + 1]
  BY <1>1 DEF Holds
<1>5. buf[Header(f)] = 0 /\ buf[Header(f) + 1] = TopicLen
  <2>1. 0 \in 0..(c - 1) /\ 1 \in 0..(c - 1)
    BY <1>1, <1>2, <1>3
  <2>2. buf[Header(f) + 0] = VarPart(f)[0 + 1] /\ buf[Header(f) + 1] = VarPart(f)[1 + 1]
    BY <1>4, <2>1
  <2>3. Header(f) + 0 = Header(f) /\ 0 + 1 = 1 /\ 1 + 1 = 2
    BY <1>1
  <2> QED
    BY <2>2, <2>3, VarPartOfPublish
<1>6. Word(buf, Header(f)) = TopicLen
  BY <1>2, <1>5 DEF Word
<1>7. ASSUME f.qos > 0
      PROVE  Word(buf, Header(f) + 2 + TopicLen) = MessageId
  <2>1. 2 + TopicLen \in 0..(c - 1) /\ 2 + TopicLen + 1 \in 0..(c - 1)
    BY <1>1, <1>2, <1>3, <1>7
  <2>2. /\ buf[Header(f) + (2 + TopicLen)] = VarPart(f)[(2 + TopicLen) + 1]
        /\ buf[Header(f) + (2 + TopicLen + 1)] = VarPart(f)[(2 + TopicLen + 1) + 1]
    BY <1>4, <2>1
  <2>3. /\ Header(f) + (2 + TopicLen) = Header(f) + 2 + TopicLen
        /\ Header(f) + (2 + TopicLen + 1) = (Header(f) + 2 + TopicLen) + 1
        /\ (2 + TopicLen + 1) + 1 = 2 + TopicLen + 2
    BY <1>1, <1>2
  <2>4. buf[Header(f) + 2 + TopicLen] = 0 /\ buf[(Header(f) + 2 + TopicLen) + 1] = MessageId
    BY <1>7, <2>2, <2>3, VarPartOfPublish
  <2> QED
    BY <2>4 DEF Word, MessageId
<1>8. ~ Short(buf, Header(f), c)
  <2>1. Qos(buf) = f.qos /\ IdLen(buf) = IF f.qos = 0 THEN 0 ELSE 2
    BY FirstByte DEF Holds
  <2>2. /\ ~ (c < 2 + IdLen(buf))
        /\ ~ (TopicLen > c - (2 + IdLen(buf)))
        /\ ~ (2 + TopicLen + (IF Qos(buf) > 0 THEN 2 ELSE 1) > BufLen - Header(f))
    BY <1>1, <1>2, <1>3, <2>1
  <2> QED
    BY <1>6, <2>2 DEF Short
<1> QED
  BY <1>6, <1>7, <1>8

\* The bytes of the piece are the payload's, from base on.
LEMMA PieceData ==
  ASSUME NEW f \in FrameSet, f.type = PUBLISH, NEW buf, NEW p, NEW q, NEW c,
         Full(f, p, q, c), Holds(f, buf, q, c),
         NEW d, d = IF p = 0 THEN c - Ahead(f) ELSE c,
         NEW base, base = IF p = 0 THEN 0 ELSE q - Ahead(f),
         NEW off, off = IF p = 0 THEN Ahead(f) ELSE 0
  PROVE  [i \in 1..(c - off) |-> buf[Header(f) + off + i - 1]] = Count(base, d)
<1>1. /\ p \in Nat /\ q \in Nat /\ c \in Nat /\ Header(f) \in Nat /\ Ahead(f) \in Nat /\ f.n \in Nat
      /\ p = 0 => q = 0 /\ Ahead(f) <= c
      /\ p # 0 => q > Ahead(f)
      /\ q + c <= Ahead(f) + f.n
  <2>1. /\ p \in Nat /\ q \in Nat /\ c \in Nat /\ Room(f) \in Nat /\ Header(f) \in 2..5
        /\ p = 0 => q = 0 /\ Ahead(f) <= c
        /\ p # 0 => q >= Room(f)
    BY FullFacts
  <2>2. Ahead(f) \in Nat /\ Ahead(f) < Room(f) /\ Body(f) = Ahead(f) + f.n /\ f.n \in Nat
    BY FrameSizes
  <2>3. q + c <= Body(f)
    BY DEF Full
  <2> QED
    BY <2>1, <2>2, <2>3
<1>2. c - off = d /\ d \in Nat /\ off \in Nat /\ base \in Nat /\ q + off = Ahead(f) + base
  BY <1>1
<1>3. ASSUME NEW i \in 1..d
      PROVE  buf[Header(f) + off + i - 1] = base + i
  <2>1. off + i - 1 \in 0..(c - 1) /\ Header(f) + (off + i - 1) = Header(f) + off + i - 1
    BY <1>1, <1>2
  <2>2. buf[Header(f) + (off + i - 1)] = VarPart(f)[q + (off + i - 1) + 1]
    BY <2>1 DEF Holds
  <2>3. q + (off + i - 1) + 1 = Ahead(f) + (base + i) /\ base + i \in 1..f.n
    <3>1. i \in Nat /\ 1 <= i /\ i <= d
      BY <1>2
    <3>2. q + (off + i - 1) + 1 = Ahead(f) + (base + i)
      BY <1>1, <1>2, <3>1
    <3>3. base + i <= f.n
      BY <1>1, <1>2, <3>1
    <3> QED
      BY <1>1, <1>2, <3>1, <3>2, <3>3
  <2>4. VarPart(f)[Ahead(f) + (base + i)] = base + i
    BY <2>3, VarPartOfPublish
  <2> QED
    BY <2>1, <2>2, <2>3, <2>4
<1> QED
  BY <1>2, <1>3 DEF Count

LEMMA Together ==
  ASSUME NEW X, NEW o \in Seq(X), NEW u \in Seq(X), NEW v \in Seq(X), NEW w \in Seq(X)
  PROVE  Cat(Cat(Cat(o, u), v), w) = Cat(o, Cat(Cat(u, v), w))
BY CatProperties

LEMMA NewsType ==
  ASSUME NEW f \in FrameSet, f.type = PUBLISH, NEW p \in Nat, NEW q, NEW c
  PROVE  /\ (IF p = 0 THEN Opening(f, 1) ELSE <<>>) \in Seq(CallSet)
         /\ Piece(f, p + 1) \in Seq(CallSet) /\ Closing(f, Header(f) + (q + c)) \in Seq(CallSet)
         /\ News(f, p, q, c) \in Seq(CallSet)
<1>1. (IF p = 0 THEN Opening(f, 1) ELSE <<>>) \in Seq(CallSet)
  <2>1. Opening(f, 1) \in Seq(CallSet) /\ <<>> \in Seq(CallSet)
    BY OpeningType
  <2> QED
    BY <2>1
<1>2. Piece(f, p + 1) \in Seq(CallSet)
  <2>1. p + 1 \in Nat
    OBVIOUS
  <2> QED
    BY <2>1, PieceType
<1>3. Closing(f, Header(f) + (q + c)) \in Seq(CallSet)
  BY OpeningType
<1> QED
  BY <1>1, <1>2, <1>3, ConcatProperties DEF News

\* A piece of a PUBLISH is handed over as News says.
LEMMA ReadPublish ==
  ASSUME NEW f \in FrameSet, f.type = PUBLISH, NEW buf, NEW p, NEW q, NEW c,
         Full(f, p, q, c), Holds(f, buf, q, c), calls \in Seq(CallSet),
         p # 0 /\ f.qos > 0 => inpub_pkt_id = MessageId, inpub_pkt_id \in {0, MessageId},
         ReceivePublish(buf, Header(f) + (q + c), Header(f), c, Body(f) - (q + c))
  PROVE  /\ calls' = calls \o News(f, p, q, c)
         /\ inpub_pkt_id' \in {0, MessageId} /\ (f.qos > 0 => inpub_pkt_id' = MessageId)
<1> DEFINE first == FirstPiece(Header(f) + (q + c))
           off == IF p = 0 THEN Ahead(f) ELSE 0
           d == IF p = 0 THEN c - Ahead(f) ELSE c
           base == IF p = 0 THEN 0 ELSE q - Ahead(f)
           data == Count(base, d)
           rem == Body(f) - (q + c)
           A == IF p = 0 THEN Opening(f, 1) ELSE <<>>
           P == Piece(f, p + 1)
           C == Closing(f, Header(f) + (q + c))
<1>1. /\ p \in Nat /\ q \in Nat /\ c \in Nat /\ Header(f) \in Nat /\ Ahead(f) \in Nat /\ f.n \in Nat
      /\ p = 0 => q = 0 /\ Ahead(f) <= c
      /\ Body(f) = Ahead(f) + f.n /\ q + c <= Body(f)
      /\ first <=> p = 0
  <2>1. /\ p \in Nat /\ q \in Nat /\ c \in Nat /\ Header(f) \in 2..5
        /\ p = 0 => q = 0 /\ Ahead(f) <= c
        /\ Header(f) + (q + c) <= BufLen <=> p = 0
    BY FullFacts
  <2>2. Ahead(f) \in Nat /\ Body(f) = Ahead(f) + f.n /\ f.n \in Nat
    BY FrameSizes
  <2>3. q + c <= Body(f)
    BY DEF Full
  <2> QED
    BY <2>1, <2>2, <2>3 DEF FirstPiece
<1>2. Qos(buf) = f.qos /\ IdLen(buf) = (IF f.qos = 0 THEN 0 ELSE 2) /\ f.qos \in {0, 1}
  BY FirstByte, FrameTypes DEF Holds
<1>3. p = 0 => /\ Word(buf, Header(f)) = TopicLen
               /\ f.qos > 0 => Word(buf, Header(f) + 2 + TopicLen) = MessageId
  <2>1. p = 0 => Full(f, 0, 0, c) /\ Holds(f, buf, 0, c)
    BY <1>1
  <2> QED
    BY <2>1, ReadTopic
<1>4. (IF first THEN 2 + Word(buf, Header(f)) + IdLen(buf) ELSE 0) = off
  BY <1>1, <1>2, <1>3 DEF Ahead
<1>5. [i \in 1..(c - off) |-> buf[Header(f) + off + i - 1]] = data
  <2>1. /\ d = (IF p = 0 THEN c - Ahead(f) ELSE c) /\ base = (IF p = 0 THEN 0 ELSE q - Ahead(f))
        /\ off = (IF p = 0 THEN Ahead(f) ELSE 0)
    OBVIOUS
  <2> HIDE DEF off, d, base
  <2> QED
    BY <2>1, PieceData
<1>6. inpub_pkt_id' = IF ~first THEN inpub_pkt_id
                      ELSE IF Qos(buf) = 0 THEN 0
                      ELSE Word(buf, Header(f) + 2 + Word(buf, Header(f)))
  BY DEF ReceivePublish
<1>7. inpub_pkt_id' \in {0, MessageId} /\ (f.qos > 0 => inpub_pkt_id' = MessageId)
  BY <1>1, <1>2, <1>3, <1>6
<1> HIDE DEF off, d, base, data, rem, first
<1>8. calls' = ((calls \o (IF first THEN <<Call("pub_cb", rem + Len(data), <<>>, TRUE)>> ELSE <<>>))
                  \o (IF data # <<>> \/ rem = 0 THEN <<Call("data_cb", Len(data), data, rem = 0)>> ELSE <<>>))
                  \o (IF rem = 0 /\ Qos(buf) > 0 THEN <<Call("PUBACK", inpub_pkt_id', <<>>, TRUE)>> ELSE <<>>)
  BY <1>4, <1>5 DEF ReceivePublish, first, rem
<1>9. (IF first THEN <<Call("pub_cb", rem + Len(data), <<>>, TRUE)>> ELSE <<>>) = A
  <2>1. p = 0 => rem + Len(data) = f.n
    <3>1. p = 0 => d = c - Ahead(f) /\ base = 0 /\ rem = Body(f) - c /\ d \in Nat
      BY <1>1 DEF d, base, rem
    <3>2. p = 0 => Len(data) = d
      BY <3>1, CountIs DEF data
    <3> QED
      BY <1>1, <3>1, <3>2
  <2>2. Opening(f, 1) = <<Call("pub_cb", f.n, <<>>, TRUE)>>
    BY DEF Opening
  <2> QED
    BY <1>1, <2>1, <2>2
<1>10. (IF data # <<>> \/ rem = 0 THEN <<Call("data_cb", Len(data), data, rem = 0)>> ELSE <<>>) = P
  <2>1. Piece(f, p + 1) = IF data = <<>> /\ q + c # Body(f) THEN <<>>
                          ELSE <<Call("data_cb", Len(data), data, q + c = Body(f))>>
    <3>1. /\ p \in Nat /\ q = Times(p, Room(f)) /\ c \in Nat /\ 1 <= c /\ c <= Room(f)
          /\ q + c <= Body(f) /\ (c = Room(f) \/ q + c = Body(f))
      BY DEF Full
    <3> QED
      BY <3>1, PieceIs DEF data, d, base
  <2>2. rem = 0 <=> q + c = Body(f)
    BY <1>1 DEF rem
  <2> QED
    BY ONLY <2>1, <2>2
<1>11. (IF rem = 0 /\ Qos(buf) > 0 THEN <<Call("PUBACK", inpub_pkt_id', <<>>, TRUE)>> ELSE <<>>) = C
  <2>1. rem = 0 <=> Header(f) + (q + c) = Size(f)
    <3>1. Size(f) = Header(f) + Body(f)
      BY FrameSizes
    <3> QED
      BY <1>1, <3>1, SMTT(30) DEF rem
  <2> QED
    BY <1>2, <1>7, <2>1 DEF Closing
<1>12. A \in Seq(CallSet) /\ P \in Seq(CallSet) /\ C \in Seq(CallSet)
  BY <1>1, NewsType
<1> HIDE DEF A, P, C
<1>13. calls' = ((calls \o A) \o P) \o C
  BY ONLY <1>8, <1>9, <1>10, <1>11
<1>14. Cat(Cat(Cat(calls, A), P), C) = Cat(calls, Cat(Cat(A, P), C))
  BY <1>12, Together
<1>15. ((calls \o A) \o P) \o C = calls \o ((A \o P) \o C)
  BY ONLY <1>14 DEF Cat
<1>16. News(f, p, q, c) = (A \o P) \o C
  BY DEF News, A, P, C
<1> QED
  BY <1>7, <1>13, <1>15, <1>16

-----------------------------------------------------------------------------
(* The handlers                                                            *)

StreamOk(fs) ==
  /\ fs \in Seq(FrameSet) /\ Len(fs) >= 1 /\ fs[1].type = CONNACK
  /\ \A i \in 2..Len(fs) : fs[i].type # CONNACK
  /\ \A i, j \in 1..Len(fs) : fs[i].type = SUBACK /\ fs[j].type = SUBACK => i = j

\* The session when the frames before the j-th have been handled.
Session(fs, j, cs, pr) ==
  /\ cs = IF j = 1 THEN "CONNECTING" ELSE "CONNECTED"
  /\ pr = IF j > 1 /\ \A i \in 1..(j - 1) : fs[i].type # SUBACK THEN {SubId} ELSE {}

LEMMA SessionStep ==
  ASSUME NEW fs, StreamOk(fs), NEW j \in 1..Len(fs), NEW cs, NEW pr, Session(fs, j, cs, pr)
  PROVE  /\ fs[j].type = CONNACK => cs = "CONNECTING" /\ Session(fs, j + 1, "CONNECTED", pr \cup {SubId})
         /\ fs[j].type # CONNACK => cs = "CONNECTED"
         /\ fs[j].type \in {PUBLISH, PINGRESP} => Session(fs, j + 1, cs, pr)
         /\ fs[j].type = SUBACK => SubId \in pr /\ Session(fs, j + 1, cs, pr \ {SubId})
<1>1. /\ fs[1].type = CONNACK /\ Len(fs) \in Nat
      /\ \A i \in 2..Len(fs) : fs[i].type # CONNACK
      /\ \A i, k \in 1..Len(fs) : fs[i].type = SUBACK /\ fs[k].type = SUBACK => i = k
  BY DEF StreamOk
<1>2. /\ cs = IF j = 1 THEN "CONNECTING" ELSE "CONNECTED"
      /\ pr = IF j > 1 /\ \A i \in 1..(j - 1) : fs[i].type # SUBACK THEN {SubId} ELSE {}
  BY DEF Session
<1>3. CASE j = 1
  <2>1. fs[j].type = CONNACK /\ cs = "CONNECTING" /\ pr = {}
    BY <1>1, <1>2, <1>3
  <2>2. \A i \in 1..((j + 1) - 1) : fs[i].type # SUBACK
    BY <1>1, <1>3, Distinct
  <2>3. Session(fs, j + 1, "CONNECTED", pr \cup {SubId})
    BY <1>3, <2>1, <2>2 DEF Session
  <2> QED
    BY <2>1, <2>3, Distinct
<1>4. CASE j # 1
  <2>1. j \in 2..Len(fs) /\ j > 1 /\ j + 1 > 1 /\ j + 1 # 1 /\ (j + 1) - 1 = j
    BY <1>1, <1>4
  <2>2. fs[j].type # CONNACK /\ cs = "CONNECTED"
    BY <1>1, <1>2, <1>4, <2>1
  <2>3. ASSUME fs[j].type \in {PUBLISH, PINGRESP}
        PROVE  Session(fs, j + 1, cs, pr)
    <3>1. fs[j].type # SUBACK
      BY <2>3, Distinct
    <3>2. (\A i \in 1..j : fs[i].type # SUBACK) <=> (\A i \in 1..(j - 1) : fs[i].type # SUBACK)
      <4>1. \A i \in 1..j : i = j \/ i \in 1..(j - 1)
        BY <2>1
      <4>2. \A i \in 1..(j - 1) : i \in 1..j
        BY <2>1
      <4> QED
        BY <3>1, <4>1, <4>2
    <3>3. pr = IF \A i \in 1..j : fs[i].type # SUBACK THEN {SubId} ELSE {}
      BY <1>2, <2>1, <3>2
    <3> QED
      BY <2>1, <2>2, <3>3 DEF Session
  <2>4. ASSUME fs[j].type = SUBACK
        PROVE  SubId \in pr /\ Session(fs, j + 1, cs, pr \ {SubId})
    <3>1. \A i \in 1..(j - 1) : fs[i].type # SUBACK
      <4>1. ASSUME NEW i \in 1..(j - 1)
            PROVE  fs[i].type # SUBACK
        <5>1. i \in 1..Len(fs) /\ j \in 1..Len(fs) /\ i # j
          BY <1>1, <2>1
        <5> QED
          BY <1>1, <2>4, <5>1
      <4> QED
        BY <4>1
    <3>2. pr = {SubId}
      BY <1>2, <2>1, <3>1
    <3>3. ~ \A i \in 1..j : fs[i].type # SUBACK
      <4>1. j \in 1..j
        BY <2>1
      <4> QED
        BY <2>4, <4>1
    <3>4. pr \ {SubId} = {}
      BY <3>2
    <3> QED
      BY <2>1, <2>2, <3>2, <3>3, <3>4 DEF Session
  <2> QED
    BY <2>2, <2>3, <2>4
<1> QED
  BY <1>3, <1>4

LEMMA ReadAck ==
  ASSUME NEW f \in FrameSet, f.type \in {CONNACK, SUBACK}, NEW buf, NEW p, NEW q, NEW c,
         Full(f, p, q, c), Holds(f, buf, q, c)
  PROVE  /\ p = 0 /\ q = 0 /\ c = Body(f)
         /\ f.type = CONNACK => c = 2 /\ buf[Header(f) + 1] = f.n
         /\ f.type = SUBACK => c = 3 /\ Word(buf, Header(f)) = SubId /\ buf[Header(f) + 2] = f.n
<1>1. /\ p \in Nat /\ q \in Nat /\ c \in Nat /\ Room(f) \in Nat /\ Header(f) \in 2..5
      /\ p = 0 => q = 0
      /\ p # 0 => q >= Room(f)
  BY FullFacts
<1>2. 1 <= c /\ c <= Room(f) /\ q + c <= Body(f) /\ (c = Room(f) \/ q + c = Body(f))
  BY DEF Full
<1>3. Body(f) \in Nat /\ Body(f) < Room(f)
  BY FrameSizes, Distinct
<1>4. p = 0 /\ q = 0 /\ c = Body(f)
  BY <1>1, <1>2, <1>3
<1>5. \A i \in 0..(c - 1) : buf[Header(f) + i] = VarPart(f)[i + 1]
  BY <1>1, <1>4 DEF Holds
<1>6. ASSUME f.type = CONNACK
      PROVE  c = 2 /\ buf[Header(f) + 1] = f.n
  <2>1. Body(f) = 2 /\ VarPart(f)[2] = f.n
    BY <1>6, VarParts
  <2>2. 1 \in 0..(c - 1) /\ 1 + 1 = 2
    BY <1>4, <2>1
  <2> QED
    BY <1>4, <1>5, <2>1, <2>2
<1>7. ASSUME f.type = SUBACK
      PROVE  c = 3 /\ Word(buf, Header(f)) = SubId /\ buf[Header(f) + 2] = f.n
  <2>1. Body(f) = 3 /\ VarPart(f)[1] = 0 /\ VarPart(f)[2] = SubId /\ VarPart(f)[3] = f.n
    BY <1>7, VarParts
  <2>2. 0 \in 0..(c - 1) /\ 1 \in 0..(c - 1) /\ 2 \in 0..(c - 1)
    BY <1>4, <2>1
  <2>3. /\ buf[Header(f) + 0] = VarPart(f)[0 + 1] /\ buf[Header(f) + 1] = VarPart(f)[1 + 1]
        /\ buf[Header(f) + 2] = VarPart(f)[2 + 1]
    BY <1>5, <2>2
  <2>4. buf[Header(f)] = 0 /\ buf[Header(f) + 1] = SubId /\ buf[Header(f) + 2] = f.n
    <3>1. Header(f) + 0 = Header(f) /\ 0 + 1 = 1 /\ 1 + 1 = 2 /\ 2 + 1 = 3
      BY <1>1
    <3> QED
      BY <2>1, <2>3, <3>1
  <2>5. Word(buf, Header(f)) = SubId
    BY <2>4 DEF Word, SubId
  <2> QED
    BY <1>4, <2>1, <2>4, <2>5
<1> QED
  BY <1>4, <1>6, <1>7

\* What the handler returns: only a refusal is not 0.
LEMMA ResultIs ==
  ASSUME NEW f \in FrameSet, NEW buf, NEW p, NEW q, NEW c,
         Full(f, p, q, c), Holds(f, buf, q, c),
         f.type = SUBACK => SubId \in pend_req
  PROVE  Result(buf, Header(f) + (q + c), Header(f), c) =
           IF f.type = CONNACK /\ conn_state = "CONNECTING" THEN f.n ELSE 0
<1> DEFINE idx == Header(f) + (q + c)
           h == Header(f)
<1>1. Type(buf) = f.type
  BY FirstByte DEF Holds
<1>2. f.type \in {CONNACK, PUBLISH, SUBACK, PINGRESP} /\ f.n \in Nat
  BY FrameTypes
<1>3. CASE f.type = CONNACK
  <2>1. c = 2 /\ buf[h + 1] = f.n
    BY <1>3, ReadAck
  <2>2. ~ (c < 2)
    BY <2>1
  <2> HIDE DEF idx, h
  <2>3. CASE conn_state = "CONNECTING"
    <3>1. Result(buf, idx, h, c) = buf[h + 1]
      BY <1>1, <1>3, <2>2, <2>3, Distinct DEF Result
    <3> QED
      BY <1>3, <2>1, <2>3, <3>1 DEF idx, h
  <2>4. CASE conn_state # "CONNECTING"
    <3>1. Result(buf, idx, h, c) = 0
      BY <1>1, <1>3, <2>4, Distinct DEF Result
    <3> QED
      BY <1>3, <2>4, <3>1 DEF idx, h
  <2> QED
    BY <2>3, <2>4
<1>4. CASE f.type = PUBLISH
  <2>1. ~ (FirstPiece(idx) /\ Short(buf, h, c))
    <3>1. p \in Nat /\ (p = 0 => q = 0) /\ (h + (q + c) <= BufLen <=> p = 0)
      BY FullFacts
    <3>2. p = 0 => Full(f, 0, 0, c) /\ Holds(f, buf, 0, c)
      BY <3>1
    <3>3. p = 0 => ~ Short(buf, h, c)
      BY <1>4, <3>2, ReadTopic
    <3> QED
      BY <3>1, <3>3 DEF FirstPiece
  <2> HIDE DEF idx, h
  <2>2. Result(buf, idx, h, c) = 0
    BY <1>1, <1>4, <2>1, Distinct DEF Result
  <2> QED
    BY <1>4, <2>2, Distinct DEF idx, h
<1>5. CASE f.type = SUBACK
  <2>1. c = 3 /\ Word(buf, h) = SubId
    BY <1>5, ReadAck
  <2>2. ~ (Word(buf, h) = 0 \/ (Word(buf, h) \in pend_req /\ c < 3))
    BY <2>1 DEF SubId
  <2> HIDE DEF idx, h
  <2>3. Result(buf, idx, h, c) = 0
    BY <1>1, <1>5, <2>2, Distinct DEF Result
  <2> QED
    BY <1>5, <2>3, Distinct DEF idx, h
<1>6. CASE f.type = PINGRESP
  <2> HIDE DEF idx, h
  <2>1. Result(buf, idx, h, c) = 0
    BY <1>1, <1>6, Distinct DEF Result
  <2> QED
    BY <1>6, <2>1, Distinct DEF idx, h
<1> QED
  BY <1>2, <1>3, <1>4, <1>5, <1>6

-----------------------------------------------------------------------------
(* What a call of mqtt_message_received does in a session                  *)

\* rx_buffer holds the p-th filling with the j-th frame, c bytes behind the header.
Ready(j, buf, p, q, c) ==
  /\ j \in 1..Len(frames) /\ Full(frames[j], p, q, c) /\ Holds(frames[j], buf, q, c)
  /\ Session(frames, j, conn_state, pend_req)
  /\ p # 0 /\ frames[j].qos > 0 => inpub_pkt_id = MessageId

\* The calls of X are those that the bytes of the j-th frame up to l call for,
\* beyond those up to k; the frame is over if l is its size.
Made(j, k, l, X) ==
  /\ X \in Seq(CallSet) /\ calls' = calls \o X
  /\ CallsOf(frames[j], l) = CallsOf(frames[j], k) \o X
  /\ inpub_pkt_id' \in {0, MessageId} /\ (frames[j].qos > 0 => inpub_pkt_id' = MessageId)
  /\ Session(frames, IF l = Size(frames[j]) THEN j + 1 ELSE j, conn_state', pend_req')

AckCall(f) ==
  IF f.type = CONNACK THEN Call("connect_cb", 0, <<>>, TRUE) ELSE Call("suback", f.n, <<>>, TRUE)

AckMade(f, q, r, c, X) ==
  /\ q + c = Body(f) /\ X \in Seq(CallSet)
  /\ \A s \in Seq(CallSet) : Append(s, AckCall(f)) = s \o X
  /\ CallsOf(f, Header(f) + (q + c)) = CallsOf(f, Header(f) + (q + r)) \o X

LEMMA AckMakes ==
  ASSUME NEW f \in FrameSet, NEW p, NEW q, NEW r, NEW c, Full(f, p, q, c), r \in 0..(c - 1),
         f.type \in {CONNACK, SUBACK}, f.n = 0,
         NEW X, X = <<AckCall(f)>>
  PROVE  AckMade(f, q, r, c, X)
<1>1. /\ p \in Nat /\ q \in Nat /\ c \in Nat /\ Room(f) \in Nat /\ Header(f) \in 2..5
      /\ p = 0 => q = 0
      /\ p # 0 => q >= Room(f)
  BY FullFacts
<1>2. 1 <= c /\ c <= Room(f) /\ q + c <= Body(f) /\ (c = Room(f) \/ q + c = Body(f))
  BY DEF Full
<1>3. Body(f) \in Nat /\ Body(f) < Room(f) /\ Size(f) = Header(f) + Body(f)
  BY FrameSizes, Distinct
<1>4. q = 0 /\ q + c = Body(f)
  BY <1>1, <1>2, <1>3
<1>5. f.type # PUBLISH /\ f.n \in Nat
  BY Distinct, FrameTypes
<1> DEFINE k == Header(f) + (q + r)
           l == Header(f) + (q + c)
<1>6. l = Size(f) /\ k # Size(f)
  BY <1>1, <1>3, <1>4
<1>7. X \in Seq(CallSet)
  <2>1. AckCall(f) \in CallSet
    BY <1>5 DEF AckCall, Call, CallSet
  <2>2. <<AckCall(f)>> \in Seq(CallSet)
    BY <2>1, Singleton
  <2> QED
    BY <2>2
<1> HIDE DEF k, l
<1>8. CallsOf(f, k) = <<>>
  BY <1>5, <1>6, CallsOfOther
<1>9. CallsOf(f, l) = X
  <2>1. CASE f.type = CONNACK
    BY <2>1, <1>5, <1>6, CallsOfOther, Distinct DEF AckCall
  <2>2. CASE f.type = SUBACK
    BY <2>2, <1>5, <1>6, CallsOfOther, Distinct DEF AckCall
  <2> QED
    BY <2>1, <2>2
<1>10. <<>> \o X = X
  BY <1>7
<1>11. \A s \in Seq(CallSet) : Append(s, AckCall(f)) = s \o X
  <2>1. AckCall(f) \in CallSet
    BY <1>5 DEF AckCall, Call, CallSet
  <2> HIDE DEF AckCall
  <2> QED
    BY <2>1
<1> QED
  BY <1>4, <1>7, <1>8, <1>9, <1>10, <1>11 DEF k, l, AckMade

LEMMA Handle ==
  ASSUME NEW j, NEW buf, NEW p, NEW q, NEW c, NEW r, Ready(j, buf, p, q, c), r \in 0..(c - 1),
         StreamOk(frames), calls \in Seq(CallSet), inpub_pkt_id \in {0, MessageId},
         NEW h, h = Header(frames[j]),
         Result(buf, h + (q + c), h, c) = 0,
         mqtt_message_received(buf, h + (q + c), h, c, Body(frames[j]) - (q + c))
  PROVE  \E X : Made(j, h + (q + r), h + (q + c), X)
<1> DEFINE f == frames[j]
<1>1. j \in 1..Len(frames) /\ frames \in Seq(FrameSet)
  BY DEF Ready, StreamOk
<1>2. f \in FrameSet
  BY <1>1
<1>3. /\ Full(f, p, q, c) /\ Holds(f, buf, q, c) /\ Session(frames, j, conn_state, pend_req)
      /\ p # 0 /\ f.qos > 0 => inpub_pkt_id = MessageId
  BY DEF Ready
<1> HIDE DEF f
<1>4. h = Header(f)
  BY DEF f
<1>5. Type(buf) = f.type
  BY <1>2, <1>3, FirstByte DEF Holds
<1>6. /\ f.type \in {CONNACK, PUBLISH, SUBACK, PINGRESP} /\ f.n \in Nat
      /\ f.type # PUBLISH => f.qos = 0
  BY <1>2, FrameTypes
<1>7. /\ p \in Nat /\ q \in Nat /\ c \in Nat /\ Header(f) \in 2..5
  BY <1>2, <1>3, FullFacts
<1>8. Body(f) \in Nat /\ Size(f) = Header(f) + Body(f) /\ Size(f) \in Nat
  BY <1>2, FrameSizes
<1>9. /\ f.type = CONNACK => conn_state = "CONNECTING" /\ Session(frames, j + 1, "CONNECTED", pend_req \cup {SubId})
      /\ f.type # CONNACK => conn_state = "CONNECTED"
      /\ f.type \in {PUBLISH, PINGRESP} => Session(frames, j + 1, conn_state, pend_req)
      /\ f.type = SUBACK => SubId \in pend_req /\ Session(frames, j + 1, conn_state, pend_req \ {SubId})
  BY <1>1, <1>3, SessionStep DEF f
<1>10. h + (q + c) = Size(f) <=> q + c = Body(f)
  BY <1>4, <1>7, <1>8, SMTT(30)
<1> DEFINE idx == h + (q + c)
           rem == Body(f) - (q + c)
<1>11. \/ f.type = CONNACK /\ ReceiveConnack
       \/ f.type = PUBLISH /\ ReceivePublish(buf, idx, h, c, rem)
       \/ f.type = SUBACK /\ ReceiveSuback(buf, h)
       \/ f.type = PINGRESP /\ UNCHANGED handlerVars
  BY <1>5 DEF mqtt_message_received, f
<1>12. Result(buf, Header(f) + (q + c), Header(f), c) =
         IF f.type = CONNACK /\ conn_state = "CONNECTING" THEN f.n ELSE 0
  BY <1>2, <1>3, <1>9, ResultIs
<1>13. CASE f.type = CONNACK
  <2>0. PICK X : X = <<AckCall(f)>>
    OBVIOUS
  <2>1. conn_state = "CONNECTING" /\ f.n = 0
    BY <1>4, <1>9, <1>12, <1>13
  <2>2. ReceiveConnack
    BY <1>11, <1>13, Distinct
  <2>3. /\ conn_state' = "CONNECTED" /\ pend_req' = pend_req \cup {SubId}
        /\ calls' = Append(calls, Call("connect_cb", 0, <<>>, TRUE))
        /\ inpub_pkt_id' = inpub_pkt_id
    BY <2>1, <2>2 DEF ReceiveConnack
  <2>4. /\ q + c = Body(f) /\ X \in Seq(CallSet)
        /\ \A s \in Seq(CallSet) : Append(s, AckCall(f)) = s \o X
        /\ CallsOf(f, Header(f) + (q + c)) = CallsOf(f, Header(f) + (q + r)) \o X
    <3>1. f.type \in {CONNACK, SUBACK} /\ f.n = 0
      BY <2>1, <1>2, <1>13, FrameTypes
    <3>2. AckMade(f, q, r, c, X)
      BY <1>2, <1>3, <2>0, <3>1, AckMakes
    <3> QED
      BY <3>2 DEF AckMade
  <2>5. calls' = calls \o X
    <3>1. AckCall(f) = Call("connect_cb", 0, <<>>, TRUE)
      BY <1>13, Distinct DEF AckCall
    <3> QED
      BY <2>3, <2>4, <3>1
  <2>6. f.qos = 0 /\ ~ (f.qos > 0)
    BY <1>6, <1>13, Distinct
  <2>7. Session(frames, IF h + (q + c) = Size(f) THEN j + 1 ELSE j, conn_state', pend_req')
    BY <1>9, <1>10, <1>13, <2>3, <2>4
  <2>8. Made(j, h + (q + r), h + (q + c), X)
    BY <1>4, <2>3, <2>4, <2>5, <2>6, <2>7 DEF Made, f
  <2> QED
    BY <2>8
<1>14. CASE f.type = SUBACK
  <2>0. PICK X : X = <<AckCall(f)>>
    OBVIOUS
  <2>1. Word(buf, Header(f)) = SubId /\ buf[Header(f) + 2] = f.n
    BY <1>2, <1>3, <1>14, ReadAck
  <2>2. ReceiveSuback(buf, h)
    BY <1>11, <1>14, Distinct
  <2>3. /\ pend_req' = pend_req \ {SubId} /\ conn_state' = conn_state /\ inpub_pkt_id' = inpub_pkt_id
        /\ calls' = Append(calls, Call("suback", f.n, <<>>, TRUE))
    BY <1>4, <1>9, <1>14, <2>1, <2>2 DEF ReceiveSuback
  <2>4. /\ q + c = Body(f) /\ X \in Seq(CallSet)
        /\ \A s \in Seq(CallSet) : Append(s, AckCall(f)) = s \o X
        /\ CallsOf(f, Header(f) + (q + c)) = CallsOf(f, Header(f) + (q + r)) \o X
    <3>1. f.type \in {CONNACK, SUBACK} /\ f.n = 0
      BY <1>2, <1>14, FrameTypes
    <3>2. AckMade(f, q, r, c, X)
      BY <1>2, <1>3, <2>0, <3>1, AckMakes
    <3> QED
      BY <3>2 DEF AckMade
  <2>5. calls' = calls \o X
    <3>1. AckCall(f) = Call("suback", f.n, <<>>, TRUE)
      BY <1>14, Distinct DEF AckCall
    <3> QED
      BY <2>3, <2>4, <3>1
  <2>6. f.qos = 0 /\ ~ (f.qos > 0)
    BY <1>6, <1>14, Distinct
  <2>7. Session(frames, IF h + (q + c) = Size(f) THEN j + 1 ELSE j, conn_state', pend_req')
    BY <1>9, <1>10, <1>14, <2>3, <2>4
  <2>8. Made(j, h + (q + r), h + (q + c), X)
    BY <1>4, <2>3, <2>4, <2>5, <2>6, <2>7 DEF Made, f
  <2> QED
    BY <2>8
<1>15. CASE f.type = PUBLISH
  <2>1. ReceivePublish(buf, Header(f) + (q + c), Header(f), c, Body(f) - (q + c))
    BY <1>4, <1>11, <1>15, Distinct
  <2>2. /\ calls' = calls \o News(f, p, q, c)
        /\ inpub_pkt_id' \in {0, MessageId} /\ (f.qos > 0 => inpub_pkt_id' = MessageId)
    BY <1>2, <1>3, <1>15, <2>1, ReadPublish
  <2>3. News(f, p, q, c) \in Seq(CallSet)
    BY <1>2, <1>7, <1>15, NewsType
  <2>4. conn_state' = conn_state /\ pend_req' = pend_req
    BY <2>1 DEF ReceivePublish
  <2>5. CallsOf(f, h + (q + c)) = CallsOf(f, h + (q + r)) \o News(f, p, q, c)
    <3>1. PICK k : k = Header(f) + (q + r)
      OBVIOUS
    <3>2. PICK l : l = Header(f) + (q + c)
      OBVIOUS
    <3>3. r \in Nat /\ r < c
      BY <1>7
    <3>4. CallsOf(f, l) = Cat(CallsOf(f, k), News(f, p, q, c))
      BY <1>2, <1>3, <1>15, <3>1, <3>2, <3>3, OnePieceMore
    <3> QED
      BY <1>4, <3>1, <3>2, <3>4 DEF Cat
  <2>6. Session(frames, IF h + (q + c) = Size(f) THEN j + 1 ELSE j, conn_state', pend_req')
    BY <1>3, <1>9, <1>15, <2>4
  <2>7. Made(j, h + (q + r), h + (q + c), News(f, p, q, c))
    BY <2>2, <2>3, <2>5, <2>6 DEF Made, f
  <2> QED
    BY <2>7
<1>16. CASE f.type = PINGRESP
  <2>1. Body(f) = 0
    BY <1>2, <1>16, VarParts
  <2>2. 1 <= c /\ q + c <= Body(f)
    BY <1>3 DEF Full
  <2> QED
    BY <1>7, <2>1, <2>2
<1> QED
  BY <1>6, <1>13, <1>14, <1>15, <1>16

-----------------------------------------------------------------------------
(* The inductive invariant                                                 *)

\* The parser is idx bytes into the frame f and has read the first x bytes of
\* its header in this segment: rem is the length it has summed up, or what is left
\* of the frame, c the byte it read last, buf holds the header as far as it has come.
InHeader(f, buf, idx, x, rem, c) ==
  /\ idx < Size(f) /\ x <= Header(f) /\ x <= idx
  /\ x > 0 => c = Bytes(f)[x]
  /\ x < Header(f) => Partial(f, x, rem)
  /\ x = Header(f) => rem = Size(f) - idx
  /\ \A i \in 0..(Header(f) - 1) : i < idx => buf[i] = Bytes(f)[i + 1]

\* Behind the header: p fillings have been handed over, r bytes of the next are there.
InBuffer(f, buf, idx, pkt, p, q, r) ==
  /\ p \in Nat /\ q = Times(p, Room(f)) /\ r \in Nat /\ r < Room(f)
  /\ idx = Header(f) + (q + r)
  /\ \A i \in 0..(r - 1) : buf[Header(f) + i] = VarPart(f)[q + i + 1]
  /\ p # 0 /\ f.qos > 0 => pkt = MessageId

InFrame(f, buf, idx, x, rem, c, pkt) ==
  /\ InHeader(f, buf, idx, x, rem, c)
  /\ idx >= Header(f) => \E p, q, r : InBuffer(f, buf, idx, pkt, p, q, r)

\* k bytes of the stream have been parsed, the last idx of them of the j-th frame.
At(fs, j, k, buf, idx, x, rem, c, pkt) ==
  /\ j \in 1..(Len(fs) + 1) /\ k = Start(fs, j) + idx
  /\ j = Len(fs) + 1 => idx = 0 /\ x = 0 /\ rem = 0
  /\ j # Len(fs) + 1 => InFrame(fs[j], buf, idx, x, rem, c, pkt)

Types ==
  /\ rx_buffer \in [0..(BufLen - 1) -> Nat] /\ msg_idx \in Nat /\ inpub_pkt_id \in {0, MessageId}
  /\ tot_len \in Nat /\ in_offset \in 0..tot_len /\ msg_rem_len \in Nat
  /\ fixed_hdr_idx \in Nat /\ b \in Nat /\ got \in Nat /\ calls \in Seq(CallSet)

\* What has arrived is a part of what the broker sent, and has been answered.
Stream ==
  /\ frames \in Streams /\ wire = Encode(frames) /\ got + tot_len <= Len(wire)
  /\ tot_len = 0 => in_offset = 0 /\ msg_rem_len = 0 /\ fixed_hdr_idx = 0 /\ b = 0
  /\ calls = FlattenSeq(CallsUpTo(frames, got + in_offset))

Parsed(j) ==
  /\ Session(frames, j, conn_state, pend_req)
  /\ At(frames, j, got + in_offset, rx_buffer, msg_idx, fixed_hdr_idx, msg_rem_len, b, inpub_pkt_id)

Refused ==
  /\ conn_state = "DISCONNECTED" /\ pend_req = {} /\ tot_len = 0 /\ frames[1].n # 0

IInv == Types /\ Stream /\ (Refused \/ \E j : Parsed(j))

LEMMA AtStart ==
  ASSUME NEW fs \in Seq(FrameSet), NEW j \in 1..(Len(fs) + 1), NEW k, k = Start(fs, j),
         NEW buf, NEW c, NEW pkt
  PROVE  At(fs, j, k, buf, 0, 0, 0, c, pkt)
<1>1. k = Start(fs, j) + 0
  <2>1. Start(fs, j) \in Nat
    BY StartStep
  <2> QED
    BY <2>1
<1>2. ASSUME j # Len(fs) + 1
      PROVE  InFrame(fs[j], buf, 0, 0, 0, c, pkt)
  <2>1. j \in 1..Len(fs)
    BY <1>2
  <2>2. fs[j] \in FrameSet
    BY <2>1
  <2>3. PICK f : f = fs[j]
    OBVIOUS
  <2>4. Header(f) \in 2..5 /\ Size(f) = Header(f) + Body(f) /\ Body(f) \in Nat
    BY <2>2, <2>3, FrameSizes
  <2>5. 0 < Size(f) /\ 0 < Header(f) /\ ~ (0 >= Header(f)) /\ 0 # Header(f) /\ 0 <= Header(f)
    BY <2>4
  <2>6. Partial(f, 0, 0)
    BY DEF Partial
  <2>7. \A i \in 0..(Header(f) - 1) : ~ (i < 0)
    BY <2>4
  <2>8. InHeader(f, buf, 0, 0, 0, c)
    BY <2>5, <2>6, <2>7 DEF InHeader
  <2> QED
    BY <2>3, <2>5, <2>8 DEF InFrame
<1> QED
  BY <1>1, <1>2 DEF At

\* The locals are lost between two segments, and the header is read again.
LEMMA AtAgain ==
  ASSUME NEW fs \in Seq(FrameSet), NEW j, NEW k, NEW buf, NEW idx \in Nat, NEW x, NEW rem, NEW c, NEW pkt,
         At(fs, j, k, buf, idx, x, rem, c, pkt)
  PROVE  At(fs, j, k, buf, idx, 0, 0, 0, pkt)
<1>1. /\ j \in 1..(Len(fs) + 1) /\ k = Start(fs, j) + idx
      /\ j = Len(fs) + 1 => idx = 0
      /\ j # Len(fs) + 1 => InFrame(fs[j], buf, idx, x, rem, c, pkt)
  BY DEF At
<1>2. ASSUME j # Len(fs) + 1
      PROVE  InFrame(fs[j], buf, idx, 0, 0, 0, pkt)
  <2>1. fs[j] \in FrameSet
    BY <1>1, <1>2
  <2>2. PICK f : f = fs[j]
    OBVIOUS
  <2>3. Header(f) \in 2..5
    BY <2>1, <2>2, FrameSizes
  <2>4. /\ InHeader(f, buf, idx, x, rem, c)
        /\ idx >= Header(f) => \E p, q, r : InBuffer(f, buf, idx, pkt, p, q, r)
    BY <1>1, <1>2, <2>2 DEF InFrame
  <2>5. 0 <= Header(f) /\ 0 <= idx /\ ~ (0 > 0) /\ 0 # Header(f)
    BY <2>3
  <2>6. Partial(f, 0, 0)
    BY DEF Partial
  <2>7. InHeader(f, buf, idx, 0, 0, 0)
    BY <2>4, <2>5, <2>6 DEF InHeader
  <2> QED
    BY <2>2, <2>4, <2>7 DEF InFrame
<1> QED
  BY <1>1, <1>2 DEF At

\* What Streams and Encode give to the steps.
LEMMA TheStream ==
  ASSUME Stream
  PROVE  /\ StreamOk(frames) /\ frames \in Seq(FrameSet) /\ Len(frames) \in Nat /\ Len(frames) >= 1
         /\ Len(wire) \in Nat /\ Len(wire) = Start(frames, Len(frames) + 1) /\ wire \in Seq(Nat)
<1>1. frames \in Streams /\ wire = Encode(frames)
  BY DEF Stream
<1>2. /\ frames \in Seq(FrameSet) /\ Len(frames) >= 1 /\ frames[1].type = CONNACK
      /\ \A i \in 2..Len(frames) : frames[i].type # CONNACK
      /\ \A i, j \in 1..Len(frames) : frames[i].type = SUBACK /\ frames[j].type = SUBACK => i = j
  BY <1>1, StreamFacts
<1>3. StreamOk(frames)
  BY <1>2 DEF StreamOk
<1>4. Encode(frames) \in Seq(Nat) /\ Len(Encode(frames)) = Start(frames, Len(frames) + 1)
  BY <1>2, StartStep
<1> QED
  BY <1>1, <1>2, <1>3, <1>4

LEMMA NewSession ==
  ASSUME NEW fs \in Streams
  PROVE  /\ fs \in Seq(FrameSet)
         /\ Session(fs, 1, "CONNECTING", {})
         /\ \A buf, pkt : At(fs, 1, 0, buf, 0, 0, 0, 0, pkt)
         /\ FlattenSeq(CallsUpTo(fs, 0)) = <<>>
         /\ Encode(fs) \in Seq(Nat)
<1>1. fs \in Seq(FrameSet) /\ Len(fs) >= 1
  BY StreamFacts
<1>2. Session(fs, 1, "CONNECTING", {})
  BY DEF Session
<1>3. 1 \in 1..(Len(fs) + 1) /\ Start(fs, 1) = 0 /\ Encode(fs) \in Seq(Nat)
  BY <1>1, StartStep
<1>4. ASSUME NEW buf, NEW pkt
      PROVE  At(fs, 1, 0, buf, 0, 0, 0, 0, pkt)
  <2>1. PICK j \in 1..(Len(fs) + 1), k \in {0}, c \in {0} : j = 1 /\ k = 0 /\ c = 0
    BY <1>3
  <2>2. At(fs, j, k, buf, 0, 0, 0, c, pkt)
    BY <1>1, <1>3, <2>1, AtStart
  <2> QED
    BY <2>1, <2>2
<1> QED
  BY <1>1, <1>2, <1>3, <1>4, NoCallsAtFirst

LEMMA InitIInv == Init => IInv
<1> SUFFICES ASSUME Init
             PROVE  IInv
  OBVIOUS
<1>1. /\ rx_buffer = Zeros /\ msg_idx = 0 /\ inpub_pkt_id = 0
      /\ conn_state = "CONNECTING" /\ pend_req = {} /\ calls = <<>>
      /\ tot_len = 0 /\ in_offset = 0 /\ msg_rem_len = 0 /\ fixed_hdr_idx = 0 /\ b = 0
      /\ got = 0 /\ frames \in Streams /\ wire = Encode(frames)
  BY DEF Init
<1>2. /\ Session(frames, 1, "CONNECTING", {}) /\ FlattenSeq(CallsUpTo(frames, 0)) = <<>>
      /\ At(frames, 1, 0, rx_buffer, 0, 0, 0, 0, inpub_pkt_id) /\ Encode(frames) \in Seq(Nat)
  BY <1>1, NewSession
<1>3. Types
  BY <1>1 DEF Types, Zeros
<1>4. Stream
  BY <1>1, <1>2 DEF Stream
<1>5. Parsed(1)
  BY <1>1, <1>2 DEF Parsed
<1> QED
  BY <1>3, <1>4, <1>5 DEF IInv

LEMMA ReconnectStep ==
  ASSUME IInv, Reconnect
  PROVE  IInv'
<1>1. /\ rx_buffer' = Zeros /\ msg_idx' = 0 /\ inpub_pkt_id' = 0
      /\ conn_state' = "CONNECTING" /\ pend_req' = {} /\ calls' = <<>>
      /\ got' = 0 /\ frames' \in Streams /\ wire' = Encode(frames')
      /\ tot_len' = tot_len /\ in_offset' = in_offset /\ msg_rem_len' = msg_rem_len
      /\ fixed_hdr_idx' = fixed_hdr_idx /\ b' = b /\ ~ (tot_len > 0)
  BY DEF Reconnect, localVars, Parsing
<1>2. /\ tot_len' = 0 /\ in_offset' = 0 /\ msg_rem_len' = 0 /\ fixed_hdr_idx' = 0 /\ b' = 0
  BY <1>1 DEF IInv, Types, Stream
<1>3. PICK fs \in Streams : fs = frames'
  BY <1>1
<1>4. /\ Session(fs, 1, "CONNECTING", {}) /\ FlattenSeq(CallsUpTo(fs, 0)) = <<>>
      /\ At(fs, 1, 0, rx_buffer', 0, 0, 0, 0, inpub_pkt_id') /\ Encode(fs) \in Seq(Nat)
  BY NewSession
<1>5. Types'
  BY <1>1, <1>2 DEF Types, Zeros
<1>6. Stream'
  BY <1>1, <1>2, <1>3, <1>4 DEF Stream
<1>7. Parsed(1)'
  BY <1>1, <1>2, <1>3, <1>4 DEF Parsed
<1> QED
  BY <1>5, <1>6, <1>7 DEF IInv

LEMMA RecvStep ==
  ASSUME IInv, Recv
  PROVE  IInv'
<1>1. /\ tot_len = 0 /\ conn_state # "DISCONNECTED" /\ tot_len' \in 1..(Len(wire) - got)
      /\ UNCHANGED <<rx_buffer, msg_idx, got, in_offset, msg_rem_len, fixed_hdr_idx, b>>
      /\ UNCHANGED <<inpub_pkt_id, conn_state, pend_req, calls, frames, wire>>
  BY DEF Recv, Parsing, localVars, handlerVars, brokerVars, IInv, Types
<1>2. Types /\ Stream /\ ~ Refused
  BY <1>1 DEF IInv, Refused
<1>3. PICK j : Parsed(j)
  BY <1>2 DEF IInv
<1>4. in_offset = 0 /\ got \in Nat /\ Len(wire) \in Nat
  BY <1>1, <1>2, TheStream DEF Stream, Types
<1>5. Types'
  BY <1>1, <1>2, <1>4 DEF Types
<1>6. Stream'
  <2>1. got' + tot_len' <= Len(wire') /\ tot_len' # 0
    BY <1>1, <1>4
  <2> QED
    BY <1>1, <1>2, <2>1 DEF Stream
<1>7. Parsed(j)'
  BY <1>1, <1>3 DEF Parsed
<1> QED
  BY <1>5, <1>6, <1>7 DEF IInv

LEMMA ReturnStep ==
  ASSUME IInv, Return
  PROVE  IInv'
<1>1. /\ tot_len > 0 /\ in_offset >= tot_len
      /\ got' = got + tot_len /\ tot_len' = 0
      /\ in_offset' = 0 /\ msg_rem_len' = 0 /\ fixed_hdr_idx' = 0 /\ b' = 0
      /\ UNCHANGED <<rx_buffer, msg_idx, inpub_pkt_id, conn_state, pend_req, calls, frames, wire>>
  BY DEF Return, Parsing, ClearLocals, handlerVars, brokerVars
<1>2. Types /\ Stream /\ ~ Refused
  BY <1>1 DEF IInv, Refused
<1>3. PICK j : Parsed(j)
  BY <1>2 DEF IInv
<1>4. in_offset = tot_len /\ got \in Nat /\ tot_len \in Nat /\ got + in_offset = got' + in_offset'
  BY <1>1, <1>2 DEF Types
<1>5. Types'
  BY <1>1, <1>2, <1>4 DEF Types
<1>6. Stream'
  <2>1. got' + tot_len' <= Len(wire')
    BY <1>1, <1>2, <1>4, TheStream DEF Stream
  <2>2. calls' = FlattenSeq(CallsUpTo(frames', got' + in_offset'))
    BY <1>1, <1>2, <1>4 DEF Stream
  <2> QED
    BY <1>1, <1>2, <2>1, <2>2 DEF Stream
<1>7. Parsed(j)'
  <2>1. /\ Session(frames, j, conn_state, pend_req)
        /\ At(frames, j, got + in_offset, rx_buffer, msg_idx, fixed_hdr_idx, msg_rem_len, b, inpub_pkt_id)
    BY <1>3 DEF Parsed
  <2>2. msg_idx \in Nat /\ frames \in Seq(FrameSet)
    BY <1>2, TheStream DEF Types
  <2>3. At(frames, j, got + in_offset, rx_buffer, msg_idx, 0, 0, 0, inpub_pkt_id)
    BY <2>1, <2>2, AtAgain
  <2> QED
    BY <1>1, <1>4, <2>1, <2>3 DEF Parsed
<1> QED
  BY <1>5, <1>6, <1>7 DEF IInv

-----------------------------------------------------------------------------
(* A byte of the header                                                    *)

\* The parser is in the frame f, the j-th.
Within(j, f) ==
  /\ j \in 1..Len(frames) /\ f = frames[j] /\ f \in FrameSet
  /\ InFrame(f, rx_buffer, msg_idx, fixed_hdr_idx, msg_rem_len, b, inpub_pkt_id)
  /\ got + in_offset = Start(frames, j) + msg_idx
  /\ Session(frames, j, conn_state, pend_req)

LEMMA StillWithin ==
  ASSUME Types, Stream, NEW j, Parsed(j), in_offset < tot_len
  PROVE  Within(j, frames[j])
<1>1. /\ got \in Nat /\ tot_len \in Nat /\ in_offset \in Nat /\ msg_idx \in Nat
  BY DEF Types
<1>2. got + tot_len <= Len(wire)
  BY DEF Stream
<1>3. Len(wire) \in Nat /\ Len(wire) = Start(frames, Len(frames) + 1) /\ Len(frames) \in Nat /\ frames \in Seq(FrameSet)
  BY TheStream
<1>4. At(frames, j, got + in_offset, rx_buffer, msg_idx, fixed_hdr_idx, msg_rem_len, b, inpub_pkt_id)
  BY DEF Parsed
<1>5. /\ j \in 1..(Len(frames) + 1) /\ got + in_offset = Start(frames, j) + msg_idx
      /\ j = Len(frames) + 1 => msg_idx = 0
      /\ j # Len(frames) + 1 => InFrame(frames[j], rx_buffer, msg_idx, fixed_hdr_idx, msg_rem_len, b, inpub_pkt_id)
  BY <1>4 DEF At
<1>6. j # Len(frames) + 1
  <2>1. SUFFICES ASSUME j = Len(frames) + 1
                 PROVE  FALSE
    OBVIOUS
  <2>2. got + in_offset = Len(wire) + 0
    BY <1>3, <1>5, <2>1
  <2> QED
    BY <1>1, <1>2, <1>3, <2>2
<1>7. j \in 1..Len(frames)
  BY <1>3, <1>5, <1>6
<1>8. frames[j] \in FrameSet
  BY <1>3, <1>7
<1> QED
  BY <1>5, <1>6, <1>7, <1>8 DEF Within, Parsed

\* The bytes of the stream ahead of the parser are those of the frame.
LEMMA BytesAhead ==
  ASSUME Types, Stream, NEW j, NEW f, Within(j, f), NEW m \in Nat, m > 0, msg_idx + m <= Size(f)
  PROVE  wire[got + in_offset + m] = Bytes(f)[msg_idx + m]
<1>1. j \in 1..Len(frames) /\ f = frames[j] /\ f \in FrameSet /\ got + in_offset = Start(frames, j) + msg_idx
  BY DEF Within
<1>2. wire = Encode(frames) /\ frames \in Seq(FrameSet)
  BY TheStream DEF Stream
<1>3. Size(f) \in Nat /\ msg_idx \in Nat /\ Start(frames, j) \in Nat /\ got \in Nat /\ in_offset \in Nat
  <2>1. j \in 1..(Len(frames) + 1)
    BY <1>1, <1>2
  <2>2. Start(frames, j) \in Nat
    BY <1>2, <2>1, StartStep
  <2>3. Size(f) \in Nat
    BY <1>1, FrameSizes
  <2> QED
    BY <2>2, <2>3 DEF Types
<1>4. PICK n \in 1..Size(f) : n = msg_idx + m
  BY <1>3
<1>5. Encode(frames)[Start(frames, j) + n] = Bytes(f)[n]
  BY <1>1, <1>2, WireAt
<1>6. got + in_offset + m = Start(frames, j) + n
  BY <1>1, <1>3, <1>4
<1> QED
  BY <1>2, <1>4, <1>5, <1>6

LEMMA HeaderGrows ==
  ASSUME NEW f \in FrameSet, NEW buf \in [0..(BufLen - 1) -> Nat], NEW idx \in Nat, NEW rem, NEW c, NEW pkt,
         NEW x \in 0..(Header(f) - 1), InFrame(f, buf, idx, x, rem, c, pkt),
         NEW d, d = Bytes(f)[x + 1], NEW buf2, NEW idx2, NEW rem2,
         x < idx => buf2 = buf /\ idx2 = idx,
         x >= idx => buf2 = [buf EXCEPT ![idx] = d] /\ idx2 = idx + 1,
         x + 1 < Header(f) => Partial(f, x + 1, rem2),
         x + 1 = Header(f) => Body(f) > 0 /\ rem2 = Size(f) - idx2
  PROVE  InFrame(f, buf2, idx2, x + 1, rem2, d, pkt)
<1>1. /\ Header(f) \in 2..5 /\ Header(f) < BufLen /\ Body(f) \in Nat /\ Size(f) = Header(f) + Body(f)
      /\ BufLen \in Nat /\ Room(f) \in Nat /\ Room(f) > 0
  BY BytesAre, FrameSizes, ParserAssumption
<1>2. /\ InHeader(f, buf, idx, x, rem, c)
      /\ idx >= Header(f) => \E p, q, r : InBuffer(f, buf, idx, pkt, p, q, r)
  BY DEF InFrame
<1>3. /\ idx < Size(f) /\ x <= idx
      /\ \A i \in 0..(Header(f) - 1) : i < idx => buf[i] = Bytes(f)[i + 1]
  BY <1>2 DEF InHeader
<1>4. CASE x < idx
  <2>1. buf2 = buf /\ idx2 = idx
    BY <1>4
  <2>2. InHeader(f, buf2, idx2, x + 1, rem2, d)
    BY <1>1, <1>3, <1>4, <2>1, SMTT(30) DEF InHeader
  <2> QED
    BY <1>2, <2>1, <2>2 DEF InFrame
<1>5. CASE x = idx
  <2>1. buf2 = [buf EXCEPT ![idx] = d] /\ idx2 = idx + 1
    BY <1>5
  <2>2. \A i \in 0..(Header(f) - 1) : i < idx2 => buf2[i] = Bytes(f)[i + 1]
    <3>1. ASSUME NEW i \in 0..(Header(f) - 1), i < idx2
          PROVE  buf2[i] = Bytes(f)[i + 1]
      <4>1. i \in 0..(BufLen - 1) /\ (i = idx \/ (i # idx /\ i < idx))
        BY <1>1, <2>1, <3>1, SMTT(30)
      <4>2. CASE i = idx
        BY <1>5, <2>1, <4>1, <4>2
      <4>3. CASE i # idx /\ i < idx
        BY <1>3, <2>1, <4>1, <4>3
      <4> QED
        BY <4>1, <4>2, <4>3
    <3> QED
      BY <3>1
  <2>a. idx2 = x + 1
    BY <1>5
  <2>3. idx2 < Size(f) /\ x + 1 <= Header(f) /\ x + 1 <= idx2
    <3>1. x \in 0..(Header(f) - 1) /\ (x + 1 = Header(f) => Body(f) > 0)
      OBVIOUS
    <3>2. Header(f) \in Nat
      BY ONLY <1>1
    <3>4. x \in Nat /\ x + 1 <= Header(f)
      BY ONLY <3>1, <3>2
    <3>5. Body(f) \in Nat /\ Size(f) = Header(f) + Body(f)
      BY ONLY <1>1
    <3>3. x + 1 < Size(f)
      BY ONLY <3>1, <3>2, <3>4, <3>5
    <3> QED
      BY ONLY <2>a, <3>2, <3>4, <3>3
  <2>4. InHeader(f, buf2, idx2, x + 1, rem2, d)
    BY <1>1, <2>2, <2>3 DEF InHeader
  <2>5. ASSUME idx2 >= Header(f)
        PROVE  InBuffer(f, buf2, idx2, pkt, 0, 0, 0)
    <3>1. idx2 = Header(f) + (0 + 0)
      BY <1>1, <2>a, <2>5, SMTT(30)
    <3>2. 0 = Times(0, Room(f))
      BY <1>1 DEF Times
    <3> QED
      BY <1>1, <3>1, <3>2 DEF InBuffer
  <2> QED
    BY <2>4, <2>5 DEF InFrame
<1> QED
  BY <1>3, <1>4, <1>5

\* The header brings no call about.
LEMMA HeaderCalls ==
  ASSUME Types, Stream, NEW j, NEW f, Within(j, f), msg_idx < Header(f),
         NEW k, k = got + (in_offset + 1)
  PROVE  calls = FlattenSeq(CallsUpTo(frames, k))
<1>1. j \in 1..Len(frames) /\ f = frames[j] /\ f \in FrameSet /\ got + in_offset = Start(frames, j) + msg_idx
  BY DEF Within
<1>2. frames \in Seq(FrameSet) /\ calls = FlattenSeq(CallsUpTo(frames, got + in_offset)) /\ calls \in Seq(CallSet)
  BY TheStream DEF Stream, Types
<1>3. Size(f) \in Nat /\ msg_idx \in Nat /\ Start(frames, j) \in Nat /\ got \in Nat /\ in_offset \in Nat
  <2>1. j \in 1..(Len(frames) + 1)
    BY <1>1, <1>2
  <2>2. Start(frames, j) \in Nat
    BY <1>2, <2>1, StartStep
  <2>3. Size(f) \in Nat
    BY <1>1, FrameSizes
  <2> QED
    BY <2>2, <2>3 DEF Types
<1>4. Header(f) \in Nat /\ Header(f) <= Size(f)
  BY <1>1, FrameSizes
<1>5. PICK a \in 0..Size(f), c \in 0..Size(f) : a = msg_idx /\ c = msg_idx + 1
  BY <1>3, <1>4
<1>6. a \in 0..Header(f) /\ c \in 0..Header(f)
  BY <1>3, <1>4, <1>5
<1>7. CallsOf(f, a) = <<>> /\ CallsOf(f, c) = <<>>
  BY <1>1, <1>6, NoCallsYet
<1>8. PICK x \in Seq(CallSet) : x = <<>>
  BY CatProperties
<1>9. CallsOf(frames[j], c) = Cat(CallsOf(frames[j], a), x)
  BY <1>1, <1>7, <1>8, CatProperties
<1>10. PICK l : l = got + in_offset
  OBVIOUS
<1>11. l = Start(frames, j) + a /\ k = Start(frames, j) + c /\ a \in 0..Size(frames[j]) /\ c \in 0..Size(frames[j])
  BY <1>1, <1>3, <1>5, <1>10
<1>12. FlattenSeq(CallsUpTo(frames, k)) = Cat(FlattenSeq(CallsUpTo(frames, l)), x)
  BY <1>1, <1>2, <1>9, <1>11, CallsGrow
<1> QED
  BY <1>2, <1>8, <1>10, <1>12, CatProperties

\* The byte that ParseHeader reads, and the length it has then summed up.
Reads(c, sum) ==
  /\ c = IF fixed_hdr_idx < msg_idx THEN rx_buffer[fixed_hdr_idx] ELSE wire[got + in_offset + 1]
  /\ sum = IF fixed_hdr_idx + 1 < 2 THEN msg_rem_len
           ELSE msg_rem_len + (c % LenBase) * Power[(fixed_hdr_idx + 1) - 1]

ReadsHeader(f, c, sum) ==
  /\ fixed_hdr_idx \in 0..(Header(f) - 1) /\ c = Bytes(f)[fixed_hdr_idx + 1] /\ c \in Nat /\ sum \in Nat
  /\ fixed_hdr_idx + 1 < Header(f) =>
       Partial(f, fixed_hdr_idx + 1, sum) /\ (fixed_hdr_idx + 1 >= 2 => c >= LenBase)
  /\ fixed_hdr_idx + 1 = Header(f) => sum = Body(f) /\ c < LenBase
  /\ fixed_hdr_idx <= msg_idx /\ msg_idx < Size(f)

LEMMA HeaderByte ==
  ASSUME Types, Stream, NEW j, NEW f, Within(j, f), fixed_hdr_idx < 2 \/ b >= LenBase,
         NEW c, NEW sum, Reads(c, sum)
  PROVE  ReadsHeader(f, c, sum)
<1>1. f \in FrameSet /\ InHeader(f, rx_buffer, msg_idx, fixed_hdr_idx, msg_rem_len, b)
  BY DEF Within, InFrame
<1>2. /\ fixed_hdr_idx \in Nat /\ msg_idx \in Nat /\ msg_rem_len \in Nat
  BY DEF Types
<1>3. /\ msg_idx < Size(f) /\ fixed_hdr_idx <= Header(f) /\ fixed_hdr_idx <= msg_idx
      /\ fixed_hdr_idx > 0 => b = Bytes(f)[fixed_hdr_idx]
      /\ fixed_hdr_idx < Header(f) => Partial(f, fixed_hdr_idx, msg_rem_len)
      /\ \A i \in 0..(Header(f) - 1) : i < msg_idx => rx_buffer[i] = Bytes(f)[i + 1]
  BY <1>1 DEF InHeader
<1>4. /\ Header(f) \in 2..5 /\ Size(f) \in Nat
      /\ Bytes(f)[Header(f)] = Rest(Body(f))[Header(f) - 1] /\ Rest(Body(f))[Header(f) - 1] < LenBase
      /\ Bytes(f) \in Seq(Nat) /\ LenBase \in Nat
  BY <1>1, BytesAre, ParserAssumption
<1>5. fixed_hdr_idx # Header(f)
  <2>1. SUFFICES ASSUME fixed_hdr_idx = Header(f)
                 PROVE  FALSE
    OBVIOUS
  <2>2. b < LenBase /\ fixed_hdr_idx >= 2
    BY <1>3, <1>4, <2>1
  <2>3. b \in Nat
    BY DEF Types
  <2>4. fixed_hdr_idx \in Nat /\ LenBase \in Nat /\ (fixed_hdr_idx < 2 \/ b >= LenBase)
    BY <1>2, <1>4
  <2> QED
    BY ONLY <2>2, <2>3, <2>4
<1>6. PICK x \in 0..(Header(f) - 1) : x = fixed_hdr_idx
  BY <1>2, <1>3, <1>4, <1>5
<1>7. c = Bytes(f)[x + 1]
  <2>1. CASE x < msg_idx
    BY <1>3, <1>6, <2>1 DEF Reads
  <2>2. CASE ~ (x < msg_idx)
    <3>1. x = msg_idx /\ 1 \in Nat /\ 1 > 0 /\ msg_idx + 1 <= Size(f)
      BY <1>2, <1>3, <1>4, <1>6, <2>2
    <3>2. wire[got + in_offset + 1] = Bytes(f)[msg_idx + 1]
      BY <3>1, BytesAhead
    <3> QED
      BY <1>6, <2>2, <3>1, <3>2 DEF Reads
  <2> QED
    BY <2>1, <2>2
<1>8. (x + 1) - 1 = x
  BY <1>4
<1>9. sum = IF x + 1 < 2 THEN msg_rem_len ELSE msg_rem_len + (c % LenBase) * Power[x]
  BY <1>6, <1>8, Zenon DEF Reads
<1>10. Partial(f, x, msg_rem_len)
  BY <1>3, <1>4, <1>6
<1>11. /\ c \in Nat /\ sum \in Nat
       /\ x + 1 < Header(f) => Partial(f, x + 1, sum) /\ (x + 1 >= 2 => c >= LenBase)
       /\ x + 1 = Header(f) => sum = Body(f) /\ c < LenBase
  BY <1>1, <1>2, <1>7, <1>9, <1>10, HeaderStep
<1> QED
  BY <1>3, <1>6, <1>7, <1>11, Zenon DEF ReadsHeader

\* A frame without a body is a PINGRESP: the handler does nothing.
LEMMA NoBody ==
  ASSUME NEW f \in FrameSet, Body(f) = 0, NEW buf, buf[0] = Bytes(f)[1], NEW idx, NEW hdr,
         mqtt_message_received(buf, idx, hdr, 0, 0)
  PROVE  f.type = PINGRESP /\ UNCHANGED handlerVars
<1>1. f.type = PINGRESP
  BY VarParts
<1>2. Type(buf) = PINGRESP
  BY <1>1, FirstByte
<1> QED
  BY <1>1, <1>2, Distinct DEF mqtt_message_received

LEMMA ParseHeaderStep ==
  ASSUME IInv, ParseHeader
  PROVE  IInv'
<1> DEFINE c    == IF fixed_hdr_idx < msg_idx THEN rx_buffer[fixed_hdr_idx] ELSE wire[got + in_offset + 1]
           buf  == IF fixed_hdr_idx < msg_idx THEN rx_buffer ELSE [rx_buffer EXCEPT ![msg_idx] = c]
           idx  == IF fixed_hdr_idx < msg_idx THEN msg_idx ELSE msg_idx + 1
           hdr  == fixed_hdr_idx + 1
           rem  == IF hdr < 2 THEN msg_rem_len ELSE msg_rem_len + (c % LenBase) * Power[hdr - 1]
           done == hdr >= 2 /\ c < LenBase
<1>1. /\ in_offset < tot_len /\ (fixed_hdr_idx < 2 \/ b >= LenBase)
      /\ b' = c /\ rx_buffer' = buf
      /\ in_offset' = IF fixed_hdr_idx < msg_idx THEN in_offset ELSE in_offset + 1
      /\ tot_len' = tot_len /\ got' = got /\ frames' = frames /\ wire' = wire
  BY DEF ParseHeader, brokerVars
<1>2. IF done /\ rem = 0
      THEN /\ mqtt_message_received(buf, idx, hdr, 0, 0)
           /\ fixed_hdr_idx' = 0 /\ msg_idx' = 0 /\ msg_rem_len' = 0
      ELSE /\ fixed_hdr_idx' = hdr /\ msg_idx' = idx
           /\ msg_rem_len' = IF done THEN (rem + hdr) - idx ELSE rem
           /\ UNCHANGED handlerVars
  BY DEF ParseHeader
<1>3. Reads(c, rem)
  BY DEF Reads
<1>4. /\ buf = IF fixed_hdr_idx < msg_idx THEN rx_buffer ELSE [rx_buffer EXCEPT ![msg_idx] = c]
      /\ idx = IF fixed_hdr_idx < msg_idx THEN msg_idx ELSE msg_idx + 1
      /\ hdr = fixed_hdr_idx + 1 /\ (done <=> hdr >= 2 /\ c < LenBase)
  BY Zenon
<1> HIDE DEF c, buf, idx, hdr, rem, done
<1>5. Types /\ Stream
  BY DEF IInv
<1>6. PICK j : Parsed(j)
  <2>1. tot_len # 0
    BY <1>1, <1>5 DEF Types
  <2> QED
    BY <2>1 DEF IInv, Refused
<1>7. PICK f : f = frames[j]
  OBVIOUS
<1>8. Within(j, f)
  BY <1>1, <1>5, <1>6, <1>7, StillWithin
<1>9. ReadsHeader(f, c, rem)
  BY <1>1, <1>3, <1>5, <1>8, HeaderByte
<1>10. /\ fixed_hdr_idx \in 0..(Header(f) - 1) /\ c = Bytes(f)[fixed_hdr_idx + 1] /\ c \in Nat /\ rem \in Nat
       /\ hdr < Header(f) => Partial(f, hdr, rem) /\ (hdr >= 2 => c >= LenBase)
       /\ hdr = Header(f) => rem = Body(f) /\ c < LenBase
       /\ fixed_hdr_idx <= msg_idx /\ msg_idx < Size(f)
  BY <1>4, <1>9, Zenon DEF ReadsHeader
<1>11. /\ j \in 1..Len(frames) /\ f \in FrameSet /\ got + in_offset = Start(frames, j) + msg_idx
       /\ Session(frames, j, conn_state, pend_req)
       /\ InFrame(f, rx_buffer, msg_idx, fixed_hdr_idx, msg_rem_len, b, inpub_pkt_id)
  BY <1>8 DEF Within
<1>12. /\ Header(f) \in 2..5 /\ Size(f) = Header(f) + Body(f) /\ Body(f) \in Nat /\ LenBase \in Nat /\ Size(f) \in Nat
  BY <1>11, FrameSizes, ParserAssumption
<1>13. /\ msg_idx \in Nat /\ rx_buffer \in [0..(BufLen - 1) -> Nat] /\ tot_len \in Nat /\ in_offset \in Nat
       /\ got \in Nat /\ inpub_pkt_id \in {0, MessageId} /\ calls \in Seq(CallSet) /\ fixed_hdr_idx \in Nat
  BY <1>5 DEF Types
<1>14. frames \in Seq(FrameSet) /\ Len(frames) \in Nat /\ StreamOk(frames)
  BY <1>5, TheStream
<1>15. Start(frames, j) \in Nat
  <2>1. j \in 1..(Len(frames) + 1)
    BY <1>11, <1>14
  <2> QED
    BY <1>14, <2>1, StartStep
<1>16. buf \in [0..(BufLen - 1) -> Nat] /\ idx \in Nat
  <2>1. [rx_buffer EXCEPT ![msg_idx] = c] \in [0..(BufLen - 1) -> Nat]
    BY <1>10, <1>13
  <2>2. idx \in Nat
    BY <1>4, <1>13
  <2> QED
    BY <1>4, <1>13, <2>1, <2>2, Zenon
<1>17. /\ fixed_hdr_idx < msg_idx => buf = rx_buffer /\ idx = msg_idx /\ in_offset' = in_offset
       /\ fixed_hdr_idx >= msg_idx => /\ buf = [rx_buffer EXCEPT ![msg_idx] = c] /\ idx = msg_idx + 1
                                      /\ in_offset' = in_offset + 1
  <2>1. fixed_hdr_idx < msg_idx <=> ~ (fixed_hdr_idx >= msg_idx)
    BY <1>13
  <2> QED
    BY <1>1, <1>4, <2>1, Zenon
<1>18. got' + in_offset' = Start(frames, j) + idx /\ in_offset' \in 0..tot_len
  <2>1. CASE fixed_hdr_idx < msg_idx
    BY <1>1, <1>11, <1>13, <1>17, <2>1
  <2>2. CASE fixed_hdr_idx >= msg_idx
    BY <1>1, <1>11, <1>13, <1>15, <1>17, <2>2
  <2> QED
    BY <1>13, <2>1, <2>2
<1>19. calls = FlattenSeq(CallsUpTo(frames, got' + in_offset'))
  <2>1. CASE fixed_hdr_idx < msg_idx
    BY <1>1, <1>5, <1>17, <2>1 DEF Stream
  <2>2. CASE fixed_hdr_idx >= msg_idx
    <3>1. msg_idx < Header(f)
      BY <1>10, <1>12, <1>13, <2>2
    <3>2. PICK k : k = got + (in_offset + 1)
      OBVIOUS
    <3>3. calls = FlattenSeq(CallsUpTo(frames, k))
      BY <1>5, <1>8, <3>1, <3>2, HeaderCalls
    <3> QED
      BY <1>1, <1>17, <2>2, <3>2, <3>3
  <2> QED
    BY <1>13, <2>1, <2>2
<1>20. got' + tot_len' <= Len(wire') /\ tot_len' # 0
  BY <1>1, <1>5, <1>13 DEF Stream
<1>21. CASE done /\ rem = 0
  <2>1. /\ mqtt_message_received(buf, idx, hdr, 0, 0)
        /\ fixed_hdr_idx' = 0 /\ msg_idx' = 0 /\ msg_rem_len' = 0
    BY <1>2, <1>21
  <2>2. hdr = Header(f)
    BY <1>4, <1>10, <1>12, <1>21
  <2>3. Body(f) = 0 /\ fixed_hdr_idx = msg_idx /\ idx = Size(f)
    <3>1. Body(f) = 0
      BY <1>10, <1>21, <2>2
    <3>2. msg_idx < hdr
      BY <1>10, <1>12, <2>2, <3>1
    <3>3. fixed_hdr_idx = msg_idx
      BY <1>4, <1>10, <1>13, <3>2
    <3>4. idx = msg_idx + 1
      BY <1>13, <1>17, <3>3
    <3> QED
      BY <1>4, <1>12, <2>2, <3>1, <3>3, <3>4
  <2>4. buf[0] = Bytes(f)[1]
    <3>1. msg_idx > 0 /\ 0 # msg_idx /\ 0 < msg_idx /\ 0 \in 0..(Header(f) - 1)
      BY <1>4, <1>12, <1>13, <2>2, <2>3
    <3>2. 0 < msg_idx => rx_buffer[0] = Bytes(f)[0 + 1]
      BY <1>11, <3>1 DEF InFrame, InHeader
    <3>3. buf[0] = rx_buffer[0]
      BY <1>4, <1>13, <3>1
    <3> QED
      BY <3>1, <3>2, <3>3
  <2>5. f.type = PINGRESP /\ UNCHANGED handlerVars
    BY <1>11, <2>1, <2>3, <2>4, NoBody
  <2>6. UNCHANGED <<inpub_pkt_id, conn_state, pend_req, calls>>
    BY <2>5 DEF handlerVars
  <2>7. Types'
    BY <1>1, <1>10, <1>13, <1>16, <1>18, <2>1, <2>6 DEF Types
  <2>8. Stream'
    BY <1>1, <1>5, <1>19, <1>20, <2>6 DEF Stream
  <2>9. Session(frames, j + 1, conn_state, pend_req)
    BY <1>7, <1>11, <1>14, <2>5, SessionStep
  <2>10. At(frames, j + 1, got' + in_offset', buf, 0, 0, 0, c, inpub_pkt_id)
    <3>1. PICK i \in 1..(Len(frames) + 1) : i = j + 1
      BY <1>11, <1>14
    <3>2. PICK k : k = got' + in_offset'
      OBVIOUS
    <3>3. Start(frames, j + 1) = Start(frames, j) + Size(frames[j])
      BY <1>11, <1>14, StartStep
    <3>4. k = Start(frames, i)
      BY <1>7, <1>18, <2>3, <3>1, <3>2, <3>3
    <3>5. At(frames, i, k, buf, 0, 0, 0, c, inpub_pkt_id)
      BY <1>14, <3>4, AtStart
    <3> QED
      BY <3>1, <3>2, <3>5
  <2>11. Parsed(j + 1)'
    BY <1>1, <2>1, <2>6, <2>9, <2>10 DEF Parsed
  <2> QED
    BY <2>7, <2>8, <2>11 DEF IInv
<1>22. CASE ~ (done /\ rem = 0)
  <2>1. /\ fixed_hdr_idx' = hdr /\ msg_idx' = idx
        /\ msg_rem_len' = IF done THEN (rem + hdr) - idx ELSE rem
        /\ UNCHANGED <<inpub_pkt_id, conn_state, pend_req, calls>>
    BY <1>2, <1>22 DEF handlerVars
  <2>2. hdr < Header(f) => ~ done /\ msg_rem_len' = rem
    BY <1>4, <1>10, <1>12, <2>1
  <2>3. hdr = Header(f) => done /\ Body(f) > 0 /\ msg_rem_len' = Size(f) - idx
    BY <1>4, <1>10, <1>12, <1>22, <2>1
  <2>4. InFrame(f, buf, idx, hdr, msg_rem_len', c, inpub_pkt_id)
    <3>1. PICK x \in 0..(Header(f) - 1) : x = fixed_hdr_idx
      BY <1>10
    <3>2. hdr = x + 1
      BY <1>4, <3>1
    <3>3. InFrame(f, rx_buffer, msg_idx, x, msg_rem_len, b, inpub_pkt_id)
      BY <1>11, <3>1
    <3>4. /\ x < msg_idx => buf = rx_buffer /\ idx = msg_idx
          /\ x >= msg_idx => buf = [rx_buffer EXCEPT ![msg_idx] = c] /\ idx = msg_idx + 1
      BY <1>17, <3>1
    <3>5. c = Bytes(f)[x + 1]
      BY <1>10, <3>1
    <3>6. /\ x + 1 < Header(f) => Partial(f, x + 1, msg_rem_len')
          /\ x + 1 = Header(f) => Body(f) > 0 /\ msg_rem_len' = Size(f) - idx
      BY <1>10, <2>2, <2>3, <3>2
    <3>7. PICK rem2 : rem2 = msg_rem_len'
      OBVIOUS
    <3>8. /\ x + 1 < Header(f) => Partial(f, x + 1, rem2)
          /\ x + 1 = Header(f) => Body(f) > 0 /\ rem2 = Size(f) - idx
      BY <3>6, <3>7
    <3>9. InFrame(f, buf, idx, x + 1, rem2, c, inpub_pkt_id)
      BY <1>11, <1>13, <3>3, <3>4, <3>5, <3>8, HeaderGrows, ZenonT(30)
    <3> QED
      BY <3>2, <3>7, <3>9
  <2>5. At(frames, j, got' + in_offset', buf, idx, hdr, msg_rem_len', c, inpub_pkt_id)
    <3>1. j \in 1..(Len(frames) + 1) /\ j # Len(frames) + 1
      BY <1>11, <1>14
    <3> QED
      BY <1>7, <1>18, <2>4, <3>1 DEF At
  <2>6. Parsed(j)'
    BY <1>1, <1>11, <2>1, <2>5 DEF Parsed
  <2>7. msg_rem_len' \in Nat /\ hdr \in Nat
    <3>1. InHeader(f, buf, idx, hdr, msg_rem_len', c)
      BY <2>4 DEF InFrame
    <3>2. idx < Size(f) /\ hdr <= Header(f)
      BY <3>1 DEF InHeader
    <3>3. hdr \in Nat
      BY <1>4, <1>13
    <3>4. CASE hdr = Header(f)
      <4>1. msg_rem_len' = Size(f) - idx
        BY <2>3, <3>4
      <4> QED
        BY <1>12, <1>16, <3>2, <3>3, <4>1
    <3>5. CASE hdr # Header(f)
      <4>1. hdr < Header(f)
        BY <1>12, <3>2, <3>3, <3>5
      <4> QED
        BY <1>10, <2>2, <3>3, <4>1
    <3> QED
      BY <3>4, <3>5
  <2>8. Types'
    BY <1>1, <1>10, <1>13, <1>16, <1>18, <2>1, <2>7 DEF Types
  <2>9. Stream'
    BY <1>1, <1>5, <1>19, <1>20, <2>1 DEF Stream
  <2> QED
    BY <2>6, <2>8, <2>9 DEF IInv
<1> QED
  BY <1>21, <1>22

-----------------------------------------------------------------------------
(* The copy into rx_buffer                                                 *)

LEMMA MinOfThree ==
  ASSUME NEW x \in Int, NEW y \in Int, NEW z \in Int, NEW m, m = Min({x, y, z})
  PROVE  m \in {x, y, z} /\ m <= x /\ m <= y /\ m <= z
<1>1. \E n \in {x, y, z} : \A i \in {x, y, z} : n =< i
  <2>1. CASE x <= y /\ x <= z
    BY <2>1
  <2>2. CASE y <= x /\ y <= z
    BY <2>2
  <2>3. CASE z <= x /\ z <= y
    BY <2>3
  <2> QED
    BY <2>1, <2>2, <2>3
<1>2. m \in {x, y, z} /\ \A i \in {x, y, z} : m =< i
  <2>1. m = CHOOSE n \in {x, y, z} : \A i \in {x, y, z} : n =< i
    BY DEF Min
  <2> QED
    BY <1>1, <2>1
<1> QED
  BY <1>2

\* In the body cpy_start follows the r bytes of the filling, and cpy_len is what is left of the
\* segment, of the frame, or of the buffer.
Copies(f, p, q, r, n) ==
  /\ InBuffer(f, rx_buffer, msg_idx, inpub_pkt_id, p, q, r)
  /\ fixed_hdr_idx = Header(f) /\ msg_rem_len = Size(f) - msg_idx
  /\ cpy_start = Header(f) + r /\ cpy_len = n
  /\ n \in Nat /\ 1 <= n /\ n <= tot_len - in_offset /\ r + n <= Room(f) /\ q + (r + n) <= Body(f)
  /\ q \in Nat /\ cpy_start >= fixed_hdr_idx /\ cpy_start + cpy_len <= BufLen

LEMMA HeaderRead ==
  ASSUME Types, NEW j, NEW f, Within(j, f), fixed_hdr_idx >= 2, b < LenBase
  PROVE  fixed_hdr_idx = Header(f)
<1>1. f \in FrameSet /\ InHeader(f, rx_buffer, msg_idx, fixed_hdr_idx, msg_rem_len, b)
  BY DEF Within, InFrame
<1>2. fixed_hdr_idx \in Nat /\ b \in Nat
  BY DEF Types
<1>3. fixed_hdr_idx <= Header(f) /\ (fixed_hdr_idx > 0 => b = Bytes(f)[fixed_hdr_idx])
  BY <1>1 DEF InHeader
<1>4. /\ Header(f) \in 2..5 /\ Body(f) \in Nat
      /\ \A i \in 1..(Header(f) - 2) : Bytes(f)[i + 1] = LenBase + (Rest(Body(f))[i] % LenBase)
  BY <1>1, BytesAre, FrameSizes
<1>5. SUFFICES ASSUME fixed_hdr_idx # Header(f)
               PROVE  FALSE
  OBVIOUS
<1>6. PICK i \in 1..(Header(f) - 2) : i + 1 = fixed_hdr_idx
  <2>1. fixed_hdr_idx - 1 \in 1..(Header(f) - 2) /\ (fixed_hdr_idx - 1) + 1 = fixed_hdr_idx
    BY <1>2, <1>3, <1>4, <1>5
  <2> QED
    BY <2>1
<1>7. LenBase \in Nat /\ LenBase > 0 /\ i \in 1..4
  BY <1>4, ParserAssumption
<1>8. Rest(Body(f))[i] \in Nat
  BY <1>4, <1>7, RestStep
<1>9. PICK m : m = Rest(Body(f))[i] % LenBase
  OBVIOUS
<1>10. m \in 0..(LenBase - 1)
  BY <1>7, <1>8, <1>9, DivMod
<1>11. b = LenBase + m
  BY <1>3, <1>4, <1>6, <1>9
<1> QED
  BY <1>2, <1>7, <1>10, <1>11

LEMMA CopyIs ==
  ASSUME Types, Stream, NEW j, NEW f, Within(j, f), InBody
  PROVE  \E p, q, r, n : Copies(f, p, q, r, n)
<1>1. in_offset < tot_len /\ fixed_hdr_idx >= 2 /\ b < LenBase
  BY DEF InBody
<1>2. f \in FrameSet /\ InFrame(f, rx_buffer, msg_idx, fixed_hdr_idx, msg_rem_len, b, inpub_pkt_id)
  BY DEF Within
<1>3. fixed_hdr_idx = Header(f)
  BY <1>1, HeaderRead
<1>4. msg_idx < Size(f) /\ fixed_hdr_idx <= msg_idx /\ msg_rem_len = Size(f) - msg_idx
  BY <1>2, <1>3 DEF InFrame, InHeader
<1>5. /\ Header(f) \in 2..5 /\ Body(f) \in Nat /\ Size(f) = Header(f) + Body(f) /\ Room(f) = BufLen - Header(f)
      /\ Room(f) \in Nat /\ Room(f) > 0 /\ BufLen \in Nat
  BY <1>2, FrameSizes, ParserAssumption
<1>6. msg_idx \in Nat /\ tot_len \in Nat /\ in_offset \in Nat /\ msg_rem_len \in Nat
  BY DEF Types
<1>7. PICK p, q, r : InBuffer(f, rx_buffer, msg_idx, inpub_pkt_id, p, q, r)
  <2>1. msg_idx >= Header(f)
    BY <1>3, <1>4, <1>5, <1>6
  <2> QED
    BY <1>2, <2>1 DEF InFrame
<1>8. /\ p \in Nat /\ q = Times(p, Room(f)) /\ r \in Nat /\ r < Room(f) /\ msg_idx = Header(f) + (q + r)
  BY <1>7 DEF InBuffer
<1>9. q \in Nat
  BY <1>5, <1>8 DEF Times
<1>10. cpy_start = Header(f) + r
  <2>1. PICK a : a = msg_idx - fixed_hdr_idx
    OBVIOUS
  <2>2. a = q + r /\ BufLen - fixed_hdr_idx = Room(f)
    BY <1>3, <1>5, <1>8, <1>9, <2>1
  <2>3. PICK d \in Nat : d = Room(f)
    BY <1>5
  <2>4. d > 0 /\ r < d /\ a = p * d + r
    BY <1>5, <1>8, <2>2, <2>3 DEF Times
  <2>5. a % d = r
    BY <1>8, <2>4, DivIs, ZenonT(30)
  <2>6. (msg_idx - fixed_hdr_idx) % (BufLen - fixed_hdr_idx) = r
    BY <2>1, <2>2, <2>3, <2>5
  <2>7. cpy_start = r + fixed_hdr_idx
    BY <2>6 DEF cpy_start
  <2> QED
    BY <1>3, <1>5, <1>8, <2>7
<1>11. PICK n : n = cpy_len
  OBVIOUS
<1>12. PICK x \in Int, y \in Int, z \in Int :
         x = tot_len - in_offset /\ y = msg_rem_len /\ z = BufLen - cpy_start
  <2>1. cpy_start \in Int
    BY <1>5, <1>8, <1>10
  <2> QED
    BY <1>5, <1>6, <2>1
<1>13. n = Min({x, y, z})
  BY <1>11, <1>12 DEF cpy_len
<1>14. n \in {x, y, z} /\ n <= x /\ n <= y /\ n <= z
  BY <1>13, MinOfThree
<1>15. x >= 1 /\ y >= 1 /\ z >= 1
  <2>1. x >= 1
    BY <1>1, <1>6, <1>12
  <2>2. y >= 1
    BY <1>4, <1>5, <1>6, <1>12
  <2>3. z >= 1
    BY <1>5, <1>8, <1>10, <1>12
  <2> QED
    BY <2>1, <2>2, <2>3
<1>16. n \in Nat /\ 1 <= n
  BY <1>14, <1>15
<1>17. r + n <= Room(f)
  BY <1>5, <1>8, <1>10, <1>12, <1>14, <1>16
<1>18. q + (r + n) <= Body(f)
  <2>1. y = Body(f) - (q + r)
    BY <1>4, <1>5, <1>8, <1>9, <1>12
  <2> QED
    BY <1>5, <1>8, <1>9, <1>14, <1>16, <2>1
<1>19. cpy_start >= fixed_hdr_idx /\ cpy_start + cpy_len <= BufLen
  <2>1. cpy_start >= fixed_hdr_idx
    BY <1>3, <1>5, <1>8, <1>10
  <2>2. cpy_start + cpy_len = Header(f) + (r + n)
    BY <1>5, <1>8, <1>10, <1>11, <1>16
  <2> QED
    BY <1>5, <1>8, <1>16, <1>17, <2>1, <2>2
<1>20. Copies(f, p, q, r, n)
  BY <1>3, <1>4, <1>7, <1>9, <1>10, <1>11, <1>12, <1>14, <1>16, <1>17, <1>18, <1>19 DEF Copies
<1> QED
  BY <1>20

\* The bytes that rx_buffer has after the copy.
Copied(f, buf, q, c) ==
  /\ buf \in [0..(BufLen - 1) -> Nat]
  /\ \A i \in 0..(Header(f) - 1) : buf[i] = Bytes(f)[i + 1]
  /\ \A i \in 0..(c - 1) : buf[Header(f) + i] = VarPart(f)[q + i + 1]

Put(n) ==
  [i \in 0..(BufLen - 1) |->
     IF i \in cpy_start..(cpy_start + n - 1) THEN wire[got + in_offset + (i - cpy_start) + 1]
     ELSE rx_buffer[i]]

LEMMA CopyPuts ==
  ASSUME Types, Stream, NEW j, NEW f, Within(j, f), NEW p, NEW q, NEW r, NEW n, Copies(f, p, q, r, n),
         NEW buf, buf = Put(n), NEW c, c = r + n
  PROVE  Copied(f, buf, q, c)
<1>1. f \in FrameSet /\ InHeader(f, rx_buffer, msg_idx, fixed_hdr_idx, msg_rem_len, b)
  BY DEF Within, InFrame
<1>2. /\ InBuffer(f, rx_buffer, msg_idx, inpub_pkt_id, p, q, r) /\ fixed_hdr_idx = Header(f)
      /\ cpy_start = Header(f) + r /\ n \in Nat /\ 1 <= n /\ r + n <= Room(f) /\ q + (r + n) <= Body(f)
      /\ q \in Nat
  BY DEF Copies
<1>3. /\ r \in Nat /\ msg_idx = Header(f) + (q + r)
      /\ \A i \in 0..(r - 1) : rx_buffer[Header(f) + i] = VarPart(f)[q + i + 1]
  BY <1>2 DEF InBuffer
<1>4. /\ Header(f) \in 2..5 /\ Body(f) \in Nat /\ Size(f) = Header(f) + Body(f) /\ Room(f) = BufLen - Header(f)
      /\ BufLen \in Nat /\ Size(f) \in Nat
  BY <1>1, FrameSizes, ParserAssumption
<1>5. /\ Bytes(f) \in Seq(Nat) /\ Len(Bytes(f)) = Size(f)
      /\ \A i \in 1..Body(f) : Bytes(f)[Header(f) + i] = VarPart(f)[i]
  BY <1>1, BytesAre DEF Size
<1>6. rx_buffer \in [0..(BufLen - 1) -> Nat] /\ got \in Nat /\ in_offset \in Nat
  BY DEF Types
<1>7. ASSUME NEW i \in 0..(n - 1)
      PROVE  /\ Header(f) + (r + i) \in 0..(BufLen - 1) /\ q + (r + i) + 1 \in 1..Body(f)
             /\ buf[Header(f) + (r + i)] = VarPart(f)[q + (r + i) + 1]
             /\ buf[Header(f) + (r + i)] \in Nat
  <2>1. i \in Nat /\ i + 1 \in Nat /\ i + 1 > 0 /\ i < n
    BY <1>2
  <2>2. Header(f) + (r + i) \in 0..(BufLen - 1) /\ q + (r + i) + 1 \in 1..Body(f)
    BY <1>2, <1>3, <1>4, <2>1
  <2>3. PICK a \in 0..(BufLen - 1) : a = Header(f) + (r + i)
    BY <2>2
  <2>4. a \in cpy_start..(cpy_start + n - 1) /\ a - cpy_start = i
    BY <1>2, <1>3, <1>4, <2>1, <2>3
  <2>5. buf[a] = wire[got + in_offset + i + 1]
    BY <2>4 DEF Put
  <2>6. PICK m \in Nat : m = i + 1
    BY <2>1
  <2>a. PICK h \in Nat, s \in Nat, o \in Nat : h = Header(f) /\ s = Body(f) /\ o = got + in_offset
    BY <1>4, <1>6
  <2>b. /\ i < n /\ q + (r + n) <= s /\ Size(f) = h + s /\ msg_idx = h + (q + r)
        /\ i \in Nat /\ n \in Nat /\ q \in Nat /\ r \in Nat /\ m \in Nat /\ m = i + 1
    BY <1>2, <1>3, <1>4, <2>1, <2>6, <2>a
  <2>7. m > 0 /\ msg_idx + m <= Size(f) /\ got + in_offset + i + 1 = got + in_offset + m
    <3>1. m > 0 /\ h + (q + r) + m <= h + s
      BY ONLY <2>b
    <3>2. o + i + 1 = o + m
      BY ONLY <2>b
    <3> QED
      BY <2>a, <2>b, <3>1, <3>2
  <2>8. wire[got + in_offset + m] = Bytes(f)[msg_idx + m]
    BY <2>7, BytesAhead
  <2>9. PICK l \in 1..Body(f) : l = q + (r + i) + 1
    BY <2>2
  <2>10. msg_idx + m = Header(f) + l /\ Header(f) + l \in 1..Len(Bytes(f))
    <3>1. l \in 1..s /\ l = q + (r + i) + 1
      BY <2>9, <2>a
    <3>2. h + (q + r) + m = h + l /\ h + l \in 1..(h + s)
      BY ONLY <2>b, <3>1
    <3> QED
      BY <1>5, <2>a, <2>b, <3>2
  <2>11. buf[a] = VarPart(f)[l] /\ buf[a] = Bytes(f)[Header(f) + l]
    BY <1>5, <2>5, <2>7, <2>8, <2>10
  <2>12. Bytes(f)[Header(f) + l] \in Nat
    BY <1>5, <2>10
  <2> QED
    BY <2>2, <2>3, <2>9, <2>11, <2>12
<1>8. ASSUME NEW a \in 0..(BufLen - 1), ~ (a \in cpy_start..(cpy_start + n - 1))
      PROVE  buf[a] = rx_buffer[a]
  BY <1>8 DEF Put
<1>9. buf \in [0..(BufLen - 1) -> Nat]
  <2>1. buf = [i \in 0..(BufLen - 1) |-> buf[i]]
    BY DEF Put
  <2>2. ASSUME NEW a \in 0..(BufLen - 1)
        PROVE  buf[a] \in Nat
    <3>1. CASE a \in cpy_start..(cpy_start + n - 1)
      <4>1. PICK i \in 0..(n - 1) : a = Header(f) + (r + i)
        <5>1. a - cpy_start \in 0..(n - 1) /\ a = Header(f) + (r + (a - cpy_start))
          BY <1>2, <1>3, <1>4, <3>1
        <5> QED
          BY <5>1
      <4> QED
        BY <1>7, <4>1
    <3>2. CASE ~ (a \in cpy_start..(cpy_start + n - 1))
      BY <1>6, <1>8, <3>2
    <3> QED
      BY <3>1, <3>2
  <2> QED
    BY <2>1, <2>2
<1>10. ASSUME NEW i \in 0..(Header(f) - 1)
       PROVE  buf[i] = Bytes(f)[i + 1]
  <2>1. i \in 0..(BufLen - 1) /\ ~ (i \in cpy_start..(cpy_start + n - 1)) /\ i < msg_idx
    BY <1>2, <1>3, <1>4
  <2>2. rx_buffer[i] = Bytes(f)[i + 1]
    BY <1>1, <2>1 DEF InHeader
  <2> QED
    BY <1>8, <2>1, <2>2
<1>11. ASSUME NEW i \in 0..(c - 1)
       PROVE  buf[Header(f) + i] = VarPart(f)[q + i + 1]
  <2>1. CASE i < r
    <3>1. i \in 0..(r - 1)
      BY <1>3, <2>1
    <3>2. PICK a \in 0..(BufLen - 1) : a = Header(f) + i
      <4>1. Header(f) + i \in 0..(BufLen - 1)
        BY <1>2, <1>3, <1>4, <2>1
      <4> QED
        BY <4>1
    <3>3. ~ (a \in cpy_start..(cpy_start + n - 1))
      BY <1>2, <1>3, <1>4, <2>1, <3>2
    <3>4. buf[a] = rx_buffer[a]
      BY <1>8, <3>3
    <3> QED
      BY <1>3, <3>1, <3>2, <3>4
  <2>2. CASE ~ (i < r)
    <3>1. PICK k \in 0..(n - 1) : i = r + k
      <4>1. i - r \in 0..(n - 1) /\ i = r + (i - r)
        BY <1>2, <1>3, <2>2
      <4> QED
        BY <4>1
    <3> QED
      BY <1>7, <3>1
  <2> QED
    BY <2>1, <2>2
<1> QED
  BY <1>9, <1>10, <1>11 DEF Copied

-----------------------------------------------------------------------------
(* The rest of the frame                                                   *)

\* When the handlers have made the calls of X, for n bytes more, the calls are again those
\* that the stream brings about.
LEMMA CallsAfter ==
  ASSUME Types, Stream, NEW j, NEW f, Within(j, f), NEW k, NEW l, k = msg_idx, k \in 0..Size(f), l \in 0..Size(f),
         NEW X \in Seq(CallSet), CallsOf(f, l) = Cat(CallsOf(f, k), X),
         NEW o, o = Start(frames, j) + l
  PROVE  FlattenSeq(CallsUpTo(frames, o)) = Cat(calls, X)
<1>1. j \in 1..Len(frames) /\ f = frames[j] /\ got + in_offset = Start(frames, j) + msg_idx
  BY DEF Within
<1>2. frames \in Seq(FrameSet) /\ calls = FlattenSeq(CallsUpTo(frames, got + in_offset))
  BY TheStream DEF Stream
<1>3. PICK a : a = got + in_offset
  OBVIOUS
<1>4. /\ k \in 0..Size(frames[j]) /\ l \in 0..Size(frames[j])
      /\ CallsOf(frames[j], l) = Cat(CallsOf(frames[j], k), X)
      /\ a = Start(frames, j) + k
  BY <1>1, <1>3
<1>5. FlattenSeq(CallsUpTo(frames, o)) = Cat(FlattenSeq(CallsUpTo(frames, a)), X)
  BY <1>1, <1>2, <1>4, CallsGrow
<1> QED
  BY <1>2, <1>3, <1>5

\* Bytes that neither fill the buffer nor end the frame bring no call about.
LEMMA NoCallNow ==
  ASSUME NEW f \in FrameSet, NEW p \in Nat, NEW q, q = Times(p, Room(f)), q \in Nat,
         NEW r \in Nat, NEW n \in Nat, r + n < Room(f), q + (r + n) < Body(f),
         NEW k, k = Header(f) + (q + r), NEW l, l = Header(f) + (q + (r + n))
  PROVE  CallsOf(f, l) = CallsOf(f, k)
<1>1. /\ Header(f) \in 2..5 /\ Body(f) \in Nat /\ Size(f) = Header(f) + Body(f) /\ Room(f) \in Nat
  BY FrameSizes
<1>2. CASE f.type = PUBLISH
  <2>1. q + r + n = q + (r + n) /\ l = k + n
    BY <1>1
  <2>2. q + r + n < Body(f)
    BY <2>1
  <2> QED
    BY <1>2, <2>1, <2>2, NothingNew
<1>3. CASE f.type # PUBLISH
  <2>1. k # Size(f) /\ l # Size(f)
    BY <1>1
  <2> QED
    BY <1>3, <2>1, CallsOfOther
<1> QED
  BY <1>2, <1>3

\* What ParseBody does, with the results of the copy for its local definitions.
Takes(f, buf, q, c, n) ==
  LET h   == Header(f)
      rem == Body(f) - (q + c)
      full == rem = 0 \/ c = Room(f)
  IN  /\ rx_buffer' = buf
      /\ IF full /\ Result(buf, h + (q + c), h, c) # 0
         THEN /\ conn_state' = "DISCONNECTED" /\ tot_len' = 0
              /\ got' = got + in_offset + n /\ msg_idx' = h + (q + c)
              /\ ClearLocals
              /\ UNCHANGED <<inpub_pkt_id, pend_req, calls>>
         ELSE /\ IF full THEN mqtt_message_received(buf, h + (q + c), h, c, rem)
                 ELSE UNCHANGED handlerVars
              /\ in_offset' = in_offset + n
              /\ msg_rem_len' = rem
              /\ IF rem = 0 THEN msg_idx' = 0 /\ fixed_hdr_idx' = 0
                 ELSE msg_idx' = h + (q + c) /\ UNCHANGED fixed_hdr_idx
              /\ UNCHANGED <<b, tot_len, got>>
      /\ UNCHANGED brokerVars

LEMMA ParseBodyTakes ==
  ASSUME Types, Stream, NEW j, NEW f, Within(j, f), ParseBody,
         NEW p, NEW q, NEW r, NEW n, Copies(f, p, q, r, n), NEW c, c = r + n, NEW buf, buf = Put(n)
  PROVE  Takes(f, buf, q, c, n)
<1>1. f \in FrameSet
  BY DEF Within
<1>2. /\ fixed_hdr_idx = Header(f) /\ msg_rem_len = Size(f) - msg_idx
      /\ cpy_start = Header(f) + r /\ cpy_len = n /\ n \in Nat /\ 1 <= n /\ q \in Nat
      /\ InBuffer(f, rx_buffer, msg_idx, inpub_pkt_id, p, q, r)
  BY DEF Copies
<1>3. r \in Nat /\ msg_idx = Header(f) + (q + r)
  BY <1>2 DEF InBuffer
<1>4. /\ Header(f) \in 2..5 /\ Body(f) \in Nat /\ Size(f) = Header(f) + Body(f) /\ Room(f) = BufLen - Header(f)
      /\ BufLen \in Nat
  BY <1>1, FrameSizes, ParserAssumption
<1>5. /\ msg_idx + cpy_len = Header(f) + (q + c)
      /\ msg_rem_len - cpy_len = Body(f) - (q + c)
      /\ cpy_start + cpy_len - fixed_hdr_idx = c
      /\ cpy_len = BufLen - cpy_start <=> c = Room(f)
  BY <1>2, <1>3, <1>4
<1>6. buf = [i \in 0..(BufLen - 1) |->
               IF i \in cpy_start..(cpy_start + cpy_len - 1)
               THEN wire[got + in_offset + (i - cpy_start) + 1]
               ELSE rx_buffer[i]]
  BY <1>2 DEF Put
<1> DEFINE buf0 == [i \in 0..(BufLen - 1) |->
                      IF i \in cpy_start..(cpy_start + cpy_len - 1)
                      THEN wire[got + in_offset + (i - cpy_start) + 1]
                      ELSE rx_buffer[i]]
           idx == msg_idx + cpy_len
           rem == msg_rem_len - cpy_len
           len == cpy_start + cpy_len - fixed_hdr_idx
           full == rem = 0 \/ cpy_len = BufLen - cpy_start
<1>7. /\ rx_buffer' = buf0
      /\ IF full /\ Result(buf0, idx, fixed_hdr_idx, len) # 0
         THEN /\ conn_state' = "DISCONNECTED" /\ tot_len' = 0
              /\ got' = got + in_offset + cpy_len /\ msg_idx' = idx
              /\ ClearLocals
              /\ UNCHANGED <<inpub_pkt_id, pend_req, calls>>
         ELSE /\ IF full THEN mqtt_message_received(buf0, idx, fixed_hdr_idx, len, rem)
                 ELSE UNCHANGED handlerVars
              /\ in_offset' = in_offset + cpy_len
              /\ msg_rem_len' = rem
              /\ IF rem = 0 THEN msg_idx' = 0 /\ fixed_hdr_idx' = 0
                 ELSE msg_idx' = idx /\ UNCHANGED fixed_hdr_idx
              /\ UNCHANGED <<b, tot_len, got>>
      /\ UNCHANGED brokerVars
  BY DEF ParseBody
<1>8. buf0 = buf /\ idx = Header(f) + (q + c) /\ rem = Body(f) - (q + c) /\ len = c
  BY <1>5, <1>6
<1>9. full <=> Body(f) - (q + c) = 0 \/ c = Room(f)
  BY <1>5, <1>8
<1> HIDE DEF buf0, idx, rem, len, full
<1> QED
  BY <1>2, <1>7, <1>8, <1>9, Zenon DEF Takes

LEMMA StaysInFrame ==
  ASSUME NEW f \in FrameSet, NEW buf, NEW p \in Nat, NEW q, q = Times(p, Room(f)), q \in Nat,
         NEW c \in Nat, c <= Room(f), q + c < Body(f), Copied(f, buf, q, c),
         NEW pkt, f.qos > 0 => pkt = MessageId \/ (p = 0 /\ c < Room(f)),
         NEW d, d = Bytes(f)[Header(f)],
         NEW h, h = Header(f), NEW idx, idx = h + (q + c), NEW rem, rem = Body(f) - (q + c)
  PROVE  InFrame(f, buf, idx, h, rem, d, pkt)
<1>1. /\ Header(f) \in 2..5 /\ Body(f) \in Nat /\ Size(f) = Header(f) + Body(f) /\ Room(f) \in Nat /\ Room(f) > 0
  BY FrameSizes
<1>2. /\ \A i \in 0..(Header(f) - 1) : buf[i] = Bytes(f)[i + 1]
      /\ \A i \in 0..(c - 1) : buf[Header(f) + i] = VarPart(f)[q + i + 1]
  BY DEF Copied
<1>3. idx < Size(f) /\ h <= idx /\ rem = Size(f) - idx
  BY <1>1
<1>4. InHeader(f, buf, idx, h, rem, d)
  <2>1. h <= Header(f) /\ ~ (h < Header(f))
    BY <1>1
  <2> QED
    BY <1>2, <1>3, <2>1 DEF InHeader
<1>5. CASE c < Room(f)
  <2>1. p # 0 /\ f.qos > 0 => pkt = MessageId
    OBVIOUS
  <2>2. InBuffer(f, buf, idx, pkt, p, q, c)
    BY <1>2, <1>5, <2>1 DEF InBuffer
  <2> QED
    BY <1>4, <2>2 DEF InFrame
<1>6. CASE c = Room(f)
  <2>1. PICK p2 \in Nat, q2 \in Nat, r2 \in Nat : p2 = p + 1 /\ q2 = q + c /\ r2 = 0
    <3>1. p + 1 \in Nat /\ q + c \in Nat /\ 0 \in Nat
      OBVIOUS
    <3> QED
      BY <3>1
  <2>2. q2 = Times(p2, Room(f))
    BY <1>1, <1>6, <2>1 DEF Times
  <2>3. r2 < Room(f) /\ idx = Header(f) + (q2 + r2)
    BY <1>1, <2>1
  <2>4. \A i \in 0..(r2 - 1) : buf[Header(f) + i] = VarPart(f)[q2 + i + 1]
    BY <2>1
  <2>5. f.qos > 0 => pkt = MessageId
    BY <1>1, <1>6
  <2>6. InBuffer(f, buf, idx, pkt, p2, q2, r2)
    BY <2>2, <2>3, <2>4, <2>5 DEF InBuffer
  <2> QED
    BY <1>4, <2>6 DEF InFrame
<1> QED
  BY <1>1, <1>5, <1>6

\* All that the three outcomes of ParseBody have in common.
Taken(j, f, p, q, r, n, c, buf) ==
  /\ Types /\ Stream /\ Within(j, f) /\ Copies(f, p, q, r, n) /\ Copied(f, buf, q, c) /\ Takes(f, buf, q, c, n)
  /\ f \in FrameSet /\ j \in 1..Len(frames) /\ frames \in Seq(FrameSet) /\ StreamOk(frames) /\ Len(frames) \in Nat
  /\ p \in Nat /\ q = Times(p, Room(f)) /\ q \in Nat /\ r \in Nat /\ n \in Nat /\ 1 <= n /\ c = r + n
  /\ c \in Nat /\ c <= Room(f) /\ q + c <= Body(f) /\ Room(f) \in Nat /\ Body(f) \in Nat
  /\ Header(f) \in 2..5 /\ Size(f) = Header(f) + Body(f) /\ Start(frames, j) \in Nat
  /\ msg_idx = Header(f) + (q + r) /\ n <= tot_len - in_offset
  /\ got + in_offset + n = Start(frames, j) + (Header(f) + (q + c))
  /\ p # 0 /\ f.qos > 0 => inpub_pkt_id = MessageId

LEMMA BodyTaken ==
  ASSUME IInv, ParseBody
  PROVE  \E j, f, p, q, r, n, c, buf : Taken(j, f, p, q, r, n, c, buf)
<1>1. Types /\ Stream /\ InBody
  BY DEF IInv, ParseBody
<1>2. in_offset < tot_len
  BY <1>1 DEF InBody
<1>3. PICK j : Parsed(j)
  <2>1. tot_len # 0
    BY <1>1, <1>2 DEF Types
  <2> QED
    BY <2>1 DEF IInv, Refused
<1>4. PICK f : f = frames[j]
  OBVIOUS
<1>5. Within(j, f)
  BY <1>1, <1>2, <1>3, <1>4, StillWithin
<1>6. PICK p, q, r, n : Copies(f, p, q, r, n)
  BY <1>1, <1>5, CopyIs
<1>7. PICK c : c = r + n
  OBVIOUS
<1>8. PICK buf : buf = Put(n)
  OBVIOUS
<1>9. Takes(f, buf, q, c, n)
  BY <1>1, <1>5, <1>6, <1>7, <1>8, ParseBodyTakes
<1>10. Copied(f, buf, q, c)
  BY <1>1, <1>5, <1>6, <1>7, <1>8, CopyPuts
<1>11. f \in FrameSet /\ j \in 1..Len(frames) /\ got + in_offset = Start(frames, j) + msg_idx
  BY <1>5 DEF Within
<1>12. frames \in Seq(FrameSet) /\ StreamOk(frames) /\ Len(frames) \in Nat
  BY <1>1, TheStream
<1>13. /\ InBuffer(f, rx_buffer, msg_idx, inpub_pkt_id, p, q, r)
       /\ n \in Nat /\ 1 <= n /\ n <= tot_len - in_offset /\ r + n <= Room(f) /\ q + (r + n) <= Body(f)
       /\ q \in Nat
  BY <1>6 DEF Copies
<1>14. /\ p \in Nat /\ q = Times(p, Room(f)) /\ r \in Nat /\ msg_idx = Header(f) + (q + r)
       /\ p # 0 /\ f.qos > 0 => inpub_pkt_id = MessageId
  BY <1>13 DEF InBuffer
<1>15. /\ Room(f) \in Nat /\ Body(f) \in Nat /\ Header(f) \in 2..5 /\ Size(f) = Header(f) + Body(f)
  BY <1>11, FrameSizes
<1>16. Start(frames, j) \in Nat
  <2>1. j \in 1..(Len(frames) + 1)
    BY <1>11, <1>12
  <2> QED
    BY <1>12, <2>1, StartStep
<1>17. c \in Nat /\ c <= Room(f) /\ q + c <= Body(f)
  BY <1>7, <1>13, <1>14
<1>18. got + in_offset + n = Start(frames, j) + (Header(f) + (q + c))
  <2>1. got \in Nat /\ in_offset \in Nat
    BY <1>1 DEF Types
  <2>2. PICK s \in Nat, h \in Nat : s = Start(frames, j) /\ h = Header(f)
    BY <1>15, <1>16
  <2>3. got + in_offset = s + (h + (q + r)) /\ q \in Nat /\ r \in Nat /\ n \in Nat /\ c = r + n
    BY <1>7, <1>11, <1>13, <1>14, <2>2
  <2>4. got + in_offset + n = s + (h + (q + c))
    BY ONLY <2>1, <2>3
  <2> QED
    BY <2>2, <2>4
<1>19. Taken(j, f, p, q, r, n, c, buf)
  BY <1>1, <1>5, <1>6, <1>7, <1>9, <1>10, <1>11, <1>12, <1>13, <1>14, <1>15, <1>16, <1>17, <1>18 DEF Taken
<1> QED
  BY <1>19

LEMMA TakenNumbers ==
  ASSUME NEW j, NEW f, NEW p, NEW q, NEW r, NEW n, NEW c, NEW buf, Taken(j, f, p, q, r, n, c, buf)
  PROVE  /\ 1 <= c /\ 0 \in 0..(Header(f) - 1) /\ r \in 0..(c - 1)
         /\ msg_idx \in 0..Size(f) /\ Header(f) + (q + c) \in 0..Size(f) /\ Header(f) + (q + c) \in Nat
         /\ Header(f) + (q + c) = Size(f) <=> q + c = Body(f)
         /\ in_offset + n \in 0..tot_len /\ (tot_len \in Nat /\ tot_len # 0)
         /\ got + in_offset + n \in Nat /\ got + (in_offset + n) = got + in_offset + n
         /\ got + in_offset + n <= Len(wire)
<1>1. /\ q \in Nat /\ n \in Nat /\ r \in Nat /\ 1 <= n /\ c = r + n
      /\ q + c <= Body(f) /\ Body(f) \in Nat /\ Header(f) \in 2..5 /\ Size(f) = Header(f) + Body(f)
      /\ msg_idx = Header(f) + (q + r) /\ n <= tot_len - in_offset
  BY DEF Taken
<1>2. PICK h \in Nat, s \in Nat : h = Header(f) /\ s = Body(f)
  BY <1>1
<1>3. /\ q \in Nat /\ n \in Nat /\ r \in Nat /\ 1 <= n /\ c = r + n /\ q + c <= s
      /\ Size(f) = h + s /\ msg_idx = h + (q + r) /\ 0 \in 0..(h - 1)
  BY <1>1, <1>2
<1>4. 1 <= c /\ r \in 0..(c - 1) /\ c \in Nat
  BY ONLY <1>3
<1>5. /\ h + (q + r) \in 0..(h + s) /\ h + (q + c) \in 0..(h + s) /\ h + (q + c) \in Nat
      /\ h + (q + c) = h + s <=> q + c = s
  BY ONLY <1>3, <1>4
<1>6. got \in Nat /\ in_offset \in 0..tot_len /\ tot_len \in Nat /\ got + tot_len <= Len(wire) /\ Len(wire) \in Nat
  BY TheStream DEF Taken, Types, Stream
<1>7. n \in Nat /\ 1 <= n /\ n <= tot_len - in_offset
  BY <1>1
<1>8. /\ in_offset + n \in 0..tot_len /\ tot_len # 0
      /\ got + in_offset + n \in Nat /\ got + (in_offset + n) = got + in_offset + n
      /\ got + in_offset + n <= Len(wire)
  BY ONLY <1>6, <1>7
<1> QED
  BY <1>2, <1>3, <1>4, <1>5, <1>6, <1>8

LEMMA Refusal ==
  ASSUME NEW j, NEW f, NEW p, NEW q, NEW r, NEW n, NEW c, NEW buf, Taken(j, f, p, q, r, n, c, buf),
         q + c = Body(f) \/ c = Room(f), Result(buf, Header(f) + (q + c), Header(f), c) # 0
  PROVE  IInv'
<1>1. /\ Types /\ Stream /\ Within(j, f) /\ Copied(f, buf, q, c) /\ Takes(f, buf, q, c, n)
      /\ f \in FrameSet /\ j \in 1..Len(frames) /\ StreamOk(frames)
      /\ p \in Nat /\ q = Times(p, Room(f)) /\ c \in Nat /\ c <= Room(f) /\ q + c <= Body(f)
      /\ got + in_offset + n = Start(frames, j) + (Header(f) + (q + c))
  BY DEF Taken
<1>a. /\ 1 <= c /\ 0 \in 0..(Header(f) - 1)
      /\ msg_idx \in 0..Size(f) /\ Header(f) + (q + c) \in 0..Size(f) /\ Header(f) + (q + c) \in Nat
      /\ got + in_offset + n \in Nat /\ got + in_offset + n <= Len(wire)
  BY TakenNumbers
<1>2. Full(f, p, q, c) /\ Holds(f, buf, q, c)
  <2>1. buf[0] = Bytes(f)[1]
    <3>1. 0 + 1 = 1
      OBVIOUS
    <3> QED
      BY <1>1, <1>a, <3>1 DEF Copied
  <2>2. Full(f, p, q, c)
    BY <1>1, <1>a DEF Full
  <2> QED
    BY <1>1, <2>1, <2>2 DEF Holds, Copied
<1>3. f = frames[j] /\ Session(frames, j, conn_state, pend_req)
  BY <1>1 DEF Within
<1>4. f.type = SUBACK => SubId \in pend_req
  BY <1>1, <1>3, SessionStep
<1>5. Result(buf, Header(f) + (q + c), Header(f), c) =
        IF f.type = CONNACK /\ conn_state = "CONNECTING" THEN f.n ELSE 0
  BY <1>1, <1>2, <1>4, ResultIs
<1>6. f.type = CONNACK /\ conn_state = "CONNECTING" /\ f.n # 0
  BY <1>5
<1>7. j = 1 /\ pend_req = {}
  BY <1>1, <1>3, <1>6 DEF Session, StreamOk
<1> DEFINE h == Header(f)
           rem == Body(f) - (q + c)
           full == rem = 0 \/ c = Room(f)
<1>8. full
  <2>1. Body(f) \in Nat /\ q + c \in Nat
    BY SMTT(30) DEF Taken
  <2> QED
    BY <2>1
<1>9. /\ rx_buffer' = buf
      /\ IF full /\ Result(buf, h + (q + c), h, c) # 0
         THEN /\ conn_state' = "DISCONNECTED" /\ tot_len' = 0
              /\ got' = got + in_offset + n /\ msg_idx' = h + (q + c)
              /\ ClearLocals
              /\ UNCHANGED <<inpub_pkt_id, pend_req, calls>>
         ELSE TRUE
      /\ UNCHANGED <<frames, wire>>
  <2>1. Takes(f, buf, q, c, n)
    BY <1>1
  <2> QED
    BY <2>1 DEF Takes, brokerVars
<1> HIDE DEF full
<1>10. /\ rx_buffer' = buf /\ conn_state' = "DISCONNECTED" /\ tot_len' = 0
       /\ got' = got + in_offset + n /\ msg_idx' = h + (q + c)
       /\ in_offset' = 0 /\ msg_rem_len' = 0 /\ fixed_hdr_idx' = 0 /\ b' = 0
       /\ inpub_pkt_id' = inpub_pkt_id /\ pend_req' = pend_req /\ calls' = calls
       /\ frames' = frames /\ wire' = wire
  BY <1>8, <1>9 DEF ClearLocals
<1>11. /\ got \in Nat /\ in_offset \in Nat /\ tot_len \in Nat /\ inpub_pkt_id \in {0, MessageId}
       /\ calls \in Seq(CallSet)
  BY <1>1 DEF Types
<1>12. Refused'
  BY <1>3, <1>6, <1>7, <1>10 DEF Refused
<1>13. buf \in [0..(BufLen - 1) -> Nat] /\ h + (q + c) \in Nat /\ got + in_offset + n \in Nat
  BY <1>1, <1>a DEF Copied
<1>14. Types'
  BY <1>10, <1>11, <1>13 DEF Types
<1>15. \A k : CallsOf(f, k) = <<>>
  <2>1. f.type # PUBLISH /\ f.type # SUBACK
    BY <1>6, Distinct
  <2> QED
    BY <1>1, <1>6, <2>1, CallsOfOther
<1>16. PICK X \in Seq(CallSet) : X = <<>>
  BY CatProperties
<1>17. PICK k, l, o : k = msg_idx /\ l = h + (q + c) /\ o = Start(frames, j) + l
  OBVIOUS
<1>18. k \in 0..Size(f) /\ l \in 0..Size(f)
  BY <1>17, <1>a
<1>19. CallsOf(f, l) = Cat(CallsOf(f, k), X)
  BY <1>15, <1>16, <1>17, CatProperties
<1>20. FlattenSeq(CallsUpTo(frames, o)) = Cat(calls, X)
  BY <1>1, <1>17, <1>18, <1>19, CallsAfter
<1>21. calls = FlattenSeq(CallsUpTo(frames, o))
  BY <1>11, <1>16, <1>20, CatProperties
<1>22. got' + in_offset' = o /\ got' + tot_len' <= Len(wire)
  <2>1. got' = o
    BY <1>1, <1>10, <1>17
  <2>2. got' + 0 = got'
    BY <1>10, <1>a
  <2> QED
    BY <1>10, <1>a, <2>1, <2>2
<1>23. Stream'
  BY <1>1, <1>10, <1>21, <1>22 DEF Stream
<1> QED
  BY <1>12, <1>14, <1>23 DEF IInv

\* The parser goes on: the calls it has made are the ones that the bytes call for,
\* and the session is that of the frame it is in.
GoesOn(j, f, q, c, n, buf, X, pkt, cs, pr) ==
  /\ X \in Seq(CallSet) /\ calls' = Cat(calls, X)
  /\ CallsOf(f, Header(f) + (q + c)) = Cat(CallsOf(f, msg_idx), X)
  /\ inpub_pkt_id' = pkt /\ conn_state' = cs /\ pend_req' = pr /\ pkt \in {0, MessageId}
  /\ Session(frames, IF q + c = Body(f) THEN j + 1 ELSE j, cs, pr)
  /\ rx_buffer' = buf /\ in_offset' = in_offset + n /\ msg_rem_len' = Body(f) - (q + c)
  /\ IF q + c = Body(f) THEN msg_idx' = 0 /\ fixed_hdr_idx' = 0
     ELSE msg_idx' = Header(f) + (q + c) /\ fixed_hdr_idx' = Header(f)
  /\ b' = b /\ tot_len' = tot_len /\ got' = got /\ frames' = frames /\ wire' = wire

LEMMA GoesOnStep ==
  ASSUME NEW j, NEW f, NEW p, NEW q, NEW r, NEW n, NEW c, NEW buf, Taken(j, f, p, q, r, n, c, buf),
         NEW X, NEW pkt, NEW cs, NEW pr, GoesOn(j, f, q, c, n, buf, X, pkt, cs, pr),
         f.qos > 0 => pkt = MessageId \/ (p = 0 /\ c < Room(f))
  PROVE  IInv'
<1>1. /\ Types /\ Stream /\ Within(j, f) /\ Copied(f, buf, q, c)
      /\ f \in FrameSet /\ j \in 1..Len(frames) /\ frames \in Seq(FrameSet) /\ Len(frames) \in Nat
      /\ p \in Nat /\ q = Times(p, Room(f)) /\ q \in Nat /\ c \in Nat /\ c <= Room(f) /\ q + c <= Body(f)
      /\ got + in_offset + n = Start(frames, j) + (Header(f) + (q + c))
      /\ Body(f) \in Nat
  BY DEF Taken
<1>2. /\ msg_idx \in 0..Size(f) /\ Header(f) + (q + c) \in 0..Size(f) /\ Header(f) + (q + c) \in Nat
      /\ Header(f) + (q + c) = Size(f) <=> q + c = Body(f)
      /\ in_offset + n \in 0..tot_len /\ tot_len \in Nat /\ tot_len # 0
      /\ got + (in_offset + n) = got + in_offset + n
  BY TakenNumbers
<1>3. /\ X \in Seq(CallSet) /\ calls' = Cat(calls, X)
      /\ CallsOf(f, Header(f) + (q + c)) = Cat(CallsOf(f, msg_idx), X)
      /\ inpub_pkt_id' = pkt /\ conn_state' = cs /\ pend_req' = pr /\ pkt \in {0, MessageId}
      /\ rx_buffer' = buf /\ in_offset' = in_offset + n /\ msg_rem_len' = Body(f) - (q + c)
      /\ b' = b /\ tot_len' = tot_len /\ got' = got /\ frames' = frames /\ wire' = wire
  BY DEF GoesOn
<1>4. /\ q + c = Body(f) => Session(frames, j + 1, cs, pr) /\ msg_idx' = 0 /\ fixed_hdr_idx' = 0
      /\ q + c # Body(f) => Session(frames, j, cs, pr) /\ msg_idx' = Header(f) + (q + c)
                            /\ fixed_hdr_idx' = Header(f)
  BY DEF GoesOn
<1>5. got \in Nat /\ b \in Nat /\ calls \in Seq(CallSet)
  BY <1>1 DEF Types
<1>6. Header(f) \in 2..5 /\ Size(f) = Header(f) + Body(f)
  BY <1>1, FrameSizes
<1>7. Types'
  <2>1. buf \in [0..(BufLen - 1) -> Nat]
    BY <1>1 DEF Copied
  <2>2. msg_rem_len' \in Nat
    BY <1>1, <1>3, SMTT(30)
  <2>3. msg_idx' \in Nat /\ fixed_hdr_idx' \in Nat
    BY <1>2, <1>4, <1>6
  <2>4. calls' \in Seq(CallSet)
    BY <1>3, <1>5, CatProperties
  <2> QED
    BY <1>2, <1>3, <1>5, <2>1, <2>2, <2>3, <2>4 DEF Types
<1>8. PICK k, l, o : k = msg_idx /\ l = Header(f) + (q + c) /\ o = Start(frames, j) + l
  OBVIOUS
<1>9. got' + in_offset' = o
  BY <1>1, <1>2, <1>3, <1>8
<1>10. Stream'
  <2>1. k \in 0..Size(f) /\ l \in 0..Size(f) /\ CallsOf(f, l) = Cat(CallsOf(f, k), X)
    BY <1>2, <1>3, <1>8
  <2>2. /\ Types /\ Stream /\ Within(j, f) /\ X \in Seq(CallSet)
        /\ k = msg_idx /\ o = Start(frames, j) + l
    BY <1>1, <1>3, <1>8
  <2>3. FlattenSeq(CallsUpTo(frames, o)) = Cat(calls, X)
    BY <2>1, <2>2, CallsAfter
  <2> QED
    BY <1>1, <1>2, <1>3, <1>9, <2>3 DEF Stream
<1>11. CASE q + c = Body(f)
  <2>1. PICK i \in 1..(Len(frames) + 1) : i = j + 1
    BY <1>1
  <2>2. Start(frames, j + 1) = Start(frames, j) + Size(frames[j])
    BY <1>1, StartStep
  <2>3. f = frames[j]
    BY <1>1 DEF Within
  <2>4. o = Start(frames, i)
    BY <1>2, <1>8, <1>11, <2>1, <2>2, <2>3
  <2>5. At(frames, i, o, buf, 0, 0, 0, b, pkt)
    BY <1>1, <2>4, AtStart
  <2>6. msg_rem_len' = 0
    BY <1>1, <1>3, <1>11
  <2>7. Parsed(i)'
    BY <1>3, <1>4, <1>9, <1>11, <2>1, <2>5, <2>6 DEF Parsed
  <2> QED
    BY <1>7, <1>10, <2>7 DEF IInv
<1>12. CASE q + c # Body(f)
  <2>1. PICK h, idx, rem : h = Header(f) /\ idx = h + (q + c) /\ rem = Body(f) - (q + c)
    OBVIOUS
  <2>2. b = Bytes(f)[Header(f)]
    <3>1. fixed_hdr_idx = Header(f)
      BY DEF Taken, Copies
    <3>2. fixed_hdr_idx > 0 => b = Bytes(f)[fixed_hdr_idx]
      BY <1>1 DEF Within, InFrame, InHeader
    <3> QED
      BY <1>6, <3>1, <3>2
  <2>3. q + c < Body(f)
    BY <1>1, <1>12
  <2>4. InFrame(f, buf, idx, h, rem, b, pkt)
    BY <1>1, <2>1, <2>2, <2>3, StaysInFrame
  <2>5. At(frames, j, o, buf, idx, h, rem, b, pkt)
    <3>1. j \in 1..(Len(frames) + 1) /\ j # Len(frames) + 1
      BY <1>1
    <3>2. f = frames[j]
      BY <1>1 DEF Within
    <3> QED
      BY <1>8, <2>1, <2>4, <3>1, <3>2 DEF At
  <2>6. Parsed(j)'
    BY <1>3, <1>4, <1>9, <1>12, <2>1, <2>5 DEF Parsed
  <2> QED
    BY <1>7, <1>10, <2>6 DEF IInv
<1> QED
  BY <1>11, <1>12

LEMMA TakesAll ==
  ASSUME NEW j, NEW f, NEW p, NEW q, NEW r, NEW n, NEW c, NEW buf, Taken(j, f, p, q, r, n, c, buf),
         q + c = Body(f) \/ c = Room(f), Result(buf, Header(f) + (q + c), Header(f), c) = 0
  PROVE  IInv'
<1>1. /\ Types /\ Stream /\ Within(j, f) /\ Copied(f, buf, q, c) /\ Takes(f, buf, q, c, n)
      /\ f \in FrameSet /\ j \in 1..Len(frames) /\ StreamOk(frames)
      /\ p \in Nat /\ q = Times(p, Room(f)) /\ q \in Nat /\ c \in Nat /\ c <= Room(f) /\ q + c <= Body(f)
      /\ Body(f) \in Nat /\ msg_idx = Header(f) + (q + r)
      /\ p # 0 /\ f.qos > 0 => inpub_pkt_id = MessageId
  BY DEF Taken
<1>2. /\ 1 <= c /\ 0 \in 0..(Header(f) - 1) /\ r \in 0..(c - 1)
      /\ Header(f) + (q + c) = Size(f) <=> q + c = Body(f)
  BY TakenNumbers
<1>3. Full(f, p, q, c) /\ Holds(f, buf, q, c)
  <2>1. buf[0] = Bytes(f)[1]
    <3>1. 0 + 1 = 1
      OBVIOUS
    <3> QED
      BY <1>1, <1>2, <3>1 DEF Copied
  <2>2. Full(f, p, q, c)
    BY <1>1, <1>2 DEF Full
  <2> QED
    BY <1>1, <2>1, <2>2 DEF Holds, Copied
<1>4. f = frames[j] /\ Session(frames, j, conn_state, pend_req)
  BY <1>1 DEF Within
<1>5. Ready(j, buf, p, q, c)
  BY <1>1, <1>3, <1>4 DEF Ready
<1>6. fixed_hdr_idx = Header(f)
  BY DEF Taken, Copies
<1>7. Body(f) - (q + c) = 0 <=> q + c = Body(f)
  BY <1>1
<1>8. /\ mqtt_message_received(buf, Header(f) + (q + c), Header(f), c, Body(f) - (q + c))
      /\ rx_buffer' = buf /\ in_offset' = in_offset + n /\ msg_rem_len' = Body(f) - (q + c)
      /\ IF q + c = Body(f) THEN msg_idx' = 0 /\ fixed_hdr_idx' = 0
         ELSE msg_idx' = Header(f) + (q + c) /\ fixed_hdr_idx' = Header(f)
      /\ b' = b /\ tot_len' = tot_len /\ got' = got /\ frames' = frames /\ wire' = wire
  BY <1>1, <1>6, <1>7, Zenon DEF Takes, brokerVars
<1>9. PICK h : h = Header(f)
  OBVIOUS
<1>10. calls \in Seq(CallSet) /\ inpub_pkt_id \in {0, MessageId}
  BY <1>1 DEF Types
<1>11. PICK X : Made(j, h + (q + r), h + (q + c), X)
  <2>1. /\ h = Header(frames[j]) /\ Result(buf, h + (q + c), h, c) = 0
        /\ mqtt_message_received(buf, h + (q + c), h, c, Body(frames[j]) - (q + c))
    BY <1>4, <1>8, <1>9
  <2> QED
    BY <1>1, <1>2, <1>5, <1>10, <2>1, Handle
<1>12. /\ X \in Seq(CallSet) /\ calls' = calls \o X
       /\ CallsOf(f, h + (q + c)) = CallsOf(f, h + (q + r)) \o X
       /\ inpub_pkt_id' \in {0, MessageId} /\ (f.qos > 0 => inpub_pkt_id' = MessageId)
       /\ Session(frames, IF h + (q + c) = Size(f) THEN j + 1 ELSE j, conn_state', pend_req')
  BY <1>4, <1>11 DEF Made
<1>13. PICK pkt, cs, pr : pkt = inpub_pkt_id' /\ cs = conn_state' /\ pr = pend_req'
  OBVIOUS
<1>14. GoesOn(j, f, q, c, n, buf, X, pkt, cs, pr)
  <2>1. calls' = Cat(calls, X) /\ CallsOf(f, Header(f) + (q + c)) = Cat(CallsOf(f, msg_idx), X)
    BY <1>1, <1>9, <1>12 DEF Cat
  <2>2. Session(frames, IF q + c = Body(f) THEN j + 1 ELSE j, cs, pr)
    BY <1>2, <1>9, <1>12, <1>13
  <2> QED
    BY <1>8, <1>12, <1>13, <2>1, <2>2, Zenon DEF GoesOn
<1>15. f.qos > 0 => pkt = MessageId \/ (p = 0 /\ c < Room(f))
  BY <1>12, <1>13
<1> QED
  BY <1>14, <1>15, GoesOnStep

LEMMA TakesPart ==
  ASSUME NEW j, NEW f, NEW p, NEW q, NEW r, NEW n, NEW c, NEW buf, Taken(j, f, p, q, r, n, c, buf),
         ~ (q + c = Body(f) \/ c = Room(f))
  PROVE  IInv'
<1>1. /\ Types /\ Within(j, f) /\ Takes(f, buf, q, c, n)
      /\ f \in FrameSet /\ p \in Nat /\ q = Times(p, Room(f)) /\ q \in Nat /\ c \in Nat /\ c <= Room(f) /\ q + c <= Body(f)
      /\ r \in Nat /\ n \in Nat /\ c = r + n
      /\ Body(f) \in Nat /\ msg_idx = Header(f) + (q + r) /\ Room(f) \in Nat
      /\ p # 0 /\ f.qos > 0 => inpub_pkt_id = MessageId
  BY DEF Taken
<1>2. Session(frames, j, conn_state, pend_req)
  BY <1>1 DEF Within
<1>3. fixed_hdr_idx = Header(f)
  BY DEF Taken, Copies
<1>4. Body(f) - (q + c) = 0 <=> q + c = Body(f)
  BY <1>1
<1>5. /\ UNCHANGED handlerVars
      /\ rx_buffer' = buf /\ in_offset' = in_offset + n /\ msg_rem_len' = Body(f) - (q + c)
      /\ msg_idx' = Header(f) + (q + c) /\ fixed_hdr_idx' = Header(f)
      /\ b' = b /\ tot_len' = tot_len /\ got' = got /\ frames' = frames /\ wire' = wire
  BY <1>1, <1>3, <1>4, Zenon DEF Takes, brokerVars
<1>6. c < Room(f) /\ q + c < Body(f)
  BY <1>1
<1>7. PICK k, l : k = Header(f) + (q + r) /\ l = Header(f) + (q + (r + n))
  OBVIOUS
<1>8. r + n < Room(f) /\ q + (r + n) < Body(f)
  BY <1>1, <1>6
<1>9. CallsOf(f, l) = CallsOf(f, k)
  BY <1>1, <1>7, <1>8, NoCallNow
<1>10. PICK X \in Seq(CallSet) : X = <<>>
  BY CatProperties
<1>11. calls \in Seq(CallSet) /\ inpub_pkt_id \in {0, MessageId}
  BY <1>1 DEF Types
<1>12. Cat(calls, X) = calls /\ Cat(CallsOf(f, k), X) = CallsOf(f, k)
  <2>1. k \in 0..Size(f)
    <3>1. msg_idx \in 0..Size(f)
      BY TakenNumbers
    <3> QED
      BY <1>1, <1>7, <3>1
  <2>2. CallsOf(f, k) \in Seq(CallSet)
    BY <1>1, <2>1, CallsOfType
  <2> QED
    BY <1>10, <1>11, <2>2, CatProperties
<1>13. GoesOn(j, f, q, c, n, buf, X, inpub_pkt_id, conn_state, pend_req)
  <2>1. UNCHANGED <<inpub_pkt_id, conn_state, pend_req, calls>>
    BY <1>5 DEF handlerVars
  <2>2. CallsOf(f, Header(f) + (q + c)) = Cat(CallsOf(f, msg_idx), X)
    BY <1>1, <1>7, <1>9, <1>12
  <2>3. q + c # Body(f)
    BY <1>6
  <2> QED
    BY <1>2, <1>5, <1>10, <1>11, <1>12, <2>1, <2>2, <2>3, Zenon DEF GoesOn
<1>14. f.qos > 0 => inpub_pkt_id = MessageId \/ (p = 0 /\ c < Room(f))
  BY <1>1, <1>6
<1> QED
  BY <1>13, <1>14, GoesOnStep

LEMMA ParseBodyStep ==
  ASSUME IInv, ParseBody
  PROVE  IInv'
<1>1. PICK j, f, p, q, r, n, c, buf : Taken(j, f, p, q, r, n, c, buf)
  BY BodyTaken
<1> QED
  BY <1>1, Refusal, TakesAll, TakesPart

-----------------------------------------------------------------------------
(* The theorems                                                            *)

LEMMA Invariance == Spec => []IInv
<1>1. IInv /\ [Next]_vars => IInv'
  <2> SUFFICES ASSUME IInv, [Next]_vars
               PROVE  IInv'
    OBVIOUS
  <2>1. CASE Reconnect
    BY <2>1, ReconnectStep
  <2>2. CASE Recv
    BY <2>2, RecvStep
  <2>3. CASE ParseHeader
    BY <2>3, ParseHeaderStep
  <2>4. CASE ParseBody
    BY <2>4, ParseBodyStep
  <2>5. CASE Return
    BY <2>5, ReturnStep
  <2>6. CASE UNCHANGED vars
    <3>1. /\ UNCHANGED <<rx_buffer, msg_idx, tot_len, got, in_offset, msg_rem_len, fixed_hdr_idx, b>>
          /\ UNCHANGED <<inpub_pkt_id, conn_state, pend_req, calls, frames, wire>>
      BY <2>6 DEF vars, localVars, handlerVars, brokerVars
    <3> QED
      BY <3>1 DEF IInv, Types, Stream, Refused, Parsed
  <2> QED
    BY <2>1, <2>2, <2>3, <2>4, <2>5, <2>6 DEF Next
<1> QED
  BY <1>1, InitIInv, PTL DEF Spec

LEMMA TypesHold ==
  ASSUME IInv
  PROVE  TypeOK
<1>1. Types /\ Stream
  BY DEF IInv
<1>2. /\ rx_buffer \in [0..(BufLen - 1) -> Nat] /\ msg_idx \in Nat /\ inpub_pkt_id \in {0, MessageId}
      /\ tot_len \in Nat /\ in_offset \in 0..tot_len /\ msg_rem_len \in Nat
      /\ fixed_hdr_idx \in Nat /\ b \in Nat /\ got \in Nat
  BY <1>1 DEF Types
<1>3. got + tot_len <= Len(wire) /\ Len(wire) \in Nat /\ (tot_len = 0 => fixed_hdr_idx = 0)
  BY <1>1, TheStream DEF Stream
<1>4. /\ conn_state \in {"CONNECTING", "CONNECTED", "DISCONNECTED"} /\ pend_req \subseteq {SubId}
      /\ fixed_hdr_idx \in 0..5
  <2>1. CASE Refused
    BY <1>2, <1>3, <2>1 DEF Refused
  <2>2. ASSUME NEW j, Parsed(j)
        PROVE  /\ conn_state \in {"CONNECTING", "CONNECTED", "DISCONNECTED"} /\ pend_req \subseteq {SubId}
               /\ fixed_hdr_idx \in 0..5
    <3>1. /\ Session(frames, j, conn_state, pend_req)
          /\ At(frames, j, got + in_offset, rx_buffer, msg_idx, fixed_hdr_idx, msg_rem_len, b, inpub_pkt_id)
      BY <2>2 DEF Parsed
    <3>2. CASE j = Len(frames) + 1
      BY <1>2, <3>1, <3>2 DEF At, Session
    <3>3. CASE j # Len(frames) + 1
      <4>1. frames[j] \in FrameSet
        BY <1>1, <3>1, <3>3, TheStream DEF At
      <4>2. fixed_hdr_idx <= Header(frames[j])
        BY <3>1, <3>3 DEF At, InFrame, InHeader
      <4>3. Header(frames[j]) \in 2..5
        BY <4>1, FrameSizes
      <4>4. fixed_hdr_idx \in 0..5
        BY <1>2, <4>2, <4>3
      <4> QED
        BY <3>1, <4>4 DEF Session
    <3> QED
      BY <3>2, <3>3
  <2> QED
    BY <2>1, <2>2 DEF IInv
<1>5. tot_len \in 0..Len(wire) /\ got \in 0..Len(wire)
  BY <1>2, <1>3
<1> QED
  BY <1>2, <1>4, <1>5 DEF TypeOK

\* No copy into rx_buffer runs past its end, none touches the header of the frame there and
\* none is empty, whatever the lengths of the buffer, the topic and the payloads and
\* wherever TCP cuts the stream (mqtt.c 887-897).
THEOREM NoOverrun == Spec => []CopiesFit
<1>1. IInv => CopiesFit
  <2> SUFFICES ASSUME IInv
               PROVE  CopiesFit
    OBVIOUS
  <2>1. TypeOK
    BY TypesHold
  <2>2. ASSUME InBody
        PROVE  cpy_start >= fixed_hdr_idx /\ cpy_len > 0 /\ cpy_start + cpy_len <= BufLen
    <3>1. Types /\ Stream /\ in_offset < tot_len
      BY <2>2 DEF IInv, InBody
    <3>2. PICK j : Parsed(j)
      <4>1. tot_len # 0
        BY <3>1 DEF Types
      <4> QED
        BY <4>1 DEF IInv, Refused
    <3>3. PICK f : Within(j, f)
      BY <3>1, <3>2, StillWithin
    <3>4. PICK p, q, r, n : Copies(f, p, q, r, n)
      BY <2>2, <3>1, <3>3, CopyIs
    <3> QED
      BY <3>4 DEF Copies
  <2> QED
    BY <2>1, <2>2 DEF CopiesFit
<1> QED
  BY <1>1, Invariance, PTL

\* The client closes the connection only when the broker refused it (mqtt.c 685-752).
THEOREM ClosesOnRefusal == Spec => []OnlyRefusalCloses
<1>1. IInv => OnlyRefusalCloses
  <2> SUFFICES ASSUME IInv, conn_state = "DISCONNECTED"
               PROVE  frames[1].n # 0
    BY DEF OnlyRefusalCloses
  <2>1. ASSUME NEW j, Parsed(j)
        PROVE  FALSE
    BY <2>1 DEF Parsed, Session
  <2> QED
    BY <2>1 DEF IInv, Refused
<1> QED
  BY <1>1, Invariance, PTL

\* The application sees what the broker sent: every frame once, in order, as soon as it is
\* there, and the payload of a PUBLISH whole and in order, for every stream, every way TCP
\* cuts it and every length of the buffer (mqtt.c 717-786 and 839-921).
THEOREM FramesAreSeen == Spec => []HandlersSeeFrames
<1>1. IInv => HandlersSeeFrames
  BY ExpectedIs DEF IInv, Stream, HandlersSeeFrames
<1> QED
  BY <1>1, Invariance, PTL
=============================================================================
