------------------------- MODULE MqttRequestsProofs -------------------------
(***************************************************************************)
(* The proofs that the pending requests of the MQTT client are always a    *)
(* chain without loops of the objects in use, and that each of them keeps  *)
(* its own deadline, for every number of objects, timeout and interval.    *)
(*                                                                         *)
(* The invariant says what the chain is: n objects q[1], ..., q[n], whose  *)
(* deadlines are D[1], ..., D[n].  The recursive definitions of the model  *)
(* that follow the pointers (Chain, Deadline, Elapsed) are shown to have   *)
(* the values that n, q and D give them, by induction over the position.   *)
(***************************************************************************)
EXTENDS MqttRequests, FiniteSetTheorems, WellFoundedInduction, TLAPS

\* Induction over the natural numbers, for a set of them.
LEMMA Induction ==
  ASSUME NEW S \in SUBSET Nat, 0 \in S, \A n \in S : n + 1 \in S
  PROVE  S = Nat
<1> SUFFICES ASSUME S # Nat
             PROVE  FALSE
  OBVIOUS
<1> DEFINE T == Nat \ S
           R == OpToRel(<, Nat)
<1>1. IsWellFoundedOn(R, Nat)
  BY NatLessThanWellFounded
<1>2. T \subseteq Nat /\ T # {}
  OBVIOUS
<1>3. PICK x \in T : \A y \in T : ~ (<<y, x>> \in R)
  BY <1>1, <1>2, WFMin
<1>4. x # 0 /\ x \in Nat /\ x - 1 \in Nat
  OBVIOUS
<1>5. x - 1 \in T
  OBVIOUS
<1>6. <<x - 1, x>> \in R
  BY <1>4 DEF OpToRel
<1> QED
  BY <1>3, <1>5, <1>6

\* The least number of a set.
LEMMA Least ==
  ASSUME NEW S \in SUBSET Nat, S # {}
  PROVE  \E x \in S : \A y \in S : x <= y
<1> DEFINE R == OpToRel(<, Nat)
<1>1. IsWellFoundedOn(R, Nat)
  BY NatLessThanWellFounded
<1>2. PICK x \in S : \A y \in S : ~ (<<y, x>> \in R)
  BY <1>1, WFMin
<1>3. ASSUME NEW y \in S, y < x
      PROVE  FALSE
  <2>1. <<y, x>> \in R
    BY <1>3 DEF OpToRel
  <2> QED
    BY <1>2, <2>1
<1>4. \A y \in S : x <= y
  BY <1>3
<1> QED
  BY <1>4

-----------------------------------------------------------------------------
\* The n objects q are chained from pend_req_queue on, no other is in use, and
\* their deadlines are D.
Linked(n, q, D) ==
  /\ n \in Nat
  /\ q \in [1..n -> Slots]
  /\ \A i, j \in 1..n : q[i] = q[j] => i = j
  /\ pend_req_queue = IF n = 0 THEN NULL ELSE q[1]
  /\ \A i \in 1..n : next[q[i]] = IF i = n THEN NULL ELSE q[i + 1]
  /\ \A s \in Slots : (\A i \in 1..n : q[i] # s) => next[s] = s
  /\ D \in [0..n -> 0..Timeout] /\ D[0] = 0
  /\ \A i \in 1..n : D[i] = D[i - 1] + timeout_diff[q[i]]

Fields ==
  /\ next \in [Slots -> Slots \cup {NULL}]
  /\ pkt_id \in [Slots -> PktIds]
  /\ timeout_diff \in [Slots -> 0..Timeout]

\* The inductive invariant.
IInv == Fields /\ \E n, q, D : Linked(n, q, D)

\* The constants.
LEMMA Sizes ==
  /\ N \in Nat /\ N >= 1 /\ Timeout \in Nat /\ Timeout >= 1
  /\ Interval \in Nat /\ Interval >= 1 /\ 0 \in PktIds
  /\ NULL \notin Nat /\ NULL \notin Slots /\ Slots \subseteq Nat
BY RequestsAssumption DEF Slots

\* An object is in use if it is on the chain.
LEMMA InUseIs ==
  ASSUME NEW n, NEW q, NEW D, Linked(n, q, D)
  PROVE  /\ InUse = {q[i] : i \in 1..n}
         /\ \A s \in Slots : s \in Unused <=> \A i \in 1..n : q[i] # s
<1>1. ASSUME NEW i \in 1..n
      PROVE  q[i] \in Slots /\ next[q[i]] # q[i]
  <2>1. q[i] \in Slots /\ (i # n => i + 1 \in 1..n)
    BY DEF Linked
  <2>2. CASE i = n
    BY <2>1, <2>2, Sizes DEF Linked
  <2>3. CASE i # n
    <3>1. next[q[i]] = q[i + 1] /\ i + 1 # i
      BY <2>1, <2>3 DEF Linked
    <3>2. q[i + 1] = q[i] => i + 1 = i
      BY <2>1, <2>3 DEF Linked
    <3> QED
      BY <2>1, <3>1, <3>2
  <2> QED
    BY <2>2, <2>3, <2>1
<1> QED
  BY <1>1 DEF Linked, InUse, Unused

\* So many are in use.
LEMMA CountIs ==
  ASSUME NEW n, NEW q, NEW D, Linked(n, q, D)
  PROVE  /\ IsFiniteSet(InUse) /\ Cardinality(InUse) = n
         /\ n <= N /\ (Unused # {} => n < N)
<1>1. n \in Nat /\ N \in Nat /\ InUse \subseteq Slots
  BY Sizes DEF Linked, InUse
<1>2. IsFiniteSet(1..n) /\ Cardinality(1..n) = n
  BY <1>1, FS_Interval
<1>3. IsFiniteSet(Slots) /\ Cardinality(Slots) = N
  BY <1>1, FS_Interval DEF Slots
<1>4. ExistsBijection(1..n, InUse)
  <2>1. q \in [1..n -> InUse]
    <3>1. q \in [1..n -> Slots]
      BY DEF Linked
    <3>2. InUse = {q[i] : i \in 1..n}
      BY InUseIs
    <3> QED
      BY <3>1, <3>2
  <2>2. \A i, j \in 1..n : q[i] = q[j] => i = j
    BY DEF Linked
  <2>3. \A s \in InUse : \E i \in 1..n : q[i] = s
    BY InUseIs
  <2>4. q \in Bijection(1..n, InUse)
    BY <2>1, <2>2, <2>3 DEF Bijection, Injection, Surjection, IsInjective
  <2> QED
    BY <2>4 DEF ExistsBijection
<1>5. IsFiniteSet(InUse) /\ Cardinality(InUse) = n
  BY <1>2, <1>4, FS_Bijection
<1>6. n <= N /\ (InUse # Slots => n < N)
  BY <1>1, <1>3, <1>5, FS_Subset
<1>7. Unused # {} => InUse # Slots
  BY DEF InUse, Unused
<1> QED
  BY <1>5, <1>6, <1>7

\* The types of n, q and D.
LEMMA LinkedTypes ==
  ASSUME NEW n, NEW q, NEW D, Linked(n, q, D)
  PROVE  /\ n \in Nat /\ n <= N /\ N \in Nat
         /\ q \in [1..n -> Slots] /\ D \in [0..n -> 0..Timeout]
<1>1. n \in Nat /\ q \in [1..n -> Slots] /\ D \in [0..n -> 0..Timeout]
  BY DEF Linked
<1>2. n <= N
  BY CountIs
<1> QED
  BY <1>1, <1>2, Sizes

\* Following the pointers gives the chain.
LEMMA ChainIs ==
  ASSUME NEW n, NEW q, NEW D, Linked(n, q, D)
  PROVE  Chain = [i \in 1..N |-> IF i <= n THEN q[i] ELSE NULL]
<1> DEFINE F(at) == [i \in 1..N |->
                       IF i = 1 THEN pend_req_queue
                       ELSE IF at[i - 1] = NULL THEN NULL ELSE next[at[i - 1]]]
           C == [i \in 1..N |-> IF i <= n THEN q[i] ELSE NULL]
<1>1. n \in Nat /\ n <= N /\ N \in Nat
  BY LinkedTypes
<1>2. ASSUME NEW i \in 1..N
      PROVE  C[i] = IF i = 1 THEN pend_req_queue
                    ELSE IF C[i - 1] = NULL THEN NULL ELSE next[C[i - 1]]
  <2>1. CASE i = 1
    BY <1>1, <2>1 DEF Linked
  <2>2. CASE i # 1 /\ i - 1 <= n
    <3>1. i - 1 \in 1..n /\ i - 1 \in 1..N
      BY <1>1, <2>2
    <3>2. C[i - 1] = q[i - 1] /\ q[i - 1] \in Slots
      BY <3>1 DEF Linked
    <3>3. next[q[i - 1]] = IF i - 1 = n THEN NULL ELSE q[(i - 1) + 1]
      BY <3>1 DEF Linked
    <3>4. (i - 1) + 1 = i /\ (i - 1 = n <=> ~(i <= n))
      BY <1>1, <2>2
    <3> QED
      BY <2>2, <3>2, <3>3, <3>4, Sizes
  <2>3. CASE i # 1 /\ ~(i - 1 <= n)
    <3>1. i - 1 \in 1..N /\ ~(i <= n)
      BY <1>1, <2>3
    <3> QED
      BY <2>3, <3>1
  <2> QED
    BY <2>1, <2>2, <2>3
<1>3. C = F(C)
  BY <1>2
<1>4. Chain = CHOOSE at : at = F(at)
  BY DEF Chain
<1> HIDE DEF C
<1>5. Chain = F(Chain)
  BY <1>3, <1>4
<1> DEFINE S == {k \in Nat : k + 1 \in 1..N => Chain[k + 1] = C[k + 1]}
<1>6. 0 \in S
  <2>1. 1 \in 1..N
    BY Sizes
  <2>2. Chain[1] = pend_req_queue /\ C[1] = pend_req_queue
    BY <1>3, <1>5, <2>1
  <2> QED
    BY <2>2
<1>7. ASSUME NEW k \in S
      PROVE  k + 1 \in S
  <2>1. SUFFICES ASSUME (k + 1) + 1 \in 1..N
                 PROVE  Chain[(k + 1) + 1] = C[(k + 1) + 1]
    OBVIOUS
  <2> DEFINE i == (k + 1) + 1
  <2>2. i \in 1..N /\ i # 1 /\ i - 1 = k + 1 /\ k + 1 \in 1..N
    BY <1>1, <2>1
  <2> HIDE DEF i
  <2>3. Chain[i - 1] = C[i - 1]
    BY <2>2
  <2>4. Chain[i] = F(Chain)[i] /\ C[i] = F(C)[i]
    BY <1>3, <1>5
  <2> QED
    BY <2>2, <2>3, <2>4 DEF i
<1>8. S = Nat
  BY <1>6, <1>7, Induction
<1>9. ASSUME NEW i \in 1..N
      PROVE  Chain[i] = C[i]
  <2>1. i - 1 \in Nat /\ (i - 1) + 1 = i
    BY <1>1
  <2> QED
    BY <1>8, <2>1
<1>10. Chain = [i \in 1..N |-> Chain[i]] /\ C = [i \in 1..N |-> C[i]]
  BY <1>3, <1>5
<1>11. Chain = C
  BY <1>9, <1>10
<1> QED
  BY <1>11 DEF C

\* The chain is so long.
LEMMA LengthIs ==
  ASSUME NEW n, NEW q, NEW D, Linked(n, q, D)
  PROVE  Length = n
<1>1. n \in Nat /\ n <= N /\ N \in Nat /\ q \in [1..n -> Slots]
  BY LinkedTypes
<1>2. {i \in Slots : Chain[i] # NULL} = 1..n
  BY <1>1, ChainIs, Sizes DEF Slots
<1>3. Cardinality(1..n) = n
  BY <1>1, FS_Interval
<1> QED
  BY <1>2, <1>3 DEF Length

\* The i-th object of the chain is at position i.
LEMMA PositionIs ==
  ASSUME NEW n, NEW q, NEW D, Linked(n, q, D), NEW i \in 1..n
  PROVE  Position(q[i]) = i
<1>1. n \in Nat /\ n <= N /\ N \in Nat /\ q \in [1..n -> Slots]
  BY LinkedTypes
<1>2. i \in Slots /\ Chain[i] = q[i]
  BY <1>1, ChainIs DEF Slots
<1>3. ASSUME NEW j \in Slots, Chain[j] = q[i]
      PROVE  j = i
  <2>1. j \in 1..n
    BY <1>1, <1>3, ChainIs, Sizes DEF Slots
  <2>2. Chain[j] = q[j]
    BY <1>1, <2>1, ChainIs
  <2> QED
    BY <1>3, <2>1, <2>2 DEF Linked
<1> QED
  BY <1>2, <1>3 DEF Position

\* Adding up the differences along the chain gives the deadlines.
LEMMA DeadlineIs ==
  ASSUME NEW n, NEW q, NEW D, Linked(n, q, D)
  PROVE  Deadline = [i \in 0..N |-> IF i <= n THEN D[i] ELSE D[n]]
<1> DEFINE F(sum) == [i \in 0..N |->
                        IF i = 0 THEN 0
                        ELSE sum[i - 1] + (IF Chain[i] = NULL THEN 0
                                           ELSE timeout_diff[Chain[i]])]
           E == [i \in 0..N |-> IF i <= n THEN D[i] ELSE D[n]]
<1>1. n \in Nat /\ n <= N /\ N \in Nat /\ q \in [1..n -> Slots] /\ D \in [0..n -> 0..Timeout]
  BY LinkedTypes
<1>2. ASSUME NEW i \in 0..N
      PROVE  E[i] = IF i = 0 THEN 0
                    ELSE E[i - 1] + (IF Chain[i] = NULL THEN 0
                                     ELSE timeout_diff[Chain[i]])
  <2>1. CASE i = 0
    BY <1>1, <2>1 DEF Linked
  <2>2. CASE i # 0 /\ i <= n
    <3>1. i \in 1..n /\ i \in 1..N /\ i - 1 \in 0..N /\ i - 1 <= n
      BY <1>1, <2>2
    <3>2. Chain[i] = q[i] /\ q[i] # NULL
      BY <1>1, <2>2, <3>1, ChainIs, Sizes
    <3>3. D[i] = D[i - 1] + timeout_diff[q[i]]
      BY <3>1 DEF Linked
    <3> QED
      BY <2>2, <3>1, <3>2, <3>3
  <2>3. CASE i # 0 /\ ~(i <= n)
    <3>1. i \in 1..N /\ i - 1 \in 0..N
      BY <1>1, <2>3
    <3>2. Chain[i] = NULL
      BY <2>3, <3>1, ChainIs
    <3>3. i - 1 <= n => i - 1 = n
      BY <1>1, <2>3
    <3>4. E[i - 1] = D[n] /\ E[i] = D[n] /\ D[n] \in 0..Timeout
      BY <1>1, <2>3, <3>1, <3>3
    <3> QED
      BY <2>3, <3>2, <3>4, Sizes
  <2> QED
    BY <2>1, <2>2, <2>3
<1>3. E = F(E)
  BY <1>2
<1>4. Deadline = CHOOSE sum : sum = F(sum)
  BY DEF Deadline
<1> HIDE DEF E
<1>5. Deadline = F(Deadline)
  BY <1>3, <1>4
<1> DEFINE S == {k \in Nat : k \in 0..N => Deadline[k] = E[k]}
<1>6. 0 \in S
  <2>1. 0 \in 0..N
    BY Sizes
  <2>2. Deadline[0] = 0 /\ E[0] = 0
    BY <1>3, <1>5, <2>1
  <2> QED
    BY <2>2
<1>7. ASSUME NEW k \in S
      PROVE  k + 1 \in S
  <2>1. SUFFICES ASSUME k + 1 \in 0..N
                 PROVE  Deadline[k + 1] = E[k + 1]
    OBVIOUS
  <2> DEFINE i == k + 1
  <2>2. i \in 0..N /\ i # 0 /\ i - 1 = k /\ k \in 0..N
    BY <1>1, <2>1
  <2> HIDE DEF i
  <2>3. Deadline[i - 1] = E[i - 1]
    BY <2>2
  <2>4. Deadline[i] = F(Deadline)[i] /\ E[i] = F(E)[i]
    BY <1>3, <1>5
  <2> QED
    BY <2>2, <2>3, <2>4 DEF i
<1>8. S = Nat
  BY <1>6, <1>7, Induction
<1>9. \A i \in 0..N : Deadline[i] = E[i]
  BY <1>8
<1>10. Deadline = [i \in 0..N |-> Deadline[i]] /\ E = [i \in 0..N |-> E[i]]
  BY <1>3, <1>5
<1>11. Deadline = E
  BY <1>9, <1>10
<1> QED
  BY <1>11 DEF E

-----------------------------------------------------------------------------
\* Requests that come later have no earlier deadline.
LEMMA LaterLess ==
  ASSUME NEW n, NEW q, NEW D, Linked(n, q, D), Fields, NEW i \in 0..n, NEW j \in i..n
  PROVE  D[i] <= D[j]
<1>1. n \in Nat /\ q \in [1..n -> Slots] /\ D \in [0..n -> 0..Timeout]
  BY LinkedTypes
<1> DEFINE S == {k \in Nat : i + k <= n => D[i] <= D[i + k]}
<1>2. 0 \in S
  BY <1>1, Sizes
<1>3. ASSUME NEW k \in S
      PROVE  k + 1 \in S
  <2>1. SUFFICES ASSUME i + (k + 1) <= n
                 PROVE  D[i] <= D[i + (k + 1)]
    OBVIOUS
  <2> DEFINE l == i + (k + 1)
  <2>2. l \in 1..n /\ l - 1 = i + k /\ i + k \in 0..n /\ i + k <= n
    BY <1>1, <2>1
  <2> HIDE DEF l
  <2>3. D[l] = D[l - 1] + timeout_diff[q[l]]
    BY <2>2 DEF Linked
  <2>4. timeout_diff[q[l]] \in 0..Timeout /\ D[l - 1] \in 0..Timeout /\ D[i] \in 0..Timeout
    BY <1>1, <2>2 DEF Fields
  <2>5. D[i] <= D[l - 1]
    BY <2>2
  <2>6. D[i] <= D[l]
    BY <2>3, <2>4, <2>5, Sizes
  <2> QED
    BY <2>6 DEF l
<1>4. S = Nat
  BY <1>2, <1>3, Induction
<1>5. j - i \in Nat /\ i + (j - i) = j /\ j <= n
  BY <1>1
<1> QED
  BY <1>4, <1>5

\* How many expire: requests whose deadline is passed, and perhaps those whose
\* deadline is now.
Expired(n, D, m) ==
  /\ m \in 0..n /\ D[m] <= Interval
  /\ \A i \in 0..n : i < m => D[i] < Interval
  /\ m < n => D[m] = Interval \/ D[m + 1] > Interval

\* There is such a number.
LEMMA SomeExpire ==
  ASSUME NEW n, NEW q, NEW D, Linked(n, q, D)
  PROVE  \E m : Expired(n, D, m)
<1>1. n \in Nat /\ D \in [0..n -> 0..Timeout] /\ Interval \in Nat /\ Interval >= 1 /\ Timeout \in Nat
  BY LinkedTypes, Sizes
<1> DEFINE S == {m \in 0..n : m = n \/ D[m] >= Interval \/ D[m + 1] > Interval}
<1>2. S \in SUBSET Nat /\ n \in S
  BY <1>1
<1>3. PICK m \in S : \A k \in S : m <= k
  BY <1>2, Least
<1> HIDE DEF S
<1>4. ASSUME NEW i \in 0..n, i < m
      PROVE  D[i] < Interval /\ D[i + 1] <= Interval
  <2>1. i \notin S /\ i + 1 \in 0..n
    <3>1. m \in 0..n
      BY <1>3 DEF S
    <3> QED
      BY <1>1, <1>3, <1>4, <3>1
  <2>2. D[i] \in Nat /\ D[i + 1] \in Nat
    BY <1>1, <2>1
  <2> QED
    BY <1>1, <2>1, <2>2 DEF S
<1>5. D[m] <= Interval
  <2>1. CASE m = 0
    BY <1>1, <2>1 DEF Linked
  <2>2. CASE m # 0
    <3>1. m - 1 \in 0..n /\ m - 1 < m /\ (m - 1) + 1 = m
      BY <1>1, <1>3, <2>2 DEF S
    <3> QED
      BY <1>4, <3>1
  <2> QED
    BY <2>1, <2>2
<1>6. m \in 0..n /\ (m = n \/ D[m] >= Interval \/ D[m + 1] > Interval)
  BY <1>3 DEF S
<1>7. m < n => D[m] = Interval \/ D[m + 1] > Interval
  BY <1>1, <1>5, <1>6
<1> QED
  BY <1>4, <1>5, <1>6, <1>7 DEF Expired

\* What the loop of mqtt_request_time_elapsed has done after i rounds, of which
\* the first m expire a request each.
At(n, q, i) == IF i <= n THEN q[i] ELSE NULL
After(n, q, D, m) ==
  [t |-> IF m < n THEN 0 ELSE Interval - D[n],
   r |-> At(n, q, m + 1),
   expired |-> {q[j] : j \in 1..m},
   diff |-> IF m < n THEN [timeout_diff EXCEPT ![q[m + 1]] = @ - (Interval - D[m])]
            ELSE timeout_diff]

\* One round, in which nothing is left to do.
LEMMA RoundStops ==
  ASSUME NEW t, NEW r, NEW e, NEW d, t = 0 \/ r = NULL
  PROVE  Iteration([t |-> t, r |-> r, expired |-> e, diff |-> d])
           = [t |-> t, r |-> r, expired |-> e, diff |-> d]
BY DEF Iteration

\* One round, in which a request expires.
LEMMA RoundExpires ==
  ASSUME NEW t, NEW r, NEW e, NEW d, t # 0, r # NULL, t >= d[r]
  PROVE  Iteration([t |-> t, r |-> r, expired |-> e, diff |-> d])
           = [t |-> t - d[r], r |-> next[r], expired |-> e \cup {r}, diff |-> d]
<1> DEFINE w == [t |-> t, r |-> r, expired |-> e, diff |-> d]
           t1 == t - d[r]
           r1 == next[r]
           e1 == e \cup {r}
<1>1. w.t = t /\ w.r = r /\ w.expired = e /\ w.diff = d
  OBVIOUS
<1> HIDE DEF t1, r1, e1
<1>2. [w EXCEPT !.t = t1] = [t |-> t1, r |-> r, expired |-> e, diff |-> d]
  OBVIOUS
<1>3. [[t |-> t1, r |-> r, expired |-> e, diff |-> d] EXCEPT !.r = r1]
        = [t |-> t1, r |-> r1, expired |-> e, diff |-> d]
  OBVIOUS
<1>4. [[t |-> t1, r |-> r1, expired |-> e, diff |-> d] EXCEPT !.expired = e1]
        = [t |-> t1, r |-> r1, expired |-> e1, diff |-> d]
  OBVIOUS
<1> HIDE DEF w
<1>5. Iteration(w) = [w EXCEPT !.t = t1, !.r = r1, !.expired = e1]
  BY <1>1 DEF Iteration, Expires, t1, r1, e1
<1>6. Iteration(w) = [t |-> t1, r |-> r1, expired |-> e1, diff |-> d]
  BY <1>2, <1>3, <1>4, <1>5
<1> QED
  BY <1>6 DEF w, t1, r1, e1

\* One round, in which the rest of the time is taken off a request.
LEMMA RoundEnds ==
  ASSUME NEW t, NEW r, NEW e, NEW d, t # 0, r # NULL, ~(t >= d[r])
  PROVE  Iteration([t |-> t, r |-> r, expired |-> e, diff |-> d])
           = [t |-> 0, r |-> r, expired |-> e, diff |-> [d EXCEPT ![r] = @ - t]]
<1> DEFINE w == [t |-> t, r |-> r, expired |-> e, diff |-> d]
           d1 == [d EXCEPT ![r] = @ - t]
<1>1. w.t = t /\ w.r = r /\ w.expired = e /\ w.diff = d
  OBVIOUS
<1>2. d1 = [d EXCEPT ![r] = d[r] - t]
  OBVIOUS
<1> HIDE DEF d1
<1>3. [w EXCEPT !.diff = d1] = [t |-> t, r |-> r, expired |-> e, diff |-> d1]
  OBVIOUS
<1>4. [[t |-> t, r |-> r, expired |-> e, diff |-> d1] EXCEPT !.t = 0]
        = [t |-> 0, r |-> r, expired |-> e, diff |-> d1]
  OBVIOUS
<1> HIDE DEF w
<1>5. Iteration(w) = [w EXCEPT !.diff = d1, !.t = 0]
  BY <1>1, <1>2 DEF Iteration, Expires
<1>6. Iteration(w) = [t |-> 0, r |-> r, expired |-> e, diff |-> d1]
  BY <1>3, <1>4, <1>5
<1> QED
  BY <1>6 DEF w, d1

\* The loop of mqtt_request_time_elapsed ends with After: each of the first m
\* rounds expires a request, the next one takes off the rest.
LEMMA ElapsedIs ==
  ASSUME NEW n, NEW q, NEW D, Linked(n, q, D), Fields, NEW m, Expired(n, D, m)
  PROVE  Elapsed = After(n, q, D, m)
<1> DEFINE F(loop) ==
             [i \in 0..(N + 1) |->
                IF i = 0
                THEN [t |-> Interval, r |-> pend_req_queue, expired |-> {},
                      diff |-> timeout_diff]
                ELSE Iteration(loop[i - 1])]
           W(i) == [t |-> Interval - D[i], r |-> At(n, q, i + 1),
                    expired |-> {q[j] : j \in 1..i}, diff |-> timeout_diff]
           E == [i \in 0..(N + 1) |-> IF i <= m THEN W(i) ELSE After(n, q, D, m)]
<1>1. /\ n \in Nat /\ n <= N /\ N \in Nat /\ q \in [1..n -> Slots]
      /\ D \in [0..n -> 0..Timeout] /\ m \in 0..n
      /\ Interval \in Nat /\ Interval >= 1 /\ Timeout \in Nat
      /\ timeout_diff \in [Slots -> 0..Timeout]
  BY LinkedTypes, Sizes DEF Expired, Fields
<1>2. W(0) = [t |-> Interval, r |-> pend_req_queue, expired |-> {}, diff |-> timeout_diff]
  <2>1. D[0] = 0 /\ At(n, q, 0 + 1) = pend_req_queue
    BY <1>1 DEF Linked, At
  <2>2. {q[j] : j \in 1..0} = {} /\ Interval - D[0] = Interval
    BY <1>1, <2>1
  <2> QED
    BY <2>1, <2>2
<1>3. ASSUME NEW i \in 1..m
      PROVE  W(i) = Iteration(W(i - 1))
  <2>1. /\ i \in 1..n /\ i - 1 \in 0..n /\ (i - 1) + 1 = i /\ i - 1 < m
        /\ i \in 0..n
    BY <1>1
  <2>2. D[i - 1] < Interval /\ D[i] <= Interval
    <3>1. CASE i = m
      BY <2>1, <3>1 DEF Expired
    <3>2. CASE i # m
      <4>1. i < m
        BY <1>1, <3>2
      <4>2. D[i] < Interval
        BY <2>1, <4>1 DEF Expired
      <4>3. D[i] \in Nat
        BY <1>1, <2>1
      <4> QED
        BY <1>1, <2>1, <4>2, <4>3 DEF Expired
    <3> QED
      BY <3>1, <3>2
  <2>3. At(n, q, (i - 1) + 1) = q[i] /\ q[i] \in Slots /\ q[i] # NULL
    BY <1>1, <2>1, Sizes DEF At
  <2>4. next[q[i]] = At(n, q, i + 1)
    <3>1. next[q[i]] = IF i = n THEN NULL ELSE q[i + 1]
      BY <2>1 DEF Linked
    <3>2. i = n <=> ~(i + 1 <= n)
      BY <1>1, <2>1
    <3> QED
      BY <3>1, <3>2 DEF At
  <2>5. /\ D[i] = D[i - 1] + timeout_diff[q[i]]
        /\ D[i] \in Nat /\ D[i - 1] \in Nat /\ timeout_diff[q[i]] \in Nat
    BY <1>1, <2>1, <2>3 DEF Linked
  <2>6. /\ Interval - D[i - 1] # 0 /\ Interval - D[i - 1] >= timeout_diff[q[i]]
        /\ (Interval - D[i - 1]) - timeout_diff[q[i]] = Interval - D[i]
    <3>1. ASSUME NEW a \in Nat, NEW b \in Nat, a < Interval, a + b <= Interval
          PROVE  /\ Interval - a # 0 /\ Interval - a >= b
                 /\ (Interval - a) - b = Interval - (a + b)
      BY <1>1, <3>1
    <3> QED
      BY <2>2, <2>5, <3>1
  <2>7. {q[j] : j \in 1..(i - 1)} \cup {q[i]} = {q[j] : j \in 1..i}
    <3>1. \A j : j \in 1..i <=> j \in 1..(i - 1) \/ j = i
      BY <2>1
    <3> QED
      BY <3>1
  <2>8. W(i - 1) = [t |-> Interval - D[i - 1], r |-> q[i],
                    expired |-> {q[j] : j \in 1..(i - 1)}, diff |-> timeout_diff]
    BY <2>3
  <2>9. Iteration(W(i - 1)) =
          [t |-> (Interval - D[i - 1]) - timeout_diff[q[i]], r |-> next[q[i]],
           expired |-> {q[j] : j \in 1..(i - 1)} \cup {q[i]}, diff |-> timeout_diff]
    <3> DEFINE t0 == Interval - D[i - 1]
               e0 == {q[j] : j \in 1..(i - 1)}
    <3> HIDE DEF t0, e0
    <3>1. t0 # 0 /\ t0 >= timeout_diff[q[i]] /\ q[i] # NULL
      BY <2>3, <2>6 DEF t0
    <3>2. Iteration([t |-> t0, r |-> q[i], expired |-> e0, diff |-> timeout_diff])
            = [t |-> t0 - timeout_diff[q[i]], r |-> next[q[i]],
               expired |-> e0 \cup {q[i]}, diff |-> timeout_diff]
      BY <3>1, RoundExpires
    <3>3. W(i - 1) = [t |-> t0, r |-> q[i], expired |-> e0, diff |-> timeout_diff]
      BY <2>8 DEF t0, e0
    <3> QED
      BY <3>2, <3>3 DEF t0, e0
  <2> QED
    BY <2>4, <2>6, <2>7, <2>9
<1>4. After(n, q, D, m) = Iteration(W(m))
  <2>1. W(m) = [t |-> Interval - D[m], r |-> At(n, q, m + 1),
                expired |-> {q[j] : j \in 1..m}, diff |-> timeout_diff]
    OBVIOUS
  <2>2. CASE m = n
    <3>1. At(n, q, m + 1) = NULL /\ ~(m < n)
      BY <1>1, <2>2 DEF At
    <3>2. Iteration(W(m)) = W(m)
      BY <3>1, RoundStops
    <3>3. After(n, q, D, m) = [t |-> Interval - D[n], r |-> At(n, q, m + 1),
                               expired |-> {q[j] : j \in 1..m}, diff |-> timeout_diff]
      BY <3>1 DEF After
    <3> QED
      BY <2>1, <2>2, <3>2, <3>3
  <2>3. CASE m < n /\ D[m] = Interval
    <3>1. Interval - D[m] = 0
      BY <1>1, <2>3
    <3>2. Iteration(W(m)) = W(m)
      BY <3>1, RoundStops
    <3>3. m + 1 \in 1..n /\ q[m + 1] \in Slots
      BY <1>1, <2>3
    <3>4. [timeout_diff EXCEPT ![q[m + 1]] = @ - (Interval - D[m])] = timeout_diff
      BY <1>1, <3>1, <3>3
    <3>5. After(n, q, D, m) = [t |-> 0, r |-> At(n, q, m + 1),
                               expired |-> {q[j] : j \in 1..m}, diff |-> timeout_diff]
      BY <2>3, <3>4 DEF After
    <3> QED
      BY <2>1, <3>1, <3>2, <3>5
  <2>4. CASE m < n /\ D[m] # Interval
    <3>1. m + 1 \in 1..n /\ q[m + 1] \in Slots /\ q[m + 1] # NULL /\ (m + 1) - 1 = m
      BY <1>1, <2>4, Sizes
    <3>2. At(n, q, m + 1) = q[m + 1]
      BY <1>1, <3>1 DEF At
    <3>3. D[m + 1] = D[m] + timeout_diff[q[m + 1]] /\ D[m] <= Interval /\ D[m + 1] > Interval
      BY <2>4, <3>1 DEF Linked, Expired
    <3>4. D[m] \in Nat /\ timeout_diff[q[m + 1]] \in Nat
      BY <1>1, <3>1
    <3>5. Interval - D[m] # 0 /\ ~(Interval - D[m] >= timeout_diff[q[m + 1]])
      BY <1>1, <2>4, <3>3, <3>4
    <3>6. Iteration(W(m)) =
            [t |-> 0, r |-> q[m + 1], expired |-> {q[j] : j \in 1..m},
             diff |-> [timeout_diff EXCEPT ![q[m + 1]] = @ - (Interval - D[m])]]
      <4> DEFINE t0 == Interval - D[m]
                 e0 == {q[j] : j \in 1..m}
                 r0 == q[m + 1]
      <4> HIDE DEF t0, e0, r0
      <4>1. t0 # 0 /\ ~(t0 >= timeout_diff[r0]) /\ r0 # NULL
        BY <3>1, <3>5 DEF t0, r0
      <4>2. Iteration([t |-> t0, r |-> r0, expired |-> e0, diff |-> timeout_diff])
              = [t |-> 0, r |-> r0, expired |-> e0,
                 diff |-> [timeout_diff EXCEPT ![r0] = @ - t0]]
        BY <4>1, RoundEnds
      <4>3. W(m) = [t |-> t0, r |-> r0, expired |-> e0, diff |-> timeout_diff]
        BY <3>2 DEF t0, e0, r0
      <4> QED
        BY <4>2, <4>3 DEF t0, e0, r0
    <3> QED
      BY <2>4, <3>2, <3>6 DEF After
  <2> QED
    BY <1>1, <2>2, <2>3, <2>4
<1>5. After(n, q, D, m) = Iteration(After(n, q, D, m))
  <2> DEFINE w == After(n, q, D, m)
  <2>1. w.t = 0 \/ w.r = NULL
    BY <1>1 DEF After, At
  <2> HIDE DEF w
  <2>2. w = Iteration(w)
    BY <2>1 DEF Iteration
  <2> QED
    BY <2>2 DEF w
<1> HIDE DEF W
<1>6. ASSUME NEW i \in 0..(N + 1)
      PROVE  E[i] = IF i = 0
                    THEN [t |-> Interval, r |-> pend_req_queue, expired |-> {},
                          diff |-> timeout_diff]
                    ELSE Iteration(E[i - 1])
  <2>1. CASE i = 0
    BY <1>1, <1>2, <2>1
  <2>2. CASE i # 0
    <3>1. i - 1 \in 0..(N + 1) /\ i \in 1..(N + 1)
      BY <1>1, <2>2
    <3>2. CASE i <= m
      <4>1. i \in 1..m /\ i - 1 <= m
        BY <1>1, <3>1, <3>2
      <4> QED
        BY <1>3, <2>2, <3>1, <4>1
    <3>3. CASE i - 1 = m
      BY <1>1, <1>4, <2>2, <3>1, <3>3
    <3>4. CASE i - 1 > m
      BY <1>1, <1>5, <2>2, <3>1, <3>4
    <3> QED
      BY <1>1, <3>1, <3>2, <3>3, <3>4
  <2> QED
    BY <2>1, <2>2
<1>7. E = F(E)
  BY <1>6
<1> DEFINE L == CHOOSE loop : loop = F(loop)
<1>8. Elapsed = L[N + 1]
  BY DEF Elapsed
<1>9. E[N + 1] = After(n, q, D, m)
  BY <1>1
<1> HIDE DEF E
<1>10. L = F(L)
  BY <1>7
<1> HIDE DEF L
<1> DEFINE S == {k \in Nat : k \in 0..(N + 1) => L[k] = E[k]}
<1>11. 0 \in S
  <2>1. 0 \in 0..(N + 1)
    BY <1>1
  <2>2. L[0] = F(L)[0] /\ E[0] = F(E)[0]
    BY <1>7, <1>10
  <2> QED
    BY <2>1, <2>2
<1>12. ASSUME NEW k \in S
      PROVE  k + 1 \in S
  <2>1. SUFFICES ASSUME k + 1 \in 0..(N + 1)
                 PROVE  L[k + 1] = E[k + 1]
    OBVIOUS
  <2> DEFINE i == k + 1
  <2>2. i \in 0..(N + 1) /\ i # 0 /\ i - 1 = k /\ k \in 0..(N + 1)
    BY <1>1, <2>1
  <2> HIDE DEF i
  <2>3. L[i - 1] = E[i - 1]
    BY <2>2
  <2>4. L[i] = F(L)[i] /\ E[i] = F(E)[i]
    BY <1>7, <1>10
  <2> QED
    BY <2>2, <2>3, <2>4 DEF i
<1>13. S = Nat
  BY <1>11, <1>12, Induction
<1>14. L[N + 1] = E[N + 1]
  <2>1. N + 1 \in Nat /\ N + 1 \in 0..(N + 1)
    BY <1>1
  <2> QED
    BY <1>13, <2>1
<1> QED
  BY <1>8, <1>9, <1>14
-----------------------------------------------------------------------------
\* The queue is empty after mqtt_client_connect and when the connection is
\* closed.
Empty == [i \in 1..0 |-> NULL]
NoDeadline == [i \in 0..0 |-> 0]

LEMMA InitLinked ==
  ASSUME Init
  PROVE  Fields /\ Linked(0, Empty, NoDeadline)
BY Sizes DEF Init, Fields, Linked, Empty, NoDeadline

LEMMA ClearLinked ==
  ASSUME Fields, mqtt_clear_requests
  PROVE  Fields' /\ Linked(0, Empty, NoDeadline)'
<1>1. /\ next' = [s \in Slots |-> s]
      /\ pkt_id' = [s \in Slots |-> 0]
      /\ timeout_diff' = [s \in Slots |-> 0]
      /\ pend_req_queue' = NULL
  BY DEF mqtt_clear_requests, InUse, Unused
<1> QED
  BY <1>1, Sizes DEF Fields, Linked, Empty, NoDeadline

\* A new request is the last of the chain, its deadline MQTT_REQ_TIMEOUT.
Put(n, f, x) == [i \in 1..(n + 1) |-> IF i = n + 1 THEN x ELSE f[i]]
PutDeadline(n, D) == [i \in 0..(n + 1) |-> IF i = n + 1 THEN Timeout ELSE D[i]]

\* A request object that is not in use is found if there is one.
LEMMA FirstIs ==
  ASSUME Unused # {}
  PROVE  First(Unused) \in Unused
<1>1. Unused \in SUBSET Nat
  BY Sizes DEF Unused
<1>2. \E s \in Unused : \A o \in Unused : s <= o
  BY <1>1, Least
<1> QED
  BY <1>2 DEF First

LEMMA RequestLinked ==
  ASSUME NEW n, NEW q, NEW D, Linked(n, q, D), Fields, NEW id \in PktIds, Request(id)
  PROVE  \E r \in Unused :
           Fields' /\ Linked(n + 1, Put(n, q, r), PutDeadline(n, D))'
<1>0. PICK r : r = First(Unused)
  OBVIOUS
<1> DEFINE q2 == Put(n, q, r)
           D2 == PutDeadline(n, D)
<1>1. /\ n \in Nat /\ n <= N /\ N \in Nat /\ q \in [1..n -> Slots]
      /\ D \in [0..n -> 0..Timeout] /\ Timeout \in Nat
      /\ NULL \notin Slots
  BY LinkedTypes, Sizes
<1>2. r \in Unused /\ r \in Slots /\ next[r] = r
  BY <1>0, FirstIs DEF Request, Unused
<1>3. n < N
  BY <1>2, CountIs
<1>4. \A i \in 1..n : q[i] # r
  BY <1>2, InUseIs
<1>5. DiffToLast = Timeout - D[n] /\ DiffToLast \in 0..Timeout
  <2>1. N \in 0..N /\ n \in 0..n /\ ~(N <= n)
    BY <1>1, <1>3
  <2>2. Deadline[N] = D[n]
    BY <2>1, DeadlineIs
  <2> QED
    BY <1>1, <2>1, <2>2 DEF DiffToLast
<1>6. pend_req_queue = NULL <=> n = 0
  BY <1>1 DEF Linked
<1>7. n # 0 => Chain[Length] = q[n] /\ q[n] \in Slots
  BY <1>1, LengthIs, ChainIs
<1>8. /\ pkt_id' = [pkt_id EXCEPT ![r] = id]
      /\ timeout_diff' = [timeout_diff EXCEPT ![r] = DiffToLast]
      /\ pend_req_queue' = IF n = 0 THEN r ELSE pend_req_queue
      /\ n = 0 => next' = [next EXCEPT ![r] = NULL]
      /\ n # 0 => next' = [next EXCEPT ![r] = NULL, ![q[n]] = r]
  BY <1>0, <1>6, <1>7 DEF Request
<1>9. /\ next' \in [Slots -> Slots \cup {NULL}]
      /\ \A s \in Slots : next'[s] = IF s = r THEN NULL
                                     ELSE IF n # 0 /\ s = q[n] THEN r ELSE next[s]
  <2>1. CASE n = 0
    BY <1>2, <1>8, <2>1 DEF Fields
  <2>2. CASE n # 0
    <3>1. q[n] # r /\ q[n] \in Slots
      BY <1>1, <1>4, <2>2
    <3> QED
      BY <1>2, <1>8, <2>2, <3>1 DEF Fields
  <2> QED
    BY <2>1, <2>2
<1>10. /\ timeout_diff' \in [Slots -> 0..Timeout]
       /\ timeout_diff'[r] = Timeout - D[n]
       /\ \A s \in Slots : s # r => timeout_diff'[s] = timeout_diff[s]
  BY <1>2, <1>5, <1>8 DEF Fields
<1>11. Fields'
  BY <1>8, <1>9, <1>10 DEF Fields
<1>12. /\ n + 1 \in Nat /\ n + 1 \in 1..(n + 1)
       /\ q2 \in [1..(n + 1) -> Slots]
       /\ q2[n + 1] = r /\ \A i \in 1..n : i \in 1..(n + 1) /\ i # n + 1 /\ q2[i] = q[i]
  BY <1>1, <1>2 DEF Put
<1>13. /\ D2 \in [0..(n + 1) -> 0..Timeout]
       /\ D2[n + 1] = Timeout
       /\ \A i \in 0..n : i \in 0..(n + 1) /\ i # n + 1 /\ D2[i] = D[i]
  BY <1>1 DEF PutDeadline
<1>14. \A i \in 1..(n + 1) : i \in 1..n \/ i = n + 1
  BY <1>1
<1> HIDE DEF q2, D2
<1>15. ASSUME NEW i \in 1..(n + 1), NEW j \in 1..(n + 1), q2[i] = q2[j]
       PROVE  i = j
  <2>1. CASE i = n + 1 /\ j = n + 1
    BY <2>1
  <2>2. CASE i \in 1..n /\ j \in 1..n
    BY <1>12, <1>15, <2>2 DEF Linked
  <2>3. CASE i \in 1..n /\ j = n + 1
    BY <1>4, <1>12, <1>15, <2>3
  <2>4. CASE i = n + 1 /\ j \in 1..n
    BY <1>4, <1>12, <1>15, <2>4
  <2> QED
    BY <1>14, <2>1, <2>2, <2>3, <2>4
<1>16. pend_req_queue' = IF n + 1 = 0 THEN NULL ELSE q2[1]
  <2>1. CASE n = 0
    BY <1>8, <1>12, <2>1
  <2>2. CASE n # 0
    <3>1. 1 \in 1..n /\ n + 1 # 0
      BY <1>1, <2>2
    <3>2. pend_req_queue = q[1]
      BY <2>2 DEF Linked
    <3> QED
      BY <1>8, <1>12, <2>2, <3>1, <3>2
  <2> QED
    BY <2>1, <2>2
<1>17. ASSUME NEW i \in 1..(n + 1)
       PROVE  next'[q2[i]] = IF i = n + 1 THEN NULL ELSE q2[i + 1]
  <2>1. CASE i = n + 1
    BY <1>2, <1>9, <1>12, <2>1
  <2>2. CASE i \in 1..n
    <3>1. q2[i] = q[i] /\ q[i] \in Slots /\ q[i] # r /\ i # n + 1 /\ n # 0 /\ n \in 1..n
      BY <1>1, <1>4, <1>12, <2>2
    <3>2. CASE i = n
      BY <1>9, <1>12, <3>1, <3>2
    <3>3. CASE i # n
      <4>1. q[i] # q[n]
        BY <2>2, <3>1, <3>3 DEF Linked
      <4>2. next[q[i]] = q[i + 1] /\ i + 1 \in 1..n
        BY <1>1, <2>2, <3>3 DEF Linked
      <4> QED
        BY <1>9, <1>12, <3>1, <4>1, <4>2
    <3> QED
      BY <3>2, <3>3
  <2> QED
    BY <1>14, <2>1, <2>2
<1>18. ASSUME NEW s \in Slots, \A i \in 1..(n + 1) : q2[i] # s
       PROVE  next'[s] = s
  <2>1. s # r /\ \A i \in 1..n : q[i] # s
    BY <1>12, <1>18
  <2>2. next[s] = s
    BY <2>1 DEF Linked
  <2>3. n # 0 => q[n] # s
    BY <1>1, <2>1
  <2> QED
    BY <1>9, <2>1, <2>2, <2>3
<1>19. ASSUME NEW i \in 1..(n + 1)
       PROVE  D2[i] = D2[i - 1] + timeout_diff'[q2[i]]
  <2>1. CASE i = n + 1
    <3>1. i - 1 = n /\ n \in 0..n
      BY <1>1, <2>1
    <3>2. D2[i - 1] = D[n] /\ D2[i] = Timeout /\ D[n] \in 0..Timeout
      BY <1>1, <1>13, <2>1, <3>1
    <3>3. timeout_diff'[q2[i]] = Timeout - D[n]
      BY <1>10, <1>12, <2>1
    <3> QED
      BY <1>1, <3>2, <3>3
  <2>2. CASE i \in 1..n
    <3>1. i - 1 \in 0..n /\ i \in 0..n /\ q[i] # r /\ q[i] \in Slots
      BY <1>1, <1>4, <2>2
    <3>2. D[i] = D[i - 1] + timeout_diff[q[i]]
      BY <2>2 DEF Linked
    <3> QED
      BY <1>10, <1>12, <1>13, <2>2, <3>1, <3>2
  <2> QED
    BY <1>14, <2>1, <2>2
<1>20. D2[0] = 0
  BY <1>1, <1>13 DEF Linked
<1>21. Linked(n + 1, q2, D2)'
  BY <1>12, <1>13, <1>15, <1>16, <1>17, <1>18, <1>19, <1>20 DEF Linked
<1> QED
  BY <1>2, <1>11, <1>21 DEF q2, D2
\* Taking the request at position p closes the gap: the deadlines of the others
\* stay.
Cut(n, f, p) == [i \in 1..(n - 1) |-> IF i < p THEN f[i] ELSE f[i + 1]]
CutDeadline(n, D, p) == [i \in 0..(n - 1) |-> IF i < p THEN D[i] ELSE D[i + 1]]

LEMMA TakeLinked ==
  ASSUME NEW n, NEW q, NEW D, Linked(n, q, D), Fields, NEW id \in PktIds, Take(id)
  PROVE  \E p \in 1..n : Fields' /\ Linked(n - 1, Cut(n, q, p), CutDeadline(n, D, p))'
<1>1. /\ n \in Nat /\ n <= N /\ N \in Nat /\ q \in [1..n -> Slots]
      /\ D \in [0..n -> 0..Timeout] /\ Timeout \in Nat
      /\ NULL \notin Slots /\ 0 \in PktIds
  BY LinkedTypes, Sizes
<1>2. PICK s \in InUse : /\ next' = Unchained(s)
                         /\ timeout_diff' = Inherited(s)
                         /\ pkt_id' = [pkt_id EXCEPT ![s] = 0]
                         /\ pend_req_queue' = IF pend_req_queue = s THEN next[s]
                                              ELSE pend_req_queue
  BY DEF Take
<1>3. PICK p \in 1..n : q[p] = s
  BY InUseIs
<1> DEFINE q2 == Cut(n, q, p)
           D2 == CutDeadline(n, D, p)
<1>4. s \in Slots /\ p \in 0..n /\ p - 1 \in 0..n /\ n - 1 \in Nat
  BY <1>1, <1>3
<1>5. /\ next[s] = IF p = n THEN NULL ELSE q[p + 1]
      /\ \A i \in 1..n : q[i] = s <=> i = p
      /\ p # n => p + 1 \in 1..n /\ q[p + 1] \in Slots /\ p + 1 # p
  <2>1. next[s] = IF p = n THEN NULL ELSE q[p + 1]
    BY <1>3 DEF Linked
  <2>2. \A i \in 1..n : q[i] = s <=> i = p
    BY <1>3 DEF Linked
  <2>3. p # n => p + 1 \in 1..n /\ q[p + 1] \in Slots /\ p + 1 # p
    BY <1>1
  <2> QED
    BY <2>1, <2>2, <2>3
<1>6. /\ next' \in [Slots -> Slots \cup {NULL}]
      /\ \A o \in Slots : next'[o] = IF o = s THEN s
                                     ELSE IF next[o] = s THEN next[s] ELSE next[o]
  BY <1>2, <1>4 DEF Unchained, Fields
<1>7. \A i \in 1..n : next[s] = q[i] <=> p # n /\ i = p + 1
  <2> TAKE i \in 1..n
  <2>1. q[i] \in Slots
    BY <1>1
  <2>2. p # n => (q[p + 1] = q[i] <=> p + 1 = i)
    BY <1>5 DEF Linked
  <2> QED
    BY <1>1, <1>5, <2>1, <2>2
<1>8. \A i \in 1..n : timeout_diff'[q[i]] =
        IF i = p THEN 0
        ELSE timeout_diff[q[i]] + (IF p # n /\ i = p + 1 THEN timeout_diff[s] ELSE 0)
  <2> TAKE i \in 1..n
  <2>1. q[i] \in Slots /\ (q[i] = s <=> i = p)
    BY <1>1, <1>5
  <2> QED
    BY <1>2, <1>7, <2>1 DEF Inherited
<1>9. \A i \in 1..n : /\ D[i] = D[i - 1] + timeout_diff[q[i]]
                      /\ D[i] \in 0..Timeout /\ D[i - 1] \in 0..Timeout
                      /\ timeout_diff[q[i]] \in 0..Timeout
  <2> TAKE i \in 1..n
  <2>1. i \in 0..n /\ i - 1 \in 0..n /\ q[i] \in Slots
    BY <1>1
  <2> QED
    BY <1>1, <2>1 DEF Linked, Fields
<1>10. timeout_diff' \in [Slots -> 0..Timeout]
  <2>1. ASSUME NEW o \in Slots
        PROVE  timeout_diff'[o] \in 0..Timeout
    <3>1. CASE o = s
      BY <1>1, <1>2, <3>1 DEF Inherited
    <3>2. CASE o # s /\ o = next[s]
      <4>1. p # n /\ o = q[p + 1] /\ p + 1 \in 1..n /\ (p + 1) - 1 = p
        BY <1>1, <1>5, <3>2
      <4>2. timeout_diff'[o] = timeout_diff[q[p + 1]] + timeout_diff[q[p]]
        BY <1>2, <1>3, <3>2, <4>1 DEF Inherited
      <4>3. D[p + 1] = D[p] + timeout_diff[q[p + 1]] /\ D[p] = D[p - 1] + timeout_diff[q[p]]
        BY <1>9, <4>1
      <4>4. /\ D[p + 1] \in 0..Timeout /\ D[p - 1] \in 0..Timeout
            /\ timeout_diff[q[p + 1]] \in 0..Timeout /\ timeout_diff[q[p]] \in 0..Timeout
            /\ D[p] \in 0..Timeout
        BY <1>9, <4>1
      <4>5. ASSUME NEW a \in 0..Timeout, NEW b \in 0..Timeout, NEW c \in 0..Timeout,
                   (a + b) + c \in 0..Timeout
            PROVE  c + b \in 0..Timeout
        BY <1>1, <4>5
      <4>6. (D[p - 1] + timeout_diff[q[p]]) + timeout_diff[q[p + 1]] \in 0..Timeout
        BY <4>3, <4>4
      <4> QED
        BY <4>2, <4>4, <4>5, <4>6
    <3>3. CASE o # s /\ o # next[s]
      <4>1. timeout_diff'[o] = timeout_diff[o] + 0 /\ timeout_diff[o] \in 0..Timeout
        BY <1>2, <3>3 DEF Inherited, Fields
      <4> QED
        BY <1>1, <4>1
    <3> QED
      BY <3>1, <3>2, <3>3
  <2>2. timeout_diff' = [o \in Slots |-> timeout_diff'[o]]
    BY <1>2 DEF Inherited
  <2> QED
    BY <2>1, <2>2
<1>11. Fields'
  BY <1>1, <1>2, <1>6, <1>10 DEF Fields
<1>12. \A i \in 1..(n - 1) : /\ i \in 1..n /\ i + 1 \in 1..n /\ i \in Nat
                             /\ q2[i] = IF i < p THEN q[i] ELSE q[i + 1]
  BY <1>1 DEF Cut
<1>13. q2 \in [1..(n - 1) -> Slots]
  BY <1>1, <1>12 DEF Cut
<1>14. \A i \in 0..(n - 1) : /\ i \in 0..n /\ i + 1 \in 0..n /\ i \in Nat
                             /\ D2[i] = IF i < p THEN D[i] ELSE D[i + 1]
  BY <1>1 DEF CutDeadline
<1>15. D2 \in [0..(n - 1) -> 0..Timeout]
  BY <1>1, <1>14 DEF CutDeadline
<1> HIDE DEF q2, D2
<1>16. ASSUME NEW i \in 1..(n - 1), NEW j \in 1..(n - 1), q2[i] = q2[j]
       PROVE  i = j
  <2>1. \A k, l \in 1..n : q[k] = q[l] => k = l
    BY DEF Linked
  <2> QED
    BY <1>1, <1>12, <1>16, <2>1
<1>17. pend_req_queue' = IF n - 1 = 0 THEN NULL ELSE q2[1]
  <2>1. pend_req_queue = q[1] /\ 1 \in 1..n
    BY <1>1 DEF Linked
  <2>2. CASE p = 1
    <3>1. pend_req_queue' = next[s]
      BY <1>2, <1>3, <2>1, <2>2
    <3>2. CASE n = 1
      BY <1>5, <2>2, <3>1, <3>2
    <3>3. CASE n # 1
      <4>1. 1 \in 1..(n - 1) /\ n - 1 # 0 /\ p # n /\ p + 1 = 1 + 1 /\ ~(1 < p)
        BY <1>1, <2>2, <3>3
      <4> QED
        BY <1>5, <1>12, <3>1, <4>1
    <3> QED
      BY <3>2, <3>3
  <2>3. CASE p # 1
    <3>1. 1 \in 1..(n - 1) /\ n - 1 # 0 /\ 1 < p
      BY <1>1, <2>3
    <3>2. q[1] # s
      BY <1>5, <2>1, <2>3
    <3> QED
      BY <1>2, <1>12, <2>1, <3>1, <3>2
  <2> QED
    BY <2>2, <2>3
<1>18. ASSUME NEW i \in 1..(n - 1)
       PROVE  next'[q2[i]] = IF i = n - 1 THEN NULL ELSE q2[i + 1]
  <2>1. i \in 1..n /\ i + 1 \in 1..n /\ q[i] \in Slots /\ q[i + 1] \in Slots /\ i # n
    BY <1>1, <1>12
  <2>2. /\ next[q[i]] = q[i + 1]
        /\ next[q[i + 1]] = IF i + 1 = n THEN NULL ELSE q[(i + 1) + 1]
        /\ i + 1 # n => (i + 1) + 1 \in 1..n /\ i + 1 \in 1..(n - 1)
    BY <1>1, <2>1 DEF Linked
  <2>3. CASE i + 1 < p
    <3>1. i < p /\ i # p /\ i + 1 # p /\ i # n - 1 /\ i + 1 # n
      BY <1>1, <2>1, <2>3
    <3>2. q[i] # s /\ q[i + 1] # s
      BY <1>5, <2>1, <3>1
    <3> QED
      BY <1>6, <1>12, <2>1, <2>2, <2>3, <3>1, <3>2
  <2>4. CASE i + 1 = p
    <3>1. i < p /\ i # p /\ ~(i + 1 < p) /\ (i = n - 1 <=> p = n)
      BY <1>1, <2>1, <2>4
    <3>2. q[i] # s /\ next[q[i]] = s
      BY <1>3, <1>5, <2>1, <2>2, <2>4, <3>1
    <3>3. next'[q2[i]] = IF p = n THEN NULL ELSE q[p + 1]
      BY <1>5, <1>6, <1>12, <2>1, <3>1, <3>2
    <3>4. p # n => q2[i + 1] = q[p + 1]
      BY <1>1, <1>12, <2>2, <2>4, <3>1
    <3> QED
      BY <3>1, <3>3, <3>4
  <2>5. CASE i + 1 > p
    <3>1. ~(i < p) /\ ~(i + 1 < p) /\ i + 1 # p /\ (i = n - 1 <=> i + 1 = n)
          /\ (i + 1) + 1 # p
      BY <1>1, <2>1, <2>5
    <3>2. q[i + 1] # s /\ next[q[i + 1]] # s
      <4>1. i + 1 # n => q[(i + 1) + 1] # s
        BY <1>5, <2>2, <3>1
      <4> QED
        BY <1>1, <1>4, <1>5, <2>1, <2>2, <3>1, <4>1
    <3>3. next'[q2[i]] = next[q[i + 1]]
      BY <1>6, <1>12, <2>1, <3>1, <3>2
    <3>4. i + 1 # n => q2[i + 1] = q[(i + 1) + 1]
      BY <1>12, <2>2, <3>1
    <3> QED
      BY <2>2, <3>1, <3>3, <3>4
  <2> QED
    BY <1>1, <2>1, <2>3, <2>4, <2>5
<1>19. ASSUME NEW o \in Slots, \A i \in 1..(n - 1) : q2[i] # o
       PROVE  next'[o] = o
  <2>1. CASE o = s
    BY <1>6, <2>1
  <2>2. CASE o # s
    <3>1. ASSUME NEW i \in 1..n
          PROVE  q[i] # o
      <4>1. CASE i < p
        <5>1. i \in 1..(n - 1)
          BY <1>1, <4>1
        <5> QED
          BY <1>12, <1>19, <4>1, <5>1
      <4>2. CASE i = p
        BY <1>3, <2>2, <4>2
      <4>3. CASE i > p
        <5>1. i - 1 \in 1..(n - 1) /\ ~(i - 1 < p) /\ (i - 1) + 1 = i
          BY <1>1, <4>3
        <5> QED
          BY <1>12, <1>19, <5>1
      <4> QED
        BY <1>1, <4>1, <4>2, <4>3
    <3>2. next[o] = o
      BY <3>1 DEF Linked
    <3> QED
      BY <1>6, <2>2, <3>2
  <2> QED
    BY <2>1, <2>2
<1>20. ASSUME NEW i \in 1..(n - 1)
       PROVE  D2[i] = D2[i - 1] + timeout_diff'[q2[i]]
  <2>1. /\ i \in 1..n /\ i + 1 \in 1..n /\ (i + 1) - 1 = i
        /\ i \in 0..(n - 1) /\ i - 1 \in 0..(n - 1) /\ (i - 1) + 1 = i
    BY <1>1, <1>12
  <2>2. CASE i < p
    <3>1. /\ i - 1 < p /\ i # p /\ i # p + 1
      BY <1>1, <2>1, <2>2
    <3>2. timeout_diff'[q[i]] = timeout_diff[q[i]] + 0
      BY <1>8, <2>1, <3>1
    <3> QED
      BY <1>1, <1>9, <1>12, <1>14, <2>1, <2>2, <3>1, <3>2
  <2>3. CASE i = p
    <3>1. ~(i < p) /\ i - 1 < p /\ i + 1 # p /\ p # n /\ i + 1 = p + 1
      BY <1>1, <2>1, <2>3
    <3>2. timeout_diff'[q[i + 1]] = timeout_diff[q[i + 1]] + timeout_diff[q[i]]
      BY <1>3, <1>8, <2>1, <2>3, <3>1
    <3>3. D2[i] = D[i + 1] /\ D2[i - 1] = D[i - 1] /\ q2[i] = q[i + 1]
      BY <1>12, <1>14, <2>1, <3>1
    <3>4. /\ D[i + 1] = D[i] + timeout_diff[q[i + 1]] /\ D[i] = D[i - 1] + timeout_diff[q[i]]
          /\ D[i - 1] \in 0..Timeout
          /\ timeout_diff[q[i]] \in 0..Timeout /\ timeout_diff[q[i + 1]] \in 0..Timeout
      BY <1>9, <2>1
    <3>5. ASSUME NEW a \in 0..Timeout, NEW b \in 0..Timeout, NEW c \in 0..Timeout
          PROVE  (a + b) + c = a + (c + b)
      BY <1>1
    <3>6. D2[i] = (D2[i - 1] + timeout_diff[q[i]]) + timeout_diff[q[i + 1]]
      BY <3>3, <3>4
    <3>7. timeout_diff'[q2[i]] = timeout_diff[q[i + 1]] + timeout_diff[q[i]]
      BY <3>2, <3>3
    <3>8. D2[i - 1] \in 0..Timeout
      BY <3>3, <3>4
    <3> QED
      BY <3>4, <3>5, <3>6, <3>7, <3>8
  <2>4. CASE i > p
    <3>1. ~(i < p) /\ ~(i - 1 < p) /\ i + 1 # p /\ i + 1 # p + 1
      BY <1>1, <2>1, <2>4
    <3>2. timeout_diff'[q[i + 1]] = timeout_diff[q[i + 1]] + 0
      BY <1>8, <2>1, <3>1
    <3>3. D2[i] = D[i + 1] /\ D2[i - 1] = D[i] /\ q2[i] = q[i + 1]
      BY <1>12, <1>14, <2>1, <3>1
    <3>4. D[i + 1] = D[i] + timeout_diff[q[i + 1]] /\ timeout_diff[q[i + 1]] \in 0..Timeout
      BY <1>9, <2>1
    <3> QED
      BY <1>1, <3>2, <3>3, <3>4
  <2> QED
    BY <1>1, <2>1, <2>2, <2>3, <2>4
<1>21. D2[0] = 0
  <2>1. 0 \in 0..(n - 1) /\ 0 < p
    BY <1>1
  <2> QED
    BY <1>14, <2>1 DEF Linked
<1>22. Linked(n - 1, q2, D2)'
  BY <1>4, <1>13, <1>15, <1>16, <1>17, <1>18, <1>19, <1>20, <1>21 DEF Linked
<1> QED
  BY <1>11, <1>22 DEF q2, D2

\* When Interval seconds have gone by, the first m requests are gone and the
\* deadlines of the others are so much nearer.
Rest(n, f, m) == [i \in 1..(n - m) |-> f[m + i]]
RestDeadline(n, D, m) == [i \in 0..(n - m) |-> IF i = 0 THEN 0 ELSE D[m + i] - Interval]

LEMMA ElapsedLinked ==
  ASSUME NEW n, NEW q, NEW D, Linked(n, q, D), Fields, mqtt_request_time_elapsed,
         NEW m, Expired(n, D, m)
  PROVE  Fields' /\ Linked(n - m, Rest(n, q, m), RestDeadline(n, D, m))'
<1> DEFINE q2 == Rest(n, q, m)
           D2 == RestDeadline(n, D, m)
           X  == {q[j] : j \in 1..m}
           d2 == After(n, q, D, m).diff
<1>1. /\ n \in Nat /\ n <= N /\ N \in Nat /\ q \in [1..n -> Slots]
      /\ D \in [0..n -> 0..Timeout] /\ Timeout \in Nat /\ Interval \in Nat /\ m \in 0..n
      /\ m \in Nat /\ NULL \notin Slots /\ 0 \in PktIds /\ n - m \in Nat
      /\ D[m] <= Interval /\ timeout_diff \in [Slots -> 0..Timeout]
  BY LinkedTypes, Sizes DEF Expired, Fields
<1>2. /\ Elapsed.r = At(n, q, m + 1) /\ Elapsed.expired = X /\ Elapsed.diff = d2
  BY ElapsedIs DEF After
<1>3. /\ pend_req_queue' = At(n, q, m + 1)
      /\ next' = [s \in Slots |-> IF s \in X THEN s ELSE next[s]]
      /\ pkt_id' = [s \in Slots |-> IF s \in X THEN 0 ELSE pkt_id[s]]
      /\ timeout_diff' = [s \in Slots |-> IF s \in X THEN 0 ELSE d2[s]]
  BY <1>2 DEF mqtt_request_time_elapsed
<1>4. /\ X \subseteq Slots
      /\ \A i \in 1..n : q[i] \in X <=> i <= m
  <2>1. \A j \in 1..m : j \in 1..n /\ j <= m
    BY <1>1
  <2>2. \A i \in 1..n : i <= m => i \in 1..m
    BY <1>1
  <2>3. X \subseteq Slots
    BY <1>1, <2>1
  <2>4. ASSUME NEW i \in 1..n
        PROVE  q[i] \in X <=> i <= m
    <3>1. ASSUME q[i] \in X
          PROVE  i <= m
      <4>1. PICK j \in 1..m : q[i] = q[j]
        BY <3>1
      <4>2. i = j
        BY <2>1, <4>1 DEF Linked
      <4> QED
        BY <2>1, <4>2
    <3> QED
      BY <2>2, <3>1
  <2> QED
    BY <2>3, <2>4
<1>5. \A i \in 1..n : /\ D[i] = D[i - 1] + timeout_diff[q[i]]
                      /\ D[i] \in 0..Timeout /\ D[i - 1] \in 0..Timeout
                      /\ timeout_diff[q[i]] \in 0..Timeout
  <2> TAKE i \in 1..n
  <2>1. i \in 0..n /\ i - 1 \in 0..n /\ q[i] \in Slots
    BY <1>1
  <2> QED
    BY <1>1, <2>1 DEF Linked
<1>6. m < n => /\ m + 1 \in 1..n /\ (m + 1) - 1 = m
               /\ D[m + 1] = D[m] + timeout_diff[q[m + 1]] /\ D[m + 1] >= Interval
               /\ D[m + 1] \in 0..Timeout /\ D[m] \in 0..Timeout
               /\ q[m + 1] \in Slots /\ timeout_diff[q[m + 1]] \in 0..Timeout
  <2> SUFFICES ASSUME m < n
               PROVE  /\ m + 1 \in 1..n /\ (m + 1) - 1 = m
                      /\ D[m + 1] = D[m] + timeout_diff[q[m + 1]] /\ D[m + 1] >= Interval
                      /\ D[m + 1] \in 0..Timeout /\ D[m] \in 0..Timeout
                      /\ q[m + 1] \in Slots /\ timeout_diff[q[m + 1]] \in 0..Timeout
    OBVIOUS
  <2>1. m + 1 \in 1..n /\ (m + 1) - 1 = m
    BY <1>1
  <2>2. D[m] = Interval \/ D[m + 1] > Interval
    BY DEF Expired
  <2>3. D[m + 1] = D[m] + timeout_diff[q[m + 1]] /\ timeout_diff[q[m + 1]] \in 0..Timeout
    BY <1>5, <2>1
  <2> QED
    BY <1>1, <2>1, <2>2, <2>3
<1>7. /\ d2 \in [Slots -> 0..Timeout]
      /\ \A s \in Slots : (m < n => s # q[m + 1]) => d2[s] = timeout_diff[s]
      /\ m < n => d2[q[m + 1]] = D[m + 1] - Interval
  <2>1. CASE m < n
    <3>1. d2 = [timeout_diff EXCEPT ![q[m + 1]] = @ - (Interval - D[m])]
      BY <2>1 DEF After
    <3>2. timeout_diff[q[m + 1]] - (Interval - D[m]) = D[m + 1] - Interval
      <4>1. ASSUME NEW a \in 0..Timeout, NEW b \in 0..Timeout
            PROVE  b - (Interval - a) = (a + b) - Interval
        BY <1>1
      <4> QED
        BY <1>6, <2>1, <4>1
    <3>3. D[m + 1] - Interval \in 0..Timeout
      BY <1>1, <1>6, <2>1, SMTT(30)
    <3> QED
      BY <1>1, <1>6, <2>1, <3>1, <3>2, <3>3
  <2>2. CASE ~(m < n)
    BY <1>1, <2>2 DEF After
  <2> QED
    BY <2>1, <2>2
<1> HIDE DEF X, d2
<1>8. Fields'
  <2>1. next' \in [Slots -> Slots \cup {NULL}] /\ pkt_id' \in [Slots -> PktIds]
    BY <1>1, <1>3 DEF Fields
  <2>2. timeout_diff' \in [Slots -> 0..Timeout]
    BY <1>1, <1>3, <1>7
  <2> QED
    BY <2>1, <2>2 DEF Fields
<1>9. \A i \in 1..(n - m) : /\ m + i \in 1..n /\ ~(m + i <= m) /\ q2[i] = q[m + i]
                            /\ (m + i = n <=> i = n - m)
                            /\ i # n - m => i + 1 \in 1..(n - m) /\ m + (i + 1) = (m + i) + 1
  BY <1>1 DEF Rest
<1>10. q2 \in [1..(n - m) -> Slots]
  BY <1>1, <1>9 DEF Rest
<1>11. \A i \in 1..(n - m) : D2[i] = D[m + i] - Interval
  BY <1>1 DEF RestDeadline
<1>12. D2[0] = 0
  BY <1>1 DEF RestDeadline
<1>13. D2 \in [0..(n - m) -> 0..Timeout]
  <2>1. ASSUME NEW i \in 1..(n - m)
        PROVE  D[m + i] - Interval \in 0..Timeout
    <3>1. m < n /\ m + 1 \in 0..n /\ m + i \in (m + 1)..n
      BY <1>1
    <3>2. D[m + 1] <= D[m + i]
      BY <3>1, LaterLess
    <3>3. D[m + i] \in 0..Timeout /\ D[m + 1] \in 0..Timeout /\ D[m + 1] >= Interval
      BY <1>1, <1>6, <3>1
    <3>4. ASSUME NEW a \in 0..Timeout, NEW b \in 0..Timeout, a >= Interval, a <= b
          PROVE  b - Interval \in 0..Timeout
      BY <1>1, <3>4
    <3> QED
      BY <3>2, <3>3, <3>4
  <2>2. ASSUME NEW i \in 0..(n - m)
        PROVE  (IF i = 0 THEN 0 ELSE D[m + i] - Interval) \in 0..Timeout
    <3>1. CASE i = 0
      BY <1>1, <3>1
    <3>2. CASE i # 0
      <4>1. i \in 1..(n - m)
        BY <1>1, <3>2
      <4> QED
        BY <2>1, <3>2, <4>1
    <3> QED
      BY <3>1, <3>2
  <2> QED
    BY <2>2 DEF RestDeadline
<1> HIDE DEF q2, D2
<1>14. ASSUME NEW i \in 1..(n - m), NEW j \in 1..(n - m), q2[i] = q2[j]
       PROVE  i = j
  <2>1. m + i = m + j
    BY <1>9, <1>14 DEF Linked
  <2> QED
    BY <1>1, <2>1
<1>15. pend_req_queue' = IF n - m = 0 THEN NULL ELSE q2[1]
  <2>1. CASE n - m = 0
    BY <1>1, <1>3, <2>1 DEF At
  <2>2. CASE n - m # 0
    <3>1. 1 \in 1..(n - m) /\ m + 1 <= n
      BY <1>1, <2>2
    <3> QED
      BY <1>3, <1>9, <2>2, <3>1 DEF At
  <2> QED
    BY <2>1, <2>2
<1>16. ASSUME NEW i \in 1..(n - m)
       PROVE  next'[q2[i]] = IF i = n - m THEN NULL ELSE q2[i + 1]
  <2>1. q[m + i] \in Slots /\ ~(q[m + i] \in X)
    BY <1>1, <1>4, <1>9
  <2>2. next[q[m + i]] = IF m + i = n THEN NULL ELSE q[(m + i) + 1]
    BY <1>9 DEF Linked
  <2> QED
    BY <1>3, <1>9, <2>1, <2>2
<1>17. ASSUME NEW s \in Slots, \A i \in 1..(n - m) : q2[i] # s
       PROVE  next'[s] = s
  <2>1. CASE s \in X
    BY <1>3, <2>1
  <2>2. CASE s \notin X
    <3>1. ASSUME NEW i \in 1..n
          PROVE  q[i] # s
      <4>1. CASE i <= m
        BY <1>4, <2>2, <4>1
      <4>2. CASE ~(i <= m)
        <5>1. i - m \in 1..(n - m) /\ m + (i - m) = i
          BY <1>1, <4>2
        <5> QED
          BY <1>9, <1>17, <5>1
      <4> QED
        BY <4>1, <4>2
    <3>2. next[s] = s
      BY <3>1 DEF Linked
    <3> QED
      BY <1>3, <2>2, <3>2
  <2> QED
    BY <2>1, <2>2
<1>18. ASSUME NEW i \in 1..(n - m)
       PROVE  D2[i] = D2[i - 1] + timeout_diff'[q2[i]]
  <2>1. q[m + i] \in Slots /\ ~(q[m + i] \in X) /\ q2[i] = q[m + i] /\ m + i \in 1..n /\ m < n
    BY <1>1, <1>4, <1>9
  <2>2. timeout_diff'[q2[i]] = d2[q[m + i]]
    BY <1>3, <2>1
  <2>3. CASE i = 1
    <3>1. D2[i - 1] = 0 /\ D2[i] = D[m + 1] - Interval
      BY <1>11, <1>12, <2>3
    <3>2. d2[q[m + i]] = D[m + 1] - Interval
      BY <1>7, <2>1, <2>3
    <3> QED
      BY <1>1, <1>6, <2>1, <2>2, <3>1, <3>2
  <2>4. CASE i # 1
    <3>1. i - 1 \in 1..(n - m) /\ m + (i - 1) = (m + i) - 1 /\ m + i # m + 1 /\ m + 1 \in 1..n
      BY <1>1, <2>1, <2>4
    <3>2. q[m + i] # q[m + 1]
      BY <2>1, <3>1 DEF Linked
    <3>3. d2[q[m + i]] = timeout_diff[q[m + i]]
      BY <1>7, <2>1, <3>2
    <3>4. D2[i] = D[m + i] - Interval /\ D2[i - 1] = D[(m + i) - 1] - Interval
      BY <1>11, <3>1
    <3>5. /\ D[m + i] = D[(m + i) - 1] + timeout_diff[q[m + i]]
          /\ D[m + i] \in 0..Timeout /\ D[(m + i) - 1] \in 0..Timeout
          /\ timeout_diff[q[m + i]] \in 0..Timeout
      BY <1>5, <2>1
    <3>6. ASSUME NEW a \in 0..Timeout, NEW b \in 0..Timeout
          PROVE  (a + b) - Interval = (a - Interval) + b
      BY <1>1
    <3>7. D2[i] = (D2[i - 1]) + timeout_diff[q[m + i]]
      BY <3>4, <3>5, <3>6
    <3> QED
      BY <2>2, <3>3, <3>7
  <2> QED
    BY <2>3, <2>4
<1>19. Linked(n - m, q2, D2)'
  BY <1>1, <1>10, <1>12, <1>13, <1>14, <1>15, <1>16, <1>17, <1>18 DEF Linked
<1> QED
  BY <1>8, <1>19 DEF q2, D2

-----------------------------------------------------------------------------
\* The invariant is inductive.
LEMMA InitIInv == Init => IInv
BY InitLinked DEF IInv

LEMMA NextIInv == IInv /\ [Next]_vars => IInv'
<1> SUFFICES ASSUME IInv, [Next]_vars
             PROVE  IInv'
  OBVIOUS
<1>1. PICK n, q, D : Linked(n, q, D)
  BY DEF IInv
<1>2. Fields
  BY DEF IInv
<1>3. ASSUME NEW id \in PktIds, Request(id)
      PROVE  IInv'
  BY <1>1, <1>2, <1>3, RequestLinked DEF IInv
<1>4. ASSUME NEW id \in PktIds, Take(id)
      PROVE  IInv'
  BY <1>1, <1>2, <1>4, TakeLinked DEF IInv
<1>5. CASE mqtt_request_time_elapsed
  BY <1>1, <1>2, <1>5, SomeExpire, ElapsedLinked DEF IInv
<1>6. CASE mqtt_clear_requests
  BY <1>2, <1>6, ClearLinked DEF IInv
<1>7. CASE UNCHANGED vars
  <2>1. Linked(n, q, D)'
    BY <1>1, <1>7 DEF Linked, vars
  <2>2. Fields'
    BY <1>2, <1>7 DEF Fields, vars
  <2> QED
    BY <2>1, <2>2 DEF IInv
<1> QED
  BY <1>3, <1>4, <1>5, <1>6, <1>7 DEF Next

\* The invariant holds in every state.
THEOREM Linkage == Spec => []IInv
<1>1. Init => IInv
  BY InitIInv
<1>2. IInv /\ [Next]_vars => IInv'
  BY NextIInv
<1> QED
  BY <1>1, <1>2, PTL DEF Spec

\* It implies that the chain is sound.
LEMMA IInvSound == IInv => ChainIsSound
<1> SUFFICES ASSUME IInv
             PROVE  ChainIsSound
  OBVIOUS
<1>1. PICK n, q, D : Linked(n, q, D)
  BY DEF IInv
<1>2. /\ n \in Nat /\ n <= N /\ N \in Nat /\ q \in [1..n -> Slots]
      /\ D \in [0..n -> 0..Timeout] /\ Timeout \in Nat /\ NULL \notin Slots
  BY <1>1, LinkedTypes, Sizes
<1>3. TypeOK
  <2>1. pend_req_queue \in Slots \cup {NULL}
    <3>1. n # 0 => 1 \in 1..n
      BY <1>2
    <3> QED
      BY <1>1, <1>2, <3>1 DEF Linked
  <2>2. Deadline[N] = D[n] /\ n \in 0..n /\ N \in 0..N
    <3>1. N \in 0..N /\ n \in 0..n /\ (N <= n => N = n)
      BY <1>2
    <3> QED
      BY <1>1, <3>1, DeadlineIs
  <2>3. D[n] \in 0..Timeout
    BY <1>2, <2>2
  <2>4. Deadline[N] <= Timeout
    BY <1>2, <2>2, <2>3
  <2> QED
    BY <2>1, <2>4 DEF IInv, Fields, TypeOK
<1>4. InUse = {Chain[i] : i \in {j \in Slots : Chain[j] # NULL}}
  <2>1. {j \in Slots : Chain[j] # NULL} = 1..n
    <3>1. Chain = [i \in 1..N |-> IF i <= n THEN q[i] ELSE NULL]
      BY <1>1, ChainIs
    <3>2. \A j \in 1..N : Chain[j] # NULL <=> j \in 1..n
      BY <1>2, <3>1
    <3>3. 1..n \subseteq 1..N
      BY <1>2
    <3> QED
      BY <3>2, <3>3 DEF Slots
  <2>2. \A i \in 1..n : Chain[i] = q[i]
    BY <1>1, <1>2, ChainIs
  <2>3. InUse = {q[i] : i \in 1..n}
    BY <1>1, InUseIs
  <2> QED
    BY <2>1, <2>2, <2>3
<1>5. Length = Cardinality(InUse)
  BY <1>1, LengthIs, CountIs
<1> QED
  BY <1>3, <1>4, <1>5 DEF ChainIsSound

\* No request object is leaked or handed out twice, whatever is taken, times
\* out or is appended, and the sum of the differences stays within
\* MQTT_REQ_TIMEOUT, which mqtt_append_request asserts.
THEOREM Soundness == Spec => []ChainIsSound
BY Linkage, IInvSound, PTL

-----------------------------------------------------------------------------
\* The deadlines as RequestDeadlines sees them.
Left == [s \in Slots |-> IF s \in Unused THEN NULL ELSE Deadline[Position(s)]]

LeftMatches(n, q, D) ==
  /\ Left = [s \in Slots |-> Left[s]]
  /\ \A s \in Slots : (\A i \in 1..n : q[i] # s) => Left[s] = NULL
  /\ \A i \in 1..n : Left[q[i]] = D[i]

\* The chain's deadlines are those RequestDeadlines sees, in this state and in
\* the next one.
LEMMA LeftIs == \A n, q, D : Linked(n, q, D) => LeftMatches(n, q, D)
<1> SUFFICES ASSUME NEW n, NEW q, NEW D, Linked(n, q, D)
             PROVE  LeftMatches(n, q, D)
  OBVIOUS
<1>1. /\ n \in Nat /\ n <= N /\ N \in Nat /\ q \in [1..n -> Slots]
  BY LinkedTypes
<1>2. \A s \in Slots : (\A i \in 1..n : q[i] # s) => Left[s] = NULL
  BY InUseIs DEF Left
<1>3. ASSUME NEW i \in 1..n
      PROVE  Left[q[i]] = D[i]
  <2>1. q[i] \in Slots /\ q[i] \notin Unused
    BY <1>1, InUseIs
  <2>2. Position(q[i]) = i
    BY PositionIs
  <2>3. i \in 0..N /\ i <= n
    BY <1>1
  <2>4. Deadline = [j \in 0..N |-> IF j <= n THEN D[j] ELSE D[n]]
    BY DeadlineIs
  <2>5. Deadline[i] = D[i]
    BY <2>3, <2>4
  <2> QED
    BY <2>1, <2>2, <2>5 DEF Left
<1>4. Left = [s \in Slots |-> Left[s]]
  BY DEF Left
<1> QED
  BY <1>2, <1>3, <1>4 DEF LeftMatches

LEMMA LeftIsNext == (\A n, q, D : Linked(n, q, D) => LeftMatches(n, q, D))'
BY LeftIs, PTL

\* What a deadline is: that of a request, or none.
LEMMA EachLeft ==
  ASSUME NEW n, NEW q, NEW D, Linked(n, q, D), NEW s \in Slots
  PROVE  \/ (\A i \in 1..n : q[i] # s) /\ Left[s] = NULL
         \/ \E i \in 1..n : q[i] = s /\ Left[s] = D[i] /\ Left[s] # NULL
<1>1. LeftMatches(n, q, D)
  BY LeftIs
<1>2. CASE \A i \in 1..n : q[i] # s
  BY <1>1, <1>2 DEF LeftMatches
<1>3. CASE \E i \in 1..n : q[i] = s
  <2>1. PICK i \in 1..n : q[i] = s
    BY <1>3
  <2>2. Left[s] = D[i]
    BY <1>1, <2>1 DEF LeftMatches
  <2>3. D[i] \in Nat
    BY LinkedTypes, Sizes
  <2> QED
    BY <2>1, <2>2, <2>3, Sizes
<1> QED
  BY <1>2, <1>3

\* Each action, as RequestDeadlines sees it.
LEMMA InitLeft == Init => Deadlines!Init
<1> SUFFICES ASSUME Init
             PROVE  Deadlines!Init
  OBVIOUS
<1>1. Linked(0, Empty, NoDeadline)
  BY InitLinked
<1>2. \A s \in Slots : \A i \in 1..0 : Empty[i] # s
  OBVIOUS
<1>3. LeftMatches(0, Empty, NoDeadline)
  BY <1>1, LeftIs
<1>4. Left = [s \in Slots |-> NULL]
  BY <1>2, <1>3 DEF LeftMatches
<1> QED
  BY <1>4 DEF Deadlines!Init, Left

LEMMA RequestLeft ==
  ASSUME IInv, NEW id \in PktIds, Request(id)
  PROVE  \E s \in Slots : Left[s] = NULL /\ Left' = [Left EXCEPT ![s] = Timeout]
<1>1. PICK n, q, D : Linked(n, q, D)
  BY DEF IInv
<1>2. PICK r \in Unused : Linked(n + 1, Put(n, q, r), PutDeadline(n, D))'
  BY <1>1, RequestLinked DEF IInv
<1>3. LeftMatches(n, q, D)
  BY <1>1, LeftIs
<1>4. LeftMatches(n + 1, Put(n, q, r), PutDeadline(n, D))'
  BY <1>2, LeftIsNext
<1>5. n \in Nat /\ r \in Slots /\ \A i \in 1..n : q[i] # r
  BY <1>1, LinkedTypes, InUseIs DEF Unused
<1> DEFINE q2 == Put(n, q, r)
           D2 == PutDeadline(n, D)
<1>6. /\ n + 1 \in 1..(n + 1) /\ q2[n + 1] = r /\ D2[n + 1] = Timeout
      /\ \A i \in 1..n : i \in 1..(n + 1) /\ q2[i] = q[i] /\ D2[i] = D[i]
      /\ \A i \in 1..(n + 1) : i \in 1..n \/ i = n + 1
  BY <1>5 DEF Put, PutDeadline
<1> HIDE DEF q2, D2
<1>7. LeftMatches(n + 1, q2, D2)'
  BY <1>4 DEF q2, D2
<1>8. Left'[r] = Timeout
  BY <1>6, <1>7 DEF LeftMatches
<1>9. ASSUME NEW s \in Slots, s # r
      PROVE  Left'[s] = Left[s]
  <2>1. CASE \E i \in 1..n : q[i] = s
    BY <1>3, <1>6, <1>7, <2>1 DEF LeftMatches
  <2>2. CASE \A i \in 1..n : q[i] # s
    <3>1. \A i \in 1..(n + 1) : q2[i] # s
      BY <1>6, <1>9, <2>2
    <3> QED
      BY <1>3, <1>7, <2>2, <3>1 DEF LeftMatches
  <2> QED
    BY <2>1, <2>2
<1>10. Left = [s \in Slots |-> Left[s]] /\ Left' = [s \in Slots |-> Left'[s]]
  BY <1>3, <1>7 DEF LeftMatches
<1>11. Left' = [Left EXCEPT ![r] = Timeout]
  BY <1>5, <1>8, <1>9, <1>10
<1>12. Left[r] = NULL
  BY <1>3, <1>5 DEF LeftMatches
<1> QED
  BY <1>5, <1>11, <1>12

LEMMA TakeLeft ==
  ASSUME IInv, NEW id \in PktIds, Take(id)
  PROVE  \E t \in Slots :
           Left[t] # NULL /\ Left' = [s \in Slots |-> IF s = t THEN NULL ELSE Left[s]]
<1>1. PICK n, q, D : Linked(n, q, D)
  BY DEF IInv
<1>2. PICK p \in 1..n : Linked(n - 1, Cut(n, q, p), CutDeadline(n, D, p))'
  BY <1>1, TakeLinked DEF IInv
<1>3. LeftMatches(n, q, D)
  BY <1>1, LeftIs
<1> DEFINE q2 == Cut(n, q, p)
           D2 == CutDeadline(n, D, p)
<1>4. LeftMatches(n - 1, q2, D2)'
  BY <1>2, LeftIsNext
<1>5. n \in Nat /\ q \in [1..n -> Slots] /\ q[p] \in Slots
  BY <1>1, LinkedTypes
<1>6. \A i \in 1..(n - 1) :
        \/ i < p /\ i \in 1..n /\ q2[i] = q[i] /\ D2[i] = D[i]
        \/ ~(i < p) /\ i + 1 \in 1..n /\ i + 1 > p /\ q2[i] = q[i + 1] /\ D2[i] = D[i + 1]
  BY <1>5 DEF Cut, CutDeadline
<1>7. \A i \in 1..n : i # p => \E j \in 1..(n - 1) : q2[j] = q[i] /\ D2[j] = D[i]
  <2> SUFFICES ASSUME NEW i \in 1..n, i # p
               PROVE  \E j \in 1..(n - 1) : q2[j] = q[i] /\ D2[j] = D[i]
    OBVIOUS
  <2>1. CASE i < p
    <3>1. i \in 1..(n - 1)
      BY <1>5, <2>1
    <3> QED
      BY <1>6, <2>1, <3>1
  <2>2. CASE i > p
    <3>1. i - 1 \in 1..(n - 1) /\ ~(i - 1 < p) /\ (i - 1) + 1 = i
      BY <1>5, <2>2
    <3> QED
      BY <1>6, <3>1
  <2> QED
    BY <1>5, <2>1, <2>2
<1> HIDE DEF q2, D2
<1>8. ASSUME NEW i \in 1..(n - 1)
      PROVE  q2[i] # q[p]
  <2>1. \A k \in 1..n : q[k] = q[p] => k = p
    BY <1>1 DEF Linked
  <2> QED
    BY <1>5, <1>6, <2>1
<1>9. Left'[q[p]] = NULL
  BY <1>4, <1>5, <1>8 DEF LeftMatches
<1>10. ASSUME NEW s \in Slots, s # q[p]
       PROVE  Left'[s] = Left[s]
  <2>1. CASE \E i \in 1..n : q[i] = s
    <3>1. PICK i \in 1..n : q[i] = s
      BY <2>1
    <3>2. PICK j \in 1..(n - 1) : q2[j] = q[i] /\ D2[j] = D[i]
      BY <1>7, <1>10, <3>1
    <3> QED
      BY <1>3, <1>4, <3>1, <3>2 DEF LeftMatches
  <2>2. CASE \A i \in 1..n : q[i] # s
    <3>1. \A i \in 1..(n - 1) : q2[i] # s
      BY <1>6, <2>2
    <3> QED
      BY <1>3, <1>4, <2>2, <3>1 DEF LeftMatches
  <2> QED
    BY <2>1, <2>2
<1>11. Left' = [s \in Slots |-> Left'[s]]
  BY <1>4 DEF LeftMatches
<1>12. Left' = [s \in Slots |-> IF s = q[p] THEN NULL ELSE Left[s]]
  BY <1>9, <1>10, <1>11
<1>13. Left[q[p]] # NULL
  BY <1>1, <1>5, EachLeft
<1> QED
  BY <1>5, <1>12, <1>13

LEMMA ElapsedLeft ==
  ASSUME IInv, mqtt_request_time_elapsed
  PROVE  \E X \in SUBSET {s \in Slots : Left[s] # NULL} :
           /\ \A s \in Slots : Left[s] # NULL /\ Left[s] < Interval => s \in X
           /\ \A s \in X : Left[s] <= Interval
           /\ Left' = [s \in Slots |-> IF s \in X \/ Left[s] = NULL THEN NULL
                                       ELSE Left[s] - Interval]
<1>1. PICK n, q, D : Linked(n, q, D)
  BY DEF IInv
<1>2. Fields
  BY DEF IInv
<1>3. PICK m : Expired(n, D, m)
  BY <1>1, SomeExpire
<1> DEFINE q2 == Rest(n, q, m)
           D2 == RestDeadline(n, D, m)
           X  == {q[i] : i \in 1..m}
<1>4. Linked(n - m, q2, D2)'
  BY <1>1, <1>2, <1>3, ElapsedLinked
<1>5. LeftMatches(n, q, D)
  BY <1>1, LeftIs
<1>6. LeftMatches(n - m, q2, D2)'
  BY <1>4, LeftIsNext
<1>7. /\ n \in Nat /\ q \in [1..n -> Slots] /\ D \in [0..n -> 0..Timeout]
      /\ m \in 0..n /\ Interval \in Nat /\ Timeout \in Nat /\ NULL \notin Nat
      /\ D[m] <= Interval /\ (m < n => D[m] = Interval \/ D[m + 1] > Interval)
  BY <1>1, <1>3, LinkedTypes, Sizes DEF Expired
<1>8. \A i \in 1..(n - m) : m + i \in 1..n /\ q2[i] = q[m + i] /\ D2[i] = D[m + i] - Interval
  BY <1>7 DEF Rest, RestDeadline
<1> HIDE DEF q2, D2
<1>9. ASSUME NEW i \in 1..n
      PROVE  /\ q[i] \in X <=> i <= m
             /\ D[i] < Interval => i <= m
             /\ i <= m => D[i] <= Interval
             /\ D[i] \in Nat /\ Left[q[i]] = D[i]
  <2>1. q[i] \in X <=> i <= m
    <3>1. ASSUME NEW j \in 1..m, q[i] = q[j]
          PROVE  i = j
      <4>1. j \in 1..n
        BY <1>7
      <4> QED
        BY <1>1, <3>1, <4>1 DEF Linked
    <3>2. i <= m => i \in 1..m
      BY <1>7
    <3> QED
      BY <1>7, <3>1, <3>2
  <2>2. i \in 0..n /\ D[i] \in Nat /\ D[m] \in Nat
    BY <1>7
  <2>3. i <= m => D[i] <= Interval
    <3>1. CASE i <= m
      <4>1. m \in i..n
        BY <1>7, <3>1
      <4>2. D[i] <= D[m]
        BY <1>1, <1>2, <2>2, <4>1, LaterLess
      <4> QED
        BY <1>7, <2>2, <4>2
    <3> QED
      BY <3>1
  <2>4. D[i] < Interval => i <= m
    <3>1. CASE ~(i <= m)
      <4>1. i \in m..n /\ m + 1 \in 0..n /\ i \in (m + 1)..n /\ m < n
        BY <1>7, <3>1
      <4>2. D[m] <= D[i] /\ D[m + 1] <= D[i]
        BY <1>1, <1>2, <1>7, <4>1, LaterLess
      <4>3. D[m + 1] \in Nat
        BY <1>7, <4>1
      <4> QED
        BY <1>7, <2>2, <4>1, <4>2, <4>3
    <3> QED
      BY <3>1
  <2>5. Left[q[i]] = D[i]
    BY <1>5 DEF LeftMatches
  <2> QED
    BY <2>1, <2>2, <2>3, <2>4, <2>5
<1>10. X \subseteq Slots /\ \A s \in X : \E i \in 1..n : s = q[i] /\ i <= m
  <2>1. \A i \in 1..m : i \in 1..n /\ i <= m
    BY <1>7
  <2> QED
    BY <1>7, <2>1
<1> HIDE DEF X
<1>11. X \in SUBSET {s \in Slots : Left[s] # NULL}
  BY <1>7, <1>9, <1>10
<1>12. ASSUME NEW s \in Slots, Left[s] # NULL, Left[s] < Interval
       PROVE  s \in X
  BY <1>1, <1>9, <1>12, EachLeft
<1>13. ASSUME NEW s \in X
       PROVE  Left[s] <= Interval
  BY <1>9, <1>10, <1>13
<1>14. ASSUME NEW s \in Slots
       PROVE  Left'[s] = IF s \in X \/ Left[s] = NULL THEN NULL ELSE Left[s] - Interval
  <2>1. CASE \A i \in 1..n : q[i] # s
    <3>1. \A i \in 1..(n - m) : q2[i] # s
      BY <1>8, <2>1
    <3>2. Left'[s] = NULL /\ Left[s] = NULL
      BY <1>5, <1>6, <2>1, <3>1 DEF LeftMatches
    <3> QED
      BY <3>2
  <2>2. CASE \E i \in 1..n : q[i] = s
    <3>1. PICK i \in 1..n : q[i] = s
      BY <2>2
    <3>2. CASE i <= m
      <4>1. ASSUME NEW j \in 1..(n - m)
            PROVE  q2[j] # s
        <5>1. m + j \in 1..n /\ m + j # i /\ q2[j] = q[m + j]
          BY <1>7, <1>8, <3>2
        <5> QED
          BY <1>1, <3>1, <5>1 DEF Linked
      <4>2. Left'[s] = NULL
        BY <1>6, <4>1 DEF LeftMatches
      <4> QED
        BY <1>9, <3>1, <3>2, <4>2
    <3>3. CASE ~(i <= m)
      <4>1. i - m \in 1..(n - m) /\ m + (i - m) = i
        BY <1>7, <3>3
      <4>2. q2[i - m] = s /\ D2[i - m] = D[i] - Interval
        BY <1>8, <3>1, <4>1
      <4>3. Left'[s] = D[i] - Interval
        BY <1>6, <4>1, <4>2 DEF LeftMatches
      <4>4. s \notin X /\ Left[s] = D[i] /\ Left[s] # NULL
        BY <1>7, <1>9, <3>1, <3>3
      <4> QED
        BY <4>3, <4>4
    <3> QED
      BY <3>2, <3>3
  <2> QED
    BY <2>1, <2>2
<1>15. Left' = [s \in Slots |-> Left'[s]]
  BY <1>6 DEF LeftMatches
<1>16. Left' = [s \in Slots |-> IF s \in X \/ Left[s] = NULL THEN NULL
                                ELSE Left[s] - Interval]
  BY <1>14, <1>15
<1> QED
  BY <1>11, <1>12, <1>13, <1>16

\* Every step of the queue is one of RequestDeadlines, or moves no deadline.
LEMMA NextLeft == IInv /\ [Next]_vars => [Deadlines!Next]_Left
<1> SUFFICES ASSUME IInv, [Next]_vars
             PROVE  Deadlines!Next \/ Left' = Left
  OBVIOUS
<1>1. Deadlines!Pending = {s \in Slots : Left[s] # NULL}
  BY DEF Deadlines!Pending, Left
<1>2. ASSUME NEW id \in PktIds, Request(id)
      PROVE  Deadlines!Next
  <2>1. PICK s \in Slots : Left[s] = NULL /\ Left' = [Left EXCEPT ![s] = Timeout]
    BY <1>2, RequestLeft
  <2>2. Deadlines!Request
    BY <1>1, <2>1 DEF Deadlines!Request, Left
  <2> QED
    BY <2>2 DEF Deadlines!Next
<1>3. ASSUME NEW id \in PktIds, Take(id)
      PROVE  Deadlines!Next
  <2>1. PICK t \in Slots :
          Left[t] # NULL /\ Left' = [s \in Slots |-> IF s = t THEN NULL ELSE Left[s]]
    BY <1>3, TakeLeft
  <2>2. {t} \in SUBSET Deadlines!Pending
    BY <1>1, <2>1
  <2>3. Left' = [s \in Slots |-> IF s \in {t} THEN NULL ELSE Left[s]]
    BY <2>1
  <2>4. Deadlines!End
    BY <2>2, <2>3 DEF Deadlines!End, Left
  <2> QED
    BY <2>4 DEF Deadlines!Next
<1>4. CASE mqtt_request_time_elapsed
  <2>1. PICK X \in SUBSET {s \in Slots : Left[s] # NULL} :
          /\ \A s \in Slots : Left[s] # NULL /\ Left[s] < Interval => s \in X
          /\ \A s \in X : Left[s] <= Interval
          /\ Left' = [s \in Slots |-> IF s \in X \/ Left[s] = NULL THEN NULL
                                      ELSE Left[s] - Interval]
    BY <1>4, ElapsedLeft
  <2>2. Deadlines!Tick
    BY <1>1, <2>1 DEF Deadlines!Tick, Left
  <2> QED
    BY <2>2 DEF Deadlines!Next
<1>5. CASE mqtt_clear_requests
  <2>1. Linked(0, Empty, NoDeadline)'
    BY <1>5, ClearLinked DEF IInv
  <2>2. LeftMatches(0, Empty, NoDeadline)'
    BY <2>1, LeftIsNext
  <2>3. \A s \in Slots : \A i \in 1..0 : Empty[i] # s
    OBVIOUS
  <2>4. Left' = [s \in Slots |-> NULL]
    BY <2>2, <2>3 DEF LeftMatches
  <2>5. Left' = [s \in Slots |-> IF s \in Deadlines!Pending THEN NULL ELSE Left[s]]
    BY <1>1, <2>4
  <2>6. Deadlines!End
    BY <2>5 DEF Deadlines!End, Left
  <2> QED
    BY <2>6 DEF Deadlines!Next
<1>6. CASE UNCHANGED vars
  <2>1. PICK n, q, D : Linked(n, q, D)
    BY DEF IInv
  <2>2. Linked(n, q, D)'
    BY <1>6, <2>1 DEF Linked, vars
  <2>3. LeftMatches(n, q, D) /\ LeftMatches(n, q, D)'
    BY <2>1, <2>2, LeftIs, LeftIsNext
  <2>4. ASSUME NEW s \in Slots
        PROVE  Left'[s] = Left[s]
    BY <2>3 DEF LeftMatches
  <2>5. Left = [s \in Slots |-> Left[s]] /\ Left' = [s \in Slots |-> Left'[s]]
    BY <2>3 DEF LeftMatches
  <2> QED
    BY <2>4, <2>5
<1> QED
  BY <1>2, <1>3, <1>4, <1>5, <1>6 DEF Next

\* The queue keeps the promise of RequestDeadlines but for its fairness: no
\* request, timeout or acknowledgement moves the deadline of another request,
\* and none times out before its own.
THEOREM StepsKeepDeadlines == Spec => Deadlines!Init /\ [][Deadlines!Next]_Left
<1>1. Init => Deadlines!Init
  BY InitLeft
<1>2. IInv /\ [Next]_vars => [Deadlines!Next]_Left
  BY NextLeft
<1> QED
  BY <1>1, <1>2, Linkage, PTL DEF Spec
=============================================================================
