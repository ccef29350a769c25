--------------------------- MODULE NetClockProofs ---------------------------
(***************************************************************************)
(* Proofs about NetClock, for every interval, every width of the counter   *)
(* and every length of a turn below it.                                    *)
(***************************************************************************)
EXTENDS NetClock, TLAPS

\* Before the counter wraps around nothing lies in the future; always, what
\* the counter shows is no more than the time that has gone by.
IInv ==
  /\ TypeOK
  /\ ~wrapped => \A b \in Branch : last[b] <= uwTick
  /\ ~wrapped => waited <= uwTick - last[branch]
  /\ OnTime
  /\ \A b \in Branch : Capped(Shown(b)) <= since[b]

\* An interval is below the bound of the history and below the counter's.
LEMMA IntervalType ==
  \A b \in Branch : Interval(b) \in Nat /\ Interval(b) < Wrap /\ Interval(b) < Cap
BY ClockAssumption DEF Branch, Interval, Cap

\* Nothing lies between a number and itself.
LEMMA NoDifference ==
  ASSUME NEW x \in Int, NEW y, y = x
  PROVE  y \in Int /\ y <= x /\ x - y = 0 /\ 0 <= x - y
OBVIOUS

\* The counter, d ms later, is d further on or has wrapped around.
LEMMA PlusType ==
  ASSUME NEW a \in 0..(Wrap - 1), NEW d \in Nat, d < Wrap
  PROVE  /\ Plus(a, d) \in 0..(Wrap - 1)
         /\ Plus(a, d) = a + d \/ (a + d >= Wrap /\ Plus(a, d) = a + d - Wrap)
BY ClockAssumption DEF Plus

\* The strengthened invariant holds at the start.
LEMMA InitInv == Init => IInv
<1> SUFFICES ASSUME Init
             PROVE  IInv
  OBVIOUS
<1>1. /\ uwTick \in Nat /\ uwTick < Wrap /\ Cap \in Nat
      /\ last = [b \in Branch |-> 0] /\ branch = "retry" /\ branch \in Branch
      /\ waited = 0 /\ wrapped \in BOOLEAN
      /\ \A b \in Branch : since[b] = Capped(uwTick)
  <2>1. uwTick \in Nat /\ uwTick < Wrap /\ Cap \in Nat
    BY ClockAssumption DEF Init, Cap
  <2>2. /\ last = [b \in Branch |-> 0] /\ branch = "retry" /\ branch \in Branch
        /\ waited = 0
    BY DEF Init, Branch
  <2>3. wrapped \in BOOLEAN
    BY DEF Init
  <2>4. \A b \in Branch : since[b] = Capped(uwTick)
    BY DEF Init
  <2> QED
    BY <2>1, <2>2, <2>3, <2>4
<1>2. Capped(uwTick) \in 0..Cap
  BY <1>1 DEF Capped
<1>3. TypeOK
  BY <1>1, <1>2, ClockAssumption DEF Init, TypeOK
<1>4. \A b \in Branch : last[b] = 0 /\ Shown(b) = uwTick
  BY <1>1 DEF Shown
<1>5. OnTime
  BY <1>1, IntervalType DEF OnTime
<1>6. \A b \in Branch : Capped(Shown(b)) <= since[b]
  BY <1>1, <1>2, <1>4
<1> QED
  BY <1>1, <1>3, <1>4, <1>5, <1>6 DEF IInv

\* What a turn that does not act leaves.
LEMMA SkipInv ==
  ASSUME IInv, NEW b \in Branch, NEW d \in 1..MaxTurn, Turn(b, d), Skip(b, d)
  PROVE  IInv'
<1>1. d \in Nat /\ d < Wrap /\ uwTick \in 0..(Wrap - 1)
  BY ClockAssumption DEF IInv, TypeOK
<1>2. /\ uwTick' \in 0..(Wrap - 1)
      /\ \/ uwTick' = uwTick + d /\ (~wrapped' => ~wrapped)
         \/ uwTick' = uwTick + d - Wrap /\ wrapped'
  <2>1. uwTick' = Plus(uwTick, d) /\ (wrapped' <=> (wrapped \/ uwTick + d >= Wrap))
    BY DEF Turn
  <2> QED
    BY <1>1, <2>1, ClockAssumption DEF Plus
<1>3. last' = last /\ branch' = b
  BY DEF Turn, Skip
<1>4. TypeOK'
  <2>1. since' \in [Branch -> 0..Cap]
    BY <1>1, ClockAssumption DEF Skip, Capped, Cap, IInv, TypeOK
  <2>2. waited' \in 0..Cap
    BY <1>1, ClockAssumption DEF Skip, Capped, Cap, IInv, TypeOK
  <2>3. last' \in [Branch -> 0..(Wrap - 1)] /\ branch' \in Branch
    BY <1>3 DEF IInv, TypeOK
  <2>4. wrapped' \in BOOLEAN
    BY DEF Turn
  <2> QED
    BY <1>2, <2>1, <2>2, <2>3, <2>4 DEF TypeOK
<1>5. (~wrapped => \A o \in Branch : last[o] <= uwTick)'
  BY <1>1, <1>2, <1>3 DEF IInv, TypeOK
<1>6. (~wrapped => waited <= uwTick - last[branch])'
  <2> SUFFICES ASSUME ~wrapped'
               PROVE  waited' <= uwTick' - last[b]
    BY <1>3
  <2>1. uwTick' = uwTick + d /\ ~wrapped
    BY <1>2
  <2>2. last[b] \in Nat /\ last[b] <= uwTick /\ waited \in Nat
    BY <2>1 DEF IInv, TypeOK
  <2>3. b = branch => waited <= uwTick - last[b]
    BY <2>1 DEF IInv
  <2>4. Cap \in Nat
    BY ClockAssumption DEF Cap
  <2> QED
    BY <1>1, <2>1, <2>2, <2>3, <2>4 DEF Skip, Capped
<1>7. OnTime'
  <2> SUFFICES ASSUME ~wrapped'
               PROVE  waited' <= Interval(b)
    BY <1>3 DEF OnTime
  <2>1. waited' \in Nat /\ waited' <= uwTick' - last[b] /\ last[b] <= uwTick'
    BY <1>3, <1>4, <1>5, <1>6 DEF TypeOK
  <2>2. last[b] \in 0..(Wrap - 1) /\ Interval(b) \in Nat /\ Interval(b) < Wrap
    BY IntervalType DEF IInv, TypeOK
  <2>3. ~(Plus(last[b], Interval(b)) < uwTick')
    BY DEF Skip, Due
  <2> QED
    BY <1>2, <2>1, <2>2, <2>3, ClockAssumption DEF Plus
<1>8. (\A o \in Branch : Capped(Shown(o)) <= since[o])'
  <2> SUFFICES ASSUME NEW o \in Branch
               PROVE  Capped(Shown(o)') <= since'[o]
    BY DEF Capped, Shown, Cap
  <2>1. last[o] \in 0..(Wrap - 1) /\ since[o] \in 0..Cap /\ Cap \in Nat /\ Wrap \in Nat
    BY ClockAssumption DEF IInv, TypeOK, Cap
  <2>2. Shown(o)' = IF last[o] <= uwTick' THEN uwTick' - last[o] ELSE uwTick' - last[o] + Wrap
    BY <1>3 DEF Shown
  <2>3. Shown(o) \in Nat /\ Shown(o)' \in Nat /\ Shown(o)' <= Shown(o) + d
    BY <1>1, <1>2, <2>1, <2>2 DEF Shown
  <2>4. Capped(Shown(o)) <= since[o] /\ since'[o] = Capped(since[o] + d)
    BY DEF IInv, Skip
  <2> QED
    BY <1>1, <2>1, <2>3, <2>4 DEF Capped
<1> QED
  BY <1>4, <1>5, <1>6, <1>7, <1>8 DEF IInv

\* What a turn that acts leaves.
LEMMA ActInv ==
  ASSUME IInv, NEW b \in Branch, NEW d \in 1..MaxTurn, Turn(b, d), Act(b, d)
  PROVE  IInv'
<1>1. d \in Nat /\ d < Wrap /\ uwTick \in 0..(Wrap - 1)
  BY ClockAssumption DEF IInv, TypeOK
<1>2. /\ uwTick' \in 0..(Wrap - 1)
      /\ \/ uwTick' = uwTick + d /\ (~wrapped' => ~wrapped)
         \/ uwTick' = uwTick + d - Wrap /\ wrapped'
  <2>1. uwTick' = Plus(uwTick, d) /\ (wrapped' <=> (wrapped \/ uwTick + d >= Wrap))
    BY DEF Turn
  <2> QED
    BY <1>1, <2>1, ClockAssumption DEF Plus
<1>3. /\ last' = [last EXCEPT ![b] = uwTick'] /\ last'[b] = uwTick'
      /\ \A o \in Branch : o # b => last'[o] = last[o]
      /\ branch' = b /\ waited' = 0
  BY DEF Turn, Act, IInv, TypeOK
<1>4. TypeOK'
  <2>1. since' \in [Branch -> 0..Cap]
    BY <1>1, ClockAssumption DEF Act, Capped, Cap, IInv, TypeOK
  <2>2. waited' \in 0..Cap
    BY <1>3, ClockAssumption DEF Cap
  <2>3. last' \in [Branch -> 0..(Wrap - 1)] /\ branch' \in Branch
    BY <1>2, <1>3 DEF IInv, TypeOK
  <2>4. wrapped' \in BOOLEAN
    BY DEF Turn
  <2> QED
    BY <1>2, <2>1, <2>2, <2>3, <2>4 DEF TypeOK
<1>5. (~wrapped => \A o \in Branch : last[o] <= uwTick)'
  BY <1>1, <1>2, <1>3 DEF IInv, TypeOK
<1>6. (~wrapped => waited <= uwTick - last[branch])'
  <2>1. waited' = 0 /\ last'[branch'] = uwTick' /\ uwTick' \in Int
    BY <1>2, <1>3, ClockAssumption
  <2>2. 0 <= uwTick' - last'[branch']
    BY <2>1, NoDifference
  <2> QED
    BY <2>1, <2>2
<1>7. OnTime'
  BY <1>3, IntervalType DEF OnTime
<1>8. (\A o \in Branch : Capped(Shown(o)) <= since[o])'
  <2> SUFFICES ASSUME NEW o \in Branch
               PROVE  Capped(Shown(o)') <= since'[o]
    BY DEF Capped, Shown, Cap
  <2>1. last[o] \in 0..(Wrap - 1) /\ since[o] \in 0..Cap /\ Cap \in Nat /\ Wrap \in Nat
    BY ClockAssumption DEF IInv, TypeOK, Cap
  <2>2. CASE o = b
    <3>1. Shown(o)' = 0
      <4>1. last'[o] = uwTick' /\ uwTick' \in Int
        BY <1>2, <1>3, <2>2, ClockAssumption
      <4>2. last'[o] <= uwTick' /\ uwTick' - last'[o] = 0
        BY <4>1, NoDifference
      <4> QED
        BY <4>2 DEF Shown
    <3>2. since'[o] = 0
      BY <2>2 DEF Act
    <3> QED
      BY <2>1, <3>1, <3>2 DEF Capped
  <2>3. CASE o # b
    <3>1. Shown(o)' = IF last[o] <= uwTick' THEN uwTick' - last[o] ELSE uwTick' - last[o] + Wrap
      BY <1>3, <2>3 DEF Shown
    <3>2. Shown(o) \in Nat /\ Shown(o)' \in Nat /\ Shown(o)' <= Shown(o) + d
      BY <1>1, <1>2, <2>1, <3>1 DEF Shown
    <3>3. Capped(Shown(o)) <= since[o] /\ since'[o] = Capped(since[o] + d)
      BY <2>3 DEF IInv, Act
    <3> QED
      BY <1>1, <2>1, <3>2, <3>3 DEF Capped
  <2> QED
    BY <2>2, <2>3
<1> QED
  BY <1>4, <1>5, <1>6, <1>7, <1>8 DEF IInv

\* Every step keeps the strengthened invariant.
LEMMA NextInv == IInv /\ [Next]_vars => IInv'
<1> SUFFICES ASSUME IInv, [Next]_vars
             PROVE  IInv'
  OBVIOUS
<1>1. ASSUME NEW b \in Branch, NEW d \in 1..MaxTurn, Turn(b, d)
      PROVE  IInv'
  BY <1>1, ActInv, SkipInv DEF Turn
<1>2. CASE UNCHANGED vars
  BY <1>2 DEF vars, IInv, TypeOK, OnTime, Shown
<1> QED
  BY <1>1, <1>2 DEF Next

\* The strengthened invariant is one.
THEOREM ClockInvariance == Spec => []IInv
<1> QED
  BY InitInv, NextInv, PTL DEF Spec

\* The variables keep their types: uwTick and the times taken from it stay
\* values of the counter.
THEOREM ClockTypes == Spec => []TypeOK
<1>1. IInv => TypeOK
  BY DEF IInv
<1> QED
  BY <1>1, ClockInvariance, PTL

\* Until the counter of TIM5 wraps around, net_process publishes, and retries,
\* as soon as the interval is over.
THEOREM ActsOnTime == Spec => []OnTime
<1>1. IInv => OnTime
  BY DEF IInv
<1> QED
  BY <1>1, ClockInvariance, PTL

\* net_process never publishes or retries before the interval is over, the
\* turns of the counter included, but for deadlines beyond the wrap-around.
THEOREM NeverSooner == Spec => NotSooner
<1>1. ASSUME IInv, NEW b \in Branch, NEW d \in 1..MaxTurn, Turn(b, d), Act(b, d),
             last[b] + Interval(b) < Wrap
      PROVE  since[b] + d > Interval(b)
  <2>1. d \in Nat /\ d < Wrap /\ uwTick \in 0..(Wrap - 1)
    BY <1>1, ClockAssumption DEF IInv, TypeOK
  <2>2. \/ uwTick' = uwTick + d
        \/ uwTick' = uwTick + d - Wrap
    BY <1>1, <2>1, ClockAssumption DEF Turn, Plus
  <2>3. /\ last[b] \in 0..(Wrap - 1) /\ since[b] \in 0..Cap /\ Cap \in Nat
        /\ Wrap \in Nat /\ Interval(b) \in Nat /\ Interval(b) < Cap
    BY <1>1, IntervalType, ClockAssumption DEF IInv, TypeOK, Cap
  <2>4. last[b] + Interval(b) < uwTick'
    BY <1>1 DEF Act, Due, Plus
  <2>5. Shown(b) \in Nat /\ Shown(b) + d > Interval(b)
    BY <2>1, <2>2, <2>3, <2>4 DEF Shown
  <2>6. Capped(Shown(b)) <= since[b]
    BY <1>1 DEF IInv
  <2> QED
    BY <2>1, <2>3, <2>5, <2>6 DEF Capped
<1>2. IInv => \A b \in Branch : \A d \in 1..MaxTurn :
        (Turn(b, d) /\ Act(b, d) /\ last[b] + Interval(b) < Wrap)
          => since[b] + d > Interval(b)
  BY <1>1
<1> QED
  BY <1>2, ClockInvariance, PTL DEF NotSooner
=============================================================================
