-------------------------------- MODULE Timers --------------------------------
(***************************************************************************)
(* What lwIP's users are promised of sys_timeout, without the list, the    *)
(* wrap-around of the clock and the flags: each timer knows how long it    *)
(* still has to wait (less than nothing when it is late).                  *)
(***************************************************************************)
EXTENDS Integers

CONSTANTS
  Timer,
  CyclicTimer,   \* re-armed relative to the moment they were due
  Interval       \* [Timer -> Nat], in ms

VARIABLES
  phase,   \* of each timer: idle, armed or running
  left     \* the time until it is due, or since (negative)

vars == <<phase, left>>

Armed == {t \in Timer : phase[t] = "armed"}

Init ==
  /\ phase = [t \in Timer |-> IF t \in CyclicTimer THEN "armed" ELSE "idle"]
  /\ left = [t \in Timer |-> IF t \in CyclicTimer THEN Interval[t] ELSE 0]

\* A millisecond passes.
Pass ==
  /\ left' = [t \in Timer |-> IF phase[t] = "idle" THEN 0 ELSE left[t] - 1]
  /\ UNCHANGED phase

Set(t, p, n) ==
  /\ phase' = [phase EXCEPT ![t] = p]
  /\ left' = [left EXCEPT ![t] = n]

Start(t) == phase[t] = "idle" /\ Set(t, "armed", Interval[t])

Stop(t) == phase[t] = "armed" /\ Set(t, "idle", 0)

\* Only a timer that is due runs, never before one that was due earlier, and
\* never while another one runs.
Expire(t) ==
  /\ \A u \in Timer : phase[u] # "running"
  /\ phase[t] = "armed" /\ left[t] <= 0
  /\ \A u \in Armed : left[t] <= left[u]
  /\ phase' = [phase EXCEPT ![t] = "running"]
  /\ UNCHANGED left

\* A cyclic timer keeps to its grid, unless it has fallen behind it.
Again(t) ==
  LET onGrid == left[t] + Interval[t]
  IN /\ phase[t] = "running"
     /\ Set(t, "armed", IF t \in CyclicTimer /\ onGrid >= 0 THEN onGrid
                        ELSE Interval[t])

Done(t) == phase[t] = "running" /\ t \notin CyclicTimer /\ Set(t, "idle", 0)

Next ==
  \/ Pass
  \/ \E t \in Timer : Start(t) \/ Stop(t) \/ Expire(t) \/ Again(t) \/ Done(t)

Spec == Init /\ [][Next]_vars
=============================================================================
