------------------------------- MODULE Delays -------------------------------
(***************************************************************************)
(* What vTaskDelay promises a task: it sleeps for as many ticks as it said,*)
(* no more and no fewer.  Ticks that come while the scheduler is held are  *)
(* made up for when it is released.                                        *)
(***************************************************************************)
EXTENDS Naturals

CONSTANTS Task, Delay   \* [Task -> Nat \ {0}]

VARIABLES
  left,     \* the ticks each task still has to sleep, 0 when it is awake
  held,
  missed    \* ticks since it was held

vars == <<left, held, missed>>

Less(n) == [t \in Task |-> IF left[t] > n THEN left[t] - n ELSE 0]

Init == left = [t \in Task |-> 0] /\ held = FALSE /\ missed = 0

Tick ==
  \/ held /\ missed' = missed + 1 /\ UNCHANGED <<left, held>>
  \/ ~held /\ left' = Less(1) /\ UNCHANGED <<held, missed>>

Hold == ~held /\ held' = TRUE /\ UNCHANGED <<left, missed>>

Sleep(t) ==
  /\ held /\ left[t] = 0
  /\ left' = [left EXCEPT ![t] = Delay[t]]
  /\ UNCHANGED <<held, missed>>

Release == held /\ held' = FALSE /\ left' = Less(missed) /\ missed' = 0

Next == Tick \/ Hold \/ Release \/ \E t \in Task : Sleep(t)

Spec == Init /\ [][Next]_vars
=============================================================================
