------------------------------ MODULE NetClock ------------------------------
(***************************************************************************)
(* The two periods of the loop of net_process (Application/net_task.c): a  *)
(* connected device publishes every SendInterval, one that is not retries  *)
(* every RetryInterval.  Both are measured on uwTick, the free-running     *)
(* counter of TIM5 (Drivers/tick.h), an unsigned number that wraps around. *)
(*                                                                         *)
(* since, waited and wrapped are history.  The values kept there stop at   *)
(* Cap, beyond every interval.                                             *)
(***************************************************************************)
EXTENDS Integers

CONSTANTS
  Wrap,           \* 2^32, the values of uwTick
  SendInterval,   \* 500 ms
  RetryInterval,  \* 1000 ms
  MaxTurn         \* the longest a turn of the loop takes

ASSUME ClockAssumption ==
  /\ Wrap \in Nat /\ SendInterval \in Nat /\ RetryInterval \in Nat
  /\ MaxTurn \in Nat
  /\ SendInterval < Wrap /\ RetryInterval < Wrap /\ MaxTurn < Wrap

Branch == {"send", "retry"}

Interval(b) == IF b = "send" THEN SendInterval ELSE RetryInterval

Cap == SendInterval + RetryInterval + MaxTurn + 1

VARIABLES
  uwTick,
  last,     \* last_send_time and last_mqtt_time
  branch,   \* the branch of the last turn: was the client connected?
  since,    \* time since a branch last acted, or since power-on
  waited,   \* time the current branch has been taken without acting
  wrapped   \* has uwTick wrapped around?

vars == <<uwTick, last, branch, since, waited, wrapped>>

-----------------------------------------------------------------------------
Capped(n) == IF n < Cap THEN n ELSE Cap

\* Unsigned addition.
PlusNoWrap(a, b) == a + b
Plus(a, b) == IF a + b < Wrap THEN a + b ELSE a + b - Wrap

\* if(last_mqtt_time + 1000 < uwTick)
DueEarly(l, i, now) == Plus(l, i) <= now
DueLate(l, i, now) == Plus(l, i) + 1 < now
Due(l, i, now) == Plus(l, i) < now

Init ==
  /\ uwTick \in 0..MaxTurn
  /\ last = [b \in Branch |-> 0]
  /\ branch = "retry"
  /\ since = [b \in Branch |-> Capped(uwTick)]
  /\ waited = 0
  /\ wrapped = FALSE

\* The branch b acts or not, after d ms.
Act(b, d) ==
  /\ Due(last[b], Interval(b), uwTick')
  /\ last' = [last EXCEPT ![b] = uwTick']
  /\ since' = [o \in Branch |-> IF o = b THEN 0 ELSE Capped(since[o] + d)]
  /\ waited' = 0

Skip(b, d) ==
  /\ ~Due(last[b], Interval(b), uwTick')
  /\ UNCHANGED last
  /\ since' = [o \in Branch |-> Capped(since[o] + d)]
  /\ waited' = IF b = branch THEN Capped(waited + d) ELSE 0

\* A turn of the loop: the network card and the timers may have connected or
\* disconnected the client before the test.
Turn(b, d) ==
  /\ uwTick' = Plus(uwTick, d)
  /\ wrapped' = (wrapped \/ uwTick + d >= Wrap)
  /\ branch' = b
  /\ Act(b, d) \/ Skip(b, d)

Next == \E b \in Branch, d \in 1..MaxTurn : Turn(b, d)

Spec == Init /\ [][Next]_vars

-----------------------------------------------------------------------------
TypeOK ==
  /\ uwTick \in 0..(Wrap - 1)
  /\ last \in [Branch -> 0..(Wrap - 1)]
  /\ branch \in Branch
  /\ since \in [Branch -> 0..Cap]
  /\ waited \in 0..Cap
  /\ wrapped \in BOOLEAN

\* Until uwTick wraps around, a device publishes, or retries, before it has
\* been connected, or not, for longer than the interval.
OnTime == ~wrapped => waited <= Interval(branch)

\* The time since last[b] that the counter shows.
Shown(b) == IF last[b] <= uwTick THEN uwTick - last[b] ELSE uwTick - last[b] + Wrap

\* A branch never acts before its interval is over, the turns of the counter
\* included, unless its next deadline lies beyond the wrap-around.
NotSooner ==
  [][\A b \in Branch : \A d \in 1..MaxTurn :
       (Turn(b, d) /\ Act(b, d) /\ last[b] + Interval(b) < Wrap)
         => since[b] + d > Interval(b)]_vars

\* "MQTT连接断开后 间隔1S尝试重连" (net_task.c:87, after the MQTT connection is
\* lost, try to reconnect at intervals of 1 s): give or take a turn of the loop.
RetriesEachSecond == branch = "retry" => waited <= RetryInterval + MaxTurn
=============================================================================
