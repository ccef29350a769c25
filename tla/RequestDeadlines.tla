-------------------------- MODULE RequestDeadlines --------------------------
(***************************************************************************)
(* What the request queue of the MQTT client promises the application:     *)
(* every request has a deadline of its own, counted from the moment it was *)
(* made, which no other request moves, and it is answered or times out at  *)
(* the tick at which its deadline is reached, or at the next one.          *)
(***************************************************************************)
EXTENDS Naturals

CONSTANTS
  Slots,     \* the request objects
  Timeout,   \* MQTT_REQ_TIMEOUT, in seconds
  Interval,  \* seconds between two calls of mqtt_request_time_elapsed
  Idle       \* the deadline of a request object that is not in use

VARIABLE left  \* seconds until the deadline of each request

Pending == {s \in Slots : left[s] # Idle}

Init == left = [s \in Slots |-> Idle]

Request == \E s \in Slots \ Pending : left' = [left EXCEPT ![s] = Timeout]

\* Requests end with an answer, or all of them with the connection.
End == \E done \in SUBSET Pending :
  left' = [s \in Slots |-> IF s \in done THEN Idle ELSE left[s]]

\* Interval seconds go by.
Tick == \E expired \in SUBSET Pending :
  /\ {s \in Pending : left[s] < Interval} \subseteq expired
  /\ expired \subseteq {s \in Pending : left[s] <= Interval}
  /\ left' = [s \in Slots |-> IF s \in expired \/ left[s] = Idle THEN Idle
                              ELSE left[s] - Interval]

Next == Request \/ End \/ Tick

Spec == Init /\ [][Next]_left /\ WF_left(Tick)
=============================================================================
