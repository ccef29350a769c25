---------------------------- MODULE MqttRequests ----------------------------
(***************************************************************************)
(* The pending requests of the MQTT client (struct mqtt_request_t and the  *)
(* functions on it in lwip apps/mqtt/mqtt.c): an array of request objects, *)
(* of which the ones in use are chained in the order they were made.  Each *)
(* keeps its deadline relative to the one before it in the chain.          *)
(*                                                                         *)
(* No callback of the device's application touches the queue, and a        *)
(* difference never leaves 0..Timeout (TypeOK), so that u16_t, s16_t and   *)
(* u8_t hold every value met here.  The fields of an object not in use     *)
(* have no meaning; they are 0.                                            *)
(***************************************************************************)
EXTENDS Integers, FiniteSets

CONSTANTS
  N,         \* MQTT_REQ_MAX_IN_FLIGHT
  Timeout,   \* MQTT_REQ_TIMEOUT
  Interval,  \* MQTT_CYCLIC_TIMER_INTERVAL
  PktIds,    \* packet ids; 0 is the id of every publish with QoS 0
  NULL       \* the null pointer

ASSUME RequestsAssumption ==
  /\ N \in Nat \ {0} /\ Timeout \in 1..255 /\ Interval \in 1..255
  /\ PktIds \subseteq Nat /\ 0 \in PktIds /\ NULL \notin Nat

Slots == 1..N

VARIABLES
  next,            \* per object: its successor, itself when not in use
  pkt_id,          \* per object
  timeout_diff,    \* per object: seconds after the deadline before it
  pend_req_queue   \* the head of the chain

vars == <<next, pkt_id, timeout_diff, pend_req_queue>>

-----------------------------------------------------------------------------
Unused == {s \in Slots : next[s] = s}
InUse  == Slots \ Unused

\* The chain, position by position (iter = tail; iter = iter->next).
Chain ==
  LET at[i \in 1..N] == IF i = 1 THEN pend_req_queue
                        ELSE IF at[i - 1] = NULL THEN NULL ELSE next[at[i - 1]]
  IN at
Position(s) == CHOOSE i \in Slots : Chain[i] = s
Length == Cardinality({i \in Slots : Chain[i] # NULL})

\* Seconds until the deadline of the request at position i of the chain.
Deadline ==
  LET sum[i \in 0..N] ==
        IF i = 0 THEN 0
        ELSE sum[i - 1] + (IF Chain[i] = NULL THEN 0 ELSE timeout_diff[Chain[i]])
  IN sum

\* The first unused object.
First(S) == CHOOSE s \in S : \A o \in S : s <= o

-----------------------------------------------------------------------------
\* mqtt_client_connect has zeroed the client.
Init ==
  /\ next = [s \in Slots |-> s]
  /\ pkt_id = [s \in Slots |-> 0]
  /\ timeout_diff = [s \in Slots |-> 0]
  /\ pend_req_queue = NULL

\* What a new request waits after the last one in the queue.
DiffToLast == Timeout - Deadline[N]

\* mqtt_create_request and mqtt_append_request, for a publish (id 0) or for a
\* (un)subscribe, whose id is fresh.
Request(id) ==
  /\ Unused # {}
  /\ id # 0 => \A s \in InUse : pkt_id[s] # id
  /\ LET r == First(Unused) IN
       /\ IF pend_req_queue = NULL
          THEN pend_req_queue' = r /\ next' = [next EXCEPT ![r] = NULL]
          ELSE /\ next' = [next EXCEPT ![r] = NULL, ![Chain[Length]] = r]
               /\ UNCHANGED pend_req_queue
       /\ pkt_id' = [pkt_id EXCEPT ![r] = id]
       /\ timeout_diff' = [timeout_diff EXCEPT ![r] = DiffToLast]

\* mqtt_take_request of the first request with the id, and mqtt_delete_request:
\* an acknowledgement of a (un)subscribe.  Its successor inherits its wait.
NoInheritance(s) == [timeout_diff EXCEPT ![s] = 0]
Inherited(s) ==
  [o \in Slots |->
     IF o = s THEN 0
     ELSE timeout_diff[o] + (IF o = next[s] THEN timeout_diff[s] ELSE 0)]

FreedWithoutUnchain(s) == [next EXCEPT ![s] = s]
Unchained(s) ==
  [o \in Slots |-> IF o = s THEN s ELSE IF next[o] = s THEN next[s] ELSE next[o]]

Take(id) ==
  \E s \in InUse :
    /\ pkt_id[s] = id
    /\ \A o \in InUse : pkt_id[o] = id => Position(s) <= Position(o)
    /\ next' = Unchained(s)
    /\ timeout_diff' = Inherited(s)
    /\ pkt_id' = [pkt_id EXCEPT ![s] = 0]
    /\ pend_req_queue' = IF pend_req_queue = s THEN next[s] ELSE pend_req_queue

\* An iteration of the loop of mqtt_request_time_elapsed: t seconds remain to
\* be accounted for, r is the head of the queue.
Expires(t, d) == t >= d

Iteration(w) ==
  IF w.t = 0 \/ w.r = NULL THEN w
  ELSE IF Expires(w.t, w.diff[w.r])
  THEN [w EXCEPT !.t = @ - w.diff[w.r], !.r = next[w.r], !.expired = @ \cup {w.r}]
  ELSE [w EXCEPT !.diff[w.r] = @ - w.t, !.t = 0]

\* Every iteration but the last removes a request: N + 1 of them do.
Elapsed ==
  LET loop[i \in 0..(N + 1)] ==
        IF i = 0
        THEN [t |-> Interval, r |-> pend_req_queue, expired |-> {}, diff |-> timeout_diff]
        ELSE Iteration(loop[i - 1])
  IN loop[N + 1]

mqtt_request_time_elapsed ==
  /\ pend_req_queue' = Elapsed.r
  /\ next' = [s \in Slots |-> IF s \in Elapsed.expired THEN s ELSE next[s]]
  /\ pkt_id' = [s \in Slots |-> IF s \in Elapsed.expired THEN 0 ELSE pkt_id[s]]
  /\ timeout_diff' = [s \in Slots |-> IF s \in Elapsed.expired THEN 0 ELSE Elapsed.diff[s]]

\* mqtt_clear_requests, when the connection is closed.
mqtt_clear_requests ==
  /\ next' = [s \in Slots |-> IF s \in InUse THEN s ELSE next[s]]
  /\ pkt_id' = [s \in Slots |-> 0]
  /\ timeout_diff' = [s \in Slots |-> 0]
  /\ pend_req_queue' = NULL

Next ==
  \/ \E id \in PktIds : Request(id) \/ Take(id)
  \/ mqtt_request_time_elapsed \/ mqtt_clear_requests

\* The cyclic timer is called for ever.
Spec == Init /\ [][Next]_vars /\ WF_vars(mqtt_request_time_elapsed)

-----------------------------------------------------------------------------
\* Types; the differences fit the 16 bits, and the differences from the head
\* sum up to MQTT_REQ_TIMEOUT at most, as mqtt_append_request asserts.
TypeOK ==
  /\ next \in [Slots -> Slots \cup {NULL}]
  /\ pkt_id \in [Slots -> PktIds]
  /\ timeout_diff \in [Slots -> 0..Timeout]
  /\ pend_req_queue \in Slots \cup {NULL}
  /\ Deadline[N] <= Timeout

\* A request object is either marked unused or on the chain, once, and the
\* chain ends: no object is leaked and none is on the chain while it can be
\* handed out again; and no difference leaves its type.
ChainIsSound ==
  /\ TypeOK
  /\ InUse = {Chain[i] : i \in {j \in Slots : Chain[j] # NULL}}
  /\ Length = Cardinality(InUse)

\* The queue implements RequestDeadlines: the differences kept through every
\* take, timeout and append give each request its own deadline.
Deadlines == INSTANCE RequestDeadlines WITH
  Idle <- NULL,
  left <- [s \in Slots |-> IF s \in Unused THEN NULL ELSE Deadline[Position(s)]]
DeadlinesKept == Deadlines!Spec
=============================================================================
