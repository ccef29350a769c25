----------------------------- MODULE SysTimeouts -----------------------------
(***************************************************************************)
(* The timers of lwIP (core/timeouts.c) as the network task uses them: the *)
(* cyclic timers of the stack, the TCP timer, which runs while there are   *)
(* connections, and the timer of the MQTT client.  The list is kept in the *)
(* order of absolute times of uwTick, which wraps around, and walked by    *)
(* sys_check_timeouts in each turn of the loop of net_process.             *)
(*                                                                         *)
(* Time passes at every point, also while a handler runs.                  *)
(***************************************************************************)
EXTENDS Integers, Sequences, FiniteSets

CONSTANTS
  lwip_cyclic_timers, \* the array, without its first entry, tcp_tmr
  Interval,           \* of each timer, in ms
  PoolSize,           \* MEMP_NUM_SYS_TIMEOUT
  LWIP_MAX_TIMEOUT,   \* 2^31 - 1
  MaxLate             \* no timer waits longer for the loop to come round

Cyclic == {lwip_cyclic_timers[i] : i \in 1..Len(lwip_cyclic_timers)}
Timer == Cyclic \cup {"tcp", "mqtt"}

ASSUME TimersAssumption ==
  /\ lwip_cyclic_timers \in Seq(Cyclic)
  /\ \A i, j \in 1..Len(lwip_cyclic_timers) : i < j =>
       /\ lwip_cyclic_timers[i] # lwip_cyclic_timers[j]
       /\ Interval[lwip_cyclic_timers[i]] <= Interval[lwip_cyclic_timers[j]]
  /\ "tcp" \notin Cyclic /\ "mqtt" \notin Cyclic /\ "none" \notin Timer
  /\ LWIP_MAX_TIMEOUT \in Nat /\ MaxLate \in Nat /\ PoolSize \in Nat
  /\ Interval \in [Timer -> Nat]
  /\ \A t \in Timer : Interval[t] > 0 /\ Interval[t] + MaxLate <= LWIP_MAX_TIMEOUT

\* MEMP_NUM_SYS_TIMEOUT counts each of them.
ASSUME PoolAssumption == Cardinality(Timer) <= PoolSize

Wrap == 2 * LWIP_MAX_TIMEOUT + 2
Time == 0..(Wrap - 1)
Entry == [h : Timer, time : Time]

VARIABLES
  uwTick,
  next_timeout,               \* the list of struct sys_timeo
  current_timeout_due_time,
  tcpip_tcp_timer_active,
  running,                    \* the timer whose handler runs, or "none"
  checking,                   \* inside sys_check_timeouts?
  now,                        \* its local variable
  pcbs,                       \* tcp_active_pcbs || tcp_tw_pcbs
  up                          \* the MQTT client is connecting or connected

listVars == <<next_timeout, tcpip_tcp_timer_active>>
callVars == <<current_timeout_due_time, running, checking, now>>
envVars == <<pcbs, up>>
vars == <<uwTick, listVars, callVars, envVars>>

-----------------------------------------------------------------------------
\* Arithmetic of u32_t.
PlusNoWrap(a, b) == a + b
Plus(a, b) == IF a + b < Wrap THEN a + b ELSE a + b - Wrap
Minus(a, b) == IF a >= b THEN a - b ELSE a - b + Wrap

Earlier(t, compare_to) == t < compare_to
Never(t, compare_to) == TRUE
TIME_LESS_THAN(t, compare_to) == Minus(t, compare_to) > LWIP_MAX_TIMEOUT

\* The time from uwTick to t, negative when t is past.
Ahead(t) ==
  LET d == Minus(t, uwTick) IN IF d > LWIP_MAX_TIMEOUT THEN d - Wrap ELSE d

Pending(t) == \E i \in 1..Len(next_timeout) : next_timeout[i].h = t

\* The list with e before the first timer that is due later.
Insert(list, e) ==
  LET place == CHOOSE p \in 1..(Len(list) + 1) :
        /\ \A i \in 1..(p - 1) : ~TIME_LESS_THAN(e.time, list[i].time)
        /\ p <= Len(list) => TIME_LESS_THAN(e.time, list[p].time)
  IN [i \in 1..(Len(list) + 1) |->
        IF i < place THEN list[i] ELSE IF i = place THEN e ELSE list[i - 1]]

\* Nothing happens when the pool is empty.
sys_timeout_abs(list, time, t) ==
  IF Len(list) < PoolSize THEN Insert(list, [h |-> t, time |-> time]) ELSE list

sys_timeout(list, t) == sys_timeout_abs(list, Plus(uwTick, Interval[t]), t)

\* The list without the first entry of t.
sys_untimeout(list, t) ==
  IF \A i \in 1..Len(list) : list[i].h # t THEN list
  ELSE LET place == CHOOSE p \in 1..Len(list) :
             list[p].h = t /\ \A i \in 1..(p - 1) : list[i].h # t
       IN [i \in 1..(Len(list) - 1) |-> IF i < place THEN list[i] ELSE list[i + 1]]

-----------------------------------------------------------------------------
\* After sys_timeouts_init.
Init ==
  /\ uwTick = 0
  /\ next_timeout = [i \in 1..Len(lwip_cyclic_timers) |->
       [h |-> lwip_cyclic_timers[i], time |-> Interval[lwip_cyclic_timers[i]]]]
  /\ current_timeout_due_time = 0
  /\ tcpip_tcp_timer_active = FALSE
  /\ running = "none" /\ checking = FALSE /\ now = 0
  /\ pcbs = FALSE /\ up = FALSE

\* TIM5 counts on, while no timer and no call of sys_check_timeouts is MaxLate
\* behind.
Tick ==
  /\ uwTick' = Plus(uwTick, 1)
  /\ \A i \in 1..Len(next_timeout) : Ahead(next_timeout[i].time) > -MaxLate
  /\ running # "none" => Ahead(current_timeout_due_time) > -MaxLate
  /\ checking => Ahead(now) > -MaxLate
  /\ UNCHANGED <<listVars, callVars, envVars>>

-----------------------------------------------------------------------------
(***************************************************************************)
(* What the network task does outside sys_check_timeouts (~checking), or   *)
(* a handler does when sys_check_timeouts calls it.                        *)
(***************************************************************************)
StartAgain ==
  /\ tcpip_tcp_timer_active' = TRUE
  /\ next_timeout' = sys_timeout(next_timeout, "tcp")
tcp_timer_needed ==
  IF ~tcpip_tcp_timer_active
  THEN /\ tcpip_tcp_timer_active' = TRUE
       /\ next_timeout' = sys_timeout(next_timeout, "tcp")
  ELSE UNCHANGED listVars

\* TCP_REG of an active or a closing connection.
TcpReg ==
  /\ ~checking
  /\ pcbs' = TRUE
  /\ tcp_timer_needed
  /\ UNCHANGED <<uwTick, callVars, up>>

\* tcp_input or tcp_slowtmr removes the last connection.
TcpRmv ==
  /\ ~checking \/ running = "tcp"
  /\ pcbs /\ ~up
  /\ pcbs' = FALSE
  /\ UNCHANGED <<uwTick, listVars, callVars, up>>

\* mqtt_tcp_connect_cb.
MqttConnecting ==
  /\ ~checking
  /\ pcbs /\ ~up
  /\ up' = TRUE
  /\ next_timeout' = sys_timeout(next_timeout, "mqtt")
  /\ UNCHANGED <<uwTick, tcpip_tcp_timer_active, callVars, pcbs>>

\* mqtt_close, called for a received segment or by the application, for a
\* connection that tcp_tmr gives up, or by mqtt_cyclic_timer.  The connection
\* may linger or be gone.
MqttClose ==
  /\ ~checking \/ running \in {"tcp", "mqtt"}
  /\ up
  /\ up' = FALSE
  /\ pcbs' \in BOOLEAN
  /\ next_timeout' = sys_untimeout(next_timeout, "mqtt")
  /\ UNCHANGED <<uwTick, tcpip_tcp_timer_active, callVars>>

-----------------------------------------------------------------------------
(***************************************************************************)
(* sys_check_timeouts.                                                     *)
(***************************************************************************)
Check ==
  /\ ~checking
  /\ checking' = TRUE
  /\ now' = uwTick
  /\ UNCHANGED <<uwTick, listVars, current_timeout_due_time, running, envVars>>

NothingPast ==
  \/ next_timeout = <<>>
  \/ ~TIME_LESS_THAN(Head(next_timeout).time, now)
NothingDue ==
  \/ next_timeout = <<>>
  \/ TIME_LESS_THAN(now, Head(next_timeout).time)

Expire ==
  /\ checking /\ running = "none" /\ ~NothingDue
  /\ running' = Head(next_timeout).h
  /\ current_timeout_due_time' = Head(next_timeout).time
  /\ next_timeout' = Tail(next_timeout)
  /\ UNCHANGED <<uwTick, tcpip_tcp_timer_active, checking, now, envVars>>

Return ==
  /\ checking /\ running = "none" /\ NothingDue
  /\ checking' = FALSE
  /\ now' = 0
  /\ UNCHANGED <<uwTick, listVars, current_timeout_due_time, running, envVars>>

\* The ends of the handlers.
Drifting ==
  /\ running \in Cyclic
  /\ next_timeout' = sys_timeout(next_timeout, running)
  /\ UNCHANGED tcpip_tcp_timer_active
lwip_cyclic_timer ==
  LET next_timeout_time == Plus(current_timeout_due_time, Interval[running])
  IN /\ running \in Cyclic
     /\ next_timeout' = sys_timeout_abs(next_timeout,
          IF TIME_LESS_THAN(next_timeout_time, uwTick)
          THEN Plus(uwTick, Interval[running]) ELSE next_timeout_time, running)
     /\ UNCHANGED tcpip_tcp_timer_active

StaysActive ==
  /\ running = "tcp"
  /\ next_timeout' = IF pcbs THEN sys_timeout(next_timeout, "tcp") ELSE next_timeout
  /\ UNCHANGED tcpip_tcp_timer_active
tcpip_tcp_timer ==
  /\ running = "tcp"
  /\ IF pcbs
     THEN /\ next_timeout' = sys_timeout(next_timeout, "tcp")
          /\ UNCHANGED tcpip_tcp_timer_active
     ELSE /\ tcpip_tcp_timer_active' = FALSE
          /\ UNCHANGED next_timeout

mqtt_cyclic_timer ==
  /\ running = "mqtt"
  /\ next_timeout' = IF up THEN sys_timeout(next_timeout, "mqtt") ELSE next_timeout
  /\ UNCHANGED tcpip_tcp_timer_active

HandlerReturns ==
  /\ lwip_cyclic_timer \/ tcpip_tcp_timer \/ mqtt_cyclic_timer
  /\ running' = "none"
  /\ UNCHANGED <<uwTick, current_timeout_due_time, checking, now, envVars>>

Next ==
  \/ Tick
  \/ TcpReg \/ TcpRmv \/ MqttConnecting \/ MqttClose
  \/ Check \/ Expire \/ Return \/ HandlerReturns

\* Time passes, the loop comes round and what it calls returns.
Fairness ==
  /\ WF_vars(Tick)
  /\ WF_vars(Check)
  /\ WF_vars(Expire \/ Return \/ HandlerReturns)

Spec == Init /\ [][Next]_vars

FairSpec == Spec /\ Fairness

-----------------------------------------------------------------------------
TypeOK ==
  /\ uwTick \in Time
  /\ next_timeout \in Seq(Entry)
  /\ current_timeout_due_time \in Time
  /\ tcpip_tcp_timer_active \in BOOLEAN
  /\ running \in Timer \cup {"none"}
  /\ checking \in BOOLEAN /\ now \in Time
  /\ pcbs \in BOOLEAN /\ up \in BOOLEAN

\* The list is in the order in which its timers are due, before and after
\* uwTick wraps around: sys_check_timeouts looks at the first one only.
InOrder ==
  \A i, j \in 1..Len(next_timeout) :
    i < j => Ahead(next_timeout[i].time) <= Ahead(next_timeout[j].time)

\* No timer is in the list twice, or again while its handler runs: the list
\* cannot outgrow the pool, and sys_untimeout leaves nothing behind.
ArmedOnce ==
  /\ \A i, j \in 1..Len(next_timeout) :
       next_timeout[i].h = next_timeout[j].h => i = j
  /\ ~Pending(running)

\* Each timer that must run is waiting or running, no other one is: those of
\* the stack always, the one of TCP as long as there are connections (and until
\* it next finds none), that of the MQTT client while it is up.
WhoRuns ==
  LET on(t) == Pending(t) \/ running = t
  IN /\ \A t \in Cyclic : on(t)
     /\ tcpip_tcp_timer_active <=> on("tcp")
     /\ pcbs => on("tcp")
     /\ up => on("mqtt")
     /\ ~up => ~Pending("mqtt")

\* sys_check_timeouts leaves no timer that was due when it was called, though
\* handlers add and remove timers, and takes time doing so.
ChecksAll ==
  [][checking /\ ~checking' =>
       \A i \in 1..Len(next_timeout) : Ahead(next_timeout[i].time) > Ahead(now)]_vars

\* The list, the flag and the wrapping clock implement timers that each run
\* when due, in order, cyclic ones on their grid.
Phase == [t \in Timer |-> IF running = t THEN "running"
                          ELSE IF Pending(t) THEN "armed" ELSE "idle"]
Left == [t \in Timer |->
  IF running = t THEN Ahead(current_timeout_due_time)
  ELSE IF Pending(t)
  THEN Ahead(next_timeout[CHOOSE i \in 1..Len(next_timeout) : next_timeout[i].h = t].time)
  ELSE 0]

Promised == INSTANCE Timers WITH
  CyclicTimer <- Cyclic, phase <- Phase, left <- Left

RefinesTimers == Promised!Spec

\* The timers of the stack go on for ever, and that of TCP as long as there are
\* connections.
TimersGoOn ==
  /\ \A t \in Cyclic : []<>(running = t)
  /\ pcbs ~> (running = "tcp" \/ ~pcbs)
=============================================================================
