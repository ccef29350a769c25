---------------------------- MODULE MqttSession ----------------------------
(***************************************************************************)
(* The MQTT session of the device: the reconnect loop of net_process       *)
(* (Application/net_task.c), the connection lifecycle of the MQTT client   *)
(* (lwip apps/mqtt/mqtt.c), the life of the TCP control blocks under it    *)
(* (lwip core/tcp.c) and the server at the other end.                      *)
(*                                                                         *)
(* Every handler runs to completion in the one network task (NO_SYS = 1),  *)
(* so a handler is one action.  The loop polls the network card, the       *)
(* timers and the application in turn, and in each turn any of the three   *)
(* may have nothing to do: the handlers therefore interleave freely.       *)
(*                                                                         *)
(* mqtt_client_free followed by mqtt_client_new returns the same block of  *)
(* the lwip heap, so there is one client and a pcb left over from an       *)
(* earlier session still points (callback_arg) to the current one.         *)
(***************************************************************************)
EXTENDS Naturals, Sequences, FiniteSets

CONSTANTS
  Pcbs,           \* the TCP pcb pool (MEMP_NUM_TCP_PCB)
  NULL,           \* the null pointer
  MaxInFlight,    \* MQTT_REQ_MAX_IN_FLIGHT
  RingMsgs,       \* messages that fit the output ring buffer
  SndBufMsgs,     \* messages that fit the TCP send buffer
  NetCap,         \* bound: frames under way to the device per connection
  KeepTicks,      \* keep_alive / MQTT_CYCLIC_TIMER_INTERVAL
  WatchdogTicks,  \* 1.5 keep_alive / MQTT_CYCLIC_TIMER_INTERVAL
  ConnectTicks,   \* MQTT_CONNECT_TIMOUT / MQTT_CYCLIC_TIMER_INTERVAL
  FinCanFail      \* may tcp_send_fin run out of memory?

ASSUME NullAssumption == NULL \notin Pcbs
ASSUME SizeAssumption ==
  /\ MaxInFlight \in Nat \ {0} /\ RingMsgs \in Nat \ {0}
  /\ SndBufMsgs \in Nat \ {0} /\ NetCap \in Nat \ {0}
ASSUME TickAssumption ==
  /\ KeepTicks \in Nat \ {0} /\ WatchdogTicks \in Nat \ {0}
  /\ ConnectTicks \in Nat \ {0}
ASSUME FinAssumption == FinCanFail \in BOOLEAN

VARIABLES
  conn_state,       \* client->conn_state
  conn,             \* client->conn
  cyclic_tick,      \* client->cyclic_tick
  server_watchdog,  \* client->server_watchdog
  output,           \* client->output, as the messages in it
  pend_req_queue,   \* client->pend_req_queue, as the kinds of its requests
  data_cb,          \* is client->data_cb set?
  timers,           \* armed timeouts with handler mqtt_cyclic_timer
  retry_due,        \* last_mqtt_time + 1000 < uwTick
  pcb,              \* the TCP pcbs
  link              \* per pcb: the byte streams and the server's end

clientVars == <<conn_state, conn, cyclic_tick, server_watchdog, output,
                pend_req_queue, data_cb>>
vars == <<clientVars, timers, retry_due, pcb, link>>

-----------------------------------------------------------------------------
ConnState == {"TCP_DISCONNECTED", "TCP_CONNECTING", "MQTT_CONNECTING",
              "MQTT_CONNECTED"}
Message   == {"CONNECT", "SUBSCRIBE", "PUBLISH", "PINGREQ"}
Frame     == {"CONNACK", "REFUSED", "SUBACK", "PINGRESP", "PUBLISH", "FIN"}
Callback  == {"recv", "sent", "poll", "err"}
\* FIN_WAIT stands for FIN_WAIT_1 and FIN_WAIT_2.
TcpState  == {"CLOSED", "SYN_SENT", "ESTABLISHED", "CLOSE_WAIT", "FIN_WAIT",
              "CLOSING", "LAST_ACK", "TIME_WAIT"}
\* The server's view of a connection; it closed before (refused) or after
\* (closed) having accepted a session there.
Server    == {"none", "open", "refused", "session", "subscribed", "closed"}
Ended     == {"refused", "closed"}

\* A message in a TCP stream carries the connection its client owned.
Sent == [kind : Message, conn : Pcbs \cup {NULL}]
Pcb  == [state : TcpState, cbs : SUBSET Callback, closepend : BOOLEAN]
Link == [out : Seq(Sent), in : Seq(Frame), ack : BOOLEAN, srv : Server]

FreePcb == [state |-> "CLOSED", cbs |-> {}, closepend |-> FALSE]
SynPcb  == [state |-> "SYN_SENT", cbs |-> {"err"}, closepend |-> FALSE]
NoLink  == [out |-> <<>>, in |-> <<>>, ack |-> FALSE, srv |-> "none"]

\* The pcbs on tcp_active_pcbs.
Active == {"SYN_SENT", "ESTABLISHED", "CLOSE_WAIT", "FIN_WAIT", "CLOSING",
           "LAST_ACK"}
\* tcp_write_checks accepts data in these states only.
Writable == {"SYN_SENT", "ESTABLISHED", "CLOSE_WAIT"}
\* States in which the streams of a pcb can still carry something.
Carrying == {"ESTABLISHED", "CLOSE_WAIT", "FIN_WAIT"}

Lesser(a, b) == IF a < b THEN a ELSE b

\* The streams that survive a change of the pcbs to f.
Live(f, l) ==
  [p \in Pcbs |-> IF f[p].state \in Carrying THEN l[p] ELSE NoLink]

-----------------------------------------------------------------------------
(* Closing and allocating pcbs                                             *)

\* What tcp_close may make of pcb r.  A FIN that finds no memory leaves the
\* state alone and marks the pcb TF_CLOSEPEND.
CloseOutcomes(r) ==
  LET pending == IF FinCanFail THEN {[r EXCEPT !.closepend = TRUE]} ELSE {}
  IN CASE r.state = "SYN_SENT"    -> {FreePcb}
       [] r.state = "ESTABLISHED" -> {[r EXCEPT !.state = "FIN_WAIT"]} \cup pending
       [] r.state = "CLOSE_WAIT"  -> {[r EXCEPT !.state = "LAST_ACK"]} \cup pending
       [] OTHER -> {r}

\* The retry of a pending FIN (tcp_fasttmr, tcp_handle_closepend).
RetryForgets(r) == {[r EXCEPT !.closepend = FALSE]}
RetryOutcomes(r) ==
  IF r.closepend THEN CloseOutcomes([r EXCEPT !.closepend = FALSE]) ELSE {r}

\* What mqtt_close may make of the pcbs f when the client holds pcb c: it
\* removes the recv, err and sent callbacks (not poll) and closes.
NotClosed(c, f) ==
  IF c = NULL THEN {f} ELSE {[f EXCEPT ![c].cbs = @ \ {"recv", "err", "sent"}]}
ErrStaysInstalled(c, f) ==
  IF c = NULL THEN {f}
  ELSE {[f EXCEPT ![c] = r] : r \in CloseOutcomes([f[c] EXCEPT !.cbs = @ \ {"recv", "sent"}])}
ClosedPcbs(c, f) ==
  IF c = NULL THEN {f}
  ELSE {[f EXCEPT ![c] = r] :
          r \in CloseOutcomes([f[c] EXCEPT !.cbs = @ \ {"recv", "err", "sent"}])}

InState(f, s) == {p \in Pcbs : f[p].state = s}

\* tcp_alloc: the pool may be exhausted, then FINs are retried and the first
\* of the expendable states that is populated gives up a pcb.  No pcb has a
\* lower priority than another, so tcp_kill_prio finds nothing.
TcpAlloc(f) ==
  IF InState(f, "CLOSED") # {}
  THEN {[pcbs |-> f, new |-> p] : p \in InState(f, "CLOSED")}
  ELSE LET expendable(g) ==
             IF InState(g, "TIME_WAIT") # {} THEN InState(g, "TIME_WAIT")
             ELSE IF InState(g, "LAST_ACK") # {} THEN InState(g, "LAST_ACK")
             ELSE InState(g, "CLOSING")
           retried == {g \in [Pcbs -> UNION {RetryOutcomes(f[p]) : p \in Pcbs}] :
                         \A p \in Pcbs : g[p] \in RetryOutcomes(f[p])}
       IN UNION {IF expendable(g) = {} THEN {[pcbs |-> g, new |-> NULL]}
                 ELSE {[pcbs |-> g, new |-> p] : p \in expendable(g)} :
                   g \in retried}

-----------------------------------------------------------------------------
(* Pieces of the client's handlers                                         *)

\* sys_untimeout removes the first matching timeout, if there is one.
UntimeoutMissing(n) == n
Untimeout(n) == IF n > 0 THEN n - 1 ELSE 0

\* What the ring buffer holds once its first k messages are sent.
SentNotRemoved(msgs, k) == msgs
AllRemoved(msgs, k) == <<>>
Rest(msgs, k) == SubSeq(msgs, k + 1, Len(msgs))

\* The first k messages as they appear in a stream.
FirstOf(msgs, k) == [i \in 1..k |-> [kind |-> msgs[i], conn |-> conn]]

\* mqtt_output_send on pcb p when the ring buffer holds msgs and the streams
\* are l: a prefix is written, nothing when tcp_write finds no memory or the
\* pcb takes no data, the part up to the wrap when only the second write fails.
mqtt_output_send(msgs, p, l) ==
  \E k \in IF pcb[p].state \in Writable
           THEN 0..Lesser(Len(msgs), SndBufMsgs - Len(l[p].out)) ELSE {0} :
    /\ output' = Rest(msgs, k)
    /\ link' = [l EXCEPT ![p].out = @ \o FirstOf(msgs, k)]

\* mqtt_create_request and mqtt_output_check_space both succeed.
RoomForRequest ==
  Len(pend_req_queue) < MaxInFlight /\ Len(output) < RingMsgs

\* The pending requests of one kind alone (mqtt_take_request by packet id:
\* publishes with QoS 0 have id 0, the one subscribe another).
OfKind(kind) ==
  [i \in 1..Cardinality({j \in 1..Len(pend_req_queue) : pend_req_queue[j] = kind}) |-> kind]

\* mqtt_close for a client that holds c, with the pcbs f, the streams l and n
\* armed timers.  The connection callback does nothing for a status other
\* than accepted.
ConnNotCleared(c, f, l, n) ==
  /\ pcb' \in ClosedPcbs(c, f) /\ link' = Live(pcb', l) /\ conn' = conn
  /\ pend_req_queue' = <<>> /\ timers' = Untimeout(n)
  /\ conn_state' = "TCP_DISCONNECTED"
mqtt_close(c, f, l, n) ==
  /\ pcb' \in ClosedPcbs(c, f)
  /\ link' = Live(pcb', l)
  /\ conn' = NULL
  /\ pend_req_queue' = <<>>
  /\ timers' = Untimeout(n)
  /\ conn_state' = "TCP_DISCONNECTED"

\* mqtt_client_connect on a fresh client: wipe it, allocate a pcb, bind and
\* connect; without a pcb or after an error (tcp_fail) it stays disconnected.
mqtt_client_connect(f) ==
  /\ cyclic_tick' = 0
  /\ server_watchdog' = 0
  /\ pend_req_queue' = <<>>
  /\ data_cb' = FALSE
  /\ \E a \in TcpAlloc(f) :
       \/ /\ pcb' = IF a.new = NULL THEN a.pcbs
                    ELSE [a.pcbs EXCEPT ![a.new] = FreePcb]
          /\ conn' = NULL
          /\ conn_state' = "TCP_DISCONNECTED"
          /\ output' = <<>>
       \/ /\ a.new # NULL
          /\ pcb' = [a.pcbs EXCEPT ![a.new] = SynPcb]
          /\ conn' = a.new
          /\ conn_state' = "TCP_CONNECTING"
          /\ output' = <<"CONNECT">>
  /\ link' = Live(pcb', link)

-----------------------------------------------------------------------------
(* The application: net_process                                            *)

\* After LwIP_Config and the first mqtt_example_init.
Init ==
  /\ conn \in Pcbs \cup {NULL}
  /\ conn_state = IF conn = NULL THEN "TCP_DISCONNECTED" ELSE "TCP_CONNECTING"
  /\ output = IF conn = NULL THEN <<>> ELSE <<"CONNECT">>
  /\ pcb = [p \in Pcbs |-> IF p = conn THEN SynPcb ELSE FreePcb]
  /\ link = [p \in Pcbs |-> NoLink]
  /\ cyclic_tick = 0
  /\ server_watchdog = 0
  /\ pend_req_queue = <<>>
  /\ data_cb = FALSE
  /\ timers = 0
  /\ retry_due = FALSE

\* The tick passes last_mqtt_time + 1000.
Tick ==
  /\ ~retry_due
  /\ retry_due' = TRUE
  /\ UNCHANGED <<clientVars, timers, pcb, link>>

\* The branch of net_process that reconnects, once a second.
RetryWhenDown == conn_state = "TCP_DISCONNECTED" /\ retry_due
RetryAlways   == retry_due
RetryNow      == conn_state # "MQTT_CONNECTED" /\ retry_due

\* mqtt_disconnect, mqtt_client_free, mqtt_example_init.
Reconnect ==
  /\ RetryNow
  /\ retry_due' = FALSE
  /\ IF conn_state = "TCP_DISCONNECTED"
     THEN timers' = timers /\ mqtt_client_connect(pcb)
     ELSE /\ timers' = Untimeout(timers)
          /\ \E f \in ClosedPcbs(conn, pcb) : mqtt_client_connect(f)

\* Connected and the send interval is over: mqtt_publish with QoS 0.
Publish ==
  /\ conn_state = "MQTT_CONNECTED"
  /\ RoomForRequest
  /\ pend_req_queue' = Append(pend_req_queue, "PUB")
  /\ mqtt_output_send(Append(output, "PUBLISH"), conn, link)
  /\ UNCHANGED <<conn_state, conn, cyclic_tick, server_watchdog, data_cb,
                 timers, retry_due, pcb>>

-----------------------------------------------------------------------------
(* TCP events                                                              *)

\* The handshake of p completes: mqtt_tcp_connect_cb.
Connected(p) ==
  /\ pcb[p].state = "SYN_SENT"
  /\ pcb' = [pcb EXCEPT ![p].state = "ESTABLISHED",
                        ![p].cbs = @ \cup {"recv", "sent", "poll"}]
  /\ conn_state' = "MQTT_CONNECTING"
  /\ timers' = timers + 1
  /\ cyclic_tick' = 0
  /\ \E k \in 0..Lesser(Len(output), SndBufMsgs) :
       /\ output' = Rest(output, k)
       /\ link' = [link EXCEPT ![p] = [out |-> FirstOf(output, k), in |-> <<>>,
                                       ack |-> FALSE, srv |-> "open"]]
  /\ UNCHANGED <<conn, server_watchdog, pend_req_queue, data_cb, retry_due>>

\* p is reset by its peer or removed by tcp_slowtmr (retransmissions or the
\* stay in a closing state exhausted): the pcb is freed, mqtt_tcp_err_cb runs
\* if it is installed.
PcbDies(p) ==
  /\ pcb[p].state \in Active
  /\ LET f == [pcb EXCEPT ![p] = FreePcb] IN
       IF "err" \in pcb[p].cbs
       THEN /\ mqtt_close(NULL, f, link, timers)
            /\ UNCHANGED <<cyclic_tick, server_watchdog, output, data_cb>>
       ELSE /\ pcb' = f
            /\ link' = Live(f, link)
            /\ UNCHANGED <<clientVars, timers>>
  /\ UNCHANGED retry_due

\* Data of p is acknowledged: mqtt_tcp_sent_cb.
SentCb(p) ==
  /\ link[p].ack
  /\ LET l == [link EXCEPT ![p].ack = FALSE] IN
       IF "sent" \in pcb[p].cbs /\ conn_state = "MQTT_CONNECTED"
       THEN /\ cyclic_tick' = 0
            /\ server_watchdog' = 0
            /\ pend_req_queue' = OfKind("SUB")
            /\ mqtt_output_send(output, conn, l)
       ELSE /\ link' = l
            /\ UNCHANGED <<cyclic_tick, server_watchdog, pend_req_queue, output>>
  /\ UNCHANGED <<conn_state, conn, data_cb, timers, retry_due, pcb>>

\* The next thing the device sees of p's incoming stream is frame x.  The
\* acknowledgement on a segment is handled before its data.
Arrives(p, x) ==
  /\ link[p].in # <<>>
  /\ Head(link[p].in) = x
  /\ ~link[p].ack

Received(p) == [link EXCEPT ![p].in = Tail(@)]

\* Data for a pcb that tcp_close has marked TF_RXCLOSED (the ones without
\* mqtt_tcp_recv_cb): tcp_input aborts it.
LateData(p) ==
  /\ \E x \in Frame \ {"FIN"} : Arrives(p, x)
  /\ "recv" \notin pcb[p].cbs
  /\ pcb' = [pcb EXCEPT ![p] = FreePcb]
  /\ link' = Live(pcb', link)
  /\ UNCHANGED <<clientVars, timers, retry_due>>

\* mqtt_connection_cb of an accepted connection, with the streams l: it sets
\* the publish callbacks and subscribes (no room: mqtt_sub_unsub gives up).
mqtt_connection_cb(l) ==
  /\ data_cb' = TRUE
  /\ IF RoomForRequest
     THEN /\ pend_req_queue' = Append(pend_req_queue, "SUB")
          /\ mqtt_output_send(Append(output, "SUBSCRIBE"), conn, l)
     ELSE link' = l /\ UNCHANGED <<pend_req_queue, output>>

\* CONNACK, accepted.
RecvConnack(p) ==
  /\ Arrives(p, "CONNACK")
  /\ "recv" \in pcb[p].cbs
  /\ server_watchdog' = 0
  /\ IF conn_state = "MQTT_CONNECTING"
     THEN /\ cyclic_tick' = 0
          /\ conn_state' = "MQTT_CONNECTED"
          /\ mqtt_connection_cb(Received(p))
     ELSE /\ link' = Received(p)
          /\ UNCHANGED <<cyclic_tick, conn_state, data_cb, pend_req_queue, output>>
  /\ UNCHANGED <<conn, timers, retry_due, pcb>>

\* CONNACK, refused: mqtt_close.  If the server's FIN rides on the same
\* segment the receive window is not full and tcp_close resets: pcb freed.
RecvRefused(p) ==
  /\ Arrives(p, "REFUSED")
  /\ "recv" \in pcb[p].cbs
  /\ server_watchdog' = 0
  /\ IF conn_state = "MQTT_CONNECTING"
     THEN \/ mqtt_close(conn, pcb, Received(p), timers)
          \/ mqtt_close(NULL, [pcb EXCEPT ![p] = FreePcb], Received(p), timers)
     ELSE /\ link' = Received(p)
          /\ UNCHANGED <<conn_state, conn, pend_req_queue, timers, pcb>>
  /\ UNCHANGED <<cyclic_tick, output, data_cb, retry_due>>

\* SUBACK completes the pending subscribe request.
RecvSuback(p) ==
  /\ Arrives(p, "SUBACK")
  /\ "recv" \in pcb[p].cbs
  /\ server_watchdog' = 0
  /\ pend_req_queue' = OfKind("PUB")
  /\ link' = Received(p)
  /\ UNCHANGED <<conn_state, conn, cyclic_tick, output, data_cb, timers,
                 retry_due, pcb>>

\* PINGRESP, or a command of the server (QoS 0 PUBLISH, calls client->data_cb).
RecvOther(p) ==
  /\ Arrives(p, "PINGRESP") \/ Arrives(p, "PUBLISH")
  /\ "recv" \in pcb[p].cbs
  /\ server_watchdog' = 0
  /\ link' = Received(p)
  /\ UNCHANGED <<conn_state, conn, cyclic_tick, output, pend_req_queue, data_cb,
                 timers, retry_due, pcb>>

\* The server's FIN.  tcp_process changes the state first; then
\* mqtt_tcp_recv_cb, if installed, is called without data and closes.
RecvFin(p) ==
  /\ Arrives(p, "FIN")
  /\ \E s \in CASE pcb[p].state = "ESTABLISHED" -> {"CLOSE_WAIT"}
                [] pcb[p].state = "FIN_WAIT" -> {"CLOSING", "TIME_WAIT"}
                [] OTHER -> {pcb[p].state} :
       LET f == [pcb EXCEPT ![p].state = s] IN
         IF "recv" \in pcb[p].cbs
         THEN /\ mqtt_close(conn, f, Received(p), timers)
              /\ UNCHANGED <<cyclic_tick, server_watchdog, output, data_cb>>
         ELSE /\ pcb' = f
              /\ link' = Live(f, Received(p))
              /\ UNCHANGED <<clientVars, timers>>
  /\ UNCHANGED retry_due

\* tcp_slowtmr polls p: mqtt_tcp_poll_cb.
Poll(p) ==
  /\ pcb[p].state \in Active
  /\ "poll" \in pcb[p].cbs
  /\ conn_state = "MQTT_CONNECTED"
  /\ mqtt_output_send(output, p, link)
  /\ UNCHANGED <<conn_state, conn, cyclic_tick, server_watchdog, pend_req_queue,
                 data_cb, timers, retry_due, pcb>>

\* tcp_fasttmr retries the FIN of a pcb marked TF_CLOSEPEND.
FastTimer(p) ==
  /\ pcb[p].closepend
  /\ \E r \in RetryOutcomes(pcb[p]) : pcb' = [pcb EXCEPT ![p] = r]
  /\ link' = Live(pcb', link)
  /\ UNCHANGED <<clientVars, timers, retry_due>>

\* The rest of the close handshake and the end of TIME_WAIT.
CloseProgress(p) ==
  /\ \/ pcb[p].state = "CLOSING" /\ pcb' = [pcb EXCEPT ![p].state = "TIME_WAIT"]
     \/ pcb[p].state \in {"LAST_ACK", "TIME_WAIT"} /\ pcb' = [pcb EXCEPT ![p] = FreePcb]
  /\ link' = Live(pcb', link)
  /\ UNCHANGED <<clientVars, timers, retry_due>>

-----------------------------------------------------------------------------
(* mqtt_cyclic_timer                                                       *)

\* Connecting: give up after MQTT_CONNECT_TIMOUT.
ConnectTimer ==
  /\ cyclic_tick' = cyclic_tick + 1
  /\ IF cyclic_tick + 1 >= ConnectTicks
     THEN mqtt_close(conn, pcb, link, timers - 1)
     ELSE UNCHANGED <<conn_state, conn, pend_req_queue, timers, pcb, link>>
  /\ UNCHANGED <<server_watchdog, output, data_cb>>

\* The watchdog counts the ticks without a sign of the server.
RestartedByPing == IF cyclic_tick >= KeepTicks THEN 0 ELSE server_watchdog + 1
Watched == server_watchdog + 1

\* server_watchdog * MQTT_CYCLIC_TIMER_INTERVAL > 1.5 keep_alive, after the
\* increment.
WatchdogLate    == server_watchdog > WatchdogTicks
WatchdogExpired == Watched > WatchdogTicks

\* Connected: requests that timed out leave from the head of the queue; the
\* watchdog closes; then, closed or not, the keep-alive branch runs.
KeepAliveTimer ==
  /\ server_watchdog' = Watched
  /\ IF WatchdogExpired
     THEN mqtt_close(conn, pcb, link, timers - 1)
     ELSE /\ \E k \in 0..Len(pend_req_queue) :
               pend_req_queue' = SubSeq(pend_req_queue, k + 1, Len(pend_req_queue))
          /\ UNCHANGED <<conn_state, conn, timers, pcb, link>>
  /\ IF cyclic_tick < KeepTicks
     THEN cyclic_tick' = cyclic_tick + 1 /\ UNCHANGED output
     ELSE IF Len(output) < RingMsgs
          THEN cyclic_tick' = 0 /\ output' = Append(output, "PINGREQ")
          ELSE UNCHANGED <<cyclic_tick, output>>
  /\ UNCHANGED data_cb

\* The timeout is off the list when the handler runs.  It re-arms itself
\* last, unless the client was closed or is in a state without the timer.
mqtt_cyclic_timer ==
  /\ timers > 0
  /\ CASE conn_state = "MQTT_CONNECTING" -> ConnectTimer
       [] conn_state = "MQTT_CONNECTED"  -> KeepAliveTimer
       [] OTHER -> /\ timers' = timers - 1
                   /\ UNCHANGED <<clientVars, pcb, link>>
  /\ UNCHANGED retry_due

-----------------------------------------------------------------------------
(* The server: a conforming broker that may close at any time              *)

EndOf(s) == IF s = "open" THEN "refused" ELSE "closed"

Reply(p, x, s) ==
  link' = [link EXCEPT ![p].out = Tail(@), ![p].in = Append(@, x),
                       ![p].ack = TRUE, ![p].srv = s]

ServerRecv(p) ==
  LET l == link[p] IN
  /\ l.out # <<>>
  /\ Len(l.in) < NetCap
  /\ \/ /\ l.srv = "open" /\ Head(l.out).kind = "CONNECT"
        /\ Reply(p, "CONNACK", "session") \/ Reply(p, "REFUSED", "refused")
     \/ /\ l.srv \in {"session", "subscribed"} /\ Head(l.out).kind = "SUBSCRIBE"
        /\ Reply(p, "SUBACK", "subscribed")
     \/ /\ l.srv \in {"session", "subscribed"} /\ Head(l.out).kind = "PINGREQ"
        /\ Reply(p, "PINGRESP", l.srv)
     \/ /\ l.srv \in {"session", "subscribed"} /\ Head(l.out).kind = "PUBLISH"
        /\ link' = [link EXCEPT ![p].out = Tail(@), ![p].ack = TRUE]
     \/ \* a protocol violation of the device
        /\ \/ l.srv = "open" /\ Head(l.out).kind # "CONNECT"
           \/ l.srv \in {"session", "subscribed"} /\ Head(l.out).kind = "CONNECT"
        /\ Reply(p, "FIN", EndOf(l.srv))
  /\ UNCHANGED <<clientVars, timers, retry_due, pcb>>

ServerPublish(p) ==
  /\ link[p].srv = "subscribed"
  /\ Len(link[p].in) < NetCap
  /\ link' = [link EXCEPT ![p].in = Append(@, "PUBLISH")]
  /\ UNCHANGED <<clientVars, timers, retry_due, pcb>>

ServerClose(p) ==
  /\ link[p].srv \in {"open", "session", "subscribed"}
  /\ Len(link[p].in) < NetCap
  /\ link' = [link EXCEPT ![p].in = Append(@, "FIN"), ![p].srv = EndOf(@)]
  /\ UNCHANGED <<clientVars, timers, retry_due, pcb>>

-----------------------------------------------------------------------------
Network(p) ==
  \/ Connected(p) \/ PcbDies(p) \/ SentCb(p) \/ LateData(p) \/ RecvConnack(p)
  \/ RecvRefused(p) \/ RecvSuback(p) \/ RecvOther(p) \/ RecvFin(p) \/ Poll(p)
  \/ FastTimer(p) \/ CloseProgress(p)

ServerStep(p) == ServerRecv(p) \/ ServerPublish(p) \/ ServerClose(p)

Next ==
  \/ Tick \/ Reconnect \/ Publish \/ mqtt_cyclic_timer
  \/ \E p \in Pcbs : Network(p) \/ ServerStep(p)

Spec == Init /\ [][Next]_vars

\* The scheduling the properties below rest on: the loop of net_process runs
\* for ever and calls the timers, so the tick, the retry, the cyclic timer and
\* the TCP timers that remove a closing pcb are never put off for ever; lwip's
\* memory is not exhausted at every single attempt to connect or to send a FIN.
Fairness ==
  /\ WF_vars(Tick) /\ WF_vars(Reconnect) /\ WF_vars(mqtt_cyclic_timer)
  /\ SF_vars(Reconnect /\ conn' # NULL)
  /\ \A p \in Pcbs :
       /\ WF_vars(CloseProgress(p))
       /\ WF_vars(pcb[p].state = "FIN_WAIT" /\ PcbDies(p))
       /\ SF_vars(FastTimer(p) /\ ~pcb'[p].closepend)

FairSpec == Spec /\ Fairness

\* In addition the network delivers, the server reads what it is sent, and a
\* poll of the client's pcb does not find lwip out of memory every time.
DeliveryFairness ==
  \A p \in Pcbs :
    /\ SF_vars(Poll(p) /\ link' # link)
    /\ WF_vars(ServerRecv(p)) /\ WF_vars(SentCb(p))
    /\ WF_vars(LateData(p) \/ RecvConnack(p) \/ RecvRefused(p) \/ RecvSuback(p)
               \/ RecvOther(p) \/ RecvFin(p))

-----------------------------------------------------------------------------
(* Properties                                                              *)

\* Every variable has its type; the ring, the request pool and the counters
\* of the client stay within the sizes the code gives them.
TypeOK ==
  /\ conn_state \in ConnState
  /\ conn \in Pcbs \cup {NULL}
  /\ cyclic_tick \in Nat
  /\ server_watchdog \in 0..(WatchdogTicks + 1)
  /\ output \in Seq(Message)
  /\ pend_req_queue \in Seq({"SUB", "PUB"})
  /\ data_cb \in BOOLEAN
  /\ timers \in Nat
  /\ retry_due \in BOOLEAN
  /\ pcb \in [Pcbs -> Pcb]
  /\ link \in [Pcbs -> Link]

\* The client's state and its connection agree: it holds a pcb exactly when it
\* is not disconnected, and that pcb is in the TCP state the client's state
\* stands for, with all its callbacks and not marked for closing.  (mqtt.c
\* tests conn_state everywhere and then uses conn unchecked.)
ConnMatchesState ==
  IF conn_state = "TCP_DISCONNECTED" THEN conn = NULL
  ELSE /\ conn # NULL
       /\ pcb[conn] = IF conn_state = "TCP_CONNECTING" THEN SynPcb
                      ELSE [state |-> "ESTABLISHED", cbs |-> Callback,
                            closepend |-> FALSE]

\* The cyclic timer is armed once while the client is connecting to or
\* connected with the server and not at all otherwise, through every close,
\* reconnect, and close from inside the timer: two would halve the timeouts,
\* one left over would run on the next session.
TimerMatchesState ==
  timers = IF conn_state \in {"MQTT_CONNECTING", "MQTT_CONNECTED"} THEN 1 ELSE 0

\* Events of a pcb the client no longer holds never reach the client through
\* the recv, sent or err callbacks (mqtt_tcp_recv_cb asserts
\* client->conn == pcb): an old connection that dies must not close the new.
CallbacksOnlyFromConn ==
  \A p \in Pcbs : pcb[p].cbs \cap {"recv", "sent", "err"} # {} => p = conn

\* A pcb that is allocated and not the client's is on its way to be freed, by
\* the peer or by a timer: the pool of pcbs is not leaked by reconnects.
NoPcbLeak ==
  \A p \in Pcbs :
    p # conn => \/ pcb[p].state \in {"CLOSED", "FIN_WAIT", "CLOSING", "LAST_ACK",
                                    "TIME_WAIT"}
                \/ pcb[p].closepend

\* The CONNECT message is the first one out on every connection, and the only
\* CONNECT there (a server that has closed reads no more).
ConnectIsFirst ==
  \A p \in Pcbs : link[p].srv \notin Ended =>
    \A i \in 1..Len(link[p].out) :
      (link[p].out[i].kind = "CONNECT") <=> (i = 1 /\ link[p].srv = "open")

\* What a client sends goes out on its own connection only.
OwnStream ==
  \A p \in Pcbs : \A i \in 1..Len(link[p].out) : link[p].out[i].conn = p

\* A device that is not connected dials again: pcbs stuck in closing states
\* cannot exhaust the pool for ever.
Redials == conn_state = "TCP_DISCONNECTED" ~> conn_state = "TCP_CONNECTING"

\* No attempt hangs: the device is connected again and again or it keeps
\* starting over, whatever the server does or does not answer.
KeepsTrying ==
  []<>(conn_state = "MQTT_CONNECTED") \/ []<><<Reconnect>>_vars

\* A server that falls silent is noticed: a client that stays connected hears
\* from it (data or acknowledgements) again and again, else the watchdog closes.
Heard == \E p \in Pcbs :
  SentCb(p) \/ RecvConnack(p) \/ RecvSuback(p) \/ RecvOther(p)
SilenceNoticed ==
  []<>(conn_state # "MQTT_CONNECTED") \/ []<><<Heard>>_vars

\* On a network that delivers, a device that stays connected gets subscribed to
\* its command topic, though it asks only once per connection.
GetsSubscribed ==
  DeliveryFairness =>
    (conn_state = "MQTT_CONNECTED" ~>
       (conn_state # "MQTT_CONNECTED" \/ link[conn].srv \in {"subscribed", "closed"}))

\* The session layer implements its contract.
phaseOf(state) ==
  CASE state = "TCP_DISCONNECTED" -> "down"
    [] state = "TCP_CONNECTING"   -> "dialing"
    [] state = "MQTT_CONNECTING"  -> "handshake"
    [] state = "MQTT_CONNECTED"   -> "online"

brokerOf(srv) ==
  CASE srv = "session" -> "accepted" [] srv = "closed" -> "left" [] OTHER -> srv

Contract == INSTANCE MqttContract WITH
  phase  <- phaseOf(conn_state),
  broker <- IF conn = NULL THEN "none" ELSE brokerOf(link[conn].srv)
ContractKept == Contract!Spec
=============================================================================
