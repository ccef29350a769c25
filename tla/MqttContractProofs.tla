-------------------------- MODULE MqttContractProofs --------------------------
(***************************************************************************)
(* The invariants of MqttSession, and what the session promises over all   *)
(* its connections, for every pool of pcbs and every size of the buffers   *)
(* and counters.  What a client sends goes out on its own connection only, *)
(* if FINs do not fail.  Each step of the session is a step of its         *)
(* contract, whether or not FINs find memory; if they do, the CONNECT      *)
(* message comes first on every connection.                                *)
(***************************************************************************)
EXTENDS MqttSession, SequenceTheorems, FiniteSetTheorems, TLAPS

-----------------------------------------------------------------------------
(* The inductive invariant                                                 *)

Gone == {"CLOSED", "FIN_WAIT", "CLOSING", "LAST_ACK", "TIME_WAIT"}

\* A pcb no client holds: only its poll callback may be left, and it is being
\* closed.
Stale(r) == /\ r.cbs \subseteq {"poll"}
            /\ r.state # "SYN_SENT"
            /\ r.state \in Gone \/ r.closepend

LiveLinks(f, l) == \A p \in Pcbs : f[p].state \notin Carrying => l[p] = NoLink

WatchdogBound ==
  conn_state # "TCP_DISCONNECTED" => server_watchdog <= WatchdogTicks

IInv == /\ TypeOK
        /\ ConnMatchesState
        /\ TimerMatchesState
        /\ \A p \in Pcbs : p # conn => Stale(pcb[p])
        /\ LiveLinks(pcb, link)
        /\ WatchdogBound

-----------------------------------------------------------------------------
(* What the operators on pcbs and streams return                           *)

\* A free pcb, a new one and an empty link have their types.
LEMMA ConstantPcbs ==
  /\ FreePcb \in Pcb /\ SynPcb \in Pcb /\ NoLink \in Link
  /\ Stale(FreePcb)
  BY DEF FreePcb, SynPcb, NoLink, Pcb, Link, TcpState, Callback, Server, Sent,
         Frame, Stale, Gone

\* Closing makes a pcb stale once the recv, err and sent callbacks are gone.
LEMMA CloseOutcome ==
  ASSUME NEW r \in Pcb, r.cbs \subseteq {"poll"}, NEW q \in CloseOutcomes(r)
  PROVE  q \in Pcb /\ Stale(q)
<1>1. CASE r.state = "SYN_SENT"
  BY <1>1, ConstantPcbs DEF CloseOutcomes
<1>2. CASE r.state = "ESTABLISHED"
  BY <1>2 DEF CloseOutcomes, Pcb, TcpState, Stale, Gone
<1>3. CASE r.state = "CLOSE_WAIT"
  BY <1>3 DEF CloseOutcomes, Pcb, TcpState, Stale, Gone
<1>4. CASE r.state \notin {"SYN_SENT", "ESTABLISHED", "CLOSE_WAIT"}
  BY <1>4 DEF CloseOutcomes, Pcb, TcpState, Stale, Gone
<1> QED BY <1>1, <1>2, <1>3, <1>4

\* mqtt_close changes the pcb of the client alone and leaves it stale.
LEMMA ClosedPcb ==
  ASSUME NEW f \in [Pcbs -> Pcb], NEW c \in Pcbs \cup {NULL},
         \A p \in Pcbs : p # c => Stale(f[p]),
         NEW g \in ClosedPcbs(c, f)
  PROVE  g \in [Pcbs -> Pcb] /\ \A p \in Pcbs : Stale(g[p])
<1>1. CASE c = NULL
  BY <1>1, NullAssumption DEF ClosedPcbs
<1>2. CASE c # NULL
  <2> DEFINE r == [f[c] EXCEPT !.cbs = @ \ {"recv", "err", "sent"}]
  <2>1. c \in Pcbs /\ f[c] \in Pcb
    BY <1>2
  <2>2. r \in Pcb /\ r.cbs \subseteq {"poll"}
    BY <2>1 DEF Pcb, Callback
  <2>3. PICK q \in CloseOutcomes(r) : g = [f EXCEPT ![c] = q]
    BY <1>2 DEF ClosedPcbs
  <2>4. q \in Pcb /\ Stale(q)
    BY <2>2, <2>3, CloseOutcome
  <2> QED BY <2>1, <2>3, <2>4
<1> QED BY <1>1, <1>2

\* A FIN retried leaves a stale pcb stale.
LEMMA RetryOutcome ==
  ASSUME NEW r \in Pcb, Stale(r), NEW q \in RetryOutcomes(r)
  PROVE  q \in Pcb /\ Stale(q)
<1>1. CASE r.closepend
  <2>1. [r EXCEPT !.closepend = FALSE] \in Pcb
    BY DEF Pcb
  <2>2. [r EXCEPT !.closepend = FALSE].cbs \subseteq {"poll"}
    BY DEF Pcb, Stale
  <2> QED BY <1>1, <2>1, <2>2, CloseOutcome DEF RetryOutcomes
<1>2. CASE ~r.closepend
  BY <1>2 DEF RetryOutcomes
<1> QED BY <1>1, <1>2

\* Allocation takes a pcb of the pool or none and leaves the others stale.
LEMMA Allocated ==
  ASSUME NEW f \in [Pcbs -> Pcb], \A p \in Pcbs : Stale(f[p]),
         NEW a \in TcpAlloc(f)
  PROVE  /\ a.new \in Pcbs \cup {NULL}
         /\ a.pcbs \in [Pcbs -> Pcb]
         /\ \A p \in Pcbs : Stale(a.pcbs[p])
<1>1. CASE InState(f, "CLOSED") # {}
  BY <1>1 DEF TcpAlloc, InState
<1>2. CASE InState(f, "CLOSED") = {}
  <2>1. PICK g : /\ g \in [Pcbs -> UNION {RetryOutcomes(f[p]) : p \in Pcbs}]
                 /\ \A p \in Pcbs : g[p] \in RetryOutcomes(f[p])
                 /\ a.pcbs = g
                 /\ a.new \in Pcbs \cup {NULL}
    BY <1>2 DEF TcpAlloc, InState
  <2>2. \A p \in Pcbs : g[p] \in Pcb /\ Stale(g[p])
    BY <2>1, RetryOutcome
  <2>3. g \in [Pcbs -> Pcb]
    BY <2>1, <2>2
  <2> QED BY <2>1, <2>2, <2>3
<1> QED BY <1>1, <1>2

\* The streams that survive a change of the pcbs are links, of pcbs that carry.
LEMMA LiveLink ==
  ASSUME NEW f, NEW l \in [Pcbs -> Link]
  PROVE  Live(f, l) \in [Pcbs -> Link] /\ LiveLinks(f, Live(f, l))
  BY ConstantPcbs DEF Live, LiveLinks

-----------------------------------------------------------------------------
(* What the pieces of the handlers preserve                                *)

\* The sent part of the ring is a stream, the rest a ring.
LEMMA Prefix ==
  ASSUME NEW msgs \in Seq(Message), NEW k \in 0..Len(msgs),
         conn \in Pcbs \cup {NULL}
  PROVE  Rest(msgs, k) \in Seq(Message) /\ FirstOf(msgs, k) \in Seq(Sent)
<1>1. Rest(msgs, k) \in Seq(Message)
  BY SubSeqProperties DEF Rest
<1>2. \A i \in 1..k : [kind |-> msgs[i], conn |-> conn] \in Sent
  BY ElementOfSeq DEF Sent
<1> QED BY <1>1, <1>2 DEF FirstOf

\* mqtt_output_send keeps the types of the ring and of the streams.
LEMMA Send ==
  ASSUME TypeOK, NEW msgs \in Seq(Message), NEW p \in Pcbs,
         NEW l \in [Pcbs -> Link], LiveLinks(pcb, l), pcb[p].state # "SYN_SENT",
         mqtt_output_send(msgs, p, l)
  PROVE  /\ output' \in Seq(Message)
         /\ link' \in [Pcbs -> Link]
         /\ LiveLinks(pcb, link')
<1>1. PICK k \in IF pcb[p].state \in Writable
                 THEN 0..Lesser(Len(msgs), SndBufMsgs - Len(l[p].out)) ELSE {0} :
        /\ output' = Rest(msgs, k)
        /\ link' = [l EXCEPT ![p].out = @ \o FirstOf(msgs, k)]
  BY DEF mqtt_output_send
<1>2. k \in 0..Len(msgs)
  BY <1>1, SizeAssumption, LenProperties DEF Lesser, Link
<1>3. output' \in Seq(Message) /\ FirstOf(msgs, k) \in Seq(Sent)
  BY <1>1, <1>2, Prefix DEF TypeOK
<1>4. l[p].out \o FirstOf(msgs, k) \in Seq(Sent)
  BY <1>3, ConcatProperties DEF Link
<1>5. link' \in [Pcbs -> Link]
  BY <1>1, <1>4 DEF Link
<1>6. ASSUME NEW q \in Pcbs, pcb[q].state \notin Carrying PROVE link'[q] = NoLink
  <2>1. l[q] = NoLink
    BY <1>6 DEF LiveLinks
  <2>2. CASE q = p
    <3>1. k = 0
      BY <1>1, <1>6, <2>2 DEF Writable, Carrying
    <3>2. FirstOf(msgs, k) = <<>>
      BY <3>1 DEF FirstOf
    <3>3. l[p].out \o FirstOf(msgs, k) = <<>>
      BY <2>1, <2>2, <3>2 DEF NoLink
    <3>4. link'[p] = [l[p] EXCEPT !.out = <<>>]
      BY <1>1, <3>3
    <3>5. [NoLink EXCEPT !.out = <<>>] = NoLink
      BY DEF NoLink
    <3> QED BY <2>1, <2>2, <3>4, <3>5
  <2> QED BY <1>1, <2>1, <2>2
<1> QED BY <1>3, <1>5, <1>6 DEF LiveLinks

\* The pending requests of one kind are a queue.
LEMMA Filtered ==
  ASSUME TypeOK, NEW kind \in {"SUB", "PUB"}
  PROVE  OfKind(kind) \in Seq({"SUB", "PUB"})
<1> DEFINE S == {j \in 1..Len(pend_req_queue) : pend_req_queue[j] = kind}
<1>1. Len(pend_req_queue) \in Nat
  BY LenProperties DEF TypeOK
<1>2. IsFiniteSet(1..Len(pend_req_queue))
  BY <1>1, FS_Interval
<1>3. Cardinality(S) \in Nat
  BY <1>2, FS_Subset, FS_CardinalityType
<1> HIDE DEF S
<1>4. [i \in 1..Cardinality(S) |-> kind] \in Seq({"SUB", "PUB"})
  BY <1>3
<1> QED BY <1>4 DEF OfKind, S

\* What mqtt_close leaves: no connection, no request, stale pcbs.
LEMMA Close ==
  ASSUME NEW c \in Pcbs \cup {NULL}, NEW f \in [Pcbs -> Pcb],
         NEW l \in [Pcbs -> Link], NEW n \in {0, 1},
         \A p \in Pcbs : p # c => Stale(f[p]),
         mqtt_close(c, f, l, n)
  PROVE  /\ pcb' \in [Pcbs -> Pcb]
         /\ link' \in [Pcbs -> Link]
         /\ \A p \in Pcbs : Stale(pcb'[p])
         /\ LiveLinks(pcb', link')
         /\ conn' = NULL /\ conn_state' = "TCP_DISCONNECTED"
         /\ pend_req_queue' = <<>> /\ timers' = 0
  BY ClosedPcb, LiveLink DEF mqtt_close, Untimeout

\* What mqtt_client_connect leaves, started with stale pcbs only.
LEMMA Connect ==
  ASSUME NEW f \in [Pcbs -> Pcb], \A p \in Pcbs : Stale(f[p]),
         link \in [Pcbs -> Link], retry_due' \in BOOLEAN, timers' = 0,
         mqtt_client_connect(f)
  PROVE  IInv'
<1>1. PICK a \in TcpAlloc(f) :
       \/ /\ pcb' = IF a.new = NULL THEN a.pcbs
                    ELSE [a.pcbs EXCEPT ![a.new] = FreePcb]
          /\ conn' = NULL
          /\ conn_state' = "TCP_DISCONNECTED"
          /\ output' = <<>>
       \/ /\ a.new # NULL
          /\ pcb' = [a.pcbs EXCEPT ![a.new] = SynPcb]
          /\ conn' = a.new
          /\ conn_state' = "TCP_CONNECTING"
          /\ output' = <<"CONNECT">>
  BY DEF mqtt_client_connect
<1>2. /\ a.new \in Pcbs \cup {NULL}
      /\ a.pcbs \in [Pcbs -> Pcb]
      /\ \A p \in Pcbs : Stale(a.pcbs[p])
  BY Allocated
<1>3. pcb' \in [Pcbs -> Pcb]
  BY <1>1, <1>2, ConstantPcbs
<1>4. link' \in [Pcbs -> Link] /\ LiveLinks(pcb', link')
  BY LiveLink DEF mqtt_client_connect
<1>5. TypeOK'
  <2>1. conn_state' \in ConnState /\ conn' \in Pcbs \cup {NULL}
    BY <1>1, <1>2 DEF ConnState
  <2>2. output' \in Seq(Message)
    <3>1. <<>> \in Seq(Message) /\ <<"CONNECT">> \in Seq(Message)
      BY DEF Message
    <3> QED BY <1>1, <3>1
  <2>3. /\ cyclic_tick' = 0 /\ server_watchdog' = 0
        /\ pend_req_queue' = <<>> /\ data_cb' = FALSE
    BY DEF mqtt_client_connect
  <2>4. cyclic_tick' \in Nat /\ server_watchdog' \in 0..(WatchdogTicks + 1)
    BY <2>3, TickAssumption
  <2>5. pend_req_queue' \in Seq({"SUB", "PUB"})
    BY <2>3
  <2>6. data_cb' \in BOOLEAN
    BY <2>3
  <2>7. timers' \in Nat
    OBVIOUS
  <2> QED BY <1>3, <1>4, <2>1, <2>2, <2>4, <2>5, <2>6, <2>7, Zenon DEF TypeOK
<1>6. ConnMatchesState'
  BY <1>1, <1>2, NullAssumption DEF ConnMatchesState
<1>7. (\A p \in Pcbs : p # conn => Stale(pcb[p]))'
  BY <1>1, <1>2, NullAssumption, ConstantPcbs
<1>8. TimerMatchesState' /\ WatchdogBound'
  BY <1>1, TickAssumption DEF TimerMatchesState, WatchdogBound, mqtt_client_connect
<1>9. LiveLinks(pcb, link)'
  BY <1>4
<1> QED BY <1>5, <1>6, <1>7, <1>8, <1>9 DEF IInv

\* After mqtt_close.
LEMMA ClosedInv ==
  ASSUME pcb' \in [Pcbs -> Pcb], link' \in [Pcbs -> Link],
         \A p \in Pcbs : Stale(pcb'[p]), LiveLinks(pcb', link'),
         conn' = NULL, conn_state' = "TCP_DISCONNECTED",
         pend_req_queue' = <<>>, timers' = 0,
         cyclic_tick' \in Nat, server_watchdog' \in 0..(WatchdogTicks + 1),
         output' \in Seq(Message), data_cb' \in BOOLEAN, retry_due' \in BOOLEAN
  PROVE  IInv'
<1>1. conn_state' \in ConnState /\ conn' \in Pcbs \cup {NULL}
  BY DEF ConnState
<1>2. pend_req_queue' \in Seq({"SUB", "PUB"}) /\ timers' \in Nat
  OBVIOUS
<1>3. TypeOK'
  BY <1>1, <1>2, Zenon DEF TypeOK
<1>4. ConnMatchesState' /\ TimerMatchesState' /\ WatchdogBound'
  BY DEF ConnMatchesState, TimerMatchesState, WatchdogBound
<1>5. (\A p \in Pcbs : p # conn => Stale(pcb[p]))' /\ LiveLinks(pcb, link)'
  OBVIOUS
<1> QED BY <1>3, <1>4, <1>5 DEF IInv

\* After a handler that leaves the connection as it was.
LEMMA KeptInv ==
  ASSUME IInv, TypeOK', conn' = conn, conn_state' = conn_state, pcb' = pcb,
         timers' = timers, LiveLinks(pcb, link'), WatchdogBound'
  PROVE  IInv'
<1>1. ConnMatchesState' /\ TimerMatchesState'
  BY DEF IInv, ConnMatchesState, TimerMatchesState
<1>2. (\A p \in Pcbs : p # conn => Stale(pcb[p]))' /\ LiveLinks(pcb, link)'
  BY DEF IInv
<1> QED BY <1>1, <1>2 DEF IInv

\* After an event that concerns a pcb no client holds.
LEMMA StaleInv ==
  ASSUME IInv, NEW p \in Pcbs, p # conn, NEW r \in Pcb, Stale(r),
         NEW l \in [Pcbs -> Link],
         pcb' = [pcb EXCEPT ![p] = r], link' = Live(pcb', l),
         UNCHANGED <<clientVars, timers, retry_due>>
  PROVE  IInv'
<1> USE DEF IInv, clientVars
<1>1. pcb' \in [Pcbs -> Pcb]
  BY DEF TypeOK
<1>2. link' \in [Pcbs -> Link] /\ LiveLinks(pcb, link)'
  BY LiveLink
<1>3. TypeOK'
  BY <1>1, <1>2, Zenon DEF TypeOK
<1>4. ConnMatchesState' /\ TimerMatchesState' /\ WatchdogBound'
  BY <1>1 DEF TypeOK, ConnMatchesState, TimerMatchesState, WatchdogBound
<1>5. (\A q \in Pcbs : q # conn => Stale(pcb[q]))'
  BY DEF TypeOK
<1> QED BY <1>2, <1>3, <1>4, <1>5

-----------------------------------------------------------------------------
(* The actions                                                             *)

\* The facts about the acting pcb that the handlers rely on.
LEMMA CallbackPcb ==
  ASSUME IInv, NEW p \in Pcbs
  PROVE  /\ pcb[p].cbs \cap {"recv", "sent", "err"} # {} => p = conn
         /\ pcb[p].state = "SYN_SENT" => p = conn /\ conn_state = "TCP_CONNECTING"
         /\ pcb[p].closepend => p # conn
         /\ pcb[p].state \in {"CLOSED", "FIN_WAIT", "CLOSING", "LAST_ACK", "TIME_WAIT"}
              => p # conn
         /\ "recv" \in pcb[p].cbs =>
              /\ conn_state \in {"MQTT_CONNECTING", "MQTT_CONNECTED"}
              /\ pcb[p] = [state |-> "ESTABLISHED", cbs |-> Callback,
                           closepend |-> FALSE]
         /\ link[p].in # <<>> /\ "recv" \notin pcb[p].cbs => p # conn
<1>1. CASE p # conn
  BY <1>1 DEF IInv, Stale
<1>2. CASE p = conn
  <2>1. conn_state \in ConnState /\ p # NULL
    BY NullAssumption DEF IInv, TypeOK
  <2>2. CASE conn_state = "TCP_CONNECTING"
    <3>1. pcb[p] = SynPcb
      BY <1>2, <2>2 DEF IInv, ConnMatchesState
    <3>2. link[p] = NoLink
      BY <3>1 DEF IInv, LiveLinks, SynPcb, Carrying
    <3> QED BY <1>2, <2>2, <3>1, <3>2 DEF SynPcb, NoLink
  <2>3. CASE conn_state \in {"MQTT_CONNECTING", "MQTT_CONNECTED"}
    <3>1. pcb[p] = [state |-> "ESTABLISHED", cbs |-> Callback, closepend |-> FALSE]
      BY <1>2, <2>3 DEF IInv, ConnMatchesState
    <3> QED BY <1>2, <2>3, <3>1 DEF Callback
  <2> QED BY <1>2, <2>1, <2>2, <2>3 DEF ConnState, IInv, ConnMatchesState
<1> QED BY <1>1, <1>2

\* The client writes on a pcb only once its handshake is over.
LEMMA OpenConn ==
  ASSUME IInv, conn_state \in {"MQTT_CONNECTING", "MQTT_CONNECTED"}
  PROVE  conn \in Pcbs /\ pcb[conn].state # "SYN_SENT"
  BY DEF IInv, TypeOK, ConnMatchesState

\* net_process: time passes.
LEMMA TickInv == ASSUME IInv, Tick PROVE IInv'
<1> USE DEF IInv, Tick, clientVars
<1>1. TypeOK'
  BY DEF TypeOK
<1>2. WatchdogBound'
  BY DEF WatchdogBound
<1> QED BY <1>1, <1>2, KeptInv

\* net_process: mqtt_disconnect, mqtt_client_free, mqtt_example_init.
LEMMA ReconnectInv == ASSUME IInv, Reconnect PROVE IInv'
<1>1. timers' = 0
  <2>1. timers \in {0, 1} /\ (conn_state = "TCP_DISCONNECTED" => timers = 0)
    BY DEF IInv, TimerMatchesState
  <2>3. conn_state = "TCP_DISCONNECTED" => timers' = timers
    BY DEF Reconnect
  <2>4. conn_state # "TCP_DISCONNECTED" => timers' = Untimeout(timers)
    BY DEF Reconnect
  <2> QED BY <2>1, <2>3, <2>4 DEF Untimeout
<1>2. retry_due' \in BOOLEAN
  BY DEF Reconnect
<1>3. link \in [Pcbs -> Link] /\ pcb \in [Pcbs -> Pcb] /\ conn \in Pcbs \cup {NULL}
  BY DEF IInv, TypeOK
<1>4. CASE conn_state = "TCP_DISCONNECTED"
  <2>1. \A p \in Pcbs : Stale(pcb[p])
    BY <1>4, NullAssumption DEF IInv, ConnMatchesState
  <2>2. mqtt_client_connect(pcb)
    BY <1>4 DEF Reconnect
  <2> QED BY <1>1, <1>3, <1>2, <2>1, <2>2, Connect
<1>5. CASE conn_state # "TCP_DISCONNECTED"
  <2>1. PICK f \in ClosedPcbs(conn, pcb) : mqtt_client_connect(f)
    BY <1>5 DEF Reconnect
  <2>2. f \in [Pcbs -> Pcb] /\ \A p \in Pcbs : Stale(f[p])
    BY <1>3, ClosedPcb DEF IInv
  <2> QED BY <1>1, <1>3, <1>2, <2>1, <2>2, Connect
<1> QED BY <1>4, <1>5

\* net_process: a publish.
LEMMA PublishInv == ASSUME IInv, Publish PROVE IInv'
<1> USE DEF IInv, Publish
<1>1. conn \in Pcbs /\ pcb[conn].state # "SYN_SENT"
  BY OpenConn
<1>2. Append(output, "PUBLISH") \in Seq(Message)
  BY AppendProperties DEF TypeOK, Message
<1>3. output' \in Seq(Message) /\ link' \in [Pcbs -> Link] /\ LiveLinks(pcb, link')
  BY <1>1, <1>2, Send DEF TypeOK
<1>4. pend_req_queue' \in Seq({"SUB", "PUB"})
  BY AppendProperties DEF TypeOK
<1>5. TypeOK'
  BY <1>3, <1>4, Zenon DEF TypeOK
<1>6. WatchdogBound'
  BY DEF WatchdogBound
<1> QED BY <1>3, <1>5, <1>6, KeptInv

\* mqtt_tcp_connect_cb.
LEMMA ConnectedInv ==
  ASSUME IInv, NEW p \in Pcbs, Connected(p) PROVE IInv'
<1>1. p = conn /\ conn_state = "TCP_CONNECTING" /\ pcb[p] = SynPcb /\ timers = 0
  BY CallbackPcb DEF Connected, IInv, ConnMatchesState, TimerMatchesState
<1>2. pcb' = [pcb EXCEPT ![p] = [state |-> "ESTABLISHED", cbs |-> Callback,
                                 closepend |-> FALSE]]
  <2>1. pcb' = [pcb EXCEPT ![p].state = "ESTABLISHED",
                           ![p].cbs = @ \cup {"recv", "sent", "poll"}]
    BY DEF Connected
  <2> DEFINE r == [pcb[p] EXCEPT !.state = "ESTABLISHED",
                                 !.cbs = @ \cup {"recv", "sent", "poll"}]
  <2>2. pcb' = [pcb EXCEPT ![p] = r]
    BY <2>1 DEF IInv, TypeOK, Pcb
  <2>3. pcb[p] \in Pcb
    BY DEF IInv, TypeOK
  <2>4. r \in Pcb
    BY <2>3 DEF Pcb, TcpState, Callback
  <2>5. r.state = "ESTABLISHED" /\ r.cbs = Callback /\ r.closepend = FALSE
    BY <1>1, <2>3 DEF Pcb, SynPcb, Callback
  <2>6. r = [state |-> "ESTABLISHED", cbs |-> Callback, closepend |-> FALSE]
    <3> HIDE DEF r
    <3> QED BY <2>4, <2>5 DEF Pcb
  <2> QED BY <2>2, <2>6
<1>3. /\ pcb' \in [Pcbs -> Pcb]
      /\ pcb'[p] = [state |-> "ESTABLISHED", cbs |-> Callback, closepend |-> FALSE]
      /\ \A q \in Pcbs : q # p => pcb'[q] = pcb[q]
  BY <1>2 DEF IInv, TypeOK, Pcb, TcpState, Callback
<1>4. /\ output' \in Seq(Message)
      /\ link' \in [Pcbs -> Link]
      /\ \A q \in Pcbs : q # p => link'[q] = link[q]
  <2>1. PICK k \in 0..Lesser(Len(output), SndBufMsgs) :
          /\ output' = Rest(output, k)
          /\ link' = [link EXCEPT ![p] = [out |-> FirstOf(output, k), in |-> <<>>,
                                          ack |-> FALSE, srv |-> "open"]]
    BY DEF Connected
  <2>2. output \in Seq(Message) /\ conn \in Pcbs \cup {NULL} /\ link \in [Pcbs -> Link]
    BY DEF IInv, TypeOK
  <2>3. k \in 0..Len(output)
    BY <2>1, <2>2, SizeAssumption, LenProperties DEF Lesser
  <2>4. output' \in Seq(Message) /\ FirstOf(output, k) \in Seq(Sent)
    BY <2>1, <2>2, <2>3, Prefix
  <2>5. <<>> \in Seq(Frame) /\ "open" \in Server
    BY DEF Server
  <2>6. [out |-> FirstOf(output, k), in |-> <<>>, ack |-> FALSE, srv |-> "open"] \in Link
    BY <2>4, <2>5 DEF Link
  <2> QED BY <2>1, <2>2, <2>4, <2>6
<1>5. TypeOK'
  <2>1. conn_state' \in ConnState
    BY DEF Connected, ConnState
  <2>2. timers' \in Nat /\ cyclic_tick' \in Nat
    BY <1>1 DEF Connected
  <2> QED BY <1>3, <1>4, <2>1, <2>2, Zenon DEF TypeOK, IInv, Connected
<1>6. conn' = conn /\ conn_state' = "MQTT_CONNECTING"
  BY DEF Connected
<1>7. ConnMatchesState' /\ TimerMatchesState'
  BY <1>1, <1>3, <1>6, NullAssumption DEF ConnMatchesState, TimerMatchesState, Connected
<1>8. (\A q \in Pcbs : q # conn => Stale(pcb[q]))'
  BY <1>1, <1>3, <1>6 DEF IInv
<1>9. LiveLinks(pcb, link)'
  BY <1>3, <1>4 DEF IInv, LiveLinks, Carrying
<1>10. WatchdogBound'
  BY <1>1 DEF IInv, WatchdogBound, Connected
<1> QED BY <1>5, <1>7, <1>8, <1>9, <1>10 DEF IInv

\* A reset or the slow timer, with mqtt_tcp_err_cb if it is installed.
LEMMA PcbDiesInv ==
  ASSUME IInv, NEW p \in Pcbs, PcbDies(p) PROVE IInv'
<1> DEFINE f == [pcb EXCEPT ![p] = FreePcb]
<1>1. /\ f \in [Pcbs -> Pcb] /\ link \in [Pcbs -> Link]
      /\ conn \in Pcbs \cup {NULL}
  BY ConstantPcbs DEF IInv, TypeOK
<1>2. CASE "err" \in pcb[p].cbs
  <2>1. p = conn
    BY <1>2, CallbackPcb
  <2>2. \A q \in Pcbs : Stale(f[q])
    BY <1>1, <2>1, ConstantPcbs DEF IInv
  <2>3. mqtt_close(NULL, f, link, timers)
    BY <1>2 DEF PcbDies
  <2>4. timers \in {0, 1}
    BY DEF IInv, TimerMatchesState
  <2>5. /\ pcb' \in [Pcbs -> Pcb] /\ link' \in [Pcbs -> Link]
        /\ \A q \in Pcbs : Stale(pcb'[q])
        /\ LiveLinks(pcb', link')
        /\ conn' = NULL /\ conn_state' = "TCP_DISCONNECTED"
        /\ pend_req_queue' = <<>> /\ timers' = 0
    <3>1. NULL \in Pcbs \cup {NULL} /\ \A q \in Pcbs : q # NULL => Stale(f[q])
      BY <2>2
    <3> HIDE DEF f
    <3> QED BY <1>1, <2>3, <2>4, <3>1, Close
  <2>6. /\ cyclic_tick' \in Nat /\ server_watchdog' \in 0..(WatchdogTicks + 1)
        /\ output' \in Seq(Message) /\ data_cb' \in BOOLEAN /\ retry_due' \in BOOLEAN
    BY <1>2, Zenon DEF PcbDies, IInv, TypeOK
  <2> QED BY <2>5, <2>6, ClosedInv
<1>3. CASE "err" \notin pcb[p].cbs
  <2>1. p # conn
    <3>1. pcb[p].state # "CLOSED"
      BY DEF PcbDies, Active
    <3>2. p = conn => "err" \in pcb[p].cbs
      BY NullAssumption DEF IInv, ConnMatchesState, SynPcb, Callback
    <3> QED BY <1>3, <3>2
  <2>2. /\ pcb' = f /\ link' = Live(pcb', link)
        /\ UNCHANGED <<clientVars, timers, retry_due>>
    BY <1>3 DEF PcbDies
  <2> QED BY <1>1, <2>1, <2>2, ConstantPcbs, StaleInv
<1> QED BY <1>2, <1>3

\* mqtt_tcp_sent_cb.
LEMMA SentCbInv ==
  ASSUME IInv, NEW p \in Pcbs, SentCb(p) PROVE IInv'
<1> DEFINE l == [link EXCEPT ![p].ack = FALSE]
<1>1. link[p] \in Link /\ link \in [Pcbs -> Link]
  BY DEF IInv, TypeOK
<1>2. l \in [Pcbs -> Link]
  BY <1>1 DEF Link
<1>3. LiveLinks(pcb, l)
  <2>1. link[p] # NoLink
    BY DEF SentCb, NoLink
  <2>2. pcb[p].state \in Carrying
    BY <2>1 DEF IInv, LiveLinks
  <2> QED BY <1>1, <2>2 DEF IInv, LiveLinks
<1>4. UNCHANGED <<conn_state, conn, data_cb, timers, retry_due, pcb>>
  BY DEF SentCb
<1>5. CASE "sent" \in pcb[p].cbs /\ conn_state = "MQTT_CONNECTED"
  <2>1. conn \in Pcbs /\ pcb[conn].state # "SYN_SENT"
    BY <1>5, OpenConn
  <2>2. mqtt_output_send(output, conn, l) /\ cyclic_tick' = 0 /\ server_watchdog' = 0
        /\ pend_req_queue' = OfKind("SUB")
    BY <1>5 DEF SentCb
  <2>3. output' \in Seq(Message) /\ link' \in [Pcbs -> Link] /\ LiveLinks(pcb, link')
    BY <1>2, <1>3, <2>1, <2>2, Send DEF IInv, TypeOK
  <2>4. pend_req_queue' \in Seq({"SUB", "PUB"})
    BY <2>2, Filtered DEF IInv
  <2>5. cyclic_tick' \in Nat /\ server_watchdog' \in 0..(WatchdogTicks + 1)
    BY <2>2, TickAssumption
  <2>6. TypeOK'
    BY <1>4, <2>3, <2>4, <2>5, Zenon DEF IInv, TypeOK
  <2>7. WatchdogBound'
    BY <2>2, TickAssumption DEF WatchdogBound
  <2> QED BY <1>4, <2>3, <2>6, <2>7, KeptInv
<1>6. CASE ~("sent" \in pcb[p].cbs /\ conn_state = "MQTT_CONNECTED")
  <2>1. link' = l /\ UNCHANGED <<cyclic_tick, server_watchdog, pend_req_queue, output>>
    BY <1>6 DEF SentCb
  <2>2. TypeOK'
    BY <1>2, <1>4, <2>1, Zenon DEF IInv, TypeOK
  <2>3. WatchdogBound'
    BY <1>4, <2>1 DEF IInv, WatchdogBound
  <2> QED BY <1>3, <1>4, <2>1, <2>2, <2>3, KeptInv
<1> QED BY <1>5, <1>6

\* Data for a pcb that was closed.
LEMMA LateDataInv ==
  ASSUME IInv, NEW p \in Pcbs, LateData(p) PROVE IInv'
<1>1. p # conn
  BY CallbackPcb DEF LateData, Arrives
<1>2. link \in [Pcbs -> Link]
  BY DEF IInv, TypeOK
<1>3. /\ pcb' = [pcb EXCEPT ![p] = FreePcb] /\ link' = Live(pcb', link)
      /\ UNCHANGED <<clientVars, timers, retry_due>>
  BY DEF LateData
<1> QED BY <1>1, <1>2, <1>3, ConstantPcbs, StaleInv

\* Taking a frame from a stream.
LEMMA Taken ==
  ASSUME IInv, NEW p \in Pcbs, link[p].in # <<>>
  PROVE  Received(p) \in [Pcbs -> Link] /\ LiveLinks(pcb, Received(p))
<1>1. link \in [Pcbs -> Link] /\ link[p] \in Link
  BY DEF IInv, TypeOK
<1>2. Tail(link[p].in) \in Seq(Frame)
  BY <1>1, HeadTailProperties DEF Link
<1>3. Received(p) \in [Pcbs -> Link]
  BY <1>1, <1>2 DEF Link, Received
<1>4. link[p] # NoLink
  BY DEF NoLink
<1>5. pcb[p].state \in Carrying
  BY <1>4 DEF IInv, LiveLinks
<1>6. LiveLinks(pcb, Received(p))
  BY <1>1, <1>5 DEF IInv, LiveLinks, Received
<1> QED BY <1>3, <1>6

\* mqtt_tcp_recv_cb: an accepted connection.
LEMMA RecvConnackInv ==
  ASSUME IInv, NEW p \in Pcbs, RecvConnack(p) PROVE IInv'
<1>1. /\ p = conn
      /\ pcb[p] = [state |-> "ESTABLISHED", cbs |-> Callback, closepend |-> FALSE]
      /\ conn_state \in {"MQTT_CONNECTING", "MQTT_CONNECTED"}
  <2>1. "recv" \in pcb[p].cbs /\ pcb[p].cbs \cap {"recv", "sent", "err"} # {}
    BY DEF RecvConnack
  <2> QED BY <2>1, CallbackPcb
<1>2. Received(p) \in [Pcbs -> Link] /\ LiveLinks(pcb, Received(p))
  BY Taken DEF RecvConnack, Arrives
<1>3. UNCHANGED <<conn, timers, retry_due, pcb>> /\ server_watchdog' = 0
  BY DEF RecvConnack
<1>4. server_watchdog' \in 0..(WatchdogTicks + 1)
  BY <1>3, TickAssumption
<1>5. CASE conn_state = "MQTT_CONNECTING"
  <2>1. cyclic_tick' = 0 /\ conn_state' = "MQTT_CONNECTED"
        /\ mqtt_connection_cb(Received(p))
    BY <1>5 DEF RecvConnack
  <2>2. /\ output' \in Seq(Message) /\ link' \in [Pcbs -> Link]
        /\ LiveLinks(pcb, link')
        /\ pend_req_queue' \in Seq({"SUB", "PUB"})
    <3>1. CASE RoomForRequest
      <4>1. Append(output, "SUBSCRIBE") \in Seq(Message)
        BY AppendProperties DEF IInv, TypeOK, Message
      <4>2. mqtt_output_send(Append(output, "SUBSCRIBE"), conn, Received(p))
            /\ pend_req_queue' = Append(pend_req_queue, "SUB")
        BY <2>1, <3>1 DEF mqtt_connection_cb
      <4>3. pend_req_queue' \in Seq({"SUB", "PUB"})
        BY <4>2, AppendProperties DEF IInv, TypeOK
      <4>4. conn \in Pcbs /\ pcb[conn].state # "SYN_SENT"
        BY <1>1, OpenConn
      <4>5. link' \in [Pcbs -> Link] /\ output' \in Seq(Message) /\ LiveLinks(pcb, link')
        BY <1>2, <4>1, <4>2, <4>4, Send DEF IInv
      <4> QED BY <4>3, <4>5
    <3>2. CASE ~RoomForRequest
      BY <1>2, <2>1, <3>2 DEF mqtt_connection_cb, IInv, TypeOK
    <3> QED BY <3>1, <3>2
  <2>3. data_cb' \in BOOLEAN
    BY <2>1 DEF mqtt_connection_cb
  <2>4. cyclic_tick' \in Nat /\ conn_state' \in ConnState
    BY <2>1 DEF ConnState
  <2>5. TypeOK'
    BY <1>3, <1>4, <2>2, <2>3, <2>4, Zenon DEF IInv, TypeOK
  <2>6. conn # NULL
    BY <1>1, NullAssumption
  <2>7. ConnMatchesState' /\ TimerMatchesState'
    BY <1>1, <1>3, <1>5, <2>1, <2>6 DEF IInv, ConnMatchesState, TimerMatchesState
  <2>8. WatchdogBound'
    BY <1>3, TickAssumption DEF WatchdogBound
  <2> QED BY <1>3, <2>2, <2>5, <2>7, <2>8 DEF IInv
<1>6. CASE conn_state # "MQTT_CONNECTING"
  <2>1. link' = Received(p)
        /\ UNCHANGED <<cyclic_tick, conn_state, data_cb, pend_req_queue, output>>
    BY <1>6 DEF RecvConnack
  <2>2. TypeOK'
    BY <1>2, <1>3, <1>4, <2>1, Zenon DEF IInv, TypeOK
  <2>3. WatchdogBound'
    BY <1>3, TickAssumption DEF WatchdogBound
  <2> QED BY <1>2, <1>3, <2>1, <2>2, <2>3, KeptInv
<1> QED BY <1>5, <1>6

\* mqtt_tcp_recv_cb: a refused connection.
LEMMA RecvRefusedInv ==
  ASSUME IInv, NEW p \in Pcbs, RecvRefused(p) PROVE IInv'
<1> DEFINE f == [pcb EXCEPT ![p] = FreePcb]
<1>1. p = conn
  BY CallbackPcb DEF RecvRefused
<1>2. Received(p) \in [Pcbs -> Link] /\ LiveLinks(pcb, Received(p))
  BY Taken DEF RecvRefused, Arrives
<1>3. UNCHANGED <<cyclic_tick, output, data_cb, retry_due>> /\ server_watchdog' = 0
  BY DEF RecvRefused
<1>4. server_watchdog' \in 0..(WatchdogTicks + 1)
  BY <1>3, TickAssumption
<1>5. f \in [Pcbs -> Pcb] /\ pcb \in [Pcbs -> Pcb]
  BY ConstantPcbs DEF IInv, TypeOK
<1>6. CASE conn_state = "MQTT_CONNECTING"
  <2>1. timers \in {0, 1}
    BY DEF IInv, TimerMatchesState
  <2>2. \A q \in Pcbs : q # NULL => Stale(f[q])
    BY <1>1, <1>5, ConstantPcbs DEF IInv
  <2>3. \/ mqtt_close(conn, pcb, Received(p), timers)
        \/ mqtt_close(NULL, f, Received(p), timers)
    BY <1>6 DEF RecvRefused
  <2>4. /\ pcb' \in [Pcbs -> Pcb] /\ link' \in [Pcbs -> Link]
        /\ \A q \in Pcbs : Stale(pcb'[q])
        /\ LiveLinks(pcb', link')
        /\ conn' = NULL /\ conn_state' = "TCP_DISCONNECTED"
        /\ pend_req_queue' = <<>> /\ timers' = 0
    <3>1. CASE mqtt_close(conn, pcb, Received(p), timers)
      BY <1>1, <1>2, <1>5, <2>1, <3>1, Close DEF IInv
    <3>2. CASE mqtt_close(NULL, f, Received(p), timers)
      <4>1. NULL \in Pcbs \cup {NULL}
        OBVIOUS
      <4> HIDE DEF f
      <4>2. /\ pcb' \in ClosedPcbs(NULL, f) /\ link' = Live(pcb', Received(p))
            /\ conn' = NULL /\ conn_state' = "TCP_DISCONNECTED"
            /\ pend_req_queue' = <<>> /\ timers' = Untimeout(timers)
        BY <3>2 DEF mqtt_close
      <4>3. pcb' \in [Pcbs -> Pcb] /\ \A q \in Pcbs : Stale(pcb'[q])
        BY <1>5, <2>2, <4>1, <4>2, ClosedPcb
      <4>4. link' \in [Pcbs -> Link] /\ LiveLinks(pcb', link')
        BY <1>2, <4>2, LiveLink
      <4>5. timers' = 0
        BY <2>1, <4>2 DEF Untimeout
      <4> QED BY <4>2, <4>3, <4>4, <4>5
    <3> QED BY <2>3, <3>1, <3>2
  <2>5. /\ cyclic_tick' \in Nat /\ output' \in Seq(Message)
        /\ data_cb' \in BOOLEAN /\ retry_due' \in BOOLEAN
    BY <1>3, Zenon DEF IInv, TypeOK
  <2> QED BY <1>4, <2>4, <2>5, ClosedInv
<1>7. CASE conn_state # "MQTT_CONNECTING"
  <2>1. link' = Received(p)
        /\ UNCHANGED <<conn_state, conn, pend_req_queue, timers, pcb>>
    BY <1>7 DEF RecvRefused
  <2>2. TypeOK'
    BY <1>2, <1>3, <1>4, <2>1, Zenon DEF IInv, TypeOK
  <2>3. WatchdogBound'
    BY <1>3, TickAssumption DEF WatchdogBound
  <2> QED BY <1>2, <1>3, <2>1, <2>2, <2>3, KeptInv
<1> QED BY <1>6, <1>7

\* mqtt_tcp_recv_cb: a SUBACK.
LEMMA RecvSubackInv ==
  ASSUME IInv, NEW p \in Pcbs, RecvSuback(p) PROVE IInv'
<1>1. Received(p) \in [Pcbs -> Link] /\ LiveLinks(pcb, Received(p))
  BY Taken DEF RecvSuback, Arrives
<1>2. /\ server_watchdog' = 0 /\ pend_req_queue' = OfKind("PUB")
      /\ link' = Received(p)
      /\ UNCHANGED <<conn_state, conn, cyclic_tick, output, data_cb, timers,
                     retry_due, pcb>>
  BY DEF RecvSuback
<1>3. server_watchdog' \in 0..(WatchdogTicks + 1)
  BY <1>2, TickAssumption
<1>4. pend_req_queue' \in Seq({"SUB", "PUB"})
  BY <1>2, Filtered DEF IInv
<1>5. TypeOK'
  BY <1>1, <1>2, <1>3, <1>4, Zenon DEF IInv, TypeOK
<1>6. WatchdogBound'
  BY <1>2, TickAssumption DEF WatchdogBound
<1> QED BY <1>1, <1>2, <1>5, <1>6, KeptInv

\* mqtt_tcp_recv_cb: any other frame.
LEMMA RecvOtherInv ==
  ASSUME IInv, NEW p \in Pcbs, RecvOther(p) PROVE IInv'
<1>1. Received(p) \in [Pcbs -> Link] /\ LiveLinks(pcb, Received(p))
  BY Taken DEF RecvOther, Arrives
<1>2. /\ server_watchdog' = 0 /\ link' = Received(p)
      /\ UNCHANGED <<conn_state, conn, cyclic_tick, output, pend_req_queue,
                     data_cb, timers, retry_due, pcb>>
  BY DEF RecvOther
<1>3. server_watchdog' \in 0..(WatchdogTicks + 1)
  BY <1>2, TickAssumption
<1>4. TypeOK'
  BY <1>1, <1>2, <1>3, Zenon DEF IInv, TypeOK
<1>5. WatchdogBound'
  BY <1>2, TickAssumption DEF WatchdogBound
<1> QED BY <1>1, <1>2, <1>4, <1>5, KeptInv

\* The end of the incoming stream.
LEMMA RecvFinInv ==
  ASSUME IInv, NEW p \in Pcbs, RecvFin(p) PROVE IInv'
<1>1. PICK s \in CASE pcb[p].state = "ESTABLISHED" -> {"CLOSE_WAIT"}
                   [] pcb[p].state = "FIN_WAIT" -> {"CLOSING", "TIME_WAIT"}
                   [] OTHER -> {pcb[p].state} :
        LET f == [pcb EXCEPT ![p].state = s] IN
         IF "recv" \in pcb[p].cbs
         THEN /\ mqtt_close(conn, f, Received(p), timers)
              /\ UNCHANGED <<cyclic_tick, server_watchdog, output, data_cb>>
         ELSE /\ pcb' = f
              /\ link' = Live(f, Received(p))
              /\ UNCHANGED <<clientVars, timers>>
  BY DEF RecvFin
<1> DEFINE r == [pcb[p] EXCEPT !.state = s]
           f == [pcb EXCEPT ![p] = r]
<1>2. pcb \in [Pcbs -> Pcb] /\ pcb[p] \in Pcb /\ conn \in Pcbs \cup {NULL}
  BY DEF IInv, TypeOK
<1>3. s \in TcpState /\ (pcb[p].state \in Gone => s \in Gone)
      /\ (s = "SYN_SENT" => pcb[p].state = "SYN_SENT")
  BY <1>1, <1>2 DEF Pcb, TcpState, Gone
<1>4. r \in Pcb /\ f \in [Pcbs -> Pcb]
  BY <1>2, <1>3 DEF Pcb
<1>5. [pcb EXCEPT ![p].state = s] = f
  OBVIOUS
<1>6. Received(p) \in [Pcbs -> Link] /\ retry_due' = retry_due
  BY Taken DEF RecvFin, Arrives
<1>7. CASE "recv" \in pcb[p].cbs
  <2>1. p = conn
    BY <1>7, CallbackPcb
  <2>2. timers \in {0, 1}
    BY DEF IInv, TimerMatchesState
  <2>3. \A q \in Pcbs : q # conn => Stale(f[q])
    BY <1>2, <2>1 DEF IInv
  <2>4. mqtt_close(conn, f, Received(p), timers)
        /\ UNCHANGED <<cyclic_tick, server_watchdog, output, data_cb>>
    BY <1>1, <1>5, <1>7
  <2>5. /\ pcb' \in [Pcbs -> Pcb] /\ link' \in [Pcbs -> Link]
        /\ \A q \in Pcbs : Stale(pcb'[q])
        /\ LiveLinks(pcb', link')
        /\ conn' = NULL /\ conn_state' = "TCP_DISCONNECTED"
        /\ pend_req_queue' = <<>> /\ timers' = 0
    <3> HIDE DEF f
    <3> QED BY <1>2, <1>4, <1>6, <2>2, <2>3, <2>4, Close
  <2>6. /\ cyclic_tick' \in Nat /\ server_watchdog' \in 0..(WatchdogTicks + 1)
        /\ output' \in Seq(Message) /\ data_cb' \in BOOLEAN /\ retry_due' \in BOOLEAN
    BY <1>6, <2>4, Zenon DEF IInv, TypeOK
  <2> QED BY <2>5, <2>6, ClosedInv
<1>8. CASE "recv" \notin pcb[p].cbs
  <2>1. p # conn
    BY <1>8, CallbackPcb DEF RecvFin, Arrives
  <2>2. Stale(r)
    BY <1>2, <1>3, <2>1 DEF IInv, Stale, Pcb
  <2>3. pcb' = f /\ link' = Live(pcb', Received(p))
        /\ UNCHANGED <<clientVars, timers, retry_due>>
    BY <1>1, <1>5, <1>6, <1>8
  <2> QED BY <1>4, <1>6, <2>1, <2>2, <2>3, StaleInv
<1> QED BY <1>7, <1>8

\* mqtt_tcp_poll_cb.
LEMMA PollInv ==
  ASSUME IInv, NEW p \in Pcbs, Poll(p) PROVE IInv'
<1>1. mqtt_output_send(output, p, link)
      /\ UNCHANGED <<conn_state, conn, cyclic_tick, server_watchdog,
                     pend_req_queue, data_cb, timers, retry_due, pcb>>
  BY DEF Poll
<1>2. output' \in Seq(Message) /\ link' \in [Pcbs -> Link] /\ LiveLinks(pcb, link')
  <2>1. pcb[p].state # "SYN_SENT"
    BY CallbackPcb DEF Poll
  <2> QED BY <1>1, <2>1, Send DEF IInv, TypeOK
<1>3. TypeOK'
  BY <1>1, <1>2, Zenon DEF IInv, TypeOK
<1>4. WatchdogBound'
  BY <1>1 DEF IInv, WatchdogBound
<1> QED BY <1>1, <1>2, <1>3, <1>4, KeptInv

\* tcp_fasttmr retries a FIN.
LEMMA FastTimerInv ==
  ASSUME IInv, NEW p \in Pcbs, FastTimer(p) PROVE IInv'
<1>1. p # conn /\ pcb[p] \in Pcb /\ link \in [Pcbs -> Link]
  BY CallbackPcb DEF FastTimer, IInv, TypeOK
<1>2. PICK r \in RetryOutcomes(pcb[p]) : pcb' = [pcb EXCEPT ![p] = r]
  BY DEF FastTimer
<1>3. r \in Pcb /\ Stale(r)
  BY <1>1, <1>2, RetryOutcome DEF IInv
<1>4. link' = Live(pcb', link) /\ UNCHANGED <<clientVars, timers, retry_due>>
  BY DEF FastTimer
<1> QED BY <1>1, <1>2, <1>3, <1>4, StaleInv

\* The rest of the close handshake.
LEMMA CloseProgressInv ==
  ASSUME IInv, NEW p \in Pcbs, CloseProgress(p) PROVE IInv'
<1>1. link' = Live(pcb', link) /\ UNCHANGED <<clientVars, timers, retry_due>>
      /\ pcb \in [Pcbs -> Pcb] /\ pcb[p] \in Pcb /\ link \in [Pcbs -> Link]
  BY DEF CloseProgress, IInv, TypeOK
<1>2. p # conn
  BY CallbackPcb DEF CloseProgress
<1>3. CASE pcb' = [pcb EXCEPT ![p] = FreePcb]
  BY <1>1, <1>2, <1>3, ConstantPcbs, StaleInv
<1>4. CASE pcb' = [pcb EXCEPT ![p].state = "TIME_WAIT"]
  <2> DEFINE r == [pcb[p] EXCEPT !.state = "TIME_WAIT"]
  <2>1. r \in Pcb /\ Stale(r)
    BY <1>1, <1>2 DEF IInv, Stale, Pcb, TcpState, Gone
  <2>2. pcb' = [pcb EXCEPT ![p] = r]
    BY <1>4
  <2> QED BY <1>1, <1>2, <2>1, <2>2, StaleInv
<1> QED BY <1>3, <1>4 DEF CloseProgress

\* mqtt_close from inside the timer, whose timeout is already off the list.
LEMMA TimerCloses ==
  ASSUME IInv, conn_state \in {"MQTT_CONNECTING", "MQTT_CONNECTED"},
         mqtt_close(conn, pcb, link, timers - 1)
  PROVE  /\ pcb' \in [Pcbs -> Pcb] /\ link' \in [Pcbs -> Link]
         /\ \A p \in Pcbs : Stale(pcb'[p])
         /\ LiveLinks(pcb', link')
         /\ conn' = NULL /\ conn_state' = "TCP_DISCONNECTED"
         /\ pend_req_queue' = <<>> /\ timers' = 0
<1>1. timers - 1 = 0
  BY DEF IInv, TimerMatchesState
<1>2. mqtt_close(conn, pcb, link, 0)
  BY <1>1
<1>3. /\ conn \in Pcbs \cup {NULL} /\ pcb \in [Pcbs -> Pcb]
      /\ link \in [Pcbs -> Link]
      /\ \A p \in Pcbs : p # conn => Stale(pcb[p])
  BY DEF IInv, TypeOK
<1> QED BY <1>2, <1>3, Close

\* mqtt_cyclic_timer while connecting.
LEMMA ConnectTimerInv ==
  ASSUME IInv, conn_state = "MQTT_CONNECTING", ConnectTimer, UNCHANGED retry_due
  PROVE  IInv'
<1>1. cyclic_tick' \in Nat /\ UNCHANGED <<server_watchdog, output, data_cb>>
  BY DEF ConnectTimer, IInv, TypeOK
<1>2. CASE cyclic_tick + 1 >= ConnectTicks
  <2>1. mqtt_close(conn, pcb, link, timers - 1)
    BY <1>2 DEF ConnectTimer
  <2>2. /\ server_watchdog' \in 0..(WatchdogTicks + 1)
        /\ output' \in Seq(Message) /\ data_cb' \in BOOLEAN /\ retry_due' \in BOOLEAN
    BY <1>1, Zenon DEF IInv, TypeOK
  <2> QED BY <1>1, <2>1, <2>2, TimerCloses, ClosedInv
<1>3. CASE ~(cyclic_tick + 1 >= ConnectTicks)
  <2>1. UNCHANGED <<conn_state, conn, pend_req_queue, timers, pcb, link>>
    BY <1>3 DEF ConnectTimer
  <2>2. TypeOK'
    BY <1>1, <2>1, Zenon DEF IInv, TypeOK
  <2>3. WatchdogBound' /\ LiveLinks(pcb, link')
    BY <1>1, <2>1 DEF IInv, WatchdogBound
  <2> QED BY <2>1, <2>2, <2>3, KeptInv
<1> QED BY <1>2, <1>3

\* mqtt_cyclic_timer while connected.
LEMMA KeepAliveTimerInv ==
  ASSUME IInv, conn_state = "MQTT_CONNECTED", KeepAliveTimer, UNCHANGED retry_due
  PROVE  IInv'
<1>1. /\ server_watchdog \in 0..(WatchdogTicks + 1)
      /\ server_watchdog <= WatchdogTicks
      /\ server_watchdog' = server_watchdog + 1
  BY DEF IInv, TypeOK, WatchdogBound, KeepAliveTimer, Watched
<1>2. server_watchdog' \in 0..(WatchdogTicks + 1)
  BY <1>1, TickAssumption
<1>3. cyclic_tick' \in Nat
  BY DEF KeepAliveTimer, IInv, TypeOK
<1>4. output' \in Seq(Message)
  <2>1. output \in Seq(Message)
    BY DEF IInv, TypeOK
  <2>2. Append(output, "PINGREQ") \in Seq(Message)
    BY <2>1, AppendProperties DEF Message
  <2> QED BY <2>1, <2>2 DEF KeepAliveTimer
<1>5. data_cb' \in BOOLEAN /\ retry_due' \in BOOLEAN
  BY Zenon DEF KeepAliveTimer, IInv, TypeOK
<1>6. CASE WatchdogExpired
  <2>1. mqtt_close(conn, pcb, link, timers - 1)
    BY <1>6 DEF KeepAliveTimer
  <2> QED BY <1>2, <1>3, <1>4, <1>5, <2>1, TimerCloses, ClosedInv
<1>7. CASE ~WatchdogExpired
  <2>1. UNCHANGED <<conn_state, conn, timers, pcb, link>>
    BY <1>7 DEF KeepAliveTimer
  <2>2. pend_req_queue' \in Seq({"SUB", "PUB"})
    <3>1. PICK k \in 0..Len(pend_req_queue) :
            pend_req_queue' = SubSeq(pend_req_queue, k + 1, Len(pend_req_queue))
      BY <1>7 DEF KeepAliveTimer
    <3>2. pend_req_queue \in Seq({"SUB", "PUB"})
      BY DEF IInv, TypeOK
    <3> QED BY <3>1, <3>2, SubSeqProperties
  <2>3. TypeOK'
    BY <1>2, <1>3, <1>4, <1>5, <2>1, <2>2, Zenon DEF IInv, TypeOK
  <2>4. WatchdogBound'
    BY <1>1, <1>7, TickAssumption DEF WatchdogBound, WatchdogExpired, Watched
  <2>5. LiveLinks(pcb, link')
    BY <2>1 DEF IInv
  <2> QED BY <2>1, <2>3, <2>4, <2>5, KeptInv
<1> QED BY <1>6, <1>7

\* mqtt_cyclic_timer in any state.
LEMMA CyclicTimerInv == ASSUME IInv, mqtt_cyclic_timer PROVE IInv'
<1>1. conn_state \in {"MQTT_CONNECTING", "MQTT_CONNECTED"}
  BY DEF mqtt_cyclic_timer, IInv, TimerMatchesState
<1>2. UNCHANGED retry_due
  BY DEF mqtt_cyclic_timer
<1>3. CASE conn_state = "MQTT_CONNECTING"
  BY <1>2, <1>3, ConnectTimerInv DEF mqtt_cyclic_timer
<1>4. CASE conn_state = "MQTT_CONNECTED"
  BY <1>2, <1>4, KeepAliveTimerInv DEF mqtt_cyclic_timer
<1> QED BY <1>1, <1>3, <1>4

\* A step of the broker.
LEMMA ServerInv ==
  ASSUME IInv, NEW p \in Pcbs, ServerStep(p) PROVE IInv'
<1> DEFINE l == link[p]
<1>1. link \in [Pcbs -> Link] /\ l \in Link
  BY DEF IInv, TypeOK
<1>2. UNCHANGED <<clientVars, timers, retry_due, pcb>>
  BY DEF ServerStep, ServerRecv, ServerPublish, ServerClose
<1>3. \E r \in Link : link' = [link EXCEPT ![p] = r]
  <2>1. ASSUME l.out # <<>>, NEW x \in Frame, NEW v \in Server, Reply(p, x, v)
        PROVE  \E r \in Link : link' = [link EXCEPT ![p] = r]
    <3> DEFINE r == [l EXCEPT !.out = Tail(@), !.in = Append(@, x), !.ack = TRUE,
                              !.srv = v]
    <3>1. Tail(l.out) \in Seq(Sent) /\ Append(l.in, x) \in Seq(Frame)
      BY <1>1, <2>1, HeadTailProperties, AppendProperties DEF Link
    <3>2. r \in Link
      BY <1>1, <3>1 DEF Link
    <3>3. link' = [link EXCEPT ![p] = r]
      BY <2>1 DEF Reply
    <3> QED BY <3>2, <3>3
  <2>2. CASE ServerRecv(p)
    <3>1. l.out # <<>> /\ l.srv \in Server
      BY <1>1, <2>2 DEF ServerRecv, Link
    <3>2. \/ \E x \in Frame, v \in Server : Reply(p, x, v)
          \/ link' = [link EXCEPT ![p].out = Tail(@), ![p].ack = TRUE]
      BY <2>2, <3>1 DEF ServerRecv, Frame, Server, EndOf
    <3>3. CASE link' = [link EXCEPT ![p].out = Tail(@), ![p].ack = TRUE]
      <4> DEFINE r == [l EXCEPT !.out = Tail(@), !.ack = TRUE]
      <4>1. Tail(l.out) \in Seq(Sent)
        BY <1>1, <3>1, HeadTailProperties DEF Link
      <4>2. r \in Link
        BY <1>1, <4>1 DEF Link
      <4>3. link' = [link EXCEPT ![p] = r]
        BY <3>3
      <4> QED BY <4>2, <4>3
    <3> QED BY <2>1, <3>1, <3>2, <3>3
  <2>3. CASE ServerPublish(p)
    <3> DEFINE r == [l EXCEPT !.in = Append(@, "PUBLISH")]
    <3>1. Append(l.in, "PUBLISH") \in Seq(Frame)
      BY <1>1, AppendProperties DEF Link, Frame
    <3>2. r \in Link
      BY <1>1, <3>1 DEF Link
    <3>3. link' = [link EXCEPT ![p] = r]
      BY <2>3 DEF ServerPublish
    <3> QED BY <3>2, <3>3
  <2>4. CASE ServerClose(p)
    <3> DEFINE r == [l EXCEPT !.in = Append(@, "FIN"), !.srv = EndOf(@)]
    <3>1. Append(l.in, "FIN") \in Seq(Frame) /\ EndOf(l.srv) \in Server
      BY <1>1, AppendProperties DEF Link, Frame, EndOf, Server
    <3>2. r \in Link
      BY <1>1, <3>1 DEF Link
    <3>3. link' = [link EXCEPT ![p] = r]
      BY <2>4 DEF ServerClose
    <3> QED BY <3>2, <3>3
  <2> QED BY <2>2, <2>3, <2>4 DEF ServerStep
<1>4. link' \in [Pcbs -> Link] /\ \A q \in Pcbs : q # p => link'[q] = link[q]
  BY <1>1, <1>3
<1>5. l # NoLink
  BY DEF ServerStep, ServerRecv, ServerPublish, ServerClose, NoLink
<1>6. LiveLinks(pcb, link')
  BY <1>4, <1>5 DEF IInv, LiveLinks
<1>7. TypeOK'
  BY <1>2, <1>4, Zenon DEF IInv, TypeOK, clientVars
<1>8. WatchdogBound'
  BY <1>2 DEF IInv, WatchdogBound, clientVars
<1> QED BY <1>2, <1>6, <1>7, <1>8, KeptInv DEF clientVars

-----------------------------------------------------------------------------
(* The theorems                                                            *)

\* The strengthened invariant holds at the start.
LEMMA InitInv == ASSUME Init PROVE IInv
<1> USE DEF Init
<1>1. pcb \in [Pcbs -> Pcb] /\ link \in [Pcbs -> Link]
  BY ConstantPcbs
<1>2. conn_state \in ConnState /\ conn \in Pcbs \cup {NULL}
  BY DEF ConnState
<1>3. output \in Seq(Message)
  <2>1. <<>> \in Seq(Message) /\ <<"CONNECT">> \in Seq(Message)
    BY DEF Message
  <2> QED BY <2>1
<1>4. /\ cyclic_tick \in Nat /\ server_watchdog \in 0..(WatchdogTicks + 1)
      /\ pend_req_queue \in Seq({"SUB", "PUB"}) /\ timers \in Nat
  BY TickAssumption
<1>5. data_cb \in BOOLEAN /\ retry_due \in BOOLEAN
  OBVIOUS
<1>6. TypeOK
  BY <1>1, <1>2, <1>3, <1>4, <1>5, Zenon DEF TypeOK
<1>7. ConnMatchesState /\ TimerMatchesState /\ WatchdogBound
  BY NullAssumption, TickAssumption
     DEF ConnMatchesState, TimerMatchesState, WatchdogBound
<1>8. \A p \in Pcbs : p # conn => Stale(pcb[p])
  BY ConstantPcbs
<1>9. LiveLinks(pcb, link)
  BY DEF LiveLinks
<1> QED BY <1>6, <1>7, <1>8, <1>9 DEF IInv

\* Every step keeps the strengthened invariant.
LEMMA NextInv == ASSUME IInv, [Next]_vars PROVE IInv'
<1>1. CASE Tick
  BY <1>1, TickInv
<1>2. CASE Reconnect
  BY <1>2, ReconnectInv
<1>3. CASE Publish
  BY <1>3, PublishInv
<1>4. CASE mqtt_cyclic_timer
  BY <1>4, CyclicTimerInv
<1>5. ASSUME NEW p \in Pcbs, Network(p) PROVE IInv'
  BY <1>5, ConnectedInv, PcbDiesInv, SentCbInv, LateDataInv, RecvConnackInv,
     RecvRefusedInv, RecvSubackInv, RecvOtherInv, RecvFinInv, PollInv,
     FastTimerInv, CloseProgressInv DEF Network
<1>6. ASSUME NEW p \in Pcbs, ServerStep(p) PROVE IInv'
  BY <1>6, ServerInv
<1>7. CASE UNCHANGED vars
  <2>1. TypeOK' /\ WatchdogBound' /\ LiveLinks(pcb, link')
    BY <1>7 DEF IInv, TypeOK, WatchdogBound, vars, clientVars
  <2> QED BY <1>7, <2>1, KeptInv DEF vars, clientVars
<1> QED BY <1>1, <1>2, <1>3, <1>4, <1>5, <1>6, <1>7 DEF Next

\* The strengthened invariant holds in every reachable state.
THEOREM Invariance == Spec => []IInv
<1> QED BY InitInv, NextInv, PTL DEF Spec

\* Every variable keeps its type: the watchdog counter of mqtt_cyclic_timer
\* never passes one interval more than its limit.
THEOREM TypeCorrect == Spec => []TypeOK
<1>1. IInv => TypeOK
  BY DEF IInv
<1> QED BY <1>1, Invariance, PTL

\* conn_state and conn agree through every close, reset and reconnect, so the
\* handlers that test only conn_state never use a pcb that is not theirs.
THEOREM ConnectionMatches == Spec => []ConnMatchesState
<1>1. IInv => ConnMatchesState
  BY DEF IInv
<1> QED BY <1>1, Invariance, PTL

\* Exactly one cyclic timer runs while connecting or connected, none else.
THEOREM OneTimer == Spec => []TimerMatchesState
<1>1. IInv => TimerMatchesState
  BY DEF IInv
<1> QED BY <1>1, Invariance, PTL

\* No recv, sent or err callback of an earlier connection reaches the client,
\* however many pcbs are still closing: the assertion of mqtt_tcp_recv_cb.
THEOREM OnlyConnCallsBack == Spec => []CallbacksOnlyFromConn
<1>1. IInv => CallbacksOnlyFromConn
  BY CallbackPcb DEF CallbacksOnlyFromConn
<1> QED BY <1>1, Invariance, PTL

\* Every pcb of the pool is free, the client's, or on its way to be freed.
THEOREM PoolNotLeaked == Spec => []NoPcbLeak
<1>1. IInv => NoPcbLeak
  BY DEF IInv, Stale, Gone, NoPcbLeak
<1> QED BY <1>1, Invariance, PTL

-----------------------------------------------------------------------------
(* The streams of the connections, and the contract                        *)


\* No FIN is waiting for memory.
NonePending(f) == \A p \in Pcbs : ~f[p].closepend

\* Every message of a stream was sent by a client that owned its connection.
OwnOut(l) == \A p \in Pcbs : \A i \in 1..Len(l[p].out) : l[p].out[i].conn = p

\* A stale pcb that is not marked for closing takes no data, so that its poll
\* callback, which mqtt_close leaves installed, writes nothing.
StreamInv == IInv /\ NonePending(pcb) /\ OwnOut(link)

\* A pcb that is closed is not marked either.
LEMMA ClosesAtOnce ==
  ASSUME ~FinCanFail, NEW f \in [Pcbs -> Pcb], NonePending(f),
         NEW c \in Pcbs \cup {NULL}, NEW g \in ClosedPcbs(c, f)
  PROVE  g \in [Pcbs -> Pcb] /\ NonePending(g)
<1>1. CASE c = NULL
  BY <1>1 DEF ClosedPcbs
<1>2. CASE c # NULL
  <2> DEFINE r == [f[c] EXCEPT !.cbs = @ \ {"recv", "err", "sent"}]
  <2>1. c \in Pcbs /\ f[c] \in Pcb
    BY <1>2
  <2>2. r \in Pcb /\ r.closepend = f[c].closepend
    BY <2>1 DEF Pcb, Callback
  <2>3. PICK q \in CloseOutcomes(r) : g = [f EXCEPT ![c] = q]
    BY <1>2 DEF ClosedPcbs
  <2>4. ~r.closepend
    BY <2>1, <2>2 DEF NonePending
  <2> HIDE DEF r
  <2>5. q \in Pcb /\ ~q.closepend
    <3>1. FreePcb \in Pcb /\ ~FreePcb.closepend
      BY DEF FreePcb, Pcb, TcpState
    <3>2. ASSUME NEW s \in TcpState
          PROVE  [r EXCEPT !.state = s] \in Pcb /\ ~[r EXCEPT !.state = s].closepend
      BY <2>2, <2>4 DEF Pcb
    <3>3. q \in {FreePcb, r, [r EXCEPT !.state = "FIN_WAIT"], [r EXCEPT !.state = "LAST_ACK"]}
      BY <2>3 DEF CloseOutcomes
    <3> QED
      BY <2>2, <2>4, <3>1, <3>2, <3>3 DEF TcpState
  <2> QED
    BY <2>1, <2>3, <2>5 DEF NonePending
<1> QED
  BY <1>1, <1>2

\* Neither is one that a connection is allocated from.
LEMMA ConnectsUnmarked ==
  ASSUME NEW f \in [Pcbs -> Pcb], NonePending(f), mqtt_client_connect(f)
  PROVE  NonePending(pcb')
<1>1. ASSUME NEW a \in TcpAlloc(f)
      PROVE  a.pcbs \in [Pcbs -> Pcb] /\ NonePending(a.pcbs) /\ a.new \in Pcbs \cup {NULL}
  <2>1. \A p \in Pcbs : RetryOutcomes(f[p]) = {f[p]}
    BY DEF NonePending, RetryOutcomes
  <2>2. CASE InState(f, "CLOSED") # {}
    BY <1>1, <2>2 DEF TcpAlloc, InState
  <2>3. CASE InState(f, "CLOSED") = {}
    <3>1. PICK g : /\ g \in [Pcbs -> UNION {RetryOutcomes(f[p]) : p \in Pcbs}]
                   /\ \A p \in Pcbs : g[p] \in RetryOutcomes(f[p])
                   /\ a.pcbs = g
                   /\ a.new \in Pcbs \cup {NULL}
      BY <2>3 DEF TcpAlloc, InState
    <3>2. \A p \in Pcbs : g[p] = f[p]
      BY <2>1, <3>1
    <3>3. g \in [Pcbs -> Pcb] /\ NonePending(g)
      BY <3>1, <3>2 DEF NonePending
    <3> QED
      BY <3>1, <3>3
  <2> QED
    BY <2>2, <2>3
<1>2. ~FreePcb.closepend /\ ~SynPcb.closepend
  BY DEF FreePcb, SynPcb
<1>3. PICK a \in TcpAlloc(f) :
        \/ pcb' = IF a.new = NULL THEN a.pcbs ELSE [a.pcbs EXCEPT ![a.new] = FreePcb]
        \/ a.new # NULL /\ pcb' = [a.pcbs EXCEPT ![a.new] = SynPcb]
  BY DEF mqtt_client_connect
<1> HIDE DEF FreePcb, SynPcb
<1> QED
  BY <1>1, <1>2, <1>3 DEF NonePending

\* The streams that survive a change of the pcbs stay what they are.
LEMMA LiveOwn ==
  ASSUME NEW f, NEW l, OwnOut(l)
  PROVE  OwnOut(Live(f, l))
<1>1. Len(NoLink.out) = 0
  BY DEF NoLink
<1> HIDE DEF NoLink
<1> QED
  BY <1>1 DEF OwnOut, Live

\* mqtt_output_send on the client's connection, or on one that takes no data.
LEMMA SendOwn ==
  ASSUME TypeOK, NEW msgs \in Seq(Message), NEW p \in Pcbs,
         NEW l \in [Pcbs -> Link], OwnOut(l),
         p = conn \/ pcb[p].state \notin Writable,
         mqtt_output_send(msgs, p, l)
  PROVE  OwnOut(link')
<1>1. PICK k \in IF pcb[p].state \in Writable
                 THEN 0..Lesser(Len(msgs), SndBufMsgs - Len(l[p].out)) ELSE {0} :
        link' = [l EXCEPT ![p].out = @ \o FirstOf(msgs, k)]
  BY DEF mqtt_output_send
<1>2. k \in 0..Len(msgs) /\ (k = 0 \/ p = conn)
  BY <1>1, SizeAssumption, LenProperties DEF Lesser, Link
<1>3. FirstOf(msgs, k) \in Seq(Sent) /\ Len(FirstOf(msgs, k)) = k
  <2>1. FirstOf(msgs, k) \in Seq(Sent)
    BY <1>2, Prefix DEF TypeOK
  <2>2. k \in Nat
    BY <1>2, LenProperties
  <2> QED
    BY <2>1, <2>2 DEF FirstOf
<1>4. \A i \in 1..k : FirstOf(msgs, k)[i].conn = conn
  BY DEF FirstOf
<1>5. l[p].out \in Seq(Sent)
  BY DEF Link
<1>6. ASSUME NEW i \in 1..Len(l[p].out \o FirstOf(msgs, k))
      PROVE  (l[p].out \o FirstOf(msgs, k))[i].conn = p
  <2>1. /\ i \in 1..(Len(l[p].out) + k) /\ Len(l[p].out) \in Nat /\ k \in Nat
        /\ (l[p].out \o FirstOf(msgs, k))[i] =
             IF i <= Len(l[p].out) THEN l[p].out[i] ELSE FirstOf(msgs, k)[i - Len(l[p].out)]
    BY <1>3, <1>5, <1>6, ConcatProperties, LenProperties
  <2>2. CASE i <= Len(l[p].out)
    BY <2>1, <2>2 DEF OwnOut
  <2>3. CASE i > Len(l[p].out)
    <3>1. i - Len(l[p].out) \in 1..k /\ k # 0
      BY <2>1, <2>3
    <3> QED
      BY <1>2, <1>4, <2>1, <2>3, <3>1
  <2> QED
    BY <2>1, <2>2, <2>3
<1>7. link'[p].out = l[p].out \o FirstOf(msgs, k) /\ \A q \in Pcbs : q # p => link'[q] = l[q]
  BY <1>1 DEF Link
<1> QED
  BY <1>6, <1>7 DEF OwnOut

\* A stale pcb takes no data as long as none is marked.
LEMMA StaleTakesNothing ==
  ASSUME StreamInv, NEW p \in Pcbs, p # conn
  PROVE  pcb[p].state \notin Writable
BY DEF StreamInv, IInv, Stale, Gone, NonePending, Writable

-----------------------------------------------------------------------------
(* The actions                                                             *)

\* Taking a frame or an acknowledgement off a link leaves what is sent alone.
LEMMA IncomingOwn ==
  ASSUME NEW l \in [Pcbs -> Link], OwnOut(l), NEW p \in Pcbs
  PROVE  /\ OwnOut([l EXCEPT ![p].in = Tail(@)])
         /\ OwnOut([l EXCEPT ![p].ack = FALSE])
         /\ \A x : OwnOut([l EXCEPT ![p].in = x])
BY DEF OwnOut, Link

\* mqtt_close on streams that are their owners'.
LEMMA CloseOwn ==
  ASSUME ~FinCanFail, NEW c \in Pcbs \cup {NULL}, NEW f \in [Pcbs -> Pcb],
         NonePending(f), NEW l, OwnOut(l), NEW n, mqtt_close(c, f, l, n)
  PROVE  NonePending(pcb') /\ OwnOut(link')
BY ClosesAtOnce, LiveOwn DEF mqtt_close

\* net_process: the retry.
LEMMA ReconnectOwn ==
  ASSUME ~FinCanFail, StreamInv, Reconnect
  PROVE  NonePending(pcb') /\ OwnOut(link')
<1>1. PICK f : f \in [Pcbs -> Pcb] /\ NonePending(f) /\ mqtt_client_connect(f)
  <2>1. pcb \in [Pcbs -> Pcb] /\ conn \in Pcbs \cup {NULL} /\ NonePending(pcb)
    BY DEF StreamInv, IInv, TypeOK
  <2>2. CASE conn_state = "TCP_DISCONNECTED"
    BY <2>1, <2>2 DEF Reconnect
  <2>3. CASE conn_state # "TCP_DISCONNECTED"
    <3>1. PICK f \in ClosedPcbs(conn, pcb) : mqtt_client_connect(f)
      BY <2>3 DEF Reconnect
    <3> QED
      BY <2>1, <3>1, ClosesAtOnce
  <2> QED
    BY <2>2, <2>3
<1>2. link' = Live(pcb', link) /\ OwnOut(link)
  BY <1>1 DEF mqtt_client_connect, StreamInv
<1> QED
  BY <1>1, <1>2, ConnectsUnmarked, LiveOwn

\* net_process: a publish.
LEMMA PublishOwn ==
  ASSUME StreamInv, Publish
  PROVE  NonePending(pcb') /\ OwnOut(link')
<1>1. conn \in Pcbs /\ TypeOK /\ pcb' = pcb
  BY OpenConn DEF Publish, StreamInv, IInv
<1>2. Append(output, "PUBLISH") \in Seq(Message)
  BY <1>1, AppendProperties DEF TypeOK, Message
<1>3. mqtt_output_send(Append(output, "PUBLISH"), conn, link)
  BY DEF Publish
<1> QED
  BY <1>1, <1>2, <1>3, SendOwn DEF StreamInv, TypeOK

\* mqtt_tcp_connect_cb: the pcb is the client's.
LEMMA ConnectedOwn ==
  ASSUME StreamInv, NEW p \in Pcbs, Connected(p)
  PROVE  NonePending(pcb') /\ OwnOut(link')
<1>1. p = conn /\ pcb[p] \in Pcb /\ output \in Seq(Message)
  BY CallbackPcb DEF Connected, StreamInv, IInv, TypeOK
<1>2. NonePending(pcb')
  BY <1>1 DEF Connected, StreamInv, NonePending, IInv, TypeOK, Pcb
<1>3. PICK k \in 0..Lesser(Len(output), SndBufMsgs) :
        link' = [link EXCEPT ![p] = [out |-> FirstOf(output, k), in |-> <<>>,
                                     ack |-> FALSE, srv |-> "open"]]
  BY DEF Connected
<1>4. k \in Nat
  BY <1>1, SizeAssumption, LenProperties DEF Lesser
<1>5. Len(FirstOf(output, k)) = k /\ \A i \in 1..k : FirstOf(output, k)[i].conn = p
  BY <1>1, <1>4 DEF FirstOf
<1>6. link \in [Pcbs -> Link] /\ OwnOut(link)
  BY DEF StreamInv, IInv, TypeOK
<1>7. link'[p].out = FirstOf(output, k) /\ \A q \in Pcbs : q # p => link'[q] = link[q]
  BY <1>3, <1>6
<1> QED
  BY <1>2, <1>5, <1>6, <1>7 DEF OwnOut

\* Resets, with or without mqtt_tcp_err_cb, and data for a closed pcb.
LEMMA FreedOwn ==
  ASSUME ~FinCanFail, StreamInv, NEW p \in Pcbs, PcbDies(p) \/ LateData(p)
  PROVE  NonePending(pcb') /\ OwnOut(link')
<1> DEFINE f == [pcb EXCEPT ![p] = FreePcb]
<1>1. pcb \in [Pcbs -> Pcb] /\ NonePending(pcb) /\ OwnOut(link)
  BY DEF StreamInv, IInv, TypeOK
<1>2. FreePcb \in Pcb /\ ~FreePcb.closepend
  BY DEF FreePcb, Pcb, TcpState
<1>3. f \in [Pcbs -> Pcb] /\ NonePending(f)
  <2> HIDE DEF FreePcb
  <2> QED
    BY <1>1, <1>2 DEF NonePending
<1>4. \/ mqtt_close(NULL, f, link, timers)
      \/ pcb' = f /\ link' = Live(f, link)
  BY DEF PcbDies, LateData
<1> HIDE DEF f
<1> QED
  BY <1>1, <1>3, <1>4, CloseOwn, LiveOwn

\* mqtt_tcp_sent_cb.
LEMMA SentCbOwn ==
  ASSUME StreamInv, NEW p \in Pcbs, SentCb(p)
  PROVE  NonePending(pcb') /\ OwnOut(link')
<1> DEFINE l == [link EXCEPT ![p].ack = FALSE]
<1>1. TypeOK /\ link \in [Pcbs -> Link] /\ OwnOut(link) /\ output \in Seq(Message)
      /\ NonePending(pcb) /\ pcb' = pcb
  BY DEF StreamInv, IInv, TypeOK, SentCb
<1>2. l \in [Pcbs -> Link] /\ OwnOut(l)
  BY <1>1, IncomingOwn DEF Link
<1>3. link' = l \/ (conn_state = "MQTT_CONNECTED" /\ mqtt_output_send(output, conn, l))
  BY DEF SentCb
<1> HIDE DEF l
<1>4. conn_state = "MQTT_CONNECTED" => conn \in Pcbs
  BY OpenConn DEF StreamInv
<1> QED
  BY <1>1, <1>2, <1>3, <1>4, SendOwn

\* mqtt_tcp_recv_cb: CONNACK, accepted.
LEMMA RecvConnackOwn ==
  ASSUME StreamInv, NEW p \in Pcbs, RecvConnack(p)
  PROVE  NonePending(pcb') /\ OwnOut(link')
<1>1. TypeOK /\ link \in [Pcbs -> Link] /\ OwnOut(link) /\ output \in Seq(Message)
      /\ NonePending(pcb) /\ pcb' = pcb /\ link[p].in # <<>>
  BY DEF StreamInv, IInv, TypeOK, RecvConnack, Arrives
<1>2. Received(p) \in [Pcbs -> Link] /\ OwnOut(Received(p))
  <2>1. Tail(link[p].in) \in Seq(Frame)
    BY <1>1, HeadTailProperties DEF Link
  <2> QED
    BY <1>1, <2>1, IncomingOwn DEF Received, Link
<1>3. \/ link' = Received(p)
      \/ /\ conn_state = "MQTT_CONNECTING"
         /\ mqtt_output_send(Append(output, "SUBSCRIBE"), conn, Received(p))
  BY DEF RecvConnack, mqtt_connection_cb
<1>4. Append(output, "SUBSCRIBE") \in Seq(Message)
  BY <1>1, AppendProperties DEF Message
<1>5. conn_state = "MQTT_CONNECTING" => conn \in Pcbs
  BY OpenConn DEF StreamInv
<1> QED
  BY <1>1, <1>2, <1>3, <1>4, <1>5, SendOwn

\* mqtt_tcp_recv_cb: CONNACK, refused.
LEMMA RecvRefusedOwn ==
  ASSUME ~FinCanFail, StreamInv, NEW p \in Pcbs, RecvRefused(p)
  PROVE  NonePending(pcb') /\ OwnOut(link')
<1> DEFINE f == [pcb EXCEPT ![p] = FreePcb]
<1>1. /\ pcb \in [Pcbs -> Pcb] /\ NonePending(pcb) /\ conn \in Pcbs \cup {NULL}
      /\ link \in [Pcbs -> Link] /\ OwnOut(link)
  BY DEF StreamInv, IInv, TypeOK
<1>2. OwnOut(Received(p))
  BY <1>1, IncomingOwn DEF Received
<1>3. FreePcb \in Pcb /\ ~FreePcb.closepend
  BY DEF FreePcb, Pcb, TcpState
<1>4. f \in [Pcbs -> Pcb] /\ NonePending(f)
  <2> HIDE DEF FreePcb
  <2> QED
    BY <1>1, <1>3 DEF NonePending
<1>5. \/ mqtt_close(conn, pcb, Received(p), timers)
      \/ mqtt_close(NULL, f, Received(p), timers)
      \/ link' = Received(p) /\ pcb' = pcb
  BY DEF RecvRefused
<1> HIDE DEF f
<1> QED
  BY <1>1, <1>2, <1>4, <1>5, CloseOwn

\* The end of the incoming stream.
LEMMA RecvFinOwn ==
  ASSUME ~FinCanFail, StreamInv, NEW p \in Pcbs, RecvFin(p)
  PROVE  NonePending(pcb') /\ OwnOut(link')
<1>1. /\ pcb \in [Pcbs -> Pcb] /\ NonePending(pcb) /\ conn \in Pcbs \cup {NULL}
      /\ link \in [Pcbs -> Link] /\ OwnOut(link)
  BY DEF StreamInv, IInv, TypeOK
<1>2. OwnOut(Received(p))
  BY <1>1, IncomingOwn DEF Received
<1>3. PICK s \in TcpState :
        LET f == [pcb EXCEPT ![p].state = s] IN
          \/ mqtt_close(conn, f, Received(p), timers)
          \/ pcb' = f /\ link' = Live(f, Received(p))
  <2>1. pcb[p].state \in TcpState
    BY <1>1 DEF Pcb
  <2>2. PICK s \in CASE pcb[p].state = "ESTABLISHED" -> {"CLOSE_WAIT"}
                     [] pcb[p].state = "FIN_WAIT" -> {"CLOSING", "TIME_WAIT"}
                     [] OTHER -> {pcb[p].state} :
          LET f == [pcb EXCEPT ![p].state = s] IN
            \/ mqtt_close(conn, f, Received(p), timers)
            \/ pcb' = f /\ link' = Live(f, Received(p))
    BY DEF RecvFin
  <2>3. s \in TcpState
    BY <2>1 DEF TcpState
  <2> QED
    BY <2>2, <2>3
<1> DEFINE f == [pcb EXCEPT ![p].state = s]
<1>4. f \in [Pcbs -> Pcb] /\ NonePending(f)
  BY <1>1 DEF NonePending, Pcb
<1>5. \/ mqtt_close(conn, f, Received(p), timers)
      \/ pcb' = f /\ link' = Live(f, Received(p))
  BY <1>3
<1> HIDE DEF f
<1> QED
  BY <1>1, <1>2, <1>4, <1>5, CloseOwn, LiveOwn

\* mqtt_tcp_recv_cb: any other frame.
LEMMA RecvDataOwn ==
  ASSUME StreamInv, NEW p \in Pcbs, RecvSuback(p) \/ RecvOther(p)
  PROVE  NonePending(pcb') /\ OwnOut(link')
BY IncomingOwn DEF RecvSuback, RecvOther, Received, StreamInv, IInv, TypeOK

\* mqtt_tcp_poll_cb, of the client's pcb or of one that takes no data.
LEMMA PollOwn ==
  ASSUME StreamInv, NEW p \in Pcbs, Poll(p)
  PROVE  NonePending(pcb') /\ OwnOut(link')
<1>1. mqtt_output_send(output, p, link) /\ pcb' = pcb
  BY DEF Poll
<1>2. p = conn \/ pcb[p].state \notin Writable
  BY StaleTakesNothing
<1> QED
  BY <1>1, <1>2, SendOwn DEF StreamInv, IInv, TypeOK

\* The timers of TCP.
LEMMA TcpTimersOwn ==
  ASSUME StreamInv, NEW p \in Pcbs, FastTimer(p) \/ CloseProgress(p)
  PROVE  NonePending(pcb') /\ OwnOut(link')
<1>1. pcb \in [Pcbs -> Pcb] /\ NonePending(pcb) /\ OwnOut(link)
  BY DEF StreamInv, IInv, TypeOK
<1>2. ~FastTimer(p)
  BY <1>1 DEF FastTimer, NonePending
<1>3. FreePcb \in Pcb /\ ~FreePcb.closepend
  BY DEF FreePcb, Pcb, TcpState
<1>4. NonePending(pcb') /\ link' = Live(pcb', link)
  <2>1. \/ pcb' = [pcb EXCEPT ![p].state = "TIME_WAIT"]
        \/ pcb' = [pcb EXCEPT ![p] = FreePcb]
    BY <1>2 DEF CloseProgress
  <2>2. link' = Live(pcb', link)
    BY <1>2 DEF CloseProgress
  <2> HIDE DEF FreePcb
  <2> QED
    BY <1>1, <1>3, <2>1, <2>2 DEF NonePending, Pcb
<1> QED
  BY <1>1, <1>4, LiveOwn

\* mqtt_cyclic_timer.
LEMMA CyclicTimerOwn ==
  ASSUME ~FinCanFail, StreamInv, mqtt_cyclic_timer
  PROVE  NonePending(pcb') /\ OwnOut(link')
<1>1. /\ pcb \in [Pcbs -> Pcb] /\ NonePending(pcb) /\ conn \in Pcbs \cup {NULL}
      /\ OwnOut(link)
  BY DEF StreamInv, IInv, TypeOK
<1>2. \/ mqtt_close(conn, pcb, link, timers - 1)
      \/ pcb' = pcb /\ link' = link
  BY DEF mqtt_cyclic_timer, ConnectTimer, KeepAliveTimer
<1> QED
  BY <1>1, <1>2, CloseOwn

\* The broker reads from the head of a stream.
LEMMA ServerOwn ==
  ASSUME StreamInv, NEW p \in Pcbs, ServerStep(p)
  PROVE  NonePending(pcb') /\ OwnOut(link')
<1>1. link \in [Pcbs -> Link] /\ OwnOut(link) /\ NonePending(pcb) /\ pcb' = pcb
  BY DEF StreamInv, IInv, TypeOK, ServerStep, ServerRecv, ServerPublish, ServerClose
<1>2. /\ \A q \in Pcbs : q # p => link'[q] = link[q]
      /\ \/ link'[p].out = link[p].out
         \/ link[p].out # <<>> /\ link'[p].out = Tail(link[p].out)
  <2>1. CASE ServerRecv(p)
    <3>1. link[p].out # <<>>
      BY <2>1 DEF ServerRecv
    <3>2. ASSUME NEW x, NEW s, Reply(p, x, s)
          PROVE  /\ \A q \in Pcbs : q # p => link'[q] = link[q]
                 /\ link'[p].out = Tail(link[p].out)
      BY <1>1, <3>2 DEF Reply, Link
    <3>3. ASSUME link' = [link EXCEPT ![p].out = Tail(@), ![p].ack = TRUE]
          PROVE  /\ \A q \in Pcbs : q # p => link'[q] = link[q]
                 /\ link'[p].out = Tail(link[p].out)
      BY <1>1, <3>3 DEF Link
    <3>4. \/ link' = [link EXCEPT ![p].out = Tail(@), ![p].ack = TRUE]
          \/ \E x, s : Reply(p, x, s)
      <4> HIDE DEF Reply
      <4> QED
        BY <2>1 DEF ServerRecv
    <3> QED
      BY <3>1, <3>2, <3>3, <3>4
  <2>2. CASE ServerPublish(p) \/ ServerClose(p)
    BY <1>1, <2>2 DEF ServerPublish, ServerClose, Link
  <2> QED
    BY <2>1, <2>2 DEF ServerStep
<1>3. link[p].out \in Seq(Sent)
  BY <1>1 DEF Link
<1>4. CASE link'[p].out = link[p].out
  BY <1>1, <1>2, <1>4 DEF OwnOut
<1>5. CASE link[p].out # <<>> /\ link'[p].out = Tail(link[p].out)
  <2>1. /\ Len(link'[p].out) = Len(link[p].out) - 1 /\ Len(link[p].out) \in Nat
        /\ \A i \in 1..Len(link'[p].out) : link'[p].out[i] = link[p].out[i + 1]
    BY <1>3, <1>5, HeadTailProperties, LenProperties
  <2>2. \A i \in 1..Len(link'[p].out) : i + 1 \in 1..Len(link[p].out)
    BY <2>1
  <2>3. \A i \in 1..Len(link'[p].out) : link'[p].out[i].conn = p
    BY <1>1, <2>1, <2>2 DEF OwnOut
  <2> QED
    BY <1>1, <1>2, <2>3 DEF OwnOut
<1> QED
  BY <1>2, <1>4, <1>5

-----------------------------------------------------------------------------
\* Every step keeps the streams their owners' if no FIN fails.
LEMMA StreamNext ==
  ASSUME ~FinCanFail
  PROVE  StreamInv /\ [Next]_vars => StreamInv'
<1> SUFFICES ASSUME StreamInv, [Next]_vars
             PROVE  StreamInv'
  OBVIOUS
<1>1. IInv'
  BY NextInv DEF StreamInv
<1>2. NonePending(pcb') /\ OwnOut(link')
  <2>1. CASE UNCHANGED <<pcb, link>>
    BY <2>1 DEF StreamInv
  <2>2. CASE Tick
    BY <2>1, <2>2 DEF Tick
  <2>3. CASE Reconnect
    BY <2>3, ReconnectOwn
  <2>4. CASE Publish
    BY <2>4, PublishOwn
  <2>5. CASE mqtt_cyclic_timer
    BY <2>5, CyclicTimerOwn
  <2>6. ASSUME NEW p \in Pcbs, Network(p)
        PROVE  NonePending(pcb') /\ OwnOut(link')
    BY <2>6, ConnectedOwn, FreedOwn, SentCbOwn, RecvConnackOwn, RecvRefusedOwn,
       RecvDataOwn, RecvFinOwn, PollOwn, TcpTimersOwn DEF Network
  <2>7. ASSUME NEW p \in Pcbs, ServerStep(p)
        PROVE  NonePending(pcb') /\ OwnOut(link')
    BY <2>7, ServerOwn
  <2>8. CASE UNCHANGED vars
    BY <2>1, <2>8 DEF vars
  <2> QED
    BY <2>2, <2>3, <2>4, <2>5, <2>6, <2>7, <2>8 DEF Next
<1> QED
  BY <1>1, <1>2 DEF StreamInv, NonePending, OwnOut

LEMMA StreamInit == ASSUME Init PROVE StreamInv
<1>1. IInv
  BY InitInv
<1>2. NonePending(pcb)
  BY DEF Init, NonePending, SynPcb, FreePcb
<1>3. OwnOut(link)
  BY DEF Init, OwnOut, NoLink
<1> QED
  BY <1>1, <1>2, <1>3 DEF StreamInv

\* If tcp_close always finds memory for its FIN, a connection carries only what
\* the client that owns it has sent, though the poll callbacks of closed pcbs
\* stay installed.
THEOREM StreamsKeptApart == ASSUME ~FinCanFail PROVE Spec => []OwnStream
<1>1. Init => StreamInv
  BY StreamInit
<1>2. StreamInv /\ [Next]_vars => StreamInv'
  BY StreamNext
<1>3. StreamInv => OwnStream
  BY DEF StreamInv, OwnOut, OwnStream
<1> QED
  BY <1>1, <1>2, <1>3, PTL DEF Spec

-----------------------------------------------------------------------------
(***************************************************************************)
(* The contract.                                                           *)
(***************************************************************************)
NoConnack(in) == \A i \in 1..Len(in) : in[i] # "CONNACK"

NoConnect(msgs) == \A i \in 1..Len(msgs) : msgs[i] # "CONNECT"

\* The stream carries no CONNECT.
Plain(out) == \A i \in 1..Len(out) : out[i].kind # "CONNECT"

\* The connection of a client that waits for a CONNACK: the CONNECT message is
\* in the ring, in the stream or with the broker, in one of them only.
Handshake(l) ==
  \/ /\ l.srv = "open" /\ NoConnack(l.in)
     /\ \/ output = <<"CONNECT">> /\ l.out = <<>>
        \/ output = <<>> /\ Len(l.out) = 1 /\ l.out[1].kind = "CONNECT"
  \/ l.srv = "refused" /\ NoConnack(l.in)
  \/ l.srv \in {"session", "closed"} /\ output = <<>> /\ l.out = <<>>

\* That of a client that got it.
Online(l) ==
  /\ l.srv \in {"session", "subscribed", "closed"}
  /\ Plain(l.out) /\ NoConnect(output)

ShakeInv ==
  /\ conn_state = "TCP_CONNECTING" => output = <<"CONNECT">>
  /\ conn_state = "MQTT_CONNECTING" => Handshake(link[conn])
  /\ conn_state = "MQTT_CONNECTED" => Online(link[conn])

\* The broker's part of the contract sees the client's connection only.
BrokerSees == IF conn = NULL THEN "none" ELSE brokerOf(link[conn].srv)

Kept == Contract!Next \/ (phaseOf(conn_state)' = phaseOf(conn_state) /\ BrokerSees' = BrokerSees)

-----------------------------------------------------------------------------
\* The client's connection, by its state.
LEMMA ConnOf ==
  ASSUME IInv
  PROVE  /\ conn = NULL <=> conn_state = "TCP_DISCONNECTED"
         /\ conn \in Pcbs \cup {NULL} /\ NULL \notin Pcbs
         /\ conn_state \in ConnState
         /\ TypeOK /\ link \in [Pcbs -> Link] /\ output \in Seq(Message)
         /\ conn_state = "TCP_CONNECTING" => pcb[conn] = SynPcb /\ link[conn] = NoLink
         /\ conn_state \in {"MQTT_CONNECTING", "MQTT_CONNECTED"} =>
              pcb[conn] = [state |-> "ESTABLISHED", cbs |-> Callback, closepend |-> FALSE]
<1>1. conn_state = "TCP_CONNECTING" => pcb[conn] = SynPcb /\ conn \in Pcbs
  BY NullAssumption DEF IInv, ConnMatchesState, TypeOK
<1>2. conn_state = "TCP_CONNECTING" => link[conn] = NoLink
  BY <1>1 DEF IInv, LiveLinks, SynPcb, Carrying
<1> QED
  BY <1>1, <1>2, NullAssumption DEF IInv, ConnMatchesState, TypeOK

\* An event that the client does not notice.
LEMMA Unnoticed ==
  ASSUME ShakeInv, UNCHANGED <<conn_state, conn, output>>,
         conn # NULL => link'[conn] = link[conn],
         conn = NULL => conn_state = "TCP_DISCONNECTED"
  PROVE  ShakeInv' /\ Kept
<1>1. conn_state' = conn_state /\ conn' = conn /\ output' = output
  OBVIOUS
<1>2. ShakeInv'
  BY <1>1 DEF ShakeInv, Handshake, Online
<1>3. BrokerSees' = BrokerSees
  BY <1>1 DEF BrokerSees
<1> QED
  BY <1>1, <1>2, <1>3 DEF Kept

\* A step that leaves the client's stream and what the broker made of it.
LEMMA SameStream ==
  ASSUME IInv, ShakeInv, UNCHANGED <<conn_state, conn, output>>,
         conn # NULL => /\ link'[conn].out = link[conn].out
                        /\ link'[conn].srv = link[conn].srv
                        /\ NoConnack(link[conn].in) => NoConnack(link'[conn].in)
  PROVE  ShakeInv' /\ Kept
<1>1. conn_state' = conn_state /\ conn' = conn /\ output' = output
  OBVIOUS
<1>2. conn = NULL => conn_state = "TCP_DISCONNECTED"
  BY ConnOf
<1>3. ShakeInv'
  BY <1>1, <1>2 DEF ShakeInv, Handshake, Online
<1>4. BrokerSees' = BrokerSees
  BY <1>1 DEF BrokerSees
<1> QED
  BY <1>1, <1>3, <1>4 DEF Kept

\* The end of a session.
LEMMA Ends ==
  ASSUME conn_state' = "TCP_DISCONNECTED", conn' = NULL
  PROVE  ShakeInv' /\ Kept
<1>1. ShakeInv'
  BY DEF ShakeInv
<1>2. phaseOf(conn_state') = "down" /\ BrokerSees' = "none"
  BY DEF phaseOf, BrokerSees
<1>3. Contract!Fail
  BY <1>2 DEF Contract!Fail, BrokerSees
<1> QED
  BY <1>1, <1>3 DEF Kept, Contract!Next

LEMMA RestPlain ==
  ASSUME NEW msgs \in Seq(Message), NoConnect(msgs), NEW k \in 0..Len(msgs)
  PROVE  NoConnect(Rest(msgs, k))
<1>1. Len(msgs) \in Nat /\ k \in Nat
  BY LenProperties
<1>2. /\ Len(Rest(msgs, k)) = Len(msgs) - k
      /\ \A i \in 1..(Len(msgs) - k) : Rest(msgs, k)[i] = msgs[i + k] /\ i + k \in 1..Len(msgs)
  BY <1>1, SubSeqProperties DEF Rest
<1> QED
  BY <1>2 DEF NoConnect

\* mqtt_output_send on the connection of a client that is connected.
LEMMA OnlineSends ==
  ASSUME TypeOK, NEW msgs \in Seq(Message), NoConnect(msgs),
         NEW p \in Pcbs, NEW l \in [Pcbs -> Link], Plain(l[p].out),
         mqtt_output_send(msgs, p, l)
  PROVE  /\ Plain(link'[p].out) /\ NoConnect(output')
         /\ link'[p].srv = l[p].srv
         /\ \A q \in Pcbs : q # p => link'[q] = l[q]
<1>1. PICK k \in IF pcb[p].state \in Writable
                 THEN 0..Lesser(Len(msgs), SndBufMsgs - Len(l[p].out)) ELSE {0} :
        /\ output' = Rest(msgs, k)
        /\ link' = [l EXCEPT ![p].out = @ \o FirstOf(msgs, k)]
  BY DEF mqtt_output_send
<1>2. k \in 0..Len(msgs) /\ Len(msgs) \in Nat
  BY <1>1, SizeAssumption, LenProperties DEF Lesser, Link
<1>3. FirstOf(msgs, k) \in Seq(Sent) /\ Len(FirstOf(msgs, k)) = k
  <2>1. FirstOf(msgs, k) \in Seq(Sent)
    BY <1>2, Prefix DEF TypeOK
  <2>2. k \in Nat
    BY <1>2
  <2> QED
    BY <2>1, <2>2 DEF FirstOf
<1>4. \A i \in 1..k : FirstOf(msgs, k)[i].kind # "CONNECT"
  BY <1>2 DEF FirstOf, NoConnect
<1>5. l[p].out \in Seq(Sent) /\ Len(l[p].out) \in Nat
  BY LenProperties DEF Link
<1>6. /\ link'[p].out = l[p].out \o FirstOf(msgs, k) /\ link'[p].srv = l[p].srv
      /\ \A q \in Pcbs : q # p => link'[q] = l[q]
  BY <1>1 DEF Link
<1>7. Plain(l[p].out \o FirstOf(msgs, k))
  <2> SUFFICES ASSUME NEW i \in 1..Len(l[p].out \o FirstOf(msgs, k))
               PROVE  (l[p].out \o FirstOf(msgs, k))[i].kind # "CONNECT"
    BY DEF Plain
  <2>1. /\ i \in 1..(Len(l[p].out) + k)
        /\ (l[p].out \o FirstOf(msgs, k))[i] =
             IF i <= Len(l[p].out) THEN l[p].out[i] ELSE FirstOf(msgs, k)[i - Len(l[p].out)]
    BY <1>3, <1>5, ConcatProperties
  <2>2. CASE i <= Len(l[p].out)
    <3>1. i \in 1..Len(l[p].out)
      BY <1>2, <1>5, <2>1, <2>2
    <3> QED
      BY <2>1, <2>2, <3>1 DEF Plain
  <2>3. CASE i > Len(l[p].out)
    <3>1. i - Len(l[p].out) \in 1..k
      BY <1>2, <1>5, <2>1, <2>3
    <3>2. (l[p].out \o FirstOf(msgs, k))[i] = FirstOf(msgs, k)[i - Len(l[p].out)]
      BY <1>5, <2>1, <2>3
    <3> QED
      BY <1>4, <3>1, <3>2
  <2> QED
    BY <1>2, <1>5, <2>1, <2>2, <2>3
<1>8. NoConnect(Rest(msgs, k))
  BY <1>2, RestPlain
<1> QED
  BY <1>1, <1>6, <1>7, <1>8

\* One more message that is no CONNECT.
LEMMA AppendPlain ==
  ASSUME NEW msgs \in Seq(Message), NoConnect(msgs), NEW m \in Message, m # "CONNECT"
  PROVE  Append(msgs, m) \in Seq(Message) /\ NoConnect(Append(msgs, m))
BY AppendProperties DEF NoConnect

\* A frame is taken off, or added that is no CONNACK.
LEMMA InNoConnack ==
  ASSUME NEW in \in Seq(Frame), NoConnack(in)
  PROVE  /\ in # <<>> => NoConnack(Tail(in)) /\ Head(in) # "CONNACK"
         /\ \A x \in Frame : x # "CONNACK" => NoConnack(Append(in, x))
<1>1. Len(in) \in Nat
  BY LenProperties
<1>2. ASSUME in # <<>>
      PROVE  NoConnack(Tail(in)) /\ Head(in) # "CONNACK"
  <2>1. /\ Len(in) # 0 /\ Head(in) = in[1] /\ Len(Tail(in)) = Len(in) - 1
        /\ \A i \in 1..Len(Tail(in)) : Tail(in)[i] = in[i + 1]
    BY <1>2, HeadTailProperties, EmptySeq
  <2>2. 1 \in 1..Len(in) /\ \A i \in 1..Len(Tail(in)) : i + 1 \in 1..Len(in)
    BY <1>1, <2>1
  <2> QED
    BY <2>1, <2>2 DEF NoConnack
<1>3. ASSUME NEW x \in Frame, x # "CONNACK"
      PROVE  NoConnack(Append(in, x))
  BY <1>3, AppendProperties DEF NoConnack
<1> QED
  BY <1>2, <1>3

-----------------------------------------------------------------------------
(* The actions                                                             *)

\* mqtt_close or a pcb that dies leaves the streams of the others alone.
LEMMA OthersLive ==
  ASSUME IInv, NEW f, NEW l \in [Pcbs -> Link], NEW p \in Pcbs, p # conn,
         \A q \in Pcbs : q # p => f[q] = pcb[q] /\ l[q] = link[q]
  PROVE  conn # NULL => Live(f, l)[conn] = link[conn]
BY ConnOf DEF Live, IInv, LiveLinks

LEMMA TickKept == ASSUME IInv, ShakeInv, Tick PROVE ShakeInv' /\ Kept
BY Unnoticed, ConnOf DEF Tick, clientVars

\* A new attempt, or none for lack of a pcb.
LEMMA ReconnectKept ==
  ASSUME IInv, ShakeInv, Reconnect
  PROVE  ShakeInv' /\ Kept
<1>1. PICK f : mqtt_client_connect(f)
  BY DEF Reconnect
<1>2. conn_state # "MQTT_CONNECTED"
  BY DEF Reconnect, RetryNow
<1>3. CASE conn' = NULL /\ conn_state' = "TCP_DISCONNECTED"
  BY <1>3, Ends
<1>4. CASE conn' # NULL /\ conn_state' = "TCP_CONNECTING" /\ output' = <<"CONNECT">>
  <2>1. ShakeInv'
    BY <1>4 DEF ShakeInv
  <2>2. IInv'
    BY ReconnectInv
  <2>3. link'[conn'] = NoLink
    <3>1. conn' \in Pcbs /\ pcb'[conn'] = SynPcb
      BY <1>4, <2>2 DEF IInv, TypeOK, ConnMatchesState
    <3> QED
      BY <2>2, <3>1 DEF IInv, LiveLinks, SynPcb, Carrying
  <2>4. Contract!Dial
    <3>1. phaseOf(conn_state) # "online"
      BY <1>2, ConnOf DEF phaseOf, ConnState
    <3>2. phaseOf(conn_state') = "dialing"
      BY <1>4 DEF phaseOf
    <3>3. BrokerSees' = "none"
      BY <1>4, <2>3 DEF BrokerSees, brokerOf, NoLink
    <3> QED
      BY <3>1, <3>2, <3>3 DEF Contract!Dial, BrokerSees
  <2> QED
    BY <2>1, <2>4 DEF Kept, Contract!Next
<1> QED
  <2>1. PICK a \in TcpAlloc(f) :
       \/ conn' = NULL /\ conn_state' = "TCP_DISCONNECTED"
       \/ /\ a.new # NULL /\ conn' = a.new
          /\ conn_state' = "TCP_CONNECTING" /\ output' = <<"CONNECT">>
    BY <1>1 DEF mqtt_client_connect
  <2> QED
    BY <1>3, <1>4, <2>1

\* A connected client sends.
LEMMA SendsOn ==
  ASSUME IInv, ShakeInv, NEW l \in [Pcbs -> Link], NEW msgs \in Seq(Message),
         conn_state = "MQTT_CONNECTED", NoConnect(msgs), 
         l[conn].out = link[conn].out, l[conn].srv = link[conn].srv,
         mqtt_output_send(msgs, conn, l), UNCHANGED <<conn, conn_state>>
  PROVE  ShakeInv' /\ Kept
<1>1. conn \in Pcbs /\ conn # NULL
  BY ConnOf
<1>2. Plain(l[conn].out) /\ link[conn].srv \in {"session", "subscribed", "closed"}
  BY DEF ShakeInv, Online
<1>3. /\ Plain(link'[conn].out) /\ NoConnect(output')
      /\ link'[conn].srv = link[conn].srv
  BY <1>1, <1>2, OnlineSends, ConnOf
<1>4. conn' = conn /\ conn_state' = conn_state
  OBVIOUS
<1>5. ShakeInv'
  BY <1>2, <1>3, <1>4 DEF ShakeInv, Online
<1>6. BrokerSees' = BrokerSees
  BY <1>1, <1>3, <1>4 DEF BrokerSees
<1> QED
  BY <1>4, <1>5, <1>6 DEF Kept

LEMMA PublishKept ==
  ASSUME IInv, ShakeInv, Publish
  PROVE  ShakeInv' /\ Kept
<1>1. Append(output, "PUBLISH") \in Seq(Message) /\ NoConnect(Append(output, "PUBLISH"))
  BY AppendPlain, ConnOf DEF Publish, ShakeInv, Online, Message
<1> QED
  BY <1>1, SendsOn, ConnOf DEF Publish

LEMMA ConnectedKept ==
  ASSUME IInv, ShakeInv, NEW p \in Pcbs, Connected(p)
  PROVE  ShakeInv' /\ Kept
<1>1. p = conn /\ conn_state = "TCP_CONNECTING" /\ output = <<"CONNECT">>
  BY CallbackPcb DEF Connected, ShakeInv
<1>2. PICK k \in 0..Lesser(Len(output), SndBufMsgs) :
       /\ output' = Rest(output, k)
       /\ link' = [link EXCEPT ![p] = [out |-> FirstOf(output, k), in |-> <<>>,
                                       ack |-> FALSE, srv |-> "open"]]
  BY DEF Connected
<1>3. k \in {0, 1} /\ Len(output) = 1
  BY <1>1, <1>2, SizeAssumption DEF Lesser
<1>4. link'[conn] = [out |-> FirstOf(output, k), in |-> <<>>, ack |-> FALSE, srv |-> "open"]
  BY <1>1, <1>2, ConnOf
<1>5. conn' = conn /\ conn_state' = "MQTT_CONNECTING"
  BY DEF Connected
<1>6. \/ output' = <<"CONNECT">> /\ link'[conn].out = <<>>
      \/ output' = <<>> /\ Len(link'[conn].out) = 1 /\ link'[conn].out[1].kind = "CONNECT"
  <2>1. CASE k = 0
    <3>1. output' = <<"CONNECT">>
      <4>1. output' = SubSeq(output, 1, Len(output)) /\ output \in Seq(Message)
        BY <1>2, <1>3, <2>1, ConnOf DEF Rest
      <4>2. output' = output
        BY <4>1, SubSeqFull
      <4> QED
        BY <1>1, <4>2
    <3>2. FirstOf(output, k) = <<>>
      BY <2>1 DEF FirstOf
    <3> QED
      BY <1>4, <3>1, <3>2
  <2>2. CASE k = 1
    <3>1. output' = <<>>
      BY <1>1, <1>2, <2>2 DEF Rest
    <3>2. Len(FirstOf(output, k)) = 1 /\ FirstOf(output, k)[1].kind = "CONNECT"
      BY <1>1, <2>2 DEF FirstOf
    <3> QED
      BY <1>4, <3>1, <3>2
  <2> QED
    BY <1>3, <2>1, <2>2
<1>7. link'[conn].srv = "open" /\ NoConnack(link'[conn].in)
  BY <1>4 DEF NoConnack
<1>8. ShakeInv'
  BY <1>5, <1>6, <1>7 DEF ShakeInv, Handshake
<1>9. Contract!Establish
  <2>1. phaseOf(conn_state) = "dialing" /\ phaseOf(conn_state') = "handshake"
    BY <1>1, <1>5 DEF phaseOf
  <2>2. BrokerSees' = "open"
    BY <1>1, <1>5, <1>7, ConnOf DEF BrokerSees, brokerOf
  <2> QED
    BY <2>1, <2>2 DEF Contract!Establish, BrokerSees
<1> QED
  BY <1>8, <1>9 DEF Kept, Contract!Next

\* A pcb dies, with or without mqtt_tcp_err_cb, or is aborted.
LEMMA FreedKept ==
  ASSUME IInv, ShakeInv, NEW p \in Pcbs, PcbDies(p) \/ LateData(p)
  PROVE  ShakeInv' /\ Kept
<1> DEFINE f == [pcb EXCEPT ![p] = FreePcb]
<1>1. CASE PcbDies(p) /\ "err" \in pcb[p].cbs
  BY <1>1, Ends DEF PcbDies, mqtt_close
<1>2. CASE (PcbDies(p) /\ "err" \notin pcb[p].cbs) \/ LateData(p)
  <2>1. link' = Live(f, link) /\ UNCHANGED clientVars
    BY <1>2 DEF PcbDies, LateData
  <2>2. p # conn
    <3>1. CASE LateData(p)
      BY <3>1, CallbackPcb DEF LateData, Arrives
    <3>2. CASE PcbDies(p) /\ "err" \notin pcb[p].cbs /\ p = conn
      BY <3>2, ConnOf DEF SynPcb, Callback, ConnState
    <3> QED
      BY <1>2, <3>1, <3>2
  <2>3. \A q \in Pcbs : q # p => f[q] = pcb[q]
    <3> HIDE DEF FreePcb
    <3> QED
      BY DEF IInv, TypeOK
  <2> HIDE DEF f
  <2>4. conn # NULL => link'[conn] = link[conn]
    BY <2>1, <2>2, <2>3, OthersLive, ConnOf
  <2> QED
    BY <2>1, <2>4, Unnoticed, ConnOf DEF clientVars
<1> QED
  BY <1>1, <1>2

LEMMA SentCbKept ==
  ASSUME IInv, ShakeInv, NEW p \in Pcbs, SentCb(p)
  PROVE  ShakeInv' /\ Kept
<1> DEFINE l == [link EXCEPT ![p].ack = FALSE]
<1>1. UNCHANGED <<conn, conn_state>>
  BY DEF SentCb
<1>2. /\ l \in [Pcbs -> Link]
      /\ \A q \in Pcbs : /\ l[q].out = link[q].out /\ l[q].srv = link[q].srv
                         /\ l[q].in = link[q].in
  BY ConnOf DEF Link
<1>3. \/ link' = l /\ output' = output
      \/ conn_state = "MQTT_CONNECTED" /\ mqtt_output_send(output, conn, l)
  BY DEF SentCb
<1> HIDE DEF l
<1>4. CASE link' = l /\ output' = output
  <2>1. conn # NULL => /\ link'[conn].out = link[conn].out
                       /\ link'[conn].srv = link[conn].srv
                       /\ link'[conn].in = link[conn].in
    BY <1>2, <1>4, ConnOf
  <2> QED
    BY <1>1, <1>4, <2>1, SameStream
<1>5. CASE conn_state = "MQTT_CONNECTED" /\ mqtt_output_send(output, conn, l)
  <2>1. NoConnect(output) /\ conn \in Pcbs
    BY <1>5, ConnOf DEF ShakeInv, Online
  <2> QED
    BY <1>1, <1>2, <1>5, <2>1, SendsOn, ConnOf
<1> QED
  BY <1>3, <1>4, <1>5

\* A frame that tells the client nothing, or one it was not waiting for.
LEMMA TakenKept ==
  ASSUME IInv, ShakeInv, NEW p \in Pcbs, link[p].in # <<>>, link' = Received(p),
         UNCHANGED <<conn, conn_state, output>>
  PROVE  ShakeInv' /\ Kept
<1>1. /\ \A q \in Pcbs : link'[q].out = link[q].out /\ link'[q].srv = link[q].srv
      /\ \A q \in Pcbs : q # p => link'[q].in = link[q].in
      /\ link'[p].in = Tail(link[p].in)
      /\ link[p].in \in Seq(Frame)
  BY ConnOf DEF Received, Link
<1>2. \A q \in Pcbs : NoConnack(link[q].in) => NoConnack(link'[q].in)
  BY <1>1, InNoConnack
<1> QED
  <2>1. conn # NULL => /\ link'[conn].out = link[conn].out
                       /\ link'[conn].srv = link[conn].srv
                       /\ NoConnack(link[conn].in) => NoConnack(link'[conn].in)
    BY <1>1, <1>2, ConnOf
  <2> QED
    BY <2>1, SameStream

LEMMA RecvConnackKept ==
  ASSUME IInv, ShakeInv, NEW p \in Pcbs, RecvConnack(p)
  PROVE  ShakeInv' /\ Kept
<1>1. p = conn /\ link[p].in # <<>> /\ Head(link[p].in) = "CONNACK" /\ conn # NULL
  BY CallbackPcb, ConnOf DEF RecvConnack, Arrives
<1>2. conn' = conn
  BY DEF RecvConnack
<1>3. CASE conn_state # "MQTT_CONNECTING"
  BY <1>1, <1>3, TakenKept DEF RecvConnack
<1>4. CASE conn_state = "MQTT_CONNECTING"
  <2>1. conn_state' = "MQTT_CONNECTED" /\ mqtt_connection_cb(Received(p))
    BY <1>4 DEF RecvConnack
  <2>2. ~NoConnack(link[p].in)
    BY <1>1, InNoConnack, ConnOf DEF Link
  <2>3. link[p].srv \in {"session", "closed"} /\ output = <<>> /\ link[p].out = <<>>
    BY <1>1, <1>4, <2>2 DEF ShakeInv, Handshake
  <2>4. /\ Received(p) \in [Pcbs -> Link]
        /\ Received(p)[p].out = <<>> /\ Received(p)[p].srv = link[p].srv
    <3>1. Received(p) \in [Pcbs -> Link]
      BY <1>1, Taken
    <3> QED
      BY <2>3, <3>1, ConnOf DEF Received, Link
  <2>5. Plain(<<>>) /\ NoConnect(<<>>)
    BY DEF Plain, NoConnect
  <2>6. /\ Plain(link'[p].out) /\ NoConnect(output')
        /\ link'[p].srv = link[p].srv
    <3>1. CASE link' = Received(p) /\ output' = output
      BY <2>3, <2>4, <2>5, <3>1
    <3>2. CASE mqtt_output_send(Append(output, "SUBSCRIBE"), conn, Received(p))
      <4>1. Append(output, "SUBSCRIBE") \in Seq(Message) /\ NoConnect(Append(output, "SUBSCRIBE"))
        BY <2>3, <2>5, AppendPlain, ConnOf DEF Message
      <4> QED
        <5>1. TypeOK /\ mqtt_output_send(Append(output, "SUBSCRIBE"), p, Received(p))
          BY <1>1, <3>2, ConnOf
        <5>2. Plain(Received(p)[p].out)
          BY <2>4, <2>5
        <5> QED
          BY <2>4, <4>1, <5>1, <5>2, OnlineSends
    <3> QED
      BY <2>1, <3>1, <3>2 DEF mqtt_connection_cb
  <2>7. ShakeInv'
    BY <1>1, <1>2, <2>1, <2>3, <2>6 DEF ShakeInv, Online
  <2>8. Contract!GoOnline
    <3>1. phaseOf(conn_state) = "handshake" /\ phaseOf(conn_state') = "online"
      BY <1>4, <2>1 DEF phaseOf
    <3>2. BrokerSees \in {"accepted", "left"} /\ BrokerSees' = BrokerSees
      BY <1>1, <1>2, <2>3, <2>6 DEF BrokerSees, brokerOf
    <3> QED
      BY <3>1, <3>2 DEF Contract!GoOnline, BrokerSees
  <2> QED
    BY <2>7, <2>8 DEF Kept, Contract!Next
<1> QED
  BY <1>3, <1>4

LEMMA RecvOtherKept ==
  ASSUME IInv, ShakeInv, NEW p \in Pcbs, RecvRefused(p) \/ RecvSuback(p) \/ RecvOther(p)
  PROVE  ShakeInv' /\ Kept
<1>1. CASE RecvRefused(p) /\ conn_state = "MQTT_CONNECTING"
  BY <1>1, Ends DEF RecvRefused, mqtt_close
<1>2. CASE RecvRefused(p) /\ conn_state # "MQTT_CONNECTING"
  BY <1>2, TakenKept DEF RecvRefused, Arrives
<1>3. CASE RecvSuback(p) \/ RecvOther(p)
  BY <1>3, TakenKept DEF RecvSuback, RecvOther, Arrives
<1> QED
  BY <1>1, <1>2, <1>3

LEMMA RecvFinKept ==
  ASSUME IInv, ShakeInv, NEW p \in Pcbs, RecvFin(p)
  PROVE  ShakeInv' /\ Kept
<1>1. CASE "recv" \in pcb[p].cbs
  BY <1>1, Ends DEF RecvFin, mqtt_close
<1>2. CASE "recv" \notin pcb[p].cbs
  <2>1. PICK s : /\ link' = Live([pcb EXCEPT ![p].state = s], Received(p))
                 /\ UNCHANGED clientVars
    BY <1>2 DEF RecvFin
  <2>2. p # conn /\ Received(p) \in [Pcbs -> Link]
    BY <1>2, CallbackPcb, Taken DEF RecvFin, Arrives
  <2> DEFINE f == [pcb EXCEPT ![p].state = s]
  <2>3. \A q \in Pcbs : q # p => f[q] = pcb[q] /\ Received(p)[q] = link[q]
    BY ConnOf DEF IInv, TypeOK, Received
  <2>4. link' = Live(f, Received(p))
    BY <2>1
  <2> HIDE DEF f
  <2>5. conn # NULL => link'[conn] = link[conn]
    BY <2>2, <2>3, <2>4, OthersLive
  <2> QED
    BY <2>1, <2>5, Unnoticed, ConnOf DEF clientVars
<1> QED
  BY <1>1, <1>2

LEMMA PollKept ==
  ASSUME IInv, ShakeInv, NEW p \in Pcbs, Poll(p)
  PROVE  ShakeInv' /\ Kept
<1>1. /\ conn_state = "MQTT_CONNECTED" /\ UNCHANGED <<conn, conn_state>>
      /\ mqtt_output_send(output, p, link)
  BY DEF Poll
<1>2. NoConnect(output) /\ Online(link[conn]) /\ conn \in Pcbs /\ conn # NULL
  BY <1>1, ConnOf DEF ShakeInv, Online
<1>3. CASE p = conn
  BY <1>1, <1>2, <1>3, SendsOn, ConnOf
<1>4. CASE p # conn
  <2>1. /\ link'[conn] = link[conn]
        /\ \E k \in 0..Len(output) : output' = Rest(output, k)
    <3>1. PICK k \in IF pcb[p].state \in Writable
                     THEN 0..Lesser(Len(output), SndBufMsgs - Len(link[p].out)) ELSE {0} :
            /\ output' = Rest(output, k)
            /\ link' = [link EXCEPT ![p].out = @ \o FirstOf(output, k)]
      BY <1>1 DEF mqtt_output_send
    <3>2. k \in 0..Len(output)
      BY <3>1, ConnOf, SizeAssumption, LenProperties DEF Lesser, Link
    <3> QED
      BY <1>2, <1>4, <3>1, <3>2, ConnOf
  <2>2. NoConnect(output')
    BY <1>2, <2>1, RestPlain, ConnOf
  <2>3. ShakeInv'
    BY <1>1, <1>2, <2>1, <2>2 DEF ShakeInv, Online
  <2>4. BrokerSees' = BrokerSees
    BY <1>1, <2>1 DEF BrokerSees
  <2> QED
    BY <1>1, <2>3, <2>4 DEF Kept
<1> QED
  BY <1>3, <1>4

\* The timers of TCP serve pcbs that are not the client's.
LEMMA TcpTimersKept ==
  ASSUME IInv, ShakeInv, NEW p \in Pcbs, FastTimer(p) \/ CloseProgress(p)
  PROVE  ShakeInv' /\ Kept
<1>1. p # conn
  BY CallbackPcb DEF FastTimer, CloseProgress
<1>2. link' = Live(pcb', link) /\ UNCHANGED clientVars
  BY DEF FastTimer, CloseProgress
<1>3. \A q \in Pcbs : q # p => pcb'[q] = pcb[q]
  <2>1. \E r : pcb' = [pcb EXCEPT ![p] = r] \/ pcb' = [pcb EXCEPT ![p].state = r]
    <3> HIDE DEF FreePcb
    <3> QED
      BY DEF FastTimer, CloseProgress
  <2> QED
    BY <2>1 DEF IInv, TypeOK
<1>4. conn # NULL => link'[conn] = link[conn]
  BY <1>1, <1>2, <1>3, OthersLive, ConnOf
<1> QED
  BY <1>2, <1>4, Unnoticed, ConnOf DEF clientVars

LEMMA CyclicTimerKept ==
  ASSUME IInv, ShakeInv, mqtt_cyclic_timer
  PROVE  ShakeInv' /\ Kept
<1>1. CASE conn_state' = "TCP_DISCONNECTED" /\ conn' = NULL
  BY <1>1, Ends
<1>2. CASE UNCHANGED <<conn_state, conn, link, output>>
  BY <1>2, Unnoticed, ConnOf
<1>3. CASE /\ conn_state = "MQTT_CONNECTED" /\ UNCHANGED <<conn_state, conn, link>>
           /\ output' = Append(output, "PINGREQ")
  <2>1. conn' = conn /\ conn_state' = conn_state /\ link' = link
    BY <1>3
  <2>2. NoConnect(output')
    BY <1>3, AppendPlain, ConnOf DEF ShakeInv, Online, Message
  <2>3. ShakeInv' /\ BrokerSees' = BrokerSees
    BY <1>3, <2>1, <2>2 DEF ShakeInv, Online, BrokerSees
  <2> QED
    BY <2>1, <2>3 DEF Kept
<1>4. \/ conn_state' = "TCP_DISCONNECTED" /\ conn' = NULL
      \/ UNCHANGED <<conn_state, conn, link, output>>
      \/ /\ conn_state = "MQTT_CONNECTED" /\ UNCHANGED <<conn_state, conn, link>>
         /\ output' = Append(output, "PINGREQ")
  <2>1. CASE conn_state = "MQTT_CONNECTING"
    BY <2>1 DEF mqtt_cyclic_timer, ConnectTimer, mqtt_close
  <2>2. CASE conn_state = "MQTT_CONNECTED"
    BY <2>2 DEF mqtt_cyclic_timer, KeepAliveTimer, mqtt_close
  <2>3. CASE conn_state \notin {"MQTT_CONNECTING", "MQTT_CONNECTED"}
    BY <2>3 DEF mqtt_cyclic_timer, clientVars
  <2> QED
    BY <2>1, <2>2, <2>3
<1> QED
  BY <1>1, <1>2, <1>3, <1>4

\* What the broker does to a link.
LEMMA ServerDoes ==
  ASSUME IInv, NEW p \in Pcbs, ServerStep(p)
  PROVE  LET l == link[p] m == link'[p] IN
         /\ UNCHANGED clientVars
         /\ \A q \in Pcbs : q # p => link'[q] = link[q]
         /\ l.out \in Seq(Sent) /\ l.in \in Seq(Frame)
         /\ \/ /\ l.out # <<>> /\ Head(l.out).kind = "CONNECT" /\ l.srv = "open"
               /\ m.out = Tail(l.out)
               /\ \/ m.srv = "session"
                  \/ m.srv = "refused" /\ m.in = Append(l.in, "REFUSED")
            \/ /\ l.out # <<>> /\ l.srv \in {"session", "subscribed"}
               /\ m.out = Tail(l.out)
               /\ \/ m.srv = l.srv
                  \/ m.srv = "subscribed" /\ Head(l.out).kind = "SUBSCRIBE"
                  \/ m.srv = "closed" /\ Head(l.out).kind = "CONNECT"
            \/ /\ l.out # <<>> /\ Head(l.out).kind # "CONNECT" /\ l.srv = "open"
               /\ m.out = Tail(l.out)
               /\ m.srv = "refused" /\ m.in = Append(l.in, "FIN")
            \/ /\ l.srv = "subscribed" /\ m.srv = l.srv /\ m.out = l.out
            \/ /\ l.srv \in {"open", "session", "subscribed"}
               /\ m.srv = EndOf(l.srv) /\ m.out = l.out /\ m.in = Append(l.in, "FIN")
<1>1. link \in [Pcbs -> Link] /\ link[p] \in Link
  BY ConnOf
<1>2. ASSUME NEW x, NEW s, Reply(p, x, s)
      PROVE  /\ \A q \in Pcbs : q # p => link'[q] = link[q]
             /\ link'[p].out = Tail(link[p].out) /\ link'[p].in = Append(link[p].in, x)
             /\ link'[p].srv = s
  BY <1>1, <1>2 DEF Reply, Link
<1>3. ASSUME link' = [link EXCEPT ![p].out = Tail(@), ![p].ack = TRUE]
      PROVE  /\ \A q \in Pcbs : q # p => link'[q] = link[q]
             /\ link'[p].out = Tail(link[p].out) /\ link'[p].srv = link[p].srv
  BY <1>1, <1>3 DEF Link
<1>4. UNCHANGED clientVars /\ link[p].out \in Seq(Sent) /\ link[p].in \in Seq(Frame)
  BY <1>1 DEF ServerStep, ServerRecv, ServerPublish, ServerClose, Link
<1>5. CASE ServerRecv(p)
  <2> HIDE DEF Reply
  <2> QED
    BY <1>2, <1>3, <1>4, <1>5 DEF ServerRecv, EndOf
<1>6. CASE ServerPublish(p)
  BY <1>1, <1>4, <1>6 DEF ServerPublish, Link
<1>7. CASE ServerClose(p)
  BY <1>1, <1>4, <1>7 DEF ServerClose, Link
<1> QED
  BY <1>5, <1>6, <1>7 DEF ServerStep

\* The end of a stream that has been read from.
LEMMA TailPlain ==
  ASSUME NEW out \in Seq(Sent), out # <<>>
  PROVE  /\ Plain(out) => Plain(Tail(out)) /\ Head(out).kind # "CONNECT"
         /\ Len(out) <= 1 => Tail(out) = <<>>
<1>1. /\ Len(out) \in Nat /\ Len(out) # 0 /\ Head(out) = out[1]
      /\ Tail(out) \in Seq(Sent) /\ Len(Tail(out)) = Len(out) - 1
      /\ \A i \in 1..Len(Tail(out)) : Tail(out)[i] = out[i + 1]
  BY HeadTailProperties, EmptySeq, LenProperties
<1>2. 1 \in 1..Len(out) /\ \A i \in 1..Len(Tail(out)) : i + 1 \in 1..Len(out)
  BY <1>1
<1>3. Plain(out) => Plain(Tail(out)) /\ Head(out).kind # "CONNECT"
  BY <1>1, <1>2 DEF Plain
<1>4. Len(out) <= 1 => Tail(out) = <<>>
  BY <1>1, EmptySeq
<1> QED
  BY <1>3, <1>4

LEMMA ServerKept ==
  ASSUME IInv, ShakeInv, NEW p \in Pcbs, ServerStep(p)
  PROVE  ShakeInv' /\ Kept
<1> DEFINE l == link[p]
           m == link'[p]
<1>1. UNCHANGED <<conn, conn_state, output>>
  BY ServerDoes DEF clientVars
<1>2. CASE p # conn
  <2>1. conn # NULL => link'[conn] = link[conn]
    BY <1>2, ServerDoes, ConnOf
  <2> QED
    BY <1>1, <2>1, Unnoticed, ConnOf
<1>3. CASE p = conn /\ conn_state = "MQTT_CONNECTING"
  <2>1. Handshake(l) /\ phaseOf(conn_state) = "handshake" /\ conn # NULL
    BY <1>3, ConnOf DEF ShakeInv, phaseOf
  <2>2. BrokerSees = brokerOf(l.srv) /\ BrokerSees' = brokerOf(m.srv)
    BY <1>1, <1>3, <2>1 DEF BrokerSees
  <2>3. CASE /\ l.srv = "open" /\ m.srv = "session" /\ l.out # <<>> /\ m.out = Tail(l.out)
    <3>1. Len(l.out) = 1 /\ output = <<>>
      BY <2>1, <2>3 DEF Handshake
    <3>2. m.out = <<>>
      <4>1. l.out \in Seq(Sent)
        BY ServerDoes
      <4> QED
        <5>1. l.out # <<>> /\ Len(l.out) <= 1
          BY <2>3, <3>1
        <5> HIDE DEF l, m
        <5>2. Tail(l.out) = <<>>
          BY <4>1, <5>1, TailPlain
        <5> QED
          BY <2>3, <5>2
    <3>3. Handshake(link[conn])'
      BY <1>1, <1>3, <2>3, <3>1, <3>2 DEF Handshake
    <3>4. Contract!BrokerAccepts
      BY <1>1, <2>1, <2>2, <2>3 DEF Contract!BrokerAccepts, BrokerSees, brokerOf
    <3> QED
      BY <1>1, <1>3, <3>3, <3>4 DEF ShakeInv, Kept, Contract!Next
  <2>4. CASE /\ l.srv = "open" /\ m.srv = "refused"
             /\ m.in = Append(l.in, "REFUSED") \/ m.in = Append(l.in, "FIN")
    <3>1. NoConnack(l.in)
      BY <2>1, <2>4 DEF Handshake
    <3>2. NoConnack(m.in)
      BY <2>4, <3>1, InNoConnack, ServerDoes DEF Frame
    <3>3. Handshake(link[conn])'
      BY <1>1, <1>3, <2>4, <3>2 DEF Handshake
    <3>4. Contract!BrokerRefuses
      BY <1>1, <2>1, <2>2, <2>4 DEF Contract!BrokerRefuses, BrokerSees, brokerOf
    <3> QED
      BY <1>1, <1>3, <3>3, <3>4 DEF ShakeInv, Kept, Contract!Next
  <2>5. CASE l.srv = "session" /\ m.srv = "closed" /\ m.out = l.out
    <3>1. Handshake(link[conn])'
      BY <1>1, <1>3, <2>1, <2>5 DEF Handshake
    <3>2. Contract!BrokerLeaves
      BY <1>1, <2>2, <2>5 DEF Contract!BrokerLeaves, BrokerSees, brokerOf
    <3> QED
      BY <1>1, <1>3, <3>1, <3>2 DEF ShakeInv, Kept, Contract!Next
  <2>6. \/ /\ l.srv = "open" /\ m.srv = "session" /\ l.out # <<>> /\ m.out = Tail(l.out)
        \/ /\ l.srv = "open" /\ m.srv = "refused"
           /\ m.in = Append(l.in, "REFUSED") \/ m.in = Append(l.in, "FIN")
        \/ l.srv = "session" /\ m.srv = "closed" /\ m.out = l.out
    BY <2>1, ServerDoes DEF Handshake, EndOf
  <2> QED
    BY <2>3, <2>4, <2>5, <2>6
<1>4. CASE p = conn /\ conn_state = "MQTT_CONNECTED"
  <2>1. Online(l) /\ phaseOf(conn_state) = "online" /\ conn # NULL
    BY <1>4, ConnOf DEF ShakeInv, phaseOf
  <2>2. BrokerSees = brokerOf(l.srv) /\ BrokerSees' = brokerOf(m.srv)
    BY <1>1, <1>4, <2>1 DEF BrokerSees
  <2>3. /\ Plain(m.out)
        /\ l.srv \in {"session", "subscribed"}
        /\ m.srv \in {l.srv, "subscribed", "closed"}
    <3>1. m.out = l.out \/ (l.out # <<>> /\ m.out = Tail(l.out))
      BY ServerDoes
    <3>2. Plain(m.out) /\ (l.out # <<>> => Head(l.out).kind # "CONNECT")
      BY <2>1, <3>1, TailPlain, ServerDoes DEF Online
    <3> QED
      BY <2>1, <3>2, ServerDoes DEF Online, EndOf
  <2>4. ShakeInv'
    BY <1>1, <1>4, <2>1, <2>3 DEF ShakeInv, Online
  <2>5. CASE m.srv = l.srv
    BY <1>1, <2>2, <2>4, <2>5 DEF Kept
  <2>6. CASE m.srv = "subscribed" /\ m.srv # l.srv
    <3>1. Contract!BrokerSubscribes
      BY <1>1, <2>1, <2>2, <2>3, <2>6 DEF Contract!BrokerSubscribes, BrokerSees, brokerOf
    <3> QED
      BY <2>4, <3>1 DEF Kept, Contract!Next
  <2>7. CASE m.srv = "closed"
    <3>1. Contract!BrokerLeaves
      BY <1>1, <2>2, <2>3, <2>7 DEF Contract!BrokerLeaves, BrokerSees, brokerOf
    <3> QED
      BY <2>4, <3>1 DEF Kept, Contract!Next
  <2> QED
    BY <2>3, <2>5, <2>6, <2>7
<1>5. CASE p = conn /\ conn_state \notin {"MQTT_CONNECTING", "MQTT_CONNECTED"}
  <2>1. l = NoLink
    BY <1>5, ConnOf DEF ConnState
  <2> QED
    BY <2>1, ServerDoes DEF NoLink
<1> QED
  BY <1>2, <1>3, <1>4, <1>5

-----------------------------------------------------------------------------
\* Every step of the session is one of the contract or none.
LEMMA NextKept ==
  ASSUME IInv, ShakeInv, [Next]_vars
  PROVE  ShakeInv' /\ Kept
<1>1. CASE UNCHANGED vars
  BY <1>1, Unnoticed, ConnOf DEF vars, clientVars
<1>2. ASSUME NEW p \in Pcbs, Network(p) \/ ServerStep(p)
      PROVE  ShakeInv' /\ Kept
  BY <1>2, ConnectedKept, FreedKept, SentCbKept, RecvConnackKept, RecvOtherKept,
     RecvFinKept, PollKept, TcpTimersKept, ServerKept DEF Network
<1> QED
  BY <1>1, <1>2, TickKept, ReconnectKept, PublishKept, CyclicTimerKept DEF Next

LEMMA InitKept == ASSUME Init PROVE ShakeInv /\ Contract!Init
<1>1. ShakeInv
  BY DEF Init, ShakeInv
<1>2. BrokerSees = "none"
  BY DEF Init, BrokerSees, brokerOf, NoLink
<1>3. phaseOf(conn_state) \in {"down", "dialing"}
  BY DEF Init, phaseOf
<1> QED
  BY <1>1, <1>2, <1>3 DEF Contract!Init, BrokerSees

\* The session keeps its contract, its fairness aside: one session at a time,
\* online only after the broker has accepted it on that connection, a
\* subscription only from a device that is online.
THEOREM StepsKeepContract == Spec => Contract!Init /\ [][Contract!Next]_(Contract!vars)
<1>1. Init => ShakeInv /\ Contract!Init
  BY InitKept
<1>2. IInv /\ ShakeInv /\ [Next]_vars => ShakeInv' /\ [Contract!Next]_(Contract!vars)
  BY NextKept DEF Kept, Contract!vars, BrokerSees
<1> QED
  BY <1>1, <1>2, Invariance, PTL DEF Spec

-----------------------------------------------------------------------------
(* CONNECT is first                                                        *)

\* Before the broker has answered, a stream holds the CONNECT or nothing, then
\* no CONNECT.
Begun(l) ==
  /\ l.srv = "none" => l.out = <<>>
  /\ l.srv = "open" => Len(l.out) <= 1 /\ \A i \in 1..Len(l.out) : l.out[i].kind = "CONNECT"
  /\ l.srv \in {"session", "subscribed"} => Plain(l.out)

FirstInv == StreamInv /\ ShakeInv /\ \A p \in Pcbs : Begun(link[p])

LEMMA OnlyConnect ==
  ASSUME NEW out, out = <<>> \/ (Len(out) = 1 /\ out[1].kind = "CONNECT")
  PROVE  Len(out) <= 1 /\ \A i \in 1..Len(out) : out[i].kind = "CONNECT"
<1>1. CASE out = <<>>
  <2>1. Len(out) = 0
    BY <1>1
  <2> HIDE <1>1
  <2> QED
    BY <2>1
<1>2. CASE Len(out) = 1 /\ out[1].kind = "CONNECT"
  <2>1. \A i \in 1..Len(out) : i = 1
    BY <1>2
  <2> QED
    BY <1>2, <2>1
<1> QED
  BY <1>1, <1>2

\* The stream of the client's connection.
LEMMA ConnBegun == IInv /\ ShakeInv /\ conn # NULL => Begun(link[conn])
<1> SUFFICES ASSUME IInv, ShakeInv, conn # NULL
             PROVE  Begun(link[conn])
  OBVIOUS
<1>1. CASE conn_state = "TCP_CONNECTING"
  BY <1>1, ConnOf DEF Begun, NoLink
<1>2. CASE conn_state = "MQTT_CONNECTING"
  <2>1. Handshake(link[conn])
    BY <1>2 DEF ShakeInv
  <2>2. CASE link[conn].srv = "open"
    <3>1. \/ link[conn].out = <<>>
          \/ Len(link[conn].out) = 1 /\ link[conn].out[1].kind = "CONNECT"
      BY <2>1, <2>2 DEF Handshake
    <3>2. /\ Len(link[conn].out) <= 1
          /\ \A i \in 1..Len(link[conn].out) : link[conn].out[i].kind = "CONNECT"
      BY <3>1, OnlyConnect
    <3> QED
      BY <2>2, <3>2 DEF Begun
  <2>3. CASE link[conn].srv # "open"
    BY <2>1, <2>3 DEF Handshake, Begun, Plain
  <2> QED
    BY <2>2, <2>3
<1>3. CASE conn_state = "MQTT_CONNECTED"
  BY <1>3 DEF ShakeInv, Online, Begun
<1> QED
  BY <1>1, <1>2, <1>3, ConnOf DEF ConnState

LEMMA ConnBegunNext ==
  ASSUME IInv', ShakeInv', conn' # NULL
  PROVE  Begun(link[conn])'
<1>1. (IInv /\ ShakeInv /\ conn # NULL => Begun(link[conn]))'
  BY ConnBegun, PTL
<1> QED
  BY <1>1

\* A stream that nobody writes to or reads.
Untouched(q) ==
  (link'[q].out = link[q].out /\ link'[q].srv = link[q].srv) \/ link'[q] = NoLink

LEMMA StillBegun ==
  ASSUME NEW q \in Pcbs, Begun(link[q]), Untouched(q)
  PROVE  Begun(link'[q])
BY DEF Untouched, Begun, NoLink

LEMMA LiveUntouched ==
  ASSUME NEW f, NEW l, NEW q \in Pcbs, link' = Live(f, l),
         l[q].out = link[q].out, l[q].srv = link[q].srv
  PROVE  Untouched(q)
BY DEF Live, Untouched

\* mqtt_output_send touches the stream of one pcb, none if that takes no data.
LEMMA SendUntouched ==
  ASSUME IInv, NEW msgs, NEW p \in Pcbs, NEW l \in [Pcbs -> Link],
         mqtt_output_send(msgs, p, l), NEW q \in Pcbs,
         q # p \/ pcb[p].state \notin Writable,
         l[q].out = link[q].out, l[q].srv = link[q].srv
  PROVE  Untouched(q)
<1>1. PICK k \in IF pcb[p].state \in Writable
                 THEN 0..Lesser(Len(msgs), SndBufMsgs - Len(l[p].out)) ELSE {0} :
        link' = [l EXCEPT ![p].out = @ \o FirstOf(msgs, k)]
  BY DEF mqtt_output_send
<1>2. CASE q # p
  BY <1>1, <1>2 DEF Untouched
<1>3. CASE q = p /\ k = 0
  <2>1. FirstOf(msgs, k) = <<>> /\ l[p].out \in Seq(Sent)
    BY <1>3 DEF FirstOf, Link
  <2>2. l[p].out \o FirstOf(msgs, k) = l[p].out
    BY <2>1, ConcatEmptySeq
  <2> QED
    BY <1>1, <1>3, <2>2 DEF Untouched, Link
<1> QED
  BY <1>1, <1>2, <1>3

\* Taking an acknowledgement or a frame off a link touches no stream.
LEMMA TakingUntouched ==
  ASSUME NEW l \in [Pcbs -> Link], NEW p \in Pcbs, NEW q \in Pcbs
  PROVE  /\ [l EXCEPT ![p].in = Tail(@)][q].out = l[q].out
         /\ [l EXCEPT ![p].in = Tail(@)][q].srv = l[q].srv
         /\ [l EXCEPT ![p].ack = FALSE][q].out = l[q].out
         /\ [l EXCEPT ![p].ack = FALSE][q].srv = l[q].srv
BY DEF Link

\* No handler touches the stream of a pcb that is not the client's.
LEMMA HandlersTouchConn ==
  ASSUME StreamInv, ShakeInv, NEW q \in Pcbs, q # conn',
         \/ Tick \/ Reconnect \/ Publish \/ mqtt_cyclic_timer
         \/ \E p \in Pcbs : Network(p)
  PROVE  Untouched(q)
<1>1. IInv /\ link \in [Pcbs -> Link] /\ \A p \in Pcbs : p # conn => pcb[p].state \notin Writable
  BY StaleTakesNothing, ConnOf DEF StreamInv
<1>2. CASE UNCHANGED link
  BY <1>2 DEF Untouched
<1>3. CASE Reconnect \/ \E p \in Pcbs : PcbDies(p) \/ LateData(p) \/ FastTimer(p) \/ CloseProgress(p)
  <2>1. link' = Live(pcb', link)
    BY <1>3 DEF Reconnect, mqtt_client_connect, PcbDies, mqtt_close, LateData, FastTimer,
       CloseProgress
  <2> QED
    BY <2>1, LiveUntouched
<1>4. CASE Publish
  BY <1>1, <1>4, SendUntouched, ConnOf DEF Publish
<1>5. CASE mqtt_cyclic_timer
  <2>1. link' = Live(pcb', link) \/ link' = link
    BY <1>5 DEF mqtt_cyclic_timer, ConnectTimer, KeepAliveTimer, mqtt_close
  <2> QED
    BY <1>2, <2>1, LiveUntouched
<1>6. ASSUME NEW p \in Pcbs, Connected(p)
      PROVE  Untouched(q)
  <2>1. p = conn /\ conn' = conn
    BY <1>1, <1>6, CallbackPcb DEF Connected
  <2> QED
    BY <1>1, <1>6, <2>1 DEF Connected, Untouched
<1>7. ASSUME NEW p \in Pcbs, SentCb(p)
      PROVE  Untouched(q)
  <2> DEFINE l == [link EXCEPT ![p].ack = FALSE]
  <2>1. l \in [Pcbs -> Link] /\ l[q].out = link[q].out /\ l[q].srv = link[q].srv
    BY <1>1 DEF Link
  <2>2. \/ link' = l
        \/ conn_state = "MQTT_CONNECTED" /\ conn' = conn /\ mqtt_output_send(output, conn, l)
    BY <1>7 DEF SentCb
  <2> HIDE DEF l
  <2>3. CASE link' = l
    BY <2>1, <2>3 DEF Untouched
  <2>4. CASE conn_state = "MQTT_CONNECTED" /\ conn' = conn /\ mqtt_output_send(output, conn, l)
    <3>1. conn \in Pcbs
      BY <1>1, <2>4, ConnOf
    <3> QED
      BY <1>1, <2>1, <2>4, <3>1, SendUntouched
  <2> QED
    BY <2>2, <2>3, <2>4
<1>8. ASSUME NEW p \in Pcbs,
             RecvConnack(p) \/ RecvRefused(p) \/ RecvSuback(p) \/ RecvOther(p) \/ RecvFin(p)
      PROVE  Untouched(q)
  <2>1. Received(p) \in [Pcbs -> Link] 
    BY <1>1, <1>8, Taken DEF RecvConnack, RecvRefused, RecvSuback, RecvOther, RecvFin, Arrives
  <2>2. Received(p)[q].out = link[q].out /\ Received(p)[q].srv = link[q].srv
    BY <1>1, TakingUntouched DEF Received
  <2>3. \/ link' = Received(p)
        \/ \E f : link' = Live(f, Received(p))
        \/ /\ RecvConnack(p) /\ conn_state = "MQTT_CONNECTING" /\ conn' = conn
           /\ mqtt_output_send(Append(output, "SUBSCRIBE"), conn, Received(p))
    BY <1>8 DEF RecvConnack, mqtt_connection_cb, RecvRefused, RecvSuback, RecvOther, RecvFin,
       mqtt_close
  <2>4. CASE link' = Received(p)
    BY <2>2, <2>4 DEF Untouched
  <2>5. CASE \E f : link' = Live(f, Received(p))
    BY <2>2, <2>5, LiveUntouched
  <2>6. CASE /\ RecvConnack(p) /\ conn_state = "MQTT_CONNECTING" /\ conn' = conn
             /\ mqtt_output_send(Append(output, "SUBSCRIBE"), conn, Received(p))
    <3>1. conn \in Pcbs
      BY <1>1, <2>6, ConnOf
    <3> QED
      BY <1>1, <2>1, <2>2, <2>6, <3>1, SendUntouched
  <2> QED
    BY <2>3, <2>4, <2>5, <2>6
<1>9. ASSUME NEW p \in Pcbs, Poll(p)
      PROVE  Untouched(q)
  <2>1. conn' = conn /\ mqtt_output_send(output, p, link)
    BY <1>9 DEF Poll
  <2>2. q # p \/ pcb[p].state \notin Writable
    BY <1>1, <2>1
  <2> QED
    BY <1>1, <2>1, <2>2, SendUntouched
<1> QED
  BY <1>2, <1>3, <1>4, <1>5, <1>6, <1>7, <1>8, <1>9 DEF Network, Tick

\* The broker reads the stream of a pcb that may be any.
LEMMA ServerBegun ==
  ASSUME IInv, NEW p \in Pcbs, ServerStep(p), NEW q \in Pcbs, Begun(link[q])
  PROVE  Begun(link'[q])
<1> DEFINE l == link[p]
           m == link'[p]
<1>1. CASE q # p
  BY <1>1, ServerDoes
<1>2. CASE q = p
  <2>1. l.out \in Seq(Sent)
    BY ServerDoes
  <2>2. CASE m.srv \in {"refused", "closed"}
    BY <1>2, <2>2 DEF Begun
  <2>3. CASE l.srv = "open" /\ m.srv = "session" /\ l.out # <<>> /\ m.out = Tail(l.out)
    <3>1. m.out = <<>>
      BY <1>2, <2>1, <2>3, TailPlain DEF Begun
    <3> QED
      BY <1>2, <2>3, <3>1 DEF Begun, Plain
  <2>4. CASE /\ l.srv \in {"session", "subscribed"} /\ m.srv \in {"session", "subscribed"}
             /\ m.out = l.out \/ (l.out # <<>> /\ m.out = Tail(l.out))
    <3>1. Plain(m.out)
      BY <1>2, <2>1, <2>4, TailPlain DEF Begun
    <3> QED
      BY <1>2, <2>4, <3>1 DEF Begun
  <2>5. \/ m.srv \in {"refused", "closed"}
        \/ l.srv = "open" /\ m.srv = "session" /\ l.out # <<>> /\ m.out = Tail(l.out)
        \/ /\ l.srv \in {"session", "subscribed"} /\ m.srv \in {"session", "subscribed"}
           /\ m.out = l.out \/ (l.out # <<>> /\ m.out = Tail(l.out))
    BY ServerDoes DEF EndOf
  <2> QED
    BY <2>2, <2>3, <2>4, <2>5
<1> QED
  BY <1>1, <1>2

LEMMA FirstNext ==
  ASSUME ~FinCanFail
  PROVE  FirstInv /\ [Next]_vars => FirstInv'
<1> SUFFICES ASSUME FirstInv, [Next]_vars
             PROVE  FirstInv'
  OBVIOUS
<1>1. StreamInv' /\ ShakeInv' /\ IInv'
  BY StreamNext, NextKept DEF FirstInv, StreamInv
<1>2. ASSUME NEW q \in Pcbs
      PROVE  Begun(link'[q])
  <2>1. CASE q = conn'
    <3>1. conn' # NULL
      BY <2>1, NullAssumption
    <3>2. Begun(link[conn])'
      BY <1>1, <3>1, ConnBegunNext
    <3> QED
      BY <2>1, <3>2
  <2>2. CASE q # conn'
    <3>1. CASE UNCHANGED vars
      BY <3>1 DEF vars, FirstInv
    <3>2. CASE \E p \in Pcbs : ServerStep(p)
      BY <3>2, ServerBegun DEF FirstInv, StreamInv
    <3>3. CASE \/ Tick \/ Reconnect \/ Publish \/ mqtt_cyclic_timer
               \/ \E p \in Pcbs : Network(p)
      BY <2>2, <3>3, HandlersTouchConn, StillBegun DEF FirstInv
    <3> QED
      BY <3>1, <3>2, <3>3 DEF Next
  <2> QED
    BY <2>1, <2>2
<1> QED
  BY <1>1, <1>2 DEF FirstInv

\* If tcp_close always finds memory for its FIN, the broker finds the CONNECT at
\* the start of each connection, and nowhere else.
THEOREM ConnectComesFirst == ASSUME ~FinCanFail PROVE Spec => []ConnectIsFirst
<1>1. Init => FirstInv
  <2> SUFFICES ASSUME Init
               PROVE  FirstInv
    OBVIOUS
  <2>1. StreamInv
    BY StreamInit
  <2>2. ShakeInv
    BY InitKept
  <2>3. \A p \in Pcbs : Begun(link[p])
    BY DEF Init, Begun, NoLink
  <2> QED
    BY <2>1, <2>2, <2>3 DEF FirstInv
<1>2. FirstInv /\ [Next]_vars => FirstInv'
  BY FirstNext
<1>3. FirstInv => ConnectIsFirst
  <2> SUFFICES ASSUME FirstInv, NEW p \in Pcbs, link[p].srv \notin Ended,
                      NEW i \in 1..Len(link[p].out)
               PROVE  (link[p].out[i].kind = "CONNECT") <=> (i = 1 /\ link[p].srv = "open")
    BY DEF ConnectIsFirst
  <2>1. link[p].srv \in Server /\ Len(link[p].out) \in Nat
    BY ConnOf, LenProperties DEF FirstInv, StreamInv, Link
  <2>2. Begun(link[p])
    BY DEF FirstInv
  <2>3. link[p].srv \in {"none", "open", "session", "subscribed"}
    BY <2>1 DEF Server, Ended
  <2> QED
    BY <2>1, <2>2, <2>3 DEF Begun, Plain
<1> QED
  BY <1>1, <1>2, <1>3, PTL DEF Spec
=============================================================================
