------------------------------ MODULE MqttParser ------------------------------
(***************************************************************************)
(* The input parser of the MQTT client: mqtt_parse_incoming and            *)
(* mqtt_message_received (mqtt.c), byte by byte, on a stream that TCP cuts *)
(* into segments as it likes.  A frame is parsed from the start of its     *)
(* header again in every segment it is spread over, the header from        *)
(* rx_buffer; a PUBLISH longer than rx_buffer is handed over in pieces.    *)
(*                                                                         *)
(* Bytes are numbers.  LenBase is the base of the remaining length (128 in *)
(* the protocol): a byte of LenBase or more says that another one follows. *)
(* The bytes of a payload are numbered, to be told apart.                  *)
(* The streams are those a conforming broker sends.  The widths of         *)
(* in_offset, msg_idx and msg_rem_len are not modelled: no frame of such a *)
(* stream and no window of lwIP reaches them.                              *)
(***************************************************************************)
EXTENDS Integers, Sequences, SequencesExt, FiniteSetsExt

CONSTANTS
  BufLen,      \* MQTT_VAR_HEADER_BUFFER_LEN, the size of rx_buffer
  LenBase,     \* 128 in the protocol
  TopicLen,    \* length of the topic the device subscribes to
  MaxQos,      \* QoS of the subscription, 0 or 1; the device asks for 0
  Payloads,    \* lengths of the payloads that are published
  MaxFrames    \* bound: frames after the CONNACK

\* A fixed header of five bytes, the topic, a packet id and one byte fit, and four
\* bytes are enough for the remaining length.
ASSUME ParserAssumption ==
  /\ LenBase \in Nat \ {0, 1} /\ TopicLen \in 1..255 /\ MaxQos \in {0, 1}
  /\ Payloads \subseteq Nat /\ MaxFrames \in Nat
  /\ BufLen \in Nat /\ BufLen > 5 + 2 + TopicLen + 2
  /\ \A n \in Payloads : 2 + TopicLen + 2 + n < LenBase * LenBase * LenBase * LenBase

CONNACK  == 2
PUBLISH  == 3
PUBACK   == 4
SUBACK   == 9
PINGRESP == 13

SubId     == 1       \* the packet id of the client's one SUBSCRIBE
MessageId == 7       \* the packet id a broker gives to its PUBLISH

VARIABLES
  rx_buffer, msg_idx, inpub_pkt_id, conn_state,     \* mqtt_client_t
  pend_req,        \* packet ids of the pending requests
  tot_len,         \* length of the pbuf chain being parsed, 0 if none is
  in_offset, msg_rem_len, fixed_hdr_idx, b,         \* mqtt_parse_incoming
  frames, wire,    \* what the broker sends, as frames and as bytes
  got,             \* bytes of wire that TCP has delivered before this pbuf
  calls            \* history: the calls to the application and the PUBACKs

handlerVars == <<inpub_pkt_id, conn_state, pend_req, calls>>
localVars == <<in_offset, msg_rem_len, fixed_hdr_idx, b>>
brokerVars == <<frames, wire>>
vars == <<rx_buffer, msg_idx, tot_len, got, localVars, handlerVars, brokerVars>>

-----------------------------------------------------------------------------
(* The broker's frames                                                     *)

\* What each length byte counts.
Power == <<1, LenBase, LenBase * LenBase, LenBase * LenBase * LenBase>>

\* What is left of a length for each of its bytes and those behind it.
Rest(n) == <<n, n \div LenBase, (n \div LenBase) \div LenBase,
             ((n \div LenBase) \div LenBase) \div LenBase>>

LenBytes(n) ==
  LET m == CHOOSE m \in 1..4 : /\ Rest(n)[m] < LenBase
                              /\ \A i \in 1..(m - 1) : Rest(n)[i] >= LenBase
  IN [i \in 1..m |-> IF i < m THEN LenBase + (Rest(n)[i] % LenBase) ELSE Rest(n)[m]]

\* A PUBLISH carries the numbers 1, 2, ... as payload; n is its length, or the
\* return code of an acknowledgement.
Frame(type, qos, n) == [type |-> type, qos |-> qos, n |-> n]

VarPart(f) ==
  CASE f.type = CONNACK  -> <<0, f.n>>
    [] f.type = SUBACK   -> <<0, SubId, f.n>>
    [] f.type = PINGRESP -> <<>>
    [] f.type = PUBLISH  ->
         <<0, TopicLen>> \o [i \in 1..TopicLen |-> 0]
           \o (IF f.qos = 0 THEN <<>> ELSE <<0, MessageId>>)
           \o [i \in 1..f.n |-> i]

HeaderOf(f) == <<f.type * 16 + f.qos * 2>> \o LenBytes(Len(VarPart(f)))
Bytes(f)    == HeaderOf(f) \o VarPart(f)

\* The broker refuses the session, or accepts it, answers the SUBSCRIBE at
\* most once, and sends messages and PINGRESPs in any order.
Later == {Frame(PUBLISH, q, n) : q \in 0..MaxQos, n \in Payloads}
           \cup {Frame(SUBACK, 0, 0), Frame(PINGRESP, 0, 0)}
OneAnswer(s) == \A i, j \in DOMAIN s : s[i].type = SUBACK /\ s[j].type = SUBACK => i = j
Streams == {<<Frame(CONNACK, 0, 5)>>}
             \cup {<<Frame(CONNACK, 0, 0)>> \o s :
                     s \in {t \in BoundedSeq(Later, MaxFrames) : OneAnswer(t)}}

-----------------------------------------------------------------------------
(* mqtt_message_received                                                   *)

\* A call the handlers make: of connect_cb, pub_cb, data_cb, the callback of
\* the SUBSCRIBE, or of pub_ack_rec_rel_response.
Call(fn, n, data, last) == [fn |-> fn, n |-> n, data |-> data, last |-> last]

Word(buf, i) == buf[i] * 256 + buf[i + 1]
Type(buf) == buf[0] \div 16
Qos(buf) == (buf[0] \div 2) % 4
IdLen(buf) == IF Qos(buf) > 0 THEN 2 ELSE 0

\* Mutants of FirstPiece: the limit that the assertion of mqtt.c:683 suggests;
\* every piece is taken for one with a topic.
FirstPieceIfRoom(idx) == idx < BufLen
FirstPieceAlways(idx) == TRUE

\* The piece that begins with the topic: rx_buffer has not gone round yet.
FirstPiece(idx) == idx <= BufLen

\* The first piece of a PUBLISH does not hold its topic and packet id, with a
\* byte to spare for the zero that ends the topic.
Short(buf, hdr, length) ==
  LET topic_len == Word(buf, hdr) IN
  \/ length < 2 + IdLen(buf)
  \/ topic_len > length - (2 + IdLen(buf))
  \/ 2 + topic_len + (IF Qos(buf) > 0 THEN 2 ELSE 1) > BufLen - hdr

\* What mqtt_message_received returns, MQTT_CONNECT_ACCEPTED being 0 and
\* MQTT_CONNECT_DISCONNECTED 256.  If that is not 0 it changes nothing.
Result(buf, idx, hdr, length) ==
  CASE Type(buf) = CONNACK /\ conn_state = "CONNECTING" ->
         IF length < 2 THEN 256 ELSE buf[hdr + 1]
    [] Type(buf) = PUBLISH /\ FirstPiece(idx) /\ Short(buf, hdr, length) -> 256
    [] Type(buf) = SUBACK ->
         IF Word(buf, hdr) = 0 \/ (Word(buf, hdr) \in pend_req /\ length < 3)
         THEN 256 ELSE 0
    [] OTHER -> 0

\* connect_cb subscribes.
ReceiveConnack ==
  IF conn_state = "CONNECTING"
  THEN /\ conn_state' = "CONNECTED"
       /\ pend_req' = pend_req \cup {SubId}
       /\ calls' = Append(calls, Call("connect_cb", 0, <<>>, TRUE))
       /\ UNCHANGED inpub_pkt_id
  ELSE UNCHANGED handlerVars

\* One piece of a PUBLISH.
ReceivePublish(buf, idx, hdr, length, remaining) ==
  LET first  == FirstPiece(idx)
      topic_len == Word(buf, hdr)
      offset == IF first THEN 2 + topic_len + IdLen(buf) ELSE 0
      data   == [i \in 1..(length - offset) |-> buf[hdr + offset + i - 1]]
      last   == remaining = 0
      When(cond, call) == IF cond THEN <<call>> ELSE <<>>
  IN  /\ inpub_pkt_id' = IF ~first THEN inpub_pkt_id
                         ELSE IF Qos(buf) = 0 THEN 0
                         ELSE Word(buf, hdr + 2 + topic_len)
      /\ calls' = calls
           \o When(first, Call("pub_cb", remaining + Len(data), <<>>, TRUE))
           \o When(data # <<>> \/ last, Call("data_cb", Len(data), data, last))
           \o When(last /\ Qos(buf) > 0, Call("PUBACK", inpub_pkt_id', <<>>, TRUE))
      /\ UNCHANGED <<conn_state, pend_req>>

\* The answer to a request, the only one of the client being its SUBSCRIBE.
ReceiveSuback(buf, hdr) ==
  IF Word(buf, hdr) \in pend_req
  THEN /\ pend_req' = pend_req \ {Word(buf, hdr)}
       /\ calls' = Append(calls, Call("suback", buf[hdr + 2], <<>>, TRUE))
       /\ UNCHANGED <<conn_state, inpub_pkt_id>>
  ELSE UNCHANGED handlerVars

mqtt_message_received(buf, idx, hdr, length, remaining) ==
  IF Result(buf, idx, hdr, length) # 0
  THEN UNCHANGED handlerVars
  ELSE \/ Type(buf) = CONNACK /\ ReceiveConnack
       \/ Type(buf) = PUBLISH /\ ReceivePublish(buf, idx, hdr, length, remaining)
       \/ Type(buf) = SUBACK /\ ReceiveSuback(buf, hdr)
       \/ Type(buf) = PINGRESP /\ UNCHANGED handlerVars

-----------------------------------------------------------------------------
(* mqtt_parse_incoming, one action per round of its loop                   *)

Parsing == tot_len > 0

Zeros == [i \in 0..(BufLen - 1) |-> 0]
Encode(fs) == FlattenSeq([i \in DOMAIN fs |-> Bytes(fs[i])])

\* The local variables of mqtt_parse_incoming when it is entered.
ClearLocals == in_offset' = 0 /\ msg_rem_len' = 0 /\ fixed_hdr_idx' = 0 /\ b' = 0

Init ==
  /\ rx_buffer = Zeros /\ msg_idx = 0 /\ inpub_pkt_id = 0
  /\ conn_state = "CONNECTING" /\ pend_req = {} /\ calls = <<>>
  /\ tot_len = 0 /\ in_offset = 0 /\ msg_rem_len = 0 /\ fixed_hdr_idx = 0 /\ b = 0
  /\ got = 0 /\ frames \in Streams /\ wire = Encode(frames)

\* net_process starts over and mqtt_client_connect wipes the client; between two
\* segments only, for the parser runs to its end within mqtt_tcp_recv_cb.
Reconnect ==
  /\ ~Parsing /\ got > 0
  /\ rx_buffer' = Zeros /\ msg_idx' = 0 /\ inpub_pkt_id' = 0
  /\ conn_state' = "CONNECTING" /\ pend_req' = {} /\ calls' = <<>>
  /\ got' = 0 /\ frames' \in Streams /\ wire' = Encode(frames')
  /\ UNCHANGED <<tot_len, localVars>>

\* mqtt_tcp_recv_cb: a segment arrives.
Recv ==
  /\ ~Parsing /\ conn_state # "DISCONNECTED"
  /\ tot_len' \in 1..(Len(wire) - got)
  /\ UNCHANGED <<rx_buffer, msg_idx, got, localVars, handlerVars, brokerVars>>

\* A header byte, from rx_buffer if an earlier segment brought it.
ParseHeader ==
  LET buffered == fixed_hdr_idx < msg_idx
      c    == IF buffered THEN rx_buffer[fixed_hdr_idx]
              ELSE wire[got + in_offset + 1]
      buf  == IF buffered THEN rx_buffer ELSE [rx_buffer EXCEPT ![msg_idx] = c]
      idx  == IF buffered THEN msg_idx ELSE msg_idx + 1
      hdr  == fixed_hdr_idx + 1
      rem  == IF hdr < 2 THEN msg_rem_len
              ELSE msg_rem_len + (c % LenBase) * Power[hdr - 1]
      done == hdr >= 2 /\ c < LenBase
  IN  /\ in_offset < tot_len
      /\ fixed_hdr_idx < 2 \/ b >= LenBase
      /\ b' = c /\ rx_buffer' = buf
      /\ in_offset' = IF buffered THEN in_offset ELSE in_offset + 1
      /\ IF done /\ rem = 0
         THEN \* what the handler returns is not looked at
              /\ mqtt_message_received(buf, idx, hdr, 0, 0)
              /\ fixed_hdr_idx' = 0 /\ msg_idx' = 0 /\ msg_rem_len' = 0
         ELSE /\ fixed_hdr_idx' = hdr /\ msg_idx' = idx
              /\ msg_rem_len' = IF done THEN (rem + hdr) - idx ELSE rem
              /\ UNCHANGED handlerVars
      /\ UNCHANGED <<tot_len, got, brokerVars>>

\* Mutant of cpy_start: the write position wraps around to the start of the buffer.
CpyStartOverHeader == msg_idx % BufLen

\* Where the next byte of the frame goes.
cpy_start ==
  ((msg_idx - fixed_hdr_idx) % (BufLen - fixed_hdr_idx)) + fixed_hdr_idx

\* A mutant of cpy_len: one byte of the buffer is kept for the end of a string.
CpyLenKeepsByte == Min({tot_len - in_offset, msg_rem_len, BufLen - cpy_start - 1})

\* How many bytes the segment, the frame and the buffer allow.
cpy_len == Min({tot_len - in_offset, msg_rem_len, BufLen - cpy_start})

InBody == in_offset < tot_len /\ fixed_hdr_idx >= 2 /\ b < LenBase

\* What the buffer takes of the rest of the frame; mqtt_tcp_recv_cb closes the
\* client if the handler says so.
ParseBody ==
  LET put  == cpy_start..(cpy_start + cpy_len - 1)
      buf  == [i \in 0..(BufLen - 1) |->
                 IF i \in put THEN wire[got + in_offset + (i - cpy_start) + 1]
                 ELSE rx_buffer[i]]
      idx  == msg_idx + cpy_len
      rem  == msg_rem_len - cpy_len
      len  == cpy_start + cpy_len - fixed_hdr_idx
      full == rem = 0 \/ cpy_len = BufLen - cpy_start
  IN  /\ InBody
      /\ rx_buffer' = buf
      /\ IF full /\ Result(buf, idx, fixed_hdr_idx, len) # 0
         THEN /\ conn_state' = "DISCONNECTED" /\ tot_len' = 0
              /\ got' = got + in_offset + cpy_len /\ msg_idx' = idx
              /\ ClearLocals
              /\ UNCHANGED <<inpub_pkt_id, pend_req, calls>>
         ELSE /\ IF full THEN mqtt_message_received(buf, idx, fixed_hdr_idx, len, rem)
                 ELSE UNCHANGED handlerVars
              /\ in_offset' = in_offset + cpy_len
              /\ msg_rem_len' = rem
              /\ IF rem = 0 THEN msg_idx' = 0 /\ fixed_hdr_idx' = 0
                 ELSE msg_idx' = idx /\ UNCHANGED fixed_hdr_idx
              /\ UNCHANGED <<b, tot_len, got>>
      /\ UNCHANGED brokerVars

\* The end of the segment: the local variables are lost.
Return ==
  /\ Parsing /\ in_offset >= tot_len
  /\ got' = got + tot_len /\ tot_len' = 0 /\ ClearLocals
  /\ UNCHANGED <<rx_buffer, msg_idx, handlerVars, brokerVars>>

Next == Reconnect \/ Recv \/ ParseHeader \/ ParseBody \/ Return

\* The parser is a loop that nothing interrupts.
Spec == Init /\ [][Next]_vars /\ WF_vars(ParseHeader \/ ParseBody \/ Return)

-----------------------------------------------------------------------------
(* Properties                                                              *)

\* The types of the variables; no index leaves the segment or the header.
TypeOK ==
  /\ rx_buffer \in [0..(BufLen - 1) -> Nat]
  /\ msg_idx \in Nat /\ inpub_pkt_id \in {0, MessageId}
  /\ conn_state \in {"CONNECTING", "CONNECTED", "DISCONNECTED"}
  /\ pend_req \subseteq {SubId}
  /\ tot_len \in 0..Len(wire) /\ in_offset \in 0..tot_len
  /\ msg_rem_len \in Nat /\ fixed_hdr_idx \in 0..5 /\ b \in Nat
  /\ got \in 0..Len(wire)

\* With that, no copy runs past the end of rx_buffer, and none touches the header that the
\* next segment reads again; and each takes bytes, or the round would come again
\* unchanged: cpy_start and cpy_len of mqtt_parse_incoming.
CopiesFit ==
  /\ TypeOK
  /\ InBody => /\ cpy_start >= fixed_hdr_idx
               /\ cpy_len > 0 /\ cpy_start + cpy_len <= BufLen

\* The payload of a PUBLISH is handed over each time rx_buffer is full behind its
\* header, and at its end: the pieces when k of its bytes have arrived, in
\* whatever segments, and the bytes of the payload before each of them and up to
\* its end.
Room(f) == BufLen - Len(HeaderOf(f))
Body(f) == Len(VarPart(f))
Pieces(f, k) ==
  LET taken == k - Len(HeaderOf(f)) IN
  IF taken < 0 THEN 0
  ELSE IF taken = Body(f) THEN (Body(f) + Room(f) - 1) \div Room(f)
  ELSE taken \div Room(f)
From(f, i) == Max({0, (i - 1) * Room(f) - (Body(f) - f.n)})
To(f, i) == Min({f.n, i * Room(f) - (Body(f) - f.n)})
Piece(f, i) ==
  LET data == [j \in 1..(To(f, i) - From(f, i)) |-> From(f, i) + j]
      last == i * Room(f) >= Body(f)
  IN IF data = <<>> /\ ~last THEN <<>> ELSE <<Call("data_cb", Len(data), data, last)>>

\* The calls that the first k bytes of f bring about.
CallsOf(f, k) ==
  LET whole == k = Len(Bytes(f)) IN
  CASE f.type = PUBLISH ->
         (IF Pieces(f, k) = 0 THEN <<>> ELSE <<Call("pub_cb", f.n, <<>>, TRUE)>>)
           \o FlattenSeq([i \in 1..Pieces(f, k) |-> Piece(f, i)])
           \o (IF whole /\ f.qos > 0
               THEN <<Call("PUBACK", MessageId, <<>>, TRUE)>> ELSE <<>>)
    [] f.type = CONNACK /\ whole /\ f.n = 0 -> <<Call("connect_cb", 0, <<>>, TRUE)>>
    [] f.type = SUBACK /\ whole -> <<Call("suback", f.n, <<>>, TRUE)>>
    [] OTHER -> <<>>

\* What a client may make of the first k bytes of the stream.
Expected(k) ==
  LET start(i) == Len(Encode(SubSeq(frames, 1, i - 1)))
      part(i)  == Max({0, Min({Len(Bytes(frames[i])), k - start(i)})})
  IN  FlattenSeq([i \in DOMAIN frames |-> CallsOf(frames[i], part(i))])

\* However TCP cuts the stream, the application is called for every frame that
\* has arrived, once and in order, and gets the payload of a PUBLISH whole and
\* in order, the last piece marked as the last: the parsing of a frame that is
\* spread over segments (mqtt.c 839-921) and the pieces of one that is longer
\* than rx_buffer (mqtt.c 717-786).
HandlersSeeFrames == calls = Expected(got + in_offset)

\* The client closes the connection on the broker's refusal only, never on a
\* frame it got in pieces (the checks of mqtt.c 685-752).
OnlyRefusalCloses == conn_state = "DISCONNECTED" => frames[1].n # 0

\* The loop of mqtt_parse_incoming ends: no round is without progress for ever.
SegmentFinishes == Parsing ~> ~Parsing
=============================================================================
