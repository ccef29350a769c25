---------------------------- MODULE MqttRingbuf ----------------------------
(***************************************************************************)
(* The output ring buffer of the MQTT client (struct mqtt_ringbuf_t and    *)
(* the functions on it in lwip apps/mqtt/mqtt.c): the bytes of messages    *)
(* wait there until TCP takes them.                                        *)
(*                                                                         *)
(* pending and filled are history: what was appended and not yet handed to *)
(* TCP, and whether an append ever used up the very last free byte.        *)
(***************************************************************************)
EXTENDS Integers, Sequences

CONSTANTS
  Size,        \* MQTT_OUTPUT_RINGBUF_SIZE
  Byte,        \* the bytes a message is made of
  MaxMsg,      \* bound: the longest message
  MaxSndBuf,   \* the largest free TCP send buffer
  PendingCap   \* bound: bytes pending

ASSUME RingAssumption ==
  /\ Size \in Nat \ {0} /\ MaxMsg \in Nat /\ MaxSndBuf \in Nat
  /\ PendingCap \in Nat /\ Byte # {}

VARIABLES put, get, buf, pending, filled

vars == <<put, get, buf, pending, filled>>

-----------------------------------------------------------------------------
Lesser(a, b) == IF a < b THEN a ELSE b

\* An index that has moved on by less than the size of the buffer, or by just
\* that size.
WrapLate(i) == IF i > Size THEN i - Size ELSE i
Wrap(i) == IF i >= Size THEN i - Size ELSE i

\* Bytes in the buffer: a negative difference shows as one beyond 0xFFFF.
LenNoWrap(p, g) == IF p >= g THEN p - g ELSE 0
Length(p, g) == IF p >= g THEN p - g ELSE p - g + Size

mqtt_ringbuf_len  == Length(put, get)
mqtt_ringbuf_free == Size - mqtt_ringbuf_len

\* Bytes that can be read from g without wrapping around.
Linear(p, g) == Lesser(Length(p, g), Size - g)

\* What the buffer holds from get on.
Contents == [i \in 1..mqtt_ringbuf_len |-> buf[Wrap(get + i - 1)]]

\* mqtt_ringbuf_put for each byte of msg in turn.
Filled(b, p, msg) ==
  [j \in 0..(Size - 1) |->
     LET ahead == IF j >= p THEN j - p ELSE j - p + Size
     IN IF ahead < Len(msg) THEN msg[ahead + 1] ELSE b[j]]

\* A message of n bytes fits.
SpaceForOneMore(n) == n <= mqtt_ringbuf_free + 1
mqtt_output_check_space(n) == n <= mqtt_ringbuf_free

Messages == UNION {[1..n -> Byte] : n \in 2..MaxMsg}

-----------------------------------------------------------------------------
Init ==
  /\ put = 0 /\ get = 0
  /\ buf \in [0..(Size - 1) -> Byte]
  /\ pending = <<>> /\ filled = FALSE

\* mqtt_client_connect wipes the client.
Wipe ==
  /\ put' = 0 /\ get' = 0
  /\ \E b \in Byte : buf' = [j \in 0..(Size - 1) |-> b]
  /\ pending' = <<>> /\ filled' = FALSE

\* A handler appends a message that fits.
AppendMessage ==
  \E msg \in Messages :
    /\ Len(pending) + Len(msg) <= PendingCap
    /\ mqtt_output_check_space(Len(msg))
    /\ filled' = (filled \/ Len(msg) = mqtt_ringbuf_free)
    /\ buf' = Filled(buf, put, msg)
    /\ put' = Wrap(put + Len(msg))
    /\ pending' = pending \o msg
    /\ UNCHANGED get

\* TCP has taken the n bytes from get on.
Taken(n) ==
  /\ get' = Wrap(get + n)
  /\ pending' = SubSeq(pending, n + 1, Len(pending))

\* mqtt_output_send with room for space bytes at TCP, of which it writes the
\* linear part first and, if that succeeds and wraps, the rest.
FirstWrite(space) == Lesser(space, Linear(put, get))
SecondWrite(space) ==
  IF space > Linear(put, get) /\ mqtt_ringbuf_len > Linear(put, get)
  THEN Lesser(space - FirstWrite(space),
              Linear(put, Wrap(get + FirstWrite(space))))
  ELSE 0

\* Either write may find no memory: nothing is taken, or the first part only.
OutputSend ==
  \E space \in 1..MaxSndBuf :
    /\ Linear(put, get) > 0
    /\ \/ Taken(FirstWrite(space) + SecondWrite(space))
       \/ SecondWrite(space) > 0 /\ Taken(FirstWrite(space))
    /\ UNCHANGED <<put, buf, filled>>

Next == Wipe \/ AppendMessage \/ OutputSend

Spec == Init /\ [][Next]_vars

-----------------------------------------------------------------------------
TypeOK ==
  /\ put \in 0..(Size - 1) /\ get \in 0..(Size - 1)
  /\ buf \in [0..(Size - 1) -> Byte]
  /\ pending \in Seq(Byte) /\ filled \in BOOLEAN

\* What TCP gets is what was appended, byte for byte and in order, whatever
\* part of it each send takes and wherever it wraps around, as long as no
\* message ever fills the buffer to the last byte.
Fifo == ~filled => Contents = pending
=============================================================================
