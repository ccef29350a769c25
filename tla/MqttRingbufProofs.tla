------------------------- MODULE MqttRingbufProofs -------------------------
(***************************************************************************)
(* Proofs about MqttRingbuf, for every size of the ring buffer, every set  *)
(* of messages and every TCP send buffer.                                  *)
(***************************************************************************)
EXTENDS MqttRingbuf, SequenceTheorems, TLAPS

Index == 0..(Size - 1)

\* The buffer holds the pending bytes, from get on.
Holds(p, g, b, s) ==
  /\ Len(s) = Length(p, g)
  /\ \A i \in 1..Len(s) : s[i] = b[Wrap(g + i - 1)]

\* The buffer never holds more than what is pending, and just that as long as
\* it was never filled.
IInv ==
  /\ TypeOK
  /\ mqtt_ringbuf_len <= Len(pending)
  /\ ~filled => Holds(put, get, buf, pending)

\* An index moved on by less than the size, or by just the size, is an index.
LEMMA WrapType ==
  ASSUME NEW i \in Nat, i < 2 * Size
  PROVE  Wrap(i) \in Index
BY RingAssumption DEF Wrap, Index

\* The buffer holds less than its size.
LEMMA LengthType ==
  ASSUME NEW p \in Index, NEW g \in Index
  PROVE  Length(p, g) \in 0..(Size - 1)
BY RingAssumption DEF Length, Index

\* Appending n bytes, fewer than are free, adds n to the length.
LEMMA LengthAppend ==
  ASSUME NEW p \in Index, NEW g \in Index, NEW n \in Nat,
         n < Size - Length(p, g)
  PROVE  Length(Wrap(p + n), g) = Length(p, g) + n
BY RingAssumption DEF Length, Wrap, Index

\* Even filling the buffer does not make it longer than it was by more than n.
LEMMA LengthFill ==
  ASSUME NEW p \in Index, NEW g \in Index, NEW n \in Nat,
         n <= Size - Length(p, g)
  PROVE  Length(Wrap(p + n), g) <= Length(p, g) + n
BY RingAssumption DEF Length, Wrap, Index

\* Taking n of the bytes held takes n from the length.
LEMMA LengthTaken ==
  ASSUME NEW p \in Index, NEW g \in Index, NEW n \in 0..Length(p, g)
  PROVE  Length(p, Wrap(g + n)) = Length(p, g) - n
BY RingAssumption DEF Length, Wrap, Index

\* The i-th byte from an index that has moved on by n is the n + i-th.
LEMMA WrapTwice ==
  ASSUME NEW g \in Index, NEW n \in Nat, NEW i \in Nat, n + i < Size
  PROVE  Wrap(Wrap(g + n) + i) = Wrap(g + n + i)
BY RingAssumption DEF Wrap, Index

\* Putting a message at p leaves the bytes held alone and comes after them.
LEMMA FilledCells ==
  ASSUME NEW p \in Index, NEW g \in Index, NEW b, NEW msg,
         Len(msg) \in Nat, Len(msg) < Size - Length(p, g),
         NEW i \in 0..(Length(p, g) + Len(msg) - 1)
  PROVE  Filled(b, p, msg)[Wrap(g + i)] =
           IF i < Length(p, g) THEN b[Wrap(g + i)] ELSE msg[i - Length(p, g) + 1]
<1> DEFINE j == Wrap(g + i)
           ahead == IF j >= p THEN j - p ELSE j - p + Size
<1>1. Length(p, g) \in 0..(Size - 1) /\ i \in Nat /\ i < Size
  BY LengthType, RingAssumption
<1>2. j \in Index
  BY <1>1, RingAssumption DEF Wrap, Index
<1>3. IF i < Length(p, g) THEN ahead >= Len(msg)
      ELSE ahead = i - Length(p, g) /\ ahead < Len(msg)
  BY <1>1, RingAssumption DEF Wrap, Index, Length
<1>4. Filled(b, p, msg)[j] = IF ahead < Len(msg) THEN msg[ahead + 1] ELSE b[j]
  BY <1>2 DEF Filled, Index
<1>5. ahead \in Int
  BY <1>2, RingAssumption DEF Index
<1> HIDE DEF j, ahead
<1>6. CASE i < Length(p, g)
  BY <1>1, <1>3, <1>4, <1>5, <1>6 DEF j
<1>7. CASE ~(i < Length(p, g))
  BY <1>1, <1>3, <1>4, <1>5, <1>7 DEF j
<1> QED
  BY <1>6, <1>7

\* A message is a sequence of at least two bytes.
LEMMA MessageType ==
  ASSUME NEW msg \in Messages
  PROVE  msg \in Seq(Byte) /\ Len(msg) \in Nat
<1>1. PICK n \in 2..MaxMsg : msg \in [1..n -> Byte]
  BY DEF Messages
<1> QED
  BY <1>1, RingAssumption

\* The invariant holds at the start.
LEMMA InitInv == Init => IInv
<1> SUFFICES ASSUME Init
             PROVE  IInv
  OBVIOUS
<1>1. <<>> \in Seq(Byte) /\ Len(<<>>) = 0
  OBVIOUS
<1>2. Length(put, get) = 0 /\ Len(pending) = 0
  BY <1>1 DEF Init, Length
<1>3. TypeOK
  <2>1. put \in 0..(Size - 1) /\ get \in 0..(Size - 1)
    BY RingAssumption DEF Init
  <2>2. buf \in [0..(Size - 1) -> Byte] /\ filled \in BOOLEAN
    BY DEF Init
  <2>3. pending \in Seq(Byte)
    BY <1>1 DEF Init
  <2> QED
    BY <2>1, <2>2, <2>3 DEF TypeOK
<1>4. Holds(put, get, buf, pending)
  BY <1>2 DEF Holds
<1> QED
  BY <1>2, <1>3, <1>4 DEF IInv, mqtt_ringbuf_len

\* The invariant holds after the client is wiped.
LEMMA WipeInv ==
  ASSUME Wipe
  PROVE  IInv'
<1>1. <<>> \in Seq(Byte) /\ Len(<<>>) = 0
  OBVIOUS
<1>2. Length(put', get') = 0 /\ Len(pending') = 0
  BY <1>1 DEF Wipe, Length
<1>3. TypeOK'
  <2>1. put' \in 0..(Size - 1) /\ get' \in 0..(Size - 1)
    BY RingAssumption DEF Wipe
  <2>2. buf' \in [0..(Size - 1) -> Byte]
    BY DEF Wipe
  <2>3. pending' \in Seq(Byte)
    BY <1>1 DEF Wipe
  <2>4. filled' \in BOOLEAN
    BY DEF Wipe
  <2> QED
    BY <2>1, <2>2, <2>3, <2>4 DEF TypeOK
<1>4. Holds(put', get', buf', pending')
  BY <1>2 DEF Holds
<1>5. Holds(put, get, buf, pending)'
  BY <1>4 DEF Holds, Length, Wrap
<1>6. (mqtt_ringbuf_len <= Len(pending))'
  BY <1>2 DEF mqtt_ringbuf_len, Length
<1> QED
  BY <1>3, <1>5, <1>6 DEF IInv

\* Appending a message keeps the invariant.
LEMMA AppendInv ==
  ASSUME IInv, AppendMessage
  PROVE  IInv'
<1> DEFINE len == Length(put, get)
<1>1. PICK msg \in Messages :
        /\ mqtt_output_check_space(Len(msg))
        /\ filled' = (filled \/ Len(msg) = mqtt_ringbuf_free)
        /\ buf' = Filled(buf, put, msg)
        /\ put' = Wrap(put + Len(msg))
        /\ pending' = pending \o msg
        /\ get' = get
  BY DEF AppendMessage
<1>2. msg \in Seq(Byte) /\ Len(msg) \in Nat
  BY MessageType
<1>3. put \in Index /\ get \in Index /\ len \in 0..(Size - 1)
  BY LengthType DEF IInv, TypeOK, Index
<1>4. Len(msg) <= Size - len
  BY <1>1 DEF mqtt_output_check_space, mqtt_ringbuf_free, mqtt_ringbuf_len
<1>5. put' \in Index
  BY <1>1, <1>2, <1>3, <1>4, WrapType, RingAssumption, SMTT(30) DEF Index
<1>6. pending \in Seq(Byte) /\ Len(pending) \in Nat
  BY DEF IInv, TypeOK
<1>7. /\ pending' \in Seq(Byte)
      /\ Len(pending') = Len(pending) + Len(msg)
      /\ \A i \in 1..(Len(pending) + Len(msg)) :
           pending'[i] = IF i <= Len(pending) THEN pending[i] ELSE msg[i - Len(pending)]
  BY <1>1, <1>2, <1>6, ConcatProperties
<1>8. TypeOK'
  <2>1. buf' \in [0..(Size - 1) -> Byte]
    <3> SUFFICES ASSUME NEW j \in 0..(Size - 1), NEW a \in Int, a >= 0, a < Len(msg)
                 PROVE  msg[a + 1] \in Byte
      BY <1>1, <1>3, <1>2, RingAssumption DEF Filled, IInv, TypeOK, Index
    <3> QED
      BY <1>2, ElementOfSeq
  <2>2. filled' \in BOOLEAN
    BY <1>1
  <2> QED
    BY <1>1, <1>3, <1>5, <1>7, <2>1, <2>2 DEF TypeOK, Index
<1>9. (mqtt_ringbuf_len <= Len(pending))'
  <2>1. Length(put', get') <= len + Len(msg)
    BY <1>1, <1>2, <1>3, <1>4, LengthFill
  <2>2. Length(put', get') \in Nat /\ len <= Len(pending)
    BY <1>1, <1>3, <1>5, LengthType DEF IInv, mqtt_ringbuf_len
  <2>3. Length(put', get') <= Len(pending')
    BY <1>2, <1>3, <1>6, <1>7, <2>1, <2>2
  <2> QED
    BY <2>3 DEF mqtt_ringbuf_len, Length
<1>10. ASSUME ~filled'
       PROVE  Holds(put', get', buf', pending')
  <2>1. ~filled /\ Len(msg) < Size - len
    <3>1. ~filled /\ Len(msg) # Size - len
      BY <1>1, <1>10 DEF mqtt_ringbuf_free, mqtt_ringbuf_len
    <3> QED
      BY <1>2, <1>3, <1>4, <3>1, RingAssumption
  <2>2. Len(pending) = len /\ \A i \in 1..len : pending[i] = buf[Wrap(get + i - 1)]
    BY <2>1 DEF IInv, Holds
  <2>3. Length(put', get') = len + Len(msg)
    BY <1>1, <1>2, <1>3, <2>1, LengthAppend
  <2>4. ASSUME NEW i \in 1..(len + Len(msg))
        PROVE  pending'[i] = buf'[Wrap(get' + i - 1)]
    <3>1. i - 1 \in 0..(len + Len(msg) - 1)
      BY <1>2, <1>3, <2>4
    <3>2. buf'[Wrap(get + (i - 1))] =
            IF i - 1 < len THEN buf[Wrap(get + (i - 1))] ELSE msg[(i - 1) - len + 1]
      BY <1>1, <1>2, <1>3, <2>1, <3>1, FilledCells
    <3>3. get + (i - 1) = get + i - 1 /\ (i - 1) - len + 1 = i - len /\ get' = get
      BY <1>1, <1>3, <2>4, RingAssumption DEF Index
    <3>4. pending'[i] = IF i <= len THEN pending[i] ELSE msg[i - len]
      BY <1>7, <2>2
    <3>5. i - 1 < len <=> i <= len
      BY <1>2, <1>3
    <3>6. i <= len => pending[i] = buf[Wrap(get + i - 1)]
      BY <2>2, <1>3, <1>2
    <3> QED
      BY <3>2, <3>3, <3>4, <3>5, <3>6
  <2> QED
    BY <1>7, <2>2, <2>3, <2>4 DEF Holds
<1>11. (~filled => Holds(put, get, buf, pending))'
  BY <1>10 DEF Holds, Length, Wrap
<1> QED
  BY <1>8, <1>9, <1>11 DEF IInv

\* Handing n of the bytes held to TCP keeps the invariant.
LEMMA TakenInv ==
  ASSUME IInv, NEW n \in 0..mqtt_ringbuf_len, Taken(n), UNCHANGED <<put, buf, filled>>
  PROVE  IInv'
<1> DEFINE len == Length(put, get)
<1>1. put \in Index /\ get \in Index /\ len \in 0..(Size - 1) /\ n \in 0..len
  BY LengthType DEF IInv, TypeOK, Index, mqtt_ringbuf_len
<1>2. pending \in Seq(Byte) /\ Len(pending) \in Nat /\ len <= Len(pending)
  BY DEF IInv, TypeOK, mqtt_ringbuf_len
<1>3. get' = Wrap(get + n) /\ get' \in Index
  BY <1>1, WrapType, RingAssumption DEF Taken, Index
<1>4. Length(put', get') = len - n
  BY <1>1, <1>3, LengthTaken
<1>5. /\ pending' \in Seq(Byte)
      /\ Len(pending') = Len(pending) - n
      /\ \A i \in 1..(Len(pending) - n) : pending'[i] = pending[n + i]
  <2>1. pending' = SubSeq(pending, n + 1, Len(pending))
    BY DEF Taken
  <2>2. \A i \in (n + 1)..Len(pending) : pending[i] \in Byte
    BY <1>1, <1>2, ElementOfSeq
  <2>3. n + 1 \in Int /\ Len(pending) \in Int
    BY <1>1, <1>2
  <2>4. /\ SubSeq(pending, n + 1, Len(pending)) \in Seq(Byte)
        /\ Len(SubSeq(pending, n + 1, Len(pending))) =
             IF n + 1 <= Len(pending) THEN Len(pending) - (n + 1) + 1 ELSE 0
        /\ \A i \in 1..(Len(pending) - (n + 1) + 1) :
             SubSeq(pending, n + 1, Len(pending))[i] = pending[(n + 1) + i - 1]
    BY <2>2, <2>3, SubSeqProperties
  <2>5. Len(pending) - (n + 1) + 1 = Len(pending) - n /\ \A i \in Nat : (n + 1) + i - 1 = n + i
    BY <1>1, <1>2
  <2>6. Len(pending') = Len(pending) - n
    BY <1>1, <1>2, <2>1, <2>4
  <2>7. ASSUME NEW i \in 1..(Len(pending) - n)
        PROVE  pending'[i] = pending[n + i]
    <3>1. i \in Nat /\ i \in 1..(Len(pending) - (n + 1) + 1)
      BY <1>1, <1>2, <2>5
    <3>2. pending'[i] = pending[(n + 1) + i - 1]
      BY <2>1, <2>4, <3>1
    <3> QED
      BY <2>5, <3>1, <3>2
  <2> QED
    BY <2>1, <2>4, <2>6, <2>7
<1>6. TypeOK'
  BY <1>1, <1>3, <1>5 DEF TypeOK, IInv, Index
<1>7. (mqtt_ringbuf_len <= Len(pending))'
  <2>1. Length(put', get') <= Len(pending')
    BY <1>1, <1>2, <1>4, <1>5
  <2> QED
    BY <2>1 DEF mqtt_ringbuf_len, Length
<1>8. ASSUME ~filled'
      PROVE  Holds(put', get', buf', pending')
  <2>1. Len(pending) = len /\ \A i \in 1..len : pending[i] = buf[Wrap(get + i - 1)]
    BY <1>8 DEF IInv, Holds
  <2>2. ASSUME NEW i \in 1..(len - n)
        PROVE  pending'[i] = buf'[Wrap(get' + i - 1)]
    <3>1. n + i \in 1..len /\ i - 1 \in Nat /\ n + (i - 1) < Size
      BY <1>1, RingAssumption
    <3>2. Wrap(Wrap(get + n) + (i - 1)) = Wrap(get + n + (i - 1))
      BY <1>1, <3>1, WrapTwice
    <3>3. Wrap(get + n) + (i - 1) = get' + i - 1 /\ get + n + (i - 1) = get + (n + i) - 1
      BY <1>1, <1>3, RingAssumption DEF Index
    <3>4. pending'[i] = pending[n + i]
      BY <1>5, <2>1, <1>1
    <3> QED
      BY <2>1, <3>1, <3>2, <3>3, <3>4
  <2> QED
    BY <1>1, <1>4, <1>5, <2>1, <2>2 DEF Holds
<1>9. (~filled => Holds(put, get, buf, pending))'
  BY <1>8 DEF Holds, Length, Wrap
<1> QED
  BY <1>6, <1>7, <1>9 DEF IInv

\* What the two writes of a send take is held by the buffer.
LEMMA WritesAreHeld ==
  ASSUME IInv, NEW space \in 1..MaxSndBuf
  PROVE  /\ FirstWrite(space) \in 0..mqtt_ringbuf_len
         /\ FirstWrite(space) + SecondWrite(space) \in 0..mqtt_ringbuf_len
<1> DEFINE len == Length(put, get)
           first == FirstWrite(space)
<1>1. put \in Index /\ get \in Index /\ len \in 0..(Size - 1) /\ space \in Nat
  <2>1. put \in Index /\ get \in Index
    BY DEF IInv, TypeOK, Index
  <2>2. space \in Nat
    BY RingAssumption
  <2> QED
    BY <2>1, <2>2, LengthType
<1>2. Linear(put, get) \in 0..len
  BY <1>1, RingAssumption DEF Linear, Lesser, Index
<1>3. first \in 0..len /\ first <= space
  BY <1>1, <1>2 DEF FirstWrite, Lesser
<1>4. Length(put, Wrap(get + first)) = len - first
  BY <1>1, <1>3, LengthTaken
<1>5. Wrap(get + first) \in Index
  BY <1>1, <1>3, WrapType, RingAssumption DEF Index
<1>6. Linear(put, Wrap(get + first)) \in 0..(len - first)
  BY <1>1, <1>3, <1>4, <1>5, RingAssumption DEF Linear, Lesser, Index
<1>7. SecondWrite(space) \in 0..(len - first)
  BY <1>1, <1>3, <1>6 DEF SecondWrite, Lesser
<1> QED
  BY <1>1, <1>3, <1>7 DEF mqtt_ringbuf_len

\* Every step keeps the invariant.
LEMMA NextInv == IInv /\ [Next]_vars => IInv'
<1> SUFFICES ASSUME IInv, [Next]_vars
             PROVE  IInv'
  OBVIOUS
<1>1. CASE Wipe
  BY <1>1, WipeInv
<1>2. CASE AppendMessage
  BY <1>2, AppendInv
<1>3. CASE OutputSend
  <2>1. PICK space \in 1..MaxSndBuf :
          /\ \/ Taken(FirstWrite(space) + SecondWrite(space))
             \/ Taken(FirstWrite(space))
          /\ UNCHANGED <<put, buf, filled>>
    BY <1>3 DEF OutputSend
  <2> QED
    BY <2>1, WritesAreHeld, TakenInv
<1>4. CASE UNCHANGED vars
  BY <1>4 DEF vars, IInv, TypeOK, Holds, mqtt_ringbuf_len, Length, Wrap
<1> QED
  BY <1>1, <1>2, <1>3, <1>4 DEF Next

\* The strengthened invariant is one.
THEOREM RingInvariance == Spec => []IInv
<1> QED
  BY InitInv, NextInv, PTL DEF Spec

\* put and get stay indices of the buffer (mqtt_ringbuf_put, advance_get_idx).
THEOREM RingTypes == Spec => []TypeOK
<1>1. IInv => TypeOK
  BY DEF IInv
<1> QED
  BY <1>1, RingInvariance, PTL

\* TCP gets the bytes that were appended in their order, wherever messages and
\* writes wrap around, as long as none ever fills the buffer to the last byte.
THEOREM RingFifo == Spec => []Fifo
<1>1. ASSUME IInv, ~filled
      PROVE  Contents = pending
  <2>1. /\ Len(pending) = mqtt_ringbuf_len
        /\ \A i \in 1..mqtt_ringbuf_len : pending[i] = buf[Wrap(get + i - 1)]
    BY <1>1 DEF IInv, Holds, mqtt_ringbuf_len
  <2>2. pending = [i \in 1..Len(pending) |-> pending[i]]
    BY <1>1 DEF IInv, TypeOK
  <2> QED
    BY <2>1, <2>2 DEF Contents
<1>2. IInv => Fifo
  BY <1>1 DEF Fifo
<1> QED
  BY <1>2, RingInvariance, PTL
=============================================================================
