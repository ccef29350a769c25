---------------------------- MODULE Enc28j60Proofs ----------------------------
(***************************************************************************)
(* The proofs that the driver of the network card accesses each register   *)
(* with its bank selected, and takes the received frames whole and in      *)
(* order, for every size of the receive memory.                            *)
(*                                                                         *)
(* The bank: what the driver remembers of it is stale from a restart to    *)
(* the reset of the card only, and until then it touches no register of    *)
(* one bank.  The frames: they lie one behind the other in the receive     *)
(* memory, and at each access of ENC28J60_Packet_Receive the driver's      *)
(* NextPacketPtr is the first of them or the one behind it.                *)
(***************************************************************************)
EXTENDS Enc28j60, SequenceTheorems, TLAPS

Resets == {"Reset", "SOFT_RESET"}
Access == Raw \cup InOneBank \cup {"ESTAT", "ECON1", "EIR"}

\* MACON3 is written without a look at the bank, after MACON1.
Paired(s) == \A i \in 2..Len(s) : s[i] = "MACON3" => s[i - 1] = "MACON1"

\* The rest of a function without a reset of the card, a whole one, and one with
\* two resets at its start.
Rest(s) == s \in Seq(Access) /\ Paired(s) /\ \A i \in 1..Len(s) : s[i] \notin Resets
Whole(s) == Rest(s) /\ (Len(s) > 0 => s[1] # "MACON3")
AfterResets(s) ==
  /\ s \in Seq(Access) /\ Paired(s)
  /\ Len(s) >= 2 /\ s[1] = "Reset" /\ s[2] = "SOFT_RESET"
  /\ \A i \in 3..Len(s) : s[i] \notin Resets

\* All that the driver may have still to do.
TodoInv ==
  \/ todo = low_level_init
  \/ todo = Tail(low_level_init)
  \/ Rest(todo)

BankInv ==
  /\ TodoInv
  /\ todo \in {low_level_init, Tail(low_level_init)} => ENC28J60BANK = 0
  /\ (todo # <<>> /\ Head(todo) = "MACON3") => ENC28J60BANK = 2
  /\ resetting \/ todo = low_level_init \/ bank = ENC28J60BANK

-----------------------------------------------------------------------------
LEMMA TailRest ==
  ASSUME NEW s, Rest(s), s # <<>>
  PROVE  /\ Rest(Tail(s))
         /\ Tail(s) # <<>> /\ Head(Tail(s)) = "MACON3" => Head(s) = "MACON1"
         /\ Head(s) \notin Resets
<1>1. s \in Seq(Access) /\ Len(s) \in Nat /\ Len(s) # 0 /\ Head(s) = s[1]
  BY LenProperties, EmptySeq DEF Rest
<1>2. /\ Tail(s) \in Seq(Access) /\ Len(Tail(s)) = Len(s) - 1
      /\ \A i \in 1..Len(Tail(s)) : Tail(s)[i] = s[i + 1]
  BY <1>1, HeadTailProperties
<1>3. Paired(Tail(s))
  <2>1. ASSUME NEW i \in 2..Len(Tail(s)), Tail(s)[i] = "MACON3"
        PROVE  Tail(s)[i - 1] = "MACON1"
    <3>1. /\ i \in 1..Len(Tail(s)) /\ i - 1 \in 1..Len(Tail(s))
          /\ i + 1 \in 2..Len(s) /\ (i + 1) - 1 = i /\ (i - 1) + 1 = i
      BY <1>1, <1>2
    <3>2. s[i + 1] = "MACON3" /\ Tail(s)[i - 1] = s[i]
      BY <1>2, <2>1, <3>1
    <3> QED
      BY <3>1, <3>2 DEF Rest, Paired
  <2> QED
    BY <2>1 DEF Paired
<1>4. Rest(Tail(s))
  BY <1>1, <1>2, <1>3 DEF Rest
<1>5. ASSUME Tail(s) # <<>>, Head(Tail(s)) = "MACON3"
      PROVE  Head(s) = "MACON1"
  <2>1. 1 \in 1..Len(Tail(s)) /\ Head(Tail(s)) = Tail(s)[1]
    BY <1>1, <1>2, <1>5, EmptySeq
  <2>2. s[2] = "MACON3" /\ 2 \in 2..Len(s)
    BY <1>1, <1>2, <1>5, <2>1
  <2> QED
    BY <1>1, <2>2 DEF Rest, Paired
<1>6. Head(s) \notin Resets
  BY <1>1 DEF Rest
<1> QED
  BY <1>4, <1>5, <1>6

LEMMA ConcatAfterResets ==
  ASSUME NEW s, NEW t, AfterResets(s), Whole(t)
  PROVE  AfterResets(s \o t)
<1>1. /\ s \in Seq(Access) /\ t \in Seq(Access)
      /\ Len(s) \in Nat /\ Len(t) \in Nat /\ Len(s) >= 2
  BY LenProperties DEF AfterResets, Whole, Rest
<1>2. /\ s \o t \in Seq(Access) /\ Len(s \o t) = Len(s) + Len(t)
      /\ \A i \in 1..(Len(s) + Len(t)) :
           (s \o t)[i] = IF i <= Len(s) THEN s[i] ELSE t[i - Len(s)]
  BY <1>1, ConcatProperties
<1> DEFINE r == s \o t
<1> HIDE DEF r
<1>3. ASSUME NEW i \in 1..(Len(s) + Len(t))
      PROVE  /\ i <= Len(s) => r[i] = s[i]
             /\ i > Len(s) => r[i] = t[i - Len(s)] /\ i - Len(s) \in 1..Len(t)
  BY <1>1, <1>2 DEF r
<1>4. ASSUME NEW i \in 3..(Len(s) + Len(t))
      PROVE  r[i] \notin Resets
  <2>1. i \in 1..(Len(s) + Len(t))
    BY <1>1
  <2>2. CASE i <= Len(s)
    BY <1>1, <1>3, <2>1, <2>2 DEF AfterResets
  <2>3. CASE i > Len(s)
    <3>1. i - Len(s) \in 1..Len(t) /\ r[i] = t[i - Len(s)]
      BY <1>3, <2>1, <2>3
    <3> QED
      BY <3>1 DEF Whole, Rest
  <2> QED
    BY <1>1, <2>2, <2>3
<1>5. ASSUME NEW i \in 2..(Len(s) + Len(t)), r[i] = "MACON3"
      PROVE  r[i - 1] = "MACON1"
  <2>1. i \in 1..(Len(s) + Len(t)) /\ i - 1 \in 1..(Len(s) + Len(t))
    BY <1>1
  <2>2. CASE i <= Len(s)
    <3>1. r[i] = s[i] /\ r[i - 1] = s[i - 1] /\ i \in 2..Len(s)
      BY <1>1, <1>3, <2>1, <2>2
    <3> QED
      BY <1>5, <3>1 DEF AfterResets, Paired
  <2>3. CASE i = Len(s) + 1
    <3>1. r[i] = t[1] /\ Len(t) > 0
      BY <1>1, <1>3, <2>1, <2>3
    <3> QED
      BY <1>5, <3>1 DEF Whole
  <2>4. CASE i > Len(s) + 1
    <3>1. /\ r[i] = t[i - Len(s)] /\ r[i - 1] = t[(i - 1) - Len(s)]
          /\ i - Len(s) \in 2..Len(t) /\ (i - 1) - Len(s) = (i - Len(s)) - 1
      BY <1>1, <1>3, <2>1, <2>4, SMTT(30)
    <3> QED
      BY <1>5, <3>1 DEF Whole, Rest, Paired
  <2> QED
    BY <1>1, <2>2, <2>3, <2>4
<1>6. r[1] = "Reset" /\ r[2] = "SOFT_RESET"
  BY <1>1, <1>3 DEF AfterResets
<1>7. r \in Seq(Access) /\ Len(r) = Len(s) + Len(t) /\ Len(r) >= 2
  BY <1>1, <1>2 DEF r
<1>8. AfterResets(r)
  BY <1>4, <1>5, <1>6, <1>7 DEF AfterResets, Paired
<1> QED
  BY <1>8 DEF r

\* low_level_init begins with two resets of the card; there is no other one.
LEMMA Programs ==
  /\ AfterResets(low_level_init)
  /\ Whole(PHY_Write) /\ Whole(Packet_Receive) /\ Whole(Packet_Send)
  /\ Whole(<<>>) /\ Whole(<<"CLR_TXRTS">>)
<1> DEFINE A == <<"Reset", "SOFT_RESET", "ESTAT", "ERXST", "ERXFCON", "MACON1",
                  "MACON3", "MAMXFL", "MAADR">>
           B == <<"ECON1", "EIE", "RXEN", "MAADR5">>
<1>1. Whole(PHY_Write)
  <2>1. PHY_Write \in Seq(Access)
    BY DEF PHY_Write, Access, InOneBank
  <2>2. Len(PHY_Write) = 2 /\ \A i \in 1..2 : PHY_Write[i] \notin Resets \cup {"MACON3"}
    BY DEF PHY_Write, Resets
  <2> QED
    BY <2>1, <2>2 DEF Whole, Rest, Paired
<1>2. Whole(B)
  <2>1. B \in Seq(Access)
    BY DEF Access, InOneBank, Raw
  <2>2. Len(B) = 4 /\ \A i \in 1..4 : B[i] \notin Resets \cup {"MACON3"}
    BY DEF Resets
  <2> QED
    BY <2>1, <2>2 DEF Whole, Rest, Paired
<1>3. Whole(Packet_Receive)
  <2>1. Packet_Receive \in Seq(Access)
    BY DEF Packet_Receive, Access, InOneBank, Raw
  <2>2. /\ Len(Packet_Receive) = 6
        /\ \A i \in 1..6 : Packet_Receive[i] \notin Resets \cup {"MACON3"}
    BY DEF Packet_Receive, Resets
  <2> QED
    BY <2>1, <2>2 DEF Whole, Rest, Paired
<1>4. Whole(Packet_Send)
  <2>1. Packet_Send \in Seq(Access)
    BY DEF Packet_Send, Access, InOneBank, Raw
  <2>2. /\ Len(Packet_Send) = 4
        /\ \A i \in 1..4 : Packet_Send[i] \notin Resets \cup {"MACON3"}
    BY DEF Packet_Send, Resets
  <2> QED
    BY <2>1, <2>2 DEF Whole, Rest, Paired
<1>5. Whole(<<>>) /\ Whole(<<"CLR_TXRTS">>)
  <2>1. <<>> \in Seq(Access) /\ Len(<<>>) = 0
    OBVIOUS
  <2>2. <<"CLR_TXRTS">> \in Seq(Access)
    BY DEF Access, Raw
  <2>3. /\ Len(<<"CLR_TXRTS">>) = 1
        /\ \A i \in 1..1 : <<"CLR_TXRTS">>[i] \notin Resets \cup {"MACON3"}
    BY DEF Resets
  <2> QED
    BY <2>1, <2>2, <2>3 DEF Whole, Rest, Paired
<1>6. AfterResets(A)
  <2>1. A \in Seq(Access)
    BY DEF Access, InOneBank, Raw
  <2>2. Len(A) = 9 /\ A[1] = "Reset" /\ A[2] = "SOFT_RESET"
    OBVIOUS
  <2>3. \A i \in 3..9 : A[i] \notin Resets
    BY DEF Resets
  <2>4. \A i \in 2..9 : A[i] = "MACON3" => A[i - 1] = "MACON1"
    OBVIOUS
  <2> HIDE DEF A
  <2> QED
    BY <2>1, <2>2, <2>3, <2>4 DEF AfterResets, Paired
<1>7. low_level_init = (((A \o PHY_Write) \o PHY_Write) \o B) \o PHY_Write
  BY DEF low_level_init
<1> HIDE DEF A, B
<1>8. AfterResets((A \o PHY_Write) \o PHY_Write)
  BY <1>1, <1>6, ConcatAfterResets
<1>9. AfterResets((((A \o PHY_Write) \o PHY_Write) \o B) \o PHY_Write)
  BY <1>1, <1>2, <1>8, ConcatAfterResets
<1> QED
  BY <1>1, <1>3, <1>4, <1>5, <1>7, <1>9

LEMMA Heads ==
  /\ low_level_init # <<>> /\ Tail(low_level_init) # <<>>
  /\ Head(low_level_init) = "Reset" /\ Head(Tail(low_level_init)) = "SOFT_RESET"
  /\ Whole(Tail(Tail(low_level_init)))
<1> DEFINE s == low_level_init
<1>1. /\ s \in Seq(Access) /\ Len(s) \in Nat /\ Len(s) >= 2 /\ Paired(s)
      /\ \A i \in 3..Len(s) : s[i] \notin Resets
      /\ s[1] = "Reset" /\ s[2] = "SOFT_RESET"
  BY Programs, LenProperties DEF AfterResets
<1> HIDE DEF s
<1>2. s # <<>> /\ Head(s) = s[1]
  BY <1>1, EmptySeq
<1>3. /\ Tail(s) \in Seq(Access) /\ Len(Tail(s)) = Len(s) - 1
      /\ \A i \in 1..Len(Tail(s)) : Tail(s)[i] = s[i + 1]
  BY <1>1, <1>2, HeadTailProperties
<1>4. Tail(s) # <<>> /\ Head(Tail(s)) = s[2]
  <2>1. Len(Tail(s)) # 0 /\ 1 \in 1..Len(Tail(s))
    BY <1>1, <1>3
  <2>2. Tail(s) # <<>> /\ Head(Tail(s)) = Tail(s)[1]
    <3> DEFINE t == Tail(s)
    <3>1. t \in Seq(Access) /\ Len(t) # 0
      BY <1>3, <2>1
    <3> HIDE DEF t
    <3>2. t # <<>> /\ Head(t) = t[1]
      BY <3>1, EmptySeq
    <3> QED
      BY <3>2 DEF t
  <2> QED
    BY <1>3, <2>1, <2>2
<1>5. /\ Tail(Tail(s)) \in Seq(Access) /\ Len(Tail(Tail(s))) = Len(s) - 2
      /\ \A i \in 1..Len(Tail(Tail(s))) : Tail(Tail(s))[i] = Tail(s)[i + 1]
  <2>1. /\ Tail(Tail(s)) \in Seq(Access) /\ Len(Tail(Tail(s))) = Len(Tail(s)) - 1
        /\ \A i \in 1..Len(Tail(Tail(s))) : Tail(Tail(s))[i] = Tail(s)[i + 1]
    BY <1>3, <1>4, HeadTailProperties
  <2> QED
    BY <1>1, <1>3, <2>1
<1> DEFINE r == Tail(Tail(s))
<1>6. \A i \in 1..(Len(s) - 2) : r[i] = s[i + 2]
  BY <1>1, <1>3, <1>5
<1>7. r \in Seq(Access) /\ Len(r) = Len(s) - 2
  BY <1>5
<1> HIDE DEF r
<1>8. \A i \in 1..Len(r) : r[i] \notin Resets
  BY <1>1, <1>6, <1>7
<1>9. Paired(r)
  <2>1. ASSUME NEW i \in 2..Len(r), r[i] = "MACON3"
        PROVE  r[i - 1] = "MACON1"
    <3>1. r[i] = s[i + 2] /\ r[i - 1] = s[(i + 2) - 1] /\ i + 2 \in 2..Len(s)
      BY <1>1, <1>6, <1>7
    <3> QED
      BY <1>1, <2>1, <3>1 DEF Paired
  <2> QED
    BY <2>1 DEF Paired
<1>10. Len(r) > 0 => r[1] # "MACON3"
  <2>1. ASSUME Len(r) > 0
        PROVE  r[1] = s[3] /\ 3 \in 2..Len(s)
    BY <1>1, <1>6, <1>7, <2>1
  <2> QED
    BY <1>1, <2>1 DEF Paired
<1>11. Whole(r)
  BY <1>7, <1>8, <1>9, <1>10 DEF Whole, Rest
<1> QED
  BY <1>1, <1>2, <1>4, <1>11 DEF s, r

\* Neither is the rest of anything else.
LEMMA RestIsNone ==
  ASSUME NEW s, Rest(s)
  PROVE  s # low_level_init /\ s # Tail(low_level_init)
BY Heads, TailRest DEF Resets

-----------------------------------------------------------------------------
LEMMA BankInit == Init => BankInv
BY Heads DEF Init, BankInv, TodoInv

LEMMA WholeStarts ==
  ASSUME NEW s, Whole(s)
  PROVE  Rest(s) /\ ~(s # <<>> /\ Head(s) = "MACON3")
<1>1. s \in Seq(Access) /\ Len(s) \in Nat
  BY LenProperties DEF Whole, Rest
<1>2. ASSUME s # <<>>
      PROVE  Len(s) > 0 /\ Head(s) = s[1]
  BY <1>1, <1>2, EmptySeq
<1> QED
  BY <1>2 DEF Whole

\* The driver goes on in its function, returns or calls another one.
LEMMA GoesOn ==
  ASSUME BankInv, todo # <<>>, Head(todo) \notin Resets,
         UNCHANGED <<bank, ENC28J60BANK, resetting>>,
         \/ todo' = Tail(todo) /\ (Head(todo) = "MACON1" => ENC28J60BANK = 2)
         \/ Whole(todo')
  PROVE  BankInv'
<1>1. Rest(todo)
  BY Heads DEF BankInv, TodoInv, Resets
<1>2. Rest(todo')
  BY <1>1, TailRest, WholeStarts
<1>3. (todo' # <<>> /\ Head(todo') = "MACON3") => ENC28J60BANK' = 2
  BY <1>1, TailRest, WholeStarts
<1>4. todo # low_level_init
  BY <1>1, RestIsNone
<1>5. todo' # low_level_init /\ todo' # Tail(low_level_init)
  BY <1>2, RestIsNone
<1> QED
  BY <1>2, <1>3, <1>4, <1>5 DEF BankInv, TodoInv

LEMMA StepInv == BankInv /\ DriverStep => BankInv'
<1> SUFFICES ASSUME BankInv, DriverStep
             PROVE  BankInv'
  OBVIOUS
<1>1. CASE ENC28J60_Set_Bank
  <2>1. /\ todo # <<>> /\ Head(todo) \notin Raw /\ UNCHANGED <<todo, resetting>>
        /\ ENC28J60BANK' = Bank(Head(todo))
        /\ bank' = IF resetting THEN bank ELSE Bank(Head(todo))
    BY <1>1 DEF ENC28J60_Set_Bank
  <2>2. "Reset" \in Raw /\ "SOFT_RESET" \in Raw /\ "MACON3" \in Raw
    BY DEF Raw
  <2>3. todo # low_level_init /\ todo # Tail(low_level_init) /\ Head(todo) # "MACON3"
    BY <2>1, <2>2, Heads
  <2> QED
    BY <2>1, <2>3 DEF BankInv, TodoInv
<1>2. CASE InitReset
  <2>1. /\ todo # <<>> /\ Head(todo) \in Resets
        /\ bank' = 0 /\ todo' = Tail(todo) /\ UNCHANGED <<ENC28J60BANK, resetting>>
    BY <1>2 DEF InitReset, At, ResetCard, Resets
  <2>2. todo = low_level_init \/ todo = Tail(low_level_init)
    BY <2>1, TailRest DEF BankInv, TodoInv
  <2>3. ENC28J60BANK = 0
    BY <2>2 DEF BankInv
  <2>4. todo' = Tail(low_level_init) \/ Whole(todo')
    BY <2>1, <2>2, Heads
  <2>5. TodoInv' /\ ~(todo' # <<>> /\ Head(todo') = "MACON3")
    BY <2>4, Heads, WholeStarts DEF TodoInv
  <2> QED
    BY <2>1, <2>3, <2>5 DEF BankInv
<1>3. CASE InitClock
  <2>1. /\ todo # <<>> /\ Head(todo) = "ESTAT"
        /\ todo' = Tail(todo) \/ todo' = PHY_Write
        /\ UNCHANGED <<bank, ENC28J60BANK, resetting>>
    BY <1>3 DEF InitClock, At, Goes
  <2> QED
    BY <2>1, GoesOn, Programs DEF Resets
<1>4. CASE Configure \/ InitRxen
  <2>1. /\ todo # <<>> /\ Head(todo) \notin Resets /\ todo' = Tail(todo)
        /\ UNCHANGED <<bank, ENC28J60BANK, resetting>>
    BY <1>4 DEF Configure, InitRxen, At, Goes, Resets
  <2>2. Head(todo) = "MACON1" => ENC28J60BANK = 2
    BY <1>4 DEF Configure, InitRxen, At, Bank, Raw
  <2> QED
    BY <2>1, <2>2, GoesOn
<1>5. CASE Receive
  <2>1. /\ todo # <<>> /\ Head(todo) \notin Resets /\ Head(todo) # "MACON1"
        /\ todo' = Tail(todo) \/ todo' = <<>>
        /\ UNCHANGED <<bank, ENC28J60BANK, resetting>>
    BY <1>5 DEF Receive, ReadCount, WriteReadPointer, ReadHeader, ReadBuffer, Release,
                Took, At, Goes, Resets
  <2> QED
    BY <2>1, GoesOn, Programs
<1>6. CASE Send
  <2>1. /\ todo # <<>> /\ Head(todo) \notin Resets /\ Head(todo) # "MACON1"
        /\ todo' = Tail(todo) \/ todo' = <<>> \/ todo' = <<"CLR_TXRTS">>
        /\ UNCHANGED <<bank, ENC28J60BANK, resetting>>
    BY <1>6 DEF Send, WritePointers, WriteBuffer, Transmit, ReadErrors,
                CutTransmission, At, Goes, Resets
  <2> QED
    BY <2>1, GoesOn, Programs
<1> QED
  BY <1>1, <1>2, <1>3, <1>4, <1>5, <1>6 DEF DriverStep

LEMMA BankNext == BankInv /\ [Next]_vars => BankInv'
<1> SUFFICES ASSUME BankInv, [Next]_vars
             PROVE  BankInv'
  OBVIOUS
<1>1. CASE DriverStep
  BY <1>1, StepInv
<1>2. CASE StartReceive \/ StartSend
  <2>1. /\ todo = <<>> /\ Whole(todo')
        /\ UNCHANGED <<bank, ENC28J60BANK, resetting>>
    BY <1>2, Programs DEF StartReceive, StartSend
  <2>2. todo # low_level_init
    BY <2>1, Heads
  <2>3. /\ Rest(todo') /\ ~(todo' # <<>> /\ Head(todo') = "MACON3")
        /\ todo' # low_level_init /\ todo' # Tail(low_level_init)
    BY <2>1, WholeStarts, RestIsNone
  <2> QED
    BY <2>1, <2>2, <2>3 DEF BankInv, TodoInv
<1>3. CASE Arrive \/ Transmitted \/ UNCHANGED vars
  BY <1>3 DEF Arrive, Transmitted, BankInv, TodoInv, vars, driverVars
\* What data_task does to the card ends with a restart.
<1>4. CASE ENC28J60_Reset
  BY <1>4 DEF ENC28J60_Reset, BankInv, TodoInv, driverVars
<1>5. CASE NVIC_SystemReset \/ Restart
  <2>1. todo' = low_level_init /\ ENC28J60BANK' = 0
    BY <1>5 DEF NVIC_SystemReset, Restart
  <2> QED
    BY <2>1, Heads DEF BankInv, TodoInv
<1> QED
  BY <1>1, <1>2, <1>3, <1>4, <1>5 DEF Next

\* Each register is accessed in its bank, whatever bank a restart found the card
\* in and wherever data_task resets it.
THEOREM BankHolds == Spec => []BankSelected
<1>1. BankInv => BankSelected
  <2> SUFFICES ASSUME BankInv, NEW a \in InOneBank, At(a), ~resetting
               PROVE  bank = Bank(a)
    BY DEF BankSelected
  <2>1. todo # <<>> /\ Head(todo) = a
    BY DEF At
  <2>2. a \notin Resets
    BY DEF InOneBank, Resets
  <2>3. todo # low_level_init
    BY <2>1, <2>2, Heads DEF Resets
  <2>4. bank = ENC28J60BANK
    BY <2>3 DEF BankInv
  <2>5. CASE a = "MACON3"
    <3>1. ENC28J60BANK = 2
      BY <2>1, <2>5 DEF BankInv
    <3> QED
      BY <2>4, <2>5, <3>1 DEF Bank
  <2>6. CASE a # "MACON3"
    <3>1. a \notin Raw
      BY <2>6 DEF InOneBank, Raw
    <3> QED
      BY <2>4, <3>1 DEF At
  <2> QED
    BY <2>5, <2>6
<1> QED
  BY <1>1, BankInit, BankNext, PTL DEF Spec

-----------------------------------------------------------------------------
(***************************************************************************)
(* The frames in the receive memory.                                       *)
(***************************************************************************)
\* The cell k units behind e.
From(e, k) == (e + k) % RxSize

\* What a cell holds of part p of a frame.
Piece(f, p) == [id |-> f.id, size |-> f.size, ok |-> f.ok, part |-> p]

\* The frames of q lie one behind the other from e to w, off units from e.
LaidAt(off, q, e, w, m) ==
  /\ off[1] = 0
  /\ w = From(e, off[Len(q) + 1])
  /\ \A i \in 1..Len(q) :
       /\ off[i + 1] = off[i] + q[i].size
       /\ \A p \in 1..q[i].size : m[From(e, off[i] + p - 1)] = Piece(q[i], p)
  /\ \A i, j \in 1..(Len(q) + 1) : i <= j => off[i] + (j - i) <= off[j]

\* They lie so at some offsets, below the size of the memory.
Laid(q, e, w, m) ==
  \E off \in [1..(Len(q) + 1) -> 0..(RxSize - 1)] : LaidAt(off, q, e, w, m)

\* It wraps at most once.
LEMMA FromIs ==
  ASSUME NEW e \in Cell, NEW k \in 0..(RxSize - 1)
  PROVE  /\ From(e, k) = IF e + k < RxSize THEN e + k ELSE e + k - RxSize
         /\ From(e, k) \in Cell
<1>1. RxSize \in Nat /\ RxSize > 2 /\ e \in 0..(RxSize - 1)
  BY CardAssumption DEF Cell
<1>2. CASE e + k < RxSize
  <2>1. (e + k) % RxSize = e + k
    BY <1>1, <1>2
  <2> QED
    BY <1>1, <1>2, <2>1 DEF From, Cell
<1>3. CASE e + k >= RxSize
  <2>1. (e + k) % RxSize = e + k - RxSize
    BY <1>1, <1>3
  <2> QED
    BY <1>1, <1>3, <2>1 DEF From, Cell
<1> QED
  BY <1>1, <1>2, <1>3

\* Steps add up.
LEMMA FromFrom ==
  ASSUME NEW e \in Cell, NEW a \in Nat, NEW b \in Nat, a + b <= RxSize - 1
  PROVE  From(From(e, a), b) = From(e, a + b)
<1>1. RxSize \in Nat /\ RxSize > 2 /\ e \in 0..(RxSize - 1)
  BY CardAssumption DEF Cell
<1>2. a \in 0..(RxSize - 1) /\ b \in 0..(RxSize - 1) /\ a + b \in 0..(RxSize - 1)
  BY <1>1
<1> QED
  BY <1>1, <1>2, FromIs

\* Within the size of the memory no cell comes twice.
LEMMA FromOnce ==
  ASSUME NEW e \in Cell, NEW a \in 0..(RxSize - 1), NEW b \in 0..(RxSize - 1),
         From(e, a) = From(e, b)
  PROVE  a = b
<1>1. RxSize \in Nat /\ RxSize > 2 /\ e \in 0..(RxSize - 1)
  BY CardAssumption DEF Cell
<1> QED
  BY <1>1, FromIs

\* The room that is left.
LEMMA Room ==
  ASSUME NEW e \in Cell, NEW o \in 0..(RxSize - 1)
  PROVE  (e - From(e, o) - 1) % RxSize = RxSize - 1 - o
<1>1. RxSize \in Nat /\ RxSize > 2 /\ e \in 0..(RxSize - 1)
  BY CardAssumption DEF Cell
<1>2. CASE e + o < RxSize
  <2>1. From(e, o) = e + o
    BY <1>2, FromIs
  <2>2. /\ e - From(e, o) - 1 = -(o + 1)
        /\ -(o + 1) \in Int /\ -(o + 1) < 0 /\ -(o + 1) >= -RxSize
    BY <1>1, <2>1
  <2>3. (-(o + 1)) % RxSize = -(o + 1) + RxSize
    BY <1>1, <2>2
  <2> QED
    BY <1>1, <2>2, <2>3
<1>3. CASE e + o >= RxSize
  <2>1. From(e, o) = e + o - RxSize
    BY <1>1, <1>3, FromIs
  <2>2. /\ e - From(e, o) - 1 = RxSize - 1 - o
        /\ RxSize - 1 - o \in 0..(RxSize - 1)
    BY <1>1, <2>1
  <2>3. (RxSize - 1 - o) % RxSize = RxSize - 1 - o
    BY <1>1, <2>2
  <2> QED
    BY <2>2, <2>3
<1> QED
  BY <1>1, <1>2, <1>3

\* A part of a frame lies before the end of the frame.
LEMMA InFrame ==
  ASSUME NEW a \in Nat, NEW z \in Int, NEW o \in Int, NEW p \in 1..2,
         p <= z, a + z <= o
  PROVE  a + p - 1 \in Nat /\ a + p - 1 < o
OBVIOUS

\* No frame: the pointers meet.
LEMMA LaidNothing ==
  ASSUME NEW e \in Cell, NEW m
  PROVE  Laid(<<>>, e, e, m)
<1> DEFINE off == [i \in 1..1 |-> 0]
<1>1. RxSize \in Nat /\ RxSize > 2 /\ e \in 0..(RxSize - 1)
  BY CardAssumption DEF Cell
<1>2. Len(<<>>) = 0
  OBVIOUS
<1>3. From(e, 0) = e
  BY <1>1, FromIs
<1>4. off \in [1..(Len(<<>>) + 1) -> 0..(RxSize - 1)]
  BY <1>1, <1>2
<1>5. LaidAt(off, <<>>, e, e, m)
  BY <1>2, <1>3 DEF LaidAt
<1> QED
  BY <1>4, <1>5 DEF Laid

\* The first frame.
LEMMA LaidFirst ==
  ASSUME NEW q \in Seq(Frame), NEW e \in Cell, NEW w, NEW m, Laid(q, e, w, m)
  PROVE  /\ Len(q) < RxSize
         /\ q = <<>> => w = e
         /\ q # <<>> =>
              /\ Head(q) = q[1] /\ q[1] \in Frame /\ q[1].size < RxSize
              /\ \A p \in 1..q[1].size : m[From(e, p - 1)] = Piece(q[1], p)
<1>1. PICK off \in [1..(Len(q) + 1) -> 0..(RxSize - 1)] : LaidAt(off, q, e, w, m)
  BY DEF Laid
<1>2. RxSize \in Nat /\ RxSize > 2 /\ e \in 0..(RxSize - 1) /\ Len(q) \in Nat
  BY CardAssumption, LenProperties DEF Cell
<1>3. Len(q) < RxSize
  <2>1. CASE Len(q) = 0
    BY <1>2, <2>1
  <2>2. CASE Len(q) > 0
    <3>1. 1 \in 1..(Len(q) + 1) /\ Len(q) + 1 \in 1..(Len(q) + 1) /\ 1 <= Len(q) + 1
      BY <1>2, <2>2
    <3>2. off[1] = 0 /\ off[1] + ((Len(q) + 1) - 1) <= off[Len(q) + 1]
      BY <1>1, <3>1 DEF LaidAt
    <3>3. off[Len(q) + 1] \in 0..(RxSize - 1)
      BY <3>1
    <3> QED
      BY <1>2, <3>2, <3>3
  <2> QED
    BY <1>2, <2>1, <2>2
<1>4. ASSUME q = <<>>
      PROVE  w = e
  <2>1. Len(q) + 1 = 1
    BY <1>4
  <2> QED
    BY <1>1, <1>2, <2>1, FromIs DEF LaidAt
<1>5. ASSUME q # <<>>
      PROVE  /\ Head(q) = q[1] /\ q[1] \in Frame /\ q[1].size < RxSize
             /\ \A p \in 1..q[1].size : m[From(e, p - 1)] = Piece(q[1], p)
  <2>1. Len(q) # 0 /\ Head(q) = q[1]
    BY <1>5, EmptySeq
  <2>2. 1 \in 1..Len(q) /\ 2 \in 1..(Len(q) + 1)
    BY <1>2, <2>1
  <2>3. q[1] \in Frame
    BY <2>2, ElementOfSeq
  <2>4. q[1].size \in Nat
    BY <2>3 DEF Frame
  <2>5. off[1] = 0 /\ off[2] = off[1] + q[1].size /\ off[2] \in 0..(RxSize - 1)
    <3>1. off[1] = 0 /\ off[1 + 1] = off[1] + q[1].size
      BY <1>1, <2>2 DEF LaidAt
    <3> QED
      BY <2>2, <3>1
  <2>6. \A p \in 1..q[1].size : m[From(e, off[1] + p - 1)] = Piece(q[1], p)
    BY <1>1, <2>2 DEF LaidAt
  <2>7. \A p \in 1..q[1].size : off[1] + p - 1 = p - 1
    BY <2>4, <2>5
  <2>8. q[1].size < RxSize
    BY <1>2, <2>4, <2>5
  <2> QED
    BY <2>1, <2>3, <2>6, <2>7, <2>8
<1> QED
  BY <1>3, <1>4, <1>5

\* Its memory is given back.
LEMMA LaidRest ==
  ASSUME NEW q \in Seq(Frame), NEW e \in Cell, NEW w, NEW m, Laid(q, e, w, m),
         q # <<>>
  PROVE  Laid(Tail(q), From(e, q[1].size), w, m)
<1>1. PICK off \in [1..(Len(q) + 1) -> 0..(RxSize - 1)] : LaidAt(off, q, e, w, m)
  BY DEF Laid
<1>2. RxSize \in Nat /\ RxSize > 2 /\ Len(q) \in Nat /\ Len(q) # 0
  BY CardAssumption, LenProperties, EmptySeq
<1> DEFINE t == Tail(q)
           n == Len(q)
           s == q[1].size
<1>3. /\ t \in Seq(Frame) /\ Len(t) = n - 1
      /\ \A i \in 1..(n - 1) : t[i] = q[i + 1]
  BY HeadTailProperties
<1>4. \A i \in 1..n : q[i] \in Frame /\ q[i].size \in 1..2
  <2>1. \A i \in 1..n : q[i] \in Frame
    BY ElementOfSeq
  <2> QED
    BY <2>1 DEF Frame
<1>5. 1 \in 1..n /\ \A i \in 1..(n + 1) : off[i] \in 0..(RxSize - 1)
  BY <1>2
<1>6. /\ off[1] = 0 /\ w = From(e, off[n + 1])
      /\ \A i \in 1..n : off[i + 1] = off[i] + q[i].size
      /\ \A i, j \in 1..(n + 1) : i <= j => off[i] + (j - i) <= off[j]
      /\ \A i \in 1..n : \A p \in 1..q[i].size :
           m[From(e, off[i] + p - 1)] = Piece(q[i], p)
  BY <1>1 DEF LaidAt
<1> HIDE DEF t, n
<1>7. s \in 1..2 /\ off[2] = s
  BY <1>2, <1>4, <1>5, <1>6
<1> HIDE DEF s
<1> DEFINE o2 == [i \in 1..n |-> off[i + 1] - s]
<1>8. n \in Nat /\ n > 0 /\ Len(t) + 1 = n
  BY <1>2, <1>3 DEF n
<1>9. \A i \in 1..n : i + 1 \in 1..(n + 1) /\ s <= off[i + 1]
  <2>1. 2 \in 1..(n + 1) /\ \A i \in 1..n : i + 1 \in 1..(n + 1) /\ 2 <= i + 1
    BY <1>8
  <2>2. \A i \in 1..n : off[2] + ((i + 1) - 2) <= off[i + 1]
    BY <1>6, <2>1
  <2> QED
    BY <1>5, <1>7, <1>8, <2>1, <2>2, SMTT(30)
<1>10. /\ o2 \in [1..(Len(t) + 1) -> 0..(RxSize - 1)]
       /\ \A i \in 1..n : o2[i] = off[i + 1] - s
  <2>1. \A i \in 1..n : off[i + 1] - s \in 0..(RxSize - 1)
    BY <1>2, <1>5, <1>7, <1>9
  <2> QED
    BY <1>8, <2>1
<1> HIDE DEF o2
<1>11. LaidAt(o2, t, From(e, s), w, m)
  <2>1. o2[1] = 0
    <3>1. 1 \in 1..n /\ 1 + 1 = 2
      BY <1>8
    <3> QED
      BY <1>7, <1>10, <3>1
  <2>2. w = From(From(e, s), o2[Len(t) + 1])
    <3>1. /\ o2[Len(t) + 1] = off[n + 1] - s /\ off[n + 1] \in 0..(RxSize - 1)
          /\ s <= off[n + 1]
      <4>1. n \in 1..n /\ n + 1 \in 1..(n + 1)
        BY <1>8
      <4> QED
        BY <1>5, <1>8, <1>9, <1>10, <4>1
    <3>2. From(From(e, s), off[n + 1] - s) = From(e, s + (off[n + 1] - s))
      BY <1>2, <1>7, <3>1, FromFrom
    <3>3. s + (off[n + 1] - s) = off[n + 1]
      BY <1>7, <3>1
    <3> QED
      BY <1>6, <3>1, <3>2, <3>3
  <2>3. ASSUME NEW i \in 1..Len(t)
        PROVE  /\ o2[i + 1] = o2[i] + t[i].size
               /\ \A p \in 1..t[i].size : m[From(From(e, s), o2[i] + p - 1)] = Piece(t[i], p)
    <3>1. /\ i \in 1..n /\ i + 1 \in 1..n /\ i \in 1..(n - 1) /\ (i + 1) + 1 \in 1..(n + 1)
      BY <1>8
    <3>2. /\ t[i] = q[i + 1] /\ t[i].size \in 1..2
          /\ off[(i + 1) + 1] = off[i + 1] + t[i].size
          /\ off[i + 1] \in 0..(RxSize - 1) /\ off[(i + 1) + 1] \in 0..(RxSize - 1)
          /\ o2[i] = off[i + 1] - s /\ o2[i + 1] = off[(i + 1) + 1] - s
          /\ s <= off[i + 1]
      BY <1>3, <1>4, <1>5, <1>6, <1>8, <1>9, <1>10, <3>1
    <3>5. /\ o2[i + 1] = off[(i + 1) + 1] - s /\ o2[i] = off[i + 1] - s
          /\ off[(i + 1) + 1] = off[i + 1] + t[i].size
          /\ off[i + 1] \in Int /\ t[i].size \in Int /\ s \in Int
          /\ off[i + 1] + t[i].size <= RxSize - 1 /\ RxSize \in Int
          /\ s <= off[i + 1]
      <4>1. RxSize \in Int /\ s \in Int
        BY <1>2, <1>7
      <4>2. off[i + 1] \in Int
        BY <3>2
      <4>3. t[i].size \in Int
        BY <3>2
      <4>4. off[(i + 1) + 1] <= RxSize - 1
        BY <3>2
      <4> QED
        BY <3>2, <4>1, <4>2, <4>3, <4>4
    <3>3. ASSUME NEW p \in 1..t[i].size
          PROVE  m[From(From(e, s), o2[i] + p - 1)] = Piece(t[i], p)
      <4>1. m[From(e, off[i + 1] + p - 1)] = Piece(t[i], p)
        BY <1>6, <3>1, <3>2
      <4> DEFINE k == o2[i] + p - 1
      <4>2. /\ k \in Nat /\ s + k <= RxSize - 1 /\ s + k = off[i + 1] + p - 1
        <5>1. p \in 1..2 /\ p <= t[i].size
          BY <3>2
        <5>2. o2[i] = off[i + 1] - s /\ s \in Int /\ s <= off[i + 1] /\ off[i + 1] \in Int
          BY <3>5
        <5>5. o2[i] \in Nat
          BY <5>2
        <5>6. off[i + 1] + t[i].size <= RxSize - 1 /\ t[i].size \in Int /\ RxSize \in Int
          BY <3>5
        <5>7. o2[i] + t[i].size <= (RxSize - 1) - s
          <6> DEFINE a == off[i + 1]
                     b == o2[i]
                     z == t[i].size
          <6>1. /\ b = a - s /\ a + z <= RxSize - 1
                /\ a \in Int /\ s \in Int /\ z \in Int /\ RxSize \in Int
            BY <5>2, <5>6
          <6> HIDE DEF a, b, z
          <6>2. b + z <= (RxSize - 1) - s
            BY <6>1
          <6> QED
            BY <6>2 DEF b, z
        <5>8. (RxSize - 1) - s \in Int
          BY <5>2, <5>6
        <5>3. k \in Nat /\ k < (RxSize - 1) - s
          BY <5>1, <5>5, <5>6, <5>7, <5>8, InFrame
        <5>4. s + k = off[i + 1] + p - 1
          BY <3>5, <5>1
        <5> HIDE DEF k
        <5> QED
          BY <3>5, <5>3, <5>4
      <4> HIDE DEF k
      <4>3. From(From(e, s), k) = From(e, s + k)
        BY <1>7, <4>2, FromFrom
      <4> QED
        BY <4>1, <4>2, <4>3 DEF k
    <3>4. o2[i + 1] = o2[i] + t[i].size
      BY <3>5
    <3> QED
      BY <3>3, <3>4
  <2>4. ASSUME NEW i \in 1..(Len(t) + 1), NEW j \in 1..(Len(t) + 1), i <= j
        PROVE  o2[i] + (j - i) <= o2[j]
    <3>1. i + 1 \in 1..(n + 1) /\ j + 1 \in 1..(n + 1) /\ i + 1 <= j + 1
      BY <1>8, <2>4
    <3>2. off[i + 1] + ((j + 1) - (i + 1)) <= off[j + 1]
      BY <1>6, <3>1
    <3>3. /\ o2[i] = off[i + 1] - s /\ o2[j] = off[j + 1] - s
          /\ off[i + 1] \in Int /\ off[j + 1] \in Int
      <4>1. i \in 1..n /\ j \in 1..n
        BY <1>8
      <4>2. off[i + 1] \in Int /\ off[j + 1] \in Int
        BY <1>5, <3>1
      <4> QED
        BY <1>10, <4>1, <4>2
    <3>4. i \in Int /\ j \in Int /\ s \in Int
      BY <1>7
    <3> DEFINE a == off[i + 1]
               b == off[j + 1]
    <3>5. /\ a + ((j + 1) - (i + 1)) <= b /\ o2[i] = a - s /\ o2[j] = b - s
          /\ a \in Int /\ b \in Int
      BY <3>2, <3>3
    <3> HIDE DEF a, b
    <3> QED
      BY <3>4, <3>5
  <2> QED
    BY <2>1, <2>2, <2>3, <2>4 DEF LaidAt
<1> QED
  BY <1>10, <1>11 DEF Laid, t, s

\* A frame is stored behind the last one.
LEMMA LaidMore ==
  ASSUME NEW q \in Seq(Frame), NEW e \in Cell, NEW w, NEW m \in [Cell -> Part],
         Laid(q, e, w, m), NEW f \in Frame, f.size <= (e - w - 1) % RxSize,
         NEW m2, \A c \in Cell \ {From(w, p - 1) : p \in 1..f.size} : m2[c] = m[c],
         \A p \in 1..f.size : m2[From(w, p - 1)] = Piece(f, p)
  PROVE  Laid(Append(q, f), e, From(w, f.size), m2)
<1>1. PICK off \in [1..(Len(q) + 1) -> 0..(RxSize - 1)] : LaidAt(off, q, e, w, m)
  BY DEF Laid
<1> DEFINE r == Append(q, f)
           n == Len(q)
           s == f.size
<1>2. RxSize \in Nat /\ RxSize > 2 /\ n \in Nat
  BY CardAssumption, LenProperties
<1>3. /\ r \in Seq(Frame) /\ Len(r) = n + 1
      /\ \A i \in 1..n : r[i] = q[i]
      /\ r[n + 1] = f
  BY AppendProperties
<1>4. \A i \in 1..n : q[i].size \in 1..2
  <2>1. \A i \in 1..n : q[i] \in Frame
    BY ElementOfSeq
  <2> QED
    BY <2>1 DEF Frame
<1>5. n + 1 \in 1..(n + 1) /\ \A i \in 1..(n + 1) : off[i] \in 0..(RxSize - 1)
  BY <1>2
<1>6. /\ off[1] = 0 /\ w = From(e, off[n + 1])
      /\ \A i \in 1..n : off[i + 1] = off[i] + q[i].size
      /\ \A i, j \in 1..(n + 1) : i <= j => off[i] + (j - i) <= off[j]
      /\ \A i \in 1..n : \A p \in 1..q[i].size :
           m[From(e, off[i] + p - 1)] = Piece(q[i], p)
  BY <1>1 DEF LaidAt
<1> DEFINE o == off[n + 1]
<1>7. o \in 0..(RxSize - 1) /\ s \in 1..2
  BY <1>5 DEF Frame
<1> HIDE DEF r, n
<1>8. o + s <= RxSize - 1
  <2>1. (e - w - 1) % RxSize = RxSize - 1 - o
    BY <1>6, <1>7, Room
  <2> QED
    BY <1>2, <1>7, <2>1
<1> HIDE DEF s, o
<1>9. ASSUME NEW p \in 1..s
      PROVE  From(w, p - 1) = From(e, o + (p - 1))
  <2>1. p - 1 \in Nat /\ o \in Nat /\ o + (p - 1) <= RxSize - 1
    BY <1>2, <1>7, <1>8
  <2>2. From(From(e, o), p - 1) = From(e, o + (p - 1))
    BY <2>1, FromFrom
  <2> QED
    BY <1>6, <2>2 DEF o
<1> DEFINE o2 == [i \in 1..(n + 2) |-> IF i = n + 2 THEN o + s ELSE off[i]]
<1>10. o2 \in [1..(Len(r) + 1) -> 0..(RxSize - 1)]
  <2>1. Len(r) + 1 = n + 2 /\ o + s \in 0..(RxSize - 1)
    BY <1>2, <1>3, <1>7, <1>8
  <2>2. \A i \in 1..(n + 2) : i # n + 2 => i \in 1..(n + 1)
    BY <1>2
  <2> QED
    BY <1>5, <2>1, <2>2
<1>11. o2[n + 2] = o + s /\ \A i \in 1..(n + 1) : o2[i] = off[i]
  BY <1>2
<1> HIDE DEF o2
<1>12. LaidAt(o2, r, e, From(w, s), m2)
  <2>1. o2[1] = 0
    BY <1>2, <1>6, <1>11
  <2>2. From(w, s) = From(e, o2[Len(r) + 1])
    <3>1. From(From(e, o), s) = From(e, o + s)
      BY <1>2, <1>7, <1>8, FromFrom
    <3>2. Len(r) + 1 = n + 2
      BY <1>2, <1>3
    <3> QED
      BY <1>6, <1>11, <3>1, <3>2 DEF o
  <2>3. ASSUME NEW i \in 1..Len(r)
        PROVE  /\ o2[i + 1] = o2[i] + r[i].size
               /\ \A p \in 1..r[i].size : m2[From(e, o2[i] + p - 1)] = Piece(r[i], p)
    <3>1. CASE i \in 1..n
      <4>1. /\ i \in 1..(n + 1) /\ i + 1 \in 1..(n + 1)
            /\ i + 1 <= n + 1
        BY <1>2, <3>1
      <4>2. /\ r[i] = q[i] /\ o2[i] = off[i] /\ o2[i + 1] = off[i + 1]
            /\ off[i + 1] = off[i] + q[i].size /\ off[i] \in 0..(RxSize - 1)
            /\ q[i].size \in 1..2
        BY <1>3, <1>4, <1>5, <1>6, <1>11, <3>1, <4>1
      <4>3. off[i + 1] <= o
        <5>1. off[i + 1] + ((n + 1) - (i + 1)) <= off[n + 1]
          BY <1>5, <1>6, <4>1
        <5>2. (n + 1) - (i + 1) \in Nat /\ off[i + 1] \in Int
          BY <1>2, <1>5, <4>1
        <5> QED
          BY <1>7, <5>1, <5>2 DEF o
      <4>4. ASSUME NEW p \in 1..q[i].size
            PROVE  m2[From(e, off[i] + p - 1)] = Piece(q[i], p)
        <5> DEFINE k == off[i] + p - 1
        <5>1. k \in 0..(RxSize - 1) /\ k < o
          <6>1. p \in 1..2 /\ p <= q[i].size /\ off[i] + q[i].size <= o
            BY <4>2, <4>3
          <6>2. off[i] \in Int /\ off[i] >= 0 /\ q[i].size \in Int
            BY <1>2, <4>2
          <6>3. o \in Int /\ o <= RxSize - 1 /\ RxSize \in Int
            BY <1>2, <1>7
          <6>4. k \in Nat /\ k < o
            BY <6>1, <6>2, <6>3, InFrame, SMTT(30)
          <6> HIDE DEF k
          <6> QED
            BY <6>3, <6>4
        <5> HIDE DEF k
        <5>2. From(e, k) \in Cell
          BY <5>1, FromIs
        <5>3. ASSUME NEW l \in 1..s
              PROVE  From(w, l - 1) # From(e, k)
          <6>1. o + (l - 1) \in 0..(RxSize - 1) /\ o + (l - 1) # k
            BY <1>2, <1>7, <1>8, <5>1
          <6> QED
            BY <1>9, <5>1, <6>1, FromOnce
        <5>4. m2[From(e, k)] = m[From(e, k)]
          BY <5>2, <5>3 DEF s
        <5> QED
          BY <1>6, <3>1, <5>4 DEF k
      <4> QED
        BY <4>2, <4>4
    <3>2. CASE i = n + 1
      <4>1. r[i] = f /\ o2[i] = o /\ o2[i + 1] = o + s
        <5>1. n + 1 \in 1..(n + 1) /\ (n + 1) + 1 = n + 2
          BY <1>2
        <5> QED
          BY <1>3, <1>11, <3>2, <5>1 DEF o
      <4>2. \A p \in 1..s : From(e, o + p - 1) = From(w, p - 1)
        <5>1. \A p \in 1..s : o + p - 1 = o + (p - 1)
          BY <1>7
        <5> QED
          BY <1>9, <5>1
      <4>3. \A p \in 1..s : m2[From(w, p - 1)] = Piece(f, p)
        BY DEF s
      <4>4. \A p \in 1..s : m2[From(e, o + p - 1)] = Piece(f, p)
        BY <4>2, <4>3
      <4> QED
        BY <4>1, <4>4 DEF s
    <3> QED
      BY <1>2, <1>3, <3>1, <3>2
  <2>4. ASSUME NEW i \in 1..(Len(r) + 1), NEW j \in 1..(Len(r) + 1), i <= j
        PROVE  o2[i] + (j - i) <= o2[j]
    <3>1. Len(r) + 1 = n + 2
      BY <1>2, <1>3
    <3>2. CASE j # n + 2
      <4>1. i \in 1..(n + 1) /\ j \in 1..(n + 1)
        BY <1>2, <2>4, <3>1, <3>2
      <4> QED
        BY <1>6, <1>11, <2>4, <4>1
    <3>3. CASE i = n + 2
      <4>1. j = n + 2
        BY <1>2, <2>4, <3>1, <3>3
      <4> QED
        BY <1>2, <1>7, <1>11, <3>3, <4>1
    <3>4. CASE i # n + 2 /\ j = n + 2
      <4>1. i \in 1..(n + 1) /\ i <= n + 1
        BY <1>2, <3>1, <3>4
      <4>2. off[i] + ((n + 1) - i) <= o /\ off[i] \in Int
        <5>1. off[i] + ((n + 1) - i) <= off[n + 1]
          BY <1>5, <1>6, <4>1
        <5>2. off[i] \in Int
          BY <1>5, <4>1
        <5> QED
          BY <5>1, <5>2 DEF o
      <4>3. o2[i] = off[i] /\ o2[j] = o + s /\ j = n + 2
        BY <1>11, <3>4, <4>1
      <4>4. i \in Int /\ n \in Int /\ o \in Int /\ s \in Int /\ s >= 1
        BY <1>2, <1>7, <4>1
      <4> QED
        BY <4>2, <4>3, <4>4
    <3> QED
      BY <3>2, <3>3, <3>4
  <2> QED
    BY <2>1, <2>2, <2>3, <2>4 DEF LaidAt
<1> QED
  BY <1>10, <1>12 DEF Laid, r, s

-----------------------------------------------------------------------------
(***************************************************************************)
(* Where the driver is in ENC28J60_Packet_Receive, and what it and the     *)
(* card then agree on.                                                     *)
(***************************************************************************)
\* What is left of it after each access.
AfterCount   == <<"ERDPT", "HEADER", "READ_BUF", "ERXRDPT", "PKTDEC">>
AfterPointer == <<"HEADER", "READ_BUF", "ERXRDPT", "PKTDEC">>
AfterHeader  == <<"READ_BUF", "ERXRDPT", "PKTDEC">>
AfterBuffer  == <<"ERXRDPT", "PKTDEC">>
AfterRelease == <<"PKTDEC">>

\* The accesses that move the receive pointers, or end the reset.
Special ==
  {"EPKTCNT", "ERDPT", "HEADER", "READ_BUF", "ERXRDPT", "PKTDEC", "ESTAT"} \cup Resets

\* The rest of the initialisation, a function that sends, or nothing.
Other(s) == s \in Seq(Access) /\ \A i \in 1..Len(s) : s[i] \notin Special

\* The frames q are in the card's memory, from its read to its write pointer.
Now(q) == Laid(q, erxrdpt, erxwrpt, mem)

\* The card's part of the invariant, which a restart leaves as it is: it counts
\* the frames it holds, and the first may be one whose memory is already released.
CardInv ==
  /\ TypeOK
  /\ epktcnt = Len(queue)
  /\ Now(queue) \/ (queue # <<>> /\ Now(Tail(queue)))
  /\ ~rxen => queue = <<>> /\ erxwrpt = 0 /\ erxrdpt = 0
  /\ resetting => ~rxen

\* The driver has read the first frame to its end.
ReadWhole ==
  /\ packet.size = Head(queue).size /\ packet.ok = Head(queue).ok
  /\ packet.ok => packet.data =
       [i \in 1..packet.size |->
         [id |-> Head(queue).id, size |-> packet.size, ok |-> TRUE, part |-> i]]

\* Before the driver has read a header: it points at the first frame.
Between ==
  /\ Now(queue) /\ NextPacketPtr = erxrdpt
  /\ \/ Other(todo) \/ todo = Packet_Receive
     \/ queue # <<>> /\ todo = AfterCount
     \/ queue # <<>> /\ todo = AfterPointer /\ erdpt = erxrdpt

\* From the header to the write of ERXRDPT: it points behind the first frame.
Within ==
  /\ queue # <<>> /\ Now(queue)
  /\ NextPacketPtr = From(erxrdpt, Head(queue).size)
  /\ \/ /\ todo = AfterHeader /\ erdpt = erxrdpt
        /\ packet = [size |-> Head(queue).size, ok |-> Head(queue).ok, data |-> <<>>]
     \/ todo = AfterBuffer /\ ReadWhole

\* The memory of the frame is released, its count is not.
Released ==
  /\ queue # <<>> /\ Now(Tail(queue)) /\ NextPacketPtr = erxrdpt
  /\ todo = AfterRelease /\ ReadWhole

\* In the initialisation after a restart, up to the reset of the card.
Starting ==
  /\ NextPacketPtr = 0
  /\ \/ todo = low_level_init
     \/ todo \in {Tail(low_level_init), Tail(Tail(low_level_init))} /\ ~rxen

\* The inductive invariant.
FrameInv ==
  /\ CardInv
  /\ resetting \/ Starting \/ Between \/ Within \/ Released

-----------------------------------------------------------------------------
\* What is left of such a function.
LEMMA OtherTail ==
  ASSUME NEW s, Other(s), s # <<>>
  PROVE  Other(Tail(s)) /\ Head(s) \notin Special
<1>1. s \in Seq(Access) /\ Len(s) \in Nat /\ Len(s) # 0 /\ Head(s) = s[1]
  BY LenProperties, EmptySeq DEF Other
<1>2. /\ Tail(s) \in Seq(Access) /\ Len(Tail(s)) = Len(s) - 1
      /\ \A i \in 1..Len(Tail(s)) : Tail(s)[i] = s[i + 1]
  BY <1>1, HeadTailProperties
<1>3. ASSUME NEW i \in 1..Len(Tail(s))
      PROVE  Tail(s)[i] \notin Special
  <2>1. i + 1 \in 1..Len(s) /\ Tail(s)[i] = s[i + 1]
    BY <1>1, <1>2
  <2> QED
    BY <2>1 DEF Other
<1> QED
  BY <1>1, <1>2, <1>3 DEF Other

\* The functions of which the driver may be doing such a rest.
LEMMA Others ==
  /\ Other(<<>>) /\ Other(Packet_Send) /\ Other(<<"CLR_TXRTS">>) /\ Other(PHY_Write)
<1>1. Other(PHY_Write)
  <2>1. PHY_Write \in Seq(Access) /\ Len(PHY_Write) = 2
    BY DEF PHY_Write, Access, InOneBank
  <2>2. \A i \in 1..2 : PHY_Write[i] \notin Special
    BY DEF PHY_Write, Special, Resets
  <2> QED
    BY <2>1, <2>2 DEF Other
<1>2. Other(Packet_Send)
  <2>1. Packet_Send \in Seq(Access) /\ Len(Packet_Send) = 4
    BY DEF Packet_Send, Access, InOneBank, Raw
  <2>2. \A i \in 1..4 : Packet_Send[i] \notin Special
    BY DEF Packet_Send, Special, Resets
  <2> QED
    BY <2>1, <2>2 DEF Other
<1>3. Other(<<>>) /\ Other(<<"CLR_TXRTS">>)
  <2>1. /\ <<>> \in Seq(Access) /\ Len(<<>>) = 0
        /\ <<"CLR_TXRTS">> \in Seq(Access) /\ Len(<<"CLR_TXRTS">>) = 1
    BY DEF Access, Raw
  <2>2. \A i \in 1..1 : <<"CLR_TXRTS">>[i] \notin Special
    BY DEF Special, Resets
  <2> QED
    BY <2>1, <2>2 DEF Other
<1> QED
  BY <1>1, <1>2, <1>3

\* Its third access, then only others.
Late(s) ==
  /\ s \in Seq(Access) /\ Len(s) >= 3 /\ s[3] = "ESTAT"
  /\ \A i \in 4..Len(s) : s[i] \notin Special

\* Others may follow.
LEMMA LateConcat ==
  ASSUME NEW s, NEW t, Late(s), Other(t)
  PROVE  Late(s \o t)
<1>1. s \in Seq(Access) /\ t \in Seq(Access) /\ Len(s) \in Nat /\ Len(t) \in Nat /\ Len(s) >= 3
  BY LenProperties DEF Other, Late
<1>2. /\ s \o t \in Seq(Access) /\ Len(s \o t) = Len(s) + Len(t)
      /\ \A i \in 1..(Len(s) + Len(t)) :
           (s \o t)[i] = IF i <= Len(s) THEN s[i] ELSE t[i - Len(s)]
  BY <1>1, ConcatProperties
<1>3. ASSUME NEW i \in 4..Len(s \o t)
      PROVE  (s \o t)[i] \notin Special
  <2>1. CASE i <= Len(s)
    <3>1. i \in 4..Len(s) /\ (s \o t)[i] = s[i]
      BY <1>1, <1>2, <2>1
    <3> QED
      BY <3>1 DEF Late
  <2>2. CASE i > Len(s)
    <3>1. i - Len(s) \in 1..Len(t) /\ (s \o t)[i] = t[i - Len(s)]
      BY <1>1, <1>2, <2>2
    <3> QED
      BY <3>1 DEF Other
  <2> QED
    BY <1>1, <1>2, <2>1, <2>2
<1>4. (s \o t)[3] = "ESTAT"
  <2>1. 3 \in 1..(Len(s) + Len(t)) /\ 3 <= Len(s)
    BY <1>1
  <2> QED
    BY <1>2, <2>1 DEF Late
<1>5. Len(s \o t) >= 3
  BY <1>1, <1>2
<1> QED
  BY <1>2, <1>3, <1>4, <1>5 DEF Late

\* After its resets the initialisation waits for the clock, then writes registers.
LEMMA Initialisation ==
  /\ Tail(Tail(low_level_init)) # <<>>
  /\ Head(Tail(Tail(low_level_init))) = "ESTAT"
  /\ Other(Tail(Tail(Tail(low_level_init))))
<1> DEFINE A == <<"Reset", "SOFT_RESET", "ESTAT", "ERXST", "ERXFCON", "MACON1",
                  "MACON3", "MAMXFL", "MAADR">>
           B == <<"ECON1", "EIE", "RXEN", "MAADR5">>
<1>1. Late(A)
  <2>1. A \in Seq(Access) /\ Len(A) = 9 /\ A[3] = "ESTAT"
    BY DEF Access, InOneBank, Raw
  <2>2. \A i \in 4..9 : A[i] \notin Special
    BY DEF Special, Resets
  <2> HIDE DEF A
  <2> QED
    BY <2>1, <2>2 DEF Late
<1>2. Other(B)
  <2>1. B \in Seq(Access) /\ Len(B) = 4
    BY DEF Access, InOneBank, Raw
  <2>2. \A i \in 1..4 : B[i] \notin Special
    BY DEF Special, Resets
  <2> HIDE DEF B
  <2> QED
    BY <2>1, <2>2 DEF Other
<1>3. low_level_init = (((A \o PHY_Write) \o PHY_Write) \o B) \o PHY_Write
  BY DEF low_level_init
<1> HIDE DEF A, B
<1>4. Late((((A \o PHY_Write) \o PHY_Write) \o B) \o PHY_Write)
  BY <1>1, <1>2, Others, LateConcat
<1> DEFINE s == low_level_init
           t == Tail(s)
           u == Tail(t)
<1>5. Late(s)
  BY <1>3, <1>4
<1>6. s \in Seq(Access) /\ s # <<>> /\ t # <<>>
  BY Heads, <1>5 DEF Late
<1> HIDE DEF s
<1>7. Len(s) \in Nat /\ Len(s) >= 3
  BY <1>5, <1>6, LenProperties DEF Late
<1>8. /\ t \in Seq(Access) /\ Len(t) = Len(s) - 1
      /\ \A i \in 1..Len(t) : t[i] = s[i + 1]
  BY <1>6, HeadTailProperties
<1> HIDE DEF t
<1>9. /\ u \in Seq(Access) /\ Len(u) = Len(t) - 1
      /\ \A i \in 1..Len(u) : u[i] = t[i + 1]
  BY <1>6, <1>8, HeadTailProperties
<1> HIDE DEF u
<1>10. Len(u) = Len(s) - 2 /\ \A i \in 1..(Len(s) - 2) : u[i] = s[i + 2]
  <2>1. Len(u) = Len(s) - 2 /\ Len(t) = Len(s) - 1
    BY <1>7, <1>8, <1>9
  <2>2. ASSUME NEW i \in 1..(Len(s) - 2)
        PROVE  u[i] = s[i + 2]
    <3>1. i \in 1..Len(u) /\ i + 1 \in 1..Len(t) /\ (i + 1) + 1 = i + 2
      BY <1>7, <2>1
    <3> QED
      BY <1>8, <1>9, <3>1
  <2> QED
    BY <2>1, <2>2
<1>11. u # <<>> /\ Head(u) = u[1]
  <2>1. Len(u) # 0
    BY <1>7, <1>10
  <2> QED
    BY <1>9, <2>1, EmptySeq
<1>12. u[1] = "ESTAT"
  <2>1. 1 \in 1..(Len(s) - 2) /\ 1 + 2 = 3
    BY <1>7
  <2> QED
    BY <1>5, <1>10, <2>1 DEF Late
<1>13. /\ Tail(u) \in Seq(Access) /\ Len(Tail(u)) = Len(u) - 1
       /\ \A i \in 1..Len(Tail(u)) : Tail(u)[i] = u[i + 1]
  BY <1>9, <1>11, HeadTailProperties
<1>14. ASSUME NEW i \in 1..Len(Tail(u))
       PROVE  Tail(u)[i] \notin Special
  <2>1. i + 1 \in 1..(Len(s) - 2) /\ (i + 1) + 2 \in 4..Len(s)
    BY <1>7, <1>10, <1>13
  <2>2. Tail(u)[i] = s[(i + 1) + 2]
    BY <1>10, <1>13, <2>1
  <2> QED
    BY <1>5, <2>1, <2>2 DEF Late
<1>15. Other(Tail(u))
  BY <1>13, <1>14 DEF Other
<1> QED
  BY <1>11, <1>12, <1>15 DEF s, t, u

\* ENC28J60_Packet_Receive, access by access.
LEMMA Receiving ==
  /\ Packet_Receive # <<>> /\ Head(Packet_Receive) = "EPKTCNT"
  /\ Tail(Packet_Receive) = AfterCount
  /\ AfterCount # <<>> /\ Head(AfterCount) = "ERDPT" /\ Tail(AfterCount) = AfterPointer
  /\ AfterPointer # <<>> /\ Head(AfterPointer) = "HEADER"
  /\ Tail(AfterPointer) = AfterHeader
  /\ AfterHeader # <<>> /\ Head(AfterHeader) = "READ_BUF"
  /\ Tail(AfterHeader) = AfterBuffer
  /\ AfterBuffer # <<>> /\ Head(AfterBuffer) = "ERXRDPT"
  /\ Tail(AfterBuffer) = AfterRelease
  /\ AfterRelease # <<>> /\ Head(AfterRelease) = "PKTDEC" /\ Tail(AfterRelease) = <<>>
BY DEF Packet_Receive, AfterCount, AfterPointer, AfterHeader, AfterBuffer, AfterRelease

-----------------------------------------------------------------------------
\* A pointer that wraps is a cell.
LEMMA CellMod ==
  ASSUME NEW x \in Int
  PROVE  x % RxSize \in Cell
<1>1. RxSize \in Nat /\ RxSize > 2
  BY CardAssumption
<1> QED
  BY <1>1 DEF Cell

\* The types of all but epktcnt, whose bound takes more.
LEMMA TypeStep ==
  ASSUME TypeOK, [Next]_vars, epktcnt' \in 0..RxSize
  PROVE  TypeOK'
<1>0. /\ RxSize \in Nat /\ RxSize > 2 /\ Frames \in Nat /\ Frames > 2
      /\ 0 \in Cell /\ Blank \in Part
      /\ NoPacket \in [size : 0..2, ok : BOOLEAN, data : Seq(Part)]
  <2>1. RxSize \in Nat /\ RxSize > 2 /\ Frames \in Nat /\ Frames > 2
    BY CardAssumption
  <2>2. 0 \in Id /\ <<>> \in Seq(Part)
    BY <2>1 DEF Id
  <2> QED
    BY <2>1, <2>2 DEF Cell, Blank, Part, NoPacket
<1>1. CASE ENC28J60_Set_Bank
  <2>1. Bank(Head(todo)) \in 0..3
    BY DEF Bank
  <2> QED
    BY <1>1, <2>1 DEF ENC28J60_Set_Bank, TypeOK, rxVars, txVars
<1>2. CASE InitReset \/ ENC28J60_Reset
  <2>1. mem' \in [Cell -> Part] /\ queue' \in Seq(Frame)
    BY <1>0, <1>2 DEF InitReset, ENC28J60_Reset, ResetCard
  <2>2. /\ bank' = 0 /\ rxen' = FALSE /\ erxwrpt' = 0 /\ erxrdpt' = 0 /\ erdpt' = 0
        /\ txbuf' = "whole" /\ txrts' = FALSE /\ txerif' = FALSE
        /\ UNCHANGED <<arrivals, ENC28J60BANK, NextPacketPtr, packet, switch>>
        /\ resetting' \in {resetting, TRUE}
    BY <1>2 DEF InitReset, ENC28J60_Reset, ResetCard, driverVars
  <2>3. /\ bank' \in 0..3 /\ ENC28J60BANK' \in 0..3
        /\ erxwrpt' \in Cell /\ erxrdpt' \in Cell /\ erdpt' \in Cell
        /\ NextPacketPtr' \in Cell /\ arrivals' \in Id
        /\ packet' \in [size : 0..2, ok : BOOLEAN, data : Seq(Part)]
    BY <1>0, <2>2 DEF TypeOK
  <2>4. /\ rxen' \in BOOLEAN /\ txbuf' \in {"whole", "mixed"}
        /\ txrts' \in BOOLEAN /\ txerif' \in BOOLEAN
        /\ switch' \in BOOLEAN /\ resetting' \in BOOLEAN
    BY <2>2 DEF TypeOK
  <2> QED
    BY <2>1, <2>3, <2>4 DEF TypeOK
<1>3. CASE InitClock \/ Configure \/ InitRxen
  BY <1>0, <1>3 DEF InitClock, Configure, InitRxen, Goes, TypeOK, rxVars, txVars
<1>4. CASE ReadCount
  BY <1>4 DEF ReadCount, Goes, TypeOK, rxVars, txVars
<1>5. CASE WriteReadPointer
  BY <1>5 DEF WriteReadPointer, Goes, TypeOK, rxVars, txVars
<1>6. CASE ReadHeader
  <2>1. PICK next \in Cell, size \in 1..2, ok \in BOOLEAN :
          /\ NextPacketPtr' = next
          /\ packet' = [size |-> size, ok |-> ok, data |-> <<>>]
    BY <1>6 DEF ReadHeader
  <2>2. packet' \in [size : 0..2, ok : BOOLEAN, data : Seq(Part)]
    <3>1. <<>> \in Seq(Part) /\ size \in 0..2
      OBVIOUS
    <3> QED
      BY <2>1, <3>1
  <2> QED
    BY <1>6, <2>1, <2>2 DEF ReadHeader, Goes, TypeOK, rxVars, txVars
<1>7. CASE ReadBuffer
  <2>1. packet' \in [size : 0..2, ok : BOOLEAN, data : Seq(Part)]
    <3> DEFINE d == [i \in 1..packet.size |->
                       IF resetting THEN Blank ELSE mem[(erdpt + i - 1) % RxSize]]
    <3>1. /\ packet \in [size : 0..2, ok : BOOLEAN, data : Seq(Part)]
          /\ mem \in [Cell -> Part] /\ erdpt \in Int
      BY <1>0 DEF TypeOK, Cell
    <3>2. packet.size \in Nat
      BY <3>1
    <3>3. \A i \in 1..packet.size : (erdpt + i - 1) % RxSize \in Cell
      BY <3>1, <3>2, CellMod
    <3>4. d \in [1..packet.size -> Part]
      BY <1>0, <3>1, <3>3
    <3> HIDE DEF d
    <3>5. d \in Seq(Part)
      BY <3>2, <3>4, SeqDef
    <3>6. packet' = packet \/ packet' = [packet EXCEPT !.data = d]
      BY <1>7 DEF ReadBuffer, d
    <3> QED
      BY <3>1, <3>5, <3>6
  <2> QED
    BY <1>7, <2>1 DEF ReadBuffer, Goes, TypeOK, rxVars, txVars
<1>8. CASE Release
  BY <1>8 DEF Release, Goes, TypeOK, txVars
<1>9. CASE Took
  <2>1. queue' \in Seq(Frame)
    <3>1. queue \in Seq(Frame) /\ Len(queue) \in Nat
      BY LenProperties DEF TypeOK
    <3>2. \A i \in 2..Len(queue) : queue[i] \in Frame
      BY <3>1, ElementOfSeq
    <3>3. SubSeq(queue, 2, Len(queue)) \in Seq(Frame)
      BY <3>1, <3>2, SubSeqProperties
    <3> QED
      BY <1>9, <3>1, <3>3 DEF Took
  <2>2. switch' \in BOOLEAN
    BY <1>9 DEF Took, TypeOK
  <2> QED
    BY <1>0, <1>9, <2>1, <2>2 DEF Took, TypeOK, txVars
<1>10. CASE Send
  BY <1>10 DEF Send, WritePointers, WriteBuffer, Transmit, ReadErrors, CutTransmission,
               Goes, TypeOK, rxVars, txVars
<1>11. CASE StartReceive \/ StartSend
  BY <1>11 DEF StartReceive, StartSend, TypeOK, rxVars, txVars
<1>12. CASE Arrive
  <2>1. PICK size \in 1..2, ok \in BOOLEAN :
          /\ mem' = [c \in Cell |->
               IF \E i \in 1..size : c = (erxwrpt + i - 1) % RxSize
               THEN [id |-> arrivals, size |-> size, ok |-> ok,
                     part |-> CHOOSE i \in 1..size : c = (erxwrpt + i - 1) % RxSize]
               ELSE mem[c]]
          /\ erxwrpt' = (erxwrpt + (size + 1) - 1) % RxSize
          /\ queue' = Append(queue, [id |-> arrivals, size |-> size, ok |-> ok])
    BY <1>12 DEF Arrive
  <2>2. [id |-> arrivals, size |-> size, ok |-> ok] \in Frame
    BY DEF TypeOK, Frame
  <2>3. queue' \in Seq(Frame)
    BY <2>1, <2>2, AppendProperties DEF TypeOK
  <2>4. erxwrpt' \in Cell
    <3>1. erxwrpt + (size + 1) - 1 \in Int
      BY <1>0 DEF TypeOK, Cell
    <3> QED
      BY <2>1, <3>1, CellMod
  <2>5. mem' \in [Cell -> Part]
    <3>1. ASSUME NEW c \in Cell, \E i \in 1..size : c = (erxwrpt + i - 1) % RxSize
          PROVE  (CHOOSE i \in 1..size : c = (erxwrpt + i - 1) % RxSize) \in 0..2
      BY <3>1
    <3>2. ASSUME NEW c \in Cell
          PROVE  mem'[c] \in Part
      <4>1. CASE \E i \in 1..size : c = (erxwrpt + i - 1) % RxSize
        BY <2>1, <3>1, <4>1 DEF TypeOK, Part
      <4>2. CASE ~\E i \in 1..size : c = (erxwrpt + i - 1) % RxSize
        BY <2>1, <4>2 DEF TypeOK
      <4> QED
        BY <4>1, <4>2
    <3> QED
      BY <2>1, <3>2
  <2>6. arrivals' \in Id
    <3>1. arrivals + 1 \in Nat /\ arrivals' = (arrivals + 1) % Frames
      BY <1>12 DEF TypeOK, Id, Arrive
    <3> QED
      BY <1>0, <3>1 DEF Id
  <2> QED
    BY <1>12, <2>3, <2>4, <2>5, <2>6 DEF Arrive, TypeOK, txVars, driverVars
<1>13. CASE Transmitted
  BY <1>13 DEF Transmitted, TypeOK, rxVars, driverVars
<1>14. CASE NVIC_SystemReset \/ Restart
  <2>1. /\ ENC28J60BANK' = 0 /\ NextPacketPtr' = 0 /\ packet' = NoPacket
        /\ switch' = FALSE /\ resetting' = FALSE
        /\ UNCHANGED <<bank, rxVars, erdpt, txVars>>
    BY <1>14 DEF NVIC_SystemReset, Restart
  <2>2. /\ ENC28J60BANK' \in 0..3 /\ NextPacketPtr' \in Cell
        /\ packet' \in [size : 0..2, ok : BOOLEAN, data : Seq(Part)]
    BY <1>0, <2>1
  <2>3. switch' \in BOOLEAN /\ resetting' \in BOOLEAN
    BY <2>1
  <2> QED
    BY <2>1, <2>2, <2>3 DEF TypeOK, rxVars, txVars
<1>15. CASE UNCHANGED vars
  BY <1>15 DEF vars, rxVars, txVars, driverVars, TypeOK
<1> QED
  BY <1>1, <1>2, <1>3, <1>4, <1>5, <1>6, <1>7, <1>8, <1>9, <1>10, <1>11, <1>12,
     <1>13, <1>14, <1>15 DEF Next, DriverStep, Receive

-----------------------------------------------------------------------------
\* The frames, or all but a first one whose memory is released.
Lies(q, e, w, m) == Laid(q, e, w, m) \/ (q # <<>> /\ Laid(Tail(q), e, w, m))

\* The card never counts more frames than its memory has cells.
LEMMA LiesFew ==
  ASSUME NEW q \in Seq(Frame), NEW e \in Cell, NEW w, NEW m, Lies(q, e, w, m)
  PROVE  Len(q) \in 0..RxSize
<1>1. Len(q) \in Nat /\ RxSize \in Nat
  BY LenProperties, CardAssumption
<1>2. CASE Laid(q, e, w, m)
  BY <1>1, <1>2, LaidFirst
<1>3. CASE q # <<>> /\ Laid(Tail(q), e, w, m)
  <2>1. Tail(q) \in Seq(Frame) /\ Len(Tail(q)) = Len(q) - 1
    BY <1>3, HeadTailProperties
  <2>2. Len(Tail(q)) < RxSize
    BY <1>3, <2>1, LaidFirst
  <2> QED
    BY <1>1, <2>1, <2>2
<1> QED
  BY <1>2, <1>3 DEF Lies

\* A step keeps the card's part when it leaves the frames in the memory.
LEMMA CardNext ==
  ASSUME CardInv, [Next]_vars,
         epktcnt' = Len(queue'),
         queue' \in Seq(Frame), erxrdpt' \in Cell,
         Now(queue)' \/ (queue' # <<>> /\ Now(Tail(queue))'),
         ~rxen' => queue' = <<>> /\ erxwrpt' = 0 /\ erxrdpt' = 0,
         resetting' => ~rxen'
  PROVE  CardInv'
<1>1. Lies(queue', erxrdpt', erxwrpt', mem')
  BY DEF Now, Lies
<1>2. epktcnt' \in 0..RxSize
  BY <1>1, LiesFew
<1>3. TypeOK'
  BY <1>2, TypeStep DEF CardInv
<1> QED
  BY <1>3 DEF CardInv

\* The card's part does not change, but for todo.
LEMMA CardSame ==
  ASSUME CardInv, [Next]_vars,
         UNCHANGED <<rxen, mem, erxwrpt, erxrdpt, epktcnt, queue>>,
         resetting' => resetting
  PROVE  CardInv' /\ Now(queue)' = Now(queue) /\ Now(Tail(queue))' = Now(Tail(queue))
<1>1. Now(queue)' = Now(queue) /\ Now(Tail(queue))' = Now(Tail(queue))
  BY DEF Now
<1>2. queue' \in Seq(Frame) /\ erxrdpt' \in Cell
  BY DEF CardInv, TypeOK
<1>3. /\ epktcnt' = Len(queue')
      /\ Now(queue)' \/ (queue' # <<>> /\ Now(Tail(queue))')
      /\ ~rxen' => queue' = <<>> /\ erxwrpt' = 0 /\ erxrdpt' = 0
      /\ resetting' => ~rxen'
  BY <1>1 DEF CardInv
<1> QED
  BY <1>1, <1>2, <1>3, CardNext

\* The card is reset.
LEMMA CardReset ==
  ASSUME CardInv, [Next]_vars, ResetCard
  PROVE  CardInv' /\ Now(queue)' /\ queue' = <<>> /\ erxrdpt' = 0 /\ ~rxen'
<1>1. /\ queue' = <<>> /\ epktcnt' = 0 /\ erxwrpt' = 0 /\ erxrdpt' = 0 /\ ~rxen'
      /\ 0 \in Cell /\ <<>> \in Seq(Frame) /\ Len(<<>>) = 0
  BY CardAssumption DEF ResetCard, Cell
<1>2. Laid(<<>>, 0, 0, mem')
  BY <1>1, LaidNothing
<1>3. Now(queue)'
  BY <1>1, <1>2 DEF Now
<1> QED
  BY <1>1, <1>3, CardNext

\* Where the driver is, by the access it is about to make.
LEMMA Where ==
  ASSUME FrameInv, ~resetting, todo # <<>>
  PROVE  /\ Head(todo) = "Reset" => Starting /\ todo = low_level_init
         /\ Head(todo) = "SOFT_RESET" => Starting /\ todo = Tail(low_level_init)
         /\ Head(todo) = "ESTAT" => Starting /\ todo = Tail(Tail(low_level_init))
         /\ Head(todo) = "EPKTCNT" => Between /\ todo = Packet_Receive
         /\ Head(todo) = "ERDPT" => Between /\ queue # <<>> /\ todo = AfterCount
         /\ Head(todo) = "HEADER" => Between /\ queue # <<>> /\ todo = AfterPointer
                                       /\ erdpt = erxrdpt
         /\ Head(todo) = "READ_BUF" => Within /\ todo = AfterHeader
         /\ Head(todo) = "ERXRDPT" => Within /\ todo = AfterBuffer
         /\ Head(todo) = "PKTDEC" => Released
         /\ Head(todo) \notin Special => Between /\ Other(todo)
<1>1. CASE Starting
  <2>1. Head(todo) \in Resets \cup {"ESTAT"}
    BY <1>1, Heads, Initialisation DEF Starting, Resets
  <2>2. todo = low_level_init \/ todo = Tail(low_level_init)
          \/ todo = Tail(Tail(low_level_init))
    BY <1>1 DEF Starting
  <2> QED
    BY <1>1, <2>1, <2>2, Heads, Initialisation DEF Resets, Special
<1>2. CASE Between
  <2>1. CASE Other(todo)
    BY <1>2, <2>1, OtherTail DEF Special, Resets
  <2>2. CASE todo = Packet_Receive
    BY <1>2, <2>2, Receiving DEF Special
  <2>3. CASE queue # <<>> /\ todo = AfterCount
    BY <1>2, <2>3, Receiving DEF Special
  <2>4. CASE queue # <<>> /\ todo = AfterPointer /\ erdpt = erxrdpt
    BY <1>2, <2>4, Receiving DEF Special
  <2> QED
    BY <1>2, <2>1, <2>2, <2>3, <2>4 DEF Between
<1>3. CASE Within
  <2>1. CASE todo = AfterHeader
    BY <1>3, <2>1, Receiving DEF Special
  <2>2. CASE todo = AfterBuffer
    BY <1>3, <2>2, Receiving DEF Special
  <2> QED
    BY <1>3, <2>1, <2>2 DEF Within
<1>4. CASE Released
  BY <1>4, Receiving DEF Released, Special
<1> QED
  BY <1>1, <1>2, <1>3, <1>4 DEF FrameInv

\* A frame arrives: it is the last one, and those before it are where they were.
LEMMA ArriveStep ==
  ASSUME FrameInv, Arrive
  PROVE  /\ CardInv'
         /\ queue' # <<>> /\ (queue # <<>> => Head(queue') = Head(queue))
         /\ Now(queue) => Now(queue)'
         /\ queue # <<>> /\ Now(Tail(queue)) => Now(Tail(queue))'
<1>1. PICK size \in 1..2, ok \in BOOLEAN :
        /\ size <= (erxrdpt - erxwrpt - 1) % RxSize
        /\ mem' = [c \in Cell |->
             IF \E i \in 1..size : c = (erxwrpt + i - 1) % RxSize
             THEN [id |-> arrivals, size |-> size, ok |-> ok,
                   part |-> CHOOSE i \in 1..size : c = (erxwrpt + i - 1) % RxSize]
             ELSE mem[c]]
        /\ erxwrpt' = (erxwrpt + (size + 1) - 1) % RxSize
        /\ queue' = Append(queue, [id |-> arrivals, size |-> size, ok |-> ok])
  BY DEF Arrive
<1> DEFINE f == [id |-> arrivals, size |-> size, ok |-> ok]
<1>2. /\ RxSize \in Nat /\ RxSize > 2
      /\ TypeOK /\ queue \in Seq(Frame) /\ erxrdpt \in Cell /\ erxwrpt \in Cell
      /\ erxwrpt \in 0..(RxSize - 1) /\ mem \in [Cell -> Part] /\ f \in Frame
  BY CardAssumption DEF FrameInv, CardInv, TypeOK, Cell, Frame
<1>3. /\ f.size = size /\ f.id = arrivals /\ f.ok = ok
      /\ queue' = Append(queue, f)
  BY <1>1
<1> HIDE DEF f
<1>4. ASSUME NEW i \in 1..size
      PROVE  (erxwrpt + i - 1) % RxSize = From(erxwrpt, i - 1)
  <2>1. erxwrpt + i - 1 = erxwrpt + (i - 1)
    BY <1>2
  <2> QED
    BY <2>1 DEF From
<1>5. erxwrpt' = From(erxwrpt, size)
  <2>1. erxwrpt + (size + 1) - 1 = erxwrpt + size
    BY <1>2
  <2> QED
    BY <1>1, <2>1 DEF From
<1>6. \A c \in Cell \ {From(erxwrpt, p - 1) : p \in 1..size} : mem'[c] = mem[c]
  <2>1. ASSUME NEW c \in Cell \ {From(erxwrpt, p - 1) : p \in 1..size}
        PROVE  mem'[c] = mem[c]
    <3>1. ~\E i \in 1..size : c = (erxwrpt + i - 1) % RxSize
      BY <1>4
    <3> QED
      BY <1>1, <3>1
  <2> QED
    BY <2>1
<1>7. ASSUME NEW p \in 1..size
      PROVE  mem'[From(erxwrpt, p - 1)] = Piece(f, p)
  <2> DEFINE c == From(erxwrpt, p - 1)
  <2>1. p - 1 \in 0..(RxSize - 1)
    BY <1>2
  <2>2. c \in Cell
    BY <1>2, <2>1, FromIs
  <2>3. c = (erxwrpt + p - 1) % RxSize
    BY <1>4
  <2>4. ASSUME NEW i \in 1..size, c = (erxwrpt + i - 1) % RxSize
        PROVE  i = p
    <3>1. c = From(erxwrpt, i - 1) /\ i - 1 \in 0..(RxSize - 1)
      <4>1. c = From(erxwrpt, i - 1)
        BY <1>4, <2>4
      <4>2. i - 1 \in 0..(RxSize - 1)
        BY <1>2
      <4> QED
        BY <4>1, <4>2
    <3>2. i - 1 = p - 1
      BY <1>2, <2>1, <3>1, FromOnce
    <3> QED
      BY <3>2
  <2> HIDE DEF c
  <2>5. p = CHOOSE i \in 1..size : c = (erxwrpt + i - 1) % RxSize
    BY <2>3, <2>4
  <2>6. mem'[c] = [id |-> arrivals, size |-> size, ok |-> ok, part |-> p]
    BY <1>1, <2>2, <2>3, <2>5
  <2> QED
    BY <1>3, <2>6 DEF Piece, c
<1>8. ASSUME NEW q \in Seq(Frame), Laid(q, erxrdpt, erxwrpt, mem)
      PROVE  Laid(Append(q, f), erxrdpt, erxwrpt', mem')
  <2>1. f.size <= (erxrdpt - erxwrpt - 1) % RxSize
    BY <1>1, <1>3
  <2>2. /\ \A c \in Cell \ {From(erxwrpt, p - 1) : p \in 1..f.size} : mem'[c] = mem[c]
        /\ \A p \in 1..f.size : mem'[From(erxwrpt, p - 1)] = Piece(f, p)
    BY <1>3, <1>6, <1>7
  <2>3. Laid(Append(q, f), erxrdpt, From(erxwrpt, f.size), mem')
    BY <1>2, <1>8, <2>1, <2>2, LaidMore
  <2> QED
    BY <1>3, <1>5, <2>3
<1>9. erxrdpt' = erxrdpt /\ epktcnt' = epktcnt + 1 /\ rxen' /\ rxen /\ UNCHANGED resetting
  BY DEF Arrive
<1>10. /\ queue' \in Seq(Frame) /\ queue' # <<>> /\ Len(queue') = Len(queue) + 1
       /\ queue # <<>> => /\ Head(queue') = Head(queue)
                          /\ Tail(queue') = Append(Tail(queue), f)
                          /\ Tail(queue) \in Seq(Frame)
  BY <1>2, <1>3, AppendProperties, HeadTailAppend, HeadTailProperties
<1>11. Now(queue) => Now(queue)'
  BY <1>2, <1>3, <1>8, <1>9 DEF Now
<1>12. queue # <<>> /\ Now(Tail(queue)) => Now(Tail(queue))'
  BY <1>8, <1>9, <1>10 DEF Now
<1>13. CardInv'
  <2>1. epktcnt' = Len(queue')
    BY <1>9, <1>10 DEF FrameInv, CardInv
  <2>2. Now(queue)' \/ (queue' # <<>> /\ Now(Tail(queue))')
    BY <1>10, <1>11, <1>12 DEF FrameInv, CardInv
  <2>3. resetting' => ~rxen'
    BY <1>9 DEF FrameInv, CardInv
  <2>4. CardInv /\ [Next]_vars /\ erxrdpt' \in Cell
    BY <1>2, <1>9 DEF FrameInv, Next
  <2> QED
    BY <1>9, <1>10, <2>1, <2>2, <2>3, <2>4, CardNext
<1> QED
  BY <1>10, <1>11, <1>12, <1>13

-----------------------------------------------------------------------------
\* It holds at the start.
LEMMA FrameInit == Init => FrameInv
<1> SUFFICES ASSUME Init
             PROVE  FrameInv
  OBVIOUS
<1>1. 0 \in Cell /\ 0 \in Id /\ 0 \in 0..RxSize /\ <<>> \in Seq(Frame) /\ Len(<<>>) = 0
  BY CardAssumption DEF Cell, Id
<1>2. Blank \in Part /\ NoPacket \in [size : 0..2, ok : BOOLEAN, data : Seq(Part)]
  <2>1. <<>> \in Seq(Part)
    OBVIOUS
  <2> QED
    BY <1>1, <2>1 DEF Blank, Part, NoPacket
<1>3. TypeOK
  BY <1>1, <1>2 DEF Init, TypeOK
<1>4. Laid(<<>>, 0, 0, mem)
  BY <1>1, LaidNothing
<1>5. CardInv
  BY <1>1, <1>3, <1>4 DEF Init, CardInv, Now
<1>6. Starting
  BY DEF Init, Starting
<1> QED
  BY <1>5, <1>6 DEF FrameInv

\* Nothing of what FrameInv is about changes.
LEMMA AllSame ==
  ASSUME FrameInv, [Next]_vars,
         UNCHANGED <<rxVars, erdpt, NextPacketPtr, packet, todo, resetting>>
  PROVE  FrameInv'
<1>1. UNCHANGED <<rxen, mem, erxwrpt, erxrdpt, epktcnt, queue>>
  BY DEF rxVars
<1>2. CardInv' /\ Now(queue)' = Now(queue) /\ Now(Tail(queue))' = Now(Tail(queue))
  BY <1>1, CardSame DEF FrameInv
<1>3. Starting => Starting'
  BY <1>1 DEF Starting
<1>4. Between => Between'
  BY <1>1, <1>2 DEF Between
<1>5. Within => Within'
  BY <1>1, <1>2 DEF Within, ReadWhole
<1>6. Released => Released'
  BY <1>1, <1>2 DEF Released, ReadWhole
<1> QED
  BY <1>2, <1>3, <1>4, <1>5, <1>6 DEF FrameInv

\* While data_task holds the card in reset.
LEMMA HeldInReset ==
  ASSUME FrameInv, [Next]_vars, resetting, resetting',
         UNCHANGED <<rxen, mem, erxwrpt, erxrdpt, epktcnt, queue>>
  PROVE  FrameInv'
BY CardSame DEF FrameInv

\* The driver goes on outside ENC28J60_Packet_Receive.
LEMMA OthersGoOn ==
  ASSUME FrameInv, [Next]_vars, Between, Other(todo'), UNCHANGED resetting,
         UNCHANGED <<rxen, mem, erxwrpt, erxrdpt, epktcnt, queue, NextPacketPtr>>
  PROVE  FrameInv'
<1>1. CardInv' /\ Now(queue)' = Now(queue)
  BY CardSame DEF FrameInv
<1>2. Between'
  BY <1>1 DEF Between
<1> QED
  BY <1>1, <1>2 DEF FrameInv

\* Accesses to registers that are not about frames.
LEMMA OtherStep ==
  ASSUME FrameInv, [Next]_vars, todo # <<>>, Head(todo) \notin Special,
         todo' = Tail(todo) \/ todo' = <<>> \/ todo' = <<"CLR_TXRTS">>,
         UNCHANGED <<rxVars, NextPacketPtr, resetting>>
  PROVE  FrameInv'
<1>1. UNCHANGED <<rxen, mem, erxwrpt, erxrdpt, epktcnt, queue>>
  BY DEF rxVars
<1>2. CASE resetting
  BY <1>1, <1>2, HeldInReset
<1>3. CASE ~resetting
  <2>1. Between /\ Other(todo)
    BY <1>3, Where
  <2>2. Other(todo')
    BY <2>1, OtherTail, Others
  <2> QED
    BY <1>1, <2>1, <2>2, OthersGoOn
<1> QED
  BY <1>2, <1>3

\* The steps of the initialisation.
LEMMA InitSteps ==
  ASSUME FrameInv, [Next]_vars, InitReset \/ InitClock \/ InitRxen
  PROVE  FrameInv'
<1>1. CASE InitReset
  <2>1. /\ todo # <<>> /\ Head(todo) \in Resets /\ ResetCard
        /\ todo' = Tail(todo) /\ UNCHANGED <<NextPacketPtr, resetting>>
    BY <1>1 DEF InitReset, At, Resets
  <2>2. CardInv' /\ ~rxen'
    BY <2>1, CardReset DEF FrameInv
  <2>3. CASE resetting
    BY <2>1, <2>2, <2>3 DEF FrameInv
  <2>4. CASE ~resetting
    <3>1. Starting /\ todo \in {low_level_init, Tail(low_level_init)}
      BY <2>1, <2>4, Where DEF Resets
    <3>2. Starting'
      BY <2>1, <2>2, <3>1 DEF Starting
    <3> QED
      BY <2>2, <3>2 DEF FrameInv
  <2> QED
    BY <2>3, <2>4
<1>2. CASE InitClock
  <2>1. /\ todo # <<>> /\ Head(todo) = "ESTAT"
        /\ \/ NextPacketPtr' = 0 /\ todo' = Tail(todo)
           \/ NextPacketPtr' = NextPacketPtr /\ todo' = PHY_Write
        /\ UNCHANGED <<rxen, mem, erxwrpt, erxrdpt, epktcnt, queue, resetting>>
    BY <1>2 DEF InitClock, At, Goes, rxVars
  <2>2. CASE resetting
    BY <2>1, <2>2, HeldInReset
  <2>3. CASE ~resetting
    <3>1. Starting /\ todo = Tail(Tail(low_level_init))
      BY <2>1, <2>3, Where
    <3>2. ~rxen /\ NextPacketPtr = 0
      BY <2>1, <3>1, Heads DEF Starting
    <3>3. queue = <<>> /\ erxrdpt = 0 /\ Now(queue)
      BY <3>2 DEF FrameInv, CardInv
    <3>4. CardInv' /\ Now(queue)'
      BY <2>1, <3>3, CardSame DEF FrameInv
    <3>5. Other(todo')
      BY <2>1, <3>1, Initialisation, Others
    <3>6. Between'
      BY <2>1, <3>2, <3>3, <3>4, <3>5 DEF Between
    <3> QED
      BY <3>4, <3>6 DEF FrameInv
  <2> QED
    BY <2>2, <2>3
<1>3. CASE InitRxen
  <2>1. /\ todo # <<>> /\ Head(todo) = "RXEN" /\ todo' = Tail(todo)
        /\ rxen' = ~resetting
        /\ UNCHANGED <<mem, erxwrpt, erxrdpt, epktcnt, queue, NextPacketPtr, resetting>>
    BY <1>3 DEF InitRxen, At, Goes
  <2>2. CASE resetting
    <3>1. rxen' = FALSE /\ ~rxen
      BY <2>1, <2>2 DEF FrameInv, CardInv
    <3>2. rxen' = rxen
      BY <3>1 DEF FrameInv, CardInv, TypeOK
    <3> QED
      BY <2>1, <2>2, <3>2, HeldInReset
  <2>3. CASE ~resetting
    <3>1. Between /\ Other(todo) /\ Now(queue)
      BY <2>1, <2>3, Where DEF Special, Resets, Between
    <3>2. Now(queue)'
      BY <2>1, <3>1 DEF Now
    <3>3. rxen' /\ ~resetting'
      BY <2>1, <2>3
    <3>4. CardInv'
      <4>1. CardInv /\ epktcnt' = Len(queue') /\ queue' \in Seq(Frame) /\ erxrdpt' \in Cell
        BY <2>1 DEF FrameInv, CardInv, TypeOK
      <4> QED
        BY <3>2, <3>3, <4>1, CardNext
    <3>5. Other(todo')
      BY <2>1, <3>1, OtherTail
    <3>6. Between'
      BY <2>1, <3>1, <3>2, <3>5 DEF Between
    <3> QED
      BY <3>4, <3>6 DEF FrameInv
  <2> QED
    BY <2>2, <2>3
<1> QED
  BY <1>1, <1>2, <1>3

\* The first steps of ENC28J60_Packet_Receive.
LEMMA FindFrame ==
  ASSUME FrameInv, [Next]_vars, ReadCount \/ WriteReadPointer
  PROVE  FrameInv'
<1>1. /\ todo # <<>>
      /\ UNCHANGED <<rxen, mem, erxwrpt, erxrdpt, epktcnt, queue, NextPacketPtr, resetting>>
  BY DEF ReadCount, WriteReadPointer, At, Goes, rxVars
<1>2. CASE resetting
  BY <1>1, <1>2, HeldInReset
<1>3. CASE ~resetting /\ ReadCount
  <2>1. Head(todo) = "EPKTCNT" /\ todo' = IF epktcnt = 0 THEN <<>> ELSE Tail(todo)
    BY <1>3 DEF ReadCount, At, Goes
  <2>2. Between /\ todo = Packet_Receive
    BY <1>1, <1>3, <2>1, Where
  <2>3. CASE epktcnt = 0
    BY <1>1, <2>1, <2>2, <2>3, Others, OthersGoOn
  <2>4. CASE epktcnt # 0
    <3>1. queue # <<>> /\ todo' = AfterCount
      BY <2>1, <2>2, <2>4, Receiving, EmptySeq DEF FrameInv, CardInv, TypeOK
    <3>2. CardInv' /\ Now(queue)' = Now(queue)
      BY <1>1, CardSame DEF FrameInv
    <3>3. Between'
      BY <1>1, <2>2, <3>1, <3>2 DEF Between
    <3> QED
      BY <3>2, <3>3 DEF FrameInv
  <2> QED
    BY <2>3, <2>4
<1>4. CASE ~resetting /\ WriteReadPointer
  <2>1. Head(todo) = "ERDPT" /\ todo' = Tail(todo) /\ erdpt' = NextPacketPtr
    BY <1>4 DEF WriteReadPointer, At, Goes
  <2>2. Between /\ queue # <<>> /\ todo' = AfterPointer
    BY <1>1, <1>4, <2>1, Where, Receiving
  <2>3. CardInv' /\ Now(queue)' = Now(queue)
    BY <1>1, CardSame DEF FrameInv
  <2>4. Between'
    BY <1>1, <2>1, <2>2, <2>3 DEF Between
  <2> QED
    BY <2>3, <2>4 DEF FrameInv
<1> QED
  BY <1>2, <1>3, <1>4

\* Its header and its parts are read where it lies.
LEMMA ReadFrame ==
  ASSUME FrameInv, [Next]_vars, ReadHeader \/ ReadBuffer
  PROVE  FrameInv'
<1>1. /\ todo # <<>> /\ todo' = Tail(todo)
      /\ UNCHANGED <<rxen, mem, erxwrpt, erxrdpt, epktcnt, queue, erdpt, resetting>>
  BY DEF ReadHeader, ReadBuffer, At, Goes, rxVars
<1>2. CASE resetting
  BY <1>1, <1>2, HeldInReset
<1>3. CardInv' /\ Now(queue)' = Now(queue)
  BY <1>1, CardSame DEF FrameInv
<1>4. ASSUME Now(queue), queue # <<>>
      PROVE  /\ Head(queue) = queue[1] /\ queue[1] \in Frame
             /\ \A p \in 1..queue[1].size : mem[From(erxrdpt, p - 1)] = Piece(queue[1], p)
             /\ erxrdpt \in Cell
  <2>1. queue \in Seq(Frame) /\ erxrdpt \in Cell
    BY DEF FrameInv, CardInv, TypeOK
  <2> QED
    BY <1>4, <2>1, LaidFirst DEF Now
<1>5. CASE ~resetting /\ ReadHeader
  <2>1. PICK next \in Cell, size \in 1..2, ok \in BOOLEAN :
          /\ Head(todo) = "HEADER"
          /\ next = (erdpt + mem[erdpt].size) % RxSize
          /\ size = mem[erdpt].size /\ ok = mem[erdpt].ok
          /\ NextPacketPtr' = next
          /\ packet' = [size |-> size, ok |-> ok, data |-> <<>>]
    BY <1>5 DEF ReadHeader, At
  <2>2. Between /\ queue # <<>> /\ todo = AfterPointer /\ erdpt = erxrdpt
    BY <1>1, <1>5, <2>1, Where
  <2>3. Now(queue)
    BY <2>2 DEF Between
  <2>4. mem[erxrdpt] = Piece(queue[1], 1)
    <3>1. 1 \in 1..queue[1].size
      BY <1>4, <2>2, <2>3 DEF Frame
    <3>2. From(erxrdpt, 0) = erxrdpt
      BY <1>4, <2>2, <2>3, FromIs, CardAssumption DEF Cell
    <3>3. mem[From(erxrdpt, 1 - 1)] = Piece(queue[1], 1)
      BY <1>4, <2>2, <2>3, <3>1
    <3> QED
      BY <3>2, <3>3
  <2>5. size = Head(queue).size /\ ok = Head(queue).ok
    BY <1>4, <2>1, <2>2, <2>3, <2>4 DEF Piece
  <2>6. NextPacketPtr' = From(erxrdpt, Head(queue).size)
    BY <2>1, <2>2, <2>5 DEF From
  <2>7. todo' = AfterHeader
    BY <1>1, <2>2, Receiving
  <2>8. Within'
    BY <1>1, <1>3, <2>1, <2>2, <2>3, <2>5, <2>6, <2>7 DEF Within
  <2> QED
    BY <1>3, <2>8 DEF FrameInv
<1>6. CASE ~resetting /\ ReadBuffer
  <2>1. /\ Head(todo) = "READ_BUF" /\ UNCHANGED NextPacketPtr
        /\ packet' = IF ~packet.ok THEN packet
                     ELSE [packet EXCEPT !.data =
                            [i \in 1..packet.size |-> mem[(erdpt + i - 1) % RxSize]]]
    BY <1>6 DEF ReadBuffer, At
  <2>2. Within /\ todo = AfterHeader
    BY <1>1, <1>6, <2>1, Where
  <2>3. /\ queue # <<>> /\ Now(queue) /\ NextPacketPtr = From(erxrdpt, Head(queue).size)
        /\ erdpt = erxrdpt
        /\ packet = [size |-> Head(queue).size, ok |-> Head(queue).ok, data |-> <<>>]
    BY <2>2, Receiving DEF Within
  <2>4. ASSUME packet.ok
        PROVE  [i \in 1..packet.size |-> mem[(erdpt + i - 1) % RxSize]] =
                 [i \in 1..packet.size |->
                   [id |-> Head(queue).id, size |-> packet.size, ok |-> TRUE, part |-> i]]
    <3>1. packet.size = queue[1].size /\ packet.ok = queue[1].ok /\ Head(queue) = queue[1]
      BY <1>4, <2>3
    <3>2. queue[1].ok = TRUE /\ queue[1].size \in 1..2 /\ erxrdpt \in Int
      BY <1>4, <2>3, <2>4, <3>1 DEF Frame, Cell
    <3>3. ASSUME NEW i \in 1..packet.size
          PROVE  mem[(erdpt + i - 1) % RxSize] =
                   [id |-> Head(queue).id, size |-> packet.size, ok |-> TRUE, part |-> i]
      <4>1. i \in 1..queue[1].size /\ i \in Int
        BY <3>1, <3>2
      <4>2. erdpt + i - 1 = erxrdpt + (i - 1)
        BY <2>3, <3>2, <4>1
      <4>3. (erdpt + i - 1) % RxSize = From(erxrdpt, i - 1)
        BY <4>2 DEF From
      <4>4. mem[From(erxrdpt, i - 1)] = Piece(queue[1], i)
        BY <1>4, <2>3, <4>1
      <4> QED
        BY <3>1, <3>2, <4>3, <4>4 DEF Piece
    <3> QED
      BY <3>3
  <2>5. ReadWhole'
    <3>1. queue' = queue
      BY <1>1
    <3>2. CASE packet.ok
      BY <2>1, <2>3, <2>4, <3>1, <3>2 DEF ReadWhole
    <3>3. CASE ~packet.ok
      BY <2>1, <2>3, <3>1, <3>3 DEF ReadWhole
    <3> QED
      BY <3>2, <3>3
  <2>6. todo' = AfterBuffer
    BY <1>1, <2>2, Receiving
  <2>7. Within'
    BY <1>1, <1>3, <2>1, <2>3, <2>5, <2>6 DEF Within
  <2> QED
    BY <1>3, <2>7 DEF FrameInv
<1> QED
  BY <1>2, <1>5, <1>6

\* The memory of a frame is the card's again, and the frame leaves the queue.
LEMMA LeaveFrame ==
  ASSUME FrameInv, [Next]_vars, Release \/ Took
  PROVE  FrameInv'
<1>1. /\ todo # <<>> /\ todo' = Tail(todo)
      /\ UNCHANGED <<rxen, mem, erxwrpt, NextPacketPtr, resetting>>
  BY DEF Release, Took, At, Goes
<1>2. /\ CardInv /\ queue \in Seq(Frame) /\ erxrdpt \in Cell /\ NextPacketPtr \in Cell
  BY DEF FrameInv, CardInv, TypeOK
<1>3. CASE resetting
  <2>1. UNCHANGED <<erxrdpt, epktcnt, queue>>
    BY <1>3 DEF Release, Took
  <2> QED
    BY <1>1, <1>3, <2>1, HeldInReset
<1>4. CASE ~resetting /\ Release
  <2>1. /\ Head(todo) = "ERXRDPT" /\ erxrdpt' = NextPacketPtr
        /\ UNCHANGED <<epktcnt, queue, packet>>
    BY <1>4 DEF Release, At
  <2>2. Within /\ todo = AfterBuffer
    BY <1>1, <1>4, <2>1, Where
  <2>3. /\ queue # <<>> /\ Now(queue) /\ NextPacketPtr = From(erxrdpt, Head(queue).size)
        /\ ReadWhole
    BY <2>2, Receiving DEF Within
  <2>4. Head(queue) = queue[1]
    BY <1>2, <2>3, LaidFirst DEF Now
  <2>5. Now(Tail(queue))'
    BY <1>1, <1>2, <2>1, <2>3, <2>4, LaidRest DEF Now
  <2>6. rxen'
    BY <1>1, <1>2, <2>3 DEF CardInv
  <2>7. CardInv'
    <3>1. epktcnt' = Len(queue') /\ queue' \in Seq(Frame) /\ erxrdpt' \in Cell /\ queue' # <<>>
      BY <1>2, <2>1, <2>3 DEF CardInv
    <3>2. resetting' => ~rxen'
      BY <1>1, <1>4
    <3> QED
      BY <1>2, <2>5, <2>6, <3>1, <3>2, CardNext
  <2>8. ReadWhole'
    BY <2>1, <2>3 DEF ReadWhole
  <2>9. Released'
    BY <1>1, <2>1, <2>2, <2>3, <2>5, <2>8, Receiving DEF Released
  <2> QED
    BY <2>7, <2>9 DEF FrameInv
<1>5. CASE ~resetting /\ Took
  <2>1. /\ Head(todo) = "PKTDEC" /\ epktcnt' = epktcnt - 1
        /\ queue' = SubSeq(queue, 2, Len(queue)) /\ UNCHANGED erxrdpt
    BY <1>5 DEF Took, At
  <2>2. Released
    BY <1>1, <1>5, <2>1, Where
  <2>3. queue # <<>> /\ Now(Tail(queue)) /\ NextPacketPtr = erxrdpt /\ todo = AfterRelease
    BY <2>2 DEF Released
  <2>4. queue' = Tail(queue) /\ queue' \in Seq(Frame) /\ Len(queue') = Len(queue) - 1
    BY <1>2, <2>1, <2>3, TailIsSubSeq, HeadTailProperties
  <2>5. Now(queue)'
    BY <1>1, <2>1, <2>3, <2>4 DEF Now
  <2>6. rxen'
    BY <1>1, <1>2, <2>3 DEF CardInv
  <2>7. CardInv'
    <3>1. epktcnt' = Len(queue') /\ erxrdpt' \in Cell
      BY <1>2, <2>1, <2>4 DEF CardInv
    <3>2. resetting' => ~rxen'
      BY <1>1, <1>5
    <3> QED
      BY <1>2, <2>4, <2>5, <2>6, <3>1, <3>2, CardNext
  <2>8. Other(todo')
    BY <1>1, <2>3, Receiving, Others
  <2>9. Between'
    BY <1>1, <2>1, <2>3, <2>5, <2>8 DEF Between
  <2> QED
    BY <2>7, <2>9 DEF FrameInv
<1> QED
  BY <1>3, <1>4, <1>5

\* Between two functions.
LEMMA Idle ==
  ASSUME FrameInv, ~resetting, todo = <<>>
  PROVE  Between
BY Heads, Initialisation, Receiving DEF FrameInv, Starting, Within, Released

\* Every step preserves it.
LEMMA FrameNext == FrameInv /\ [Next]_vars => FrameInv'
<1> SUFFICES ASSUME FrameInv, [Next]_vars
             PROVE  FrameInv'
  OBVIOUS
<1>1. CASE ENC28J60_Set_Bank \/ Transmitted \/ UNCHANGED vars
  <2>1. UNCHANGED <<rxVars, erdpt, NextPacketPtr, packet, todo, resetting>>
    BY <1>1 DEF ENC28J60_Set_Bank, Transmitted, vars, driverVars
  <2> QED
    BY <2>1, AllSame
<1>2. CASE InitReset \/ InitClock \/ InitRxen
  BY <1>2, InitSteps
<1>3. CASE Configure
  <2>1. /\ todo # <<>> /\ Head(todo) \notin Special
        /\ todo' = Tail(todo) /\ UNCHANGED <<rxVars, NextPacketPtr, resetting>>
    BY <1>3 DEF Configure, At, Goes, Special, Resets
  <2> QED
    BY <2>1, OtherStep
<1>4. CASE ReadCount \/ WriteReadPointer
  BY <1>4, FindFrame
<1>5. CASE ReadHeader \/ ReadBuffer
  BY <1>5, ReadFrame
<1>6. CASE Release \/ Took
  BY <1>6, LeaveFrame
<1>7. CASE Send
  <2>1. /\ todo # <<>> /\ Head(todo) \notin Special
        /\ (todo' = Tail(todo) \/ todo' = <<>> \/ todo' = <<"CLR_TXRTS">>)
        /\ UNCHANGED <<rxVars, NextPacketPtr, resetting>>
    BY <1>7 DEF Send, WritePointers, WriteBuffer, Transmit, ReadErrors,
                CutTransmission, At, Goes, Special, Resets
  <2> QED
    BY <2>1, OtherStep
<1>8. CASE StartReceive \/ StartSend
  <2>1. /\ todo = <<>> /\ (todo' = Packet_Receive \/ todo' = Packet_Send)
        /\ UNCHANGED <<rxen, mem, erxwrpt, erxrdpt, epktcnt, queue, NextPacketPtr, resetting>>
    BY <1>8 DEF StartReceive, StartSend, rxVars
  <2>2. CASE resetting
    BY <2>1, <2>2, HeldInReset
  <2>3. CASE ~resetting
    <3>0. FrameInv /\ todo = <<>>
      BY <2>1
    <3>1. Between
      BY <2>3, <3>0, Idle
    <3>2. CardInv' /\ Now(queue)' = Now(queue)
      BY <2>1, CardSame DEF FrameInv
    <3>3. Between'
      BY <2>1, <3>1, <3>2, Others DEF Between
    <3> QED
      BY <3>2, <3>3 DEF FrameInv
  <2> QED
    BY <2>2, <2>3
<1>9. CASE Arrive
  <2>1. /\ CardInv'
        /\ queue' # <<>> /\ (queue # <<>> => Head(queue') = Head(queue))
        /\ Now(queue) => Now(queue)'
        /\ queue # <<>> /\ Now(Tail(queue)) => Now(Tail(queue))'
    BY <1>9, ArriveStep
  <2>2. /\ rxen /\ UNCHANGED <<erxrdpt, erdpt, NextPacketPtr, packet, todo, resetting>>
    BY <1>9 DEF Arrive, driverVars
  <2>3. ~resetting
    BY <2>2 DEF FrameInv, CardInv
  <2>4. Starting => Starting'
    BY <2>2 DEF Starting
  <2>5. Between => Between'
    BY <2>1, <2>2 DEF Between
  <2>6. Within => Within'
    BY <2>1, <2>2 DEF Within, ReadWhole
  <2>7. Released => Released'
    BY <2>1, <2>2 DEF Released, ReadWhole
  <2> QED
    BY <2>1, <2>3, <2>4, <2>5, <2>6, <2>7 DEF FrameInv
<1>10. CASE ENC28J60_Reset
  <2>1. ResetCard /\ resetting'
    BY <1>10 DEF ENC28J60_Reset
  <2> QED
    BY <2>1, CardReset DEF FrameInv
<1>11. CASE NVIC_SystemReset \/ Restart
  <2>1. /\ todo' = low_level_init /\ NextPacketPtr' = 0 /\ ~resetting'
        /\ UNCHANGED <<rxen, mem, erxwrpt, erxrdpt, epktcnt, queue>>
    BY <1>11 DEF NVIC_SystemReset, Restart, rxVars
  <2>2. CardInv'
    BY <2>1, CardSame DEF FrameInv
  <2>3. Starting'
    BY <2>1 DEF Starting
  <2> QED
    BY <2>2, <2>3 DEF FrameInv
<1> QED
  BY <1>1, <1>2, <1>3, <1>4, <1>5, <1>6, <1>7, <1>8, <1>9, <1>10, <1>11
  DEF Next, DriverStep, Receive

\* The card and the driver agree on where the next frame is and how many there
\* are, whatever arrives while it works and however often it starts again.
THEOREM PointersHold == Spec => []PointersAgree
<1>1. FrameInv => PointersAgree
  <2> SUFFICES ASSUME FrameInv, todo = <<>>, rxen
               PROVE  /\ erxrdpt = NextPacketPtr /\ epktcnt = Len(queue)
                      /\ IF queue = <<>> THEN erxwrpt = NextPacketPtr
                         ELSE mem[NextPacketPtr].part = 1
                              /\ mem[NextPacketPtr].id = Head(queue).id
    BY DEF PointersAgree, FrameInv, CardInv
  <2>1. /\ ~resetting /\ epktcnt = Len(queue) /\ queue \in Seq(Frame) /\ erxrdpt \in Cell
    BY DEF FrameInv, CardInv, TypeOK
  <2>2. Now(queue) /\ NextPacketPtr = erxrdpt
    BY <2>1, Idle DEF Between
  <2>3. CASE queue = <<>>
    BY <2>1, <2>2, <2>3, LaidFirst DEF Now
  <2>4. CASE queue # <<>>
    <3>1. /\ Head(queue) = queue[1] /\ queue[1] \in Frame
          /\ \A p \in 1..queue[1].size : mem[From(erxrdpt, p - 1)] = Piece(queue[1], p)
      BY <2>1, <2>2, <2>4, LaidFirst DEF Now
    <3>2. 1 \in 1..queue[1].size /\ 1 - 1 = 0
      BY <3>1 DEF Frame
    <3>3. From(erxrdpt, 0) = erxrdpt
      BY <2>1, FromIs, CardAssumption DEF Cell
    <3>4. mem[erxrdpt] = Piece(queue[1], 1)
      BY <3>1, <3>2, <3>3
    <3> QED
      BY <2>1, <2>2, <2>4, <3>1, <3>4 DEF Piece
  <2> QED
    BY <2>1, <2>2, <2>3, <2>4
<1> QED
  BY <1>1, FrameInit, FrameNext, PTL DEF Spec

\* Every frame that is taken is the first of those received, and whole, for every
\* size of the receive memory and any number of frames in it.
THEOREM FramesHold == Spec => FramesInOrder
<1>1. FrameInv /\ [Next]_vars =>
        (Took /\ ~resetting =>
           /\ queue # <<>>
           /\ packet.size = Head(queue).size /\ packet.ok = Head(queue).ok
           /\ packet.ok => packet.data =
                [i \in 1..packet.size |->
                  [id |-> Head(queue).id, size |-> packet.size, ok |-> TRUE, part |-> i]])
  <2> SUFFICES ASSUME FrameInv, Took, ~resetting
               PROVE  queue # <<>> /\ ReadWhole
    BY DEF ReadWhole
  <2>1. todo # <<>> /\ Head(todo) = "PKTDEC"
    BY DEF Took, At
  <2> QED
    BY <2>1, Where DEF Released
<1> QED
  BY <1>1, FrameInit, FrameNext, PTL DEF Spec, FramesInOrder

=============================================================================
