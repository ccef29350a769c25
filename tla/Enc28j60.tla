------------------------------- MODULE Enc28j60 -------------------------------
(***************************************************************************)
(* The driver of the network card (Drivers/enc28j60.c) under the network   *)
(* interface of lwIP (netif/ethernetif.c), the card itself as the driver   *)
(* uses it, and the reset command: the network task parses it, data_task   *)
(* (Application/data_process.c) finds it, resets the card and the device.  *)
(*                                                                         *)
(* A step of the driver is one SPI transaction, or several on registers of *)
(* one bank.  Between two of them the card receives and transmits, and     *)
(* data_task, of the same priority, may run.                               *)
(*                                                                         *)
(* The receive memory has RxSize units, a frame takes one or two of them.  *)
(* queue and arrivals are history.                                         *)
(***************************************************************************)
EXTENDS Integers, Sequences

CONSTANTS
  RxSize,   \* RXSTOP_INIT - RXSTART_INIT + 1, in units
  Frames    \* received frames are told apart modulo Frames

ASSUME CardAssumption == RxSize \in Nat /\ RxSize > 2 /\ Frames \in Nat /\ Frames >= RxSize

Cell == 0..(RxSize - 1)
Id == 0..(Frames - 1)
Frame == [id : Id, size : 1..2, ok : BOOLEAN]
Part == [id : Id, size : 1..2, ok : BOOLEAN, part : 0..2]   \* part 0: blank

VARIABLES
  \* the card
  bank,            \* ECON1.BSEL
  rxen,            \* ECON1.RXEN
  mem,             \* the part of a frame in each unit of receive memory
  erxwrpt,         \* where the card stores the next frame
  erxrdpt,         \* the unit it must not reach
  epktcnt,
  erdpt,
  txbuf,           \* what the transmit memory holds: a whole frame or a mixture
  txrts,           \* ECON1.TXRTS: transmitting
  txerif,          \* EIR.TXERIF
  \* the driver
  ENC28J60BANK,
  NextPacketPtr,
  packet,          \* len, rxstat and packet of ENC28J60_Packet_Receive
  todo,            \* the accesses its running function has still to make
  \* the reset command
  switch,          \* bit 0 of mqtt_cmd.Switch
  resetting,       \* data_task is in ENC28J60_Reset
  \* history
  queue,           \* the frames received and not taken from the card
  arrivals         \* the number of the next one

rxVars == <<rxen, mem, erxwrpt, erxrdpt, epktcnt, queue, arrivals>>
txVars == <<txbuf, txrts, txerif>>
driverVars == <<ENC28J60BANK, NextPacketPtr, packet, todo>>
vars == <<bank, rxVars, erdpt, txVars, driverVars, switch, resetting>>

Blank == [id |-> 0, size |-> 1, ok |-> FALSE, part |-> 0]
NoPacket == [size |-> 0, ok |-> FALSE, data |-> <<>>]

-----------------------------------------------------------------------------
(***************************************************************************)
(* The functions of the driver, by the accesses they make in turn.         *)
(***************************************************************************)
PHY_Write == <<"MIREGADR", "MISTAT">>

\* low_level_init: ENC28J60_Init, then a register of the PHY.
low_level_init ==
  <<"Reset", "SOFT_RESET", "ESTAT", "ERXST", "ERXFCON", "MACON1", "MACON3",
    "MAMXFL", "MAADR">> \o PHY_Write \o PHY_Write
  \o <<"ECON1", "EIE", "RXEN", "MAADR5">> \o PHY_Write

FreeFirst == <<"EPKTCNT", "ERDPT", "HEADER", "ERXRDPT", "READ_BUF", "PKTDEC">>
NeverFree == <<"EPKTCNT", "ERDPT", "HEADER", "READ_BUF", "PKTDEC">>
Packet_Receive ==
  <<"EPKTCNT", "ERDPT", "HEADER", "READ_BUF", "ERXRDPT", "PKTDEC">>

Packet_Send == <<"EWRPT", "WRITE_BUF", "TXRTS", "EIR">>

\* Made with ENC28J60_Write_Op, ENC28J60_Read_Op and the like, on the bank that
\* happens to be selected.
Raw == {"Reset", "SOFT_RESET", "MACON3", "EIE", "RXEN", "HEADER", "READ_BUF",
        "PKTDEC", "WRITE_BUF", "TXRTS", "CLR_TXRTS"}

\* The bank in the address of a register; those every bank has are given 0.
Bank(a) ==
  CASE a \in {"ERXFCON", "EPKTCNT"} -> 1
    [] a \in {"MACON1", "MACON3", "MAMXFL", "MIREGADR"} -> 2
    [] a \in {"MAADR", "MAADR5", "MISTAT"} -> 3
    [] OTHER -> 0

InOneBank == {"ERXST", "ERXFCON", "MACON1", "MACON3", "MAMXFL", "MAADR",
              "MIREGADR", "MISTAT", "MAADR5", "EPKTCNT", "ERDPT", "ERXRDPT",
              "EWRPT"}

\* The driver is about to make the access a.
At(a) ==
  /\ todo # <<>> /\ Head(todo) = a
  /\ a \in Raw \/ Bank(a) = ENC28J60BANK

\* The driver goes on in its function: the card is as it was.
Goes(rest) ==
  /\ todo' = rest
  /\ UNCHANGED <<bank, ENC28J60BANK, switch, resetting>>

ENC28J60_Set_Bank ==
  /\ todo # <<>> /\ Head(todo) \notin Raw
  /\ Bank(Head(todo)) # ENC28J60BANK
  /\ ENC28J60BANK' = Bank(Head(todo))
  /\ bank' = IF resetting THEN bank ELSE Bank(Head(todo))
  /\ UNCHANGED <<rxVars, erdpt, txVars, NextPacketPtr, packet, todo, switch,
                 resetting>>

-----------------------------------------------------------------------------
\* The card is reset, by its pin or by the command.
ResetCard ==
  /\ bank' = 0
  /\ rxen' = FALSE
  /\ mem' = [c \in Cell |-> Blank]
  /\ erxwrpt' = 0 /\ erxrdpt' = 0 /\ epktcnt' = 0 /\ erdpt' = 0
  /\ txbuf' = "whole" /\ txrts' = FALSE /\ txerif' = FALSE
  /\ queue' = <<>>
  /\ UNCHANGED arrivals

NoReset ==
  /\ At("Reset") \/ At("SOFT_RESET")
  /\ todo' = Tail(todo)
  /\ UNCHANGED <<bank, rxVars, erdpt, txVars, ENC28J60BANK, NextPacketPtr, packet,
                 switch, resetting>>
\* ENC28J60_Reset and the software reset at the start of ENC28J60_Init.
InitReset ==
  /\ At("Reset") \/ At("SOFT_RESET")
  /\ ResetCard
  /\ todo' = Tail(todo)
  /\ UNCHANGED <<ENC28J60BANK, NextPacketPtr, packet, switch, resetting>>

\* The clock of the card gets stable, or ENC28J60_Init gives up and nobody
\* looks at what it returns.
InitClock ==
  /\ At("ESTAT")
  /\ \/ /\ NextPacketPtr' = 0
        /\ Goes(Tail(todo))
     \/ /\ UNCHANGED NextPacketPtr
        /\ Goes(PHY_Write)
  /\ UNCHANGED <<rxVars, erdpt, txVars, packet>>

\* Registers that are written once and for all, and the PHY's.
Configure ==
  /\ \E a \in {"ERXST", "ERXFCON", "MACON1", "MACON3", "MAMXFL", "MAADR",
               "MIREGADR", "MISTAT", "ECON1", "EIE", "MAADR5"} : At(a)
  /\ Goes(Tail(todo))
  /\ UNCHANGED <<rxVars, erdpt, txVars, NextPacketPtr, packet>>

InitRxen ==
  /\ At("RXEN")
  /\ rxen' = ~resetting
  /\ Goes(Tail(todo))
  /\ UNCHANGED <<mem, erxwrpt, erxrdpt, epktcnt, queue, arrivals, erdpt, txVars,
                 NextPacketPtr, packet>>

-----------------------------------------------------------------------------
(***************************************************************************)
(* ENC28J60_Packet_Receive, called by ethernetif_input in each turn of the *)
(* loop.  A card that data_task holds in reset, or has just reset, answers *)
(* anything, and what is written to it is lost in the restart.             *)
(***************************************************************************)
StartReceive ==
  /\ todo = <<>>
  /\ todo' = Packet_Receive
  /\ UNCHANGED <<bank, rxVars, erdpt, txVars, ENC28J60BANK, NextPacketPtr, packet,
                 switch, resetting>>

LeavesLast ==
  /\ At("EPKTCNT")
  /\ \E count \in IF resetting THEN 0..1 ELSE {epktcnt} :
       Goes(IF count <= 1 THEN <<>> ELSE Tail(todo))
  /\ UNCHANGED <<rxVars, erdpt, txVars, NextPacketPtr, packet>>
ReadCount ==
  /\ At("EPKTCNT")
  /\ \E count \in IF resetting THEN 0..1 ELSE {epktcnt} :
       Goes(IF count = 0 THEN <<>> ELSE Tail(todo))
  /\ UNCHANGED <<rxVars, erdpt, txVars, NextPacketPtr, packet>>

WriteReadPointer ==
  /\ At("ERDPT")
  /\ erdpt' = IF resetting THEN erdpt ELSE NextPacketPtr
  /\ Goes(Tail(todo))
  /\ UNCHANGED <<rxVars, txVars, NextPacketPtr, packet>>

\* The pointer to the next packet, the length and the status of this one.
ReadHeader ==
  /\ At("HEADER")
  /\ \E next \in Cell, size \in 1..2, ok \in BOOLEAN :
       /\ resetting \/ /\ next = (erdpt + mem[erdpt].size) % RxSize
                       /\ size = mem[erdpt].size /\ ok = mem[erdpt].ok
       /\ NextPacketPtr' = next
       /\ packet' = [size |-> size, ok |-> ok, data |-> <<>>]
  /\ Goes(Tail(todo))
  /\ UNCHANGED <<rxVars, erdpt, txVars>>

\* Nothing is read of a packet received with an error.  The read pointer stays
\* in the receive memory.
ReadBuffer ==
  /\ At("READ_BUF")
  /\ packet' = IF ~packet.ok THEN packet
               ELSE [packet EXCEPT !.data = [i \in 1..packet.size |->
                       IF resetting THEN Blank ELSE mem[(erdpt + i - 1) % RxSize]]]
  /\ Goes(Tail(todo))
  /\ UNCHANGED <<rxVars, erdpt, txVars, NextPacketPtr>>

\* The memory is the card's again.
Release ==
  /\ At("ERXRDPT")
  /\ erxrdpt' = IF resetting THEN erxrdpt ELSE NextPacketPtr
  /\ Goes(Tail(todo))
  /\ UNCHANGED <<rxen, mem, erxwrpt, epktcnt, queue, arrivals, erdpt, txVars,
                 NextPacketPtr, packet>>

\* The packet counter goes down and the function returns; ethernet_input may
\* find a message of the broker in the packet, and json_parse a command in it,
\* which replaces the last one.
Took ==
  /\ At("PKTDEC")
  /\ IF resetting THEN UNCHANGED <<epktcnt, queue, switch>>
     ELSE /\ epktcnt' = epktcnt - 1
          /\ queue' = SubSeq(queue, 2, Len(queue))
          /\ \E command \in BOOLEAN :
               switch' = IF packet.ok THEN command ELSE switch
  /\ todo' = Tail(todo)
  /\ packet' = NoPacket
  /\ UNCHANGED <<bank, rxen, mem, erxwrpt, erxrdpt, arrivals, erdpt, txVars,
                 ENC28J60BANK, NextPacketPtr, resetting>>

-----------------------------------------------------------------------------
(***************************************************************************)
(* ENC28J60_Packet_Send, called by low_level_output any number of times in *)
(* a turn of the loop.                                                     *)
(***************************************************************************)
StartSend ==
  /\ todo = <<>>
  /\ todo' = Packet_Send
  /\ UNCHANGED <<bank, rxVars, erdpt, txVars, ENC28J60BANK, NextPacketPtr, packet,
                 switch, resetting>>

WritePointers ==
  /\ At("EWRPT")
  /\ Goes(Tail(todo))
  /\ UNCHANGED <<rxVars, erdpt, txVars, NextPacketPtr, packet>>

WriteBuffer ==
  /\ At("WRITE_BUF")
  /\ txbuf' = IF txrts THEN "mixed" ELSE "whole"
  /\ Goes(Tail(todo))
  /\ UNCHANGED <<rxVars, erdpt, txrts, txerif, NextPacketPtr, packet>>

\* A card that is not up (its initialisation failed, or it is being reset) sends
\* nothing.
Transmit ==
  /\ At("TXRTS")
  /\ txrts' = rxen
  /\ Goes(Tail(todo))
  /\ UNCHANGED <<rxVars, erdpt, txbuf, txerif, NextPacketPtr, packet>>

\* Nothing in the driver clears TXERIF.
ReadErrors ==
  /\ At("EIR")
  /\ \E error \in IF resetting THEN BOOLEAN ELSE {txerif} :
       Goes(IF error THEN <<"CLR_TXRTS">> ELSE <<>>)
  /\ UNCHANGED <<rxVars, erdpt, txVars, NextPacketPtr, packet>>

CutTransmission ==
  /\ At("CLR_TXRTS")
  /\ txrts' = FALSE
  /\ Goes(Tail(todo))
  /\ UNCHANGED <<rxVars, erdpt, txbuf, txerif, NextPacketPtr, packet>>

-----------------------------------------------------------------------------
(***************************************************************************)
(* The card.                                                               *)
(***************************************************************************)
\* A frame for which there is room arrives.
Arrive ==
  /\ rxen
  /\ \E size \in 1..2, ok \in BOOLEAN :
       LET frame == [id |-> arrivals, size |-> size, ok |-> ok]
           place(i) == (erxwrpt + i - 1) % RxSize
       IN /\ size <= (erxrdpt - erxwrpt - 1) % RxSize
          /\ mem' = [c \in Cell |->
               IF \E i \in 1..size : c = place(i)
               THEN [id |-> arrivals, size |-> size, ok |-> ok,
                     part |-> CHOOSE i \in 1..size : c = place(i)]
               ELSE mem[c]]
          /\ erxwrpt' = place(size + 1)
          /\ queue' = Append(queue, frame)
  /\ epktcnt' = epktcnt + 1
  /\ arrivals' = (arrivals + 1) % Frames
  /\ UNCHANGED <<bank, rxen, erxrdpt, erdpt, txVars, driverVars, switch, resetting>>

Transmitted ==
  /\ txrts
  /\ txrts' = FALSE
  /\ txerif' \in {txerif, TRUE}
  /\ UNCHANGED <<bank, rxVars, erdpt, txbuf, driverVars, switch, resetting>>

-----------------------------------------------------------------------------
\* data_task finds the command.
BetweenFrames ==
  /\ switch /\ ~resetting /\ todo = <<>>
  /\ resetting' = TRUE
  /\ ResetCard
  /\ UNCHANGED <<driverVars, switch>>
ENC28J60_Reset ==
  /\ switch /\ ~resetting
  /\ resetting' = TRUE
  /\ ResetCard
  /\ UNCHANGED <<driverVars, switch>>

\* The processor starts again: NVIC_SystemReset after the two delays of
\* ENC28J60_Reset, the watchdog or the reset button.  The card goes on as it is.
Restart ==
  /\ ENC28J60BANK' = 0 /\ NextPacketPtr' = 0 /\ packet' = NoPacket
  /\ todo' = low_level_init
  /\ switch' = FALSE /\ resetting' = FALSE
  /\ UNCHANGED <<bank, rxVars, erdpt, txVars>>

NVIC_SystemReset == resetting /\ Restart

Init ==
  /\ bank = 0 /\ rxen = FALSE /\ mem = [c \in Cell |-> Blank]
  /\ erxwrpt = 0 /\ erxrdpt = 0 /\ epktcnt = 0 /\ erdpt = 0
  /\ txbuf = "whole" /\ txrts = FALSE /\ txerif = FALSE
  /\ ENC28J60BANK = 0 /\ NextPacketPtr = 0 /\ packet = NoPacket
  /\ todo = low_level_init
  /\ switch = FALSE /\ resetting = FALSE
  /\ queue = <<>> /\ arrivals = 0

Receive ==
  ReadCount \/ WriteReadPointer \/ ReadHeader \/ ReadBuffer \/ Release \/ Took

Send == WritePointers \/ WriteBuffer \/ Transmit \/ ReadErrors \/ CutTransmission

DriverStep ==
  \/ ENC28J60_Set_Bank \/ InitReset \/ InitClock \/ Configure \/ InitRxen
  \/ Receive \/ Send

Next ==
  \/ DriverStep \/ StartReceive \/ StartSend
  \/ Arrive \/ Transmitted
  \/ ENC28J60_Reset \/ NVIC_SystemReset \/ Restart

\* Both tasks run; a turn of the loop of the network task sends finitely many
\* frames and begins by receiving one; the card transmits.
Fairness ==
  /\ WF_vars(DriverStep) /\ SF_vars(StartReceive)
  /\ WF_vars(ENC28J60_Reset) /\ WF_vars(NVIC_SystemReset)
  /\ WF_vars(Transmitted)

Spec == Init /\ [][Next]_vars

FairSpec == Spec /\ Fairness

-----------------------------------------------------------------------------
TypeOK ==
  /\ bank \in 0..3 /\ ENC28J60BANK \in 0..3
  /\ rxen \in BOOLEAN
  /\ mem \in [Cell -> Part]
  /\ erxwrpt \in Cell /\ erxrdpt \in Cell /\ erdpt \in Cell
  /\ NextPacketPtr \in Cell
  /\ epktcnt \in 0..RxSize
  /\ txbuf \in {"whole", "mixed"}
  /\ txrts \in BOOLEAN /\ txerif \in BOOLEAN
  /\ packet \in [size : 0..2, ok : BOOLEAN, data : Seq(Part)]
  /\ switch \in BOOLEAN /\ resetting \in BOOLEAN
  /\ queue \in Seq(Frame) /\ arrivals \in Id

\* The driver makes an access to a register with the bank of that register
\* selected in the card, however the device was restarted and whatever bank the
\* card was left in; only a command to reset the card may come between.
BankSelected == \A a \in InOneBank : At(a) /\ ~resetting => bank = Bank(a)

\* A frame leaves the driver whole, in the order of arrival, and the card does
\* not write to its memory before it has been read.
FramesInOrder ==
  [][Took /\ ~resetting =>
       /\ queue # <<>>
       /\ packet.size = Head(queue).size /\ packet.ok = Head(queue).ok
       /\ packet.ok => packet.data =
            [i \in 1..packet.size |->
              [id |-> Head(queue).id, size |-> packet.size, ok |-> TRUE, part |-> i]]]_vars

\* Between two calls of Packet_Receive the card and the driver agree on where
\* the next frame is and how many there are; every variable keeps its type.
PointersAgree ==
  /\ TypeOK
  /\ (todo = <<>> /\ rxen) =>
    /\ erxrdpt = NextPacketPtr /\ epktcnt = Len(queue)
    /\ IF queue = <<>> THEN erxwrpt = NextPacketPtr
       ELSE mem[NextPacketPtr].part = 1 /\ mem[NextPacketPtr].id = Head(queue).id

\* A frame that the card has received is taken from it, or the device starts
\* again.
FramesTaken ==
  \A i \in Id : (queue # <<>> /\ Head(queue).id = i)
                  ~> (queue = <<>> \/ Head(queue).id # i)

\* A reset command leads to a restart, or to a later command that is none: one
\* that comes before data_task has looked revokes it.
CommandObeyed == switch ~> ~switch

\* "send a packet to the network through the ENC28J60" (enc28j60.c:342): what
\* the card transmits is a packet it was given.
SentWhole == txrts => txbuf = "whole"
=============================================================================
