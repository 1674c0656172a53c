-------------------------------- MODULE CPair --------------------------------
(***************************************************************************)
(* Two C endpoints on one thread, joined as the library's own tests join   *)
(* them (src/wire-compat/c/reliable.c, from test_context_t on): send_packet *)
(* calls transmit_packet_function for each datagram, and that hands it     *)
(* straight to the other endpoint unless context->drop is set.  It may keep *)
(* a datagram to the receiver, which the test hands over again later.      *)
(* process_packet_function accepts everything.                             *)
(*                                                                         *)
(* An endpoint's own operation is atomic; a call of transmit_packet_function *)
(* is a step of its own.  The tests change `drop` between two sends, and   *)
(* allow_packets cuts off in the middle of one: here it changes any time.  *)
(***************************************************************************)
EXTENDS Counters, Sequences, FiniteSets

CONSTANTS
  SequenceModulus,
  SentPacketsBufferSize, ReceivedPacketsBufferSize, FragmentReassemblyBufferSize,
  AckBufferSize, AckBits,
  MaxPacketSize, FragmentAbove, FragmentSize, MaxFragments,
  HeaderBytes(_), MaxPacketHeaderBytes, FragmentHeaderBytes,
  None, Byte, Blank, Blocks, NULL, Free, Corrupt,
  Settings   \* what is sent, each a record:
             \*   sender_packets, receiver_packets: the contents a number may have
             \*   kept_numbers: numbers of the packets that may be kept

VARIABLES
  setting,            \* one of Settings
  sender, receiver,   \* context.sender, context.receiver
  drop,               \* context.drop
  transmitting,       \* what send_packet has yet to transmit: <<id, datagram>>
  kept                \* test_stale_packets_first_packet

vars == <<setting, sender, receiver, drop, transmitting, kept>>

Sender == INSTANCE CEndpoint
            WITH endpoint <- sender, Packets <- {}, Datagrams <- {}
Receiver == INSTANCE CEndpoint
              WITH endpoint <- receiver, Packets <- {}, Datagrams <- {}

Init ==
  /\ setting \in Settings
  /\ Sender!Init /\ Receiver!Init
  /\ drop = FALSE /\ transmitting = <<>> /\ kept = None

-----------------------------------------------------------------------------
Calls(id, datagrams) == [n \in DOMAIN datagrams |-> <<id, datagrams[n]>>]

\* The tests choose the contents by the number (generate_packet_data).
SenderSends ==
  /\ transmitting = <<>>
  /\ \E content \in setting.sender_packets[sender.sequence] :
       /\ Sender!SendPacket(content)
       /\ transmitting' = Calls(0, Sender!Transmitted(sender, content))
  /\ UNCHANGED <<setting, receiver, drop, kept>>

ReceiverSends ==
  /\ transmitting = <<>>
  /\ \E content \in setting.receiver_packets[receiver.sequence] :
       /\ Receiver!SendPacket(content)
       /\ transmitting' = Calls(1, Receiver!Transmitted(receiver, content))
  /\ UNCHANGED <<setting, sender, drop, kept>>

SenderReceives(d) ==
  /\ \E answer \in {"unused", "accepted"} : Sender!ReceivePacket(d, answer)
  /\ UNCHANGED receiver

ReceiverReceives(d) ==
  /\ \E answer \in {"unused", "accepted"} : Receiver!ReceivePacket(d, answer)
  /\ UNCHANGED sender

SequenceOf(d) == IF d.type = "regular" THEN d.header.sequence ELSE d.sequence

\* The first datagram to the receiver with such a number may be copied.
Keeps(id, d) ==
  \/ kept' = kept
  \/ id = 0 /\ kept = None /\ SequenceOf(d) \in setting.kept_numbers /\ kept' = d

\* One call of transmit_packet_function.
Transmit ==
  /\ transmitting # <<>>
  /\ transmitting' = Tail(transmitting)
  /\ LET id == Head(transmitting)[1]
         d == Head(transmitting)[2]
     IN  \/ drop /\ UNCHANGED <<sender, receiver, kept>>
         \/ ~drop /\ id = 0 /\ ReceiverReceives(d) /\ Keeps(id, d)
         \/ ~drop /\ id = 1 /\ SenderReceives(d) /\ Keeps(id, d)
  /\ UNCHANGED <<setting, drop>>

\* The kept datagram is handed over again: a duplicate, or a stale packet.
Replay ==
  /\ transmitting = <<>> /\ kept # None
  /\ ReceiverReceives(kept)
  /\ UNCHANGED <<setting, drop, transmitting, kept>>

SenderClearsAcks ==
  /\ transmitting = <<>> /\ sender.acks # <<>> /\ Sender!ClearAcks
  /\ UNCHANGED <<setting, receiver, drop, transmitting, kept>>

ReceiverClearsAcks ==
  /\ transmitting = <<>> /\ receiver.acks # <<>> /\ Receiver!ClearAcks
  /\ UNCHANGED <<setting, sender, drop, transmitting, kept>>

DropChanges == drop' = ~drop /\ UNCHANGED <<setting, sender, receiver, transmitting, kept>>

Next ==
  \/ SenderSends \/ ReceiverSends
  \/ Transmit \/ Replay
  \/ SenderClearsAcks \/ ReceiverClearsAcks
  \/ DropChanges

Spec == Init /\ [][Next]_vars

\* A call of transmit_packet_function returns: a step of Transmit, and of no
\* other action, with the part that Transmit is enabled by.
Returns == transmitting # <<>> /\ transmitting' = Tail(transmitting)

\* What the loop of test_sequence_wrap does in every turn: a call runs to its
\* end, the endpoints send, and the acks are read and cleared.  A call can only
\* start between others, hence the strong fairness.
Fairness ==
  /\ WF_transmitting(Returns)
  /\ SF_vars(SenderSends) /\ SF_vars(ReceiverSends) /\ SF_vars(SenderClearsAcks)

Loop == Spec /\ Fairness
==============================================================================
