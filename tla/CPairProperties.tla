--------------------------- MODULE CPairProperties ---------------------------
(***************************************************************************)
(* What two C endpoints owe each other once datagrams get through again.   *)
(***************************************************************************)
EXTENDS CPair

CONSTANT Followed   \* the numbers whose acks and memory are followed

Numbers == 0 .. SequenceModulus - 1

\* The network stops dropping datagrams some day.
OutageEnds == <>[]~drop

\* An endpoint with a packet to send under every number never stops sending.
KeepsSending(packets) == \A s \in Numbers : packets[s] # {}

\* However long the outage was, packets are accepted again, though one of more
\* than half the number space makes fresh packets look stale at first
\* (reliable_sequence_buffer_test_insert).
Recovers ==
  OutageEnds =>
    []<><<\/ /\ KeepsSending(setting.receiver_packets)
             /\ sender'.received_packets # sender.received_packets
          \/ /\ KeepsSending(setting.sender_packets)
             /\ receiver'.received_packets # receiver.received_packets>>_<<sender, receiver>>

\* The sender still waits for the ack of packet s, and the receiver's next
\* header would carry it.
Tracked(s) == Sender!Sent!Exists(sender.sent_packets, s)

Carried(s) ==
  \E i \in Receiver!Header(receiver).ack_bits :
    s = (Receiver!Header(receiver).ack - i) % SequenceModulus

Due(s) == Tracked(s) /\ ~Sender!Sent!Find(sender.sent_packets, s) /\ Carried(s)

Reported(s) == \E k \in DOMAIN sender.acks : sender.acks[k] = s

\* "once the caller clears acks, the dropped acks are reported on the next
\* packet that covers them" (test_ack_buffer_overflow, reliable.c:2638): an ack
\* that is due is reported if packets keep coming, unless the packet leaves one
\* of the two windows.
DueAcksAreReported ==
  OutageEnds /\ KeepsSending(setting.receiver_packets) =>
    \A s \in Followed : Due(s) ~> Reported(s) \/ ~Tracked(s) \/ ~Carried(s)

\* Memory held for a packet whose fragments were lost is given back while
\* packets keep coming, be they all regular ones.
ReassemblyEnds ==
  OutageEnds /\ KeepsSending(setting.sender_packets) =>
    \A s \in Followed :
      LET held == Receiver!Reassembly!Exists(receiver.fragment_reassembly, s)
      IN  held ~> ~held
==============================================================================
