------------------------- MODULE CEndpointProperties --------------------------
(***************************************************************************)
(* What the C endpoint guarantees of its memory and of its two windows.    *)
(***************************************************************************)
EXTENDS CEndpoint

ReassemblyData ==
  [num_fragments_received : Nat, num_fragments_total : Nat,
   packet_data : Blocks \cup {NULL}, packet_bytes : Nat, packet_header_bytes : Nat,
   fragment_received : SUBSET Nat]

Endpoints ==
  [sequence : SequenceNumber, acks : Seq(SequenceNumber), counters : CountersOf,
   sent_packets : Sent!BufferOf(BOOLEAN),
   received_packets : Received!BufferOf({None}),
   fragment_reassembly : Reassembly!BufferOf(ReassemblyData),
   heap : [Blocks -> BlockContents \cup {Free, Corrupt}]]

\* Type invariant of the endpoint.
TypeOK == endpoint \in Endpoints

Owned == Reassembly!Occupied(endpoint.fragment_reassembly)

PacketData(i) == endpoint.fragment_reassembly.entry_data[i].packet_data

\* Every packet under reassembly has a live block of its own, every block has
\* such a packet, and an empty slot holds no pointer: nothing leaks, is freed
\* twice or is used after it was freed, whatever is evicted, dropped, rejected
\* or reset ("the endpoint keeps running without crash or corruption",
\* reliable.h:193).
Ownership ==
  /\ \A i \in Owned : Live(endpoint.heap, PacketData(i))
  /\ \A i, j \in Owned : i # j => PacketData(i) # PacketData(j)
  /\ \A p \in Blocks : endpoint.heap[p] = Free \/ \E i \in Owned : PacketData(i) = p
  /\ \A i \in Reassembly!Index \ Owned : PacketData(i) = NULL

\* The received window and the reassembly window stand at the same number: the
\* calls that move one move the other, though reliable_endpoint_receive_packet
\* moves them one after the other, after a callback in which either may have
\* moved.
WindowsTogether ==
  endpoint.received_packets.sequence = endpoint.fragment_reassembly.sequence

\* Number s is never that of a packet in one piece.
OnlyInFragments(s) ==
  \A d \in Datagrams : d.type = "regular" /\ d.header # None => d.header.sequence # s

\* "duplicate fragments arriving after their packet was delivered must not
\* restart reassembly" (test_duplicate_packets, reliable.c:2471): no packet that
\* was received is under reassembly.  A number reused for a packet in one piece
\* while old fragments of it are stored would be both.
NeverRestarted ==
  \A s \in SequenceNumber :
    OnlyInFragments(s) /\ Received!Exists(endpoint.received_packets, s) =>
      ~Reassembly!Exists(endpoint.fragment_reassembly, s)
=============================================================================
