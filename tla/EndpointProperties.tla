------------------------- MODULE EndpointProperties -------------------------
(***************************************************************************)
(* What one endpoint guarantees whatever its environment does.             *)
(***************************************************************************)
EXTENDS Endpoint

\* The fields of FragmentReassemblyData.
ReassemblyData ==
  [num_fragments_received : Nat, num_fragments_total : Nat,
   fragment_received : SUBSET Nat, packet_data : Seq(Byte),
   packet_bytes : Nat, header : Header \cup {None}]

\* Type invariant of the endpoint (struct Endpoint, endpoint.rs).
TypeOK ==
  /\ sequence \in SequenceNumber
  /\ sent_packets \in Sent!BufferOf(BOOLEAN)
  /\ received_packets \in Received!BufferOf({None})
  /\ fragment_reassembly \in Reassembly!BufferOf(ReassemblyData)
  /\ acks \in Seq(SequenceNumber) /\ Len(acks) <= AckBufferSize
  /\ counters \in CountersOf

\* The received window and the reassembly window move together: both are at
\* the same sequence number although three code paths advance them separately
\* (an accepted packet, a new fragment, a reset).  Otherwise a fragment could
\* reopen a packet the received window calls stale.
WindowsInLockStep == received_packets.sequence = fragment_reassembly.sequence

\* The `expect("sent packet data")` and `assert!(num_fragments <= max_fragments)`
\* of send_packet never fire, for any packet that passes the size check.
SendNeverPanics ==
  /\ Sent!CanInsert(sent_packets, sequence)
  /\ \A content \in Packets :
       Len(content) <= MaxPacketSize => NumFragments(content) <= MaxFragments

\* Every occupied slot of the three buffers holds a sequence number of its own
\* slot and inside the buffer's window, whatever sequence numbers arrive.
Holds(b, size) ==
  \A i \in 0 .. size - 1 :
    LET s == b.entry_sequence[i]
    IN  s # None => s % size = i /\ WrapSub(b.sequence, s + 1) < size

EntriesStayInWindow ==
  /\ Holds(sent_packets, SentPacketsBufferSize)
  /\ Holds(received_packets, ReceivedPacketsBufferSize)
  /\ Holds(fragment_reassembly, FragmentReassemblyBufferSize)

\* The entry r of packet s under reassembly: its fragments are numbered below
\* its total, its count is that of the distinct fragments stored, its header is
\* there exactly when fragment 0 is, its length fits its buffer and the places
\* of missing fragments are blank.
EntryConsistent(s, r) ==
  /\ r.fragment_received \subseteq 0 .. r.num_fragments_total - 1
  /\ r.num_fragments_received = Cardinality(r.fragment_received)
  /\ Len(r.packet_data) = r.num_fragments_total * FragmentSize
  /\ (r.header # None) <=> (0 \in r.fragment_received)
  /\ r.header # None => r.header.sequence = s
  /\ r.packet_bytes <= Len(r.packet_data)
  /\ \A id \in 0 .. r.num_fragments_total - 1 :
       id \notin r.fragment_received =>
         \A k \in id * FragmentSize + 1 .. (id + 1) * FragmentSize :
           r.packet_data[k] = Blank

\* Every packet under reassembly has a fragment, is short of one, and its entry
\* is consistent: so the count that triggers rebuilding means that every byte
\* range and the header are present, and the slice that receive_packet_internal
\* cuts is in bounds.  An empty slot holds no leftovers.
ReassemblyConsistent ==
  \A i \in 0 .. FragmentReassemblyBufferSize - 1 :
    LET s == fragment_reassembly.entry_sequence[i]
        r == fragment_reassembly.entries[i]
    IN  IF s = None
        THEN r = EmptyReassembly
        ELSE /\ EntryConsistent(s, r)
             /\ r.num_fragments_received \in 1 .. r.num_fragments_total - 1

\* Whatever send_packet transmits, in whatever state, an endpoint with the same
\* configuration lets through: the size gate and the payload limit of
\* receive_packet and every check of read_fragment_header hold for regular
\* packets and for each fragment, first, last and only ones included.
SentIsReceivable ==
  \A content \in Packets :
    content # <<>> /\ Len(content) <= MaxPacketSize =>
      \A d \in Transmitted(content) :
        IF d.type = "regular"
        THEN /\ PassesGate(HeaderBytes(d.header) + Len(d.content))
             /\ Len(d.content) <= MaxPacketSize
        ELSE Readable(d)

-----------------------------------------------------------------------------
(* Action properties *)

Appended == SubSeq(acks', Len(acks) + 1, Len(acks'))

\* A sent packet is flagged as acked in exactly the steps that report it: with
\* a full ack buffer it keeps its chance of being reported by a later header.
FlaggedIffReported ==
  [][sent_packets'.entry_sequence = sent_packets.entry_sequence =>
       {sent_packets.entry_sequence[i] :
          i \in {j \in 0 .. SentPacketsBufferSize - 1 :
                   sent_packets'.entries[j] /\ ~sent_packets.entries[j]}}
       = {Appended[k] : k \in DOMAIN Appended}]_vars

\* The acks of a header count only when its packet is accepted: a stale,
\* duplicate, invalid or rejected datagram reports nothing.
AcksOnlyWithAcceptedPacket ==
  [][Len(acks') > Len(acks) =>
       \E i \in 0 .. ReceivedPacketsBufferSize - 1 :
         LET s == received_packets'.entry_sequence[i]
         IN  s # None /\ ~Received!Exists(received_packets, s)]_vars

\* A packet once in the received window stays there until the window passes it
\* or the endpoint is reset: no datagram can make the endpoint forget it and so
\* accept it again.
ReceivedIsRemembered ==
  [][\A i \in 0 .. ReceivedPacketsBufferSize - 1 :
       LET s == received_packets.entry_sequence[i]
       IN  s # None /\ WrapSub(received_packets'.sequence, s + 1) < ReceivedPacketsBufferSize
             => Received!Exists(received_packets', s) \/ Reset]_vars
=============================================================================
