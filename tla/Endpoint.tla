------------------------------ MODULE Endpoint ------------------------------
(***************************************************************************)
(* One reliable endpoint (src/src/endpoint.rs), open to its environment:   *)
(* the application may send any packet, clear its acks or reset, and the   *)
(* socket may hand over any datagram of the constant set Datagrams, in any *)
(* order, any number of times.  Every operation takes `&mut self`, so each *)
(* call is one atomic action.                                              *)
(*                                                                         *)
(* Data is abstracted to what the properties tell apart.  A payload is a   *)
(* sequence over Byte; a header is a record, ack_bits being the set of     *)
(* offsets whose bit is one (writing a header and reading it back is exact *)
(* on all of them); a header the reader refuses is None.  Times and byte   *)
(* counts of the tracked packets only feed the statistics and are left     *)
(* out.  The closure given to receive_packet is the parameter `process` of *)
(* the receive actions: "unused" when the code does not call it, else what *)
(* it answered.                                                            *)
(***************************************************************************)
EXTENDS SequenceNumbers, Counters, Sequences, FiniteSets

CONSTANTS
  SentPacketsBufferSize, ReceivedPacketsBufferSize, FragmentReassemblyBufferSize,
  AckBufferSize,
  AckBits,                \* bits of ack_bits: 32
  MaxPacketSize, FragmentAbove, FragmentSize, MaxFragments,
  HeaderBytes(_),         \* encoded length of a packet header: 4 to 9
  MaxPacketHeaderBytes,   \* MAX_PACKET_HEADER_BYTES: 9
  FragmentHeaderBytes,    \* FRAGMENT_HEADER_BYTES: 5
  None,
  Byte, Blank,            \* payload units, and the zero of a fresh buffer
  Packets,                \* payloads the application may send
  Datagrams               \* datagrams the socket may deliver

VARIABLES sequence, sent_packets, received_packets, fragment_reassembly, acks,
          counters

vars == <<sequence, sent_packets, received_packets, fragment_reassembly, acks,
          counters>>

Header == [sequence : SequenceNumber,
           ack : SequenceNumber,
           ack_bits : SUBSET (0 .. AckBits - 1)]

Datagram ==
  [type : {"regular"}, header : Header \cup {None}, content : Seq(Byte)]
  \cup
  [type : {"fragment"}, sequence : SequenceNumber, fragment_id : Nat,
   num_fragments : Nat \ {0}, header : Header \cup {None}, content : Seq(Byte)]

\* The asserts of Endpoint::new, and the sizes of the wire fields.
ASSUME ConfigAssumption ==
  /\ SentPacketsBufferSize \in Nat \ {0}
  /\ ReceivedPacketsBufferSize \in Nat \ {0}
  /\ FragmentReassemblyBufferSize \in Nat \ {0}
  /\ AckBufferSize \in Nat \ {0}
  /\ AckBits \in 1 .. SequenceModulus
  /\ MaxPacketSize \in Nat \ {0}
  /\ FragmentSize \in Nat \ {0}
  /\ FragmentAbove \in 1 .. MaxPacketSize
  /\ MaxFragments \in Nat /\ MaxFragments > (MaxPacketSize - 1) \div FragmentSize
  /\ MaxPacketHeaderBytes \in Nat /\ FragmentHeaderBytes \in Nat

ASSUME DataAssumption ==
  /\ Blank \in Byte
  /\ Packets \subseteq Seq(Byte)
  /\ Datagrams \subseteq Datagram
  /\ None \notin SequenceNumber
  /\ None \notin Header
  /\ \A h \in Header : HeaderBytes(h) \in 0 .. MaxPacketHeaderBytes

EmptyReassembly ==
  [num_fragments_received |-> 0, num_fragments_total |-> 0,
   fragment_received |-> {}, packet_data |-> <<>>, packet_bytes |-> 0,
   header |-> None]

\* A sent packet's entry is its acked flag; a received packet's holds nothing.
Sent == INSTANCE SequenceBuffer
          WITH NumEntries <- SentPacketsBufferSize, Default <- FALSE
Received == INSTANCE SequenceBuffer
              WITH NumEntries <- ReceivedPacketsBufferSize, Default <- None
Reassembly == INSTANCE SequenceBuffer
                WITH NumEntries <- FragmentReassemblyBufferSize,
                     Default <- EmptyReassembly

Init ==
  /\ sequence = 0
  /\ sent_packets = Sent!New
  /\ received_packets = Received!New
  /\ fragment_reassembly = Reassembly!New
  /\ acks = <<>>
  /\ counters = ZeroCounters

-----------------------------------------------------------------------------
(* Sending *)

NumFragments(content) == (Len(content) + FragmentSize - 1) \div FragmentSize

Least(x, y) == IF x < y THEN x ELSE y

\* Piece number id of a payload cut at every FragmentSize bytes.
Piece(content, id) ==
  SubSeq(content, id * FragmentSize + 1, Least((id + 1) * FragmentSize, Len(content)))

\* The header every datagram of the next packet carries.
NextHeader ==
  [sequence |-> sequence,
   ack |-> Received!AckOf(received_packets),
   ack_bits |-> Received!GenerateAckBits(received_packets, AckBits)]

\* What send_packet hands to `transmit`.
Transmitted(content) ==
  IF Len(content) <= FragmentAbove
  THEN {[type |-> "regular", header |-> NextHeader, content |-> content]}
  ELSE {[type |-> "fragment", sequence |-> sequence, fragment_id |-> id,
         num_fragments |-> NumFragments(content),
         header |-> IF id = 0 THEN NextHeader ELSE None,
         content |-> Piece(content, id)] : id \in 0 .. NumFragments(content) - 1}

\* A send that passes the size check.  Its two panics are the conjuncts marked
\* expect and assert: with one false the call does not return.
SendPacket(content) ==
  /\ content # <<>> /\ Len(content) <= MaxPacketSize
  /\ Sent!CanInsert(sent_packets, sequence)                          \* expect
  /\ Len(content) > FragmentAbove => NumFragments(content) <= MaxFragments \* assert
  /\ sequence' = WrapAdd(sequence, 1)
  /\ sent_packets' = Sent!Insert(sent_packets, sequence, FALSE)
  /\ counters' = Plus(Increment(counters, {"num_packets_sent"}), "num_fragments_sent",
                      IF Len(content) > FragmentAbove THEN NumFragments(content) ELSE 0)
  /\ UNCHANGED <<received_packets, fragment_reassembly, acks>>

SendTooLarge(content) ==
  /\ Len(content) > MaxPacketSize
  /\ counters' = Increment(counters, {"num_packets_too_large_to_send"})
  /\ UNCHANGED <<sequence, sent_packets, received_packets, fragment_reassembly, acks>>

-----------------------------------------------------------------------------
(* Receiving *)

AckSequence(h, offset) == WrapSub(h.ack, offset)

\* Mutant: the acked flag is not consulted.
Reportable_Flagged(h) == {i \in h.ack_bits : Sent!Exists(sent_packets, AckSequence(h, i))}

\* The offsets whose set bit names a tracked packet not acked yet.
Reportable(h) ==
  {i \in h.ack_bits : /\ Sent!Exists(sent_packets, AckSequence(h, i))
                      /\ ~Sent!Find(sent_packets, AckSequence(h, i))}

\* Mutant: room for one ack too many.
Room_OffByOne == AckBufferSize - Len(acks) + 1

Room == AckBufferSize - Len(acks)

\* Mutant: packets are flagged although the full buffer drops their acks.
ProcessAcks_FlagsDropped(h, names) ==
  \E n \in 0 .. AckBits : \E reported \in [1 .. n -> Reportable(h)] :
    /\ n = Least(Room, Cardinality(Reportable(h)))
    /\ \A j, k \in 1 .. n : j < k => reported[j] < reported[k]
    /\ acks' = acks \o [k \in 1 .. n |-> AckSequence(h, reported[k])]
    /\ sent_packets' = [sent_packets EXCEPT !.entries =
         [slot \in DOMAIN @ |->
            @[slot] \/ \E i \in Reportable(h) : slot = Sent!Slot(AckSequence(h, i))]]
    /\ counters' = Plus(Increment(counters, names), "num_packets_acked", n)

\* The ack loop: from the lowest offset up, report and flag packets while the
\* ack buffer has room; the rest stay unflagged, so a later header may report
\* them.
ProcessAcks(h, names) ==
  \E n \in 0 .. AckBits : \E reported \in [1 .. n -> Reportable(h)] :
    /\ n <= Room
    /\ \A j, k \in 1 .. n : j < k => reported[j] < reported[k]
    /\ \A i \in Reportable(h) :
         \/ \E k \in 1 .. n : reported[k] = i
         \/ n = Room /\ \A k \in 1 .. n : reported[k] < i
    /\ acks' = acks \o [k \in 1 .. n |-> AckSequence(h, reported[k])]
    /\ sent_packets' = [sent_packets EXCEPT !.entries =
         [slot \in DOMAIN @ |->
            @[slot] \/ \E k \in 1 .. n : slot = Sent!Slot(AckSequence(h, reported[k]))]]
    /\ counters' = Plus(Increment(counters, names), "num_packets_acked", n)

PassesGate(bytes) ==
  bytes <= MaxPacketSize + MaxPacketHeaderBytes + FragmentHeaderBytes

\* The regular branch of receive_packet_internal, for a datagram from the
\* socket and for one rebuilt from fragments.  `received` and `reassembly` are
\* the two buffers as the branch finds them; for a rebuilt packet the caller
\* removes the reassembly entry and counts the last fragment on the way out.
HandleRegular(h, content, process, received, reassembly, rebuilt) ==
  LET s == h.sequence
      Leave(b) == IF rebuilt THEN Reassembly!Remove(b, s) ELSE b
      Counted(names) == names \cup (IF rebuilt THEN {"num_fragments_received"} ELSE {})
      Unaccepted(names) ==
        /\ received_packets' = received
        /\ fragment_reassembly' = Leave(reassembly)
        /\ counters' = Increment(counters, Counted(names))
        /\ UNCHANGED <<sequence, sent_packets, acks>>
      gated == PassesGate(HeaderBytes(h) + Len(content))
      fits == Len(content) <= MaxPacketSize
      fresh == Received!CanInsert(received, s)
      duplicate == Received!Exists(received, s)
  IN  \/ /\ process = "unused" /\ ~gated
         /\ Unaccepted({"num_packets_too_large_to_receive"})
      \/ /\ process = "unused" /\ gated /\ ~fits
         /\ Unaccepted({"num_packets_received", "num_packets_too_large_to_receive"})
      \/ /\ process = "unused" /\ gated /\ fits /\ ~fresh
         /\ Unaccepted({"num_packets_received", "num_packets_stale"})
      \/ /\ process = "unused" /\ gated /\ fits /\ fresh /\ duplicate
         /\ Unaccepted({"num_packets_received", "num_packets_duplicate"})
      \/ /\ process = "rejected" /\ gated /\ fits /\ fresh /\ ~duplicate
         /\ Unaccepted({"num_packets_received"})
      \/ /\ process = "accepted" /\ gated /\ fits /\ fresh /\ ~duplicate
         /\ received_packets' = Received!Insert(received, s, None)
         /\ fragment_reassembly' = Leave(Reassembly!Advance(reassembly, s))
         /\ ProcessAcks(h, Counted({"num_packets_received"}))
         /\ UNCHANGED sequence

\* Mutant: the acks of duplicates are processed as well.
ReceiveRegular_AcksOfDuplicates(d, process) ==
  /\ d.type = "regular" /\ d.header # None
  /\ \/ HandleRegular(d.header, d.content, process, received_packets,
                      fragment_reassembly, FALSE)
     \/ /\ process = "unused" /\ Received!Exists(received_packets, d.header.sequence)
        /\ ProcessAcks(d.header, {"num_packets_received", "num_packets_duplicate"})
        /\ UNCHANGED <<sequence, received_packets, fragment_reassembly>>

ReceiveRegular(d, process) ==
  /\ d.type = "regular" /\ d.header # None
  /\ HandleRegular(d.header, d.content, process, received_packets,
                   fragment_reassembly, FALSE)

\* read_packet_header fails only on datagrams shorter than the size gate.
ReceiveUnreadable(d, process) ==
  /\ process = "unused" /\ d.type = "regular" /\ d.header = None
  /\ counters' = Increment(counters, {"num_packets_received", "num_packets_invalid"})
  /\ UNCHANGED <<sequence, sent_packets, received_packets, fragment_reassembly, acks>>

-----------------------------------------------------------------------------
(* Fragments *)

FragmentBytes(d) ==
  FragmentHeaderBytes + Len(d.content)
    + (IF d.header = None THEN 0 ELSE HeaderBytes(d.header))

\* Mutant: a full fragment is taken to be too long.
ValidFragment_OffByOne(d) ==
  /\ d.num_fragments <= MaxFragments
  /\ d.fragment_id < d.num_fragments
  /\ d.fragment_id = 0 => d.header # None /\ d.header.sequence = d.sequence
  /\ Len(d.content) < FragmentSize

\* What read_fragment_header accepts.  Fragment 0 carries the packet header,
\* None when it is unreadable or not in canonical form.
ValidFragment(d) ==
  /\ d.num_fragments <= MaxFragments
  /\ d.fragment_id < d.num_fragments
  /\ d.fragment_id = 0 => d.header # None /\ d.header.sequence = d.sequence
  /\ Len(d.content) <= FragmentSize
  /\ d.fragment_id # d.num_fragments - 1 => Len(d.content) = FragmentSize

NewReassembly(d) ==
  [EmptyReassembly EXCEPT
     !.num_fragments_total = d.num_fragments,
     !.packet_data = [k \in 1 .. d.num_fragments * FragmentSize |-> Blank]]

\* Mutants: the fragment is not marked as received; its place is computed from
\* its own length.
StoreFragment_Unmarked(r, d) ==
  [r EXCEPT !.num_fragments_received = @ + 1,
            !.header = IF d.fragment_id = 0 THEN d.header ELSE @]

StoreFragment_OwnLength(r, d) ==
  LET offset == d.fragment_id * Len(d.content)
      last == d.fragment_id = r.num_fragments_total - 1
  IN  [r EXCEPT
         !.num_fragments_received = @ + 1,
         !.fragment_received = @ \cup {d.fragment_id},
         !.header = IF d.fragment_id = 0 THEN d.header ELSE @,
         !.packet_bytes =
            IF last THEN (r.num_fragments_total - 1) * FragmentSize + Len(d.content) ELSE @,
         !.packet_data = [k \in DOMAIN @ |-> IF k - offset \in DOMAIN d.content
                                             THEN d.content[k - offset] ELSE @[k]]]

\* The counting of the fragment and store_fragment.
StoreFragment(r, d) ==
  LET offset == d.fragment_id * FragmentSize
      last == d.fragment_id = r.num_fragments_total - 1
      overrun == offset + Len(d.content) > Len(r.packet_data)
  IN  [r EXCEPT
         !.num_fragments_received = @ + 1,
         !.fragment_received = @ \cup {d.fragment_id},
         !.header = IF d.fragment_id = 0 THEN d.header ELSE @,
         !.packet_bytes =
            IF last THEN (r.num_fragments_total - 1) * FragmentSize + Len(d.content) ELSE @,
         !.packet_data =
            IF overrun THEN @
            ELSE [k \in DOMAIN @ |-> IF k - offset \in DOMAIN d.content
                                     THEN d.content[k - offset] ELSE @[k]]]

\* The entry of the packet of fragment d: the one under reassembly, or the one
\* opened for it.
Entry(d) ==
  IF Reassembly!Exists(fragment_reassembly, d.sequence)
  THEN Reassembly!Find(fragment_reassembly, d.sequence)
  ELSE NewReassembly(d)

\* The reassembly buffer with that entry set to r, and the received window,
\* which advances with it when the entry is opened.
ReassemblyWith(d, r) ==
  IF Reassembly!Exists(fragment_reassembly, d.sequence)
  THEN Reassembly!Update(fragment_reassembly, d.sequence, r)
  ELSE Reassembly!InsertAdvanceFirst(fragment_reassembly, d.sequence, r)

\* Mutants: the received window is left behind; the packet is taken as received
\* when its first fragment arrives.
ReceivedOnOpen_NotAdvanced(d) == received_packets

ReceivedOnOpen_Inserted(d) == Received!Insert(received_packets, d.sequence, None)

ReceivedOnOpen(d) ==
  IF Reassembly!Exists(fragment_reassembly, d.sequence)
  THEN received_packets
  ELSE Received!Advance(received_packets, d.sequence)

ReceiveFragmentTooLarge(d, process) ==
  /\ process = "unused" /\ d.type = "fragment" /\ ~PassesGate(FragmentBytes(d))
  /\ counters' = Increment(counters, {"num_packets_too_large_to_receive"})
  /\ UNCHANGED <<sequence, sent_packets, received_packets, fragment_reassembly, acks>>

Readable(d) == d.type = "fragment" /\ PassesGate(FragmentBytes(d)) /\ ValidFragment(d)

\* The fragment can be stored: its packet is not received yet and has an entry,
\* or may get one.
Storable(d) ==
  /\ ~Received!Exists(received_packets, d.sequence)
  /\ \/ Reassembly!Exists(fragment_reassembly, d.sequence)
     \/ Reassembly!CanInsertAdvanceFirst(fragment_reassembly, d.sequence)

\* A bad header, no entry to be had, or another fragment count than the entry's.
ReceiveInvalidFragment(d, process) ==
  /\ process = "unused" /\ d.type = "fragment" /\ PassesGate(FragmentBytes(d))
  /\ \/ ~ValidFragment(d)
     \/ /\ ValidFragment(d) /\ ~Received!Exists(received_packets, d.sequence)
        /\ ~Storable(d)
     \/ /\ ValidFragment(d) /\ Storable(d)
        /\ Entry(d).num_fragments_total # d.num_fragments
  /\ counters' = Increment(counters, {"num_fragments_invalid"})
  /\ UNCHANGED <<sequence, sent_packets, received_packets, fragment_reassembly, acks>>

\* The packet was received, or this fragment of it was: nothing changes.
IgnoreFragment(d, process) ==
  /\ process = "unused" /\ Readable(d)
  /\ \/ Received!Exists(received_packets, d.sequence)
     \/ /\ Storable(d)
        /\ Entry(d).num_fragments_total = d.num_fragments
        /\ d.fragment_id \in Entry(d).fragment_received
  /\ counters' = counters
  /\ UNCHANGED <<sequence, sent_packets, received_packets, fragment_reassembly, acks>>

\* A new fragment.  The last one missing rebuilds the packet, which then goes
\* through the regular branch with the header of fragment 0.
ReceiveFragment(d, process) ==
  /\ Readable(d) /\ Storable(d)
  /\ Entry(d).num_fragments_total = d.num_fragments
  /\ d.fragment_id \notin Entry(d).fragment_received
  /\ LET stored == StoreFragment(Entry(d), d)
         reassembly == ReassemblyWith(d, stored)
     IN  \/ /\ process = "unused"
            /\ stored.num_fragments_received # stored.num_fragments_total
            /\ fragment_reassembly' = reassembly
            /\ received_packets' = ReceivedOnOpen(d)
            /\ counters' = Increment(counters, {"num_fragments_received"})
            /\ UNCHANGED <<sequence, sent_packets, acks>>
         \/ /\ stored.num_fragments_received = stored.num_fragments_total
            /\ HandleRegular(stored.header, SubSeq(stored.packet_data, 1, stored.packet_bytes),
                             process, ReceivedOnOpen(d), reassembly, TRUE)

\* receive_packet, with what the closure did.
ReceivePacket(d, process) ==
  \/ ReceiveRegular(d, process)
  \/ ReceiveUnreadable(d, process)
  \/ ReceiveFragmentTooLarge(d, process)
  \/ ReceiveInvalidFragment(d, process)
  \/ IgnoreFragment(d, process)
  \/ ReceiveFragment(d, process)

\* The payload handed to `process`, when it is called with datagram d.
Processed(d) ==
  IF d.type = "regular" THEN d.content
  ELSE LET r == StoreFragment(Entry(d), d)
       IN  SubSeq(r.packet_data, 1, r.packet_bytes)

-----------------------------------------------------------------------------
(* The other operations *)

\* clear_acks, and drain_acks once its iterator is dropped.
ClearAcks ==
  /\ acks' = <<>>
  /\ counters' = counters
  /\ UNCHANGED <<sequence, sent_packets, received_packets, fragment_reassembly>>

\* Mutant: the sequence number survives.
Reset_KeepsSequence ==
  /\ acks' = <<>>
  /\ counters' = ZeroCounters
  /\ sent_packets' = Sent!New
  /\ received_packets' = Received!New
  /\ fragment_reassembly' = Reassembly!New
  /\ UNCHANGED sequence

Reset ==
  /\ acks' = <<>>
  /\ sequence' = 0
  /\ counters' = ZeroCounters
  /\ sent_packets' = Sent!New
  /\ received_packets' = Received!New
  /\ fragment_reassembly' = Reassembly!New

Next ==
  \/ \E content \in Packets : SendPacket(content) \/ SendTooLarge(content)
  \/ \E d \in Datagrams, process \in {"unused", "accepted", "rejected"} :
       ReceivePacket(d, process)
  \/ ClearAcks
  \/ Reset

Spec == Init /\ [][Next]_vars
=============================================================================
