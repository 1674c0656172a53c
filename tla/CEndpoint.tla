------------------------------ MODULE CEndpoint ------------------------------
(***************************************************************************)
(* One endpoint of the C implementation (src/wire-compat/c/reliable.c).    *)
(* `endpoint` is the struct; the operations are operators from endpoints   *)
(* to endpoints, so that CCallbacks can put other calls between them.      *)
(*                                                                         *)
(* The memory the endpoint allocates while it runs, one buffer per packet  *)
(* under reassembly, is in endpoint.heap: a block holds a packet's header  *)
(* and data, is Free, or is Corrupt once it was freed twice or written     *)
(* while free.  Every allocation may return NULL.                          *)
(*                                                                         *)
(* Data is abstracted as in Endpoint, and the constants are the same.      *)
(* Times, byte counts and the fields no code reads are left out.           *)
(***************************************************************************)
EXTENDS Counters, Sequences, FiniteSets

CONSTANTS
  SequenceModulus,
  SentPacketsBufferSize, ReceivedPacketsBufferSize, FragmentReassemblyBufferSize,
  AckBufferSize, AckBits,
  MaxPacketSize, FragmentAbove, FragmentSize, MaxFragments,
  HeaderBytes(_), MaxPacketHeaderBytes, FragmentHeaderBytes,
  None,                 \* 0xFFFFFFFF in entry_sequence; a header that is not there
  Byte, Blank, Packets, Datagrams,
  Blocks,               \* what allocate_function may return, besides NULL
  NULL, Free, Corrupt

VARIABLE endpoint

SequenceNumber == 0 .. SequenceModulus - 1

Headers == [sequence : SequenceNumber,
            ack : SequenceNumber,
            ack_bits : SUBSET (0 .. AckBits - 1)]

Datagram ==
  [type : {"regular"}, header : Headers \cup {None}, content : Seq(Byte)]
  \cup
  [type : {"fragment"}, sequence : SequenceNumber, fragment_id : Nat,
   num_fragments : Nat \ {0}, header : Headers \cup {None}, content : Seq(Byte)]

\* What a live block holds.
BlockContents == [header : Headers \cup {None}, data : Seq(Byte)]

\* The checks of reliable_endpoint_create, and the sizes of the wire fields.
ASSUME ConfigAssumption ==
  /\ SequenceModulus \in Nat \ {0} /\ SequenceModulus % 2 = 0
  /\ SentPacketsBufferSize \in Nat \ {0}
  /\ ReceivedPacketsBufferSize \in Nat \ {0}
  /\ FragmentReassemblyBufferSize \in Nat \ {0}
  /\ AckBufferSize \in Nat \ {0}
  /\ AckBits \in 1 .. SequenceModulus
  /\ MaxPacketSize \in Nat \ {0}
  /\ FragmentSize \in Nat \ {0}
  /\ FragmentAbove \in 1 .. MaxPacketSize
  /\ MaxFragments \in Nat /\ MaxFragments > (MaxPacketSize - 1) \div FragmentSize
  /\ MaxPacketHeaderBytes \in Nat /\ FragmentHeaderBytes \in Nat

\* A header can only be unreadable in a datagram shorter than the longest header.
ASSUME DataAssumption ==
  /\ Blank \in Byte
  /\ Packets \subseteq Seq(Byte)
  /\ Datagrams \subseteq Datagram
  /\ \A d \in Datagrams :
       d.type = "regular" /\ d.header = None => Len(d.content) <= MaxPacketHeaderBytes
  /\ None \notin SequenceNumber /\ None \notin Headers
  /\ \A h \in Headers : HeaderBytes(h) \in 0 .. MaxPacketHeaderBytes

ASSUME MemoryAssumption ==
  /\ NULL \notin Blocks
  /\ Free # Corrupt /\ Free \notin BlockContents /\ Corrupt \notin BlockContents

\* reliable_fragment_reassembly_data_t
ZeroReassembly ==
  [num_fragments_received |-> 0, num_fragments_total |-> 0, packet_data |-> NULL,
   packet_bytes |-> 0, packet_header_bytes |-> 0, fragment_received |-> {}]

\* reliable_fragment_reassembly_data_cleanup; FreePacketData gives the heap.
Cleanup(data) == [data EXCEPT !.packet_data = NULL]

Untouched(data) == data

\* A sent packet's entry is its acked bit; a received packet's holds nothing.
Sent == INSTANCE CSequenceBuffer
  WITH NumEntries <- SentPacketsBufferSize, Empty <- None, ZeroData <- FALSE,
       Cleanup <- Untouched
Received == INSTANCE CSequenceBuffer
  WITH NumEntries <- ReceivedPacketsBufferSize, Empty <- None, ZeroData <- None,
       Cleanup <- Untouched
Reassembly == INSTANCE CSequenceBuffer
  WITH NumEntries <- FragmentReassemblyBufferSize, Empty <- None,
       ZeroData <- ZeroReassembly

Uint16(n) == n % SequenceModulus

\* acks is the array up to num_acks.
Created ==
  [sequence |-> 0, acks |-> <<>>, counters |-> ZeroCounters,
   sent_packets |-> Sent!Create, received_packets |-> Received!Create,
   fragment_reassembly |-> Reassembly!Create, heap |-> [p \in Blocks |-> Free]]

Count(e, names) == [e EXCEPT !.counters = Increment(@, names)]

-----------------------------------------------------------------------------
(* Memory *)

Live(heap, p) == p \in Blocks /\ heap[p] \notin {Free, Corrupt}

\* What allocate_function may return.
Allocations(heap) == {p \in Blocks : heap[p] = Free} \cup {NULL}

\* The heap after free_function is called on the packet_data, where it is not
\* NULL, of each of the slots.
FreePacketData(e, slots) ==
  [p \in Blocks |->
     LET owners == {i \in slots : e.fragment_reassembly.entry_data[i].packet_data = p}
     IN  IF owners = {} THEN e.heap[p]
         ELSE IF Cardinality(owners) = 1 /\ Live(e.heap, p) THEN Free
         ELSE Corrupt]

-----------------------------------------------------------------------------
(* reliable_endpoint_send_packet *)

NumFragments(content) ==
  Len(content) \div FragmentSize + (IF Len(content) % FragmentSize # 0 THEN 1 ELSE 0)

Header(e) ==
  [sequence |-> e.sequence, ack |-> Received!Ack(e.received_packets),
   ack_bits |-> Received!AckBitsOf(e.received_packets, AckBits)]

\* The bytes copied into fragment id: from q on, up to the end.
FragmentData(content, id) ==
  LET q == id * FragmentSize
      bytes_to_copy == IF q + FragmentSize > Len(content) THEN Len(content) - q
                                                         ELSE FragmentSize
  IN  [k \in 1 .. bytes_to_copy |-> content[q + k]]

\* The calls of transmit_packet_function, in order.
Transmitted(e, content) ==
  IF Len(content) <= FragmentAbove
  THEN <<[type |-> "regular", header |-> Header(e), content |-> content]>>
  ELSE [n \in 1 .. NumFragments(content) |->
          [type |-> "fragment", sequence |-> e.sequence, fragment_id |-> n - 1,
           num_fragments |-> NumFragments(content),
           header |-> IF n = 1 THEN Header(e) ELSE None,
           content |-> FragmentData(content, n - 1)]]

\* The sent packet's entry, its acked bit cleared.
Track(e) ==
  [e EXCEPT !.sent_packets = Sent!Write(Sent!Insert(@, e.sequence), e.sequence, FALSE)]

\* Guards marked assert: the call does not return when one is false.
SendPacket(content) ==
  /\ content # <<>> /\ Len(content) <= MaxPacketSize
  /\ Sent!TestInsert(endpoint.sent_packets, endpoint.sequence)             \* assert
  /\ Len(content) > FragmentAbove => NumFragments(content) <= MaxFragments \* assert
  /\ LET tracked == Track(endpoint)
         counted == Plus(Increment(tracked.counters, {"num_packets_sent"}),
                         "num_fragments_sent",
                         IF Len(content) > FragmentAbove THEN NumFragments(content) ELSE 0)
     IN  endpoint' = [tracked EXCEPT !.sequence = Uint16(@ + 1), !.counters = counted]

SendTooLarge(content) ==
  /\ Len(content) > MaxPacketSize
  /\ endpoint' = Count(endpoint, {"num_packets_too_large_to_send"})

-----------------------------------------------------------------------------
(* reliable_endpoint_receive_packet: the regular branch *)

BytesOf(h, content) == Len(content) + (IF h = None THEN 0 ELSE HeaderBytes(h))

PassesGate(bytes) == bytes <= MaxPacketSize + MaxPacketHeaderBytes + FragmentHeaderBytes

\* The counters the branch bumps before it returns or calls
\* process_packet_function.
Refusal(e, h, content) ==
  IF ~PassesGate(BytesOf(h, content)) THEN {"num_packets_too_large_to_receive"}
  ELSE {"num_packets_received"} \cup
    (IF h = None THEN {"num_packets_invalid"}
     ELSE IF Len(content) > MaxPacketSize THEN {"num_packets_too_large_to_receive"}
     ELSE IF ~Received!TestInsert(e.received_packets, h.sequence) THEN {"num_packets_stale"}
     ELSE IF Received!Exists(e.received_packets, h.sequence) THEN {"num_packets_duplicate"}
     ELSE {})

Processes(e, h, content) == Refusal(e, h, content) = {"num_packets_received"}

\* Up to the call of process_packet_function, or to the early return.
Arrive(e, h, content) == Count(e, Refusal(e, h, content))

\* Mutant: a packet is marked acked although the full array drops its ack.
AckBit_MarksDropped(e, h, i) ==
  LET s == Uint16(h.ack - i)
      marked == [e EXCEPT !.sent_packets = Sent!Write(@, s, TRUE)]
  IN  IF ~(/\ i \in h.ack_bits
           /\ Sent!Exists(e.sent_packets, s) /\ ~Sent!Find(e.sent_packets, s))
      THEN e
      ELSE IF Len(e.acks) < AckBufferSize
      THEN [Count(marked, {"num_packets_acked"}) EXCEPT !.acks = Append(@, s)]
      ELSE marked

\* One turn of the ack loop.
AckBit(e, h, i) ==
  LET s == Uint16(h.ack - i)
  IN  IF /\ i \in h.ack_bits
         /\ Sent!Exists(e.sent_packets, s) /\ ~Sent!Find(e.sent_packets, s)
         /\ Len(e.acks) < AckBufferSize
      THEN [Count(e, {"num_packets_acked"}) EXCEPT
              !.acks = Append(@, s), !.sent_packets = Sent!Write(@, s, TRUE)]
      ELSE e

\* The endpoint after each turn.
AckTurns(e, h) ==
  LET after[i \in 0 .. AckBits] == IF i = 0 THEN e ELSE AckBit(after[i - 1], h, i - 1)
  IN  after

AckLoop(e, h) == AckTurns(e, h)[AckBits]

\* Mutant: the other window is left where it is.
Accept_OneWindow(e, h) ==
  AckLoop([e EXCEPT !.received_packets =
             IF Received!TestInsert(@, h.sequence) THEN Received!Insert(@, h.sequence) ELSE @],
          h)

\* What an accepted packet does: entered in the received packets, the other
\* window advanced, its acks processed.  insert returns NULL for a stale
\* number, which the assert after it catches.
Accept(e, h) ==
  LET s == h.sequence
      inserted == [e EXCEPT
        !.received_packets = IF Received!TestInsert(@, s) THEN Received!Insert(@, s) ELSE @,
        !.heap = FreePacketData(e, Reassembly!AdvanceCleans(e.fragment_reassembly, s)),
        !.fragment_reassembly = Reassembly!AdvanceWithCleanup(@, s)]
  IN  AckLoop(inserted, h)

\* The last steps of the fragment branch for a completed packet.
Leave(e, s) ==
  Count([e EXCEPT
           !.heap = FreePacketData(e, Reassembly!RemoveCleans(e.fragment_reassembly, s)),
           !.fragment_reassembly = Reassembly!RemoveWithCleanup(@, s)],
        {"num_fragments_received"})

\* From the return of process_packet_function ("unused": it was not called) to
\* the return of receive_packet, for a datagram or a packet rebuilt from
\* fragments of packet s.
Finish(e, h, s, rebuilt, answer) ==
  LET answered == IF answer = "accepted" THEN Accept(e, h) ELSE e
  IN  IF rebuilt THEN Leave(answered, s) ELSE answered

Answers == {"unused", "accepted", "rejected"}

ReceiveRegular(d, answer) ==
  /\ d.type = "regular"
  /\ (answer = "unused") <=> ~Processes(endpoint, d.header, d.content)
  /\ endpoint' = Finish(Arrive(endpoint, d.header, d.content), d.header, None, FALSE, answer)

-----------------------------------------------------------------------------
(* reliable_endpoint_receive_packet: the fragment branch *)

FragmentBytes(d) == FragmentHeaderBytes + BytesOf(d.header, d.content)

\* reliable_read_fragment_header, on a header decoded or not (None).
ReadFragmentHeader(d) ==
  /\ d.num_fragments <= MaxFragments
  /\ d.fragment_id < d.num_fragments
  /\ d.fragment_id = 0 => d.header # None /\ d.header.sequence = d.sequence
  /\ Len(d.content) <= FragmentSize
  /\ d.fragment_id # d.num_fragments - 1 => Len(d.content) = FragmentSize

\* Mutant: whether the packet was received already is not asked.
Wanted_AlsoReceived(e, d) == PassesGate(FragmentBytes(d)) /\ ReadFragmentHeader(d)

\* The fragment passes the gate, can be read and is not of a received packet.
Wanted(e, d) ==
  /\ PassesGate(FragmentBytes(d)) /\ ReadFragmentHeader(d)
  /\ ~Received!Exists(e.received_packets, d.sequence)

HasEntry(e, d) == Reassembly!Exists(e.fragment_reassembly, d.sequence)

MayOpen(e, d) == Reassembly!InsertsWithCleanup(e.fragment_reassembly, d.sequence)

\* insert_with_cleanup, and the received window advanced with it.
Opened(e, d) ==
  [e EXCEPT
     !.heap = FreePacketData(e, Reassembly!InsertCleans(e.fragment_reassembly, d.sequence)),
     !.fragment_reassembly = Reassembly!InsertWithCleanup(@, d.sequence),
     !.received_packets = Received!Advance(@, d.sequence)]

\* The assignments to an opened entry up to the allocation, which gave p.
Begin(data, d, p) ==
  [data EXCEPT !.num_fragments_received = 0, !.num_fragments_total = d.num_fragments,
               !.packet_data = p]

\* Mutant: the entry is not removed.
Unallocated_Stays(e, d) ==
  LET opened == Opened(e, d)
  IN  Count([opened EXCEPT !.fragment_reassembly =
               Reassembly!Write(@, d.sequence, Begin(Reassembly!Find(@, d.sequence), d, NULL))],
            {"num_fragments_invalid"})

\* The allocation failed: the entry is removed and the fragment is dropped.
Unallocated(e, d) ==
  LET opened == Opened(e, d)
      begun == [opened EXCEPT !.fragment_reassembly =
                  Reassembly!Write(@, d.sequence,
                                   Begin(Reassembly!Find(@, d.sequence), d, NULL))]
  IN  Count([begun EXCEPT
               !.heap = FreePacketData(begun, {Reassembly!Slot(d.sequence)}),
               !.fragment_reassembly = Reassembly!RemoveWithCleanup(@, d.sequence)],
            {"num_fragments_invalid"})

\* Mutant: fragment_received is not cleared.
Allocated_KeepsBitmap(e, d, p) ==
  LET opened == Opened(e, d)
  IN  [opened EXCEPT
         !.heap[p] = [header |-> None,
                      data |-> [k \in 1 .. d.num_fragments * FragmentSize |-> Blank]],
         !.fragment_reassembly =
           Reassembly!Write(@, d.sequence,
             [Begin(Reassembly!Find(@, d.sequence), d, p) EXCEPT
                !.packet_bytes = 0, !.packet_header_bytes = 0])]

\* The allocation gave block p: it is zeroed, and the rest of the entry is.
Allocated(e, d, p) ==
  LET opened == Opened(e, d)
  IN  [opened EXCEPT
         !.heap[p] = [header |-> None,
                      data |-> [k \in 1 .. d.num_fragments * FragmentSize |-> Blank]],
         !.fragment_reassembly =
           Reassembly!Write(@, d.sequence,
             [Begin(Reassembly!Find(@, d.sequence), d, p) EXCEPT
                !.packet_bytes = 0, !.packet_header_bytes = 0, !.fragment_received = {}])]

\* reliable_store_fragment_data on the entry: the lengths.
StoreLengths(data, d) ==
  [data EXCEPT
     !.num_fragments_received = @ + 1,
     !.fragment_received = @ \cup {d.fragment_id},
     !.packet_header_bytes = IF d.fragment_id = 0 THEN HeaderBytes(d.header) ELSE @,
     !.packet_bytes = IF d.fragment_id = data.num_fragments_total - 1
                      THEN (data.num_fragments_total - 1) * FragmentSize + Len(d.content)
                      ELSE @]

\* reliable_store_fragment_data on the block: the header, written before the
\* data, and the fragment, unless it would end beyond the block.
StoreBytes(block, data, d) ==
  LET offset == d.fragment_id * FragmentSize
      fits == offset + Len(d.content) <= data.num_fragments_total * FragmentSize
  IN  [header |-> IF d.fragment_id = 0 THEN d.header ELSE block.header,
       data |-> IF fits
                THEN [k \in DOMAIN block.data |->
                        IF k - offset \in DOMAIN d.content THEN d.content[k - offset]
                                                           ELSE block.data[k]]
                ELSE block.data]

\* The fragment counted, marked and stored.
Store(e, d) ==
  LET data == Reassembly!Find(e.fragment_reassembly, d.sequence)
      p == data.packet_data
  IN  [e EXCEPT
         !.fragment_reassembly = Reassembly!Write(@, d.sequence, StoreLengths(data, d)),
         !.heap = [q \in Blocks |->
                     IF q # p THEN @[q]
                     ELSE IF Live(@, p) THEN StoreBytes(@[p], data, d) ELSE Corrupt]]

Complete(data) == data.num_fragments_received = data.num_fragments_total

\* What the recursive call is given: the header and the payload read out of the
\* block.  Bytes of no live block have no header.
Rebuilt(e, data) ==
  IF Live(e.heap, data.packet_data) /\ e.heap[data.packet_data].header # None
  THEN [header |-> e.heap[data.packet_data].header,
        content |-> SubSeq(e.heap[data.packet_data].data, 1, data.packet_bytes)]
  ELSE [header |-> None, content |-> <<>>]

Mismatched(e, d) ==
  Reassembly!Find(e.fragment_reassembly, d.sequence).num_fragments_total # d.num_fragments

AlreadyStored(e, d) ==
  d.fragment_id \in Reassembly!Find(e.fragment_reassembly, d.sequence).fragment_received

ReceiveFragmentTooLarge(d) ==
  /\ d.type = "fragment" /\ ~PassesGate(FragmentBytes(d))
  /\ endpoint' = Count(endpoint, {"num_packets_too_large_to_receive"})

\* A bad header, a stale packet, or another fragment count than the entry's.
ReceiveInvalidFragment(d) ==
  /\ d.type = "fragment" /\ PassesGate(FragmentBytes(d))
  /\ \/ ~ReadFragmentHeader(d)
     \/ Wanted(endpoint, d) /\ ~HasEntry(endpoint, d) /\ ~MayOpen(endpoint, d)
     \/ Wanted(endpoint, d) /\ HasEntry(endpoint, d) /\ Mismatched(endpoint, d)
  /\ endpoint' = Count(endpoint, {"num_fragments_invalid"})

IgnoreFragment(d) ==
  /\ d.type = "fragment" /\ PassesGate(FragmentBytes(d)) /\ ReadFragmentHeader(d)
  /\ \/ Received!Exists(endpoint.received_packets, d.sequence)
     \/ /\ Wanted(endpoint, d) /\ HasEntry(endpoint, d)
        /\ ~Mismatched(endpoint, d) /\ AlreadyStored(endpoint, d)
  /\ UNCHANGED endpoint

\* The endpoints a wanted fragment may be stored in: as it is, or with an entry
\* opened for it in any block the allocator gives.
Prepared(e, d) ==
  IF HasEntry(e, d)
  THEN {f \in {e} : ~Mismatched(f, d) /\ ~AlreadyStored(f, d)}
  ELSE IF MayOpen(e, d)
       THEN {Allocated(e, d, p) : p \in Allocations(Opened(e, d).heap) \ {NULL}}
       ELSE {}

FailToAllocate(d) ==
  /\ d.type = "fragment" /\ Wanted(endpoint, d)
  /\ ~HasEntry(endpoint, d) /\ MayOpen(endpoint, d)
  /\ endpoint' = Unallocated(endpoint, d)

\* A fragment that is stored, and the recursive call if it is the last one.
ReceiveFragment(d, answer) ==
  /\ d.type = "fragment" /\ Wanted(endpoint, d)
  /\ \E prepared \in Prepared(endpoint, d) :
       LET stored == Store(prepared, d)
           data == Reassembly!Find(stored.fragment_reassembly, d.sequence)
           packet == Rebuilt(stored, data)
       IN  IF Complete(data)
           THEN /\ (answer = "unused") <=> ~Processes(stored, packet.header, packet.content)
                /\ endpoint' = Finish(Arrive(stored, packet.header, packet.content),
                                      packet.header, d.sequence, TRUE, answer)
           ELSE /\ answer = "unused"
                /\ endpoint' = Count(stored, {"num_fragments_received"})

-----------------------------------------------------------------------------
(* The other operations *)

ClearAcks == endpoint' = [endpoint EXCEPT !.acks = <<>>]

\* Mutant: the buffers of packets under reassembly are not freed.
ResetOf_Leaks(e) ==
  [Created EXCEPT
     !.sent_packets = Sent!Reset(e.sent_packets),
     !.received_packets = Received!Reset(e.received_packets),
     !.fragment_reassembly = Reassembly!Reset(e.fragment_reassembly),
     !.heap = e.heap]

\* reset frees the packet_data of the occupied slots and clears the pointers,
\* then empties the slots.
ResetOf(e) ==
  LET occupied == Reassembly!Occupied(e.fragment_reassembly)
  IN  [Created EXCEPT
         !.sent_packets = Sent!Reset(e.sent_packets),
         !.received_packets = Received!Reset(e.received_packets),
         !.fragment_reassembly = Reassembly!Reset(Reassembly!Cleaned(e.fragment_reassembly, occupied)),
         !.heap = FreePacketData(e, occupied)]

Reset == endpoint' = ResetOf(endpoint)

Init == endpoint = Created

ReceivePacket(d, answer) ==
  \/ ReceiveRegular(d, answer)
  \/ ReceiveFragment(d, answer)
  \/ /\ answer = "unused"
     /\ \/ ReceiveFragmentTooLarge(d)
        \/ ReceiveInvalidFragment(d)
        \/ IgnoreFragment(d)
        \/ FailToAllocate(d)

Next ==
  \/ \E content \in Packets : SendPacket(content) \/ SendTooLarge(content)
  \/ \E d \in Datagrams, answer \in Answers : ReceivePacket(d, answer)
  \/ ClearAcks
  \/ Reset

Spec == Init /\ [][Next]_endpoint
=============================================================================
