--------------------------- MODULE EndpointProofs ---------------------------
(***************************************************************************)
(* Theorems about one endpoint, for every value of the constants.          *)
(*                                                                         *)
(* The inductive invariant is TypeOK /\ WindowsInLockStep /\               *)
(* ReassemblyConsistent: the type of a rebuilt packet's header is only     *)
(* known from the consistency of its reassembly entry.                     *)
(*                                                                         *)
(* The second half adds the three windows, and what a step may never do to *)
(* them, for every configuration whose buffer sizes divide the number      *)
(* space, as the default sizes do. Its inductive invariant, WindowInv,     *)
(* adds the sent window at the next number to send and every entry inside  *)
(* its window.                                                             *)
(*                                                                         *)
(* The last part is about an endpoint whose datagrams come from a real     *)
(* sender: behind each 16-bit number is an identity, the position of the   *)
(* packet in the sequence of all packets sent. Its lemmas say what a step  *)
(* does in terms of identities, as long as those that arrive are within    *)
(* reach of the window; ConnectionProofs uses them for both ends of a      *)
(* connection.                                                             *)
(***************************************************************************)
EXTENDS EndpointProperties, FiniteSetTheorems, TLAPS

\* What an empty slot of sent_packets holds.
NotAcked == FALSE

SentBuffer == INSTANCE SequenceBufferProofs
                WITH NumEntries <- SentPacketsBufferSize, Default <- NotAcked
ReceivedBuffer == INSTANCE SequenceBufferProofs
                    WITH NumEntries <- ReceivedPacketsBufferSize, Default <- None
ReassemblyBuffer == INSTANCE SequenceBufferProofs
                      WITH NumEntries <- FragmentReassemblyBufferSize,
                           Default <- EmptyReassembly

\* Where a window at sequence number q stands once it has seen s.
Moved(q, s) == IF SequenceGreaterThan(WrapAdd(s, 1), q) THEN WrapAdd(s, 1) ELSE q

IInv == TypeOK /\ WindowsInLockStep /\ ReassemblyConsistent

-----------------------------------------------------------------------------
(* The three instances of the buffer's lemmas speak of the endpoint's own  *)
(* buffers.                                                                *)

\* The operations of Sent are those of SentBuffer.
LEMMA SentLink ==
  /\ Sent!SequenceNumber = SequenceNumber
  /\ SentBuffer!SequenceNumber = SequenceNumber
  /\ Sent!Index = 0 .. SentPacketsBufferSize - 1
  /\ SentBuffer!Index = 0 .. SentPacketsBufferSize - 1
  /\ SentBuffer!New = Sent!New
  /\ \A Data : SentBuffer!BufferOf(Data) = Sent!BufferOf(Data)
  /\ \A s : SentBuffer!Slot(s) = Sent!Slot(s)
  /\ \A q, s : SentBuffer!Moved(q, s) = Moved(q, s)
  /\ \A b, s : SentBuffer!Advance(b, s) = Sent!Advance(b, s)
  /\ \A b, s, data : SentBuffer!Insert(b, s, data) = Sent!Insert(b, s, data)
BY DEF NotAcked, Sent!Index, SentBuffer!Index, Sent!New, SentBuffer!New,
   Sent!BufferOf, SentBuffer!BufferOf, Sent!Slot, SentBuffer!Slot,
   Sent!Advance, SentBuffer!Advance, Sent!Insert, SentBuffer!Insert,
   Sent!Advances, SentBuffer!Advances, Sent!RemoveEntries,
   SentBuffer!RemoveEntries, Sent!RemovedSlots, SentBuffer!RemovedSlots,
   Sent!Fill, SentBuffer!Fill, SentBuffer!Moved, Moved, WrapAdd,
   SequenceGreaterThan, HalfModulus, SequenceNumber, Sent!WrapAdd,
   SentBuffer!WrapAdd, Sent!SequenceGreaterThan,
   SentBuffer!SequenceGreaterThan, Sent!HalfModulus, SentBuffer!HalfModulus,
   Sent!SequenceNumber, SentBuffer!SequenceNumber

\* The operations of Received are those of ReceivedBuffer.
LEMMA ReceivedLink ==
  /\ Received!SequenceNumber = SequenceNumber
  /\ ReceivedBuffer!SequenceNumber = SequenceNumber
  /\ Received!Index = 0 .. ReceivedPacketsBufferSize - 1
  /\ ReceivedBuffer!Index = 0 .. ReceivedPacketsBufferSize - 1
  /\ ReceivedBuffer!New = Received!New
  /\ \A Data : ReceivedBuffer!BufferOf(Data) = Received!BufferOf(Data)
  /\ \A s : ReceivedBuffer!Slot(s) = Received!Slot(s)
  /\ \A q, s : ReceivedBuffer!Moved(q, s) = Moved(q, s)
  /\ \A b, s : ReceivedBuffer!Advance(b, s) = Received!Advance(b, s)
  /\ \A b, s, data : ReceivedBuffer!Insert(b, s, data) = Received!Insert(b, s, data)
BY DEF Received!Index, ReceivedBuffer!Index, Received!New, ReceivedBuffer!New,
   Received!BufferOf, ReceivedBuffer!BufferOf, Received!Slot,
   ReceivedBuffer!Slot, Received!Advance, ReceivedBuffer!Advance,
   Received!Insert, ReceivedBuffer!Insert, Received!Advances,
   ReceivedBuffer!Advances, Received!RemoveEntries,
   ReceivedBuffer!RemoveEntries, Received!RemovedSlots,
   ReceivedBuffer!RemovedSlots, Received!Fill, ReceivedBuffer!Fill,
   ReceivedBuffer!Moved, Moved, WrapAdd, SequenceGreaterThan, HalfModulus,
   SequenceNumber, Received!WrapAdd, ReceivedBuffer!WrapAdd,
   Received!SequenceGreaterThan, ReceivedBuffer!SequenceGreaterThan,
   Received!HalfModulus, ReceivedBuffer!HalfModulus, Received!SequenceNumber,
   ReceivedBuffer!SequenceNumber

\* The operations of Reassembly are those of ReassemblyBuffer.
LEMMA ReassemblyLink ==
  /\ Reassembly!SequenceNumber = SequenceNumber
  /\ ReassemblyBuffer!SequenceNumber = SequenceNumber
  /\ Reassembly!Index = 0 .. FragmentReassemblyBufferSize - 1
  /\ ReassemblyBuffer!Index = 0 .. FragmentReassemblyBufferSize - 1
  /\ ReassemblyBuffer!New = Reassembly!New
  /\ \A Data : ReassemblyBuffer!BufferOf(Data) = Reassembly!BufferOf(Data)
  /\ \A s : ReassemblyBuffer!Slot(s) = Reassembly!Slot(s)
  /\ \A q, s : ReassemblyBuffer!Moved(q, s) = Moved(q, s)
  /\ \A b, s : ReassemblyBuffer!Advance(b, s) = Reassembly!Advance(b, s)
  /\ \A b, s, data : ReassemblyBuffer!Insert(b, s, data) = Reassembly!Insert(b, s, data)
  /\ \A b, s, data : ReassemblyBuffer!InsertAdvanceFirst(b, s, data) = Reassembly!InsertAdvanceFirst(b, s, data)
  /\ \A b, s, data : ReassemblyBuffer!Update(b, s, data) = Reassembly!Update(b, s, data)
  /\ \A b, s : ReassemblyBuffer!Remove(b, s) = Reassembly!Remove(b, s)
BY DEF Reassembly!Index, ReassemblyBuffer!Index, Reassembly!New,
   ReassemblyBuffer!New, Reassembly!BufferOf, ReassemblyBuffer!BufferOf,
   Reassembly!Slot, ReassemblyBuffer!Slot, Reassembly!Advance,
   ReassemblyBuffer!Advance, Reassembly!Insert, ReassemblyBuffer!Insert,
   Reassembly!InsertAdvanceFirst, ReassemblyBuffer!InsertAdvanceFirst,
   Reassembly!Update, ReassemblyBuffer!Update, Reassembly!Remove,
   ReassemblyBuffer!Remove, Reassembly!Advances, ReassemblyBuffer!Advances,
   Reassembly!RemoveEntries, ReassemblyBuffer!RemoveEntries,
   Reassembly!RemovedSlots, ReassemblyBuffer!RemovedSlots, Reassembly!Fill,
   ReassemblyBuffer!Fill, ReassemblyBuffer!Moved, Moved, WrapAdd,
   SequenceGreaterThan, HalfModulus, SequenceNumber, Reassembly!WrapAdd,
   ReassemblyBuffer!WrapAdd, Reassembly!SequenceGreaterThan,
   ReassemblyBuffer!SequenceGreaterThan, Reassembly!HalfModulus,
   ReassemblyBuffer!HalfModulus, Reassembly!SequenceNumber,
   ReassemblyBuffer!SequenceNumber

-----------------------------------------------------------------------------
(* The operations on the three buffers *)

\* An empty reassembly entry has the type of an entry.
LEMMA EmptyReassemblyType == EmptyReassembly \in ReassemblyData
BY DEF EmptyReassembly, ReassemblyData

\* Endpoint::new and reset leave three well-typed, empty buffers.
LEMMA NewBuffers ==
  /\ Sent!New \in Sent!BufferOf(BOOLEAN) /\ Sent!New.sequence = 0
  /\ Received!New \in Received!BufferOf({None}) /\ Received!New.sequence = 0
  /\ Reassembly!New \in Reassembly!BufferOf(ReassemblyData)
  /\ Reassembly!New.sequence = 0
  /\ \A i \in Reassembly!Index : /\ Reassembly!New.entry_sequence[i] = None
                                 /\ Reassembly!New.entries[i] = EmptyReassembly
<1> USE ConfigAssumption, DataAssumption, SequenceModulusAssumption, SentLink,
        ReceivedLink, ReassemblyLink
<1>1. /\ SentBuffer!New \in SentBuffer!BufferOf(BOOLEAN)
      /\ SentBuffer!New.sequence = 0
  BY SentBuffer!NewType DEF NotAcked
<1>2. /\ ReceivedBuffer!New \in ReceivedBuffer!BufferOf({None})
      /\ ReceivedBuffer!New.sequence = 0
  BY ReceivedBuffer!NewType
<1>3. /\ ReassemblyBuffer!New \in ReassemblyBuffer!BufferOf(ReassemblyData)
      /\ ReassemblyBuffer!New.sequence = 0
      /\ \A i \in ReassemblyBuffer!Index :
           /\ ReassemblyBuffer!New.entry_sequence[i] = None
           /\ ReassemblyBuffer!New.entries[i] = EmptyReassembly
  BY ReassemblyBuffer!NewType, EmptyReassemblyType
<1> QED BY <1>1, <1>2, <1>3

\* send_packet's insert moves the sent window past the packet.
LEMMA SentInsert ==
  ASSUME NEW c \in Sent!BufferOf(BOOLEAN), NEW s \in SequenceNumber
  PROVE  /\ Sent!Insert(c, s, FALSE) \in Sent!BufferOf(BOOLEAN)
         /\ Sent!Insert(c, s, FALSE).sequence = Moved(c.sequence, s)
<1>1. c \in SentBuffer!BufferOf(BOOLEAN) /\ s \in SentBuffer!SequenceNumber
  BY SentLink
<1>2. NotAcked \in BOOLEAN
  BY DEF NotAcked
<1>3. /\ SentBuffer!Insert(c, s, NotAcked) \in SentBuffer!BufferOf(BOOLEAN)
      /\ SentBuffer!Insert(c, s, NotAcked).sequence = SentBuffer!Moved(c.sequence, s)
  BY <1>1, <1>2, SentBuffer!InsertType, ConfigAssumption, DataAssumption,
     SequenceModulusAssumption, SentLink
<1> QED BY <1>3, SentLink DEF NotAcked

\* Advancing the received window, and marking a packet as received.
LEMMA ReceivedMove ==
  ASSUME NEW c \in Received!BufferOf({None}), NEW s \in SequenceNumber
  PROVE  /\ Received!Advance(c, s) \in Received!BufferOf({None})
         /\ Received!Advance(c, s).sequence = Moved(c.sequence, s)
         /\ Received!Insert(c, s, None) \in Received!BufferOf({None})
         /\ Received!Insert(c, s, None).sequence = Moved(c.sequence, s)
<1>1. c \in ReceivedBuffer!BufferOf({None}) /\ s \in ReceivedBuffer!SequenceNumber
  BY ReceivedLink
<1> USE ConfigAssumption, DataAssumption, SequenceModulusAssumption, ReceivedLink
<1>2. /\ ReceivedBuffer!Advance(c, s) \in ReceivedBuffer!BufferOf({None})
      /\ ReceivedBuffer!Advance(c, s).sequence = ReceivedBuffer!Moved(c.sequence, s)
  BY <1>1, ReceivedBuffer!AdvanceType
<1>3. /\ ReceivedBuffer!Insert(c, s, None) \in ReceivedBuffer!BufferOf({None})
      /\ ReceivedBuffer!Insert(c, s, None).sequence = ReceivedBuffer!Moved(c.sequence, s)
  BY <1>1, ReceivedBuffer!InsertType
<1> QED BY <1>2, <1>3

\* Every slot of reassembly buffer c is as ReassemblyConsistent says, except that
\* the entries in `slots` may be of any kind, as that of a packet being rebuilt.
SlotConsistent(s, r) ==
  IF s = None THEN r = EmptyReassembly
  ELSE /\ EntryConsistent(s, r)
       /\ r.num_fragments_received \in 1 .. r.num_fragments_total - 1

ConsistentOutside(c, slots) ==
  \A i \in Reassembly!Index :
    \/ i \in slots /\ c.entry_sequence[i] # None
    \/ SlotConsistent(c.entry_sequence[i], c.entries[i])

\* The invariant in these terms.
LEMMA ConsistentEverywhere ==
  /\ ReassemblyConsistent <=> ConsistentOutside(fragment_reassembly, {})
  /\ ReassemblyConsistent' <=> ConsistentOutside(fragment_reassembly', {})
BY ReassemblyLink DEF ReassemblyConsistent, ConsistentOutside, SlotConsistent

\* Advancing the reassembly window only empties slots.
LEMMA ReassemblyAdvance ==
  ASSUME NEW c \in Reassembly!BufferOf(ReassemblyData), NEW s \in SequenceNumber,
         NEW slots, ConsistentOutside(c, slots)
  PROVE  /\ Reassembly!Advance(c, s) \in Reassembly!BufferOf(ReassemblyData)
         /\ Reassembly!Advance(c, s).sequence = Moved(c.sequence, s)
         /\ ConsistentOutside(Reassembly!Advance(c, s), slots)
<1>1. c \in ReassemblyBuffer!BufferOf(ReassemblyData)
      /\ s \in ReassemblyBuffer!SequenceNumber
  BY ReassemblyLink
<1>2. /\ ReassemblyBuffer!Advance(c, s) \in ReassemblyBuffer!BufferOf(ReassemblyData)
      /\ ReassemblyBuffer!Advance(c, s).sequence = ReassemblyBuffer!Moved(c.sequence, s)
      /\ ReassemblyBuffer!HoldsNoMore(ReassemblyBuffer!Advance(c, s), c)
  BY <1>1, ReassemblyBuffer!AdvanceType, EmptyReassemblyType, ConfigAssumption,
     DataAssumption, SequenceModulusAssumption, ReassemblyLink
<1>3. ReassemblyBuffer!HoldsNoMore(Reassembly!Advance(c, s), c)
  BY <1>2, ReassemblyLink
<1>4. ConsistentOutside(Reassembly!Advance(c, s), slots)
  BY <1>3, ReassemblyLink
  DEF ConsistentOutside, ReassemblyBuffer!HoldsNoMore, SlotConsistent
<1> QED BY <1>2, <1>4, ReassemblyLink

\* Removing an entry leaves nothing in its slot.
LEMMA ReassemblyRemove ==
  ASSUME NEW c \in Reassembly!BufferOf(ReassemblyData), NEW s \in SequenceNumber,
         ConsistentOutside(c, {Reassembly!Slot(s)})
  PROVE  /\ Reassembly!Remove(c, s) \in Reassembly!BufferOf(ReassemblyData)
         /\ Reassembly!Remove(c, s).sequence = c.sequence
         /\ ConsistentOutside(Reassembly!Remove(c, s), {})
<1>1. c \in ReassemblyBuffer!BufferOf(ReassemblyData)
      /\ s \in ReassemblyBuffer!SequenceNumber
  BY ReassemblyLink
<1> DEFINE e == ReassemblyBuffer!Remove(c, s)
<1>2. /\ e \in ReassemblyBuffer!BufferOf(ReassemblyData)
      /\ e.sequence = c.sequence
      /\ e.entry_sequence[ReassemblyBuffer!Slot(s)] = None
      /\ ReassemblyBuffer!HoldsNoMore(e, c)
  BY <1>1, ReassemblyBuffer!RemoveType, EmptyReassemblyType, ConfigAssumption,
     DataAssumption, SequenceModulusAssumption, ReassemblyLink
<1>3. e = Reassembly!Remove(c, s)
  BY ReassemblyLink
<1> HIDE DEF e
<1>4. ConsistentOutside(e, {})
  <2> SUFFICES ASSUME NEW i \in Reassembly!Index
               PROVE  SlotConsistent(e.entry_sequence[i], e.entries[i])
    BY DEF ConsistentOutside
  <2>1. CASE i = Reassembly!Slot(s)
    BY <1>2, <2>1, ReassemblyLink
    DEF ConsistentOutside, ReassemblyBuffer!HoldsNoMore, SlotConsistent
  <2>2. CASE i # Reassembly!Slot(s)
    BY <1>2, <2>2, ReassemblyLink
    DEF ConsistentOutside, ReassemblyBuffer!HoldsNoMore, SlotConsistent
  <2> QED BY <2>1, <2>2
<1> QED BY <1>2, <1>3, <1>4, ReassemblyLink

-----------------------------------------------------------------------------
(* Fragments *)

\* The fields of a fragment datagram.
LEMMA FragmentType ==
  ASSUME NEW d \in Datagrams, d.type = "fragment"
  PROVE  /\ d.sequence \in SequenceNumber
         /\ d.fragment_id \in Nat
         /\ d.num_fragments \in Nat \ {0}
         /\ d.header \in Header \cup {None}
         /\ d.content \in Seq(Byte)
BY DataAssumption DEF Datagram

\* The pieces of a packet lie one after the other in its buffer.
LEMMA Pieces ==
  ASSUME NEW n \in Nat, NEW m \in Nat, NEW k \in Nat, n < m
  PROVE  /\ n * k \in Nat /\ m * k \in Nat
         /\ (n + 1) * k = n * k + k
         /\ (n + 1) * k <= m * k
<1>1. /\ n * k \in Nat /\ m * k \in Nat
      /\ (n + 1) * k = n * k + k
  OBVIOUS
<1>2. m * k = (n + 1) * k + (m - (n + 1)) * k
  OBVIOUS
<1>3. m - (n + 1) \in Nat
  OBVIOUS
<1>4. (m - (n + 1)) * k \in Nat
  BY <1>3
<1> QED BY <1>1, <1>2, <1>4

\* A fresh reassembly entry: the right size, blank, and without a fragment.
LEMMA NewReassemblyType ==
  ASSUME NEW d \in Datagrams, d.type = "fragment"
  PROVE  /\ NewReassembly(d) \in ReassemblyData
         /\ NewReassembly(d).num_fragments_total = d.num_fragments
         /\ EntryConsistent(d.sequence, NewReassembly(d))
<1> DEFINE size == d.num_fragments * FragmentSize
           data == [k \in 1 .. size |-> Blank]
           r == NewReassembly(d)
<1>1. size \in Nat /\ d.num_fragments \in Nat \ {0} /\ FragmentSize \in Nat \ {0}
  BY FragmentType, ConfigAssumption
<1>2. data \in Seq(Byte) /\ Len(data) = size /\ \A k \in 1 .. size : data[k] = Blank
  <2> HIDE DEF size
  <2> QED BY <1>1, DataAssumption
<1>3. /\ r.num_fragments_received = 0
      /\ r.num_fragments_total = d.num_fragments
      /\ r.fragment_received = {}
      /\ r.packet_data = data
      /\ r.packet_bytes = 0
      /\ r.header = None
      /\ r \in [num_fragments_received : {0}, num_fragments_total : {d.num_fragments},
                fragment_received : {{}}, packet_data : {data}, packet_bytes : {0},
                header : {None}]
  BY DEF NewReassembly, EmptyReassembly
<1> HIDE DEF data, r
<1>4. r \in ReassemblyData
  <2> HIDE DEF size
  <2> QED BY <1>1, <1>2, <1>3 DEF ReassemblyData
<1>5. EntryConsistent(d.sequence, r)
  <2>1. Cardinality({}) = 0
    BY FS_EmptySet
  <2>2. ASSUME NEW id \in 0 .. d.num_fragments - 1,
               NEW k \in id * FragmentSize + 1 .. (id + 1) * FragmentSize
        PROVE  data[k] = Blank
    <3>1. id * FragmentSize \in Nat /\ (id + 1) * FragmentSize <= size
      BY <1>1, Pieces
    <3>2. k \in 1 .. size
      <4> HIDE DEF size
      <4> QED BY <3>1, <1>1
    <3> QED BY <3>2, <1>2
  <2> HIDE DEF size
  <2> QED BY <1>1, <1>2, <1>3, <2>1, <2>2 DEF EntryConsistent, size
<1> QED BY <1>3, <1>4, <1>5 DEF r

\* store_fragment keeps an entry consistent, and adds one fragment to it.
LEMMA StoreFragmentType ==
  ASSUME NEW d \in Datagrams, Readable(d), NEW r \in ReassemblyData,
         EntryConsistent(d.sequence, r),
         r.num_fragments_total = d.num_fragments,
         d.fragment_id \notin r.fragment_received
  PROVE  /\ StoreFragment(r, d) \in ReassemblyData
         /\ StoreFragment(r, d).num_fragments_total = d.num_fragments
         /\ StoreFragment(r, d).num_fragments_received \in 1 .. d.num_fragments
         /\ EntryConsistent(d.sequence, StoreFragment(r, d))
<1> DEFINE q == StoreFragment(r, d)
           id == d.fragment_id
           offset == id * FragmentSize
           total == d.num_fragments
           filled == [k \in DOMAIN r.packet_data |->
                        IF k - offset \in DOMAIN d.content
                        THEN d.content[k - offset] ELSE r.packet_data[k]]
           last == id = total - 1
           overrun == offset + Len(d.content) > Len(r.packet_data)
<1>1. /\ id \in Nat /\ total \in Nat \ {0} /\ FragmentSize \in Nat \ {0}
      /\ id < total /\ d.sequence \in SequenceNumber
      /\ d.header \in Header \cup {None} /\ d.content \in Seq(Byte)
      /\ id = 0 => d.header # None /\ d.header.sequence = d.sequence
      /\ Len(d.content) <= FragmentSize
  BY FragmentType, ConfigAssumption DEF Readable, ValidFragment
<1>2. /\ r.num_fragments_received \in Nat /\ r.fragment_received \in SUBSET Nat
      /\ r.packet_data \in Seq(Byte) /\ r.packet_bytes \in Nat
      /\ r.header \in Header \cup {None}
  BY DEF ReassemblyData
<1>3. /\ q.num_fragments_received = r.num_fragments_received + 1
      /\ q.num_fragments_total = total
      /\ q.fragment_received = r.fragment_received \cup {id}
      /\ q.header = IF id = 0 THEN d.header ELSE r.header
      /\ q.packet_bytes = IF last THEN (total - 1) * FragmentSize + Len(d.content)
                          ELSE r.packet_bytes
      /\ q.packet_data = IF overrun THEN r.packet_data ELSE filled
  BY DEF StoreFragment, ReassemblyData
<1>4. DOMAIN q = DOMAIN r /\ q = [q EXCEPT !.header = q.header]
  BY DEF StoreFragment, ReassemblyData
<1>5. /\ offset \in Nat /\ total * FragmentSize \in Nat
      /\ offset + FragmentSize <= total * FragmentSize
      /\ (total - 1) * FragmentSize \in Nat
      /\ (total - 1) * FragmentSize + FragmentSize = total * FragmentSize
  <2>1. /\ id * FragmentSize \in Nat /\ total * FragmentSize \in Nat
        /\ id * FragmentSize + FragmentSize <= total * FragmentSize
    BY <1>1, Pieces
  <2>2. total - 1 \in Nat /\ total - 1 < total /\ (total - 1) + 1 = total
    BY <1>1
  <2>3. /\ (total - 1) * FragmentSize \in Nat
        /\ ((total - 1) + 1) * FragmentSize = (total - 1) * FragmentSize + FragmentSize
    BY <1>1, <2>2, Pieces
  <2> QED BY <2>1, <2>2, <2>3
<1>6. /\ filled \in Seq(Byte) /\ Len(filled) = Len(r.packet_data)
  <2>1. /\ Len(r.packet_data) \in Nat
        /\ DOMAIN r.packet_data = 1 .. Len(r.packet_data)
        /\ DOMAIN d.content = 1 .. Len(d.content)
        /\ \A k \in DOMAIN r.packet_data : r.packet_data[k] \in Byte
        /\ \A k \in DOMAIN d.content : d.content[k] \in Byte
    BY <1>1, <1>2
  <2>2. filled \in [1 .. Len(r.packet_data) -> Byte]
    <3> HIDE DEF offset
    <3> QED BY <2>1
  <2> HIDE DEF filled
  <2> QED BY <2>1, <2>2
<1> HIDE DEF q, filled, offset, total, id
<1>7. /\ q.packet_data \in Seq(Byte) /\ Len(q.packet_data) = Len(r.packet_data)
  BY <1>2, <1>3, <1>6
<1>8. Len(r.packet_data) = total * FragmentSize /\ r.packet_bytes <= Len(r.packet_data)
  BY DEF EntryConsistent, total
<1>9. q.packet_bytes \in Nat /\ q.packet_bytes <= Len(q.packet_data)
  <2>1. Len(d.content) \in Nat
    BY <1>1
  <2>2. CASE last
    <3> DEFINE base == (total - 1) * FragmentSize
               size == total * FragmentSize
    <3>1. base \in Nat /\ size \in Nat /\ base + FragmentSize = size
      BY <1>5
    <3>2. q.packet_bytes = base + Len(d.content) /\ Len(q.packet_data) = size
      BY <1>3, <1>7, <1>8, <2>2
    <3> HIDE DEF base, size
    <3> QED BY <1>1, <2>1, <3>1, <3>2
  <2>3. CASE ~last
    BY <1>2, <1>3, <1>7, <1>8, <2>3
  <2> QED BY <2>2, <2>3
<1>10. /\ q.fragment_received \subseteq 0 .. total - 1
       /\ q.num_fragments_received = Cardinality(q.fragment_received)
       /\ q.num_fragments_received \in 1 .. total
  <2>1. r.fragment_received \subseteq 0 .. total - 1
    BY DEF EntryConsistent, total
  <2>2. /\ IsFiniteSet(0 .. total - 1) /\ Cardinality(0 .. total - 1) = total
    BY <1>1, FS_Interval
  <2>3. IsFiniteSet(r.fragment_received)
    BY <2>1, <2>2, FS_Subset
  <2>4. Cardinality(q.fragment_received) = Cardinality(r.fragment_received) + 1
    BY <1>3, <2>3, FS_AddElement DEF id
  <2>5. q.fragment_received \subseteq 0 .. total - 1
    BY <1>1, <1>3, <2>1
  <2>6. Cardinality(q.fragment_received) <= total
    BY <2>2, <2>5, FS_Subset
  <2>7. q.num_fragments_received = Cardinality(q.fragment_received)
    BY <1>3, <2>4 DEF EntryConsistent
  <2>8. q.num_fragments_received \in 1 .. total
    BY <1>1, <1>2, <1>3, <2>6, <2>7
  <2> QED BY <2>5, <2>7, <2>8
<1>11. /\ q.header \in Header \cup {None}
       /\ (q.header # None) <=> (0 \in q.fragment_received)
       /\ q.header # None => q.header.sequence = d.sequence
  BY <1>1, <1>2, <1>3 DEF EntryConsistent
<1>12. ASSUME NEW other \in 0 .. total - 1, other \notin q.fragment_received,
              NEW k \in other * FragmentSize + 1 .. (other + 1) * FragmentSize
       PROVE  q.packet_data[k] = Blank
  <2>1. other # id /\ other \notin r.fragment_received
    BY <1>3, <1>12
  <2>2. r.packet_data[k] = Blank
    BY <1>12, <2>1 DEF EntryConsistent, total
  <2>3. /\ other * FragmentSize \in Nat
        /\ (other + 1) * FragmentSize \in Nat
        /\ (other + 1) * FragmentSize <= total * FragmentSize
    <3>1. other \in Nat /\ other < total
      BY <1>1
    <3> QED BY <1>1, <3>1, Pieces
  <2>4. k \in 1 .. total * FragmentSize
    BY <1>5, <2>3
  <2>5. \/ k <= offset
        \/ k > offset + FragmentSize
    <3>0. other \in Nat /\ id \in Nat /\ FragmentSize \in Nat
      BY <1>1
    <3>1. CASE other < id
      <4>1. (other + 1) * FragmentSize <= id * FragmentSize
        BY <3>0, <3>1, Pieces
      <4> QED BY <4>1, <2>3, <1>5 DEF offset
    <3>2. CASE id < other
      <4>1. /\ (id + 1) * FragmentSize = id * FragmentSize + FragmentSize
            /\ (id + 1) * FragmentSize <= other * FragmentSize
        BY <3>0, <3>2, Pieces
      <4> QED BY <4>1, <2>3, <1>5, <1>1 DEF offset
    <3> QED BY <1>1, <2>1, <3>1, <3>2
  <2>6. k - offset \notin DOMAIN d.content
    <3>1. DOMAIN d.content = 1 .. Len(d.content) /\ Len(d.content) \in Nat
      BY <1>1
    <3>2. k \in Nat /\ offset \in Nat
      BY <1>5, <2>3
    <3> HIDE DEF offset
    <3> QED BY <1>1, <2>5, <3>1, <3>2
  <2>7. k \in DOMAIN r.packet_data
    BY <1>2, <1>8, <2>4
  <2>8. filled[k] = r.packet_data[k]
    BY <2>6, <2>7 DEF filled
  <2> QED BY <1>3, <2>2, <2>8
<1>13. EntryConsistent(d.sequence, q)
  BY <1>3, <1>7, <1>8, <1>9, <1>10, <1>11, <1>12 DEF EntryConsistent
<1>14. q \in ReassemblyData
  <2>1. q \in [num_fragments_received : {q.num_fragments_received},
               num_fragments_total : {q.num_fragments_total},
               fragment_received : {q.fragment_received},
               packet_data : {q.packet_data}, packet_bytes : {q.packet_bytes},
               header : {q.header}]
    BY <1>4 DEF q, StoreFragment, ReassemblyData
  <2>2. q.num_fragments_received \in Nat /\ q.num_fragments_total \in Nat
    BY <1>1, <1>2, <1>3
  <2>3. q.fragment_received \in SUBSET Nat
    BY <1>1, <1>2, <1>3
  <2> QED BY <2>1, <2>2, <2>3, <1>7, <1>9, <1>11 DEF ReassemblyData
<1> QED BY <1>3, <1>10, <1>13, <1>14 DEF q, total

\* An entry whose count is complete has the header of fragment 0, and that
\* header names the entry's packet.
LEMMA CompleteHasHeader ==
  ASSUME NEW s, NEW r \in ReassemblyData, EntryConsistent(s, r),
         r.num_fragments_total \in Nat \ {0},
         r.num_fragments_received = r.num_fragments_total
  PROVE  r.header \in Header /\ r.header.sequence = s
<1> DEFINE total == r.num_fragments_total
<1>1. IsFiniteSet(0 .. total - 1) /\ Cardinality(0 .. total - 1) = total
  <2>1. 0 \in Int /\ total - 1 \in Int /\ ~(0 > total - 1)
    OBVIOUS
  <2>2. total = (total - 1) - 0 + 1
    OBVIOUS
  <2> HIDE DEF total
  <2> QED BY <2>1, <2>2, FS_Interval
<1>2. r.fragment_received = 0 .. total - 1
  BY <1>1, FS_Subset DEF EntryConsistent
<1>3. 0 \in r.fragment_received
  BY <1>2
<1> QED BY <1>3 DEF EntryConsistent, ReassemblyData

\* The entry a fragment is stored in is consistent, whether found or opened.
LEMMA EntryType ==
  ASSUME TypeOK, ReassemblyConsistent, NEW d \in Datagrams, Readable(d)
  PROVE  /\ Entry(d) \in ReassemblyData
         /\ EntryConsistent(d.sequence, Entry(d))
<1>1. d.type = "fragment" /\ d.sequence \in SequenceNumber
  BY FragmentType DEF Readable
<1>2. CASE ~Reassembly!Exists(fragment_reassembly, d.sequence)
  BY <1>1, <1>2, NewReassemblyType DEF Entry
<1>3. CASE Reassembly!Exists(fragment_reassembly, d.sequence)
  <2>1. Reassembly!Slot(d.sequence) \in 0 .. FragmentReassemblyBufferSize - 1
    BY <1>1, ConfigAssumption, SequenceModulusAssumption
    DEF Reassembly!Slot, SequenceNumber
  <2>2. /\ fragment_reassembly.entry_sequence[Reassembly!Slot(d.sequence)] = d.sequence
        /\ Entry(d) = fragment_reassembly.entries[Reassembly!Slot(d.sequence)]
    BY <1>3 DEF Entry, Reassembly!Exists, Reassembly!Find
  <2>3. d.sequence # None
    BY <1>1, DataAssumption
  <2>4. EntryConsistent(d.sequence, Entry(d))
    BY <2>1, <2>2, <2>3 DEF ReassemblyConsistent
  <2>5. Entry(d) \in ReassemblyData
    <3>1. fragment_reassembly.entries \in [Reassembly!Index -> ReassemblyData]
      BY DEF TypeOK, Reassembly!BufferOf
    <3> QED BY <2>1, <2>2, <3>1, ReassemblyLink
  <2> QED BY <2>4, <2>5
<1> QED BY <1>2, <1>3

\* The buffers after the entry of fragment d has been found or opened and set
\* to r: both windows moved alike, and only the packet's own slot is in doubt.
LEMMA OpenedBuffers ==
  ASSUME TypeOK, WindowsInLockStep, ReassemblyConsistent,
         NEW d \in Datagrams, d.type = "fragment", NEW r \in ReassemblyData
  PROVE  /\ ReassemblyWith(d, r) \in Reassembly!BufferOf(ReassemblyData)
         /\ ReceivedOnOpen(d) \in Received!BufferOf({None})
         /\ ReceivedOnOpen(d).sequence = ReassemblyWith(d, r).sequence
         /\ ReassemblyWith(d, r).entry_sequence[Reassembly!Slot(d.sequence)] = d.sequence
         /\ ReassemblyWith(d, r).entries[Reassembly!Slot(d.sequence)] = r
         /\ ConsistentOutside(ReassemblyWith(d, r), {Reassembly!Slot(d.sequence)})
<1> DEFINE s == d.sequence
           c == fragment_reassembly
           slot == Reassembly!Slot(s)
<1>1. /\ s \in SequenceNumber
      /\ c \in Reassembly!BufferOf(ReassemblyData)
      /\ received_packets \in Received!BufferOf({None})
      /\ ConsistentOutside(c, {})
  BY FragmentType, ConsistentEverywhere DEF TypeOK
<1>2. /\ c \in ReassemblyBuffer!BufferOf(ReassemblyData)
      /\ s \in ReassemblyBuffer!SequenceNumber
  BY <1>1, ReassemblyLink
<1>3. s # None
  BY <1>1, DataAssumption
<1> HIDE DEF s
<1>4. CASE Reassembly!Exists(c, s)
  <2> DEFINE e == ReassemblyBuffer!Update(c, s, r)
  <2>1. /\ e \in ReassemblyBuffer!BufferOf(ReassemblyData)
        /\ e.sequence = c.sequence
        /\ e.entry_sequence = c.entry_sequence
        /\ e.entries[ReassemblyBuffer!Slot(s)] = r
        /\ \A i \in ReassemblyBuffer!Index \ {ReassemblyBuffer!Slot(s)} :
             e.entries[i] = c.entries[i]
    BY <1>2, ReassemblyBuffer!UpdateType, EmptyReassemblyType, ConfigAssumption,
       DataAssumption, SequenceModulusAssumption, ReassemblyLink
  <2>2. e = ReassemblyWith(d, r) /\ ReceivedOnOpen(d) = received_packets
    BY <1>4, ReassemblyLink DEF ReassemblyWith, ReceivedOnOpen, s
  <2>3. c.entry_sequence[slot] = s
    BY <1>4 DEF Reassembly!Exists
  <2> HIDE DEF e
  <2>4. ConsistentOutside(e, {slot})
    BY <1>1, <1>3, <2>1, <2>3, ReassemblyLink DEF ConsistentOutside
  <2> QED BY <1>1, <2>1, <2>2, <2>3, <2>4, ReassemblyLink DEF WindowsInLockStep, s
<1>5. CASE ~Reassembly!Exists(c, s)
  <2> DEFINE e == ReassemblyBuffer!Insert(c, s, r)
  <2>1. /\ e \in ReassemblyBuffer!BufferOf(ReassemblyData)
        /\ e.sequence = ReassemblyBuffer!Moved(c.sequence, s)
        /\ e.entry_sequence[ReassemblyBuffer!Slot(s)] = s
        /\ e.entries[ReassemblyBuffer!Slot(s)] = r
        /\ \A i \in ReassemblyBuffer!Index \ {ReassemblyBuffer!Slot(s)} :
             \/ e.entry_sequence[i] = None /\ e.entries[i] = EmptyReassembly
             \/ /\ e.entry_sequence[i] = c.entry_sequence[i]
                /\ e.entries[i] = c.entries[i]
    BY <1>2, ReassemblyBuffer!InsertType, EmptyReassemblyType, ConfigAssumption,
       DataAssumption, SequenceModulusAssumption, ReassemblyLink
  <2>2. /\ e = ReassemblyWith(d, r)
        /\ ReceivedOnOpen(d) = Received!Advance(received_packets, s)
    <3>1. Reassembly!InsertAdvanceFirst(c, s, r) = Reassembly!Insert(c, s, r)
      BY DEF Reassembly!InsertAdvanceFirst, Reassembly!Insert
    <3> QED BY <1>5, <3>1, ReassemblyLink DEF ReassemblyWith, ReceivedOnOpen, s
  <2> HIDE DEF e
  <2>3. ConsistentOutside(e, {slot})
    BY <1>1, <1>3, <2>1, ReassemblyLink DEF ConsistentOutside, SlotConsistent
  <2>4. /\ ReceivedOnOpen(d) \in Received!BufferOf({None})
        /\ ReceivedOnOpen(d).sequence = Moved(received_packets.sequence, s)
    BY <1>1, <2>2, ReceivedMove
  <2> QED BY <2>1, <2>2, <2>3, <2>4, ReassemblyLink DEF WindowsInLockStep, s
<1> QED BY <1>4, <1>5

-----------------------------------------------------------------------------
(* Acks *)

\* The counters keep their type.
LEMMA IncrementType ==
  ASSUME NEW c \in CountersOf, NEW names, NEW name \in CounterNames, NEW n \in Nat
  PROVE  /\ Increment(c, names) \in CountersOf
         /\ Plus(c, name, n) \in CountersOf
BY CounterModulusAssumption DEF Increment, Plus, CountersOf

\* Subtraction wraps into the sequence numbers.
LEMMA WrapSubType == \A a, n \in Int : WrapSub(a, n) \in SequenceNumber
BY SequenceModulusAssumption DEF WrapSub, SequenceNumber

\* Appending acks to acks.
LEMMA ConcatType ==
  ASSUME NEW S, NEW a \in Seq(S), NEW c \in Seq(S)
  PROVE  a \o c \in Seq(S) /\ Len(a \o c) = Len(a) + Len(c)
OBVIOUS

\* The ack loop reports sequence numbers only, no more than there is room for,
\* and leaves the sent window alone.
LEMMA ProcessAcksType ==
  ASSUME TypeOK, NEW h \in Header, NEW names, ProcessAcks(h, names)
  PROVE  /\ acks' \in Seq(SequenceNumber) /\ Len(acks') <= AckBufferSize
         /\ sent_packets' \in Sent!BufferOf(BOOLEAN)
         /\ sent_packets'.sequence = sent_packets.sequence
         /\ counters' \in CountersOf
<1>1. PICK n \in 0 .. AckBits : \E reported \in [1 .. n -> Reportable(h)] :
        /\ n <= Room
        /\ acks' = acks \o [k \in 1 .. n |-> AckSequence(h, reported[k])]
        /\ sent_packets' = [sent_packets EXCEPT !.entries =
             [slot \in DOMAIN @ |->
                @[slot] \/ \E k \in 1 .. n : slot = Sent!Slot(AckSequence(h, reported[k]))]]
        /\ counters' = Plus(Increment(counters, names), "num_packets_acked", n)
  BY DEF ProcessAcks
<1>2. PICK reported \in [1 .. n -> Reportable(h)] :
        /\ n <= Room
        /\ acks' = acks \o [k \in 1 .. n |-> AckSequence(h, reported[k])]
        /\ sent_packets' = [sent_packets EXCEPT !.entries =
             [slot \in DOMAIN @ |->
                @[slot] \/ \E k \in 1 .. n : slot = Sent!Slot(AckSequence(h, reported[k]))]]
        /\ counters' = Plus(Increment(counters, names), "num_packets_acked", n)
  BY <1>1
<1>3. n \in Nat
  BY ConfigAssumption
<1> DEFINE new == [k \in 1 .. n |-> AckSequence(h, reported[k])]
<1>4. new \in Seq(SequenceNumber) /\ Len(new) = n
  <2>1. ASSUME NEW i \in Reportable(h) PROVE AckSequence(h, i) \in SequenceNumber
    <3>1. i \in 0 .. AckBits - 1 /\ h.ack \in SequenceNumber
      BY DEF Reportable, Header
    <3>2. i \in Int /\ h.ack \in Int
      BY <3>1, ConfigAssumption, SequenceModulusAssumption DEF SequenceNumber
    <3> QED BY <3>2, WrapSubType DEF AckSequence
  <2>2. new \in [1 .. n -> SequenceNumber]
    BY <2>1
  <2> HIDE DEF new
  <2> QED BY <1>3, <2>2
<1>5. acks' \in Seq(SequenceNumber) /\ Len(acks') <= AckBufferSize
  <2>1. acks' = acks \o new /\ acks \in Seq(SequenceNumber)
    BY <1>2 DEF TypeOK
  <2> HIDE DEF new
  <2>2. acks' \in Seq(SequenceNumber) /\ Len(acks') = Len(acks) + n
    BY <1>4, <2>1, ConcatType
  <2>3. n <= AckBufferSize - Len(acks) /\ Len(acks) \in Nat
    BY <1>2, <2>1 DEF Room
  <2> QED BY <1>3, <2>2, <2>3, ConfigAssumption
<1>6. /\ sent_packets' \in Sent!BufferOf(BOOLEAN)
      /\ sent_packets'.sequence = sent_packets.sequence
  <2> DEFINE flagged == [slot \in DOMAIN sent_packets.entries |->
                sent_packets.entries[slot]
                  \/ \E k \in 1 .. n : slot = Sent!Slot(AckSequence(h, reported[k]))]
  <2>1. DOMAIN sent_packets.entries = Sent!Index
    BY DEF TypeOK, Sent!BufferOf
  <2>2. flagged \in [Sent!Index -> BOOLEAN]
    BY <2>1, Zenon
  <2>3. sent_packets' = [sent_packets EXCEPT !.entries = flagged]
    BY <1>2, Zenon
  <2> HIDE DEF flagged
  <2> QED BY <2>2, <2>3 DEF TypeOK, Sent!BufferOf
<1>7. counters' \in CountersOf
  <2>1. "num_packets_acked" \in CounterNames /\ counters \in CountersOf
    BY DEF CounterNames, TypeOK
  <2> QED BY <1>2, <1>3, <2>1, IncrementType
<1> QED BY <1>5, <1>6, <1>7

-----------------------------------------------------------------------------
(* The regular branch, for a packet from the socket or rebuilt *)

\* Removing the entry of a rebuilt packet on the way out, or nothing otherwise.
Left(c, s, rebuilt) == IF rebuilt THEN Reassembly!Remove(c, s) ELSE c

InDoubt(s, rebuilt) == IF rebuilt THEN {Reassembly!Slot(s)} ELSE {}

\* Once the entry of a rebuilt packet is removed no slot is in doubt.
LEMMA LeftType ==
  ASSUME NEW c \in Reassembly!BufferOf(ReassemblyData), NEW s \in SequenceNumber,
         NEW rebuilt, ConsistentOutside(c, InDoubt(s, rebuilt))
  PROVE  /\ Left(c, s, rebuilt) \in Reassembly!BufferOf(ReassemblyData)
         /\ Left(c, s, rebuilt).sequence = c.sequence
         /\ ConsistentOutside(Left(c, s, rebuilt), {})
<1>1. CASE rebuilt
  BY <1>1, ReassemblyRemove DEF Left, InDoubt
<1>2. CASE ~rebuilt
  BY <1>2 DEF Left, InDoubt
<1> QED BY <1>1, <1>2

\* What the regular branch does: it leaves everything but the counters, or it
\* advances both windows past a fresh packet and processes its acks.
LEMMA HandleRegularOutcome ==
  ASSUME NEW h, NEW content, NEW process, NEW received, NEW reassembly, NEW rebuilt,
         HandleRegular(h, content, process, received, reassembly, rebuilt)
  PROVE  \/ /\ received_packets' = received
            /\ fragment_reassembly' = Left(reassembly, h.sequence, rebuilt)
            /\ \E names : counters' = Increment(counters, names)
            /\ UNCHANGED <<sequence, sent_packets, acks>>
         \/ /\ Received!CanInsert(received, h.sequence)
            /\ ~Received!Exists(received, h.sequence)
            /\ received_packets' = Received!Insert(received, h.sequence, None)
            /\ fragment_reassembly' =
                 Left(Reassembly!Advance(reassembly, h.sequence), h.sequence, rebuilt)
            /\ \E names : ProcessAcks(h, names)
            /\ UNCHANGED sequence
BY DEF HandleRegular, Left

\* The regular branch preserves the invariant, whatever the size checks, the
\* window and the application decide, and never touches the sent window.
LEMMA HandleRegularInv ==
  ASSUME TypeOK, NEW h \in Header, NEW content, NEW process, NEW rebuilt,
         NEW received \in Received!BufferOf({None}),
         NEW reassembly \in Reassembly!BufferOf(ReassemblyData),
         received.sequence = reassembly.sequence,
         ConsistentOutside(reassembly, InDoubt(h.sequence, rebuilt)),
         HandleRegular(h, content, process, received, reassembly, rebuilt)
  PROVE  IInv' /\ sequence' = sequence /\ sent_packets'.sequence = sent_packets.sequence
<1>1. h.sequence \in SequenceNumber
  BY DEF Header
<1>2. CASE /\ received_packets' = received
           /\ fragment_reassembly' = Left(reassembly, h.sequence, rebuilt)
           /\ \E names : counters' = Increment(counters, names)
           /\ UNCHANGED <<sequence, sent_packets, acks>>
  <2>1. counters' \in CountersOf
    <3>1. PICK names : counters' = Increment(counters, names)
      BY <1>2
    <3>2. "num_packets_acked" \in CounterNames /\ 0 \in Nat /\ counters \in CountersOf
      BY DEF CounterNames, TypeOK
    <3> QED BY <3>1, <3>2, IncrementType
  <2>2. TypeOK'
    BY <1>1, <1>2, <2>1, LeftType DEF TypeOK
  <2>3. WindowsInLockStep'
    BY <1>1, <1>2, LeftType DEF WindowsInLockStep
  <2>4. ReassemblyConsistent'
    BY <1>1, <1>2, LeftType, ConsistentEverywhere
  <2> QED BY <1>2, <2>2, <2>3, <2>4 DEF IInv
<1>3. CASE /\ received_packets' = Received!Insert(received, h.sequence, None)
           /\ fragment_reassembly' =
                Left(Reassembly!Advance(reassembly, h.sequence), h.sequence, rebuilt)
           /\ \E names : ProcessAcks(h, names)
           /\ UNCHANGED sequence
  <2> DEFINE advanced == Reassembly!Advance(reassembly, h.sequence)
  <2>1. /\ advanced \in Reassembly!BufferOf(ReassemblyData)
        /\ advanced.sequence = Moved(reassembly.sequence, h.sequence)
        /\ ConsistentOutside(advanced, InDoubt(h.sequence, rebuilt))
    BY <1>1, ReassemblyAdvance
  <2>2. /\ received_packets' \in Received!BufferOf({None})
        /\ received_packets'.sequence = Moved(received.sequence, h.sequence)
    BY <1>1, <1>3, ReceivedMove
  <2>3. fragment_reassembly' = Left(advanced, h.sequence, rebuilt)
    BY <1>3
  <2> HIDE DEF advanced
  <2>4. /\ fragment_reassembly' \in Reassembly!BufferOf(ReassemblyData)
        /\ fragment_reassembly'.sequence = advanced.sequence
        /\ ConsistentOutside(fragment_reassembly', {})
    BY <1>1, <2>1, <2>3, LeftType
  <2>5. /\ acks' \in Seq(SequenceNumber) /\ Len(acks') <= AckBufferSize
        /\ sent_packets' \in Sent!BufferOf(BOOLEAN)
        /\ sent_packets'.sequence = sent_packets.sequence
        /\ counters' \in CountersOf
    BY <1>3, ProcessAcksType
  <2>6. TypeOK'
    BY <1>3, <2>2, <2>4, <2>5 DEF TypeOK
  <2>7. WindowsInLockStep'
    BY <2>1, <2>2, <2>4 DEF WindowsInLockStep
  <2>8. ReassemblyConsistent'
    BY <2>4, ConsistentEverywhere
  <2> QED BY <1>3, <2>5, <2>6, <2>7, <2>8 DEF IInv
<1> QED BY <1>2, <1>3, HandleRegularOutcome

-----------------------------------------------------------------------------
(* The inductive invariant *)

\* A fresh endpoint.
LEMMA InitInv == Init => IInv
<1> SUFFICES ASSUME Init PROVE IInv
  OBVIOUS
<1>1. TypeOK
  <2>1. 0 \in SequenceNumber
    BY SequenceModulusAssumption DEF SequenceNumber
  <2>2. ZeroCounters \in CountersOf
    BY CounterModulusAssumption DEF ZeroCounters, CountersOf
  <2>3. acks \in Seq(SequenceNumber) /\ Len(acks) <= AckBufferSize
    BY ConfigAssumption DEF Init
  <2> QED BY <2>1, <2>2, <2>3, NewBuffers DEF Init, TypeOK
<1>2. WindowsInLockStep
  BY NewBuffers DEF Init, WindowsInLockStep
<1>3. ReassemblyConsistent
  BY NewBuffers, ConsistentEverywhere DEF Init, ConsistentOutside, SlotConsistent
<1> QED BY <1>1, <1>2, <1>3 DEF IInv

\* What a step does to the sender's sequence number and its sent window: both
\* move on by one packet, start again, or stay.
SentStep ==
  \/ sequence' = sequence /\ sent_packets'.sequence = sent_packets.sequence
  \/ /\ sequence' = WrapAdd(sequence, 1)
     /\ sent_packets'.sequence = Moved(sent_packets.sequence, sequence)
  \/ sequence' = 0 /\ sent_packets'.sequence = 0

\* send_packet.
LEMMA SendPacketInv ==
  ASSUME IInv, NEW content \in Packets, SendPacket(content)
  PROVE  IInv' /\ SentStep
<1>1. /\ sequence \in SequenceNumber
      /\ sent_packets \in Sent!BufferOf(BOOLEAN)
  BY DEF IInv, TypeOK
<1>2. /\ sent_packets' \in Sent!BufferOf(BOOLEAN)
      /\ sent_packets'.sequence = Moved(sent_packets.sequence, sequence)
  BY <1>1, SentInsert DEF SendPacket
<1>3. sequence' = WrapAdd(sequence, 1) /\ sequence' \in SequenceNumber
  BY <1>1, SequenceModulusAssumption DEF SendPacket, WrapAdd, SequenceNumber
<1>4. counters' \in CountersOf
  <2>1. Len(content) \in Nat
    BY DataAssumption
  <2>2. "num_fragments_sent" \in CounterNames /\ counters \in CountersOf
    BY DEF CounterNames, IInv, TypeOK
  <2>3. PICK n \in Nat : counters' =
          Plus(Increment(counters, {"num_packets_sent"}), "num_fragments_sent", n)
    <3>1. NumFragments(content) \in Nat
      BY <2>1, ConfigAssumption DEF NumFragments
    <3> QED BY <3>1 DEF SendPacket
  <2>4. Increment(counters, {"num_packets_sent"}) \in CountersOf
    BY <2>2, IncrementType
  <2> QED BY <2>2, <2>3, <2>4, IncrementType
<1>5. UNCHANGED <<received_packets, fragment_reassembly, acks>>
  BY DEF SendPacket
<1>6. TypeOK'
  BY <1>2, <1>3, <1>4, <1>5 DEF IInv, TypeOK
<1>7. WindowsInLockStep' /\ ReassemblyConsistent'
  BY <1>5 DEF IInv, WindowsInLockStep, ReassemblyConsistent
<1> QED BY <1>2, <1>3, <1>6, <1>7 DEF IInv, SentStep

\* Steps that change nothing but the counters and the list of acks.
LEMMA QuietStepInv ==
  ASSUME IInv, counters' \in CountersOf,
         UNCHANGED <<sequence, sent_packets, received_packets, fragment_reassembly>>,
         acks' = acks \/ acks' = <<>>
  PROVE  IInv' /\ SentStep
<1>1. acks' \in Seq(SequenceNumber) /\ Len(acks') <= AckBufferSize
  <2>1. acks \in Seq(SequenceNumber) /\ Len(acks) <= AckBufferSize
    BY DEF IInv, TypeOK
  <2>2. <<>> \in Seq(SequenceNumber) /\ Len(<<>>) <= AckBufferSize
    BY ConfigAssumption
  <2> QED BY <2>1, <2>2
<1> QED BY <1>1 DEF IInv, TypeOK, WindowsInLockStep, ReassemblyConsistent, SentStep

\* Every counter update of the endpoint keeps the counters' type.
LEMMA CountersType ==
  ASSUME IInv, NEW names
  PROVE  /\ counters \in CountersOf
         /\ Increment(counters, names) \in CountersOf
         /\ ZeroCounters \in CountersOf
<1>1. counters \in CountersOf
  BY DEF IInv, TypeOK
<1>2. Increment(counters, names) \in CountersOf
  BY <1>1, CounterModulusAssumption DEF Increment, CountersOf
<1>3. ZeroCounters \in CountersOf
  BY CounterModulusAssumption DEF ZeroCounters, CountersOf
<1> QED BY <1>1, <1>2, <1>3

\* receive_packet on a datagram without a fragment's prefix.
LEMMA ReceiveRegularInv ==
  ASSUME IInv, NEW d \in Datagrams, NEW process, ReceiveRegular(d, process)
  PROVE  IInv' /\ SentStep
<1>1. d.header \in Header
  BY DataAssumption DEF ReceiveRegular, Datagram
<1>2. /\ received_packets \in Received!BufferOf({None})
      /\ fragment_reassembly \in Reassembly!BufferOf(ReassemblyData)
      /\ received_packets.sequence = fragment_reassembly.sequence
      /\ ConsistentOutside(fragment_reassembly, InDoubt(d.header.sequence, FALSE))
  BY ConsistentEverywhere DEF IInv, TypeOK, WindowsInLockStep, InDoubt
<1>3. HandleRegular(d.header, d.content, process, received_packets,
                    fragment_reassembly, FALSE)
  BY DEF ReceiveRegular
<1>4. IInv' /\ sequence' = sequence /\ sent_packets'.sequence = sent_packets.sequence
  BY <1>1, <1>2, <1>3, HandleRegularInv DEF IInv
<1> QED BY <1>4 DEF SentStep

\* receive_packet on a fragment that is stored, with the packet it may complete.
LEMMA ReceiveFragmentInv ==
  ASSUME IInv, NEW d \in Datagrams, NEW process, ReceiveFragment(d, process)
  PROVE  IInv' /\ SentStep
<1> DEFINE stored == StoreFragment(Entry(d), d)
           reassembly == ReassemblyWith(d, stored)
           slot == Reassembly!Slot(d.sequence)
<1>1. /\ Readable(d) /\ d.type = "fragment" /\ Storable(d)
      /\ Entry(d).num_fragments_total = d.num_fragments
      /\ d.fragment_id \notin Entry(d).fragment_received
  BY DEF ReceiveFragment, Readable
<1>2. d.sequence \in SequenceNumber /\ d.num_fragments \in Nat \ {0}
  BY <1>1, FragmentType
<1>3. /\ Entry(d) \in ReassemblyData /\ EntryConsistent(d.sequence, Entry(d))
  BY <1>1, EntryType DEF IInv
<1>4. /\ stored \in ReassemblyData
      /\ stored.num_fragments_total = d.num_fragments
      /\ stored.num_fragments_received \in 1 .. d.num_fragments
      /\ EntryConsistent(d.sequence, stored)
  BY <1>1, <1>3, StoreFragmentType
<1>5. /\ reassembly \in Reassembly!BufferOf(ReassemblyData)
      /\ ReceivedOnOpen(d) \in Received!BufferOf({None})
      /\ ReceivedOnOpen(d).sequence = reassembly.sequence
      /\ reassembly.entry_sequence[slot] = d.sequence
      /\ reassembly.entries[slot] = stored
      /\ ConsistentOutside(reassembly, {slot})
  BY <1>1, <1>4, OpenedBuffers DEF IInv
<1>6. \/ /\ stored.num_fragments_received # stored.num_fragments_total
         /\ fragment_reassembly' = reassembly
         /\ received_packets' = ReceivedOnOpen(d)
         /\ counters' = Increment(counters, {"num_fragments_received"})
         /\ UNCHANGED <<sequence, sent_packets, acks>>
      \/ /\ stored.num_fragments_received = stored.num_fragments_total
         /\ HandleRegular(stored.header,
                          SubSeq(stored.packet_data, 1, stored.packet_bytes),
                          process, ReceivedOnOpen(d), reassembly, TRUE)
  BY DEF ReceiveFragment
<1> HIDE DEF stored, reassembly
<1>7. CASE /\ stored.num_fragments_received # stored.num_fragments_total
           /\ fragment_reassembly' = reassembly
           /\ received_packets' = ReceivedOnOpen(d)
           /\ counters' = Increment(counters, {"num_fragments_received"})
           /\ UNCHANGED <<sequence, sent_packets, acks>>
  <2>1. TypeOK'
    BY <1>5, <1>7, CountersType DEF IInv, TypeOK
  <2>2. WindowsInLockStep'
    BY <1>5, <1>7 DEF WindowsInLockStep
  <2>3. stored.num_fragments_received \in 1 .. stored.num_fragments_total - 1
    BY <1>2, <1>4, <1>7
  <2>4. SlotConsistent(d.sequence, stored)
    BY <1>2, <1>4, <2>3, DataAssumption DEF SlotConsistent
  <2>5. ConsistentOutside(reassembly, {})
    BY <1>5, <2>4 DEF ConsistentOutside
  <2>6. ReassemblyConsistent'
    BY <1>7, <2>5, ConsistentEverywhere
  <2> QED BY <1>7, <2>1, <2>2, <2>6 DEF IInv, SentStep
<1>8. CASE /\ stored.num_fragments_received = stored.num_fragments_total
           /\ HandleRegular(stored.header,
                            SubSeq(stored.packet_data, 1, stored.packet_bytes),
                            process, ReceivedOnOpen(d), reassembly, TRUE)
  <2>1. stored.header \in Header /\ stored.header.sequence = d.sequence
    BY <1>2, <1>4, <1>8, CompleteHasHeader
  <2>2. ConsistentOutside(reassembly, InDoubt(stored.header.sequence, TRUE))
    BY <1>5, <2>1 DEF InDoubt
  <2>3. IInv' /\ sequence' = sequence /\ sent_packets'.sequence = sent_packets.sequence
    BY <1>5, <1>8, <2>1, <2>2, HandleRegularInv DEF IInv
  <2> QED BY <2>3 DEF SentStep
<1> QED BY <1>6, <1>7, <1>8

\* receive_packet, whatever datagram the socket hands over.
LEMMA ReceivePacketInv ==
  ASSUME IInv, NEW d \in Datagrams, NEW process, ReceivePacket(d, process)
  PROVE  IInv' /\ SentStep
<1>1. CASE ReceiveRegular(d, process)
  BY <1>1, ReceiveRegularInv
<1>2. CASE ReceiveUnreadable(d, process)
  BY <1>2, QuietStepInv, CountersType DEF ReceiveUnreadable
<1>3. CASE ReceiveFragmentTooLarge(d, process)
  BY <1>3, QuietStepInv, CountersType DEF ReceiveFragmentTooLarge
<1>4. CASE ReceiveInvalidFragment(d, process)
  BY <1>4, QuietStepInv, CountersType DEF ReceiveInvalidFragment
<1>5. CASE IgnoreFragment(d, process)
  BY <1>5, QuietStepInv, CountersType DEF IgnoreFragment
<1>6. CASE ReceiveFragment(d, process)
  BY <1>6, ReceiveFragmentInv
<1> QED BY <1>1, <1>2, <1>3, <1>4, <1>5, <1>6 DEF ReceivePacket

\* reset returns to the initial state.
LEMMA ResetInv ==
  ASSUME IInv, Reset
  PROVE  IInv' /\ SentStep
<1>1. TypeOK'
  <2>1. sequence' \in SequenceNumber
    BY SequenceModulusAssumption DEF Reset, SequenceNumber
  <2>2. acks' \in Seq(SequenceNumber) /\ Len(acks') <= AckBufferSize
    BY ConfigAssumption DEF Reset
  <2> QED BY <2>1, <2>2, NewBuffers, CountersType DEF Reset, TypeOK
<1>2. WindowsInLockStep'
  BY NewBuffers DEF Reset, WindowsInLockStep
<1>3. ReassemblyConsistent'
  BY NewBuffers, ConsistentEverywhere DEF Reset, ConsistentOutside, SlotConsistent
<1>4. SentStep
  BY NewBuffers DEF Reset, SentStep
<1> QED BY <1>1, <1>2, <1>3, <1>4 DEF IInv

\* Every step.
LEMMA NextInv == IInv /\ [Next]_vars => IInv' /\ (SentStep \/ UNCHANGED vars)
<1> SUFFICES ASSUME IInv, [Next]_vars
             PROVE  IInv' /\ (SentStep \/ UNCHANGED vars)
  OBVIOUS
<1>1. ASSUME NEW content \in Packets, SendPacket(content)
      PROVE  IInv' /\ SentStep
  BY <1>1, SendPacketInv
<1>2. ASSUME NEW content \in Packets, SendTooLarge(content)
      PROVE  IInv' /\ SentStep
  BY <1>2, QuietStepInv, CountersType DEF SendTooLarge
<1>3. ASSUME NEW d \in Datagrams, NEW process \in {"unused", "accepted", "rejected"},
             ReceivePacket(d, process)
      PROVE  IInv' /\ SentStep
  BY <1>3, ReceivePacketInv
<1>4. CASE ClearAcks
  BY <1>4, QuietStepInv, CountersType DEF ClearAcks
<1>5. CASE Reset
  BY <1>5, ResetInv
<1>6. CASE UNCHANGED vars
  BY <1>6 DEF IInv, TypeOK, WindowsInLockStep, ReassemblyConsistent, vars
<1> QED BY <1>1, <1>2, <1>3, <1>4, <1>5, <1>6 DEF Next

\* The inductive invariant holds in every reachable state of an endpoint.
THEOREM InductiveInvariant == Spec => []IInv
<1>1. IInv /\ [Next]_vars => IInv'
  BY NextInv
<1> QED BY InitInv, <1>1, PTL DEF Spec

\* Type correctness: whatever the application and the socket do, every field of
\* the endpoint keeps its type, and the ack list never outgrows its buffer.
THEOREM TypeCorrect == Spec => []TypeOK
<1>1. IInv => TypeOK
  BY DEF IInv
<1> QED BY InductiveInvariant, <1>1, PTL

\* The received window and the reassembly window never part.
THEOREM LockStep == Spec => []WindowsInLockStep
<1>1. IInv => WindowsInLockStep
  BY DEF IInv
<1> QED BY InductiveInvariant, <1>1, PTL

\* Reassembly integrity: the packet rebuilt when the fragment count is complete
\* has all its bytes and its header, and cutting it never goes out of bounds.
THEOREM ReassemblySound == Spec => []ReassemblyConsistent
<1>1. IInv => ReassemblyConsistent
  BY DEF IInv
<1> QED BY InductiveInvariant, <1>1, PTL

-----------------------------------------------------------------------------
(* The panics of send_packet *)

\* The sent window stands exactly at the next packet to send.
SentWindowAtSequence == sent_packets.sequence = sequence

\* One more than s is greater than s, unless there are only two numbers.
LEMMA SuccessorIsGreater ==
  ASSUME HalfModulus > 1, NEW s \in SequenceNumber
  PROVE  SequenceGreaterThan(WrapAdd(s, 1), s)
<1>1. /\ SequenceModulus \in Nat /\ HalfModulus \in Nat
      /\ SequenceModulus = 2 * HalfModulus
  BY SequenceModulusAssumption DEF HalfModulus
<1>2. s \in Nat /\ s < SequenceModulus
  BY <1>1 DEF SequenceNumber
<1>3. CASE s + 1 < SequenceModulus
  <2>1. WrapAdd(s, 1) = s + 1
    BY <1>1, <1>2, <1>3 DEF WrapAdd
  <2> QED BY <1>1, <1>2, <2>1 DEF SequenceGreaterThan
<1>4. CASE s + 1 = SequenceModulus
  <2>1. WrapAdd(s, 1) = 0
    BY <1>1, <1>2, <1>4 DEF WrapAdd
  <2> QED BY <1>1, <1>2, <1>4, <2>1 DEF SequenceGreaterThan
<1> QED BY <1>1, <1>2, <1>3, <1>4

\* With fewer slots than half the number space the window's own sequence number
\* is never stale.
LEMMA NextIsNotStale ==
  ASSUME SentPacketsBufferSize < HalfModulus, TypeOK, SentWindowAtSequence
  PROVE  Sent!CanInsert(sent_packets, sequence)
<1> DEFINE size == SentPacketsBufferSize
           oldest == WrapSub(sequence, size % SequenceModulus)
<1>1. /\ SequenceModulus \in Nat /\ HalfModulus \in Nat
      /\ SequenceModulus = 2 * HalfModulus
  BY SequenceModulusAssumption DEF HalfModulus
<1>2. sequence \in Nat /\ sequence < SequenceModulus
  BY <1>1 DEF TypeOK, SequenceNumber
<1>3. size \in Nat \ {0} /\ size < HalfModulus
  BY ConfigAssumption
<1>4. size % SequenceModulus = size
  BY <1>1, <1>3
<1>5. oldest = IF size <= sequence THEN sequence - size
               ELSE sequence - size + SequenceModulus
  BY <1>1, <1>2, <1>3, <1>4 DEF WrapSub
<1>6. Sent!CanInsert(sent_packets, sequence) <=> ~SequenceLessThan(sequence, oldest)
  BY DEF Sent!CanInsert, Sent!Oldest, SentWindowAtSequence, WrapSub, Sent!WrapSub,
     SequenceLessThan, Sent!SequenceLessThan, SequenceGreaterThan,
     Sent!SequenceGreaterThan, HalfModulus, Sent!HalfModulus
<1> HIDE DEF oldest, size
<1>7. ~SequenceLessThan(sequence, oldest)
  BY <1>1, <1>2, <1>3, <1>5 DEF SequenceLessThan, SequenceGreaterThan
<1> QED BY <1>6, <1>7

\* Quotients: x lies in the interval its quotient names, and only there.
LEMMA Quotient ==
  ASSUME NEW x \in Nat, NEW k \in Nat \ {0}
  PROVE  /\ x \div k \in Nat
         /\ (x \div k) * k <= x
         /\ x < (x \div k) * k + k
OBVIOUS

\* The fragment count of a packet that passes the size check is one that the
\* assert of Endpoint::new on the configuration has made room for.
LEMMA FragmentCountFits ==
  ASSUME NEW content \in Seq(Byte), Len(content) <= MaxPacketSize
  PROVE  NumFragments(content) <= MaxFragments
<1> DEFINE size == FragmentSize
           total == NumFragments(content)
           full == (MaxPacketSize - 1) \div size
<1>1. /\ size \in Nat \ {0} /\ MaxFragments \in Nat /\ MaxFragments > full
      /\ MaxPacketSize - 1 \in Nat /\ Len(content) \in Nat
  BY ConfigAssumption
<1>2. full \in Nat /\ MaxPacketSize - 1 < full * size + size
  BY <1>1, Quotient
<1>3. total \in Nat /\ total * size <= Len(content) + size - 1
  <2>1. Len(content) + size - 1 \in Nat
    BY <1>1
  <2> QED BY <1>1, <2>1, Quotient DEF NumFragments
<1> HIDE DEF total, full, size
<1>4. total * size <= full * size + size + size - 1
  <2> DEFINE x == total * size
             y == full * size
  <2>1. /\ x \in Nat /\ y \in Nat
        /\ MaxPacketSize - 1 < y + size
        /\ x <= Len(content) + size - 1
    BY <1>1, <1>2, <1>3
  <2>2. MaxPacketSize \in Nat
    BY ConfigAssumption
  <2> HIDE DEF x, y
  <2>3. x <= y + size + size - 1
    BY <1>1, <2>1, <2>2
  <2> QED BY <2>3 DEF x, y
<1>5. total <= full + 1
  <2> SUFFICES ASSUME full + 1 < total PROVE FALSE
    BY <1>2, <1>3
  <2>1. /\ (full + 1) * size + size <= total * size
    BY <1>1, <1>2, <1>3, Pieces
  <2>2. (full + 1) * size = full * size + size
    BY <1>1, <1>2
  <2>3. full * size \in Nat /\ total * size \in Nat
    BY <1>1, <1>2, <1>3
  <2> QED BY <1>1, <1>4, <2>1, <2>2, <2>3
<1> QED BY <1>1, <1>2, <1>3, <1>5 DEF total

\* The sender's sequence number and its window move together.
LEMMA SentWindowStep ==
  ASSUME HalfModulus > 1, TypeOK, SentWindowAtSequence, SentStep \/ UNCHANGED vars
  PROVE  SentWindowAtSequence'
<1>1. CASE SentStep
  <2>1. sequence \in SequenceNumber
    BY DEF TypeOK
  <2> QED BY <1>1, <2>1, SuccessorIsGreater DEF SentStep, SentWindowAtSequence, Moved
<1>2. CASE UNCHANGED vars
  BY <1>2 DEF vars, SentWindowAtSequence
<1> QED BY <1>1, <1>2

\* With a sent buffer smaller than half the number space, send_packet never
\* reaches its `expect` or its `assert!`, after any history of sends, datagrams
\* and resets.  (From half the number space on, every send panics.)
THEOREM SendSafe ==
  ASSUME SentPacketsBufferSize < HalfModulus
  PROVE  Spec => []SendNeverPanics
<1>1. HalfModulus > 1
  BY ConfigAssumption, SequenceModulusAssumption DEF HalfModulus
<1>2. Init => IInv /\ SentWindowAtSequence
  BY InitInv, NewBuffers DEF Init, SentWindowAtSequence
<1>3. IInv /\ SentWindowAtSequence /\ [Next]_vars => (IInv /\ SentWindowAtSequence)'
  BY <1>1, NextInv, SentWindowStep DEF IInv
<1>4. IInv /\ SentWindowAtSequence => SendNeverPanics
  BY NextIsNotStale, FragmentCountFits, DataAssumption DEF IInv, SendNeverPanics
<1> QED BY <1>2, <1>3, <1>4, PTL DEF Spec

-----------------------------------------------------------------------------
(* What is sent can be received *)

\* The header of the next packet is a header.
LEMMA NextHeaderType ==
  ASSUME TypeOK
  PROVE  NextHeader \in Header
<1>1. Received!AckOf(received_packets) \in SequenceNumber
  <2>1. received_packets.sequence \in Int
    BY SequenceModulusAssumption, ReceivedLink
       DEF TypeOK, Received!BufferOf, SequenceNumber
  <2>2. Received!AckOf(received_packets) = WrapSub(received_packets.sequence, 1)
    BY DEF Received!AckOf, Received!WrapSub, WrapSub
  <2> QED BY <2>1, <2>2, WrapSubType
<1>2. Received!GenerateAckBits(received_packets, AckBits) \in SUBSET (0 .. AckBits - 1)
  BY DEF Received!GenerateAckBits
<1>3. sequence \in SequenceNumber
  BY DEF TypeOK
<1> QED BY <1>1, <1>2, <1>3 DEF NextHeader, Header

\* A piece of a payload fits a fragment, every piece but the last fills one and
\* none is longer than the payload.
LEMMA PieceLength ==
  ASSUME NEW content \in Seq(Byte), content # <<>>,
         NEW id \in 0 .. NumFragments(content) - 1
  PROVE  /\ Piece(content, id) \in Seq(Byte)
         /\ Len(Piece(content, id)) <= FragmentSize
         /\ Len(Piece(content, id)) <= Len(content)
         /\ id # NumFragments(content) - 1 => Len(Piece(content, id)) = FragmentSize
<1> DEFINE size == FragmentSize
           total == NumFragments(content)
           length == Len(content)
           start == id * size
           end == Least((id + 1) * size, length)
<1>1. size \in Nat \ {0} /\ length \in Nat
  BY ConfigAssumption
<1>2. total \in Nat /\ total * size <= length + size - 1
  <2>1. length + size - 1 \in Nat
    BY <1>1
  <2> QED BY <1>1, <2>1, Quotient DEF NumFragments
<1>3. id \in Nat /\ id < total
  BY <1>2
<1>4. start \in Nat /\ (id + 1) * size = start + size /\ start + size <= total * size
  BY <1>1, <1>2, <1>3, Pieces
<1>5. total * size \in Nat
  BY <1>1, <1>2
<1>6. start < length
  BY <1>1, <1>2, <1>4, <1>5
<1>7. end \in Nat /\ start <= end /\ end <= length /\ end - start <= size
  BY <1>1, <1>4, <1>6 DEF Least
<1>8. /\ Piece(content, id) \in Seq(Byte)
      /\ Len(Piece(content, id)) = end - start
  <2>1. Piece(content, id) = SubSeq(content, start + 1, end)
    BY DEF Piece
  <2> HIDE DEF start, end
  <2> QED BY <1>1, <1>4, <1>7, <2>1
<1>9. ASSUME id # total - 1 PROVE end - start = size
  <2>1. (id + 1) * size + size <= total * size
    BY <1>1, <1>2, <1>3, <1>9, Pieces
  <2>2. start + size <= length
    BY <1>1, <1>2, <1>4, <1>5, <2>1
  <2> QED BY <1>1, <1>4, <2>2 DEF Least
<1> HIDE DEF start, end, size, length
<1>10. size = FragmentSize /\ length = Len(content)
  BY DEF size, length
<1> QED BY <1>1, <1>4, <1>7, <1>8, <1>9, <1>10

\* The datagrams of one send.
LEMMA TransmittedIsReceivable ==
  ASSUME TypeOK, NEW content \in Seq(Byte), content # <<>>, Len(content) <= MaxPacketSize,
         NEW d \in Transmitted(content)
  PROVE  IF d.type = "regular"
         THEN /\ PassesGate(HeaderBytes(d.header) + Len(d.content))
              /\ Len(d.content) <= MaxPacketSize
         ELSE Readable(d)
<1>1. HeaderBytes(NextHeader) \in 0 .. MaxPacketHeaderBytes
  BY NextHeaderType, DataAssumption
<1>2. /\ MaxPacketHeaderBytes \in Nat /\ FragmentHeaderBytes \in Nat
      /\ MaxPacketSize \in Nat /\ Len(content) \in Nat
  BY ConfigAssumption
<1>3. CASE Len(content) <= FragmentAbove
  <2>1. d = [type |-> "regular", header |-> NextHeader, content |-> content]
    BY <1>3 DEF Transmitted
  <2> QED BY <1>1, <1>2, <2>1 DEF PassesGate
<1>4. CASE ~(Len(content) <= FragmentAbove)
  <2>1. PICK id \in 0 .. NumFragments(content) - 1 :
          d = [type |-> "fragment", sequence |-> sequence, fragment_id |-> id,
               num_fragments |-> NumFragments(content),
               header |-> IF id = 0 THEN NextHeader ELSE None,
               content |-> Piece(content, id)]
    BY <1>4 DEF Transmitted
  <2>2. /\ d.type = "fragment" /\ d.sequence = sequence /\ d.fragment_id = id
        /\ d.num_fragments = NumFragments(content)
        /\ d.header = (IF id = 0 THEN NextHeader ELSE None)
        /\ d.content = Piece(content, id)
    BY <2>1
  <2>3. /\ Len(d.content) \in Nat
        /\ Len(d.content) <= FragmentSize
        /\ Len(d.content) <= Len(content)
        /\ id # NumFragments(content) - 1 => Len(d.content) = FragmentSize
    BY <2>2, PieceLength
  <2>4. PassesGate(FragmentBytes(d))
    <3>1. CASE d.header = None
      BY <1>2, <2>3, <3>1 DEF PassesGate, FragmentBytes
    <3>2. CASE d.header # None
      <4>1. d.header = NextHeader
        BY <2>2, <3>2
      <4> QED BY <1>1, <1>2, <2>3, <3>2, <4>1 DEF PassesGate, FragmentBytes
    <3> QED BY <3>1, <3>2
  <2>5. ValidFragment(d)
    <3>1. d.num_fragments <= MaxFragments
      BY <2>2, FragmentCountFits
    <3>2. d.fragment_id < d.num_fragments
      <4>1. NumFragments(content) \in Int
        BY ConfigAssumption, <1>2 DEF NumFragments
      <4> QED BY <2>2, <4>1
    <3>3. ASSUME d.fragment_id = 0 PROVE d.header # None /\ d.header.sequence = d.sequence
      <4>1. d.header = NextHeader
        BY <2>2, <3>3
      <4>2. NextHeader # None
        BY NextHeaderType, DataAssumption
      <4> QED BY <2>2, <4>1, <4>2 DEF NextHeader
    <3> QED BY <2>2, <2>3, <3>1, <3>2, <3>3 DEF ValidFragment
  <2> QED BY <2>2, <2>4, <2>5 DEF Readable
<1> QED BY <1>3, <1>4

\* For every configuration that Endpoint::new accepts, what an endpoint
\* transmits passes the size and header checks of an endpoint configured alike.
THEOREM Receivable == Spec => []SentIsReceivable
<1>1. TypeOK => SentIsReceivable
  BY TransmittedIsReceivable, DataAssumption DEF SentIsReceivable
<1> QED BY <1>1, TypeCorrect, PTL

-----------------------------------------------------------------------------
(* The windows *)

\* The sizes of Config::default satisfy this with 2^16 numbers.  With one slot
\* a number half the number space away is stored outside the window.
SizesFit ==
  /\ \A size \in {SentPacketsBufferSize, ReceivedPacketsBufferSize,
                  FragmentReassemblyBufferSize} :
       SequenceModulus % size = 0 /\ size <= HalfModulus
  /\ ReceivedPacketsBufferSize >= 2
  /\ FragmentReassemblyBufferSize >= 2

\* Config::default with 16-bit numbers is such a configuration.
LEMMA DefaultSizesFit ==
  /\ SequenceModulus = 65536
  /\ SentPacketsBufferSize = 256 /\ ReceivedPacketsBufferSize = 256
  /\ FragmentReassemblyBufferSize = 64
  => SizesFit
BY DEF SizesFit, HalfModulus

-----------------------------------------------------------------------------
(* The lemmas about windows, for the endpoint's own buffers *)

\* What SentBuffer says of windows is about the endpoint's sent buffer.
LEMMA SentWindowLink ==
  /\ SizesFit => SentBuffer!Commensurate
  /\ \A b : Holds(b, SentPacketsBufferSize) <=> SentBuffer!InWindow(b)
  /\ \A b, s : SentBuffer!Advances(b, s) <=> SequenceGreaterThan(WrapAdd(s, 1), b.sequence)
  /\ \A b, s, data : SentBuffer!Fill(SentBuffer!Advance(b, s), s, data) = Sent!Insert(b, s, data)
<1>1. \A b : Holds(b, SentPacketsBufferSize) <=> SentBuffer!InWindow(b)
  BY DEF Holds, SentBuffer!InWindow, SentBuffer!Index, WrapSub, SentBuffer!WrapSub
<1>2. SizesFit => SentBuffer!Commensurate
  BY DEF SizesFit, SentBuffer!Commensurate, HalfModulus, SentBuffer!HalfModulus
<1>3. \A b, s : SentBuffer!Advances(b, s) <=> SequenceGreaterThan(WrapAdd(s, 1), b.sequence)
  BY DEF SentBuffer!Advances, SentBuffer!SequenceGreaterThan, SequenceGreaterThan,
     SentBuffer!WrapAdd, WrapAdd, SentBuffer!HalfModulus, HalfModulus
<1>4. \A b, s, data : SentBuffer!Fill(SentBuffer!Advance(b, s), s, data) = SentBuffer!Insert(b, s, data)
  BY DEF SentBuffer!Insert
<1> QED BY <1>1, <1>2, <1>3, <1>4, SentLink

\* So for the received buffer.
LEMMA ReceivedWindowLink ==
  /\ SizesFit => ReceivedBuffer!Commensurate
  /\ \A b : Holds(b, ReceivedPacketsBufferSize) <=> ReceivedBuffer!InWindow(b)
  /\ \A b, s : Received!CanInsertAdvanceFirst(b, s) <=>
                 ReceivedBuffer!Advances(b, s) \/ ReceivedBuffer!CanInsert(b, s)
  /\ \A b, s, data :
       ReceivedBuffer!Fill(ReceivedBuffer!Advance(b, s), s, data) = Received!Insert(b, s, data)
  /\ \A s, n : ReceivedBuffer!WrapSub(s, n) = WrapSub(s, n)
<1>1. \A b : Holds(b, ReceivedPacketsBufferSize) <=> ReceivedBuffer!InWindow(b)
  BY DEF Holds, ReceivedBuffer!InWindow, ReceivedBuffer!Index, WrapSub, ReceivedBuffer!WrapSub
<1>2. SizesFit => ReceivedBuffer!Commensurate
  BY DEF SizesFit, ReceivedBuffer!Commensurate, HalfModulus, ReceivedBuffer!HalfModulus
<1>3. \A b, s : Received!CanInsertAdvanceFirst(b, s) <=>
                  ReceivedBuffer!Advances(b, s) \/ ReceivedBuffer!CanInsert(b, s)
  BY DEF Received!CanInsertAdvanceFirst, Received!Advances, ReceivedBuffer!Advances,
     Received!CanInsert, ReceivedBuffer!CanInsert, Received!Oldest, ReceivedBuffer!Oldest,
     Received!SequenceLessThan, ReceivedBuffer!SequenceLessThan,
     Received!SequenceGreaterThan, ReceivedBuffer!SequenceGreaterThan,
     Received!WrapAdd, ReceivedBuffer!WrapAdd, Received!WrapSub, ReceivedBuffer!WrapSub,
     Received!HalfModulus, ReceivedBuffer!HalfModulus
<1>4. \A b, s, data : ReceivedBuffer!Fill(ReceivedBuffer!Advance(b, s), s, data)
                        = ReceivedBuffer!Insert(b, s, data)
  BY DEF ReceivedBuffer!Insert
<1>5. \A s, n : ReceivedBuffer!WrapSub(s, n) = WrapSub(s, n)
  BY DEF ReceivedBuffer!WrapSub, WrapSub
<1> QED BY <1>1, <1>2, <1>3, <1>4, <1>5, ReceivedLink

\* So for the reassembly buffer.
LEMMA ReassemblyWindowLink ==
  /\ SizesFit => ReassemblyBuffer!Commensurate
  /\ \A b : Holds(b, FragmentReassemblyBufferSize) <=> ReassemblyBuffer!InWindow(b)
  /\ \A b, s : Reassembly!CanInsertAdvanceFirst(b, s) <=>
                 ReassemblyBuffer!Advances(b, s) \/ ReassemblyBuffer!CanInsert(b, s)
  /\ \A b, s, data : ReassemblyBuffer!Fill(ReassemblyBuffer!Advance(b, s), s, data)
                       = Reassembly!InsertAdvanceFirst(b, s, data)
<1>1. \A b : Holds(b, FragmentReassemblyBufferSize) <=> ReassemblyBuffer!InWindow(b)
  BY DEF Holds, ReassemblyBuffer!InWindow, ReassemblyBuffer!Index, WrapSub,
     ReassemblyBuffer!WrapSub
<1>2. SizesFit => ReassemblyBuffer!Commensurate
  BY DEF SizesFit, ReassemblyBuffer!Commensurate, HalfModulus, ReassemblyBuffer!HalfModulus
<1>3. \A b, s : Reassembly!CanInsertAdvanceFirst(b, s) <=>
                  ReassemblyBuffer!Advances(b, s) \/ ReassemblyBuffer!CanInsert(b, s)
  BY DEF Reassembly!CanInsertAdvanceFirst, Reassembly!Advances, ReassemblyBuffer!Advances,
     Reassembly!CanInsert, ReassemblyBuffer!CanInsert, Reassembly!Oldest,
     ReassemblyBuffer!Oldest, Reassembly!SequenceLessThan, ReassemblyBuffer!SequenceLessThan,
     Reassembly!SequenceGreaterThan, ReassemblyBuffer!SequenceGreaterThan,
     Reassembly!WrapAdd, ReassemblyBuffer!WrapAdd, Reassembly!WrapSub,
     ReassemblyBuffer!WrapSub, Reassembly!HalfModulus, ReassemblyBuffer!HalfModulus
<1>4. \A b, s, data : ReassemblyBuffer!Fill(ReassemblyBuffer!Advance(b, s), s, data)
                        = ReassemblyBuffer!InsertAdvanceFirst(b, s, data)
  BY DEF ReassemblyBuffer!InsertAdvanceFirst
<1> QED BY <1>1, <1>2, <1>3, <1>4, ReassemblyLink

\* Whatever numbers a received packet brings, the received buffer stays inside its
\* window, and forgets no number that is in the window it moves to.
LEMMA ReceivedWindow ==
  ASSUME SizesFit, NEW c \in Received!BufferOf({None}),
         Holds(c, ReceivedPacketsBufferSize), NEW s \in SequenceNumber
  PROVE  /\ Holds(Received!Advance(c, s), ReceivedPacketsBufferSize)
         /\ \A i \in 0 .. ReceivedPacketsBufferSize - 1 :
              /\ c.entry_sequence[i] # None
              /\ WrapSub(Received!Advance(c, s).sequence, c.entry_sequence[i] + 1)
                   < ReceivedPacketsBufferSize
              => Received!Advance(c, s).entry_sequence[i] = c.entry_sequence[i]
         /\ Received!CanInsertAdvanceFirst(c, s) =>
              /\ Holds(Received!Insert(c, s, None), ReceivedPacketsBufferSize)
              /\ \A i \in 0 .. ReceivedPacketsBufferSize - 1 :
                   Received!Advance(c, s).entry_sequence[i] # None =>
                     Received!Insert(c, s, None).entry_sequence[i]
                       = Received!Advance(c, s).entry_sequence[i]
<1> USE ConfigAssumption, DataAssumption, SequenceModulusAssumption
<1>1. /\ c \in ReceivedBuffer!BufferOf({None}) /\ s \in ReceivedBuffer!SequenceNumber
      /\ ReceivedBuffer!Index = 0 .. ReceivedPacketsBufferSize - 1
      /\ ReceivedBuffer!Advance(c, s) = Received!Advance(c, s)
  BY ReceivedLink
<1>2. ReceivedBuffer!Commensurate /\ ReceivedBuffer!InWindow(c)
  BY ReceivedWindowLink
<1>3. ReceivedBuffer!InWindow(ReceivedBuffer!Advance(c, s))
  BY <1>1, <1>2, ReceivedLink, ReceivedBuffer!AdvanceInWindow
<1>4. ASSUME NEW i \in ReceivedBuffer!Index, c.entry_sequence[i] # None,
             ReceivedBuffer!WrapSub(ReceivedBuffer!Advance(c, s).sequence,
                                    c.entry_sequence[i] + 1) < ReceivedPacketsBufferSize
      PROVE  ReceivedBuffer!Advance(c, s).entry_sequence[i] = c.entry_sequence[i]
  BY <1>1, <1>2, <1>4, ReceivedLink, ReceivedBuffer!AdvanceRemembers
<1>5. ASSUME Received!CanInsertAdvanceFirst(c, s)
      PROVE  LET e == ReceivedBuffer!Fill(ReceivedBuffer!Advance(c, s), s, None)
             IN  /\ ReceivedBuffer!InWindow(e)
                 /\ \A i \in ReceivedBuffer!Index :
                      ReceivedBuffer!Advance(c, s).entry_sequence[i] # None =>
                        e.entry_sequence[i] = ReceivedBuffer!Advance(c, s).entry_sequence[i]
  <2>1. ReceivedBuffer!Advances(c, s)
          \/ (ReceivedPacketsBufferSize >= 2 /\ ReceivedBuffer!CanInsert(c, s))
    BY <1>5, ReceivedWindowLink DEF SizesFit
  <2> QED BY <1>1, <1>2, <2>1, ReceivedLink, ReceivedBuffer!InsertInWindow
<1>6. /\ Holds(Received!Advance(c, s), ReceivedPacketsBufferSize)
      /\ \A i \in 0 .. ReceivedPacketsBufferSize - 1 :
           /\ c.entry_sequence[i] # None
           /\ WrapSub(Received!Advance(c, s).sequence, c.entry_sequence[i] + 1)
                < ReceivedPacketsBufferSize
           => Received!Advance(c, s).entry_sequence[i] = c.entry_sequence[i]
  BY <1>1, <1>3, <1>4, ReceivedWindowLink
<1>7. ASSUME Received!CanInsertAdvanceFirst(c, s)
      PROVE  /\ Holds(Received!Insert(c, s, None), ReceivedPacketsBufferSize)
             /\ \A i \in 0 .. ReceivedPacketsBufferSize - 1 :
                  Received!Advance(c, s).entry_sequence[i] # None =>
                    Received!Insert(c, s, None).entry_sequence[i]
                      = Received!Advance(c, s).entry_sequence[i]
  BY <1>1, <1>5, <1>7, ReceivedWindowLink
<1> QED BY <1>6, <1>7

\* The reassembly buffer stays inside its window.
LEMMA ReassemblyWindow ==
  ASSUME SizesFit, NEW c \in Reassembly!BufferOf(ReassemblyData),
         Holds(c, FragmentReassemblyBufferSize), NEW s \in SequenceNumber,
         NEW r \in ReassemblyData
  PROVE  /\ Holds(Reassembly!Advance(c, s), FragmentReassemblyBufferSize)
         /\ Holds(Reassembly!Remove(c, s), FragmentReassemblyBufferSize)
         /\ Holds(Reassembly!Update(c, s, r), FragmentReassemblyBufferSize)
         /\ Reassembly!CanInsertAdvanceFirst(c, s) =>
              Holds(Reassembly!InsertAdvanceFirst(c, s, r), FragmentReassemblyBufferSize)
<1> USE ConfigAssumption, DataAssumption, SequenceModulusAssumption
<1>1. /\ c \in ReassemblyBuffer!BufferOf(ReassemblyData) /\ s \in ReassemblyBuffer!SequenceNumber
      /\ EmptyReassembly \in ReassemblyData
  BY ReassemblyLink, EmptyReassemblyType
<1>2. ReassemblyBuffer!Commensurate /\ ReassemblyBuffer!InWindow(c)
  BY ReassemblyWindowLink
<1>3. ReassemblyBuffer!InWindow(ReassemblyBuffer!Advance(c, s))
  BY <1>1, <1>2, ReassemblyLink, ReassemblyBuffer!AdvanceInWindow
<1>4. ReassemblyBuffer!InWindow(ReassemblyBuffer!Remove(c, s))
  <2> DEFINE e == ReassemblyBuffer!Remove(c, s)
  <2>1. e.sequence = c.sequence /\ ReassemblyBuffer!HoldsNoMore(e, c)
    BY <1>1, ReassemblyLink, ReassemblyBuffer!RemoveType
  <2> HIDE DEF e
  <2>2. ReassemblyBuffer!InWindow(e)
    BY <1>2, <2>1, ReassemblyLink, ReassemblyBuffer!FewerInWindow DEF ReassemblyBuffer!HoldsNoMore
  <2> QED BY <2>2 DEF e
<1>5. ReassemblyBuffer!InWindow(ReassemblyBuffer!Update(c, s, r))
  <2> DEFINE e == ReassemblyBuffer!Update(c, s, r)
  <2>1. e.sequence = c.sequence /\ e.entry_sequence = c.entry_sequence
    BY <1>1, ReassemblyLink, ReassemblyBuffer!UpdateType
  <2> HIDE DEF e
  <2>2. ReassemblyBuffer!InWindow(e)
    BY <1>2, <2>1, ReassemblyLink, ReassemblyBuffer!FewerInWindow
  <2> QED BY <2>2 DEF e
<1>6. ASSUME Reassembly!CanInsertAdvanceFirst(c, s)
      PROVE  ReassemblyBuffer!InWindow(ReassemblyBuffer!Fill(ReassemblyBuffer!Advance(c, s), s, r))
  <2>1. ReassemblyBuffer!Advances(c, s)
          \/ (FragmentReassemblyBufferSize >= 2 /\ ReassemblyBuffer!CanInsert(c, s))
    BY <1>6, ReassemblyWindowLink DEF SizesFit
  <2> QED BY <1>1, <1>2, <2>1, ReassemblyLink, ReassemblyBuffer!InsertInWindow
<1> QED BY <1>3, <1>4, <1>5, <1>6, ReassemblyLink, ReassemblyWindowLink

\* A packet sent with the number the sent window is at.
LEMMA SentWindow ==
  ASSUME SizesFit, NEW c \in Sent!BufferOf(BOOLEAN), Holds(c, SentPacketsBufferSize)
  PROVE  Holds(Sent!Insert(c, c.sequence, FALSE), SentPacketsBufferSize)
<1> USE ConfigAssumption, DataAssumption, SequenceModulusAssumption
<1> DEFINE s == c.sequence
<1>1. s \in SequenceNumber
  BY SentLink DEF Sent!BufferOf
<1>2. /\ c \in SentBuffer!BufferOf(BOOLEAN) /\ s \in SentBuffer!SequenceNumber
      /\ NotAcked \in BOOLEAN
  BY <1>1, SentLink DEF NotAcked
<1>3. SentBuffer!Commensurate /\ SentBuffer!InWindow(c)
  BY SentWindowLink
<1>4. HalfModulus > 1
  BY DEF SizesFit, HalfModulus
<1>5. SentBuffer!Advances(c, s)
  BY <1>1, <1>4, SuccessorIsGreater, SentWindowLink
<1>6. SentBuffer!InWindow(SentBuffer!Fill(SentBuffer!Advance(c, s), s, NotAcked))
  BY <1>2, <1>3, <1>5, SentLink, SentBuffer!InsertInWindow
<1> QED BY <1>6, SentWindowLink DEF NotAcked

-----------------------------------------------------------------------------
(* What a step does to the received window, the sent packets and the acks *)

\* The received window may move on; nothing is received and nothing reported.
MovesOn ==
  /\ UNCHANGED <<sent_packets, acks>>
  /\ \/ received_packets' = received_packets
     \/ \E s \in SequenceNumber : received_packets' = Received!Advance(received_packets, s)

\* A packet the window had not received is, and its acks are processed.
Accepts ==
  \E s \in SequenceNumber, h \in Header :
    /\ Received!CanInsertAdvanceFirst(received_packets, s)
    /\ ~Received!Exists(received_packets, s)
    /\ received_packets' = Received!Insert(received_packets, s, None)
    /\ \E names : ProcessAcks(h, names)

\* Opening a reassembly entry before the packet is received makes no difference
\* to what the received buffer becomes.
LEMMA OnOpen ==
  ASSUME TypeOK, NEW d \in Datagrams, d.type = "fragment"
  PROVE  /\ \/ ReceivedOnOpen(d) = received_packets
            \/ ReceivedOnOpen(d) = Received!Advance(received_packets, d.sequence)
         /\ Received!Insert(ReceivedOnOpen(d), d.sequence, None)
              = Received!Insert(received_packets, d.sequence, None)
         /\ Received!CanInsert(ReceivedOnOpen(d), d.sequence) =>
              Received!CanInsertAdvanceFirst(received_packets, d.sequence)
<1> USE ConfigAssumption, DataAssumption, SequenceModulusAssumption
<1> DEFINE s == d.sequence
           c == received_packets
<1>1. s \in SequenceNumber /\ c \in Received!BufferOf({None})
  BY FragmentType DEF TypeOK
<1>2. ReceivedOnOpen(d) = c \/ ReceivedOnOpen(d) = Received!Advance(c, s)
  BY DEF ReceivedOnOpen
<1>3. c \in ReceivedBuffer!BufferOf({None}) /\ s \in ReceivedBuffer!SequenceNumber
  BY <1>1, ReceivedLink
<1>4. ReceivedBuffer!Advance(ReceivedBuffer!Advance(c, s), s) = ReceivedBuffer!Advance(c, s)
  BY <1>3, ReceivedLink, ReceivedBuffer!AdvanceTwice
<1>5. Received!Advance(Received!Advance(c, s), s) = Received!Advance(c, s)
  BY <1>4, ReceivedLink
<1>6. Received!Insert(Received!Advance(c, s), s, None) = Received!Insert(c, s, None)
  BY <1>5 DEF Received!Insert
<1>7. Received!CanInsert(Received!Advance(c, s), s) => Received!CanInsertAdvanceFirst(c, s)
  BY DEF Received!Advance, Received!CanInsertAdvanceFirst
<1>8. Received!CanInsert(c, s) => Received!CanInsertAdvanceFirst(c, s)
  BY DEF Received!CanInsertAdvanceFirst
<1> QED BY <1>2, <1>6, <1>7, <1>8

\* The entry a stored fragment leaves, and the header it rebuilds the packet with.
LEMMA StoredEntry ==
  ASSUME IInv, NEW d \in Datagrams, NEW process, ReceiveFragment(d, process)
  PROVE  LET stored == StoreFragment(Entry(d), d)
         IN  /\ d.type = "fragment" /\ Storable(d) /\ d.sequence \in SequenceNumber
             /\ stored \in ReassemblyData
             /\ stored.num_fragments_received = stored.num_fragments_total =>
                  stored.header \in Header /\ stored.header.sequence = d.sequence
<1> DEFINE stored == StoreFragment(Entry(d), d)
<1>1. /\ Readable(d) /\ d.type = "fragment" /\ Storable(d)
      /\ Entry(d).num_fragments_total = d.num_fragments
      /\ d.fragment_id \notin Entry(d).fragment_received
  BY DEF ReceiveFragment, Readable
<1>2. d.sequence \in SequenceNumber /\ d.num_fragments \in Nat \ {0}
  BY <1>1, FragmentType
<1>3. /\ Entry(d) \in ReassemblyData /\ EntryConsistent(d.sequence, Entry(d))
  BY <1>1, EntryType DEF IInv
<1>4. /\ stored \in ReassemblyData
      /\ stored.num_fragments_total = d.num_fragments
      /\ EntryConsistent(d.sequence, stored)
  BY <1>1, <1>3, StoreFragmentType
<1> HIDE DEF stored
<1>5. stored.num_fragments_received = stored.num_fragments_total =>
        stored.header \in Header /\ stored.header.sequence = d.sequence
  BY <1>2, <1>4, CompleteHasHeader
<1> QED BY <1>1, <1>2, <1>4, <1>5 DEF stored

\* receive_packet, for whatever datagram.
LEMMA ReceiveStep ==
  ASSUME IInv, NEW d \in Datagrams, NEW process, ReceivePacket(d, process)
  PROVE  MovesOn \/ Accepts
<1>1. CASE ReceiveRegular(d, process)
  <2> DEFINE h == d.header
  <2>1. h \in Header /\ h.sequence \in SequenceNumber
    BY <1>1, DataAssumption DEF ReceiveRegular, Datagram, Header
  <2>2. HandleRegular(h, d.content, process, received_packets, fragment_reassembly, FALSE)
    BY <1>1 DEF ReceiveRegular
  <2> HIDE DEF h
  <2>3. \/ received_packets' = received_packets /\ UNCHANGED <<sequence, sent_packets, acks>>
        \/ /\ Received!CanInsert(received_packets, h.sequence)
           /\ ~Received!Exists(received_packets, h.sequence)
           /\ received_packets' = Received!Insert(received_packets, h.sequence, None)
           /\ \E names : ProcessAcks(h, names)
    BY <2>2, HandleRegularOutcome
  <2> QED BY <2>1, <2>3 DEF MovesOn, Accepts, Received!CanInsertAdvanceFirst
<1>2. CASE ReceiveFragment(d, process)
  <2> DEFINE stored == StoreFragment(Entry(d), d)
             reassembly == ReassemblyWith(d, stored)
             h == stored.header
  <2>1. /\ d.type = "fragment" /\ Storable(d) /\ d.sequence \in SequenceNumber
        /\ stored.num_fragments_received = stored.num_fragments_total =>
             h \in Header /\ h.sequence = d.sequence
    BY <1>2, StoredEntry
  <2>2. \/ received_packets' = ReceivedOnOpen(d) /\ UNCHANGED <<sequence, sent_packets, acks>>
        \/ /\ stored.num_fragments_received = stored.num_fragments_total
           /\ HandleRegular(h, SubSeq(stored.packet_data, 1, stored.packet_bytes),
                            process, ReceivedOnOpen(d), reassembly, TRUE)
    BY <1>2 DEF ReceiveFragment
  <2> HIDE DEF stored, reassembly, h
  <2>3. \/ ReceivedOnOpen(d) = received_packets
        \/ ReceivedOnOpen(d) = Received!Advance(received_packets, d.sequence)
    BY <2>1, OnOpen DEF IInv
  <2>4. CASE received_packets' = ReceivedOnOpen(d) /\ UNCHANGED <<sequence, sent_packets, acks>>
    BY <2>1, <2>3, <2>4 DEF MovesOn
  <2>5. CASE /\ stored.num_fragments_received = stored.num_fragments_total
             /\ HandleRegular(h, SubSeq(stored.packet_data, 1, stored.packet_bytes),
                              process, ReceivedOnOpen(d), reassembly, TRUE)
    <3>1. h \in Header /\ h.sequence = d.sequence
      BY <2>1, <2>5
    <3>2. \/ received_packets' = ReceivedOnOpen(d) /\ UNCHANGED <<sequence, sent_packets, acks>>
          \/ /\ Received!CanInsert(ReceivedOnOpen(d), h.sequence)
             /\ received_packets' = Received!Insert(ReceivedOnOpen(d), h.sequence, None)
             /\ \E names : ProcessAcks(h, names)
      BY <2>5, HandleRegularOutcome
    <3>3. ~Received!Exists(received_packets, d.sequence)
      BY <2>1 DEF Storable
    <3>4. CASE received_packets' = ReceivedOnOpen(d) /\ UNCHANGED <<sequence, sent_packets, acks>>
      BY <2>4, <3>4
    <3>5. CASE /\ Received!CanInsert(ReceivedOnOpen(d), h.sequence)
               /\ received_packets' = Received!Insert(ReceivedOnOpen(d), h.sequence, None)
               /\ \E names : ProcessAcks(h, names)
      <4>1. /\ Received!CanInsertAdvanceFirst(received_packets, d.sequence)
            /\ received_packets' = Received!Insert(received_packets, d.sequence, None)
        BY <2>1, <3>1, <3>5, OnOpen DEF IInv
      <4> QED BY <2>1, <3>1, <3>3, <3>5, <4>1 DEF Accepts
    <3> QED BY <3>2, <3>4, <3>5
  <2> QED BY <2>2, <2>4, <2>5
<1>3. CASE ReceiveUnreadable(d, process)
  BY <1>3 DEF ReceiveUnreadable, MovesOn
<1>4. CASE ReceiveFragmentTooLarge(d, process)
  BY <1>4 DEF ReceiveFragmentTooLarge, MovesOn
<1>5. CASE ReceiveInvalidFragment(d, process)
  BY <1>5 DEF ReceiveInvalidFragment, MovesOn
<1>6. CASE IgnoreFragment(d, process)
  BY <1>6 DEF IgnoreFragment, MovesOn
<1> QED BY <1>1, <1>2, <1>3, <1>4, <1>5, <1>6 DEF ReceivePacket

\* Every step, seen from the received window and the acks.
LEMMA EveryStep ==
  ASSUME IInv, [Next]_vars
  PROVE  \/ MovesOn
         \/ Accepts
         \/ \E content \in Packets : SendPacket(content)
         \/ acks' = <<>> /\ UNCHANGED <<sent_packets, received_packets>>
         \/ Reset
<1>1. ASSUME NEW content \in Packets, SendTooLarge(content)
      PROVE  MovesOn
  BY <1>1 DEF SendTooLarge, MovesOn
<1>2. ASSUME NEW d \in Datagrams, NEW process, ReceivePacket(d, process)
      PROVE  MovesOn \/ Accepts
  BY <1>2, ReceiveStep
<1>3. CASE ClearAcks
  BY <1>3 DEF ClearAcks
<1>4. CASE UNCHANGED vars
  BY <1>4 DEF vars, MovesOn
<1> QED BY <1>1, <1>2, <1>3, <1>4 DEF Next

-----------------------------------------------------------------------------
(* Every entry in its window *)

\* Removing the entry of a rebuilt packet leaves the others in the window.
LEMMA LeftInWindow ==
  ASSUME SizesFit, NEW c \in Reassembly!BufferOf(ReassemblyData),
         Holds(c, FragmentReassemblyBufferSize), NEW s \in SequenceNumber, NEW rebuilt
  PROVE  Holds(Left(c, s, rebuilt), FragmentReassemblyBufferSize)
<1>1. Holds(Reassembly!Remove(c, s), FragmentReassemblyBufferSize)
  BY EmptyReassemblyType, ReassemblyWindow
<1> QED BY <1>1 DEF Left

\* The regular branch, on a reassembly buffer whose entries are in its window.
LEMMA HandleRegularInWindow ==
  ASSUME SizesFit, NEW h \in Header, NEW content, NEW process, NEW rebuilt, NEW received,
         NEW reassembly \in Reassembly!BufferOf(ReassemblyData),
         Holds(reassembly, FragmentReassemblyBufferSize),
         HandleRegular(h, content, process, received, reassembly, rebuilt)
  PROVE  Holds(fragment_reassembly, FragmentReassemblyBufferSize)'
<1> DEFINE s == h.sequence
           e == Reassembly!Advance(reassembly, s)
<1>1. s \in SequenceNumber
  BY DEF Header
<1>2. \/ fragment_reassembly' = Left(reassembly, s, rebuilt)
      \/ fragment_reassembly' = Left(e, s, rebuilt)
  BY HandleRegularOutcome
<1>3. e \in Reassembly!BufferOf(ReassemblyData)
  BY <1>1, ReassemblyLink, EmptyReassemblyType, ReassemblyBuffer!AdvanceType,
     ConfigAssumption, DataAssumption, SequenceModulusAssumption
<1>4. Holds(e, FragmentReassemblyBufferSize)
  BY <1>1, EmptyReassemblyType, ReassemblyWindow
<1> HIDE DEF s, e
<1>5. /\ Holds(Left(reassembly, s, rebuilt), FragmentReassemblyBufferSize)
      /\ Holds(Left(e, s, rebuilt), FragmentReassemblyBufferSize)
  BY <1>1, <1>3, <1>4, LeftInWindow
<1> QED BY <1>2, <1>5 DEF Holds

\* receive_packet keeps every reassembly entry in the window.
LEMMA ReceiveInReassemblyWindow ==
  ASSUME SizesFit, IInv, Holds(fragment_reassembly, FragmentReassemblyBufferSize),
         NEW d \in Datagrams, NEW process, ReceivePacket(d, process)
  PROVE  Holds(fragment_reassembly, FragmentReassemblyBufferSize)'
<1> DEFINE c == fragment_reassembly
<1>1. c \in Reassembly!BufferOf(ReassemblyData)
  BY DEF IInv, TypeOK
<1>2. CASE ReceiveRegular(d, process)
  <2>1. d.header \in Header
    BY <1>2, DataAssumption DEF ReceiveRegular, Datagram
  <2> QED BY <1>1, <1>2, <2>1, HandleRegularInWindow DEF ReceiveRegular
<1>3. CASE ReceiveFragment(d, process)
  <2> DEFINE stored == StoreFragment(Entry(d), d)
             reassembly == ReassemblyWith(d, stored)
             h == stored.header
             s == d.sequence
  <2>1. /\ d.type = "fragment" /\ Storable(d) /\ s \in SequenceNumber
        /\ stored \in ReassemblyData
        /\ stored.num_fragments_received = stored.num_fragments_total => h \in Header
    BY <1>3, StoredEntry
  <2>2. \/ fragment_reassembly' = reassembly
        \/ /\ stored.num_fragments_received = stored.num_fragments_total
           /\ HandleRegular(h, SubSeq(stored.packet_data, 1, stored.packet_bytes),
                            process, ReceivedOnOpen(d), reassembly, TRUE)
    BY <1>3 DEF ReceiveFragment
  <2> HIDE DEF stored, h
  <2>3. reassembly \in Reassembly!BufferOf(ReassemblyData)
    BY <2>1, OpenedBuffers DEF IInv
  <2>4. Holds(reassembly, FragmentReassemblyBufferSize)
    <3>1. CASE Reassembly!Exists(c, s)
      <4>1. reassembly = Reassembly!Update(c, s, stored)
        BY <3>1 DEF ReassemblyWith
      <4> QED BY <1>1, <2>1, <4>1, ReassemblyWindow
    <3>2. CASE ~Reassembly!Exists(c, s)
      <4>1. /\ reassembly = Reassembly!InsertAdvanceFirst(c, s, stored)
            /\ Reassembly!CanInsertAdvanceFirst(c, s)
        BY <2>1, <3>2 DEF ReassemblyWith, Storable
      <4> QED BY <1>1, <2>1, <4>1, ReassemblyWindow
    <3> QED BY <3>1, <3>2
  <2> HIDE DEF reassembly
  <2>5. CASE fragment_reassembly' = reassembly
    BY <2>4, <2>5 DEF Holds
  <2>6. CASE /\ stored.num_fragments_received = stored.num_fragments_total
             /\ HandleRegular(h, SubSeq(stored.packet_data, 1, stored.packet_bytes),
                              process, ReceivedOnOpen(d), reassembly, TRUE)
    BY <2>1, <2>3, <2>4, <2>6, HandleRegularInWindow
  <2> QED BY <2>2, <2>5, <2>6
<1>4. CASE fragment_reassembly' = fragment_reassembly
  BY <1>4 DEF Holds
<1> QED BY <1>2, <1>3, <1>4
        DEF ReceivePacket, ReceiveUnreadable, ReceiveFragmentTooLarge,
            ReceiveInvalidFragment, IgnoreFragment

\* So for the received window, of which EveryStep says what can happen to it.
LEMMA ReceivedStaysInWindow ==
  ASSUME SizesFit, IInv, Holds(received_packets, ReceivedPacketsBufferSize),
         MovesOn \/ Accepts
  PROVE  Holds(received_packets, ReceivedPacketsBufferSize)'
<1>1. received_packets \in Received!BufferOf({None})
  BY DEF IInv, TypeOK
<1>2. PICK e : received_packets' = e /\ Holds(e, ReceivedPacketsBufferSize)
  <2>1. CASE received_packets' = received_packets
    BY <2>1
  <2>2. ASSUME NEW s \in SequenceNumber,
               received_packets' = Received!Advance(received_packets, s)
        PROVE  \E e : received_packets' = e /\ Holds(e, ReceivedPacketsBufferSize)
    BY <1>1, <2>2, ReceivedWindow
  <2>3. CASE Accepts
    <3>1. PICK s \in SequenceNumber :
            /\ Received!CanInsertAdvanceFirst(received_packets, s)
            /\ received_packets' = Received!Insert(received_packets, s, None)
      BY <2>3 DEF Accepts
    <3> QED BY <1>1, <3>1, ReceivedWindow
  <2> QED BY <2>1, <2>2, <2>3 DEF MovesOn
<1> QED BY <1>2 DEF Holds

\* The ack loop moves no sent packet to another slot.
LEMMA ProcessAcksKeepsNumbers ==
  ASSUME NEW h, NEW names, ProcessAcks(h, names)
  PROVE  sent_packets' = [sent_packets EXCEPT !.entries = sent_packets'.entries]
BY DEF ProcessAcks

\* send_packet inserts at the number its window is at; nothing else moves it.
LEMMA SentStaysInWindow ==
  ASSUME SizesFit, IInv, SentWindowAtSequence, Holds(sent_packets, SentPacketsBufferSize),
         \/ MovesOn
         \/ Accepts
         \/ \E content \in Packets : SendPacket(content)
  PROVE  Holds(sent_packets, SentPacketsBufferSize)'
<1>1. sent_packets \in Sent!BufferOf(BOOLEAN)
  BY DEF IInv, TypeOK
<1>2. CASE MovesOn
  BY <1>2 DEF MovesOn, Holds
<1>3. CASE Accepts
  <2>1. PICK s \in SequenceNumber, h \in Header : \E names : ProcessAcks(h, names)
    BY <1>3 DEF Accepts
  <2>2. sent_packets' = [sent_packets EXCEPT !.entries = sent_packets'.entries]
    BY <2>1, ProcessAcksKeepsNumbers
  <2>3. /\ sent_packets'.sequence = sent_packets.sequence
        /\ sent_packets'.entry_sequence = sent_packets.entry_sequence
    BY <1>1, <2>2 DEF Sent!BufferOf
  <2> QED BY <2>3 DEF Holds
<1>4. CASE \E content \in Packets : SendPacket(content)
  <2>1. sent_packets' = Sent!Insert(sent_packets, sent_packets.sequence, FALSE)
    BY <1>4 DEF SendPacket, SentWindowAtSequence
  <2>2. PICK e : sent_packets' = e /\ Holds(e, SentPacketsBufferSize)
    BY <1>1, <2>1, SentWindow
  <2> QED BY <2>2 DEF Holds
<1> QED BY <1>2, <1>3, <1>4

\* Fresh buffers hold nothing outside a window.
LEMMA FreshHolds ==
  /\ Holds(Sent!New, SentPacketsBufferSize)
  /\ Holds(Received!New, ReceivedPacketsBufferSize)
  /\ Holds(Reassembly!New, FragmentReassemblyBufferSize)
<1> USE DEF Holds
<1>1. Holds(Sent!New, SentPacketsBufferSize)
  BY DEF Sent!New, Sent!Index
<1>2. Holds(Received!New, ReceivedPacketsBufferSize)
  BY DEF Received!New, Received!Index
<1>3. Holds(Reassembly!New, FragmentReassemblyBufferSize)
  BY DEF Reassembly!New, Reassembly!Index
<1> QED BY <1>1, <1>2, <1>3

\* The inductive invariant of the windows.
WindowInv == IInv /\ SentWindowAtSequence /\ EntriesStayInWindow

\* It holds of a new endpoint.
LEMMA WindowInit == Init => WindowInv
<1>1. Init => IInv /\ SentWindowAtSequence
  BY InitInv, NewBuffers DEF Init, SentWindowAtSequence
<1>2. Init => EntriesStayInWindow
  BY FreshHolds DEF Init, EntriesStayInWindow
<1> QED BY <1>1, <1>2 DEF WindowInv

\* Every step preserves it.
LEMMA WindowStep ==
  ASSUME SizesFit, WindowInv, [Next]_vars
  PROVE  WindowInv'
<1> USE DEF WindowInv, EntriesStayInWindow
<1>1. HalfModulus > 1
  BY ConfigAssumption, SequenceModulusAssumption DEF SizesFit, HalfModulus
<1>2. IInv' /\ SentWindowAtSequence'
  BY <1>1, NextInv, SentWindowStep DEF IInv
<1>3. Holds(sent_packets, SentPacketsBufferSize)' /\ Holds(received_packets, ReceivedPacketsBufferSize)'
  <2>1. CASE MovesOn \/ Accepts
    BY <2>1, SentStaysInWindow, ReceivedStaysInWindow
  <2>2. CASE \E content \in Packets : SendPacket(content)
    <3>1. Holds(sent_packets, SentPacketsBufferSize)'
      BY <2>2, SentStaysInWindow
    <3>2. received_packets' = received_packets
      BY <2>2 DEF SendPacket
    <3> QED BY <3>1, <3>2 DEF Holds
  <2>3. CASE acks' = <<>> /\ UNCHANGED <<sent_packets, received_packets>>
    BY <2>3 DEF Holds
  <2>4. CASE Reset
    BY <2>4, FreshHolds DEF Reset, Holds
  <2> QED BY <2>1, <2>2, <2>3, <2>4, EveryStep
<1>4. Holds(fragment_reassembly, FragmentReassemblyBufferSize)'
  <2>1. ASSUME NEW d \in Datagrams, NEW process, ReceivePacket(d, process)
        PROVE  Holds(fragment_reassembly, FragmentReassemblyBufferSize)'
    BY <2>1, ReceiveInReassemblyWindow
  <2>2. CASE Reset
    BY <2>2, FreshHolds DEF Reset, Holds
  <2>3. CASE fragment_reassembly' = fragment_reassembly
    BY <2>3 DEF Holds
  <2> QED BY <2>1, <2>2, <2>3 DEF Next, SendPacket, SendTooLarge, ClearAcks, vars
<1> QED BY <1>2, <1>3, <1>4

\* No sequence number, however it arrives, is ever stored in a slot that is not
\* its own or outside the window of its buffer: in none of the three buffers,
\* after any history of sends, datagrams, acks and resets.
THEOREM WindowsHold ==
  ASSUME SizesFit
  PROVE  Spec => []EntriesStayInWindow
<1>1. Init => WindowInv
  BY WindowInit
<1>2. WindowInv /\ [Next]_vars => WindowInv'
  BY WindowStep
<1>3. WindowInv => EntriesStayInWindow
  BY DEF WindowInv
<1> QED BY <1>1, <1>2, <1>3, PTL DEF Spec

-----------------------------------------------------------------------------
(* What a step may never do *)

\* The packets a step flags are those it reports.
FlaggedExactly ==
  {sent_packets.entry_sequence[i] :
     i \in {j \in 0 .. SentPacketsBufferSize - 1 :
              sent_packets'.entries[j] /\ ~sent_packets.entries[j]}}
  = {Appended[k] : k \in DOMAIN Appended}

\* The acks a list gains at its end.
LEMMA AppendedAcks ==
  /\ \A a \in Seq(SequenceNumber), new \in Seq(SequenceNumber) :
       SubSeq(a \o new, Len(a) + 1, Len(a \o new)) = new
  /\ \A a \in Seq(SequenceNumber) :
       /\ SubSeq(a, Len(a) + 1, Len(a)) = <<>>
       /\ SubSeq(<<>>, Len(a) + 1, Len(<<>>)) = <<>>
<1>1. ASSUME NEW a \in Seq(SequenceNumber), NEW new \in Seq(SequenceNumber)
      PROVE  SubSeq(a \o new, Len(a) + 1, Len(a \o new)) = new
  OBVIOUS
<1>2. ASSUME NEW a \in Seq(SequenceNumber)
      PROVE  /\ SubSeq(a, Len(a) + 1, Len(a)) = <<>>
             /\ SubSeq(<<>>, Len(a) + 1, Len(<<>>)) = <<>>
  <2>1. SubSeq(a, Len(a) + 1, Len(a)) = <<>>
    OBVIOUS
  <2>2. SubSeq(<<>>, Len(a) + 1, 0) = <<>>
    OBVIOUS
  <2> QED BY <2>1, <2>2
<1> QED BY <1>1, <1>2

\* A step that appends no ack and flags no packet.
LEMMA NothingReported ==
  ASSUME Appended = <<>>,
         \A j \in 0 .. SentPacketsBufferSize - 1 :
           sent_packets'.entries[j] => sent_packets.entries[j]
  PROVE  FlaggedExactly
<1>1. {Appended[k] : k \in DOMAIN Appended} = {}
  <2>1. DOMAIN <<>> = {}
    OBVIOUS
  <2> QED BY <2>1
<1> QED BY <1>1 DEF FlaggedExactly

\* The ack loop flags exactly the packets it reports.
LEMMA ProcessAcksFlags ==
  ASSUME TypeOK, NEW h \in Header, NEW names, ProcessAcks(h, names)
  PROVE  FlaggedExactly
<1>1. PICK n \in 0 .. AckBits : \E reported \in [1 .. n -> Reportable(h)] :
        /\ acks' = acks \o [k \in 1 .. n |-> AckSequence(h, reported[k])]
        /\ sent_packets' = [sent_packets EXCEPT !.entries =
             [slot \in DOMAIN @ |->
                @[slot] \/ \E k \in 1 .. n : slot = Sent!Slot(AckSequence(h, reported[k]))]]
  BY DEF ProcessAcks
<1>2. PICK reported \in [1 .. n -> Reportable(h)] :
        /\ acks' = acks \o [k \in 1 .. n |-> AckSequence(h, reported[k])]
        /\ sent_packets' = [sent_packets EXCEPT !.entries =
             [slot \in DOMAIN @ |->
                @[slot] \/ \E k \in 1 .. n : slot = Sent!Slot(AckSequence(h, reported[k]))]]
  BY <1>1
<1>3. n \in Nat
  BY ConfigAssumption
<1> DEFINE new == [k \in 1 .. n |-> AckSequence(h, reported[k])]
           index == 0 .. SentPacketsBufferSize - 1
<1>4. ASSUME NEW k \in 1 .. n
      PROVE  /\ new[k] \in SequenceNumber
             /\ Sent!Slot(new[k]) \in index
             /\ sent_packets.entry_sequence[Sent!Slot(new[k])] = new[k]
             /\ ~sent_packets.entries[Sent!Slot(new[k])]
  <2>1. reported[k] \in Reportable(h) /\ new[k] = AckSequence(h, reported[k])
    OBVIOUS
  <2>2. reported[k] \in Int /\ h.ack \in Int
    BY <2>1, ConfigAssumption, SequenceModulusAssumption
       DEF Reportable, Header, SequenceNumber
  <2>3. new[k] \in SequenceNumber
    BY <2>1, <2>2, WrapSubType DEF AckSequence
  <2>4. Sent!Slot(new[k]) \in index
    <3>1. new[k] \in Nat
      BY <2>3, SequenceModulusAssumption DEF SequenceNumber
    <3> HIDE DEF new
    <3> QED BY <3>1, ConfigAssumption DEF Sent!Slot
  <2>5. Sent!Exists(sent_packets, new[k]) /\ ~Sent!Find(sent_packets, new[k])
    BY <2>1 DEF Reportable
  <2> HIDE DEF new, index
  <2> QED BY <2>3, <2>4, <2>5 DEF Sent!Exists, Sent!Find
<1>5. new \in Seq(SequenceNumber) /\ Len(new) = n /\ DOMAIN new = 1 .. n
  <2>1. new \in [1 .. n -> SequenceNumber]
    BY <1>4
  <2> HIDE DEF new
  <2> QED BY <1>3, <2>1
<1>6. Appended = new
  <2>1. acks \in Seq(SequenceNumber) /\ acks' = acks \o new
    BY <1>2 DEF TypeOK
  <2> HIDE DEF new
  <2> QED BY <1>5, <2>1, AppendedAcks DEF Appended
<1>7. ASSUME NEW j \in index
      PROVE  sent_packets'.entries[j] <=>
               sent_packets.entries[j] \/ \E k \in 1 .. n : j = Sent!Slot(new[k])
  <2>1. /\ DOMAIN sent_packets.entries = index
        /\ "entries" \in DOMAIN sent_packets
    BY SentLink DEF TypeOK, Sent!BufferOf
  <2>2. sent_packets'.entries =
          [slot \in DOMAIN sent_packets.entries |->
             sent_packets.entries[slot]
               \/ \E k \in 1 .. n : slot = Sent!Slot(AckSequence(h, reported[k]))]
    BY <1>2, <2>1
  <2> HIDE DEF index
  <2> QED BY <2>1, <2>2
<1> HIDE DEF new, index
<1>8. {sent_packets.entry_sequence[i] :
         i \in {j \in index : sent_packets'.entries[j] /\ ~sent_packets.entries[j]}}
      = {new[k] : k \in 1 .. n}
  <2>1. ASSUME NEW i \in index, sent_packets'.entries[i], ~sent_packets.entries[i]
        PROVE  \E k \in 1 .. n : sent_packets.entry_sequence[i] = new[k]
    <3>1. PICK k \in 1 .. n : i = Sent!Slot(new[k])
      BY <1>7, <2>1
    <3> QED BY <1>4, <3>1
  <2>2. ASSUME NEW k \in 1 .. n
        PROVE  \E i \in index : /\ sent_packets'.entries[i] /\ ~sent_packets.entries[i]
                                /\ sent_packets.entry_sequence[i] = new[k]
    <3>1. Sent!Slot(new[k]) \in index
      BY <1>4
    <3> QED BY <1>4, <1>7, <3>1
  <2> QED BY <2>1, <2>2
<1> QED BY <1>5, <1>6, <1>8 DEF FlaggedExactly, index

\* send_packet tracks its packet unflagged and flags no other.
LEMMA SendFlagsNone ==
  ASSUME IInv, NEW content \in Packets, SendPacket(content)
  PROVE  \A j \in 0 .. SentPacketsBufferSize - 1 :
           sent_packets'.entries[j] => sent_packets.entries[j]
<1> USE ConfigAssumption, DataAssumption, SequenceModulusAssumption
<1> DEFINE e == SentBuffer!Insert(sent_packets, sequence, NotAcked)
           slot == SentBuffer!Slot(sequence)
<1>1. /\ sent_packets \in SentBuffer!BufferOf(BOOLEAN)
      /\ sequence \in SentBuffer!SequenceNumber
      /\ NotAcked \in BOOLEAN
  BY SentLink DEF IInv, TypeOK, NotAcked
<1>2. /\ e.entries[slot] = NotAcked
      /\ \A i \in SentBuffer!Index \ {slot} :
           e.entries[i] = NotAcked \/ e.entries[i] = sent_packets.entries[i]
  BY <1>1, SentBuffer!InsertType, SentLink
<1>3. sent_packets' = e
  BY SentLink DEF SendPacket, NotAcked
<1> HIDE DEF e, slot
<1> QED BY <1>2, <1>3, SentLink DEF NotAcked

\* Every step reports what it flags, as long as it stores no new packet.
LEMMA FlagStep ==
  ASSUME IInv, [Next]_vars
  PROVE  sent_packets'.entry_sequence = sent_packets.entry_sequence => FlaggedExactly
<1>1. acks \in Seq(SequenceNumber)
  BY DEF IInv, TypeOK
<1>2. acks' = acks \/ acks' = <<>> => Appended = <<>>
  BY <1>1, AppendedAcks DEF Appended
<1>3. CASE MovesOn
  BY <1>2, <1>3, NothingReported DEF MovesOn
<1>4. CASE Accepts
  BY <1>4, ProcessAcksFlags DEF Accepts, IInv
<1>5. CASE \E content \in Packets : SendPacket(content)
  <2>1. acks' = acks
    BY <1>5 DEF SendPacket
  <2> QED BY <1>2, <1>5, <2>1, SendFlagsNone, NothingReported
<1>6. CASE acks' = <<>> /\ UNCHANGED <<sent_packets, received_packets>>
  BY <1>2, <1>6, NothingReported
<1>7. CASE Reset
  <2>1. acks' = <<>>
    BY <1>7 DEF Reset
  <2>2. \A j \in 0 .. SentPacketsBufferSize - 1 : ~sent_packets'.entries[j]
    BY <1>7 DEF Reset, Sent!New, Sent!Index
  <2> QED BY <1>2, <2>1, <2>2, NothingReported
<1> QED BY <1>3, <1>4, <1>5, <1>6, <1>7, EveryStep

\* A packet is flagged as acked in exactly the steps that report it to the
\* application, whatever header brings the ack and however full the list of acks
\* is.  No assumption on the sizes.
THEOREM FlagsAreReports == Spec => FlaggedIffReported
<1>1. Init => IInv
  BY InitInv
<1>2. IInv /\ [Next]_vars => IInv'
  BY NextInv
<1>3. IInv /\ [Next]_vars =>
        [sent_packets'.entry_sequence = sent_packets.entry_sequence =>
           {sent_packets.entry_sequence[i] :
              i \in {j \in 0 .. SentPacketsBufferSize - 1 :
                       sent_packets'.entries[j] /\ ~sent_packets.entries[j]}}
           = {Appended[k] : k \in DOMAIN Appended}]_vars
  BY FlagStep DEF FlaggedExactly
<1> QED BY <1>1, <1>2, <1>3, PTL DEF Spec, FlaggedIffReported

\* The list of acks grows only in a step that receives a packet.
LEMMA AckStep ==
  ASSUME IInv, [Next]_vars, Len(acks') > Len(acks)
  PROVE  \E i \in 0 .. ReceivedPacketsBufferSize - 1 :
           LET s == received_packets'.entry_sequence[i]
           IN  s # None /\ ~Received!Exists(received_packets, s)
<1> USE ConfigAssumption, DataAssumption, SequenceModulusAssumption
<1>1. acks \in Seq(SequenceNumber) /\ acks' # acks /\ acks' # <<>>
  BY DEF IInv, TypeOK
<1>2. Accepts
  BY <1>1, EveryStep DEF MovesOn, SendPacket, Reset
<1>3. PICK s \in SequenceNumber :
        /\ ~Received!Exists(received_packets, s)
        /\ received_packets' = Received!Insert(received_packets, s, None)
  BY <1>2 DEF Accepts
<1>4. /\ received_packets \in ReceivedBuffer!BufferOf({None})
      /\ s \in ReceivedBuffer!SequenceNumber
  BY ReceivedLink DEF IInv, TypeOK
<1>5. received_packets'.entry_sequence[Received!Slot(s)] = s
  BY <1>3, <1>4, ReceivedLink, ReceivedBuffer!InsertType
<1>6. Received!Slot(s) \in 0 .. ReceivedPacketsBufferSize - 1
  BY DEF Received!Slot, SequenceNumber
<1> QED BY <1>3, <1>5, <1>6

\* The acks of a header count only when the packet it came with is received for
\* the first time: no stale, duplicate, invalid or rejected datagram reports any.
THEOREM AcksNeedAPacket == Spec => AcksOnlyWithAcceptedPacket
<1>1. Init => IInv
  BY InitInv
<1>2. IInv /\ [Next]_vars => IInv'
  BY NextInv
<1>3. IInv /\ [Next]_vars =>
        [Len(acks') > Len(acks) =>
           \E i \in 0 .. ReceivedPacketsBufferSize - 1 :
             LET s == received_packets'.entry_sequence[i]
             IN  s # None /\ ~Received!Exists(received_packets, s)]_vars
  BY AckStep
<1> QED BY <1>1, <1>2, <1>3, PTL DEF Spec, AcksOnlyWithAcceptedPacket

\* A step other than a reset forgets no number the window still covers.
LEMMA RememberStep ==
  ASSUME SizesFit, WindowInv, [Next]_vars,
         NEW i \in 0 .. ReceivedPacketsBufferSize - 1, ~Reset,
         received_packets.entry_sequence[i] # None,
         WrapSub(received_packets'.sequence, received_packets.entry_sequence[i] + 1)
           < ReceivedPacketsBufferSize
  PROVE  received_packets'.entry_sequence[i] = received_packets.entry_sequence[i]
<1> USE DEF WindowInv, EntriesStayInWindow
<1>1. received_packets \in Received!BufferOf({None})
  BY DEF IInv, TypeOK
<1>2. CASE received_packets' = received_packets
  BY <1>2
<1>3. ASSUME NEW s \in SequenceNumber,
             received_packets' = Received!Advance(received_packets, s)
      PROVE  received_packets'.entry_sequence[i] = received_packets.entry_sequence[i]
  BY <1>1, <1>3, ReceivedWindow
<1>4. CASE Accepts
  <2>1. PICK s \in SequenceNumber :
          /\ Received!CanInsertAdvanceFirst(received_packets, s)
          /\ received_packets' = Received!Insert(received_packets, s, None)
    BY <1>4 DEF Accepts
  <2>2. received_packets'.sequence = Received!Advance(received_packets, s).sequence
    BY <1>1, <2>1, ReceivedMove
  <2>3. Received!Advance(received_packets, s).entry_sequence[i]
          = received_packets.entry_sequence[i]
    BY <1>1, <2>2, ReceivedWindow
  <2> QED BY <1>1, <2>1, <2>3, ReceivedWindow
<1> QED BY <1>2, <1>3, <1>4, EveryStep DEF MovesOn, SendPacket

\* A number once received is remembered until the received window passes it or
\* the endpoint is reset: no datagram, fragment or rejection evicts it early, so
\* none can have its packet accepted again.
THEOREM ReceivedNotForgotten ==
  ASSUME SizesFit
  PROVE  Spec => ReceivedIsRemembered
<1>1. Init => WindowInv
  BY WindowInit
<1>2. WindowInv /\ [Next]_vars => WindowInv'
  BY WindowStep
<1>3. ASSUME WindowInv, [Next]_vars, NEW i \in 0 .. ReceivedPacketsBufferSize - 1, ~Reset,
             received_packets.entry_sequence[i] # None,
             WrapSub(received_packets'.sequence, received_packets.entry_sequence[i] + 1)
               < ReceivedPacketsBufferSize
      PROVE  Received!Exists(received_packets', received_packets.entry_sequence[i])
  <2>1. Received!Slot(received_packets.entry_sequence[i]) = i
    BY <1>3 DEF WindowInv, EntriesStayInWindow, Holds, Received!Slot
  <2> QED BY <1>3, <2>1, RememberStep DEF Received!Exists
<1>4. WindowInv /\ [Next]_vars =>
        [\A i \in 0 .. ReceivedPacketsBufferSize - 1 :
           LET s == received_packets.entry_sequence[i]
           IN  s # None /\ WrapSub(received_packets'.sequence, s + 1) < ReceivedPacketsBufferSize
                 => Received!Exists(received_packets', s) \/ Reset]_vars
  BY <1>3
<1> QED BY <1>1, <1>2, <1>4, PTL DEF Spec, ReceivedIsRemembered
-----------------------------------------------------------------------------
(* Identities                                                              *)

\* The number the identity of a packet is sent under.
NumberOf(id) == id % SequenceModulus

\* The sizes of the three buffers divide the number space and are at most half
\* of it.
SizesDivide ==
  \A size \in {SentPacketsBufferSize, ReceivedPacketsBufferSize,
               FragmentReassemblyBufferSize} :
    SequenceModulus % size = 0 /\ size <= HalfModulus

\* Packet id is close enough to a received window at n for every comparison.
InReach(id, n) == id \in n - HalfModulus .. n + HalfModulus - ReceivedPacketsBufferSize - 1

\* Datagram d is what send_packet makes of packet id, or one of its fragments.
PartOf(d, id, content, h) ==
  IF Len(content) <= FragmentAbove
  THEN d = [type |-> "regular", header |-> h, content |-> content]
  ELSE \E f \in 0 .. NumFragments(content) - 1 :
         d = [type |-> "fragment", sequence |-> NumberOf(id), fragment_id |-> f,
              num_fragments |-> NumFragments(content),
              header |-> IF f = 0 THEN h ELSE None, content |-> Piece(content, f)]

\* Reassembly entry r holds fragments of the packet with that content, and no
\* other bytes.
Assembles(r, content) ==
  /\ r.num_fragments_total = NumFragments(content)
  /\ \A k \in 1 .. Len(content) :
       ((k - 1) \div FragmentSize) \in r.fragment_received => r.packet_data[k] = content[k]
  /\ NumFragments(content) - 1 \in r.fragment_received => r.packet_bytes = Len(content)

\* Buffer b, of that size, has its window at identity n and remembers `ids`.
KeepsIn(b, n, ids, size) ==
  /\ b.sequence = NumberOf(n)
  /\ ids \subseteq n - size .. n - 1
  /\ \A id \in ids : b.entry_sequence[id % size] = NumberOf(id)
  /\ \A i \in 0 .. size - 1 : b.entry_sequence[i] # None => \E id \in ids : id % size = i

\* The window once identity id has been seen.
Reached(n, id) == IF id >= n THEN id + 1 ELSE n

\* A window at n stays, or reaches id.
Moves(n, id) == {n, Reached(n, id)}

\* What is left of `ids` in a window at m.
Kept(ids, m, size) == {q \in ids : q >= m - size}

-----------------------------------------------------------------------------
(* The three buffers, by identity *)

\* What the instances say of identities is about the endpoint's own buffers.
LEMMA ReceivedIdentityLink ==
  /\ SizesDivide => ReceivedBuffer!Commensurate
  /\ \A b, n, ids : KeepsIn(b, n, ids, ReceivedPacketsBufferSize)
       <=> ReceivedBuffer!Keeps(b, n, ids)
  /\ \A id : ReceivedBuffer!NumberOf(id) = NumberOf(id)
  /\ \A b, s : ReceivedBuffer!CanInsert(b, s) <=> Received!CanInsert(b, s)
  /\ \A b, s : ReceivedBuffer!Exists(b, s) <=> Received!Exists(b, s)
  /\ ReceivedBuffer!HalfModulus = HalfModulus
<1>1. SizesDivide => ReceivedBuffer!Commensurate
  BY DEF SizesDivide, ReceivedBuffer!Commensurate, HalfModulus, ReceivedBuffer!HalfModulus
<1>2. \A b, n, ids : KeepsIn(b, n, ids, ReceivedPacketsBufferSize)
        <=> ReceivedBuffer!Keeps(b, n, ids)
  BY DEF KeepsIn, ReceivedBuffer!Keeps, NumberOf, ReceivedBuffer!NumberOf, ReceivedBuffer!Slot,
     ReceivedBuffer!Index
<1>3. \A id : ReceivedBuffer!NumberOf(id) = NumberOf(id)
  BY DEF NumberOf, ReceivedBuffer!NumberOf
<1>4. \A b, s : ReceivedBuffer!CanInsert(b, s) <=> Received!CanInsert(b, s)
  BY DEF Received!CanInsert, ReceivedBuffer!CanInsert, Received!Oldest, ReceivedBuffer!Oldest,
     Received!SequenceLessThan, ReceivedBuffer!SequenceLessThan,
     Received!SequenceGreaterThan, ReceivedBuffer!SequenceGreaterThan,
     Received!WrapSub, ReceivedBuffer!WrapSub, Received!HalfModulus, ReceivedBuffer!HalfModulus
<1>5. \A b, s : ReceivedBuffer!Exists(b, s) <=> Received!Exists(b, s)
  BY DEF Received!Exists, ReceivedBuffer!Exists, Received!Slot, ReceivedBuffer!Slot
<1>6. ReceivedBuffer!HalfModulus = HalfModulus
  BY DEF HalfModulus, ReceivedBuffer!HalfModulus
<1> QED BY <1>1, <1>2, <1>3, <1>4, <1>5, <1>6

\* So for the reassembly buffer.
LEMMA ReassemblyIdentityLink ==
  /\ SizesDivide => ReassemblyBuffer!Commensurate
  /\ \A b, n, ids : KeepsIn(b, n, ids, FragmentReassemblyBufferSize)
       <=> ReassemblyBuffer!Keeps(b, n, ids)
  /\ \A id : ReassemblyBuffer!NumberOf(id) = NumberOf(id)
  /\ \A b, s : ReassemblyBuffer!Exists(b, s) <=> Reassembly!Exists(b, s)
  /\ \A s : ReassemblyBuffer!Slot(s) = s % FragmentReassemblyBufferSize
  /\ ReassemblyBuffer!HalfModulus = HalfModulus
<1>1. SizesDivide => ReassemblyBuffer!Commensurate
  BY DEF SizesDivide, ReassemblyBuffer!Commensurate, HalfModulus, ReassemblyBuffer!HalfModulus
<1>2. \A b, n, ids : KeepsIn(b, n, ids, FragmentReassemblyBufferSize)
        <=> ReassemblyBuffer!Keeps(b, n, ids)
  BY DEF KeepsIn, ReassemblyBuffer!Keeps, NumberOf, ReassemblyBuffer!NumberOf,
     ReassemblyBuffer!Slot, ReassemblyBuffer!Index
<1>3. \A id : ReassemblyBuffer!NumberOf(id) = NumberOf(id)
  BY DEF NumberOf, ReassemblyBuffer!NumberOf
<1>4. \A b, s : ReassemblyBuffer!Exists(b, s) <=> Reassembly!Exists(b, s)
  BY DEF Reassembly!Exists, ReassemblyBuffer!Exists, Reassembly!Slot, ReassemblyBuffer!Slot
<1>5. \A s : ReassemblyBuffer!Slot(s) = s % FragmentReassemblyBufferSize
  BY DEF ReassemblyBuffer!Slot
<1>6. ReassemblyBuffer!HalfModulus = HalfModulus
  BY DEF HalfModulus, ReassemblyBuffer!HalfModulus
<1> QED BY <1>1, <1>2, <1>3, <1>4, <1>5, <1>6

\* So for the sent buffer.
LEMMA SentIdentityLink ==
  /\ SizesDivide => SentBuffer!Commensurate
  /\ \A b, n, ids : KeepsIn(b, n, ids, SentPacketsBufferSize) <=> SentBuffer!Keeps(b, n, ids)
  /\ \A id : SentBuffer!NumberOf(id) = NumberOf(id)
  /\ \A b, s : SentBuffer!Exists(b, s) <=> Sent!Exists(b, s)
  /\ \A s : SentBuffer!Slot(s) = s % SentPacketsBufferSize
  /\ SentBuffer!HalfModulus = HalfModulus
<1>1. SizesDivide => SentBuffer!Commensurate
  BY DEF SizesDivide, SentBuffer!Commensurate, HalfModulus, SentBuffer!HalfModulus
<1>2. \A b, n, ids : KeepsIn(b, n, ids, SentPacketsBufferSize) <=> SentBuffer!Keeps(b, n, ids)
  BY DEF KeepsIn, SentBuffer!Keeps, NumberOf, SentBuffer!NumberOf, SentBuffer!Slot,
     SentBuffer!Index
<1>3. \A id : SentBuffer!NumberOf(id) = NumberOf(id)
  BY DEF NumberOf, SentBuffer!NumberOf
<1>4. \A b, s : SentBuffer!Exists(b, s) <=> Sent!Exists(b, s)
  BY DEF Sent!Exists, SentBuffer!Exists, Sent!Slot, SentBuffer!Slot
<1>5. \A s : SentBuffer!Slot(s) = s % SentPacketsBufferSize
  BY DEF SentBuffer!Slot
<1>6. SentBuffer!HalfModulus = HalfModulus
  BY DEF HalfModulus, SentBuffer!HalfModulus
<1> QED BY <1>1, <1>2, <1>3, <1>4, <1>5, <1>6

\* Within reach a packet exists in the received buffer if it is remembered.
LEMMA ReceivedExists ==
  ASSUME SizesDivide, NEW c, NEW n \in Int, NEW ids,
         KeepsIn(c, n, ids, ReceivedPacketsBufferSize), NEW id, InReach(id, n)
  PROVE  Received!Exists(c, NumberOf(id)) <=> id \in ids
<1> USE ConfigAssumption, DataAssumption, SequenceModulusAssumption
<1>1. /\ ReceivedBuffer!Keeps(c, n, ids) /\ ReceivedBuffer!Commensurate
  BY ReceivedLink, ReceivedIdentityLink
<1>2. /\ HalfModulus \in Nat \ {0} /\ SequenceModulus = 2 * HalfModulus
      /\ ReceivedPacketsBufferSize \in Nat \ {0}
  BY DEF HalfModulus
<1>3. id \in n - SequenceModulus .. n + SequenceModulus - ReceivedPacketsBufferSize - 1
  BY <1>2 DEF InReach
<1>4. ReceivedBuffer!Exists(c, ReceivedBuffer!NumberOf(id)) <=> id \in ids
  BY <1>1, <1>3, ReceivedLink, ReceivedBuffer!ExistsKeeps
<1> QED BY <1>4, ReceivedIdentityLink

\* Within reach the received buffer answers about identities: it refuses what is
\* behind its window, knows what it remembers, and forgets only what it passes.
LEMMA ReceivedByIdentity ==
  ASSUME SizesDivide, NEW c \in Received!BufferOf({None}), NEW n \in Int, NEW ids,
         KeepsIn(c, n, ids, ReceivedPacketsBufferSize), NEW id, InReach(id, n),
         NEW m, m = Reached(n, id)
  PROVE  LET size == ReceivedPacketsBufferSize
             s == NumberOf(id)
         IN  /\ s \in SequenceNumber /\ id \in Int /\ m \in Int
             /\ Received!CanInsert(c, s) <=> (id >= n - size)
             /\ Received!Exists(c, s) <=> id \in ids
             /\ Received!Advance(c, s) \in Received!BufferOf({None})
             /\ KeepsIn(Received!Advance(c, s), m, Kept(ids, m, size), size)
             /\ id >= n - size =>
                  KeepsIn(Received!Insert(c, s, None), m, Kept(ids, m, size) \cup {id}, size)
<1> USE ConfigAssumption, DataAssumption, SequenceModulusAssumption
<1> DEFINE size == ReceivedPacketsBufferSize
           s == NumberOf(id)
           e == ReceivedBuffer!Advance(c, s)
           kept == ReceivedBuffer!Kept(ids, m)
<1>1. /\ c \in ReceivedBuffer!BufferOf({None}) /\ ReceivedBuffer!Keeps(c, n, ids)
      /\ ReceivedBuffer!Commensurate /\ None \in {None} /\ s = ReceivedBuffer!NumberOf(id)
  BY ReceivedLink, ReceivedIdentityLink
<1>2. /\ HalfModulus \in Nat \ {0} /\ SequenceModulus = 2 * HalfModulus
      /\ size \in Nat \ {0} /\ size <= HalfModulus
  <2>1. HalfModulus \in Nat \ {0} /\ SequenceModulus = 2 * HalfModulus
    BY DEF HalfModulus
  <2> QED BY <2>1 DEF SizesDivide
<1>3. /\ id \in n - HalfModulus .. n + HalfModulus - 2
      /\ id \in n - size - HalfModulus + 1 .. n + HalfModulus - size - 1
      /\ id \in n - SequenceModulus .. n + SequenceModulus - size - 1
      /\ id \in Int
  BY <1>2 DEF InReach
<1>4. m \in Int /\ m = ReceivedBuffer!Reached(n, id) /\ s \in SequenceNumber
  BY <1>3 DEF Reached, ReceivedBuffer!Reached, NumberOf, SequenceNumber
<1> HIDE DEF size, s, e, kept
<1>5. Received!CanInsert(c, s) <=> (id >= n - size)
  <2>1. /\ id \in n - size - ReceivedBuffer!HalfModulus + 1
                    .. n + ReceivedBuffer!HalfModulus - size - 1
        /\ c.sequence = ReceivedBuffer!NumberOf(n)
        /\ size <= ReceivedBuffer!HalfModulus
    BY <1>1, <1>2, <1>3, ReceivedIdentityLink DEF ReceivedBuffer!Keeps
  <2>2. ReceivedBuffer!CanInsert(c, ReceivedBuffer!NumberOf(id)) <=> (id >= n - size)
    BY <2>1, ReceivedLink, ReceivedBuffer!CanInsertNumber DEF size
  <2> QED BY <1>1, <2>2, ReceivedIdentityLink
<1>6. Received!Exists(c, s) <=> id \in ids
  BY ReceivedExists DEF s
<1>7. e \in ReceivedBuffer!BufferOf({None}) /\ ReceivedBuffer!Keeps(e, m, kept)
  <2>1. id \in n - ReceivedBuffer!HalfModulus .. n + ReceivedBuffer!HalfModulus - 2
    BY <1>3, ReceivedIdentityLink
  <2> QED BY <1>1, <1>4, <2>1, ReceivedLink, ReceivedIdentityLink, ReceivedBuffer!AdvanceKeeps
          DEF e, kept
<1>8. ASSUME id >= n - size
      PROVE  ReceivedBuffer!Keeps(ReceivedBuffer!Fill(e, s, None), m, kept \cup {id})
  <2>1. id \in m - size .. m - 1
    BY <1>2, <1>3, <1>4, <1>8 DEF ReceivedBuffer!Reached
  <2> QED BY <1>1, <1>4, <1>7, <2>1, ReceivedLink, ReceivedBuffer!FillKeeps DEF size
<1>9. e = Received!Advance(c, s) /\ ReceivedBuffer!Fill(e, s, None) = Received!Insert(c, s, None)
  BY ReceivedLink, ReceivedWindowLink DEF e
<1>10. kept = Kept(ids, m, size)
  BY DEF kept, Kept, ReceivedBuffer!Kept, size
<1> QED BY <1>3, <1>4, <1>5, <1>6, <1>7, <1>8, <1>9, <1>10, ReceivedLink, ReceivedIdentityLink
        DEF size, s

\* In short: what is refused as stale and what as a duplicate.
LEMMA JudgedByWindow ==
  ASSUME SizesDivide, NEW c \in Received!BufferOf({None}), NEW n \in Int, NEW ids,
         KeepsIn(c, n, ids, ReceivedPacketsBufferSize), NEW id, InReach(id, n)
  PROVE  /\ Received!CanInsert(c, NumberOf(id)) <=> (id >= n - ReceivedPacketsBufferSize)
         /\ Received!Exists(c, NumberOf(id)) <=> id \in ids
<1> DEFINE m == Reached(n, id)
<1>1. m = Reached(n, id)
  OBVIOUS
<1> HIDE DEF m
<1>2. Received!CanInsert(c, NumberOf(id)) <=> (id >= n - ReceivedPacketsBufferSize)
  BY <1>1, ReceivedByIdentity
<1> QED BY <1>2, ReceivedExists

\* Numbers within reach are well typed.
LEMMA ReachTypes ==
  ASSUME NEW n \in Int, NEW id, InReach(id, n)
  PROVE  /\ id \in Int /\ NumberOf(id) \in SequenceNumber /\ Reached(n, id) \in Int
         /\ HalfModulus \in Nat \ {0} /\ SequenceModulus = 2 * HalfModulus
<1>1. HalfModulus \in Nat \ {0} /\ SequenceModulus = 2 * HalfModulus
  BY SequenceModulusAssumption DEF HalfModulus
<1>2. id \in Int
  BY <1>1, ConfigAssumption DEF InReach
<1> QED BY <1>1, <1>2 DEF NumberOf, SequenceNumber, Reached

\* Advancing keeps the reassembly buffer's type.
LEMMA ReassemblyAdvanceType ==
  ASSUME NEW c \in Reassembly!BufferOf(ReassemblyData), NEW s \in SequenceNumber
  PROVE  Reassembly!Advance(c, s) \in Reassembly!BufferOf(ReassemblyData)
<1>1. ReassemblyBuffer!Advance(c, s) \in ReassemblyBuffer!BufferOf(ReassemblyData)
  BY ReassemblyBuffer!AdvanceType, EmptyReassemblyType, ConfigAssumption, DataAssumption,
     SequenceModulusAssumption, ReassemblyLink
<1> QED BY <1>1, ReassemblyLink

\* The entry buffer c has for packet q.
EntryOf(c, q) == c.entries[q % FragmentReassemblyBufferSize]

HasEntry(c, q, r) == EntryOf(c, q) = r

\* The entries of `ids` are the same in both buffers.
SameEntries(e, c, ids) == \A q \in ids : EntryOf(e, q) = EntryOf(c, q)

\* The reassembly buffer likewise, for the tests and the four operations that
\* receive_packet uses; the entries it keeps are those it had.
LEMMA ReassemblyByIdentity ==
  ASSUME SizesDivide, NEW c \in Reassembly!BufferOf(ReassemblyData), NEW n \in Int, NEW ids,
         KeepsIn(c, n, ids, FragmentReassemblyBufferSize), NEW id, InReach(id, n),
         NEW m, m = Reached(n, id), NEW r \in ReassemblyData
  PROVE  LET size == FragmentReassemblyBufferSize
             s == NumberOf(id)
             kept == Kept(ids, m, size)
             opened == Reassembly!InsertAdvanceFirst(c, s, r)
         IN  /\ Reassembly!Exists(c, s) <=> id \in ids
             /\ Reassembly!CanInsertAdvanceFirst(c, s) => id >= n - size
             /\ Reassembly!Advance(c, s) \in Reassembly!BufferOf(ReassemblyData)
             /\ KeepsIn(Reassembly!Advance(c, s), m, kept, size)
             /\ SameEntries(Reassembly!Advance(c, s), c, kept)
             /\ id >= n - size =>
                  /\ KeepsIn(opened, m, kept \cup {id}, size)
                  /\ SameEntries(opened, c, kept \ {id})
                  /\ HasEntry(opened, id, r)
<1> USE ConfigAssumption, DataAssumption, SequenceModulusAssumption
<1> DEFINE size == FragmentReassemblyBufferSize
           s == NumberOf(id)
           e == ReassemblyBuffer!Advance(c, s)
           f == ReassemblyBuffer!Fill(e, s, r)
           kept == ReassemblyBuffer!Kept(ids, m)
<1>1. /\ c \in ReassemblyBuffer!BufferOf(ReassemblyData) /\ ReassemblyBuffer!Keeps(c, n, ids)
      /\ ReassemblyBuffer!Commensurate /\ EmptyReassembly \in ReassemblyData
      /\ s = ReassemblyBuffer!NumberOf(id)
  BY ReassemblyLink, ReassemblyIdentityLink, EmptyReassemblyType
<1>2. /\ HalfModulus \in Nat \ {0} /\ SequenceModulus = 2 * HalfModulus
      /\ size \in Nat \ {0} /\ size <= HalfModulus /\ ReceivedPacketsBufferSize \in Nat \ {0}
  <2>1. HalfModulus \in Nat \ {0} /\ SequenceModulus = 2 * HalfModulus
    BY DEF HalfModulus
  <2> QED BY <2>1 DEF SizesDivide
<1>3. /\ id \in n - HalfModulus .. n + HalfModulus - 2
      /\ id \in n - SequenceModulus .. n + SequenceModulus - size - 1
      /\ id \in Int
      /\ id < n => id \in n - size - HalfModulus + 1 .. n + HalfModulus - size - 1
  BY <1>2 DEF InReach
<1>4. m \in Int /\ m = ReassemblyBuffer!Reached(n, id) /\ s \in SequenceNumber
  BY <1>3 DEF Reached, ReassemblyBuffer!Reached, NumberOf, SequenceNumber
<1> HIDE DEF size, s, e, f, kept
<1>5. Reassembly!Exists(c, s) <=> id \in ids
  <2>1. ReassemblyBuffer!Exists(c, ReassemblyBuffer!NumberOf(id)) <=> id \in ids
    BY <1>1, <1>3, ReassemblyLink, ReassemblyBuffer!ExistsKeeps DEF size
  <2> QED BY <1>1, <2>1, ReassemblyIdentityLink
<1>6. Reassembly!CanInsertAdvanceFirst(c, s) => (id >= n - size)
  <2>1. CASE id >= n
    BY <1>2, <1>3, <2>1
  <2>2. CASE id < n
    <3>1. /\ c.sequence = ReassemblyBuffer!NumberOf(n)
          /\ size <= ReassemblyBuffer!HalfModulus
      BY <1>1, <1>2, ReassemblyIdentityLink DEF ReassemblyBuffer!Keeps
    <3>2. id \in n - size - ReassemblyBuffer!HalfModulus + 1
                 .. n + ReassemblyBuffer!HalfModulus - size - 1
      BY <1>3, <2>2, ReassemblyIdentityLink
    <3>3. ReassemblyBuffer!CanInsert(c, ReassemblyBuffer!NumberOf(id)) <=> (id >= n - size)
      BY <3>1, <3>2, ReassemblyLink, ReassemblyBuffer!CanInsertNumber DEF size
    <3>4. id \in n - ReassemblyBuffer!HalfModulus .. n + ReassemblyBuffer!HalfModulus - 2
      BY <1>3, ReassemblyIdentityLink
    <3>5. ReassemblyBuffer!Advances(c, ReassemblyBuffer!NumberOf(id)) <=> (id >= n)
      BY <3>1, <3>4, ReassemblyLink, ReassemblyBuffer!AdvancesNumber
    <3> QED BY <1>1, <1>3, <2>2, <3>3, <3>5, ReassemblyWindowLink
  <2> QED BY <1>3, <2>1, <2>2
<1>7. /\ e \in ReassemblyBuffer!BufferOf(ReassemblyData)
      /\ ReassemblyBuffer!Keeps(e, m, kept)
      /\ \A q \in kept : e.entries[ReassemblyBuffer!Slot(q)] = c.entries[ReassemblyBuffer!Slot(q)]
  <2>1. id \in n - ReassemblyBuffer!HalfModulus .. n + ReassemblyBuffer!HalfModulus - 2
    BY <1>3, ReassemblyIdentityLink
  <2> QED BY <1>1, <1>4, <2>1, ReassemblyLink, ReassemblyIdentityLink,
             ReassemblyBuffer!AdvanceKeeps DEF e, kept
<1>8. ASSUME id >= n - size
      PROVE  /\ ReassemblyBuffer!Keeps(f, m, kept \cup {id})
             /\ f.entries[ReassemblyBuffer!Slot(id)] = r
             /\ \A q \in kept \ {id} :
                  f.entries[ReassemblyBuffer!Slot(q)] = e.entries[ReassemblyBuffer!Slot(q)]
  <2>1. id \in m - size .. m - 1
    BY <1>2, <1>3, <1>4, <1>8 DEF ReassemblyBuffer!Reached
  <2>2. f = ReassemblyBuffer!Fill(e, ReassemblyBuffer!NumberOf(id), r)
    BY <1>1 DEF f
  <2> HIDE DEF f
  <2>3. r \in ReassemblyData
    OBVIOUS
  <2>4. ReassemblyBuffer!Keeps(f, m, kept \cup {id})
    BY <1>1, <1>4, <1>7, <2>1, <2>2, <2>3, ReassemblyLink, ReassemblyBuffer!FillKeeps DEF size
  <2>5. f.entries[ReassemblyBuffer!Slot(id)] = r
    BY <1>1, <1>4, <1>7, <2>1, <2>2, <2>3, <2>4, ReassemblyLink, ReassemblyBuffer!FillKeeps DEF size
  <2>6. \A q \in kept \ {id} :
                  f.entries[ReassemblyBuffer!Slot(q)] = e.entries[ReassemblyBuffer!Slot(q)]
    BY <1>1, <1>4, <1>7, <2>1, <2>2, <2>3, <2>4, ReassemblyLink, ReassemblyBuffer!FillKeeps DEF size
  <2> QED BY <2>4, <2>5, <2>6
<1>9. e = Reassembly!Advance(c, s) /\ f = Reassembly!InsertAdvanceFirst(c, s, r)
  BY ReassemblyLink, ReassemblyWindowLink DEF e, f
<1>10. kept = Kept(ids, m, size)
  BY DEF kept, Kept, ReassemblyBuffer!Kept, size
<1>11. SameEntries(e, c, kept)
  BY <1>7, ReassemblyIdentityLink DEF SameEntries, EntryOf
<1>12. ASSUME id >= n - size
       PROVE  SameEntries(f, c, kept \ {id}) /\ HasEntry(f, id, r)
  BY <1>7, <1>8, <1>12, ReassemblyIdentityLink DEF SameEntries, EntryOf, HasEntry
<1>13. KeepsIn(e, m, kept, size) /\ e \in Reassembly!BufferOf(ReassemblyData)
  BY <1>7, ReassemblyLink, ReassemblyIdentityLink DEF size
<1>14. id >= n - size => KeepsIn(f, m, kept \cup {id}, size)
  BY <1>8, ReassemblyIdentityLink DEF size
<1> QED BY <1>5, <1>6, <1>9, <1>10, <1>11, <1>12, <1>13, <1>14 DEF size, s

\* Writing to the entry of a packet, and removing it.
LEMMA EntryByIdentity ==
  ASSUME SizesDivide, NEW c \in Reassembly!BufferOf(ReassemblyData), NEW n \in Int, NEW ids,
         KeepsIn(c, n, ids, FragmentReassemblyBufferSize), NEW id \in ids,
         NEW r \in ReassemblyData
  PROVE  LET size == FragmentReassemblyBufferSize
             s == NumberOf(id)
             updated == Reassembly!Update(c, s, r)
             removed == Reassembly!Remove(c, s)
         IN  /\ id \in Int
             /\ Reassembly!Find(c, s) = EntryOf(c, id)
             /\ KeepsIn(updated, n, ids, size)
             /\ SameEntries(updated, c, ids \ {id})
             /\ HasEntry(updated, id, r)
             /\ KeepsIn(removed, n, ids \ {id}, size)
             /\ SameEntries(removed, c, ids \ {id})
<1> USE ConfigAssumption, DataAssumption, SequenceModulusAssumption
<1> DEFINE size == FragmentReassemblyBufferSize
           s == NumberOf(id)
           updated == ReassemblyBuffer!Update(c, s, r)
           removed == ReassemblyBuffer!Remove(c, s)
<1>1. /\ c \in ReassemblyBuffer!BufferOf(ReassemblyData) /\ ReassemblyBuffer!Keeps(c, n, ids)
      /\ ReassemblyBuffer!Commensurate /\ EmptyReassembly \in ReassemblyData
      /\ s = ReassemblyBuffer!NumberOf(id)
  BY ReassemblyLink, ReassemblyIdentityLink, EmptyReassemblyType
<1>2. ids \subseteq n - size .. n - 1 /\ id \in Int /\ size \in Nat \ {0} /\ s \in SequenceNumber
  BY DEF KeepsIn, NumberOf, SequenceNumber
<1>3. ReassemblyBuffer!Slot(s) = ReassemblyBuffer!Slot(id)
  BY <1>1, <1>2, ReassemblyLink, ReassemblyBuffer!SlotOfNumber
<1> HIDE DEF s, updated, removed
<1>4. Reassembly!Find(c, s) = EntryOf(c, id)
  BY <1>3, ReassemblyIdentityLink DEF Reassembly!Find, Reassembly!Slot, EntryOf
<1>5. ReassemblyBuffer!Keeps(removed, n, ids \ {id})
      /\ \A q \in ids \ {id} :
           removed.entries[ReassemblyBuffer!Slot(q)] = c.entries[ReassemblyBuffer!Slot(q)]
  BY <1>1, <1>2, ReassemblyLink, ReassemblyBuffer!RemoveKeeps DEF removed
<1>6. /\ updated.sequence = c.sequence /\ updated.entry_sequence = c.entry_sequence
      /\ updated.entries = [c.entries EXCEPT ![ReassemblyBuffer!Slot(s)] = r]
      /\ DOMAIN c.entries = ReassemblyBuffer!Index
  BY <1>1 DEF updated, ReassemblyBuffer!Update, ReassemblyBuffer!BufferOf
<1>7. ReassemblyBuffer!Slot(id) \in ReassemblyBuffer!Index
  BY <1>2, ReassemblyLink, ReassemblyBuffer!NumberType
<1>8. \A q \in ids : ReassemblyBuffer!Slot(q) = ReassemblyBuffer!Slot(id) => q = id
  BY <1>2, ReassemblyLink, ReassemblyBuffer!SlotsDiffer
<1>9. KeepsIn(updated, n, ids, size)
  BY <1>6 DEF KeepsIn
<1>10. HasEntry(updated, id, r) /\ SameEntries(updated, c, ids \ {id})
  BY <1>3, <1>6, <1>7, <1>8, ReassemblyIdentityLink DEF EntryOf, SameEntries, HasEntry
<1>11. KeepsIn(removed, n, ids \ {id}, size) /\ SameEntries(removed, c, ids \ {id})
  BY <1>5, ReassemblyIdentityLink DEF EntryOf, SameEntries
<1>12. updated = Reassembly!Update(c, s, r) /\ removed = Reassembly!Remove(c, s)
  BY ReassemblyLink DEF updated, removed
<1> QED BY <1>2, <1>4, <1>9, <1>10, <1>11, <1>12 DEF s

-----------------------------------------------------------------------------
(* Reassembly, by content *)

\* Which piece a position of a payload is in.
LEMMA PieceOf ==
  ASSUME NEW k \in Nat \ {0}, NEW f \in Nat
  PROVE  ((k - 1) \div FragmentSize = f)
           <=> (f * FragmentSize + 1 <= k /\ k <= f * FragmentSize + FragmentSize)
<1> DEFINE size == FragmentSize
           q == (k - 1) \div size
<1>1. size \in Nat \ {0} /\ k - 1 \in Nat
  BY ConfigAssumption
<1>2. q \in Nat /\ q * size <= k - 1 /\ k - 1 < q * size + size
  BY <1>1, Quotient
<1> HIDE DEF q, size
<1>3. q * size \in Nat /\ f * size \in Nat
  BY <1>1, <1>2
<1>4. CASE q = f
  BY <1>1, <1>2, <1>3, <1>4 DEF q, size
<1>5. CASE q < f
  <2>1. q * size + size <= f * size
    BY <1>1, <1>2, <1>5, Pieces
  <2> QED BY <1>1, <1>2, <1>3, <1>5, <2>1 DEF q, size
<1>6. CASE f < q
  <2>1. f * size + size <= q * size
    BY <1>1, <1>2, <1>6, Pieces
  <2> QED BY <1>1, <1>2, <1>3, <1>6, <2>1 DEF q, size
<1> QED BY <1>2, <1>4, <1>5, <1>6

\* The pieces cover the payload: the last ends where it ends.
LEMMA PiecesCover ==
  ASSUME NEW content \in Seq(Byte), content # <<>>
  PROVE  LET total == NumFragments(content)
         IN  /\ total \in Nat \ {0}
             /\ (total - 1) * FragmentSize < Len(content)
             /\ Len(content) <= total * FragmentSize
             /\ total * FragmentSize = (total - 1) * FragmentSize + FragmentSize
<1> DEFINE size == FragmentSize
           length == Len(content)
           total == NumFragments(content)
<1>1. size \in Nat \ {0} /\ length \in Nat \ {0} /\ length + size - 1 \in Nat
  BY ConfigAssumption
<1>2. total \in Nat /\ total * size <= length + size - 1 /\ length + size - 1 < total * size + size
  BY <1>1, Quotient DEF NumFragments
<1> HIDE DEF size, length, total
<1>3. total # 0
  BY <1>1, <1>2
<1>4. total - 1 \in Nat /\ total = (total - 1) + 1
  BY <1>2, <1>3
<1>5. total * size = (total - 1) * size + size /\ (total - 1) * size \in Nat
  BY <1>1, <1>2, <1>4
<1> QED BY <1>1, <1>2, <1>3, <1>5 DEF size, length, total

\* A piece holds the payload's bytes from its place on, up to the next piece or
\* the end.
LEMMA PieceContent ==
  ASSUME NEW content \in Seq(Byte), content # <<>>,
         NEW f \in 0 .. NumFragments(content) - 1
  PROVE  LET offset == f * FragmentSize
             piece == Piece(content, f)
         IN  /\ offset \in Nat /\ Len(piece) \in Nat
             /\ offset + Len(piece) = Least(offset + FragmentSize, Len(content))
             /\ \A k \in 1 .. Len(piece) : piece[k] = content[offset + k]
<1> DEFINE size == FragmentSize
           total == NumFragments(content)
           length == Len(content)
           start == f * size
           end == Least((f + 1) * size, length)
           piece == Piece(content, f)
<1>1. /\ size \in Nat \ {0} /\ length \in Nat /\ total \in Nat \ {0}
      /\ (total - 1) * size < length
  BY ConfigAssumption, PiecesCover
<1>2. f \in Nat /\ f < total
  BY <1>1
<1>3. start \in Nat /\ (f + 1) * size = start + size
  BY <1>1, <1>2, Pieces
<1>4. start < length
  <2>1. CASE f = total - 1
    BY <1>1, <2>1
  <2>2. CASE f < total - 1
    <3>1. f * size + size <= (total - 1) * size /\ (total - 1) * size \in Nat
      BY <1>1, <1>2, <2>2, Pieces
    <3> QED BY <1>1, <1>3, <3>1
  <2> QED BY <1>1, <1>2, <2>1, <2>2
<1>5. end \in Nat /\ start <= end /\ end <= length /\ end = Least(start + size, length)
  BY <1>1, <1>3, <1>4 DEF Least
<1>6. piece = SubSeq(content, start + 1, end)
  BY DEF Piece
<1> HIDE DEF start, end, size, length, total, piece
<1>7. Len(piece) = end - start /\ \A k \in 1 .. end - start : piece[k] = content[start + k]
  <2>1. content \in Seq(Byte) /\ start + 1 \in Nat /\ end \in Nat
    BY <1>3, <1>5
  <2>2. Len(piece) = end - start
    BY <1>3, <1>5, <1>6, <2>1
  <2>3. ASSUME NEW k \in 1 .. end - start
        PROVE  piece[k] = content[start + k]
    <3>1. k \in 1 .. end - (start + 1) + 1 /\ (start + 1) + k - 1 = start + k
      BY <1>3, <1>5
    <3> QED BY <1>3, <1>5, <1>6, <2>1, <3>1
  <2> QED BY <2>2, <2>3
<1> QED BY <1>3, <1>5, <1>7 DEF start, size, length, piece

\* A fresh entry of the right size assembles the payload.
LEMMA NewAssembles ==
  ASSUME NEW d, NEW content, d.num_fragments = NumFragments(content)
  PROVE  Assembles(NewReassembly(d), content)
BY DEF Assembles, NewReassembly, EmptyReassembly

\* store_fragment puts a piece of the payload in its place.
LEMMA StoreAssembles ==
  ASSUME NEW d \in Datagrams, Readable(d), NEW r \in ReassemblyData,
         EntryConsistent(d.sequence, r), d.fragment_id \notin r.fragment_received,
         NEW content \in Seq(Byte), content # <<>>, Assembles(r, content),
         d.num_fragments = NumFragments(content), d.content = Piece(content, d.fragment_id)
  PROVE  /\ Assembles(StoreFragment(r, d), content)
         /\ StoreFragment(r, d).header = IF d.fragment_id = 0 THEN d.header ELSE r.header
         /\ StoreFragment(r, d).fragment_received = r.fragment_received \cup {d.fragment_id}
<1> DEFINE q == StoreFragment(r, d)
           f == d.fragment_id
           size == FragmentSize
           total == NumFragments(content)
           offset == f * size
           length == Len(content)
           piece == Piece(content, f)
           filled == [k \in DOMAIN r.packet_data |->
                        IF k - offset \in DOMAIN d.content
                        THEN d.content[k - offset] ELSE r.packet_data[k]]
<1>1. /\ f \in 0 .. total - 1 /\ size \in Nat \ {0} /\ total \in Nat \ {0}
      /\ d.type = "fragment" /\ length \in Nat \ {0}
  <2>1. size \in Nat \ {0} /\ length \in Nat \ {0} /\ total \in Nat \ {0}
    BY ConfigAssumption, PiecesCover
  <2>2. d.type = "fragment" /\ d.fragment_id \in Nat
    BY FragmentType DEF Readable
  <2>3. f < total
    BY DEF Readable, ValidFragment
  <2> QED BY <2>1, <2>2, <2>3
<1>2. /\ offset \in Nat /\ Len(piece) \in Nat
      /\ offset + Len(piece) = Least(offset + size, length)
      /\ \A k \in 1 .. Len(piece) : piece[k] = content[offset + k]
  BY <1>1, PieceContent
<1>3. /\ (total - 1) * size < length /\ length <= total * size
      /\ total * size = (total - 1) * size + size /\ (total - 1) * size \in Nat
  <2>1. (total - 1) * size \in Nat
    BY <1>1
  <2> QED BY <1>1, <2>1, PiecesCover
<1>4. /\ r.num_fragments_total = total
      /\ Len(r.packet_data) = total * size
      /\ r.packet_data \in Seq(Byte)
      /\ DOMAIN r.packet_data = 1 .. total * size
  BY DEF Assembles, EntryConsistent, ReassemblyData
<1>5. ~(offset + Len(d.content) > Len(r.packet_data))
  BY <1>1, <1>2, <1>3, <1>4 DEF Least
<1>6. /\ q.num_fragments_total = r.num_fragments_total
      /\ q.fragment_received = r.fragment_received \cup {f}
      /\ q.header = IF f = 0 THEN d.header ELSE r.header
      /\ q.packet_bytes = IF f = total - 1 THEN (total - 1) * size + Len(d.content)
                                           ELSE r.packet_bytes
      /\ q.packet_data = filled
  <2>1. q.packet_data = IF offset + Len(d.content) > Len(r.packet_data)
                        THEN r.packet_data ELSE filled
    BY DEF StoreFragment, ReassemblyData
  <2> HIDE DEF filled
  <2>2. q.packet_data = filled
    BY <1>5, <2>1
  <2>3. q.packet_bytes = IF f = r.num_fragments_total - 1
                         THEN (r.num_fragments_total - 1) * FragmentSize + Len(d.content)
                         ELSE r.packet_bytes
    BY DEF StoreFragment, ReassemblyData
  <2> QED BY <1>4, <2>2, <2>3 DEF StoreFragment, ReassemblyData
<1> HIDE DEF q
<1>7. ASSUME NEW k \in 1 .. length, ((k - 1) \div size) \in r.fragment_received \cup {f}
      PROVE  filled[k] = content[k]
  <2>1. k \in DOMAIN r.packet_data /\ k \in Nat \ {0}
    <3> HIDE DEF length
    <3>1. total * size \in Nat
      BY <1>1
    <3> QED BY <1>1, <1>3, <1>4, <3>1
  <2>2. filled[k] = IF k - offset \in 1 .. Len(piece)
                    THEN piece[k - offset] ELSE r.packet_data[k]
    BY <2>1, <1>2
  <2>3. ((k - 1) \div size = f) <=> (offset + 1 <= k /\ k <= offset + size)
    <3>1. f \in Nat /\ k \in Nat \ {0}
      BY <1>1, <2>1
    <3> HIDE DEF f
    <3> QED BY <3>1, PieceOf
  <2>4. (k - offset \in 1 .. Len(piece)) <=> ((k - 1) \div size = f)
    <3> DEFINE n == Len(piece)
    <3>1. n \in Nat /\ offset + n = IF offset + size < length THEN offset + size ELSE length
      BY <1>2 DEF Least
    <3>2. k \in Nat /\ k <= length /\ offset \in Nat /\ length \in Nat /\ size \in Nat
      BY <1>1, <1>2
    <3> HIDE DEF length, offset, n
    <3>3. (k - offset \in 1 .. n) <=> (offset + 1 <= k /\ k <= offset + size)
      BY <3>1, <3>2
    <3> QED BY <2>3, <3>3 DEF n
  <2>5. CASE (k - 1) \div size = f
    <3>1. piece[k - offset] = content[offset + (k - offset)]
      BY <1>2, <2>4, <2>5
    <3>2. offset + (k - offset) = k
      BY <1>2, <2>1
    <3> QED BY <2>2, <2>4, <2>5, <3>1, <3>2
  <2>6. CASE (k - 1) \div size # f
    <3>1. ((k - 1) \div size) \in r.fragment_received
      BY <1>7, <2>6
    <3>2. r.packet_data[k] = content[k]
      BY <3>1 DEF Assembles
    <3> QED BY <2>2, <2>4, <2>6, <3>2
  <2> QED BY <2>5, <2>6
<1>8. ASSUME total - 1 \in r.fragment_received \cup {f}
      PROVE  q.packet_bytes = length
  <2>1. CASE f = total - 1
    <3>1. offset + Len(piece) = length
      BY <1>1, <1>2, <1>3, <2>1 DEF Least
    <3> QED BY <1>6, <2>1, <3>1
  <2>2. CASE f # total - 1
    BY <1>6, <1>8, <2>2 DEF Assembles
  <2> QED BY <2>1, <2>2
<1>9. Assembles(q, content)
  BY <1>4, <1>6, <1>7, <1>8 DEF Assembles
<1> QED BY <1>6, <1>9 DEF q

\* With all its pieces an entry is rebuilt to the payload.
LEMMA CompleteIsContent ==
  ASSUME NEW s, NEW r \in ReassemblyData, EntryConsistent(s, r),
         NEW content \in Seq(Byte), content # <<>>, Assembles(r, content),
         r.num_fragments_received = r.num_fragments_total
  PROVE  /\ SubSeq(r.packet_data, 1, r.packet_bytes) = content
         /\ 0 \in r.fragment_received
<1> DEFINE size == FragmentSize
           length == Len(content)
           total == NumFragments(content)
<1>1. /\ size \in Nat \ {0} /\ total \in Nat \ {0} /\ length \in Nat \ {0}
      /\ length <= total * size /\ total * size \in Nat
  <2>1. size \in Nat \ {0} /\ total \in Nat \ {0} /\ length \in Nat \ {0}
    BY ConfigAssumption, PiecesCover
  <2> QED BY <2>1, PiecesCover
<1>2. /\ r.num_fragments_total = total /\ r.num_fragments_received = total
      /\ r.fragment_received \subseteq 0 .. total - 1
      /\ Cardinality(r.fragment_received) = total
      /\ Len(r.packet_data) = total * size /\ r.packet_data \in Seq(Byte)
  BY DEF Assembles, EntryConsistent, ReassemblyData
<1> HIDE DEF total, length, size
<1>3. IsFiniteSet(0 .. total - 1) /\ Cardinality(0 .. total - 1) = total
  <2>1. 0 \in Int /\ total - 1 \in Int /\ ~(0 > total - 1) /\ total = (total - 1) - 0 + 1
    BY <1>1
  <2> QED BY <2>1, FS_Interval
<1>4. r.fragment_received = 0 .. total - 1
  BY <1>2, <1>3, FS_Subset
<1>5. ASSUME NEW k \in 1 .. length
      PROVE  r.packet_data[k] = content[k]
  <2>1. k - 1 \in Nat /\ k \in 1 .. Len(content)
    BY <1>1 DEF length
  <2> DEFINE f == (k - 1) \div size
  <2>2. f \in Nat /\ f * size <= k - 1
    BY <1>1, <2>1, Quotient
  <2> HIDE DEF f
  <2>3. f < total
    <3>1. CASE f >= total
      <4>1. total * size <= f * size /\ f * size \in Nat
        <5>1. CASE f = total
          BY <1>1, <5>1
        <5>2. CASE total < f
          <6>1. total * size + size <= f * size /\ f * size \in Nat
            BY <1>1, <2>2, <5>2, Pieces
          <6> QED BY <1>1, <6>1
        <5> QED BY <1>1, <2>2, <3>1, <5>1, <5>2
      <4> QED BY <1>1, <2>1, <2>2, <4>1
    <3> QED BY <1>1, <2>2, <3>1
  <2>4. f \in r.fragment_received
    BY <1>1, <1>4, <2>2, <2>3
  <2> QED BY <2>1, <2>4 DEF Assembles, f, size
<1>6. r.packet_bytes = length
  <2>1. total - 1 \in r.fragment_received
    BY <1>1, <1>4
  <2> QED BY <2>1 DEF Assembles, total, length
<1>7. SubSeq(r.packet_data, 1, length) = content
  <2>1. /\ Len(SubSeq(r.packet_data, 1, length)) = length
        /\ \A k \in 1 .. length : SubSeq(r.packet_data, 1, length)[k] = r.packet_data[k]
    BY <1>1, <1>2
  <2>2. SubSeq(r.packet_data, 1, length) \in Seq(Byte)
    BY <1>1, <1>2
  <2> QED BY <1>5, <2>1, <2>2 DEF length
<1>8. 0 \in r.fragment_received
  BY <1>1, <1>4
<1> QED BY <1>6, <1>7, <1>8

-----------------------------------------------------------------------------
(* The regular branch, by identity *)

\* HandleRegularOutcome by what the closure answered.
LEMMA HandleRegularVerdict ==
  ASSUME NEW h, NEW content, NEW process, NEW received, NEW reassembly, NEW rebuilt,
         HandleRegular(h, content, process, received, reassembly, rebuilt)
  PROVE  /\ sequence' = sequence
         /\ process # "accepted" =>
              /\ received_packets' = received
              /\ fragment_reassembly' = Left(reassembly, h.sequence, rebuilt)
              /\ UNCHANGED <<sent_packets, acks>>
         /\ process = "accepted" =>
              /\ Received!CanInsert(received, h.sequence)
              /\ ~Received!Exists(received, h.sequence)
              /\ received_packets' = Received!Insert(received, h.sequence, None)
              /\ fragment_reassembly' =
                   Left(Reassembly!Advance(reassembly, h.sequence), h.sequence, rebuilt)
              /\ \E names : ProcessAcks(h, names)
BY DEF HandleRegular, Left

\* What happened to the received window when packet id was heard: it stands at
\* m, and id joined the packets it remembers if it was accepted.
HeardOf(b, id, n, ids, m, process) ==
  IF process = "accepted"
  THEN /\ id \notin ids /\ id >= n - ReceivedPacketsBufferSize
       /\ m = Reached(n, id)
       /\ KeepsIn(b, m, Kept(ids, m, ReceivedPacketsBufferSize) \cup {id},
                  ReceivedPacketsBufferSize)
  ELSE KeepsIn(b, m, Kept(ids, m, ReceivedPacketsBufferSize),
               ReceivedPacketsBufferSize)

\* A window keeps all it has when it does not move.
LEMMA KeptAll ==
  ASSUME NEW b, NEW n \in Int, NEW ids, NEW size \in Nat, KeepsIn(b, n, ids, size)
  PROVE  Kept(ids, n, size) = ids
<1>1. \A p \in ids : p \in n - size .. n - 1
  BY DEF KeepsIn
<1>2. \A p \in ids : p >= n - size
  BY <1>1
<1> QED BY <1>2 DEF Kept

\* A rebuilt packet is no longer under reassembly.
Rest(ids, id, rebuilt) == IF rebuilt THEN ids \ {id} ELSE ids

\* Taking the entry of a rebuilt packet out.
LEMMA LeftByIdentity ==
  ASSUME SizesDivide, NEW c \in Reassembly!BufferOf(ReassemblyData), NEW n \in Int, NEW ids,
         KeepsIn(c, n, ids, FragmentReassemblyBufferSize), NEW id, NEW rebuilt,
         rebuilt => id \in ids
  PROVE  LET e == Left(c, NumberOf(id), rebuilt)
             rest == Rest(ids, id, rebuilt)
         IN  KeepsIn(e, n, rest, FragmentReassemblyBufferSize) /\ SameEntries(e, c, rest)
<1> USE ConfigAssumption, DataAssumption
<1>1. CASE ~rebuilt
  BY <1>1 DEF Left, SameEntries, Rest
<1>2. CASE rebuilt
  BY <1>2, EntryByIdentity, EmptyReassemblyType DEF Left, Rest
<1> QED BY <1>1, <1>2

\* The regular branch on a packet within reach: its two windows move together,
\* a rebuilt packet leaves its entry, and all else that is kept is untouched.
LEMMA HandleRegularByIdentity ==
  ASSUME SizesDivide,
         NEW received \in Received!BufferOf({None}),
         NEW reassembly \in Reassembly!BufferOf(ReassemblyData),
         NEW n \in Int, NEW ids, NEW under, NEW id, InReach(id, n),
         KeepsIn(received, n, ids, ReceivedPacketsBufferSize),
         KeepsIn(reassembly, n, under, FragmentReassemblyBufferSize),
         NEW h, h.sequence = NumberOf(id), NEW content, NEW process,
         NEW rebuilt, rebuilt => id \in under,
         HandleRegular(h, content, process, received, reassembly, rebuilt)
  PROVE  \E m \in Moves(n, id) :
           LET rest == Rest(Kept(under, m, FragmentReassemblyBufferSize), id, rebuilt)
           IN  /\ HeardOf(received_packets', id, n, ids, m, process)
               /\ KeepsIn(fragment_reassembly', m, rest, FragmentReassemblyBufferSize)
               /\ SameEntries(fragment_reassembly', reassembly, rest)
<1> USE ConfigAssumption, DataAssumption
<1> DEFINE R == ReceivedPacketsBufferSize
           F == FragmentReassemblyBufferSize
           s == NumberOf(id)
<1>1. CASE process # "accepted"
  <2>1. received_packets' = received /\ fragment_reassembly' = Left(reassembly, s, rebuilt)
    BY <1>1, HandleRegularVerdict
  <2>2. Kept(ids, n, R) = ids /\ Kept(under, n, F) = under
    BY KeptAll
  <2>3. LET rest == Rest(under, id, rebuilt)
        IN  /\ KeepsIn(fragment_reassembly', n, rest, F)
            /\ SameEntries(fragment_reassembly', reassembly, rest)
    BY <2>1, LeftByIdentity
  <2>4. HeardOf(received_packets', id, n, ids, n, process)
    BY <1>1, <2>1, <2>2 DEF HeardOf
  <2> QED BY <2>2, <2>3, <2>4 DEF Moves
<1>2. CASE process = "accepted"
  <2> DEFINE m == Reached(n, id)
             moved == Reassembly!Advance(reassembly, s)
             kept == Kept(under, m, F)
  <2>1. /\ Received!CanInsert(received, s) /\ ~Received!Exists(received, s)
        /\ received_packets' = Received!Insert(received, s, None)
        /\ fragment_reassembly' = Left(moved, s, rebuilt)
    BY <1>2, HandleRegularVerdict
  <2>2. /\ s \in SequenceNumber /\ id \in Int /\ m \in Int
        /\ Received!CanInsert(received, s) <=> (id >= n - R)
        /\ Received!Exists(received, s) <=> id \in ids
        /\ id >= n - R =>
             KeepsIn(Received!Insert(received, s, None), m, Kept(ids, m, R) \cup {id}, R)
    <3>1. m = Reached(n, id)
      OBVIOUS
    <3> HIDE DEF m
    <3>4. s \in SequenceNumber /\ id \in Int /\ m \in Int
      BY <3>1, ReachTypes
    <3>2. Received!CanInsert(received, NumberOf(id)) <=> (id >= n - R)
      BY <3>1, ReceivedByIdentity
    <3>5. Received!Exists(received, NumberOf(id)) <=> (id \in ids)
      BY ReceivedExists
    <3>3. id >= n - R =>
             KeepsIn(Received!Insert(received, s, None), m, Kept(ids, m, R) \cup {id}, R)
      BY <3>1, ReceivedByIdentity
    <3> QED BY <3>2, <3>3, <3>4, <3>5
  <2> HIDE DEF s, m
  <2>3. HeardOf(received_packets', id, n, ids, m, process)
    BY <1>2, <2>1, <2>2 DEF HeardOf, m
  <2>4. /\ moved \in Reassembly!BufferOf(ReassemblyData)
        /\ KeepsIn(moved, m, kept, F) /\ SameEntries(moved, reassembly, kept)
    <3>1. m = Reached(n, id) /\ EmptyReassembly \in ReassemblyData /\ m \in Int
      BY <2>2, EmptyReassemblyType DEF m
    <3>2. Reassembly!Advance(reassembly, NumberOf(id)) \in Reassembly!BufferOf(ReassemblyData)
      BY <2>2, ReassemblyAdvanceType DEF s
    <3>3. KeepsIn(Reassembly!Advance(reassembly, NumberOf(id)), m, Kept(under, m, F), F)
      BY <3>1, ReassemblyByIdentity
    <3>4. SameEntries(Reassembly!Advance(reassembly, NumberOf(id)), reassembly, Kept(under, m, F))
      BY <3>1, ReassemblyByIdentity
    <3> QED BY <3>2, <3>3, <3>4 DEF s
  <2>5. rebuilt => id \in kept
    <3>1. rebuilt => (id \in under /\ id \in n - F .. n - 1)
      BY DEF KeepsIn
    <3>2. rebuilt => m = n
      BY <3>1 DEF m, Reached
    <3> QED BY <3>1, <3>2 DEF Kept
  <2> DEFINE rest == Rest(kept, id, rebuilt)
  <2>6. KeepsIn(fragment_reassembly', m, rest, F) /\ SameEntries(fragment_reassembly', moved, rest)
    <3> HIDE DEF moved, kept
    <3> QED BY <2>1, <2>2, <2>4, <2>5, LeftByIdentity DEF s
  <2>7. SameEntries(fragment_reassembly', reassembly, rest)
    BY <2>4, <2>6 DEF SameEntries, Rest
  <2> QED BY <2>3, <2>6, <2>7 DEF m, Moves
<1> QED BY <1>1, <1>2

-----------------------------------------------------------------------------
(* receive_packet, by identity *)

\* Within reach a packet has a reassembly entry if the buffer keeps one.
LEMMA ReassemblyExists ==
  ASSUME SizesDivide, NEW c, NEW n \in Int, NEW ids,
         KeepsIn(c, n, ids, FragmentReassemblyBufferSize), NEW id, InReach(id, n)
  PROVE  Reassembly!Exists(c, NumberOf(id)) <=> id \in ids
<1> USE ConfigAssumption, DataAssumption, SequenceModulusAssumption
<1>1. /\ ReassemblyBuffer!Keeps(c, n, ids) /\ ReassemblyBuffer!Commensurate
  BY ReassemblyLink, ReassemblyIdentityLink
<1>2. /\ HalfModulus \in Nat \ {0} /\ SequenceModulus = 2 * HalfModulus
      /\ FragmentReassemblyBufferSize \in Nat \ {0} /\ FragmentReassemblyBufferSize <= HalfModulus
      /\ ReceivedPacketsBufferSize \in Nat \ {0}
  BY DEF HalfModulus, SizesDivide
<1>3. id \in n - SequenceModulus .. n + SequenceModulus - FragmentReassemblyBufferSize - 1
  BY <1>2 DEF InReach
<1>4. ReassemblyBuffer!Exists(c, ReassemblyBuffer!NumberOf(id)) <=> id \in ids
  BY <1>1, <1>3, ReassemblyLink, ReassemblyBuffer!ExistsKeeps
<1> QED BY <1>4, ReassemblyIdentityLink

\* A window that reached id does not move when it hears of id again.
LEMMA ReachedTwice ==
  ASSUME NEW n \in Int, NEW id, InReach(id, n), NEW m \in Moves(n, id),
         ReceivedPacketsBufferSize <= HalfModulus
  PROVE  /\ m \in Int /\ m >= n /\ InReach(id, m) /\ Reached(m, id) = Reached(n, id)
         /\ Reached(m, id) >= m
<1>1. /\ HalfModulus \in Nat \ {0} /\ id \in Int /\ ReceivedPacketsBufferSize \in Nat \ {0}
      /\ id \in n - HalfModulus .. n + HalfModulus - ReceivedPacketsBufferSize - 1
  BY ReachTypes, ConfigAssumption DEF InReach
<1>2. CASE id >= n
  BY <1>1, <1>2 DEF Reached, InReach, Moves
<1>3. CASE id < n
  BY <1>1, <1>3 DEF Reached, InReach, Moves
<1> QED BY <1>1, <1>2, <1>3

\* The two windows with a place for the packet of a fragment.
LEMMA OpenedByIdentity ==
  ASSUME SizesDivide, IInv, NEW n \in Int, NEW ids, NEW under, NEW id, InReach(id, n),
         KeepsIn(received_packets, n, ids, ReceivedPacketsBufferSize),
         KeepsIn(fragment_reassembly, n, under, FragmentReassemblyBufferSize),
         NEW d \in Datagrams, d.type = "fragment", d.sequence = NumberOf(id), Storable(d),
         NEW r \in ReassemblyData
  PROVE  \E m \in Moves(n, id) :
           LET c == ReassemblyWith(d, r)
               kept == Kept(under, m, FragmentReassemblyBufferSize)
           IN  /\ KeepsIn(ReceivedOnOpen(d), m, Kept(ids, m, ReceivedPacketsBufferSize),
                          ReceivedPacketsBufferSize)
               /\ KeepsIn(c, m, kept \cup {id}, FragmentReassemblyBufferSize)
               /\ EntryOf(c, id) = r
               /\ SameEntries(c, fragment_reassembly, kept \ {id})
<1> USE ConfigAssumption, DataAssumption
<1> DEFINE R == ReceivedPacketsBufferSize
           F == FragmentReassemblyBufferSize
           s == NumberOf(id)
<1>1. /\ received_packets \in Received!BufferOf({None})
      /\ fragment_reassembly \in Reassembly!BufferOf(ReassemblyData)
  BY DEF IInv, TypeOK
<1>2. Reassembly!Exists(fragment_reassembly, s) <=> id \in under
  BY ReassemblyExists
<1>3. CASE id \in under
  <2>1. /\ ReassemblyWith(d, r) = Reassembly!Update(fragment_reassembly, s, r)
        /\ ReceivedOnOpen(d) = received_packets
    BY <1>2, <1>3 DEF ReassemblyWith, ReceivedOnOpen
  <2>2. Kept(ids, n, R) = ids /\ Kept(under, n, F) = under /\ under \cup {id} = under
    BY <1>3, KeptAll
  <2>3. /\ KeepsIn(Reassembly!Update(fragment_reassembly, s, r), n, under, F)
        /\ SameEntries(Reassembly!Update(fragment_reassembly, s, r), fragment_reassembly,
                       under \ {id})
        /\ EntryOf(Reassembly!Update(fragment_reassembly, s, r), id) = r
    <3>1. KeepsIn(Reassembly!Update(fragment_reassembly, NumberOf(id), r), n, under, F)
      BY <1>1, <1>3, EntryByIdentity
    <3>2. SameEntries(Reassembly!Update(fragment_reassembly, NumberOf(id), r),
                      fragment_reassembly, under \ {id})
      BY <1>1, <1>3, <3>1, EntryByIdentity
    <3>3. HasEntry(Reassembly!Update(fragment_reassembly, NumberOf(id), r), id, r)
      BY <1>1, <1>3, <3>1, EntryByIdentity
    <3> QED BY <3>1, <3>2, <3>3 DEF HasEntry
  <2> QED BY <2>1, <2>2, <2>3 DEF Moves
<1>4. CASE id \notin under
  <2> DEFINE m == Reached(n, id)
             kept == Kept(under, m, F)
  <2>1. /\ ReassemblyWith(d, r) = Reassembly!InsertAdvanceFirst(fragment_reassembly, s, r)
        /\ ReceivedOnOpen(d) = Received!Advance(received_packets, s)
        /\ Reassembly!CanInsertAdvanceFirst(fragment_reassembly, s)
    BY <1>2, <1>4 DEF ReassemblyWith, ReceivedOnOpen, Storable
  <2>2. m = Reached(n, id)
    OBVIOUS
  <2> HIDE DEF m
  <2>3. Reassembly!CanInsertAdvanceFirst(fragment_reassembly, NumberOf(id)) => (id >= n - F)
    BY <1>1, <2>2, ReassemblyByIdentity
  <2> DEFINE opened == Reassembly!InsertAdvanceFirst(fragment_reassembly, NumberOf(id), r)
  <2>4. id >= n - F =>
          /\ KeepsIn(opened, m, kept \cup {id}, F)
          /\ SameEntries(opened, fragment_reassembly, kept \ {id})
          /\ EntryOf(opened, id) = r
    <3>1. id >= n - F => KeepsIn(opened, m, kept \cup {id}, F)
      BY <1>1, <2>2, ReassemblyByIdentity
    <3>2. id >= n - F => SameEntries(opened, fragment_reassembly, kept \ {id})
      BY <1>1, <2>2, <3>1, ReassemblyByIdentity
    <3>3. id >= n - F => HasEntry(opened, id, r)
      BY <1>1, <2>2, <3>1, ReassemblyByIdentity
    <3> QED BY <3>1, <3>2, <3>3 DEF HasEntry
  <2>5. KeepsIn(Received!Advance(received_packets, NumberOf(id)), m, Kept(ids, m, R), R)
    BY <1>1, <2>2, ReceivedByIdentity
  <2> HIDE DEF opened, kept
  <2>6. /\ KeepsIn(ReceivedOnOpen(d), m, Kept(ids, m, R), R)
        /\ KeepsIn(ReassemblyWith(d, r), m, kept \cup {id}, F)
        /\ EntryOf(ReassemblyWith(d, r), id) = r
        /\ SameEntries(ReassemblyWith(d, r), fragment_reassembly, kept \ {id})
    BY <2>1, <2>3, <2>4, <2>5 DEF opened
  <2> QED BY <2>2, <2>6 DEF kept, Moves
<1> QED BY <1>3, <1>4

\* The entry of a packet with that content, whose headers are among G.
GoodEntry(r, content, G) ==
  /\ Len(content) > FragmentAbove
  /\ Assembles(r, content)
  /\ 0 \in r.fragment_received => r.header \in G

\* The windows once packet id was heard.
WindowsAt(b, e, c, m, n, ids, under, id, content, G, process) ==
  /\ HeardOf(b, id, n, ids, m, process)
  /\ \E rest : /\ rest \subseteq Kept(under, m, FragmentReassemblyBufferSize) \cup {id}
               /\ KeepsIn(e, m, rest, FragmentReassemblyBufferSize)
               /\ SameEntries(e, c, rest \ {id})
               /\ id \in rest => GoodEntry(EntryOf(e, id), content, G)

\* What came of the acks of its header, one of G.
AcksTaken(G, process) ==
  IF process = "accepted" THEN \E h \in G : \E names : ProcessAcks(h, names)
                          ELSE UNCHANGED <<sent_packets, acks>>

\* All that receive_packet does with a datagram of packet id.
HeardPacket(n, ids, under, id, content, G, d, process) ==
  /\ \E m \in Moves(n, id) :
       WindowsAt(received_packets', fragment_reassembly', fragment_reassembly,
                 m, n, ids, under, id, content, G, process)
  /\ AcksTaken(G, process)
  /\ sequence' = sequence
  /\ process # "unused" => Processed(d) = content

\* What the parts of packet id look like.
LEMMA PartFields ==
  ASSUME NEW d, NEW id, NEW content, NEW h, PartOf(d, id, content, h)
  PROVE  /\ d.type = "regular" =>
              /\ Len(content) <= FragmentAbove
              /\ d.header = h /\ d.content = content
         /\ d.type # "regular" =>
              /\ d.type = "fragment" /\ ~(Len(content) <= FragmentAbove)
              /\ d.sequence = NumberOf(id)
              /\ d.num_fragments = NumFragments(content)
              /\ d.content = Piece(content, d.fragment_id)
              /\ d.header = IF d.fragment_id = 0 THEN h ELSE None
<1>1. CASE Len(content) <= FragmentAbove
  BY <1>1 DEF PartOf
<1>2. CASE ~(Len(content) <= FragmentAbove)
  <2>1. PICK f \in 0 .. NumFragments(content) - 1 :
               d = [type |-> "fragment", sequence |-> NumberOf(id), fragment_id |-> f,
                    num_fragments |-> NumFragments(content),
                    header |-> IF f = 0 THEN h ELSE None, content |-> Piece(content, f)]
    BY <1>2 DEF PartOf
  <2> QED BY <1>2, <2>1
<1> QED BY <1>1, <1>2

\* Storing a fragment of the packet keeps its entry good.
LEMMA StoredGood ==
  ASSUME NEW d \in Datagrams, Readable(d), NEW r \in ReassemblyData,
         EntryConsistent(d.sequence, r), d.fragment_id \notin r.fragment_received,
         NEW content \in Seq(Byte), content # <<>>, NEW G, GoodEntry(r, content, G),
         NEW id, NEW h \in G, PartOf(d, id, content, h)
  PROVE  GoodEntry(StoreFragment(r, d), content, G)
<1>1. /\ d.num_fragments = NumFragments(content) /\ d.content = Piece(content, d.fragment_id)
      /\ d.header = IF d.fragment_id = 0 THEN h ELSE None
  BY PartFields DEF Readable
<1>2. Assembles(r, content) /\ Len(content) > FragmentAbove
      /\ (0 \in r.fragment_received => r.header \in G)
  BY DEF GoodEntry
<1>3. /\ Assembles(StoreFragment(r, d), content)
      /\ StoreFragment(r, d).header = IF d.fragment_id = 0 THEN d.header ELSE r.header
      /\ StoreFragment(r, d).fragment_received = r.fragment_received \cup {d.fragment_id}
  BY <1>1, <1>2, StoreAssembles
<1> QED BY <1>1, <1>2, <1>3 DEF GoodEntry

\* A datagram that is refused leaves the windows at n.
LEMMA QuietWindows ==
  ASSUME NEW n \in Int, NEW ids, NEW under, NEW id, NEW content, NEW G, NEW process,
         KeepsIn(received_packets, n, ids, ReceivedPacketsBufferSize),
         KeepsIn(fragment_reassembly, n, under, FragmentReassemblyBufferSize),
         id \in under => GoodEntry(EntryOf(fragment_reassembly, id), content, G),
         process # "accepted",
         UNCHANGED <<received_packets, fragment_reassembly>>
  PROVE  WindowsAt(received_packets', fragment_reassembly', fragment_reassembly,
                   n, n, ids, under, id, content, G, process)
<1>1. /\ Kept(ids, n, ReceivedPacketsBufferSize) = ids
      /\ Kept(under, n, FragmentReassemblyBufferSize) = under
  BY KeptAll, ConfigAssumption
<1>2. HeardOf(received_packets', id, n, ids, n, process)
  BY <1>1 DEF HeardOf
<1>3. /\ under \subseteq under \cup {id}
      /\ KeepsIn(fragment_reassembly', n, under, FragmentReassemblyBufferSize)
      /\ SameEntries(fragment_reassembly', fragment_reassembly, under \ {id})
      /\ id \in under => GoodEntry(EntryOf(fragment_reassembly', id), content, G)
  BY DEF SameEntries
<1> QED BY <1>1, <1>2, <1>3 DEF WindowsAt

\* A packet in one piece.
LEMMA RegularByIdentity ==
  ASSUME SizesDivide, IInv, NEW n \in Int, NEW ids, NEW under, NEW id, InReach(id, n),
         KeepsIn(received_packets, n, ids, ReceivedPacketsBufferSize),
         KeepsIn(fragment_reassembly, n, under, FragmentReassemblyBufferSize),
         NEW content, NEW G, NEW h \in G, h.sequence = NumberOf(id),
         id \in under => GoodEntry(EntryOf(fragment_reassembly, id), content, G),
         NEW d, d.header = h, d.content = content, d.type = "regular",
         NEW process, ReceiveRegular(d, process)
  PROVE  HeardPacket(n, ids, under, id, content, G, d, process)
<1> DEFINE F == FragmentReassemblyBufferSize
<1>1. /\ received_packets \in Received!BufferOf({None})
      /\ fragment_reassembly \in Reassembly!BufferOf(ReassemblyData)
  BY DEF IInv, TypeOK
<1>2. HandleRegular(h, content, process, received_packets, fragment_reassembly, FALSE)
  BY DEF ReceiveRegular
<1>3. AcksTaken(G, process) /\ sequence' = sequence
  <2>1. CASE process = "accepted"
    <3>1. \E names : ProcessAcks(h, names)
      BY <1>2, <2>1, HandleRegularVerdict
    <3> QED BY <2>1, <3>1, <1>2, HandleRegularVerdict DEF AcksTaken
  <2>2. CASE process # "accepted"
    BY <1>2, <2>2, HandleRegularVerdict DEF AcksTaken
  <2> QED BY <2>1, <2>2
<1>4. PICK m \in Moves(n, id) :
        /\ HeardOf(received_packets', id, n, ids, m, process)
        /\ KeepsIn(fragment_reassembly', m, Kept(under, m, F), F)
        /\ SameEntries(fragment_reassembly', fragment_reassembly, Kept(under, m, F))
  <2> DEFINE rebuilt == FALSE
             rest(m) == Rest(Kept(under, m, F), id, rebuilt)
  <2>1. /\ rebuilt => id \in under
        /\ HandleRegular(h, content, process, received_packets, fragment_reassembly, rebuilt)
    BY <1>2
  <2>2. \A m \in Moves(n, id) : rest(m) = Kept(under, m, F)
    BY DEF Rest
  <2> HIDE DEF rebuilt
  <2>3. \E m \in Moves(n, id) :
          /\ HeardOf(received_packets', id, n, ids, m, process)
          /\ KeepsIn(fragment_reassembly', m, rest(m), F)
          /\ SameEntries(fragment_reassembly', fragment_reassembly, rest(m))
    BY <1>1, <2>1, HandleRegularByIdentity
  <2> QED BY <2>2, <2>3
<1>5. WindowsAt(received_packets', fragment_reassembly', fragment_reassembly,
                m, n, ids, under, id, content, G, process)
  <2> DEFINE rest == Kept(under, m, F)
  <2>1. rest \subseteq under
    BY DEF Kept
  <2>2. id \in rest => GoodEntry(EntryOf(fragment_reassembly', id), content, G)
    BY <1>4, <2>1 DEF SameEntries
  <2>3. /\ rest \subseteq Kept(under, m, F) \cup {id}
        /\ SameEntries(fragment_reassembly', fragment_reassembly, rest \ {id})
    BY <1>4 DEF SameEntries
  <2> HIDE DEF rest
  <2> QED BY <1>4, <2>2, <2>3 DEF WindowsAt, rest
<1>6. Processed(d) = content
  BY DEF Processed
<1> QED BY <1>3, <1>5, <1>6 DEF HeardPacket

\* The window after the last fragment, which found it opened at m.
LEMMA HeardFrom ==
  ASSUME NEW n \in Int, NEW ids, NEW id, InReach(id, n), SizesDivide,
         NEW m \in Moves(n, id), ids \subseteq Int, id \notin ids, NEW k \in Moves(m, id),
         NEW process, NEW b, HeardOf(b, id, m, Kept(ids, m, ReceivedPacketsBufferSize), k, process)
  PROVE  k \in Moves(n, id) /\ k >= m /\ HeardOf(b, id, n, ids, k, process)
<1> DEFINE R == ReceivedPacketsBufferSize
<1>1. /\ R <= HalfModulus /\ R \in Nat \ {0}
  BY ConfigAssumption DEF SizesDivide
<1>2. /\ m \in Int /\ m >= n /\ Reached(m, id) = Reached(n, id) /\ Reached(m, id) >= m
      /\ id \in Int /\ Reached(n, id) \in Int
  BY <1>1, ReachedTwice, ReachTypes
<1>3. k \in Moves(n, id) /\ k \in Int /\ k >= m
  BY <1>2 DEF Moves
<1>4. Kept(Kept(ids, m, R), k, R) = Kept(ids, k, R)
  <2> SUFFICES ASSUME NEW q \in ids, q >= k - R
               PROVE  q >= m - R
    BY DEF Kept
  <2> QED BY <1>1, <1>2, <1>3
<1>5. process = "accepted" => id >= n - R
  BY <1>1, <1>2 DEF HeardOf
<1>6. HeardOf(b, id, n, ids, k, process)
  <2> HIDE DEF R
  <2>1. R = ReceivedPacketsBufferSize
    BY DEF R
  <2> QED BY <1>2, <1>4, <1>5, <2>1 DEF HeardOf
<1> QED BY <1>3, <1>6

\* Finding the entry of a packet.
LEMMA FindByIdentity ==
  ASSUME SizesDivide, NEW c, NEW n \in Int, NEW ids,
         KeepsIn(c, n, ids, FragmentReassemblyBufferSize), NEW id \in ids
  PROVE  Reassembly!Find(c, NumberOf(id)) = EntryOf(c, id)
<1> USE ConfigAssumption, DataAssumption, SequenceModulusAssumption
<1>1. id \in Int /\ ReassemblyBuffer!Commensurate
  BY ReassemblyIdentityLink DEF KeepsIn
<1>2. ReassemblyBuffer!Slot(ReassemblyBuffer!NumberOf(id)) = ReassemblyBuffer!Slot(id)
  BY <1>1, ReassemblyLink, ReassemblyBuffer!SlotOfNumber
<1> QED BY <1>2, ReassemblyIdentityLink DEF Reassembly!Find, Reassembly!Slot, EntryOf

\* A fragment that is stored, and the packet it may complete.
LEMMA FragmentByIdentity ==
  ASSUME SizesDivide, IInv, NEW n \in Int, NEW ids, NEW under, NEW id, InReach(id, n),
         KeepsIn(received_packets, n, ids, ReceivedPacketsBufferSize),
         KeepsIn(fragment_reassembly, n, under, FragmentReassemblyBufferSize),
         NEW content \in Seq(Byte), content # <<>>,
         NEW G, \A h \in G : h.sequence = NumberOf(id),
         id \in under => GoodEntry(EntryOf(fragment_reassembly, id), content, G),
         NEW d \in Datagrams, NEW h \in G, PartOf(d, id, content, h),
         NEW process, ReceiveFragment(d, process)
  PROVE  HeardPacket(n, ids, under, id, content, G, d, process)
<1> USE ConfigAssumption
<1> DEFINE R == ReceivedPacketsBufferSize
           F == FragmentReassemblyBufferSize
           stored == StoreFragment(Entry(d), d)
           c == ReassemblyWith(d, stored)
           heard == ReceivedOnOpen(d)
<1>1. /\ Readable(d) /\ Storable(d) /\ d.type = "fragment" /\ d.sequence = NumberOf(id)
      /\ d.num_fragments = NumFragments(content) /\ ~(Len(content) <= FragmentAbove)
      /\ Entry(d).num_fragments_total = d.num_fragments
      /\ d.fragment_id \notin Entry(d).fragment_received
  BY PartFields DEF ReceiveFragment, Readable
<1>2. /\ Entry(d) \in ReassemblyData /\ EntryConsistent(d.sequence, Entry(d))
  BY <1>1, EntryType DEF IInv
<1>3. GoodEntry(Entry(d), content, G)
  <2>1. CASE id \in under
    <3>1. Reassembly!Exists(fragment_reassembly, d.sequence)
      BY <1>1, <2>1, ReassemblyExists
    <3>2. Reassembly!Find(fragment_reassembly, NumberOf(id)) = EntryOf(fragment_reassembly, id)
      <4>1. fragment_reassembly \in Reassembly!BufferOf(ReassemblyData)
        BY DEF IInv, TypeOK
      <4> QED BY <2>1, <4>1, FindByIdentity
    <3> QED BY <1>1, <2>1, <3>1, <3>2 DEF Entry
  <2>2. CASE id \notin under
    <3>1. ~Reassembly!Exists(fragment_reassembly, d.sequence)
      BY <1>1, <2>2, ReassemblyExists
    <3>2. Entry(d) = NewReassembly(d) /\ NewReassembly(d).fragment_received = {}
      BY <3>1 DEF Entry, NewReassembly, EmptyReassembly
    <3>3. Len(content) > FragmentAbove
      BY <1>1
    <3> QED BY <1>1, <3>2, <3>3, NewAssembles DEF GoodEntry
  <2> QED BY <2>1, <2>2
<1>4. /\ stored \in ReassemblyData /\ EntryConsistent(d.sequence, stored)
      /\ GoodEntry(stored, content, G)
  BY <1>1, <1>2, <1>3, StoreFragmentType, StoredGood
<1>5. /\ c \in Reassembly!BufferOf(ReassemblyData)
      /\ heard \in Received!BufferOf({None})
  BY <1>1, <1>4, OpenedBuffers DEF IInv
<1> HIDE DEF stored
<1>6. PICK m \in Moves(n, id) :
        /\ KeepsIn(heard, m, Kept(ids, m, R), R)
        /\ KeepsIn(c, m, Kept(under, m, F) \cup {id}, F)
        /\ EntryOf(c, id) = stored
        /\ SameEntries(c, fragment_reassembly, Kept(under, m, F) \ {id})
  BY <1>1, <1>4, OpenedByIdentity
<1>7. /\ R <= HalfModulus /\ R \in Nat \ {0} /\ F \in Nat \ {0}
      /\ ids \subseteq Int /\ under \subseteq Int /\ id \notin ids
  <2>1. R <= HalfModulus /\ R \in Nat \ {0} /\ F \in Nat \ {0}
    BY DEF SizesDivide
  <2>2. ids \subseteq Int /\ under \subseteq Int
    BY <2>1 DEF KeepsIn
  <2>3. id \notin ids
    BY <1>1, ReceivedExists DEF Storable
  <2> QED BY <2>1, <2>2, <2>3
<1>8. /\ m \in Int /\ m >= n /\ InReach(id, m) /\ Reached(m, id) = Reached(n, id)
      /\ Reached(m, id) >= m
  BY <1>7, ReachedTwice
<1> HIDE DEF c, heard
<1>9. CASE /\ process = "unused"
           /\ fragment_reassembly' = c /\ received_packets' = heard
           /\ UNCHANGED <<sequence, sent_packets, acks>>
  <2>1. HeardOf(received_packets', id, n, ids, m, process)
    BY <1>6, <1>9 DEF HeardOf
  <2> DEFINE rest == Kept(under, m, F) \cup {id}
  <2>2. /\ rest \subseteq Kept(under, m, F) \cup {id}
        /\ KeepsIn(fragment_reassembly', m, rest, F)
        /\ SameEntries(fragment_reassembly', fragment_reassembly, rest \ {id})
        /\ id \in rest => GoodEntry(EntryOf(fragment_reassembly', id), content, G)
    BY <1>4, <1>6, <1>9 DEF SameEntries
  <2>3. WindowsAt(received_packets', fragment_reassembly', fragment_reassembly,
                m, n, ids, under, id, content, G, process)
    BY <2>1, <2>2 DEF WindowsAt
  <2>4. AcksTaken(G, process)
    BY <1>9 DEF AcksTaken
  <2> QED BY <1>9, <2>3, <2>4 DEF HeardPacket
<1>10. CASE /\ stored.num_fragments_received = stored.num_fragments_total
            /\ HandleRegular(stored.header, SubSeq(stored.packet_data, 1, stored.packet_bytes),
                             process, heard, c, TRUE)
  <2> DEFINE payload == SubSeq(stored.packet_data, 1, stored.packet_bytes)
             h2 == stored.header
  <2>1. payload = content /\ h2 \in G /\ h2.sequence = NumberOf(id)
    <3>1. Assembles(stored, content)
      BY <1>4 DEF GoodEntry
    <3>2. payload = content /\ 0 \in stored.fragment_received
      BY <1>4, <1>10, <3>1, CompleteIsContent
    <3>3. h2 \in G
      BY <1>4, <3>2 DEF GoodEntry
    <3> QED BY <3>2, <3>3
  <2>2. Processed(d) = content
    BY <1>1, <2>1 DEF Processed, stored
  <2> DEFINE rebuilt == TRUE
  <2>3. /\ HandleRegular(h2, payload, process, heard, c, rebuilt)
        /\ rebuilt => id \in Kept(under, m, F) \cup {id}
    BY <1>10
  <2>4. \A ids2 : Rest(ids2, id, rebuilt) = ids2 \ {id}
    BY DEF Rest
  <2> HIDE DEF rebuilt, h2, payload
  <2>5. AcksTaken(G, process) /\ sequence' = sequence
    <3>1. CASE process = "accepted"
      <4>1. \E names : ProcessAcks(h2, names)
        BY <2>3, <3>1, HandleRegularVerdict
      <4> QED BY <2>1, <2>3, <3>1, <4>1, HandleRegularVerdict DEF AcksTaken
    <3>2. CASE process # "accepted"
      BY <2>3, <3>2, HandleRegularVerdict DEF AcksTaken
    <3> QED BY <3>1, <3>2
  <2> DEFINE ids2 == Kept(ids, m, R)
             under2 == Kept(under, m, F) \cup {id}
  <2> HIDE DEF ids2, under2
  <2>6. \E k \in Moves(m, id) :
          /\ HeardOf(received_packets', id, m, ids2, k, process)
          /\ KeepsIn(fragment_reassembly', k, Rest(Kept(under2, k, F), id, rebuilt), F)
          /\ SameEntries(fragment_reassembly', c, Rest(Kept(under2, k, F), id, rebuilt))
    <3>1. KeepsIn(heard, m, ids2, R) /\ KeepsIn(c, m, under2, F)
      BY <1>6 DEF ids2, under2
    <3>2. rebuilt => id \in under2
      BY <2>3 DEF under2
    <3>3. HandleRegular(h2, payload, process, heard, c, rebuilt) /\ h2.sequence = NumberOf(id)
      BY <2>1, <2>3
    <3>4. m \in Int /\ InReach(id, m)
      BY <1>8
    <3> QED BY <1>5, <3>1, <3>2, <3>3, <3>4, HandleRegularByIdentity
  <2>7. PICK k \in Moves(m, id) :
          /\ HeardOf(received_packets', id, m, ids2, k, process)
          /\ KeepsIn(fragment_reassembly', k, Kept(under2, k, F) \ {id}, F)
          /\ SameEntries(fragment_reassembly', c, Kept(under2, k, F) \ {id})
    BY <2>4, <2>6
  <2>8. k \in Moves(n, id) /\ k >= m /\ HeardOf(received_packets', id, n, ids, k, process)
    <3>1. HeardOf(received_packets', id, m, Kept(ids, m, R), k, process)
      BY <2>7 DEF ids2
    <3>2. HeardOf(received_packets', id, n, ids, k, process)
      BY <1>7, <3>1, HeardFrom
    <3>3. k \in Moves(n, id) /\ k >= m
      BY <1>7, <3>1, <3>2, HeardFrom
    <3> QED BY <3>2, <3>3
  <2> DEFINE rest == Kept(under2, k, F) \ {id}
  <2>9. /\ rest \subseteq Kept(under, k, F) \cup {id}
        /\ rest \subseteq Kept(under, m, F) \ {id}
        /\ id \notin rest
    BY DEF under2, Kept
  <2>10. SameEntries(fragment_reassembly', fragment_reassembly, rest \ {id})
    BY <1>6, <2>7, <2>9 DEF SameEntries
  <2> HIDE DEF rest
  <2>11. WindowsAt(received_packets', fragment_reassembly', fragment_reassembly,
                 k, n, ids, under, id, content, G, process)
    BY <2>7, <2>8, <2>9, <2>10 DEF WindowsAt, rest
  <2> QED BY <2>2, <2>5, <2>8, <2>11 DEF HeardPacket
<1> QED BY <1>9, <1>10 DEF ReceiveFragment, stored, c, heard

\* What receive_packet does with a datagram of packet id, given that the other
\* side sent it.
LEMMA ReceiveByIdentity ==
  ASSUME SizesDivide, IInv, NEW n \in Int, NEW ids, NEW under, NEW id, InReach(id, n),
         KeepsIn(received_packets, n, ids, ReceivedPacketsBufferSize),
         KeepsIn(fragment_reassembly, n, under, FragmentReassemblyBufferSize),
         NEW content \in Seq(Byte), content # <<>>,
         NEW G, \A h \in G : h.sequence = NumberOf(id),
         id \in under => GoodEntry(EntryOf(fragment_reassembly, id), content, G),
         NEW d \in Datagrams, NEW h \in G, PartOf(d, id, content, h),
         NEW process, ReceivePacket(d, process)
  PROVE  HeardPacket(n, ids, under, id, content, G, d, process)
<1>1. CASE ReceiveRegular(d, process)
  <2>1. d.type = "regular"
    BY <1>1 DEF ReceiveRegular
  <2>2. d.header = h /\ d.content = content /\ h.sequence = NumberOf(id)
    BY <2>1, PartFields
  <2> QED BY <1>1, <2>1, <2>2, RegularByIdentity
<1>2. CASE ReceiveFragment(d, process)
  BY <1>2, FragmentByIdentity
<1>3. CASE /\ process = "unused"
           /\ UNCHANGED <<sequence, sent_packets, received_packets, fragment_reassembly, acks>>
  <2>1. WindowsAt(received_packets', fragment_reassembly', fragment_reassembly,
                  n, n, ids, under, id, content, G, process)
    BY <1>3, QuietWindows
  <2>2. AcksTaken(G, process)
    BY <1>3 DEF AcksTaken
  <2> QED BY <1>3, <2>1, <2>2 DEF Moves, HeardPacket
<1> QED BY <1>1, <1>2, <1>3 DEF ReceivePacket, ReceiveUnreadable, ReceiveFragmentTooLarge,
           ReceiveInvalidFragment, IgnoreFragment

-----------------------------------------------------------------------------
(* send_packet and its header, by identity *)

\* The acked flag of packet id in buffer c.
FlagOf(c, id) == c.entries[id % SentPacketsBufferSize]

SameFlags(e, c, ids) == \A p \in ids : FlagOf(e, p) = FlagOf(c, p)

\* Adding to a number, and subtracting from it, does so to its identity.
LEMMA NumberShift ==
  ASSUME NEW id \in Int, NEW k \in Int
  PROVE  /\ WrapAdd(NumberOf(id), k) = NumberOf(id + k)
         /\ WrapSub(NumberOf(id), k) = NumberOf(id - k)
<1>1. /\ SentBuffer!WrapAdd(SentBuffer!NumberOf(id), k) = SentBuffer!NumberOf(id + k)
      /\ SentBuffer!WrapSub(SentBuffer!NumberOf(id), k) = SentBuffer!NumberOf(id - k)
  BY ConfigAssumption, DataAssumption, SequenceModulusAssumption, SentLink,
     SentBuffer!WrapNumber
<1> QED BY <1>1 DEF SentBuffer!WrapAdd, WrapAdd, SentBuffer!WrapSub, WrapSub,
           SentBuffer!NumberOf, NumberOf

\* The next header acks the identities below the window's that it remembers.
LEMMA HeaderByIdentity ==
  ASSUME SizesDivide, NEW n \in Int, NEW ids,
         KeepsIn(received_packets, n, ids, ReceivedPacketsBufferSize)
  PROVE  NextHeader = [sequence |-> sequence, ack |-> NumberOf(n - 1),
                       ack_bits |-> {i \in 0 .. AckBits - 1 : n - 1 - i \in ids}]
<1> USE ConfigAssumption, DataAssumption, SequenceModulusAssumption
<1>1. /\ ReceivedBuffer!Keeps(received_packets, n, ids) /\ ReceivedBuffer!Commensurate
      /\ AckBits \in 1 .. SequenceModulus
  BY ReceivedIdentityLink
<1>2. /\ ReceivedBuffer!AckOf(received_packets) = ReceivedBuffer!NumberOf(n - 1)
      /\ ReceivedBuffer!GenerateAckBits(received_packets, AckBits)
           = {i \in 0 .. AckBits - 1 : n - 1 - i \in ids}
  BY <1>1, ReceivedLink, ReceivedBuffer!AckBitsKeeps
<1>3. Received!AckOf(received_packets) = NumberOf(n - 1)
  BY <1>2, ReceivedIdentityLink DEF Received!AckOf, ReceivedBuffer!AckOf, Received!WrapSub,
     ReceivedBuffer!WrapSub
<1>4. Received!GenerateAckBits(received_packets, AckBits)
        = ReceivedBuffer!GenerateAckBits(received_packets, AckBits)
  BY DEF Received!GenerateAckBits, ReceivedBuffer!GenerateAckBits, Received!AckOf,
     ReceivedBuffer!AckOf, Received!WrapSub, ReceivedBuffer!WrapSub, Received!Exists,
     ReceivedBuffer!Exists, Received!Slot, ReceivedBuffer!Slot
<1> QED BY <1>2, <1>3, <1>4 DEF NextHeader

\* The n-th packet joins the sent packets, not acked, and pushes out the oldest.
LEMMA SendByIdentity ==
  ASSUME SizesDivide, 2 <= HalfModulus, IInv, NEW n \in Int, NEW ids,
         sequence = NumberOf(n), KeepsIn(sent_packets, n, ids, SentPacketsBufferSize),
         NEW content, SendPacket(content)
  PROVE  LET kept == Kept(ids, n + 1, SentPacketsBufferSize)
         IN  /\ sequence' = NumberOf(n + 1)
             /\ KeepsIn(sent_packets', n + 1, kept \cup {n}, SentPacketsBufferSize)
             /\ FlagOf(sent_packets', n) = FALSE
             /\ SameFlags(sent_packets', sent_packets, kept)
             /\ UNCHANGED <<received_packets, fragment_reassembly, acks>>
<1> USE ConfigAssumption, DataAssumption, SequenceModulusAssumption
<1> DEFINE S == SentPacketsBufferSize
           e == SentBuffer!Advance(sent_packets, NumberOf(n))
           f == SentBuffer!Fill(e, NumberOf(n), NotAcked)
           kept == SentBuffer!Kept(ids, n + 1)
           m == n + 1
<1>1. /\ sent_packets \in SentBuffer!BufferOf(BOOLEAN) /\ SentBuffer!Keeps(sent_packets, n, ids)
      /\ SentBuffer!Commensurate /\ NotAcked \in BOOLEAN
      /\ NumberOf(n) = SentBuffer!NumberOf(n)
  BY SentLink, SentIdentityLink DEF IInv, TypeOK, NotAcked
<1>2. /\ n \in n - SentBuffer!HalfModulus .. n + SentBuffer!HalfModulus - 2
      /\ m \in Int /\ m = SentBuffer!Reached(n, n)
  BY SentIdentityLink DEF SentBuffer!Reached, HalfModulus
<1> HIDE DEF m, e, kept
<1>3. /\ e \in SentBuffer!BufferOf(BOOLEAN)
      /\ SentBuffer!Keeps(e, m, SentBuffer!Kept(ids, m))
      /\ \A p \in SentBuffer!Kept(ids, m) :
           e.entries[SentBuffer!Slot(p)] = sent_packets.entries[SentBuffer!Slot(p)]
  BY <1>1, <1>2, SentLink, SentBuffer!AdvanceKeeps DEF e
<1>4. SentBuffer!Kept(ids, m) = kept /\ kept = Kept(ids, m, S) /\ n \notin kept
  BY <1>1 DEF kept, m, Kept, SentBuffer!Kept, SentBuffer!Keeps
<1>5. n \in m - S .. m - 1
  BY DEF m
<1>6. /\ SentBuffer!Keeps(f, m, kept \cup {n})
      /\ f.entries[SentBuffer!Slot(n)] = NotAcked
      /\ \A p \in kept \ {n} : f.entries[SentBuffer!Slot(p)] = e.entries[SentBuffer!Slot(p)]
  <2>1. SentBuffer!Keeps(e, m, kept)
    BY <1>3, <1>4
  <2>2. SentBuffer!Keeps(SentBuffer!Fill(e, SentBuffer!NumberOf(n), NotAcked), m, kept \cup {n})
    BY <1>1, <1>2, <1>3, <1>5, <2>1, SentLink, SentBuffer!FillKeeps
  <2>3. SentBuffer!Fill(e, SentBuffer!NumberOf(n), NotAcked).entries[SentBuffer!Slot(n)] = NotAcked
    BY <1>1, <1>2, <1>3, <1>5, <2>1, <2>2, SentLink, SentBuffer!FillKeeps
  <2>4. \A p \in kept \ {n} :
          SentBuffer!Fill(e, SentBuffer!NumberOf(n), NotAcked).entries[SentBuffer!Slot(p)]
            = e.entries[SentBuffer!Slot(p)]
    BY <1>1, <1>2, <1>3, <1>5, <2>1, <2>2, SentLink, SentBuffer!FillKeeps
  <2> QED BY <1>1, <2>2, <2>3, <2>4
<1> HIDE DEF f
<1>7. sent_packets' = f
  BY SentLink DEF SendPacket, Sent!Insert, f, e, NotAcked, SentBuffer!Fill, Sent!Fill
<1>8. KeepsIn(sent_packets', m, kept \cup {n}, S)
  BY <1>6, <1>7, SentIdentityLink
<1>9. FlagOf(sent_packets', n) = FALSE /\ SameFlags(sent_packets', sent_packets, kept)
  BY <1>3, <1>4, <1>6, <1>7, SentIdentityLink DEF FlagOf, SameFlags, NotAcked
<1>10. sequence' = NumberOf(m)
  <2>1. WrapAdd(NumberOf(n), 1) = NumberOf(n + 1)
    BY NumberShift
  <2> QED BY <2>1 DEF SendPacket, m
<1> QED BY <1>4, <1>8, <1>9, <1>10 DEF m, SendPacket

-----------------------------------------------------------------------------
(* The ack loop, by identity *)

\* The sent buffer answers about identities of the last SequenceModulus.
LEMMA SentByIdentity ==
  ASSUME SizesDivide, NEW c, NEW n \in Int, NEW ids,
         KeepsIn(c, n, ids, SentPacketsBufferSize), NEW a \in n - SequenceModulus .. n - 1
  PROVE  /\ Sent!Exists(c, NumberOf(a)) <=> a \in ids
         /\ Sent!Slot(NumberOf(a)) = a % SentPacketsBufferSize
         /\ Sent!Find(c, NumberOf(a)) = FlagOf(c, a)
         /\ a \in Int
         /\ a % SentPacketsBufferSize \in 0 .. SentPacketsBufferSize - 1
<1> USE ConfigAssumption, DataAssumption, SequenceModulusAssumption
<1>1. /\ SentBuffer!Keeps(c, n, ids) /\ SentBuffer!Commensurate /\ a \in Int
      /\ SentBuffer!NumberOf(a) = NumberOf(a)
  BY SentIdentityLink
<1>2. a \in n - SequenceModulus .. n + SequenceModulus - SentPacketsBufferSize - 1
  BY DEF SizesDivide, HalfModulus
<1>3. SentBuffer!Exists(c, SentBuffer!NumberOf(a)) <=> a \in ids
  BY <1>1, <1>2, SentLink, SentBuffer!ExistsKeeps
<1>4. SentBuffer!Slot(SentBuffer!NumberOf(a)) = SentBuffer!Slot(a)
  BY <1>1, SentLink, SentBuffer!SlotOfNumber
<1>5. Sent!Slot(NumberOf(a)) = a % SentPacketsBufferSize
  BY <1>1, <1>4, SentLink, SentIdentityLink
<1>6. a % SentPacketsBufferSize \in 0 .. SentPacketsBufferSize - 1
  BY <1>1
<1> QED BY <1>1, <1>3, <1>5, <1>6, SentIdentityLink DEF Sent!Find, FlagOf

\* Two packets the sent buffer keeps have slots, and numbers, of their own.
LEMMA SentApart ==
  ASSUME SizesDivide, NEW c, NEW n \in Int, NEW ids,
         KeepsIn(c, n, ids, SentPacketsBufferSize), NEW a \in ids, NEW b \in ids
  PROVE  /\ a % SentPacketsBufferSize = b % SentPacketsBufferSize => a = b
         /\ NumberOf(a) = NumberOf(b) => a = b
<1> USE ConfigAssumption, DataAssumption, SequenceModulusAssumption
<1>1. SentPacketsBufferSize <= SequenceModulus /\ SentPacketsBufferSize \in Nat
  BY DEF SizesDivide, HalfModulus
<1>2. /\ a \in n - SequenceModulus .. n - 1 /\ b \in n - SequenceModulus .. n - 1
      /\ a - b > -SentPacketsBufferSize /\ a - b < SentPacketsBufferSize
      /\ a \in Int /\ b \in Int
  BY <1>1 DEF KeepsIn
<1>3. SentBuffer!Slot(a) = SentBuffer!Slot(b) => a = b
  BY <1>2, SentLink, SentBuffer!SlotsDiffer
<1>4. a % SentPacketsBufferSize = b % SentPacketsBufferSize => a = b
  BY <1>3, SentIdentityLink
<1>5. /\ Sent!Slot(NumberOf(a)) = a % SentPacketsBufferSize
      /\ Sent!Slot(NumberOf(b)) = b % SentPacketsBufferSize
  BY <1>2, SentByIdentity
<1> QED BY <1>4, <1>5

\* `after` is `before` and then the number of each packet of `fresh`, once.
Appends(before, after, fresh) ==
  LET new == Len(before) + 1 .. Len(after)
  IN  /\ \A k \in new : \E a \in fresh : after[k] = NumberOf(a)
      /\ \A a \in fresh : \E k \in new : after[k] = NumberOf(a)
      /\ \A j, k \in new : after[j] = after[k] => j = k

\* What the ack loop reports of the packets `named` by a header.
AcksOf(c, e, before, after, ss, ids, named, fresh) ==
  /\ fresh \subseteq ids \cap named
  /\ \A a \in fresh : FlagOf(c, a) = FALSE
  /\ KeepsIn(e, ss, ids, SentPacketsBufferSize)
  /\ \A a \in ids : FlagOf(e, a) = (a \in fresh \/ FlagOf(c, a))
  /\ Appends(before, after, fresh)

\* The ack loop flags and reports tracked packets that the header names, each
\* once.
LEMMA ProcessAcksByIdentity ==
  ASSUME SizesDivide, IInv, NEW ss \in Int, NEW ids,
         KeepsIn(sent_packets, ss, ids, SentPacketsBufferSize),
         NEW n \in Int, NEW h \in Header, h.ack = NumberOf(n - 1),
         \A i \in h.ack_bits : n - 1 - i \in ss - SequenceModulus .. ss - 1,
         NEW names, ProcessAcks(h, names)
  PROVE  \E fresh :
           AcksOf(sent_packets, sent_packets', acks, acks', ss, ids,
                  {n - 1 - i : i \in h.ack_bits}, fresh)
<1> USE ConfigAssumption, DataAssumption, SequenceModulusAssumption
<1>1. PICK count \in 0 .. AckBits : \E reported \in [1 .. count -> Reportable(h)] :
        /\ \A j, k \in 1 .. count : j < k => reported[j] < reported[k]
        /\ acks' = acks \o [k \in 1 .. count |-> AckSequence(h, reported[k])]
        /\ sent_packets' = [sent_packets EXCEPT !.entries =
             [slot \in DOMAIN @ |->
                @[slot] \/ \E k \in 1 .. count : slot = Sent!Slot(AckSequence(h, reported[k]))]]
  BY DEF ProcessAcks
<1>2. PICK reported \in [1 .. count -> Reportable(h)] :
        /\ \A j, k \in 1 .. count : j < k => reported[j] < reported[k]
        /\ acks' = acks \o [k \in 1 .. count |-> AckSequence(h, reported[k])]
        /\ sent_packets' = [sent_packets EXCEPT !.entries =
             [slot \in DOMAIN @ |->
                @[slot] \/ \E k \in 1 .. count : slot = Sent!Slot(AckSequence(h, reported[k]))]]
  BY <1>1
<1>3. count \in Nat
  OBVIOUS
<1> DEFINE named == {n - 1 - i : i \in h.ack_bits}
           id == [k \in 1 .. count |-> n - 1 - reported[k]]
           new == [k \in 1 .. count |-> AckSequence(h, reported[k])]
           fresh == {id[k] : k \in 1 .. count}
           S == SentPacketsBufferSize
<1>4. ASSUME NEW k \in 1 .. count
      PROVE  /\ id[k] \in ids /\ id[k] \in named /\ new[k] = NumberOf(id[k])
             /\ FlagOf(sent_packets, id[k]) = FALSE
             /\ Sent!Slot(new[k]) = id[k] % S
             /\ new[k] \in SequenceNumber /\ id[k] \in Int
             /\ reported[k] = n - 1 - id[k] /\ reported[k] \in Int
  <2> DEFINE i == reported[k]
             a == n - 1 - i
  <2>1. i \in Reportable(h) /\ new[k] = AckSequence(h, i) /\ id[k] = a
    OBVIOUS
  <2>2. i \in h.ack_bits /\ i \in Int /\ a \in Int /\ a = (n - 1) - i
    BY <2>1 DEF Reportable, Header
  <2>3. AckSequence(h, i) = NumberOf(a)
    <3> DEFINE m == n - 1
    <3>1. m \in Int /\ h.ack = NumberOf(m) /\ a = m - i
      BY <2>2
    <3> HIDE DEF m, a, i
    <3> QED BY <2>2, <3>1, NumberShift DEF AckSequence
  <2>4. a \in ss - SequenceModulus .. ss - 1
    BY <2>2
  <2>5. Sent!Exists(sent_packets, NumberOf(a)) /\ ~Sent!Find(sent_packets, NumberOf(a))
    BY <2>1, <2>3 DEF Reportable
  <2>6. a \in named
    BY <2>2
  <2> HIDE DEF a, named, i
  <2>7. NumberOf(a) \in SequenceNumber
    <3>1. a \in Int /\ SequenceModulus \in Nat \ {0}
      BY <2>2
    <3> QED BY <3>1 DEF NumberOf, SequenceNumber
  <2>8. /\ Sent!Exists(sent_packets, NumberOf(a)) <=> a \in ids
        /\ Sent!Slot(NumberOf(a)) = a % S
        /\ Sent!Find(sent_packets, NumberOf(a)) = FlagOf(sent_packets, a)
    BY <2>4, SentByIdentity
  <2>9. i = n - 1 - a /\ FlagOf(sent_packets, a) = FALSE
    BY <2>2, <2>5, <2>8
  <2> HIDE DEF id, new
  <2> QED BY <2>1, <2>2, <2>3, <2>5, <2>6, <2>7, <2>8, <2>9 DEF i
<1>5. new \in Seq(SequenceNumber) /\ Len(new) = count /\ DOMAIN new = 1 .. count
  <2>1. new \in [1 .. count -> SequenceNumber]
    BY <1>4
  <2> HIDE DEF new
  <2> QED BY <1>3, <2>1
<1>6. /\ acks' = acks \o new /\ acks \in Seq(SequenceNumber) /\ Len(acks) \in Nat
      /\ Len(acks') = Len(acks) + count
      /\ \A k \in 1 .. count : acks'[Len(acks) + k] = new[k]
  <2>1. acks \in Seq(SequenceNumber) /\ acks' = acks \o new
    BY <1>2 DEF IInv, TypeOK
  <2> HIDE DEF new
  <2>2. Len(acks) \in Nat /\ Len(acks \o new) = Len(acks) + count
    BY <1>5, <2>1, ConcatType
  <2>3. \A k \in 1 .. count : (acks \o new)[Len(acks) + k] = new[k]
    BY <1>3, <1>5, <2>1
  <2> QED BY <2>1, <2>2, <2>3
<1>7. /\ sent_packets'.sequence = sent_packets.sequence
      /\ sent_packets'.entry_sequence = sent_packets.entry_sequence
      /\ \A j \in 0 .. S - 1 :
           sent_packets'.entries[j]
             = (sent_packets.entries[j] \/ \E k \in 1 .. count : j = Sent!Slot(new[k]))
  <2>1. sent_packets \in Sent!BufferOf(BOOLEAN)
    BY DEF IInv, TypeOK
  <2>2. /\ DOMAIN sent_packets.entries = 0 .. S - 1
        /\ DOMAIN sent_packets = {"sequence", "entry_sequence", "entries"}
    BY <2>1, SentLink DEF Sent!BufferOf
  <2>3. /\ sent_packets'.entries =
             [slot \in DOMAIN sent_packets.entries |->
                sent_packets.entries[slot]
                  \/ \E k \in 1 .. count : slot = Sent!Slot(AckSequence(h, reported[k]))]
        /\ sent_packets'.sequence = sent_packets.sequence
        /\ sent_packets'.entry_sequence = sent_packets.entry_sequence
    BY <1>2, <2>2
  <2> QED BY <2>2, <2>3
<1> HIDE DEF new, id, named, S
<1>8. fresh \subseteq ids \cap named /\ \A a \in fresh : FlagOf(sent_packets, a) = FALSE
  BY <1>4
<1>9. KeepsIn(sent_packets', ss, ids, S)
  BY <1>7 DEF KeepsIn, S
<1>10. ASSUME NEW a \in ids
       PROVE  FlagOf(sent_packets', a) = (a \in fresh \/ FlagOf(sent_packets, a))
  <2>1. a % S \in 0 .. S - 1
    <3>1. a \in ss - SequenceModulus .. ss - 1
      BY DEF KeepsIn, SizesDivide, HalfModulus
    <3> QED BY <3>1, SentByIdentity DEF S
  <2>2. (\E k \in 1 .. count : a % S = Sent!Slot(new[k])) <=> a \in fresh
    <3>1. ASSUME NEW k \in 1 .. count, a % S = Sent!Slot(new[k])
          PROVE  a = id[k]
      <4> DEFINE p == id[k]
      <4>1. p \in ids /\ a % S = p % S
        BY <1>4, <3>1
      <4> HIDE DEF p
      <4>2. a = p
        BY <4>1, SentApart DEF S
      <4> QED BY <4>2 DEF p
    <3>2. ASSUME NEW k \in 1 .. count, a = id[k]
          PROVE  a % S = Sent!Slot(new[k])
      BY <1>4, <3>2
    <3> QED BY <3>1, <3>2
  <2> QED BY <1>7, <2>1, <2>2 DEF FlagOf, S
<1>11. Appends(acks, acks', fresh)
  <2>1. ASSUME NEW q \in Len(acks) + 1 .. Len(acks')
        PROVE  \E k \in 1 .. count : q = Len(acks) + k
    <3>1. q - Len(acks) \in 1 .. count /\ q = Len(acks) + (q - Len(acks))
      BY <1>3, <1>6
    <3> QED BY <3>1
  <2>2. \A k \in 1 .. count : Len(acks) + k \in Len(acks) + 1 .. Len(acks')
    BY <1>3, <1>6
  <2>3. ASSUME NEW j \in 1 .. count, NEW k \in 1 .. count, new[j] = new[k]
        PROVE  j = k
    <3>1. id[j] = id[k]
      <4> DEFINE p == id[j]
                 q == id[k]
      <4>1. p \in ids /\ q \in ids /\ NumberOf(p) = NumberOf(q)
        BY <1>4, <2>3
      <4> HIDE DEF p, q
      <4>2. p = q
        BY <4>1, SentApart
      <4> QED BY <4>2 DEF p, q
    <3>2. reported[j] = reported[k]
      BY <1>4, <3>1
    <3>3. ~(j < k) /\ ~(k < j)
      <4>1. (j < k => reported[j] < reported[k]) /\ (k < j => reported[k] < reported[j])
        BY <1>2
      <4>2. reported[j] \in Int
        BY <1>4
      <4> QED BY <3>2, <4>1, <4>2
    <3> QED BY <1>3, <3>3
  <2>4. \A k \in Len(acks) + 1 .. Len(acks') : \E a \in fresh : acks'[k] = NumberOf(a)
    <3> SUFFICES ASSUME NEW q \in Len(acks) + 1 .. Len(acks')
                 PROVE  \E a \in fresh : acks'[q] = NumberOf(a)
      OBVIOUS
    <3>1. PICK k \in 1 .. count : q = Len(acks) + k
      BY <2>1
    <3> QED BY <1>4, <1>6, <3>1
  <2>5. \A a \in fresh : \E k \in Len(acks) + 1 .. Len(acks') : acks'[k] = NumberOf(a)
    <3> SUFFICES ASSUME NEW k \in 1 .. count
                 PROVE  \E q \in Len(acks) + 1 .. Len(acks') : acks'[q] = NumberOf(id[k])
      OBVIOUS
    <3>1. acks'[Len(acks) + k] = NumberOf(id[k])
      BY <1>4, <1>6
    <3> QED BY <2>2, <3>1
  <2>6. \A j, k \in Len(acks) + 1 .. Len(acks') : acks'[j] = acks'[k] => j = k
    <3> SUFFICES ASSUME NEW p \in Len(acks) + 1 .. Len(acks'),
                        NEW q \in Len(acks) + 1 .. Len(acks'), acks'[p] = acks'[q]
                 PROVE  p = q
      OBVIOUS
    <3>1. PICK j \in 1 .. count : p = Len(acks) + j
      BY <2>1
    <3>2. PICK k \in 1 .. count : q = Len(acks) + k
      BY <2>1
    <3>3. new[j] = new[k]
      BY <1>6, <3>1, <3>2
    <3> QED BY <2>3, <3>1, <3>2, <3>3
  <2> QED BY <2>4, <2>5, <2>6 DEF Appends
<1> QED BY <1>8, <1>9, <1>10, <1>11 DEF AcksOf, named, S

-----------------------------------------------------------------------------
(* What is in flight *)

\* A datagram of packet id carries its number and content from it.
LEMMA PartData ==
  ASSUME NEW d, NEW id \in Int, NEW content \in Seq(Byte), content # <<>>,
         NEW h \in Header, h.sequence = NumberOf(id), PartOf(d, id, content, h)
  PROVE  /\ d \in Datagram
         /\ \E k \in 1 .. Len(content) : d.content[1] = content[k]
         /\ (IF d.type = "regular" THEN d.header.sequence ELSE d.sequence) = NumberOf(id)
<1>1. CASE Len(content) <= FragmentAbove
  <2>1. d = [type |-> "regular", header |-> h, content |-> content]
    BY <1>1 DEF PartOf
  <2>2. 1 \in 1 .. Len(content)
    OBVIOUS
  <2> QED BY <2>1, <2>2 DEF Datagram
<1>2. CASE ~(Len(content) <= FragmentAbove)
  <2>1. PICK f \in 0 .. NumFragments(content) - 1 :
               d = [type |-> "fragment", sequence |-> NumberOf(id), fragment_id |-> f,
                    num_fragments |-> NumFragments(content),
                    header |-> IF f = 0 THEN h ELSE None, content |-> Piece(content, f)]
    BY <1>2 DEF PartOf
  <2>2. /\ NumFragments(content) \in Nat \ {0}
        /\ (NumFragments(content) - 1) * FragmentSize < Len(content)
    BY PiecesCover
  <2>3. f \in Nat /\ NumberOf(id) \in SequenceNumber
    BY <2>2, SequenceModulusAssumption DEF NumberOf, SequenceNumber
  <2> DEFINE offset == f * FragmentSize
             piece == Piece(content, f)
  <2>4. /\ offset \in Nat /\ Len(piece) \in Nat
        /\ offset + Len(piece) = Least(offset + FragmentSize, Len(content))
        /\ \A k \in 1 .. Len(piece) : piece[k] = content[offset + k]
    BY PieceContent
  <2>5. offset < Len(content) /\ FragmentSize \in Nat \ {0} /\ Len(content) \in Nat
    <3>1. FragmentSize \in Nat \ {0} /\ Len(content) \in Nat
      BY ConfigAssumption
    <3>2. CASE f = NumFragments(content) - 1
      BY <2>2, <3>1, <3>2
    <3>3. CASE f < NumFragments(content) - 1
      <4> DEFINE top == NumFragments(content) - 1
      <4>1. top \in Nat /\ f < top /\ top * FragmentSize < Len(content)
        BY <2>2, <2>3, <3>3
      <4> DEFINE upto == top * FragmentSize
      <4> HIDE DEF top
      <4>2. offset + FragmentSize <= upto /\ upto \in Nat
        BY <2>3, <3>1, <4>1, Pieces
      <4>3. upto < Len(content)
        BY <4>1
      <4> HIDE DEF upto, offset
      <4> QED BY <2>4, <3>1, <4>2, <4>3
    <3> QED BY <2>2, <2>3, <3>1, <3>2, <3>3
  <2>6. piece \in Seq(Byte)
    BY PieceLength
  <2> HIDE DEF offset, piece
  <2>7. 1 \in 1 .. Len(piece) /\ offset + 1 \in 1 .. Len(content)
    BY <2>4, <2>5 DEF Least
  <2>8. d.content[1] = content[offset + 1]
    BY <2>1, <2>4, <2>7 DEF piece
  <2>9. d \in Datagram
    BY <2>1, <2>2, <2>3, <2>6 DEF Datagram, piece
  <2> QED BY <2>1, <2>7, <2>8, <2>9
<1> QED BY <1>1, <1>2

\* send_packet transmits parts of the packet.
LEMMA TransmittedParts ==
  ASSUME NEW id, sequence = NumberOf(id), NEW content, NEW d \in Transmitted(content)
  PROVE  PartOf(d, id, content, NextHeader)
BY DEF Transmitted, PartOf
=============================================================================
