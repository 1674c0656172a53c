--------------------------- MODULE CEndpointProofs ---------------------------
(***************************************************************************)
(* Theorems about the C endpoint, for every configuration, number of       *)
(* blocks and set of datagrams.                                            *)
(*                                                                         *)
(* The first part is about its memory and windows, whatever arrives,       *)
(* whichever allocations fail and whatever the process callback calls,     *)
(* however deep.  The invariants are of the buffer of packets under        *)
(* reassembly and the heap (Memory), and every operation is shown to keep  *)
(* them for any endpoint, so that the theorems of Spec and of CallSpec     *)
(* rest on the same lemmas.                                                *)
(*                                                                         *)
(* The second part shows that it implements the port's specification, call *)
(* by call.  It follows the refinement mapping of CPort: each operation of *)
(* the C buffers is, under the mapping, the port's; a turn of the C ack    *)
(* loop is one more packet reported by the port's; and each handler of the *)
(* C endpoint is then the port's handler of the same datagram.             *)
(***************************************************************************)
EXTENDS CPort, CCallbackProperties, FiniteSetTheorems, SequenceTheorems, WellFoundedInduction,
        TLAPS

Buffers == Reassembly!BufferOf(ReassemblyData)

Heaps == [Blocks -> BlockContents \cup {Free, Corrupt}]

\* The block of slot i of buffer r.
Block(r, i) == r.entry_data[i].packet_data

\* Ownership, of any buffer and heap.
Owns(r, heap) ==
  /\ \A i \in Reassembly!Occupied(r) : Live(heap, Block(r, i))
  /\ \A i, j \in Reassembly!Occupied(r) : i # j => Block(r, i) # Block(r, j)
  /\ \A p \in Blocks : heap[p] = Free \/ \E i \in Reassembly!Occupied(r) : Block(r, i) = p
  /\ \A i \in Reassembly!Index \ Reassembly!Occupied(r) : Block(r, i) = NULL

\* An entry for packet s and its block agree: the fragments are counted as they
\* are marked, the block has room for all of them and for the packet, and it
\* holds the packet's header once the first one is there.
Agrees(data, block, s) ==
  /\ data.fragment_received \subseteq 0 .. data.num_fragments_total - 1
  /\ data.num_fragments_received = Cardinality(data.fragment_received)
  /\ 0 \in data.fragment_received <=> block.header # None
  /\ block.header # None => block.header.sequence = s
  /\ Len(block.data) = data.num_fragments_total * FragmentSize
  /\ data.packet_bytes <= Len(block.data)

\* The block of a slot is that of the slot's packet.
Belongs(r, heap) ==
  \A i \in Reassembly!Occupied(r) :
    Agrees(r.entry_data[i], heap[Block(r, i)], r.entry_sequence[i])

Memory(r, heap) == Owns(r, heap) /\ Belongs(r, heap)

\* Buffer t is r with the slots emptied and their pointers cleared.
Evicts(r, t, slots) ==
  \A i \in Reassembly!Index :
    IF i \in slots THEN t.entry_sequence[i] = None /\ Block(t, i) = NULL
    ELSE t.entry_sequence[i] = r.entry_sequence[i] /\ t.entry_data[i] = r.entry_data[i]

\* Heap h2 is h1 with the blocks of these slots freed.
Frees(r, h1, h2, slots) ==
  \A p \in Blocks :
    h2[p] = IF \E i \in slots : Block(r, i) = p THEN Free ELSE h1[p]

-----------------------------------------------------------------------------
(* Memory *)

\* An occupied slot is a slot.
LEMMA OccupiedIsIndex == \A r : Reassembly!Occupied(r) \subseteq Reassembly!Index
BY DEF Reassembly!Occupied

\* free_function is called once on a block of each slot, and on live ones only.
LEMMA FreesExactly ==
  ASSUME NEW e, e.fragment_reassembly \in Buffers, e.heap \in Heaps,
         Owns(e.fragment_reassembly, e.heap),
         NEW slots \in SUBSET Reassembly!Index
  PROVE  /\ FreePacketData(e, slots) \in Heaps
         /\ Frees(e.fragment_reassembly, e.heap, FreePacketData(e, slots), slots)
<1> DEFINE r == e.fragment_reassembly
           owners(p) == {i \in slots : r.entry_data[i].packet_data = p}
<1>1. ASSUME NEW p \in Blocks, owners(p) # {}
      PROVE  Cardinality(owners(p)) = 1 /\ Live(e.heap, p)
  <2>1. PICK i \in slots : Block(r, i) = p
    BY <1>1 DEF Block
  <2>2. \A j \in slots : Block(r, j) = p => j \in Reassembly!Occupied(r)
    BY MemoryAssumption DEF Owns
  <2>3. owners(p) = {i}
    BY <2>1, <2>2 DEF Owns, Block
  <2>4. Live(e.heap, p)
    BY <2>1, <2>2 DEF Owns
  <2> QED BY <2>3, <2>4, FS_Singleton
<1>2. ASSUME NEW p \in Blocks
      PROVE  FreePacketData(e, slots)[p] = IF owners(p) = {} THEN e.heap[p] ELSE Free
  BY <1>1 DEF FreePacketData
<1>3. FreePacketData(e, slots) \in Heaps
  <2>1. FreePacketData(e, slots) = [p \in Blocks |-> FreePacketData(e, slots)[p]]
    BY DEF FreePacketData
  <2>2. \A p \in Blocks : FreePacketData(e, slots)[p] \in BlockContents \cup {Free, Corrupt}
    BY <1>2 DEF Heaps
  <2> HIDE DEF owners
  <2> QED BY <2>1, <2>2 DEF Heaps
<1>4. Frees(r, e.heap, FreePacketData(e, slots), slots)
  BY <1>2 DEF Frees, Block
<1> QED BY <1>3, <1>4

\* Slots emptied and their blocks freed leave every other packet its block.
LEMMA EvictionKeepsMemory ==
  ASSUME NEW r \in Buffers, NEW t \in Buffers, NEW h1 \in Heaps, NEW h2 \in Heaps,
         Memory(r, h1), NEW slots \in SUBSET Reassembly!Index, NEW freed,
         freed \in SUBSET slots, Reassembly!Occupied(r) \cap slots \subseteq freed,
         Evicts(r, t, slots), Frees(r, h1, h2, freed)
  PROVE  /\ Memory(t, h2)
         /\ Reassembly!Occupied(t) = Reassembly!Occupied(r) \ slots
         /\ \A i \in Reassembly!Occupied(t) :
              Block(t, i) = Block(r, i) /\ h2[Block(t, i)] = h1[Block(r, i)]
<1>1. Reassembly!Occupied(t) = Reassembly!Occupied(r) \ slots
  BY DEF Reassembly!Occupied, Evicts
<1>2. \A i \in Reassembly!Occupied(t) :
        /\ i \in Reassembly!Index /\ i \in Reassembly!Occupied(r) /\ i \notin slots
        /\ t.entry_data[i] = r.entry_data[i] /\ t.entry_sequence[i] = r.entry_sequence[i]
        /\ Block(t, i) = Block(r, i)
  BY <1>1, OccupiedIsIndex DEF Evicts, Block
<1>3. ASSUME NEW i \in Reassembly!Occupied(t)
      PROVE  Block(r, i) \in Blocks /\ h2[Block(r, i)] = h1[Block(r, i)]
  <2>1. Live(h1, Block(r, i))
    BY <1>2 DEF Memory, Owns
  <2>2. ASSUME NEW j \in freed, Block(r, j) = Block(r, i) PROVE FALSE
    <3>1. j \in Reassembly!Index /\ j \in slots /\ j # i
      BY <1>2
    <3>2. j \in Reassembly!Occupied(r)
      BY <2>1, <2>2, <3>1, MemoryAssumption DEF Memory, Owns, Live
    <3> QED BY <1>2, <2>2, <3>1, <3>2 DEF Memory, Owns
  <2> QED BY <2>1, <2>2 DEF Live, Frees
<1>4. ASSUME NEW p \in Blocks, h2[p] # Free
      PROVE  \E i \in Reassembly!Occupied(t) : Block(t, i) = p
  <2>1. h1[p] # Free /\ \A i \in freed : Block(r, i) # p
    BY <1>4 DEF Frees
  <2>2. PICK i \in Reassembly!Occupied(r) : Block(r, i) = p
    BY <2>1 DEF Memory, Owns
  <2>3. i \in Reassembly!Occupied(t)
    BY <1>1, <2>1, <2>2
  <2> QED BY <1>2, <2>2, <2>3
<1>5. \A i \in Reassembly!Index \ Reassembly!Occupied(t) : Block(t, i) = NULL
  BY <1>1 DEF Evicts, Memory, Owns, Block
<1>6. \A i \in Reassembly!Occupied(t) : Live(h2, Block(t, i))
  BY <1>2, <1>3 DEF Memory, Owns, Live
<1>7. \A i, j \in Reassembly!Occupied(t) : i # j => Block(t, i) # Block(t, j)
  BY <1>2 DEF Memory, Owns
<1>8. Belongs(t, h2)
  BY <1>2, <1>3 DEF Memory, Belongs
<1> QED BY <1>1, <1>2, <1>3, <1>4, <1>5, <1>6, <1>7, <1>8 DEF Memory, Owns
-----------------------------------------------------------------------------
(* The operations of the reassembly buffer                                 *)

\* Where a window at q stands once it has seen s.
Moved(q, s) ==
  IF Reassembly!SequenceGreaterThan(Uint16(s + 1), q) THEN Uint16(s + 1) ELSE q

\* A number brought back into the number space is in it.
LEMMA Uint16Type == \A n \in Int : Uint16(n) \in SequenceNumber
BY ConfigAssumption DEF Uint16, SequenceNumber

\* The instances of the buffer speak of the endpoint's own numbers and slots.
LEMMA Instances ==
  /\ Sent!SequenceNumber = SequenceNumber
  /\ Received!SequenceNumber = SequenceNumber
  /\ Reassembly!SequenceNumber = SequenceNumber
  /\ \A n : Sent!Uint16(n) = Uint16(n)
  /\ \A n : Received!Uint16(n) = Uint16(n)
  /\ \A n : Reassembly!Uint16(n) = Uint16(n)
  /\ \A b, s : Sent!Ahead(b, s) <=> Reassembly!SequenceGreaterThan(Uint16(s + 1), b.sequence)
  /\ \A b, s : Received!Ahead(b, s) <=> Reassembly!SequenceGreaterThan(Uint16(s + 1), b.sequence)
  /\ \A b, s : Reassembly!Ahead(b, s) <=> Reassembly!SequenceGreaterThan(Uint16(s + 1), b.sequence)
  /\ \A s \in SequenceNumber : Sent!Slot(s) \in Sent!Index
  /\ \A s \in SequenceNumber : Received!Slot(s) \in Received!Index
  /\ \A s \in SequenceNumber : Reassembly!Slot(s) \in Reassembly!Index
<1>1. /\ Sent!SequenceNumber = SequenceNumber
      /\ Received!SequenceNumber = SequenceNumber
      /\ Reassembly!SequenceNumber = SequenceNumber
  BY DEF Sent!SequenceNumber, Received!SequenceNumber, Reassembly!SequenceNumber, SequenceNumber
<1>2. /\ \A n : Sent!Uint16(n) = Uint16(n)
      /\ \A n : Received!Uint16(n) = Uint16(n)
      /\ \A n : Reassembly!Uint16(n) = Uint16(n)
  BY DEF Sent!Uint16, Received!Uint16, Reassembly!Uint16, Uint16
<1>3. /\ \A x, y : Sent!SequenceGreaterThan(x, y) <=> Reassembly!SequenceGreaterThan(x, y)
      /\ \A x, y : Received!SequenceGreaterThan(x, y) <=> Reassembly!SequenceGreaterThan(x, y)
  BY DEF Sent!SequenceGreaterThan, Received!SequenceGreaterThan, Reassembly!SequenceGreaterThan
<1>4. /\ \A b, s : Sent!Ahead(b, s) <=> Reassembly!SequenceGreaterThan(Uint16(s + 1), b.sequence)
      /\ \A b, s : Received!Ahead(b, s) <=> Reassembly!SequenceGreaterThan(Uint16(s + 1), b.sequence)
      /\ \A b, s : Reassembly!Ahead(b, s) <=> Reassembly!SequenceGreaterThan(Uint16(s + 1), b.sequence)
  BY <1>2, <1>3 DEF Sent!Ahead, Received!Ahead, Reassembly!Ahead
<1>5. ASSUME NEW s \in SequenceNumber
      PROVE  /\ Sent!Slot(s) \in Sent!Index
             /\ Received!Slot(s) \in Received!Index
             /\ Reassembly!Slot(s) \in Reassembly!Index
  <2>1. s \in Int
    BY ConfigAssumption DEF SequenceNumber
  <2> QED BY <2>1, ConfigAssumption DEF Sent!Slot, Received!Slot, Reassembly!Slot,
             Sent!Index, Received!Index, Reassembly!Index
<1> QED BY <1>1, <1>2, <1>4, <1>5

\* A range of numbers spans slots of the buffer.
LEMMA SpannedIsIndex ==
  ASSUME NEW start \in SequenceNumber, NEW finish \in SequenceNumber
  PROVE  /\ Sent!Spanned(start, finish) \subseteq Sent!Index
         /\ Received!Spanned(start, finish) \subseteq Received!Index
         /\ Reassembly!Spanned(start, finish) \subseteq Reassembly!Index
<1>1. /\ start \in Int /\ finish \in Int /\ finish + SequenceModulus \in Int
  BY ConfigAssumption DEF SequenceNumber
<1>2. \A s \in Int : /\ Sent!Slot(s) \in Sent!Index
                     /\ Received!Slot(s) \in Received!Index
                     /\ Reassembly!Slot(s) \in Reassembly!Index
  BY ConfigAssumption DEF Sent!Slot, Received!Slot, Reassembly!Slot,
     Sent!Index, Received!Index, Reassembly!Index
<1>3. /\ \A s \in start .. finish : s \in Int
      /\ \A s \in start .. finish + SequenceModulus : s \in Int
  BY <1>1
<1> QED BY <1>2, <1>3 DEF Sent!Spanned, Received!Spanned, Reassembly!Spanned

\* Clearing an entry's pointer leaves its other fields.
LEMMA CleanupType ==
  ASSUME NEW data \in ReassemblyData
  PROVE  Cleanup(data) \in ReassemblyData /\ Cleanup(data).packet_data = NULL
BY DEF Cleanup, ReassemblyData

\* Slots emptied, or their data cleaned, leave a buffer.
LEMMA ReassemblyEmptied ==
  ASSUME NEW r \in Buffers, NEW slots \in SUBSET Reassembly!Index
  PROVE  /\ Reassembly!Emptied(r, slots) \in Buffers
         /\ Reassembly!Emptied(r, slots).sequence = r.sequence
         /\ Reassembly!Emptied(r, slots).entry_data = r.entry_data
         /\ \A i \in Reassembly!Index :
              Reassembly!Emptied(r, slots).entry_sequence[i] =
                IF i \in slots THEN None ELSE r.entry_sequence[i]
BY DEF Buffers, Reassembly!BufferOf, Reassembly!Emptied

\* Cleaning up slots empties them and leaves the rest of the window.
LEMMA ReassemblyCleaned ==
  ASSUME NEW r \in Buffers, NEW slots \in SUBSET Reassembly!Index
  PROVE  /\ Reassembly!Cleaned(r, slots) \in Buffers
         /\ Reassembly!Cleaned(r, slots).sequence = r.sequence
         /\ Reassembly!Cleaned(r, slots).entry_sequence = r.entry_sequence
         /\ \A i \in Reassembly!Index :
              Reassembly!Cleaned(r, slots).entry_data[i] =
                IF i \in slots THEN Cleanup(r.entry_data[i]) ELSE r.entry_data[i]
<1>1. r.entry_data \in [Reassembly!Index -> ReassemblyData]
  BY DEF Buffers, Reassembly!BufferOf
<1>2. [i \in Reassembly!Index |-> IF i \in slots THEN Cleanup(r.entry_data[i]) ELSE r.entry_data[i]]
        \in [Reassembly!Index -> ReassemblyData]
  BY <1>1, CleanupType
<1> QED BY <1>2 DEF Buffers, Reassembly!BufferOf, Reassembly!Cleaned

\* What advance does to the numbers; it leaves the data.
LEMMA ReassemblyAdvances ==
  ASSUME NEW r \in Buffers, NEW s \in SequenceNumber
  PROVE  /\ Reassembly!AdvanceCleans(r, s) \in SUBSET Reassembly!Index
         /\ Reassembly!Advance(r, s) \in Buffers
         /\ Reassembly!Advance(r, s).sequence = Moved(r.sequence, s)
         /\ Reassembly!Advance(r, s).entry_data = r.entry_data
         /\ \A i \in Reassembly!Index :
              Reassembly!Advance(r, s).entry_sequence[i] =
                IF i \in Reassembly!AdvanceCleans(r, s) THEN None ELSE r.entry_sequence[i]
<1> DEFINE cleans == Reassembly!AdvanceCleans(r, s)
           a == Reassembly!Advance(r, s)
<1>1. r.sequence \in SequenceNumber /\ s + 1 \in Int
  BY Instances, ConfigAssumption DEF Buffers, Reassembly!BufferOf, SequenceNumber
<1>2. cleans \in SUBSET Reassembly!Index
  BY <1>1, SpannedIsIndex DEF Reassembly!AdvanceCleans
<1>3. CASE Reassembly!Ahead(r, s)
  <2> DEFINE m == Reassembly!Emptied(r, Reassembly!Spanned(r.sequence, s))
  <2>1. cleans = Reassembly!Spanned(r.sequence, s)
    BY <1>3 DEF Reassembly!AdvanceCleans
  <2>2. a = [m EXCEPT !.sequence = Uint16(s + 1)] /\ Moved(r.sequence, s) = Uint16(s + 1)
    BY <1>3, Instances DEF Reassembly!Advance, Moved
  <2>3. /\ m \in Buffers /\ m.entry_data = r.entry_data
        /\ \A i \in Reassembly!Index :
             m.entry_sequence[i] = IF i \in cleans THEN None ELSE r.entry_sequence[i]
    BY <1>2, <2>1, ReassemblyEmptied
  <2>4. Uint16(s + 1) \in SequenceNumber
    BY <1>1, Uint16Type
  <2> HIDE DEF m, a
  <2> QED BY <1>2, <2>2, <2>3, <2>4, Instances DEF Buffers, Reassembly!BufferOf, a
<1>4. CASE ~Reassembly!Ahead(r, s)
  <2>1. cleans = {} /\ a = r /\ Moved(r.sequence, s) = r.sequence
    BY <1>4, Instances DEF Reassembly!AdvanceCleans, Reassembly!Advance, Moved
  <2> QED BY <2>1
<1> QED BY <1>3, <1>4

\* What advance_with_cleanup does.
LEMMA ReassemblyAdvanced ==
  ASSUME NEW r \in Buffers, NEW s \in SequenceNumber
  PROVE  /\ Reassembly!AdvanceWithCleanup(r, s) \in Buffers
         /\ Reassembly!AdvanceWithCleanup(r, s).sequence = Moved(r.sequence, s)
         /\ Reassembly!AdvanceCleans(r, s) \in SUBSET Reassembly!Index
         /\ Evicts(r, Reassembly!AdvanceWithCleanup(r, s), Reassembly!AdvanceCleans(r, s))
<1> DEFINE cleans == Reassembly!AdvanceCleans(r, s)
           a == Reassembly!Advance(r, s)
<1>1. /\ cleans \in SUBSET Reassembly!Index
      /\ a \in Buffers /\ a.sequence = Moved(r.sequence, s)
      /\ a.entry_data = r.entry_data
      /\ \A i \in Reassembly!Index :
           a.entry_sequence[i] = IF i \in cleans THEN None ELSE r.entry_sequence[i]
  BY ReassemblyAdvances
<1>2. Reassembly!AdvanceWithCleanup(r, s) = Reassembly!Cleaned(a, cleans)
  BY DEF Reassembly!AdvanceWithCleanup
<1> HIDE DEF a, cleans
<1>3. /\ Reassembly!Cleaned(a, cleans) \in Buffers
      /\ Reassembly!Cleaned(a, cleans).sequence = a.sequence
      /\ Reassembly!Cleaned(a, cleans).entry_sequence = a.entry_sequence
      /\ \A i \in Reassembly!Index :
           Reassembly!Cleaned(a, cleans).entry_data[i] =
             IF i \in cleans THEN Cleanup(a.entry_data[i]) ELSE a.entry_data[i]
  BY <1>1, ReassemblyCleaned
<1>4. \A i \in Reassembly!Index : Cleanup(a.entry_data[i]).packet_data = NULL
  BY <1>1, CleanupType DEF Buffers, Reassembly!BufferOf
<1>5. Evicts(r, Reassembly!Cleaned(a, cleans), cleans)
  BY <1>1, <1>3, <1>4 DEF Evicts, Block
<1> QED BY <1>1, <1>2, <1>3, <1>5 DEF cleans

\* What insert_with_cleanup does: it is the same but for the slot of s, which
\* is cleared whatever it held, and taken.
LEMMA ReassemblyInserted ==
  ASSUME NEW r \in Buffers, NEW s \in SequenceNumber, NEW heap, Owns(r, heap)
  PROVE  LET t == Reassembly!InsertWithCleanup(r, s)
             slots == Reassembly!AdvanceCleans(r, s) \cup {Reassembly!Slot(s)}
         IN  /\ t \in Buffers
             /\ t.sequence = Moved(r.sequence, s)
             /\ Reassembly!InsertCleans(r, s) \in SUBSET slots
             /\ Reassembly!Occupied(r) \cap slots \subseteq Reassembly!InsertCleans(r, s)
             /\ slots \in SUBSET Reassembly!Index
             /\ t.entry_sequence[Reassembly!Slot(s)] = s
             /\ Evicts(r, Reassembly!Emptied(t, {Reassembly!Slot(s)}), slots)
<1> DEFINE t == Reassembly!InsertWithCleanup(r, s)
           cleans == Reassembly!InsertCleans(r, s)
           i0 == Reassembly!Slot(s)
           slots == Reassembly!AdvanceCleans(r, s) \cup {i0}
           a == Reassembly!Advance(r, s)
           c == Reassembly!Cleaned(a, cleans)
<1>1. i0 \in Reassembly!Index /\ Reassembly!AdvanceCleans(r, s) \in SUBSET Reassembly!Index
  BY Instances, ReassemblyAdvanced
<1>2. cleans \in SUBSET slots /\ Reassembly!Occupied(r) \cap slots \subseteq cleans
  BY DEF Reassembly!InsertCleans
<1>3. slots \in SUBSET Reassembly!Index
  BY <1>1
<1>4. /\ a \in Buffers /\ a.sequence = Moved(r.sequence, s)
      /\ a.entry_data = r.entry_data
      /\ \A i \in Reassembly!Index :
           a.entry_sequence[i] =
             IF i \in Reassembly!AdvanceCleans(r, s) THEN None ELSE r.entry_sequence[i]
  BY ReassemblyAdvances
<1>5. t = Reassembly!Claim(c, s)
  BY DEF Reassembly!InsertWithCleanup
<1>6. /\ c \in Buffers /\ c.sequence = a.sequence /\ c.entry_sequence = a.entry_sequence
      /\ \A i \in Reassembly!Index :
           c.entry_data[i] = IF i \in cleans THEN Cleanup(a.entry_data[i]) ELSE a.entry_data[i]
  <2>1. cleans \in SUBSET Reassembly!Index
    BY <1>2, <1>3
  <2> HIDE DEF a, cleans
  <2> QED BY <1>4, <2>1, ReassemblyCleaned
<1> HIDE DEF a, c, cleans
<1>7. /\ t \in Buffers /\ t.sequence = c.sequence /\ t.entry_data = c.entry_data
      /\ t.entry_sequence = [c.entry_sequence EXCEPT ![i0] = s]
  BY <1>1, <1>5, <1>6, Instances DEF Reassembly!Claim, Buffers, Reassembly!BufferOf
<1>8. t.entry_sequence[i0] = s
  BY <1>1, <1>6, <1>7 DEF Buffers, Reassembly!BufferOf
<1>9. Evicts(r, Reassembly!Emptied(t, {i0}), slots)
  <2> DEFINE u == Reassembly!Emptied(t, {i0})
  <2>1. /\ u.entry_data = t.entry_data
        /\ \A i \in Reassembly!Index :
             u.entry_sequence[i] = IF i \in {i0} THEN None ELSE t.entry_sequence[i]
    <3>1. {i0} \in SUBSET Reassembly!Index
      BY <1>1
    <3> HIDE DEF i0, t
    <3> QED BY <1>7, <3>1, ReassemblyEmptied
  <2> HIDE DEF u, t, i0
  <2>2. ASSUME NEW i \in Reassembly!Index
        PROVE  /\ i \notin slots => u.entry_sequence[i] = r.entry_sequence[i]
               /\ i \in slots => u.entry_sequence[i] = None
    <3>1. i # i0 => t.entry_sequence[i] = c.entry_sequence[i]
      BY <1>6, <1>7 DEF Buffers, Reassembly!BufferOf
    <3> QED BY <2>1, <3>1, <1>4, <1>6
  <2>3. ASSUME NEW i \in Reassembly!Index
        PROVE  /\ i \notin slots => u.entry_data[i] = r.entry_data[i]
               /\ i \in slots => Block(u, i) = NULL
    <3>1. i \notin slots => u.entry_data[i] = r.entry_data[i]
      BY <1>2, <1>4, <1>6, <1>7, <2>1
    <3>2. CASE i \in cleans
      <4>1. r.entry_data[i] \in ReassemblyData
        BY DEF Buffers, Reassembly!BufferOf
      <4> QED BY <3>1, <3>2, <4>1, <1>4, <1>6, <1>7, <2>1, CleanupType DEF Block
    <3>3. CASE i \in slots /\ i \notin cleans
      <4>1. i \notin Reassembly!Occupied(r)
        BY <1>2, <3>3
      <4>2. Block(r, i) = NULL
        BY <4>1 DEF Owns
      <4> QED BY <3>3, <4>2, <1>4, <1>6, <1>7, <2>1 DEF Block
    <3> QED BY <3>1, <3>2, <3>3
  <2> QED BY <2>2, <2>3 DEF Evicts, u, i0
<1> QED BY <1>2, <1>3, <1>4, <1>6, <1>7, <1>8, <1>9 DEF cleans
-----------------------------------------------------------------------------
(* The other two buffers                                                   *)

SentBuffers == Sent!BufferOf(BOOLEAN)

ReceivedBuffers == Received!BufferOf({None})

\* A sent packet is entered, and its acked bit written.
LEMMA SentInserted ==
  ASSUME NEW b \in SentBuffers, NEW s \in SequenceNumber
  PROVE  Sent!Insert(b, s) \in SentBuffers
<1> DEFINE m == Sent!Emptied(b, Sent!Spanned(b.sequence, s))
           a == Sent!Advance(b, s)
<1>1. Uint16(s + 1) \in SequenceNumber
  BY Uint16Type, ConfigAssumption DEF SequenceNumber
<1>2. m \in SentBuffers
  BY DEF SentBuffers, Sent!BufferOf, Sent!Emptied
<1>3. a \in SentBuffers
  <2>1. a = [m EXCEPT !.sequence = Uint16(s + 1)] \/ a = b
    BY Instances DEF Sent!Advance
  <2> HIDE DEF m, a
  <2> QED BY <1>1, <1>2, <2>1, Instances DEF SentBuffers, Sent!BufferOf
<1>4. Sent!Insert(b, s) = Sent!Claim(a, s)
  BY DEF Sent!Insert
<1> HIDE DEF a
<1> QED BY <1>3, <1>4, Instances DEF Sent!Claim, SentBuffers, Sent!BufferOf

\* Writing an entry that is already claimed keeps the sent window well typed.
LEMMA SentWritten ==
  ASSUME NEW b \in SentBuffers, NEW s \in SequenceNumber, NEW acked \in BOOLEAN
  PROVE  Sent!Write(b, s, acked) \in SentBuffers
BY Instances DEF Sent!Write, SentBuffers, Sent!BufferOf

\* The received window advances, and a packet is entered in it.
LEMMA ReceivedAdvanced ==
  ASSUME NEW b \in ReceivedBuffers, NEW s \in SequenceNumber
  PROVE  /\ Received!Advance(b, s) \in ReceivedBuffers
         /\ Received!Advance(b, s).sequence = Moved(b.sequence, s)
<1> DEFINE m == Received!Emptied(b, Received!Spanned(b.sequence, s))
           a == Received!Advance(b, s)
<1>1. Uint16(s + 1) \in SequenceNumber
  BY Uint16Type, ConfigAssumption DEF SequenceNumber
<1>2. m \in ReceivedBuffers
  BY DEF ReceivedBuffers, Received!BufferOf, Received!Emptied
<1>3. CASE Received!Ahead(b, s)
  <2>1. a = [m EXCEPT !.sequence = Uint16(s + 1)] /\ Moved(b.sequence, s) = Uint16(s + 1)
    BY <1>3, Instances DEF Received!Advance, Moved
  <2> HIDE DEF m
  <2> QED BY <1>1, <1>2, <2>1, Instances DEF ReceivedBuffers, Received!BufferOf
<1>4. CASE ~Received!Ahead(b, s)
  BY <1>4, Instances DEF Received!Advance, Moved
<1> QED BY <1>3, <1>4

\* Inserting in the received window moves it as Moved says.
LEMMA ReceivedInserted ==
  ASSUME NEW b \in ReceivedBuffers, NEW s \in SequenceNumber
  PROVE  /\ Received!Insert(b, s) \in ReceivedBuffers
         /\ Received!Insert(b, s).sequence = Moved(b.sequence, s)
<1> DEFINE a == Received!Advance(b, s)
<1>1. a \in ReceivedBuffers /\ a.sequence = Moved(b.sequence, s)
  BY ReceivedAdvanced
<1>2. Received!Insert(b, s) = Received!Claim(a, s)
  BY DEF Received!Insert
<1> HIDE DEF a
<1> QED BY <1>1, <1>2, Instances DEF Received!Claim, ReceivedBuffers, Received!BufferOf

-----------------------------------------------------------------------------
(* Counters and the ack loop                                               *)

\* Counting keeps the counters below their modulus.
LEMMA CountersType ==
  ASSUME NEW c \in CountersOf, NEW names
  PROVE  Increment(c, names) \in CountersOf
BY CounterModulusAssumption DEF Increment, CountersOf

\* The fields no turn of the ack loop touches.
SameButAcks(e, f) ==
  /\ f.sequence = e.sequence /\ f.received_packets = e.received_packets
  /\ f.fragment_reassembly = e.fragment_reassembly /\ f.heap = e.heap

\* Counting changes nothing of an endpoint but its counters.
LEMMA Counted ==
  ASSUME NEW e \in Endpoints, NEW names
  PROVE  Count(e, names) \in Endpoints /\ SameButAcks(e, Count(e, names))
<1>1. Increment(e.counters, names) \in CountersOf
  BY CountersType DEF Endpoints
<1> QED BY <1>1 DEF Count, Endpoints, SameButAcks

\* One turn of the ack loop touches acks, counters and the sent window only.
LEMMA AckBitType ==
  ASSUME NEW e \in Endpoints, NEW h \in Headers, NEW i \in Nat
  PROVE  AckBit(e, h, i) \in Endpoints /\ SameButAcks(e, AckBit(e, h, i))
<1> DEFINE s == Uint16(h.ack - i)
           c == Count(e, {"num_packets_acked"})
           f == [c EXCEPT !.acks = Append(@, s), !.sent_packets = Sent!Write(@, s, TRUE)]
<1>1. AckBit(e, h, i) = e \/ AckBit(e, h, i) = f
  BY DEF AckBit
<1>2. s \in SequenceNumber
  BY Uint16Type, ConfigAssumption DEF Headers, SequenceNumber
<1>3. c \in Endpoints /\ SameButAcks(e, c)
  BY Counted
<1> HIDE DEF c, s
<1>4. Sent!Write(c.sent_packets, s, TRUE) \in SentBuffers /\ Append(c.acks, s) \in Seq(SequenceNumber)
  <2>1. c.sent_packets \in SentBuffers /\ c.acks \in Seq(SequenceNumber)
    BY <1>3 DEF Endpoints, SentBuffers
  <2>2. Append(c.acks, s) \in Seq(SequenceNumber)
    BY <1>2, <2>1
  <2> QED BY <1>2, <2>1, <2>2, SentWritten
<1>5. f \in Endpoints /\ SameButAcks(e, f)
  BY <1>3, <1>4 DEF Endpoints, SentBuffers, SameButAcks
<1>6. SameButAcks(e, e)
  BY DEF SameButAcks
<1> QED BY <1>1, <1>5, <1>6

\* Every non-empty set of natural numbers has a least element.
LEMMA LeastElement ==
  ASSUME NEW T \in SUBSET Nat, T # {}
  PROVE  \E x \in T : \A y \in T : x <= y
<1> DEFINE R == OpToRel(<, Nat)
<1>1. IsWellFoundedOn(R, Nat)
  BY NatLessThanWellFounded
<1>2. \A x, y \in Nat : <<x, y>> \in R <=> x < y
  BY DEF OpToRel
<1> HIDE DEF R
<1>3. PICK x \in T : \A y \in T : ~ (<<y, x>> \in R)
  BY <1>1, WFMin
<1>4. ASSUME NEW y \in T PROVE x <= y
  <2>1. x \in Nat /\ y \in Nat /\ ~(y < x)
    BY <1>2, <1>3
  <2> QED BY <2>1
<1> QED BY <1>4

\* Induction up to n, for the set of the numbers that have a property.
LEMMA InductionUpTo ==
  ASSUME NEW n \in Nat, NEW S, 0 \in S, \A k \in 0 .. n - 1 : k \in S => k + 1 \in S
  PROVE  n \in S
<1> SUFFICES ASSUME n \notin S PROVE FALSE
  OBVIOUS
<1> DEFINE T == {k \in 0 .. n : k \notin S}
<1>1. PICK x \in T : \A y \in T : x <= y
  <2>1. T \in SUBSET Nat /\ T # {}
    OBVIOUS
  <2> HIDE DEF T
  <2> QED BY <2>1, LeastElement
<1>2. x \in 0 .. n /\ x \notin S /\ x # 0
  OBVIOUS
<1>3. x - 1 \in 0 .. n - 1 /\ x - 1 \in 0 .. n /\ x - 1 + 1 = x /\ ~(x <= x - 1)
  BY <1>2
<1>4. x - 1 \in S
  BY <1>1, <1>3
<1> QED BY <1>2, <1>3, <1>4

\* f is what the first n turns of the ack loop make of endpoint e.
Turns(f, e, h, n) ==
  f = [i \in 0 .. n |-> IF i = 0 THEN e ELSE AckBit(f[i - 1], h, i - 1)]

\* The recursive definition of the turns defines a function.
LEMMA AckTurnsExist ==
  ASSUME NEW n \in Nat, NEW e, NEW h
  PROVE  \E f : Turns(f, e, h, n)
<1> DEFINE S == {k \in 0 .. n : \E f : Turns(f, e, h, k)}
<1>1. 0 \in S
  <2> DEFINE f == [i \in 0 .. 0 |-> e]
  <2>1. Turns(f, e, h, 0)
    BY DEF Turns
  <2> QED BY <2>1
<1>2. ASSUME NEW k \in 0 .. n - 1, k \in S PROVE k + 1 \in S
  <2>1. PICK f : Turns(f, e, h, k)
    BY <1>2
  <2> DEFINE g == [i \in 0 .. k + 1 |-> IF i = k + 1 THEN AckBit(f[k], h, k) ELSE f[i]]
  <2>2. ASSUME NEW i \in 0 .. k + 1
        PROVE  g[i] = IF i = 0 THEN e ELSE AckBit(g[i - 1], h, i - 1)
    <3>1. CASE i = k + 1
      BY <3>1
    <3>2. CASE i = 0
      BY <3>2, <2>1 DEF Turns
    <3>3. CASE i \in 1 .. k
      <4>1. f[i] = AckBit(f[i - 1], h, i - 1)
        BY <3>3, <2>1 DEF Turns
      <4>2. g[i] = f[i] /\ g[i - 1] = f[i - 1]
        BY <3>3
      <4> QED BY <4>1, <4>2, <3>3
    <3> QED BY <3>1, <3>2, <3>3
  <2>3. Turns(g, e, h, k + 1)
    <3>1. g = [i \in 0 .. k + 1 |-> g[i]]
      OBVIOUS
    <3> HIDE DEF g
    <3> QED BY <2>2, <3>1 DEF Turns
  <2>4. k + 1 \in 0 .. n
    OBVIOUS
  <2> QED BY <2>3, <2>4
<1> HIDE DEF S
<1>3. n \in S
  BY <1>1, <1>2, InductionUpTo
<1> QED BY <1>3 DEF S

\* The state after k + 1 turns of the ack loop is one turn from the state after k.
LEMMA AckTurnsStep ==
  ASSUME NEW e, NEW h
  PROVE  /\ AckTurns(e, h)[0] = e
         /\ \A k \in 0 .. AckBits - 1 : AckTurns(e, h)[k + 1] = AckBit(AckTurns(e, h)[k], h, k)
<1>1. AckBits \in Nat
  BY ConfigAssumption
<1>2. \E f : Turns(f, e, h, AckBits)
  BY <1>1, AckTurnsExist
<1>3. Turns(AckTurns(e, h), e, h, AckBits)
  BY <1>2 DEF AckTurns, Turns
<1>4. AckTurns(e, h)[0] = e
  BY <1>1, <1>3 DEF Turns
<1>5. ASSUME NEW k \in 0 .. AckBits - 1
      PROVE  AckTurns(e, h)[k + 1] = AckBit(AckTurns(e, h)[k], h, k)
  <2>1. ASSUME NEW f, Turns(f, e, h, AckBits)
        PROVE  f[k + 1] = AckBit(f[k], h, k)
    <3>1. \A i \in 1 .. AckBits : f[i] = AckBit(f[i - 1], h, i - 1)
      BY <1>1, <2>1 DEF Turns
    <3>2. \A i, j \in Int : i = j + 1 /\ i \in 1 .. AckBits => f[i] = AckBit(f[j], h, j)
      <4> SUFFICES ASSUME NEW i \in Int, NEW j \in Int, i = j + 1, i \in 1 .. AckBits
                   PROVE  f[i] = AckBit(f[j], h, j)
        OBVIOUS
      <4>1. i - 1 = j
        OBVIOUS
      <4> QED BY <3>1, <4>1
    <3> QED BY <1>1, <3>2
  <2> QED BY <1>3, <2>1
<1> QED BY <1>4, <1>5

\* The ack loop touches the acks, the sent packets and the counters.
LEMMA AckLoopType ==
  ASSUME NEW e \in Endpoints, NEW h \in Headers
  PROVE  AckLoop(e, h) \in Endpoints /\ SameButAcks(e, AckLoop(e, h))
<1> DEFINE turn == AckTurns(e, h)
           S == {k \in 0 .. AckBits : turn[k] \in Endpoints /\ SameButAcks(e, turn[k])}
<1>0. AckBits \in Nat
  BY ConfigAssumption
<1>1. 0 \in S
  BY <1>0, AckTurnsStep DEF SameButAcks
<1>2. ASSUME NEW k \in 0 .. AckBits - 1, k \in S PROVE k + 1 \in S
  <2>1. turn[k + 1] = AckBit(turn[k], h, k)
    BY AckTurnsStep
  <2>2. turn[k] \in Endpoints /\ SameButAcks(e, turn[k]) /\ k \in Nat /\ k + 1 \in 0 .. AckBits
    BY <1>0, <1>2
  <2> HIDE DEF turn
  <2>3. turn[k + 1] \in Endpoints /\ SameButAcks(turn[k], turn[k + 1])
    BY <2>1, <2>2, AckBitType
  <2> QED BY <2>2, <2>3 DEF SameButAcks
<1> HIDE DEF S
<1>3. AckBits \in S
  BY <1>0, <1>1, <1>2, InductionUpTo
<1> QED BY <1>3 DEF S, AckLoop
-----------------------------------------------------------------------------
(* The operations of the endpoint                                          *)

\* What every operation keeps.
Sound(e) ==
  /\ e \in Endpoints
  /\ Memory(e.fragment_reassembly, e.heap)
  /\ e.received_packets.sequence = e.fragment_reassembly.sequence

\* It says nothing of the acks.
LEMMA SoundButAcks ==
  ASSUME NEW e, NEW f \in Endpoints, Sound(e), SameButAcks(e, f)
  PROVE  Sound(f)
BY DEF Sound, SameButAcks

\* Counting keeps an endpoint sound.
LEMMA SoundCounted ==
  ASSUME NEW e, NEW names, Sound(e)
  PROVE  Sound(Count(e, names))
<1>1. Count(e, names) \in Endpoints /\ SameButAcks(e, Count(e, names))
  BY Counted DEF Sound
<1> QED BY <1>1, SoundButAcks

\* The parts of a sound endpoint, by name.
LEMMA SoundParts ==
  ASSUME NEW e, Sound(e)
  PROVE  /\ e.sequence \in SequenceNumber
         /\ e.acks \in Seq(SequenceNumber)
         /\ e.counters \in CountersOf
         /\ e.sent_packets \in SentBuffers
         /\ e.received_packets \in ReceivedBuffers
         /\ e.fragment_reassembly \in Buffers
         /\ e.heap \in Heaps
BY DEF Sound, Endpoints, SentBuffers, ReceivedBuffers, Buffers, Heaps

\* Endpoint e with other received packets, heap and packets under reassembly.
With(e, b, heap, r) ==
  [e EXCEPT !.received_packets = b, !.heap = heap, !.fragment_reassembly = r]

\* What putting a new window, heap and reassembly buffer in an endpoint returns.
LEMMA WithType ==
  ASSUME NEW e \in Endpoints, NEW b \in ReceivedBuffers, NEW heap \in Heaps, NEW r \in Buffers
  PROVE  /\ With(e, b, heap, r) \in Endpoints
         /\ With(e, b, heap, r).received_packets = b
         /\ With(e, b, heap, r).heap = heap
         /\ With(e, b, heap, r).fragment_reassembly = r
         /\ With(e, b, heap, r).sequence = e.sequence
         /\ With(e, b, heap, r).acks = e.acks
         /\ With(e, b, heap, r).counters = e.counters
         /\ With(e, b, heap, r).sent_packets = e.sent_packets
BY DEF With, Endpoints, ReceivedBuffers, Buffers, Heaps

\* A new endpoint owns nothing.
LEMMA SoundCreated == Sound(Created)
<1>1. ZeroReassembly \in ReassemblyData /\ ZeroReassembly.packet_data = NULL
  BY DEF ZeroReassembly, ReassemblyData
<1>2. 0 \in SequenceNumber
  BY ConfigAssumption DEF SequenceNumber
<1>3. Sent!Create \in SentBuffers
  BY <1>2, Instances DEF Sent!Create, SentBuffers, Sent!BufferOf
<1>4. Received!Create \in ReceivedBuffers /\ Received!Create.sequence = 0
  BY <1>2, Instances DEF Received!Create, ReceivedBuffers, Received!BufferOf
<1>5. /\ Reassembly!Create \in Buffers /\ Reassembly!Create.sequence = 0
      /\ \A i \in Reassembly!Index :
           /\ Reassembly!Create.entry_sequence[i] = None
           /\ Block(Reassembly!Create, i) = NULL
  <2> HIDE DEF ZeroReassembly
  <2> QED BY <1>1, <1>2, Instances DEF Reassembly!Create, Buffers, Reassembly!BufferOf, Block
<1>6. ZeroCounters \in CountersOf
  BY CounterModulusAssumption DEF ZeroCounters, CountersOf
<1>7. [p \in Blocks |-> Free] \in Heaps
  BY DEF Heaps
<1>8. Created \in Endpoints
  BY <1>2, <1>3, <1>4, <1>5, <1>6, <1>7
     DEF Created, Endpoints, SentBuffers, ReceivedBuffers, Buffers, Heaps
<1>9. Reassembly!Occupied(Reassembly!Create) = {}
  BY <1>5 DEF Reassembly!Occupied
<1>10. Memory(Reassembly!Create, [p \in Blocks |-> Free])
  BY <1>5, <1>9 DEF Memory, Owns, Belongs
<1> QED BY <1>4, <1>5, <1>8, <1>10 DEF Sound, Created

\* An accepted packet moves both windows; what falls out of the reassembly
\* window is freed.
LEMMA SoundAccepted ==
  ASSUME NEW e, NEW h \in Headers, Sound(e),
         Received!TestInsert(e.received_packets, h.sequence)
  PROVE  Sound(Accept(e, h))
<1> DEFINE s == h.sequence
           r == e.fragment_reassembly
           t == Reassembly!AdvanceWithCleanup(r, s)
           cleans == Reassembly!AdvanceCleans(r, s)
           heap == FreePacketData(e, cleans)
           b == Received!Insert(e.received_packets, s)
           f == With(e, b, heap, t)
<1>1. s \in SequenceNumber
  BY DEF Headers
<1>2. r \in Buffers /\ e.heap \in Heaps /\ Memory(r, e.heap)
  BY SoundParts DEF Sound
<1>3. /\ t \in Buffers /\ t.sequence = Moved(r.sequence, s)
      /\ cleans \in SUBSET Reassembly!Index /\ Evicts(r, t, cleans)
  BY <1>1, <1>2, ReassemblyAdvanced
<1>4. heap \in Heaps /\ Frees(r, e.heap, heap, cleans)
  BY <1>2, <1>3, FreesExactly DEF Memory
<1>5. b \in ReceivedBuffers /\ b.sequence = Moved(e.received_packets.sequence, s)
  BY <1>1, SoundParts, ReceivedInserted
<1>6. Accept(e, h) = AckLoop(f, h)
  BY DEF Accept, With
<1> HIDE DEF t, cleans, heap, b
<1>7. Memory(t, heap)
  BY <1>2, <1>3, <1>4, EvictionKeepsMemory
<1>8. Sound(f)
  <2>1. /\ f \in Endpoints
        /\ f.received_packets = b /\ f.heap = heap /\ f.fragment_reassembly = t
    BY <1>3, <1>4, <1>5, WithType DEF Sound
  <2> HIDE DEF f
  <2> QED BY <1>3, <1>5, <1>7, <2>1 DEF Sound
<1> HIDE DEF f
<1>9. AckLoop(f, h) \in Endpoints /\ SameButAcks(f, AckLoop(f, h))
  BY <1>8, AckLoopType DEF Sound
<1> QED BY <1>6, <1>8, <1>9, SoundButAcks

\* What remove_with_cleanup does, when an empty slot has no block.
LEMMA ReassemblyRemoved ==
  ASSUME NEW r \in Buffers, NEW s \in SequenceNumber, NEW heap, Owns(r, heap)
  PROVE  /\ Reassembly!RemoveWithCleanup(r, s) \in Buffers
         /\ Reassembly!RemoveWithCleanup(r, s).sequence = r.sequence
         /\ Reassembly!RemoveCleans(r, s) \in SUBSET Reassembly!Index
         /\ Reassembly!RemoveCleans(r, s) = {Reassembly!Slot(s)} \cap Reassembly!Occupied(r)
         /\ Evicts(r, Reassembly!RemoveWithCleanup(r, s), {Reassembly!Slot(s)})
<1> DEFINE cleans == Reassembly!RemoveCleans(r, s)
           m == Reassembly!Emptied(r, cleans)
           t == Reassembly!Cleaned(m, cleans)
<1>1. cleans = {Reassembly!Slot(s)} \cap Reassembly!Occupied(r) /\ cleans \in SUBSET Reassembly!Index
  BY OccupiedIsIndex DEF Reassembly!RemoveCleans
<1>2. /\ m \in Buffers /\ m.sequence = r.sequence /\ m.entry_data = r.entry_data
      /\ \A i \in Reassembly!Index :
           m.entry_sequence[i] = IF i \in cleans THEN None ELSE r.entry_sequence[i]
  BY <1>1, ReassemblyEmptied
<1> HIDE DEF m
<1>3. /\ t \in Buffers /\ t.sequence = m.sequence /\ t.entry_sequence = m.entry_sequence
      /\ \A i \in Reassembly!Index :
           t.entry_data[i] = IF i \in cleans THEN Cleanup(m.entry_data[i]) ELSE m.entry_data[i]
  BY <1>1, <1>2, ReassemblyCleaned
<1>4. Reassembly!RemoveWithCleanup(r, s) = t
  BY DEF Reassembly!RemoveWithCleanup, m
<1> HIDE DEF t
<1>5. ASSUME NEW i \in Reassembly!Index
      PROVE  IF i \in {Reassembly!Slot(s)} THEN t.entry_sequence[i] = None /\ Block(t, i) = NULL
             ELSE t.entry_sequence[i] = r.entry_sequence[i] /\ t.entry_data[i] = r.entry_data[i]
  <2>1. CASE i \in cleans
    <3>1. r.entry_data[i] \in ReassemblyData
      BY DEF Buffers, Reassembly!BufferOf
    <3> QED BY <1>1, <1>2, <1>3, <2>1, <3>1, CleanupType DEF Block
  <2>2. CASE i = Reassembly!Slot(s) /\ i \notin cleans
    <3>1. i \notin Reassembly!Occupied(r)
      BY <1>1, <2>2
    <3>2. Block(r, i) = NULL /\ r.entry_sequence[i] = None
      BY <3>1 DEF Owns, Reassembly!Occupied
    <3> QED BY <1>2, <1>3, <2>2, <3>2 DEF Block
  <2>3. CASE i # Reassembly!Slot(s)
    BY <1>1, <1>2, <1>3, <2>3
  <2> QED BY <2>1, <2>2, <2>3
<1>6. Evicts(r, t, {Reassembly!Slot(s)})
  BY <1>5 DEF Evicts
<1> QED BY <1>1, <1>2, <1>3, <1>4, <1>6

\* A completed packet's entry is removed and its block freed.
LEMMA SoundLeft ==
  ASSUME NEW e, NEW s \in SequenceNumber, Sound(e)
  PROVE  Sound(Leave(e, s))
<1> DEFINE r == e.fragment_reassembly
           t == Reassembly!RemoveWithCleanup(r, s)
           cleans == Reassembly!RemoveCleans(r, s)
           heap == FreePacketData(e, cleans)
           f == With(e, e.received_packets, heap, t)
<1>1. r \in Buffers /\ e.heap \in Heaps /\ Memory(r, e.heap) /\ e.received_packets \in ReceivedBuffers
  BY SoundParts DEF Sound
<1>2. /\ t \in Buffers /\ t.sequence = r.sequence
      /\ cleans \in SUBSET Reassembly!Index
      /\ cleans = {Reassembly!Slot(s)} \cap Reassembly!Occupied(r)
      /\ Evicts(r, t, {Reassembly!Slot(s)})
  BY <1>1, ReassemblyRemoved DEF Memory
<1>3. heap \in Heaps /\ Frees(r, e.heap, heap, cleans)
  BY <1>1, <1>2, FreesExactly DEF Memory
<1>4. Leave(e, s) = Count(f, {"num_fragments_received"})
  BY DEF Leave, Sound, Endpoints, With
<1> HIDE DEF t, cleans, heap
<1>5. Memory(t, heap)
  <2>1. {Reassembly!Slot(s)} \in SUBSET Reassembly!Index
    BY Instances
  <2> QED BY <1>1, <1>2, <1>3, <2>1, EvictionKeepsMemory
<1>6. Sound(f)
  <2>1. /\ f \in Endpoints
        /\ f.received_packets = e.received_packets /\ f.heap = heap /\ f.fragment_reassembly = t
    BY <1>1, <1>2, <1>3, WithType DEF Sound
  <2> HIDE DEF f
  <2> QED BY <1>2, <1>5, <2>1 DEF Sound
<1> HIDE DEF f
<1> QED BY <1>4, <1>6, SoundCounted

\* The fields of a fragment.
LEMMA FragmentType ==
  ASSUME NEW d \in Datagrams, d.type = "fragment"
  PROVE  /\ d.sequence \in SequenceNumber /\ d.sequence # None
         /\ d.fragment_id \in Nat /\ d.num_fragments \in Nat \ {0}
         /\ d.header \in Headers \cup {None} /\ d.content \in Seq(Byte)
         /\ Reassembly!Slot(d.sequence) \in Reassembly!Index
<1>1. d \in Datagram
  BY DataAssumption
<1>2. /\ d.sequence \in SequenceNumber /\ d.fragment_id \in Nat
      /\ d.num_fragments \in Nat \ {0}
      /\ d.header \in Headers \cup {None} /\ d.content \in Seq(Byte)
  BY <1>1 DEF Datagram
<1> QED BY <1>2, DataAssumption, Instances

\* An entry opened for a fragment: both windows have moved, and but for that
\* entry, which has no block yet, memory is as it should be.
LEMMA OpenedMemory ==
  ASSUME NEW e, NEW d \in Datagrams, d.type = "fragment", Sound(e)
  PROVE  LET o == Opened(e, d)
         IN  /\ o \in Endpoints
             /\ o.received_packets.sequence = o.fragment_reassembly.sequence
             /\ o.fragment_reassembly.entry_sequence[Reassembly!Slot(d.sequence)] = d.sequence
             /\ Memory(Reassembly!Emptied(o.fragment_reassembly, {Reassembly!Slot(d.sequence)}),
                       o.heap)
<1> DEFINE s == d.sequence
           r == e.fragment_reassembly
           i0 == Reassembly!Slot(s)
           t == Reassembly!InsertWithCleanup(r, s)
           u == Reassembly!Emptied(t, {i0})
           slots == Reassembly!AdvanceCleans(r, s) \cup {i0}
           cleans == Reassembly!InsertCleans(r, s)
           heap == FreePacketData(e, cleans)
           b == Received!Advance(e.received_packets, s)
           f == With(e, b, heap, t)
<1>1. s \in SequenceNumber /\ i0 \in Reassembly!Index
  BY FragmentType
<1>2. /\ e \in Endpoints /\ r \in Buffers /\ e.heap \in Heaps /\ Memory(r, e.heap)
      /\ e.received_packets \in ReceivedBuffers
      /\ e.received_packets.sequence = r.sequence
  BY SoundParts DEF Sound
<1>3. /\ t \in Buffers /\ t.sequence = Moved(r.sequence, s)
      /\ cleans \in SUBSET slots /\ Reassembly!Occupied(r) \cap slots \subseteq cleans
      /\ slots \in SUBSET Reassembly!Index
      /\ t.entry_sequence[i0] = s
      /\ Evicts(r, u, slots)
  BY <1>1, <1>2, ReassemblyInserted DEF Memory
<1>4. heap \in Heaps /\ Frees(r, e.heap, heap, cleans)
  BY <1>2, <1>3, FreesExactly DEF Memory
<1>5. b \in ReceivedBuffers /\ b.sequence = Moved(r.sequence, s)
  BY <1>1, <1>2, ReceivedAdvanced
<1>6. Opened(e, d) = f
  BY <1>2 DEF Opened, With, Endpoints
<1> HIDE DEF t, cleans, heap, b, slots, i0
<1>7. u \in Buffers
  BY <1>1, <1>3, ReassemblyEmptied
<1>8. Memory(u, heap)
  BY <1>2, <1>3, <1>4, <1>7, EvictionKeepsMemory
<1>9. /\ f \in Endpoints
      /\ f.received_packets = b /\ f.heap = heap /\ f.fragment_reassembly = t
  BY <1>2, <1>3, <1>4, <1>5, WithType
<1> HIDE DEF f
<1> QED BY <1>3, <1>5, <1>6, <1>8, <1>9 DEF i0

\* A free block given to the empty slot of packet s.
LEMMA ClaimKeepsMemory ==
  ASSUME NEW r \in Buffers, NEW t \in Buffers, NEW heap \in Heaps, Memory(r, heap),
         NEW i0 \in Reassembly!Index, NEW s \in SequenceNumber, NEW p \in Blocks,
         NEW contents \in BlockContents,
         r.entry_sequence[i0] = None, heap[p] = Free,
         t.entry_sequence[i0] = s, Block(t, i0) = p, Agrees(t.entry_data[i0], contents, s),
         \A i \in Reassembly!Index \ {i0} :
           t.entry_sequence[i] = r.entry_sequence[i] /\ t.entry_data[i] = r.entry_data[i]
  PROVE  /\ [heap EXCEPT ![p] = contents] \in Heaps
         /\ Memory(t, [heap EXCEPT ![p] = contents])
<1> DEFINE h2 == [heap EXCEPT ![p] = contents]
<1>1. s # None
  BY DataAssumption
<1>2. h2 \in Heaps /\ h2[p] = contents /\ \A q \in Blocks \ {p} : h2[q] = heap[q]
  BY DEF Heaps
<1>3. Live(h2, p) /\ ~Live(heap, p)
  BY <1>2, MemoryAssumption DEF Live
<1> HIDE DEF h2
<1>4. Reassembly!Occupied(t) = Reassembly!Occupied(r) \cup {i0} /\ i0 \notin Reassembly!Occupied(r)
  BY <1>1 DEF Reassembly!Occupied
<1>5. ASSUME NEW i \in Reassembly!Occupied(r)
      PROVE  /\ Block(t, i) = Block(r, i) /\ Block(r, i) \in Blocks \ {p}
             /\ Live(heap, Block(r, i)) /\ t.entry_sequence[i] = r.entry_sequence[i]
             /\ t.entry_data[i] = r.entry_data[i]
             /\ h2[Block(r, i)] = heap[Block(r, i)]
  <2>1. i \in Reassembly!Index \ {i0}
    BY <1>4, OccupiedIsIndex
  <2>2. Live(heap, Block(r, i))
    BY DEF Memory, Owns
  <2>3. Block(r, i) \in Blocks \ {p}
    BY <1>3, <2>2 DEF Live
  <2> QED BY <1>2, <2>1, <2>2, <2>3 DEF Block
<1>6. \A i \in Reassembly!Occupied(t) : Live(h2, Block(t, i))
  BY <1>3, <1>4, <1>5 DEF Live
<1>7. \A i, j \in Reassembly!Occupied(t) : i # j => Block(t, i) # Block(t, j)
  <2>1. \A i, j \in Reassembly!Occupied(r) : i # j => Block(t, i) # Block(t, j)
    BY <1>5 DEF Memory, Owns
  <2>2. \A i \in Reassembly!Occupied(r) : Block(t, i) # Block(t, i0)
    BY <1>5
  <2> QED BY <1>4, <2>1, <2>2
<1>8. ASSUME NEW q \in Blocks, h2[q] # Free
      PROVE  \E i \in Reassembly!Occupied(t) : Block(t, i) = q
  <2>1. CASE q = p
    BY <1>4, <2>1
  <2>2. CASE q # p
    <3>1. PICK i \in Reassembly!Occupied(r) : Block(r, i) = q
      BY <1>2, <1>8, <2>2 DEF Memory, Owns
    <3> QED BY <1>4, <1>5, <3>1
  <2> QED BY <2>1, <2>2
<1>9. \A i \in Reassembly!Index \ Reassembly!Occupied(t) : Block(t, i) = NULL
  <2>1. \A i \in Reassembly!Index \ Reassembly!Occupied(t) :
          i \in Reassembly!Index \ {i0} /\ i \notin Reassembly!Occupied(r)
    BY <1>4
  <2> QED BY <2>1 DEF Memory, Owns, Block
<1>10. Belongs(t, h2)
  <2>1. Agrees(t.entry_data[i0], h2[Block(t, i0)], t.entry_sequence[i0])
    BY <1>2
  <2>2. \A i \in Reassembly!Occupied(r) :
          Agrees(t.entry_data[i], h2[Block(t, i)], t.entry_sequence[i])
    BY <1>5 DEF Memory, Belongs
  <2> QED BY <1>4, <2>1, <2>2 DEF Belongs
<1>11. Owns(t, h2)
  BY <1>6, <1>7, <1>8, <1>9 DEF Owns
<1> QED BY <1>2, <1>10, <1>11 DEF Memory, h2

\* Memory says nothing of an empty slot's data but the pointer.
LEMMA SameMemory ==
  ASSUME NEW r, NEW t, NEW heap, Memory(r, heap),
         \A i \in Reassembly!Index :
           t.entry_sequence[i] = r.entry_sequence[i] /\ Block(t, i) = Block(r, i),
         \A i \in Reassembly!Occupied(r) : t.entry_data[i] = r.entry_data[i]
  PROVE  Memory(t, heap)
<1>1. Reassembly!Occupied(t) = Reassembly!Occupied(r)
  BY DEF Reassembly!Occupied
<1>2. \A i \in Reassembly!Occupied(r) :
        /\ t.entry_sequence[i] = r.entry_sequence[i] /\ Block(t, i) = Block(r, i)
        /\ t.entry_data[i] = r.entry_data[i]
  BY OccupiedIsIndex
<1>3. Owns(t, heap)
  BY <1>1, <1>2 DEF Memory, Owns
<1>4. Belongs(t, heap)
  BY <1>1, <1>2 DEF Memory, Belongs
<1> QED BY <1>3, <1>4 DEF Memory

\* What writing an entry of the reassembly buffer does.
LEMMA ReassemblyWritten ==
  ASSUME NEW r \in Buffers, NEW s \in SequenceNumber, NEW data \in ReassemblyData
  PROVE  LET t == Reassembly!Write(r, s, data)
             i0 == Reassembly!Slot(s)
         IN  /\ t \in Buffers
             /\ t.sequence = r.sequence /\ t.entry_sequence = r.entry_sequence
             /\ t.entry_data[i0] = data
             /\ \A i \in Reassembly!Index \ {i0} : t.entry_data[i] = r.entry_data[i]
<1>1. Reassembly!Slot(s) \in Reassembly!Index
  BY Instances
<1> QED BY <1>1 DEF Reassembly!Write, Buffers, Reassembly!BufferOf

\* The entry of an allocated fragment holds the block; the others are as the
\* The block a new entry is given, zeroed.
NewBlock(d) ==
  [header |-> None, data |-> [k \in 1 .. d.num_fragments * FragmentSize |-> Blank]]

\* Endpoint f is o with the opened entry of fragment d's packet begun, in block p.
Begins(o, f, d, p) ==
  LET i0 == Reassembly!Slot(d.sequence)
      data == f.fragment_reassembly.entry_data[i0]
  IN  /\ f.sequence = o.sequence /\ f.sent_packets = o.sent_packets /\ f.acks = o.acks
      /\ f.counters = o.counters /\ f.received_packets = o.received_packets
      /\ f.fragment_reassembly.sequence = o.fragment_reassembly.sequence
      /\ f.fragment_reassembly.entry_sequence = o.fragment_reassembly.entry_sequence
      /\ data.packet_data = p /\ data.packet_bytes = 0
      /\ data.num_fragments_received = 0 /\ data.num_fragments_total = d.num_fragments
      /\ data.fragment_received = {}
      /\ \A i \in Reassembly!Index \ {i0} :
           f.fragment_reassembly.entry_data[i] = o.fragment_reassembly.entry_data[i]
      /\ f.heap[p] = NewBlock(d)
      /\ \A q \in Blocks \ {p} : f.heap[q] = o.heap[q]

\* Endpoint f is o with the opened entry of fragment d's packet given up.
GivesUp(o, f, d) ==
  LET u == Reassembly!Emptied(o.fragment_reassembly, {Reassembly!Slot(d.sequence)})
  IN  /\ f.sequence = o.sequence /\ f.sent_packets = o.sent_packets /\ f.acks = o.acks
      /\ f.counters = Increment(o.counters, {"num_fragments_invalid"})
      /\ f.received_packets = o.received_packets /\ f.heap = o.heap
      /\ f.fragment_reassembly.sequence = o.fragment_reassembly.sequence
      /\ \A i \in Reassembly!Index :
           f.fragment_reassembly.entry_sequence[i] = u.entry_sequence[i]
      /\ \A i \in Reassembly!Occupied(u) :
           f.fragment_reassembly.entry_data[i] = u.entry_data[i]

\* opening left them.
LEMMA SoundAllocated ==
  ASSUME NEW e, NEW d \in Datagrams, d.type = "fragment", Sound(e),
         NEW p \in Blocks, Opened(e, d).heap[p] = Free
  PROVE  LET f == Allocated(e, d, p)
         IN  /\ Sound(f) /\ HasEntry(f, d) /\ ~Mismatched(f, d) /\ ~AlreadyStored(f, d)
             /\ Begins(Opened(e, d), f, d, p)
<1> DEFINE s == d.sequence
           i0 == Reassembly!Slot(s)
           o == Opened(e, d)
           r == o.fragment_reassembly
           contents == [header |-> None,
                        data |-> [k \in 1 .. d.num_fragments * FragmentSize |-> Blank]]
           data == [Begin(Reassembly!Find(r, s), d, p) EXCEPT
                      !.packet_bytes = 0, !.packet_header_bytes = 0, !.fragment_received = {}]
           heap == [o.heap EXCEPT ![p] = contents]
           t == Reassembly!Write(r, s, data)
           u == Reassembly!Emptied(r, {i0})
           f == With(o, o.received_packets, heap, t)
<1>1. s \in SequenceNumber /\ i0 \in Reassembly!Index /\ d.num_fragments \in Nat \ {0}
  BY FragmentType
<1>2. /\ o \in Endpoints /\ o.received_packets.sequence = r.sequence
      /\ r.entry_sequence[i0] = s /\ Memory(u, o.heap)
  BY OpenedMemory
<1>3. /\ r \in Buffers /\ o.heap \in Heaps /\ o.received_packets \in ReceivedBuffers
  BY <1>2 DEF Endpoints, Buffers, Heaps, ReceivedBuffers
<1>4. /\ contents \in BlockContents /\ contents.header = None
      /\ Len(contents.data) = d.num_fragments * FragmentSize
  <2> DEFINE size == d.num_fragments * FragmentSize
             zeros == [k \in 1 .. size |-> Blank]
  <2>1. size \in Nat
    BY <1>1, ConfigAssumption
  <2>2. contents = [header |-> None, data |-> zeros]
    OBVIOUS
  <2> HIDE DEF size, contents
  <2>3. zeros \in Seq(Byte) /\ Len(zeros) = size
    BY <2>1, DataAssumption
  <2> QED BY <2>2, <2>3 DEF BlockContents, size
<1>5. /\ data \in ReassemblyData /\ data.packet_data = p
      /\ data.num_fragments_received = 0 /\ data.fragment_received = {}
      /\ data.num_fragments_total = d.num_fragments /\ data.packet_bytes = 0
  <2>1. Reassembly!Find(r, s) \in ReassemblyData
    BY <1>1, <1>3 DEF Reassembly!Find, Buffers, Reassembly!BufferOf
  <2> QED BY <1>1, <2>1 DEF Begin, ReassemblyData
<1>6. Allocated(e, d, p) = f
  BY <1>2 DEF Allocated, With, Endpoints
<1> HIDE DEF contents, data, o
<1>7. /\ t \in Buffers /\ t.sequence = r.sequence /\ t.entry_sequence = r.entry_sequence
      /\ t.entry_data[i0] = data
      /\ \A i \in Reassembly!Index \ {i0} : t.entry_data[i] = r.entry_data[i]
  BY <1>1, <1>3, <1>5, ReassemblyWritten
<1>8. /\ u \in Buffers /\ u.entry_data = r.entry_data
      /\ \A i \in Reassembly!Index :
           u.entry_sequence[i] = IF i \in {i0} THEN None ELSE r.entry_sequence[i]
  <2>1. {i0} \in SUBSET Reassembly!Index
    BY <1>1
  <2> HIDE DEF i0
  <2> QED BY <1>3, <2>1, ReassemblyEmptied
<1> HIDE DEF t, u, i0
<1>9. heap \in Heaps /\ Memory(t, heap)
  <2>1. /\ u.entry_sequence[i0] = None /\ o.heap[p] = Free
        /\ t.entry_sequence[i0] = s /\ Block(t, i0) = p
    BY <1>1, <1>2, <1>5, <1>7, <1>8 DEF Block, o
  <2>2. \A i \in Reassembly!Index \ {i0} :
          t.entry_sequence[i] = u.entry_sequence[i] /\ t.entry_data[i] = u.entry_data[i]
    BY <1>7, <1>8
  <2>3. Agrees(t.entry_data[i0], contents, s)
    <3>1. d.num_fragments * FragmentSize >= 0
      BY <1>1, ConfigAssumption
    <3> QED BY <3>1, <1>4, <1>5, <1>7, FS_EmptySet DEF Agrees
  <2> QED BY <1>1, <1>2, <1>3, <1>4, <1>7, <1>8, <2>1, <2>2, <2>3, ClaimKeepsMemory
<1> HIDE DEF heap
<1>10. /\ f \in Endpoints
       /\ f.received_packets = o.received_packets /\ f.heap = heap /\ f.fragment_reassembly = t
  BY <1>2, <1>3, <1>7, <1>9, WithType
<1> HIDE DEF f
<1>11. Sound(f)
  BY <1>2, <1>7, <1>9, <1>10 DEF Sound
<1>12. HasEntry(f, d)
  BY <1>2, <1>7, <1>10 DEF HasEntry, Reassembly!Exists, i0
<1>13. ~Mismatched(f, d) /\ ~AlreadyStored(f, d)
  BY <1>5, <1>7, <1>10 DEF Mismatched, AlreadyStored, Reassembly!Find, i0
<1>14. Begins(o, f, d, p)
  <2>1. /\ f.sequence = o.sequence /\ f.sent_packets = o.sent_packets /\ f.acks = o.acks
        /\ f.counters = o.counters
    BY <1>2 DEF f, With, Endpoints
  <2>2. heap[p] = contents /\ \A q \in Blocks \ {p} : heap[q] = o.heap[q]
    BY <1>3 DEF heap, Heaps
  <2>3. contents = NewBlock(d)
    BY DEF contents, NewBlock
  <2> QED BY <1>5, <1>7, <1>10, <2>1, <2>2, <2>3 DEF Begins, i0
<1> QED BY <1>6, <1>11, <1>12, <1>13, <1>14 DEF o

\* An allocation that fails removes the entry it was for.
LEMMA SoundUnallocated ==
  ASSUME NEW e, NEW d \in Datagrams, d.type = "fragment", Sound(e)
  PROVE  Sound(Unallocated(e, d)) /\ GivesUp(Opened(e, d), Unallocated(e, d), d)
<1> DEFINE s == d.sequence
           i0 == Reassembly!Slot(s)
           o == Opened(e, d)
           r == o.fragment_reassembly
           data == Begin(Reassembly!Find(r, s), d, NULL)
           t == Reassembly!Write(r, s, data)
           begun == [o EXCEPT !.fragment_reassembly = t]
           heap == FreePacketData(begun, {i0})
           v == Reassembly!RemoveWithCleanup(t, s)
           u == Reassembly!Emptied(r, {i0})
           f == With(o, o.received_packets, heap, v)
<1>1. s \in SequenceNumber /\ s # None /\ i0 \in Reassembly!Index /\ d.num_fragments \in Nat \ {0}
  BY FragmentType
<1>2. /\ o \in Endpoints /\ o.received_packets.sequence = r.sequence
      /\ r.entry_sequence[i0] = s /\ Memory(u, o.heap)
  BY OpenedMemory
<1>3. /\ r \in Buffers /\ o.heap \in Heaps /\ o.received_packets \in ReceivedBuffers
  BY <1>2 DEF Endpoints, Buffers, Heaps, ReceivedBuffers
<1>4. data \in ReassemblyData /\ data.packet_data = NULL
  <2>1. Reassembly!Find(r, s) \in ReassemblyData
    BY <1>1, <1>3 DEF Reassembly!Find, Buffers, Reassembly!BufferOf
  <2> QED BY <1>1, <2>1 DEF Begin, ReassemblyData
<1>5. Unallocated(e, d) = Count(f, {"num_fragments_invalid"})
  BY <1>2 DEF Unallocated, With, Endpoints
<1> HIDE DEF data, o
<1>6. /\ t \in Buffers /\ t.sequence = r.sequence /\ t.entry_sequence = r.entry_sequence
      /\ t.entry_data[i0] = data
      /\ \A i \in Reassembly!Index \ {i0} : t.entry_data[i] = r.entry_data[i]
  BY <1>1, <1>3, <1>4, ReassemblyWritten
<1>7. heap = o.heap
  <2>1. begun.fragment_reassembly = t /\ begun.heap = o.heap
    BY <1>2 DEF Endpoints
  <2>2. t.entry_data[i0].packet_data = NULL
    BY <1>4, <1>6
  <2> HIDE DEF begun, t, i0
  <2>3. \A p \in Blocks : {i \in {i0} : begun.fragment_reassembly.entry_data[i].packet_data = p} = {}
    BY <2>1, <2>2, MemoryAssumption
  <2>4. FreePacketData(begun, {i0}) = [p \in Blocks |-> begun.heap[p]]
    BY <2>3 DEF FreePacketData
  <2> QED BY <2>1, <2>4, <1>3 DEF Heaps
<1>8. /\ u \in Buffers /\ u.entry_data = r.entry_data
      /\ \A i \in Reassembly!Index :
           u.entry_sequence[i] = IF i \in {i0} THEN None ELSE r.entry_sequence[i]
  <2>1. {i0} \in SUBSET Reassembly!Index
    BY <1>1
  <2> HIDE DEF i0
  <2> QED BY <1>3, <2>1, ReassemblyEmptied
<1>9. /\ v \in Buffers /\ v.sequence = t.sequence
      /\ \A i \in Reassembly!Index :
           v.entry_sequence[i] = u.entry_sequence[i] /\ Block(v, i) = Block(u, i)
      /\ \A i \in Reassembly!Occupied(u) : v.entry_data[i] = u.entry_data[i]
  <2> DEFINE cleans == Reassembly!RemoveCleans(t, s)
             m == Reassembly!Emptied(t, cleans)
  <2>1. cleans = {i0}
    BY <1>1, <1>2, <1>6 DEF Reassembly!RemoveCleans, Reassembly!Occupied
  <2>2. {i0} \in SUBSET Reassembly!Index
    BY <1>1
  <2>3. /\ m \in Buffers /\ m.sequence = t.sequence /\ m.entry_data = t.entry_data
        /\ \A i \in Reassembly!Index :
             m.entry_sequence[i] = IF i \in cleans THEN None ELSE t.entry_sequence[i]
    BY <1>6, <2>1, <2>2, ReassemblyEmptied
  <2>4. v = Reassembly!Cleaned(m, cleans)
    BY DEF Reassembly!RemoveWithCleanup
  <2> HIDE DEF m, t, i0, v, cleans
  <2>5. /\ v \in Buffers /\ v.sequence = m.sequence /\ v.entry_sequence = m.entry_sequence
        /\ \A i \in Reassembly!Index :
             v.entry_data[i] = IF i \in cleans THEN Cleanup(m.entry_data[i]) ELSE m.entry_data[i]
    BY <2>1, <2>2, <2>3, <2>4, ReassemblyCleaned
  <2>6. \A i \in Reassembly!Index : v.entry_sequence[i] = u.entry_sequence[i]
    BY <1>6, <1>8, <2>1, <2>3, <2>5
  <2>7. \A i \in Reassembly!Index \ {i0} :
          Block(v, i) = Block(u, i) /\ v.entry_data[i] = u.entry_data[i]
    BY <1>6, <1>8, <2>1, <2>3, <2>5 DEF Block
  <2>8. Block(v, i0) = NULL
    BY <1>1, <1>4, <1>6, <2>1, <2>3, <2>5, CleanupType DEF Block
  <2>9. i0 \notin Reassembly!Occupied(u)
    BY <1>1, <1>8 DEF Reassembly!Occupied
  <2>10. Block(u, i0) = NULL
    BY <1>1, <1>2, <2>9 DEF Memory, Owns
  <2> QED BY <2>3, <2>5, <2>6, <2>7, <2>8, <2>9, <2>10, OccupiedIsIndex
<1> HIDE DEF t, u, v, i0, heap
<1>10. Memory(v, heap)
  BY <1>2, <1>7, <1>9, SameMemory
<1>11. /\ f \in Endpoints
       /\ f.received_packets = o.received_packets /\ f.heap = heap /\ f.fragment_reassembly = v
  BY <1>2, <1>3, <1>7, <1>9, WithType
<1> HIDE DEF f
<1>12. Sound(f)
  BY <1>2, <1>6, <1>9, <1>10, <1>11 DEF Sound
<1>13. GivesUp(o, Count(f, {"num_fragments_invalid"}), d)
  <2> DEFINE g == Count(f, {"num_fragments_invalid"})
  <2>1. /\ f.sequence = o.sequence /\ f.sent_packets = o.sent_packets /\ f.acks = o.acks
        /\ f.counters = o.counters
    BY <1>2 DEF f, With, Endpoints
  <2>2. /\ g.sequence = f.sequence /\ g.sent_packets = f.sent_packets /\ g.acks = f.acks
        /\ g.counters = Increment(f.counters, {"num_fragments_invalid"})
        /\ g.received_packets = f.received_packets /\ g.heap = f.heap
        /\ g.fragment_reassembly = f.fragment_reassembly
    BY <1>11 DEF Count, Endpoints
  <2> HIDE DEF g
  <2>3. u = Reassembly!Emptied(o.fragment_reassembly, {Reassembly!Slot(d.sequence)})
    BY DEF u, i0
  <2> QED BY <1>6, <1>7, <1>9, <1>11, <2>1, <2>2, <2>3 DEF GivesUp, g
<1> QED BY <1>5, <1>12, <1>13, SoundCounted DEF o

\* The lengths of an entry stay lengths, and its block stays its own.
LEMMA StoreLengthsType ==
  ASSUME NEW data \in ReassemblyData, NEW d \in Datagrams, d.type = "fragment",
         ReadFragmentHeader(d)
  PROVE  /\ StoreLengths(data, d) \in ReassemblyData
         /\ StoreLengths(data, d).packet_data = data.packet_data
<1>1. /\ d.fragment_id \in Nat /\ d.content \in Seq(Byte) /\ Len(d.content) \in Nat
  BY FragmentType
<1>2. d.fragment_id = 0 => HeaderBytes(d.header) \in Nat
  <2> SUFFICES ASSUME d.fragment_id = 0 PROVE HeaderBytes(d.header) \in Nat
    OBVIOUS
  <2>1. d.header \in Headers
    BY FragmentType DEF ReadFragmentHeader
  <2> QED BY <2>1, DataAssumption, ConfigAssumption
<1>3. d.fragment_id = data.num_fragments_total - 1 =>
        (data.num_fragments_total - 1) * FragmentSize + Len(d.content) \in Nat
  <2> SUFFICES ASSUME d.fragment_id = data.num_fragments_total - 1
               PROVE  (data.num_fragments_total - 1) * FragmentSize + Len(d.content) \in Nat
    OBVIOUS
  <2>1. d.fragment_id * FragmentSize \in Nat
    BY <1>1, ConfigAssumption
  <2> QED BY <1>1, <2>1
<1>4. data.num_fragments_received + 1 \in Nat /\ data.fragment_received \cup {d.fragment_id} \in SUBSET Nat
  BY <1>1 DEF ReassemblyData
<1> QED BY <1>2, <1>3, <1>4 DEF StoreLengths, ReassemblyData

\* Storing a fragment keeps the block well typed, and sets its header for fragment 0 alone.
LEMMA StoreBytesType ==
  ASSUME NEW block \in BlockContents, NEW data \in ReassemblyData,
         NEW d \in Datagrams, d.type = "fragment", ReadFragmentHeader(d)
  PROVE  /\ StoreBytes(block, data, d) \in BlockContents
         /\ StoreBytes(block, data, d).header =
              IF d.fragment_id = 0 THEN d.header ELSE block.header
         /\ d.fragment_id = 0 => d.header # None /\ d.header.sequence = d.sequence
         /\ Len(StoreBytes(block, data, d).data) = Len(block.data)
<1> DEFINE offset == d.fragment_id * FragmentSize
           bytes == [k \in DOMAIN block.data |->
                       IF k - offset \in DOMAIN d.content THEN d.content[k - offset]
                                                          ELSE block.data[k]]
<1>1. /\ d.header \in Headers \cup {None} /\ d.content \in Seq(Byte)
  BY FragmentType
<1>2. /\ block.data \in Seq(Byte) /\ block.header \in Headers \cup {None}
  BY DEF BlockContents
<1>3. bytes \in Seq(Byte) /\ Len(bytes) = Len(block.data)
  <2>1. /\ DOMAIN block.data = 1 .. Len(block.data) /\ Len(block.data) \in Nat
        /\ \A k \in DOMAIN block.data : block.data[k] \in Byte
        /\ \A k \in DOMAIN d.content : d.content[k] \in Byte
    BY <1>1, <1>2
  <2>2. bytes \in [1 .. Len(block.data) -> Byte]
    BY <2>1
  <2> QED BY <2>1, <2>2
<1> HIDE DEF bytes
<1>4. StoreBytes(block, data, d) =
        [header |-> IF d.fragment_id = 0 THEN d.header ELSE block.header,
         data |-> IF offset + Len(d.content) <= data.num_fragments_total * FragmentSize
                  THEN bytes ELSE block.data]
  BY DEF StoreBytes, bytes
<1> QED BY <1>1, <1>2, <1>3, <1>4 DEF BlockContents, ReadFragmentHeader

-----------------------------------------------------------------------------
(* Storing a fragment                                                      *)

\* A fragment marked and counted leaves the entry agreeing with its block.
LEMMA StoreAgrees ==
  ASSUME NEW data \in ReassemblyData, NEW block \in BlockContents, NEW s,
         Agrees(data, block, s), NEW d \in Datagrams, d.type = "fragment", d.sequence = s,
         ReadFragmentHeader(d), data.num_fragments_total = d.num_fragments,
         d.fragment_id \notin data.fragment_received
  PROVE  Agrees(StoreLengths(data, d), StoreBytes(block, data, d), s)
<1> DEFINE lengths == StoreLengths(data, d)
           bytes == StoreBytes(block, data, d)
<1>1. /\ d.fragment_id \in 0 .. data.num_fragments_total - 1
      /\ d.fragment_id \in Nat /\ data.num_fragments_total \in Nat
  BY FragmentType DEF ReadFragmentHeader
<1>2. /\ lengths.fragment_received = data.fragment_received \cup {d.fragment_id}
      /\ lengths.num_fragments_received = data.num_fragments_received + 1
      /\ lengths.num_fragments_total = data.num_fragments_total
  BY DEF StoreLengths, ReassemblyData
<1>3. /\ bytes.header = IF d.fragment_id = 0 THEN d.header ELSE block.header
      /\ d.fragment_id = 0 => d.header # None /\ d.header.sequence = d.sequence
      /\ Len(bytes.data) = Len(block.data)
  BY StoreBytesType
<1> HIDE DEF lengths, bytes
<1>4. Cardinality(data.fragment_received \cup {d.fragment_id}) = Cardinality(data.fragment_received) + 1
  <2>1. IsFiniteSet(0 .. data.num_fragments_total - 1)
    BY <1>1, FS_Interval
  <2>2. IsFiniteSet(data.fragment_received)
    BY <2>1, FS_Subset DEF Agrees
  <2> QED BY <2>2, FS_AddElement
<1>5. 0 \in lengths.fragment_received <=> bytes.header # None
  BY <1>1, <1>2, <1>3 DEF Agrees
<1>6. bytes.header # None => bytes.header.sequence = s
  BY <1>3 DEF Agrees
<1>7. lengths.fragment_received \subseteq 0 .. lengths.num_fragments_total - 1
  BY <1>1, <1>2 DEF Agrees
<1>8. lengths.packet_bytes <= Len(bytes.data)
  <2>1. lengths.packet_bytes =
          IF d.fragment_id = data.num_fragments_total - 1
          THEN (data.num_fragments_total - 1) * FragmentSize + Len(d.content)
          ELSE data.packet_bytes
    BY DEF lengths, StoreLengths, ReassemblyData
  <2>2. Len(d.content) \in Nat /\ Len(d.content) <= FragmentSize /\ FragmentSize \in Nat
    BY FragmentType, ConfigAssumption DEF ReadFragmentHeader
  <2>3. \A t \in Nat : (t - 1) * FragmentSize + FragmentSize = t * FragmentSize
    BY <2>2
  <2>4. (data.num_fragments_total - 1) * FragmentSize + Len(d.content)
          <= data.num_fragments_total * FragmentSize
    <3> DEFINE x == (data.num_fragments_total - 1) * FragmentSize
               y == data.num_fragments_total * FragmentSize
    <3>1. x + FragmentSize = y /\ x \in Int /\ y \in Int
      BY <1>1, <2>2, <2>3
    <3> HIDE DEF x, y
    <3>2. x + Len(d.content) <= y
      BY <2>2, <3>1
    <3> QED BY <3>2 DEF x, y
  <2> QED BY <1>3, <2>1, <2>4 DEF Agrees
<1>9. Agrees(lengths, bytes, s)
  BY <1>2, <1>3, <1>4, <1>5, <1>6, <1>7, <1>8 DEF Agrees
<1> QED BY <1>9 DEF lengths, bytes

\* Slot i of a sound endpoint that holds packet s: its block is live and agrees.
LEMMA SoundEntry ==
  ASSUME NEW e, Sound(e), NEW s \in SequenceNumber,
         Reassembly!Exists(e.fragment_reassembly, s)
  PROVE  LET data == Reassembly!Find(e.fragment_reassembly, s)
         IN  /\ Reassembly!Slot(s) \in Reassembly!Occupied(e.fragment_reassembly)
             /\ data \in ReassemblyData
             /\ data.packet_data \in Blocks /\ Live(e.heap, data.packet_data)
             /\ e.heap[data.packet_data] \in BlockContents
             /\ Agrees(data, e.heap[data.packet_data], s)
<1> DEFINE i0 == Reassembly!Slot(s)
           r == e.fragment_reassembly
           data == Reassembly!Find(e.fragment_reassembly, s)
<1>1. i0 \in Reassembly!Index /\ s # None
  BY Instances, DataAssumption
<1>2. r \in Buffers /\ e.heap \in Heaps /\ Memory(r, e.heap)
  BY SoundParts DEF Sound
<1>3. r.entry_sequence[i0] = s /\ data = r.entry_data[i0] /\ data.packet_data = Block(r, i0)
  BY DEF Reassembly!Exists, Reassembly!Find, Block
<1>4. i0 \in Reassembly!Occupied(r)
  BY <1>1, <1>3 DEF Reassembly!Occupied
<1>5. data \in ReassemblyData
  BY <1>1, <1>2, <1>3 DEF Buffers, Reassembly!BufferOf
<1> HIDE DEF data, i0
<1>6. Live(e.heap, data.packet_data) /\ Agrees(data, e.heap[data.packet_data], s)
  BY <1>2, <1>3, <1>4 DEF Memory, Owns, Belongs
<1>7. data.packet_data \in Blocks /\ e.heap[data.packet_data] \in BlockContents
  BY <1>2, <1>6 DEF Live, Heaps
<1> QED BY <1>4, <1>5, <1>6, <1>7 DEF data, i0

\* What storing a fragment changes: the entry of its packet, and that entry's
\* block.
LEMMA Stored ==
  ASSUME NEW e, Sound(e), NEW d \in Datagrams, d.type = "fragment",
         ReadFragmentHeader(d), HasEntry(e, d)
  PROVE  LET data == Reassembly!Find(e.fragment_reassembly, d.sequence)
             p == data.packet_data
             lengths == StoreLengths(data, d)
             contents == StoreBytes(e.heap[p], data, d)
         IN  Store(e, d) = With(e, e.received_packets, [e.heap EXCEPT ![p] = contents],
                                Reassembly!Write(e.fragment_reassembly, d.sequence, lengths))
<1> DEFINE data == Reassembly!Find(e.fragment_reassembly, d.sequence)
           p == data.packet_data
           contents == StoreBytes(e.heap[p], data, d)
           heap == [e.heap EXCEPT ![p] = contents]
           heap2 == [q \in Blocks |-> IF q # p THEN e.heap[q]
                                      ELSE IF Live(e.heap, p) THEN contents ELSE Corrupt]
           t == Reassembly!Write(e.fragment_reassembly, d.sequence, StoreLengths(data, d))
<1>1. p \in Blocks /\ Live(e.heap, p)
  BY FragmentType, SoundEntry DEF HasEntry
<1>2. e \in Endpoints /\ e.heap \in Heaps
  BY SoundParts DEF Sound
<1>3. heap = heap2
  <2> HIDE DEF contents, p
  <2> QED BY <1>1, <1>2 DEF Heaps
<1>4. Store(e, d) = [e EXCEPT !.fragment_reassembly = t, !.heap = heap2]
  BY DEF Store
<1> HIDE DEF t, heap2, heap
<1>5. [e EXCEPT !.fragment_reassembly = t, !.heap = heap] = With(e, e.received_packets, heap, t)
  BY <1>2 DEF With, Endpoints
<1> QED BY <1>3, <1>4, <1>5 DEF t, heap

\* A block rewritten in place, and the entry that owns it.
LEMMA RewriteKeepsMemory ==
  ASSUME NEW r \in Buffers, NEW t \in Buffers, NEW heap \in Heaps, Memory(r, heap),
         NEW i0 \in Reassembly!Occupied(r), NEW contents \in BlockContents,
         t.entry_sequence = r.entry_sequence, Block(t, i0) = Block(r, i0),
         Agrees(t.entry_data[i0], contents, r.entry_sequence[i0]),
         \A i \in Reassembly!Index \ {i0} : t.entry_data[i] = r.entry_data[i]
  PROVE  /\ [heap EXCEPT ![Block(r, i0)] = contents] \in Heaps
         /\ Memory(t, [heap EXCEPT ![Block(r, i0)] = contents])
<1> DEFINE p == Block(r, i0)
           h2 == [heap EXCEPT ![p] = contents]
<1>1. p \in Blocks /\ Live(heap, p)
  BY DEF Memory, Owns, Live
<1>2. h2 \in Heaps /\ h2[p] = contents /\ \A q \in Blocks \ {p} : h2[q] = heap[q]
  BY <1>1 DEF Heaps
<1>3. Live(h2, p)
  BY <1>1, <1>2, MemoryAssumption DEF Live
<1> HIDE DEF h2
<1>4. Reassembly!Occupied(t) = Reassembly!Occupied(r)
  BY DEF Reassembly!Occupied
<1>5. \A i \in Reassembly!Index : Block(t, i) = Block(r, i)
  BY DEF Block
<1>6. ASSUME NEW i \in Reassembly!Occupied(r), i # i0
      PROVE  /\ h2[Block(t, i)] = heap[Block(r, i)] /\ Block(t, i) = Block(r, i)
             /\ t.entry_data[i] = r.entry_data[i] /\ Block(r, i) \in Blocks
  <2>1. Block(r, i) \in Blocks /\ Block(r, i) # p
    BY <1>6 DEF Memory, Owns, Live
  <2> QED BY <1>2, <1>5, <1>6, <2>1, OccupiedIsIndex
<1>7. \A i \in Reassembly!Occupied(t) : Live(h2, Block(t, i))
  <2>1. \A i \in Reassembly!Occupied(r) : i # i0 => Live(h2, Block(t, i))
    BY <1>6 DEF Memory, Owns, Live
  <2> QED BY <1>3, <1>4, <2>1
<1>8. /\ \A i, j \in Reassembly!Occupied(t) : i # j => Block(t, i) # Block(t, j)
      /\ \A i \in Reassembly!Index \ Reassembly!Occupied(t) : Block(t, i) = NULL
  BY <1>4, <1>5, OccupiedIsIndex DEF Memory, Owns
<1>9. \A q \in Blocks : h2[q] = Free \/ \E i \in Reassembly!Occupied(t) : Block(t, i) = q
  <2>1. ASSUME NEW q \in Blocks, h2[q] # Free PROVE \E i \in Reassembly!Occupied(r) : Block(r, i) = q
    BY <1>2, <2>1 DEF Memory, Owns
  <2> QED BY <2>1, <1>4, <1>5, OccupiedIsIndex
<1>10. Belongs(t, h2)
  <2>1. Agrees(t.entry_data[i0], h2[Block(t, i0)], t.entry_sequence[i0])
    BY <1>2
  <2>2. \A i \in Reassembly!Occupied(r) :
          i # i0 => Agrees(t.entry_data[i], h2[Block(t, i)], t.entry_sequence[i])
    BY <1>6 DEF Memory, Belongs
  <2> QED BY <1>4, <2>1, <2>2 DEF Belongs
<1> QED BY <1>2, <1>7, <1>8, <1>9, <1>10 DEF Memory, Owns, h2

\* A fragment stored in the entry of its packet.
LEMMA SoundStored ==
  ASSUME NEW e, Sound(e), NEW d \in Datagrams, d.type = "fragment",
         ReadFragmentHeader(d), HasEntry(e, d), ~Mismatched(e, d), ~AlreadyStored(e, d)
  PROVE  Sound(Store(e, d)) /\ HasEntry(Store(e, d), d)
<1> DEFINE s == d.sequence
           r == e.fragment_reassembly
           i0 == Reassembly!Slot(s)
           data == Reassembly!Find(r, s)
           p == data.packet_data
           lengths == StoreLengths(data, d)
           contents == StoreBytes(e.heap[p], data, d)
           heap == [e.heap EXCEPT ![p] = contents]
           t == Reassembly!Write(r, s, lengths)
           f == With(e, e.received_packets, heap, t)
<1>1. s \in SequenceNumber /\ i0 \in Reassembly!Index
  BY FragmentType
<1>2. /\ i0 \in Reassembly!Occupied(r) /\ data \in ReassemblyData
      /\ e.heap[p] \in BlockContents /\ Agrees(data, e.heap[p], s)
  BY <1>1, SoundEntry DEF HasEntry
<1>3. r \in Buffers /\ e.heap \in Heaps /\ Memory(r, e.heap) /\ e.received_packets \in ReceivedBuffers
  BY SoundParts DEF Sound
<1>4. data.num_fragments_total = d.num_fragments /\ d.fragment_id \notin data.fragment_received
  BY DEF Mismatched, AlreadyStored
<1>5. p = Block(r, i0) /\ r.entry_sequence[i0] = s
  BY DEF Block, HasEntry, Reassembly!Exists, Reassembly!Find
<1>6. Store(e, d) = f
  BY Stored
<1> HIDE DEF data
<1>7. lengths \in ReassemblyData /\ lengths.packet_data = p
  BY <1>2, StoreLengthsType
<1>8. contents \in BlockContents
  BY <1>2, StoreBytesType
<1>9. Agrees(lengths, contents, s)
  BY <1>2, <1>4, StoreAgrees
<1> HIDE DEF lengths, contents, p
<1>10. /\ t \in Buffers /\ t.sequence = r.sequence /\ t.entry_sequence = r.entry_sequence
       /\ t.entry_data[i0] = lengths
       /\ \A i \in Reassembly!Index \ {i0} : t.entry_data[i] = r.entry_data[i]
  BY <1>1, <1>3, <1>7, ReassemblyWritten
<1> HIDE DEF t, i0
<1>11. heap \in Heaps /\ Memory(t, heap)
  <2>1. Block(t, i0) = Block(r, i0) /\ Agrees(t.entry_data[i0], contents, r.entry_sequence[i0])
    BY <1>5, <1>7, <1>9, <1>10 DEF Block
  <2> QED BY <1>2, <1>3, <1>5, <1>8, <1>10, <2>1, RewriteKeepsMemory
<1> HIDE DEF heap
<1>12. /\ f \in Endpoints
       /\ f.received_packets = e.received_packets /\ f.heap = heap /\ f.fragment_reassembly = t
  BY <1>3, <1>10, <1>11, WithType DEF Sound
<1> HIDE DEF f
<1>13. Sound(f)
  BY <1>10, <1>11, <1>12 DEF Sound
<1>14. HasEntry(f, d)
  BY <1>5, <1>10, <1>12 DEF HasEntry, Reassembly!Exists, i0
<1> QED BY <1>6, <1>13, <1>14

\* Every endpoint a fragment may be stored in has an entry for it and lacks it.
LEMMA SoundPrepared ==
  ASSUME NEW e, Sound(e), NEW d \in Datagrams, d.type = "fragment",
         NEW f \in Prepared(e, d)
  PROVE  Sound(f) /\ HasEntry(f, d) /\ ~Mismatched(f, d) /\ ~AlreadyStored(f, d)
<1>1. CASE HasEntry(e, d)
  BY <1>1 DEF Prepared
<1>2. CASE ~HasEntry(e, d)
  <2>1. PICK p \in Allocations(Opened(e, d).heap) \ {NULL} : f = Allocated(e, d, p)
    BY <1>2 DEF Prepared
  <2>2. p \in Blocks /\ Opened(e, d).heap[p] = Free
    BY <2>1 DEF Allocations
  <2> QED BY <2>1, <2>2, SoundAllocated
<1> QED BY <1>1, <1>2

\* What is rebuilt out of a block is the packet of the block's entry.
LEMMA RebuiltBelongs ==
  ASSUME NEW e, Sound(e), NEW d \in Datagrams, d.type = "fragment", HasEntry(e, d)
  PROVE  LET data == Reassembly!Find(e.fragment_reassembly, d.sequence)
             packet == Rebuilt(e, data)
         IN  /\ packet.header \in Headers \cup {None}
             /\ packet.header # None => packet.header.sequence = d.sequence
             /\ packet.header = e.heap[data.packet_data].header
             /\ packet.header # None =>
                  packet.content = SubSeq(e.heap[data.packet_data].data, 1, data.packet_bytes)
<1> DEFINE data == Reassembly!Find(e.fragment_reassembly, d.sequence)
           block == e.heap[data.packet_data]
           packet == Rebuilt(e, data)
<1>1. Live(e.heap, data.packet_data) /\ block \in BlockContents /\ Agrees(data, block, d.sequence)
  BY FragmentType, SoundEntry DEF HasEntry
<1>2. packet.header = block.header
  BY <1>1 DEF Rebuilt
<1>3. packet.header # None => packet.content = SubSeq(block.data, 1, data.packet_bytes)
  BY <1>1, <1>2 DEF Rebuilt
<1>4. block.header \in Headers \cup {None} /\ (block.header # None => block.header.sequence = d.sequence)
  BY <1>1 DEF Agrees, BlockContents
<1> QED BY <1>2, <1>3, <1>4

\* process_packet_function is given a packet that can still be inserted.
LEMMA ProcessesFresh ==
  ASSUME NEW e, NEW h, NEW content, Processes(e, h, content)
  PROVE  h # None /\ Received!TestInsert(e.received_packets, h.sequence)
<1> DEFINE refused == Refusal(e, h, content)
<1>1. refused = {"num_packets_received"}
  BY DEF Processes
<1>2. h # None
  <2> SUFFICES ASSUME h = None PROVE FALSE
    OBVIOUS
  <2>1. "num_packets_invalid" \in refused \/ "num_packets_too_large_to_receive" \in refused
    BY DEF Refusal
  <2> QED BY <1>1, <2>1
<1>3. Received!TestInsert(e.received_packets, h.sequence)
  <2> SUFFICES ASSUME ~Received!TestInsert(e.received_packets, h.sequence) PROVE FALSE
    OBVIOUS
  <2>1. "num_packets_stale" \in refused \/ "num_packets_too_large_to_receive" \in refused
    BY <1>2 DEF Refusal
  <2> QED BY <1>1, <2>1
<1> QED BY <1>2, <1>3

\* Counting a packet's arrival changes the counters alone.
LEMMA SoundArrived ==
  ASSUME NEW e, Sound(e), NEW h, NEW content
  PROVE  Sound(Arrive(e, h, content)) /\ SameButAcks(e, Arrive(e, h, content))
<1>1. Sound(Count(e, Refusal(e, h, content)))
  BY SoundCounted
<1>2. SameButAcks(e, Count(e, Refusal(e, h, content)))
  BY Counted DEF Sound
<1> QED BY <1>1, <1>2 DEF Arrive

\* The end of receive_packet, whatever the callback answered.
LEMMA SoundFinished ==
  ASSUME NEW e, Sound(e), NEW h, NEW s, NEW rebuilt \in BOOLEAN, NEW answer,
         answer = "accepted" =>
           h \in Headers /\ Received!TestInsert(e.received_packets, h.sequence),
         rebuilt => s \in SequenceNumber
  PROVE  Sound(Finish(e, h, s, rebuilt, answer))
<1> DEFINE answered == IF answer = "accepted" THEN Accept(e, h) ELSE e
<1>1. Sound(answered)
  <2>1. CASE answer = "accepted"
    BY <2>1, SoundAccepted
  <2>2. CASE answer # "accepted"
    BY <2>2
  <2> QED BY <2>1, <2>2
<1>2. Finish(e, h, s, rebuilt, answer) = IF rebuilt THEN Leave(answered, s) ELSE answered
  BY DEF Finish
<1> HIDE DEF answered
<1> QED BY <1>1, <1>2, SoundLeft

\* A packet sent: its entry made, the number moved on, the counters bumped.
LEMMA SoundSent ==
  ASSUME Sound(endpoint), NEW content \in Packets,
         SendPacket(content) \/ SendTooLarge(content)
  PROVE  Sound(endpoint')
<1> DEFINE e == endpoint
           tracked == Track(e)
           n == IF Len(content) > FragmentAbove THEN NumFragments(content) ELSE 0
           c == Plus(Increment(tracked.counters, {"num_packets_sent"}), "num_fragments_sent", n)
           f == [tracked EXCEPT !.sequence = Uint16(@ + 1), !.counters = c]
<1>0. e \in Endpoints /\ e.sequence \in SequenceNumber
  BY SoundParts DEF Sound
<1>1. CASE SendTooLarge(content)
  BY <1>1, SoundCounted DEF SendTooLarge
<1>2. CASE SendPacket(content)
  <2>1. endpoint' = f
    BY <1>2 DEF SendPacket
  <2>2. tracked \in Endpoints /\ SameButAcks(e, tracked)
    <3>1. e.sent_packets \in SentBuffers
      BY SoundParts
    <3>2. Sent!Insert(e.sent_packets, e.sequence) \in SentBuffers
      BY <1>0, <3>1, SentInserted
    <3>3. Sent!Write(Sent!Insert(e.sent_packets, e.sequence), e.sequence, FALSE) \in SentBuffers
      BY <1>0, <3>2, SentWritten
    <3> QED BY <1>0, <3>3 DEF Track, Endpoints, SentBuffers, SameButAcks
  <2>3. c \in CountersOf
    <3>1. n \in Int
      <4>1. content \in Seq(Byte)
        BY DataAssumption
      <4>2. Len(content) \in Nat
        BY <4>1
      <4> QED BY <4>2, ConfigAssumption DEF NumFragments
    <3>2. Increment(tracked.counters, {"num_packets_sent"}) \in CountersOf
      BY <2>2, CountersType DEF Endpoints
    <3> DEFINE counted == Increment(tracked.counters, {"num_packets_sent"})
    <3> HIDE DEF n, tracked, counted
    <3>3. "num_fragments_sent" \in CounterNames
      BY DEF CounterNames
    <3>4. (counted["num_fragments_sent"] + n) % CounterModulus \in 0 .. CounterModulus - 1
      BY <3>1, <3>2, <3>3, CounterModulusAssumption DEF CountersOf, counted
    <3>5. c = [counted EXCEPT !["num_fragments_sent"] =
                 (counted["num_fragments_sent"] + n) % CounterModulus]
      BY DEF Plus, counted
    <3> HIDE DEF c
    <3> QED BY <3>2, <3>4, <3>5 DEF CountersOf, counted
  <2>4. Uint16(tracked.sequence + 1) \in SequenceNumber
    <3>1. tracked.sequence \in Int
      BY <1>0, <2>2, ConfigAssumption DEF SameButAcks, SequenceNumber
    <3> QED BY <3>1, Uint16Type
  <2> HIDE DEF tracked, c
  <2>5. f \in Endpoints
    BY <2>2, <2>3, <2>4 DEF Endpoints
  <2>6. /\ f.received_packets = e.received_packets
        /\ f.fragment_reassembly = e.fragment_reassembly /\ f.heap = e.heap
    BY <2>2 DEF SameButAcks, Endpoints
  <2> HIDE DEF f
  <2> QED BY <2>1, <2>5, <2>6 DEF Sound
<1> QED BY <1>1, <1>2

\* Reset frees every block and leaves no pointer.
LEMMA SoundReset ==
  ASSUME NEW e, Sound(e)
  PROVE  Sound(ResetOf(e))
<1> DEFINE r == e.fragment_reassembly
           occupied == Reassembly!Occupied(r)
           m == Reassembly!Cleaned(r, occupied)
           t == Reassembly!Reset(m)
           heap == FreePacketData(e, occupied)
           sent == Sent!Reset(e.sent_packets)
           received == Received!Reset(e.received_packets)
           f == [Created EXCEPT !.sent_packets = sent, !.received_packets = received,
                                !.fragment_reassembly = t, !.heap = heap]
<1>1. r \in Buffers /\ e.heap \in Heaps /\ Memory(r, e.heap)
  BY SoundParts DEF Sound
<1>2. occupied \in SUBSET Reassembly!Index
  BY OccupiedIsIndex
<1>3. 0 \in SequenceNumber
  BY ConfigAssumption DEF SequenceNumber
<1>4. /\ m \in Buffers
      /\ \A i \in Reassembly!Index :
           m.entry_data[i] = IF i \in occupied THEN Cleanup(r.entry_data[i]) ELSE r.entry_data[i]
  <2> HIDE DEF occupied
  <2> QED BY <1>1, <1>2, ReassemblyCleaned
<1>5. /\ t \in Buffers /\ t.sequence = 0 /\ t.entry_data = m.entry_data
      /\ \A i \in Reassembly!Index : t.entry_sequence[i] = None
  <2> HIDE DEF m
  <2> QED BY <1>3, <1>4, Instances DEF Reassembly!Reset, Buffers, Reassembly!BufferOf
<1>6. \A i \in Reassembly!Index : Block(t, i) = NULL
  <2>1. \A i \in Reassembly!Index : r.entry_data[i] \in ReassemblyData
    BY <1>1 DEF Buffers, Reassembly!BufferOf
  <2>2. \A i \in Reassembly!Index \ occupied : Block(r, i) = NULL
    BY <1>1 DEF Memory, Owns
  <2> HIDE DEF t, m, occupied
  <2> QED BY <1>4, <1>5, <2>1, <2>2, CleanupType DEF Block
<1>7. heap \in Heaps /\ Frees(r, e.heap, heap, occupied)
  <2> HIDE DEF occupied
  <2> QED BY <1>1, <1>2, FreesExactly DEF Memory
<1>8. \A p \in Blocks : heap[p] = Free
  BY <1>1, <1>7 DEF Frees, Memory, Owns
<1>9. sent \in SentBuffers
  <2>1. e.sent_packets \in SentBuffers
    BY SoundParts
  <2> QED BY <1>3, <2>1, Instances DEF Sent!Reset, SentBuffers, Sent!BufferOf
<1>10. received \in ReceivedBuffers /\ received.sequence = 0
  <2>1. e.received_packets \in ReceivedBuffers
    BY SoundParts
  <2> QED BY <1>3, <2>1, Instances DEF Received!Reset, ReceivedBuffers, Received!BufferOf
<1>11. ResetOf(e) = f
  BY DEF ResetOf
<1>12. Created \in Endpoints
  BY SoundCreated DEF Sound
<1> HIDE DEF t, heap, sent, received, occupied
<1>13. f \in Endpoints
  BY <1>5, <1>7, <1>9, <1>10, <1>12 DEF Endpoints, SentBuffers, ReceivedBuffers, Buffers, Heaps
<1>14. /\ f.received_packets = received /\ f.heap = heap /\ f.fragment_reassembly = t
  BY <1>12 DEF Endpoints
<1>15. Memory(t, heap)
  <2>1. Reassembly!Occupied(t) = {}
    BY <1>5 DEF Reassembly!Occupied
  <2> QED BY <1>6, <1>8, <2>1 DEF Memory, Owns, Belongs
<1> HIDE DEF f
<1> QED BY <1>5, <1>10, <1>11, <1>13, <1>14, <1>15 DEF Sound

\* receive_packet, in one call, keeps the endpoint sound.
LEMMA SoundReceived ==
  ASSUME Sound(endpoint), NEW d \in Datagrams, NEW answer \in Answers,
         ReceivePacket(d, answer)
  PROVE  Sound(endpoint')
<1> DEFINE e == endpoint
<1>1. CASE ReceiveRegular(d, answer)
  <2> DEFINE a == Arrive(e, d.header, d.content)
  <2>1. endpoint' = Finish(a, d.header, None, FALSE, answer)
    BY <1>1 DEF ReceiveRegular
  <2>2. Sound(a) /\ SameButAcks(e, a)
    BY SoundArrived
  <2>3. answer = "accepted" =>
          d.header \in Headers /\ Received!TestInsert(a.received_packets, d.header.sequence)
    <3> SUFFICES ASSUME answer = "accepted"
                 PROVE  d.header \in Headers /\ Received!TestInsert(a.received_packets, d.header.sequence)
      OBVIOUS
    <3>1. Processes(e, d.header, d.content)
      BY <1>1 DEF ReceiveRegular
    <3>2. d.header # None /\ Received!TestInsert(e.received_packets, d.header.sequence)
      BY <3>1, ProcessesFresh
    <3>3. d.header \in Headers \cup {None}
      BY <1>1, DataAssumption DEF ReceiveRegular, Datagram
    <3> QED BY <2>2, <3>2, <3>3 DEF SameButAcks
  <2> HIDE DEF a
  <2> QED BY <2>1, <2>2, <2>3, SoundFinished
<1>2. CASE ReceiveFragment(d, answer)
  <2>1. d.type = "fragment" /\ ReadFragmentHeader(d)
    BY <1>2 DEF ReceiveFragment, Wanted
  <2>2. PICK prepared \in Prepared(e, d) :
          LET stored == Store(prepared, d)
              data == Reassembly!Find(stored.fragment_reassembly, d.sequence)
              packet == Rebuilt(stored, data)
          IN  IF Complete(data)
              THEN /\ (answer = "unused") <=> ~Processes(stored, packet.header, packet.content)
                   /\ endpoint' = Finish(Arrive(stored, packet.header, packet.content),
                                         packet.header, d.sequence, TRUE, answer)
              ELSE /\ answer = "unused"
                   /\ endpoint' = Count(stored, {"num_fragments_received"})
    BY <1>2 DEF ReceiveFragment
  <2> DEFINE stored == Store(prepared, d)
             data == Reassembly!Find(stored.fragment_reassembly, d.sequence)
             packet == Rebuilt(stored, data)
             a == Arrive(stored, packet.header, packet.content)
  <2>3. Sound(prepared) /\ HasEntry(prepared, d) /\ ~Mismatched(prepared, d) /\ ~AlreadyStored(prepared, d)
    BY <2>1, SoundPrepared
  <2>4. Sound(stored) /\ HasEntry(stored, d)
    BY <2>1, <2>3, SoundStored
  <2>5. CASE Complete(data)
    <3>1. /\ (answer = "unused") <=> ~Processes(stored, packet.header, packet.content)
          /\ endpoint' = Finish(a, packet.header, d.sequence, TRUE, answer)
      BY <2>2, <2>5
    <3>2. packet.header \in Headers \cup {None}
      <4> HIDE DEF stored
      <4> QED BY <2>1, <2>4, RebuiltBelongs
    <3> HIDE DEF packet, stored
    <3>3. Sound(a) /\ SameButAcks(stored, a)
      BY <2>4, SoundArrived
    <3>4. answer = "accepted" =>
            packet.header \in Headers /\ Received!TestInsert(a.received_packets, packet.header.sequence)
      BY <3>1, <3>2, <3>3, ProcessesFresh DEF SameButAcks
    <3>5. d.sequence \in SequenceNumber
      BY <2>1, FragmentType
    <3> HIDE DEF a
    <3> QED BY <3>1, <3>3, <3>4, <3>5, SoundFinished
  <2>6. CASE ~Complete(data)
    BY <2>2, <2>4, <2>6, SoundCounted
  <2> QED BY <2>5, <2>6
<1>3. CASE ReceiveFragmentTooLarge(d)
  BY <1>3, SoundCounted DEF ReceiveFragmentTooLarge
<1>4. CASE ReceiveInvalidFragment(d)
  BY <1>4, SoundCounted DEF ReceiveInvalidFragment
<1>5. CASE IgnoreFragment(d)
  BY <1>5 DEF IgnoreFragment
<1>6. CASE FailToAllocate(d)
  BY <1>6, SoundUnallocated DEF FailToAllocate
<1> QED BY <1>1, <1>2, <1>3, <1>4, <1>5, <1>6 DEF ReceivePacket

\* Clearing the acks.
LEMMA SoundCleared ==
  ASSUME Sound(endpoint), ClearAcks
  PROVE  Sound(endpoint')
<1>1. <<>> \in Seq(SequenceNumber)
  OBVIOUS
<1>2. endpoint' \in Endpoints /\ SameButAcks(endpoint, endpoint')
  BY <1>1 DEF ClearAcks, Sound, Endpoints, SameButAcks
<1> QED BY <1>2, SoundButAcks

\* A sound endpoint has the properties.
LEMMA SoundMeans ==
  ASSUME Sound(endpoint)
  PROVE  TypeOK /\ Ownership /\ WindowsTogether
BY DEF Sound, TypeOK, Ownership, Owned, PacketData, WindowsTogether, Memory, Owns, Block

-----------------------------------------------------------------------------
(* The theorems of Spec                                                    *)

\* Every step keeps the endpoint sound.
LEMMA SoundInv == Spec => []Sound(endpoint)
<1>1. Init => Sound(endpoint)
  BY SoundCreated DEF Init
<1>2. Sound(endpoint) /\ [Next]_endpoint => Sound(endpoint')
  <2> SUFFICES ASSUME Sound(endpoint), [Next]_endpoint PROVE Sound(endpoint')
    OBVIOUS
  <2>1. CASE \E content \in Packets : SendPacket(content) \/ SendTooLarge(content)
    BY <2>1, SoundSent
  <2>2. CASE \E d \in Datagrams, answer \in Answers : ReceivePacket(d, answer)
    BY <2>2, SoundReceived
  <2>3. CASE ClearAcks
    BY <2>3, SoundCleared
  <2>4. CASE Reset
    BY <2>4, SoundReset DEF Reset
  <2>5. CASE UNCHANGED endpoint
    BY <2>5
  <2> QED BY <2>1, <2>2, <2>3, <2>4, <2>5 DEF Next
<1>3. Sound(endpoint)' <=> Sound(endpoint')
  BY DEF Sound, Memory, Owns, Belongs, Block, Live, Agrees
<1> QED BY <1>1, <1>2, <1>3, PTL DEF Spec

\* The endpoint keeps its type, whatever is sent, received, cleared or reset.
THEOREM TypeCorrect == Spec => []TypeOK
<1>1. Sound(endpoint) => TypeOK
  BY SoundMeans
<1> QED BY <1>1, SoundInv, PTL

\* reliable_endpoint_receive_packet and reset neither leak, nor free twice, nor
\* use a packet's block after it was freed, whichever allocations fail.
THEOREM MemoryOwned == Spec => []Ownership
<1>1. Sound(endpoint) => Ownership
  BY SoundMeans
<1> QED BY <1>1, SoundInv, PTL

\* The two windows of reliable_endpoint_receive_packet move together.
THEOREM WindowsMoveTogether == Spec => []WindowsTogether
<1>1. Sound(endpoint) => WindowsTogether
  BY SoundMeans
<1> QED BY <1>1, SoundInv, PTL

-----------------------------------------------------------------------------
(* Packets that were received are not under reassembly again               *)

InWindow(e, s) == Received!Exists(e.received_packets, s)

UnderReassembly(e, s) == Reassembly!Exists(e.fragment_reassembly, s)

\* NeverRestarted, of any endpoint.
Settled(e) ==
  \A s \in SequenceNumber : OnlyInFragments(s) /\ InWindow(e, s) => ~UnderReassembly(e, s)

\* Endpoint f has received no packet that e had not, and opened no entry.
Fewer(e, f) ==
  \A s \in SequenceNumber :
    /\ InWindow(f, s) => InWindow(e, s)
    /\ UnderReassembly(f, s) => UnderReassembly(e, s)

\* Fewer packets are settled as well.
LEMMA FewerSettled ==
  ASSUME NEW e, NEW f, Settled(e), Fewer(e, f)
  PROVE  Settled(f)
BY DEF Settled, Fewer

\* What changes neither buffer restarts nothing.
LEMMA SameFewer ==
  ASSUME NEW e, NEW f,
         f.received_packets.entry_sequence = e.received_packets.entry_sequence,
         f.fragment_reassembly.entry_sequence = e.fragment_reassembly.entry_sequence
  PROVE  Fewer(e, f)
BY DEF Fewer, InWindow, UnderReassembly, Received!Exists, Reassembly!Exists

\* advance empties slots, insert takes the slot of its number too.
LEMMA ReceivedNumbers ==
  ASSUME NEW b \in ReceivedBuffers, NEW s \in SequenceNumber, NEW t \in SequenceNumber
  PROVE  /\ Received!Exists(Received!Advance(b, s), t) => Received!Exists(b, t)
         /\ Received!Exists(Received!Insert(b, s), t) => t = s \/ Received!Exists(b, t)
<1> DEFINE slots == Received!Spanned(b.sequence, s)
           m == Received!Emptied(b, slots)
           a == Received!Advance(b, s)
           i0 == Received!Slot(s)
           i == Received!Slot(t)
<1>1. i \in Received!Index /\ i0 \in Received!Index /\ t # None
  BY Instances, DataAssumption
<1>2. m.entry_sequence[i] = IF i \in slots THEN None ELSE b.entry_sequence[i]
  <2> HIDE DEF slots, i
  <2> QED BY <1>1 DEF Received!Emptied, ReceivedBuffers, Received!BufferOf
<1>3. a.entry_sequence = m.entry_sequence \/ a.entry_sequence = b.entry_sequence
  <2> HIDE DEF slots
  <2>1. a = [m EXCEPT !.sequence = Received!Uint16(s + 1)] \/ a = b
    BY DEF Received!Advance, slots
  <2>2. m.entry_sequence = [m EXCEPT !.sequence = Received!Uint16(s + 1)].entry_sequence
    BY DEF Received!Emptied, ReceivedBuffers, Received!BufferOf
  <2> HIDE DEF m, a
  <2> QED BY <2>1, <2>2
<1>4. a.entry_sequence[i] = b.entry_sequence[i] \/ a.entry_sequence[i] = None
  <2> HIDE DEF m, a, slots, i
  <2> QED BY <1>2, <1>3
<1>5. Received!Insert(b, s).entry_sequence = [a.entry_sequence EXCEPT ![i0] = s]
  <2>1. a \in ReceivedBuffers
    BY ReceivedAdvanced
  <2> HIDE DEF a
  <2> QED BY <2>1 DEF Received!Insert, Received!Claim, ReceivedBuffers, Received!BufferOf, a
<1>6. a.entry_sequence \in [Received!Index -> SequenceNumber \cup {None}]
  BY ReceivedAdvanced, Instances DEF ReceivedBuffers, Received!BufferOf
<1>7. Received!Insert(b, s).entry_sequence[i] = IF i = i0 THEN s ELSE a.entry_sequence[i]
  <2> HIDE DEF a, i, i0
  <2> QED BY <1>1, <1>5, <1>6
<1>8. /\ Received!Exists(b, t) <=> b.entry_sequence[i] = t
      /\ Received!Exists(a, t) <=> a.entry_sequence[i] = t
      /\ Received!Exists(Received!Insert(b, s), t) <=> Received!Insert(b, s).entry_sequence[i] = t
  BY DEF Received!Exists
<1> HIDE DEF a, i, i0
<1> QED BY <1>1, <1>4, <1>7, <1>8 DEF a

\* An eviction leaves the numbers that were in the other slots.
LEMMA EvictedNumbers ==
  ASSUME NEW r, NEW t, NEW slots, Evicts(r, t, slots), NEW s \in SequenceNumber,
         Reassembly!Exists(t, s)
  PROVE  Reassembly!Exists(r, s) /\ Reassembly!Slot(s) \notin slots
<1>1. Reassembly!Slot(s) \in Reassembly!Index /\ s # None
  BY Instances, DataAssumption
<1> QED BY <1>1 DEF Evicts, Reassembly!Exists

\* An accepted packet is the one number entered, and nothing is opened.
LEMMA AcceptedNumbers ==
  ASSUME NEW e, NEW h \in Headers, Sound(e), NEW t \in SequenceNumber
  PROVE  /\ InWindow(Accept(e, h), t) => t = h.sequence \/ InWindow(e, t)
         /\ UnderReassembly(Accept(e, h), t) => UnderReassembly(e, t)
<1> DEFINE s == h.sequence
           r == e.fragment_reassembly
           b == IF Received!TestInsert(e.received_packets, s)
                THEN Received!Insert(e.received_packets, s) ELSE e.received_packets
           u == Reassembly!AdvanceWithCleanup(r, s)
           cleans == Reassembly!AdvanceCleans(r, s)
           heap == FreePacketData(e, cleans)
           f == With(e, b, heap, u)
<1>1. /\ s \in SequenceNumber /\ e \in Endpoints /\ r \in Buffers
      /\ e.received_packets \in ReceivedBuffers /\ e.heap \in Heaps /\ Memory(r, e.heap)
  BY SoundParts DEF Headers, Sound
<1>2. u \in Buffers /\ Evicts(r, u, cleans) /\ cleans \in SUBSET Reassembly!Index
  BY <1>1, ReassemblyAdvanced
<1>3. heap \in Heaps
  BY <1>1, <1>2, FreesExactly DEF Memory
<1>4. b \in ReceivedBuffers /\ (Received!Exists(b, t) => t = s \/ Received!Exists(e.received_packets, t))
  BY <1>1, ReceivedInserted, ReceivedNumbers
<1>5. Accept(e, h) = AckLoop(f, h)
  BY DEF Accept, With
<1> HIDE DEF u, cleans, heap, b
<1>6. f \in Endpoints /\ f.received_packets = b /\ f.fragment_reassembly = u
  BY <1>1, <1>2, <1>3, <1>4, WithType
<1> HIDE DEF f
<1>7. SameButAcks(f, AckLoop(f, h))
  BY <1>6, AckLoopType
<1> QED BY <1>2, <1>4, <1>5, <1>6, <1>7, EvictedNumbers DEF InWindow, UnderReassembly, SameButAcks

\* A completed packet's entry is gone.
LEMMA LeftNumbers ==
  ASSUME NEW e, NEW s \in SequenceNumber, Sound(e), NEW t \in SequenceNumber
  PROVE  /\ InWindow(Leave(e, s), t) => InWindow(e, t)
         /\ UnderReassembly(Leave(e, s), t) => t # s /\ UnderReassembly(e, t)
<1> DEFINE r == e.fragment_reassembly
           u == Reassembly!RemoveWithCleanup(r, s)
           cleans == Reassembly!RemoveCleans(r, s)
           heap == FreePacketData(e, cleans)
           f == With(e, e.received_packets, heap, u)
<1>1. /\ e \in Endpoints /\ r \in Buffers
      /\ e.received_packets \in ReceivedBuffers /\ e.heap \in Heaps /\ Memory(r, e.heap)
  BY SoundParts DEF Sound
<1>2. /\ u \in Buffers /\ cleans \in SUBSET Reassembly!Index
      /\ Evicts(r, u, {Reassembly!Slot(s)})
  BY <1>1, ReassemblyRemoved DEF Memory
<1>3. heap \in Heaps
  BY <1>1, <1>2, FreesExactly DEF Memory
<1>4. Leave(e, s) = Count(f, {"num_fragments_received"})
  BY DEF Leave, Sound, Endpoints, With
<1> HIDE DEF u, cleans, heap
<1>5. f \in Endpoints /\ f.received_packets = e.received_packets /\ f.fragment_reassembly = u
  BY <1>1, <1>2, <1>3, WithType
<1> HIDE DEF f
<1>6. SameButAcks(f, Count(f, {"num_fragments_received"}))
  BY <1>5, Counted
<1> QED BY <1>2, <1>4, <1>5, <1>6, EvictedNumbers DEF InWindow, UnderReassembly, SameButAcks

\* At the end of receive_packet the packet that was accepted, if it was rebuilt,
\* is the one whose entry is removed.
LEMMA FinishSettles ==
  ASSUME NEW e, Sound(e), Settled(e), NEW h, NEW s, NEW rebuilt \in BOOLEAN, NEW answer,
         answer = "accepted" =>
           /\ h \in Headers /\ Received!TestInsert(e.received_packets, h.sequence)
           /\ IF rebuilt THEN h.sequence = s ELSE ~OnlyInFragments(h.sequence),
         rebuilt => s \in SequenceNumber
  PROVE  Settled(Finish(e, h, s, rebuilt, answer))
<1> DEFINE answered == IF answer = "accepted" THEN Accept(e, h) ELSE e
           f == Finish(e, h, s, rebuilt, answer)
<1>1. Sound(answered)
  <2>1. answer = "accepted" => Sound(Accept(e, h))
    BY SoundAccepted
  <2> QED BY <2>1
<1>2. ASSUME NEW t \in SequenceNumber
      PROVE  /\ InWindow(answered, t) => InWindow(e, t) \/ (answer = "accepted" /\ t = h.sequence)
             /\ UnderReassembly(answered, t) => UnderReassembly(e, t)
  <2>1. CASE answer = "accepted"
    BY <2>1, AcceptedNumbers
  <2>2. CASE answer # "accepted"
    BY <2>2
  <2> QED BY <2>1, <2>2
<1>3. f = IF rebuilt THEN Leave(answered, s) ELSE answered
  BY DEF Finish
<1> HIDE DEF answered, f
<1>4. ASSUME NEW t \in SequenceNumber
      PROVE  /\ InWindow(f, t) => InWindow(e, t) \/ (answer = "accepted" /\ t = h.sequence)
             /\ UnderReassembly(f, t) => UnderReassembly(e, t) /\ (rebuilt => t # s)
  BY <1>1, <1>2, <1>3, LeftNumbers
<1>5. ASSUME NEW t \in SequenceNumber, OnlyInFragments(t), InWindow(f, t), UnderReassembly(f, t)
      PROVE  FALSE
  <2>1. UnderReassembly(e, t) /\ (rebuilt => t # s)
    BY <1>4, <1>5
  <2>2. ~InWindow(e, t)
    BY <1>5, <2>1 DEF Settled
  <2>3. answer = "accepted" /\ t = h.sequence
    BY <1>4, <1>5, <2>2
  <2> QED BY <1>5, <2>1, <2>3
<1> QED BY <1>5 DEF Settled, f

\* An entry is opened for a fragment's packet and for no other.
LEMMA OpenedNumbers ==
  ASSUME NEW e, NEW d \in Datagrams, d.type = "fragment", Sound(e), NEW t \in SequenceNumber
  PROVE  LET o == Opened(e, d)
             u == Reassembly!Emptied(o.fragment_reassembly, {Reassembly!Slot(d.sequence)})
         IN  /\ InWindow(o, t) => InWindow(e, t)
             /\ UnderReassembly(o, t) => t = d.sequence \/ UnderReassembly(e, t)
             /\ Reassembly!Exists(u, t) => UnderReassembly(e, t)
<1> DEFINE s == d.sequence
           i0 == Reassembly!Slot(s)
           i == Reassembly!Slot(t)
           r == e.fragment_reassembly
           w == Reassembly!InsertWithCleanup(r, s)
           u == Reassembly!Emptied(w, {i0})
           o == Opened(e, d)
<1>1. /\ s \in SequenceNumber /\ e \in Endpoints /\ r \in Buffers
      /\ e.received_packets \in ReceivedBuffers /\ Memory(r, e.heap)
      /\ i0 \in Reassembly!Index /\ i \in Reassembly!Index /\ t # None
  BY FragmentType, SoundParts, Instances, DataAssumption DEF Sound
<1>2. /\ w \in Buffers /\ w.entry_sequence[i0] = s
      /\ Evicts(r, u, Reassembly!AdvanceCleans(r, s) \cup {i0})
  BY <1>1, ReassemblyInserted DEF Memory
<1>3. /\ o.received_packets = Received!Advance(e.received_packets, s)
      /\ o.fragment_reassembly = w
  <2> HIDE DEF w
  <2> QED BY <1>1 DEF Opened, Endpoints, w
<1>4. InWindow(o, t) => InWindow(e, t)
  BY <1>1, <1>3, ReceivedNumbers DEF InWindow
<1>5. u.entry_sequence[i] = IF i \in {i0} THEN None ELSE w.entry_sequence[i]
  <2>1. {i0} \in SUBSET Reassembly!Index
    BY <1>1
  <2> HIDE DEF w, i, i0
  <2> QED BY <1>1, <1>2, <2>1, ReassemblyEmptied
<1> HIDE DEF o, w
<1>6. Reassembly!Exists(u, t) => UnderReassembly(e, t)
  <2> HIDE DEF u
  <2> QED BY <1>2, EvictedNumbers DEF UnderReassembly
<1>7. UnderReassembly(o, t) => t = s \/ UnderReassembly(e, t)
  <2> SUFFICES ASSUME w.entry_sequence[i] = t, t # s PROVE UnderReassembly(e, t)
    BY <1>3 DEF UnderReassembly, Reassembly!Exists
  <2>1. u.entry_sequence[i] = t
    <3> HIDE DEF u, i, i0
    <3> QED BY <1>2, <1>5
  <2> QED BY <1>6, <2>1 DEF Reassembly!Exists
<1> QED BY <1>3, <1>4, <1>6, <1>7 DEF o

\* A fragment may be stored for a packet that was not received, and for that
\* alone.
LEMMA PreparedSettles ==
  ASSUME NEW e, Sound(e), Settled(e), NEW d \in Datagrams, d.type = "fragment",
         ~InWindow(e, d.sequence), NEW f \in Prepared(e, d)
  PROVE  Settled(f)
<1>1. CASE HasEntry(e, d)
  BY <1>1 DEF Prepared
<1>2. CASE ~HasEntry(e, d)
  <2> DEFINE o == Opened(e, d)
  <2>1. PICK p \in Allocations(o.heap) \ {NULL} : f = Allocated(e, d, p)
    BY <1>2 DEF Prepared
  <2>2. p \in Blocks /\ o.heap[p] = Free
    BY <2>1 DEF Allocations
  <2>3. /\ f.received_packets = o.received_packets
        /\ f.fragment_reassembly.entry_sequence = o.fragment_reassembly.entry_sequence
    BY <2>1, <2>2, SoundAllocated DEF Begins
  <2>4. ASSUME NEW t \in SequenceNumber
        PROVE  /\ InWindow(o, t) => InWindow(e, t)
               /\ UnderReassembly(o, t) => t = d.sequence \/ UnderReassembly(e, t)
    BY OpenedNumbers
  <2> HIDE DEF o
  <2>5. Settled(o)
    BY <2>4 DEF Settled
  <2> QED BY <2>3, <2>5, SameFewer, FewerSettled
<1> QED BY <1>1, <1>2

\* A fragment dropped for want of memory leaves no entry.
LEMMA UnallocatedSettles ==
  ASSUME NEW e, Sound(e), Settled(e), NEW d \in Datagrams, d.type = "fragment"
  PROVE  Settled(Unallocated(e, d))
<1> DEFINE o == Opened(e, d)
           f == Unallocated(e, d)
           u == Reassembly!Emptied(o.fragment_reassembly, {Reassembly!Slot(d.sequence)})
<1>1. /\ f.received_packets = o.received_packets
      /\ \A i \in Reassembly!Index :
           f.fragment_reassembly.entry_sequence[i] = u.entry_sequence[i]
  BY SoundUnallocated DEF GivesUp
<1>2. ASSUME NEW t \in SequenceNumber
      PROVE  /\ InWindow(o, t) => InWindow(e, t)
             /\ Reassembly!Exists(u, t) => UnderReassembly(e, t)
  BY OpenedNumbers
<1>3. \A t \in SequenceNumber : Reassembly!Slot(t) \in Reassembly!Index
  BY Instances
<1> HIDE DEF o, f, u
<1>4. Fewer(e, f)
  BY <1>1, <1>2, <1>3 DEF Fewer, InWindow, UnderReassembly, Reassembly!Exists
<1> QED BY <1>4, FewerSettled DEF f

\* Storing a fragment moves nothing.
LEMMA StoredSettles ==
  ASSUME NEW e, Sound(e), Settled(e), NEW d \in Datagrams, d.type = "fragment",
         ReadFragmentHeader(d), HasEntry(e, d)
  PROVE  Settled(Store(e, d))
<1>1. /\ Store(e, d).received_packets = e.received_packets
      /\ Store(e, d).fragment_reassembly.entry_sequence = e.fragment_reassembly.entry_sequence
  BY DEF Store, Sound, Endpoints, Reassembly!Write, Reassembly!BufferOf
<1> QED BY <1>1, SameFewer, FewerSettled

\* Counting is not restarting.
LEMMA CountedSettles ==
  ASSUME NEW e, Settled(e), NEW f, SameButAcks(e, f)
  PROVE  Settled(f)
BY SameFewer, FewerSettled DEF SameButAcks

\* Nothing is under reassembly after create and after reset.
LEMMA EmptySettles ==
  ASSUME NEW e, Sound(e)
  PROVE  Settled(Created) /\ Settled(ResetOf(e))
<1>1. ASSUME NEW t \in SequenceNumber
      PROVE  Reassembly!Slot(t) \in Reassembly!Index /\ t # None
  BY Instances, DataAssumption
<1>2. \A i \in Reassembly!Index : Created.fragment_reassembly.entry_sequence[i] = None
  BY DEF Created, Reassembly!Create
<1>3. \A i \in Reassembly!Index : ResetOf(e).fragment_reassembly.entry_sequence[i] = None
  <2> DEFINE m == Reassembly!Cleaned(e.fragment_reassembly,
                                     Reassembly!Occupied(e.fragment_reassembly))
  <2>1. m \in Buffers
    BY ReassemblyCleaned, OccupiedIsIndex, SoundParts
  <2>2. ResetOf(e).fragment_reassembly = Reassembly!Reset(m)
    <3> DEFINE u == Reassembly!Reset(m)
    <3> HIDE DEF u
    <3> QED BY DEF ResetOf, Created, u
  <2> HIDE DEF m
  <2> QED BY <2>1, <2>2 DEF Reassembly!Reset, Buffers, Reassembly!BufferOf
<1> QED BY <1>1, <1>2, <1>3 DEF Settled, UnderReassembly, Reassembly!Exists

\* A regular packet comes in one piece, so its number is not one of those.
LEMMA RegularIsWhole ==
  ASSUME NEW d \in Datagrams, d.type = "regular", d.header # None
  PROVE  ~OnlyInFragments(d.header.sequence)
BY DEF OnlyInFragments

\* receive_packet restarts nothing, whatever it is given and answered.
LEMMA ReceivedSettles ==
  ASSUME Sound(endpoint), Settled(endpoint), NEW d \in Datagrams, NEW answer \in Answers,
         ReceivePacket(d, answer)
  PROVE  Settled(endpoint')
<1> DEFINE e == endpoint
<1>0. \A names : SameButAcks(e, Count(e, names))
  BY Counted DEF Sound
<1>1. CASE ReceiveRegular(d, answer)
  <2> DEFINE a == Arrive(e, d.header, d.content)
  <2>1. d.type = "regular" /\ endpoint' = Finish(a, d.header, None, FALSE, answer)
    BY <1>1 DEF ReceiveRegular
  <2>2. Sound(a) /\ SameButAcks(e, a) /\ Settled(a)
    BY SoundArrived, CountedSettles
  <2>3. ASSUME answer = "accepted"
        PROVE  /\ d.header \in Headers /\ Received!TestInsert(a.received_packets, d.header.sequence)
               /\ ~OnlyInFragments(d.header.sequence)
    <3>1. Processes(e, d.header, d.content)
      BY <1>1, <2>3 DEF ReceiveRegular
    <3>2. d.header # None /\ Received!TestInsert(e.received_packets, d.header.sequence)
      BY <3>1, ProcessesFresh
    <3>3. d.header \in Headers \cup {None}
      BY <2>1, DataAssumption DEF Datagram
    <3> QED BY <2>1, <2>2, <3>2, <3>3, RegularIsWhole DEF SameButAcks
  <2> HIDE DEF a
  <2> QED BY <2>1, <2>2, <2>3, FinishSettles
<1>2. CASE ReceiveFragment(d, answer)
  <2>1. /\ d.type = "fragment" /\ ReadFragmentHeader(d)
        /\ ~InWindow(e, d.sequence) /\ d.sequence \in SequenceNumber
    BY <1>2, FragmentType DEF ReceiveFragment, Wanted, InWindow
  <2>2. PICK prepared \in Prepared(e, d) :
          LET stored == Store(prepared, d)
              data == Reassembly!Find(stored.fragment_reassembly, d.sequence)
              packet == Rebuilt(stored, data)
          IN  IF Complete(data)
              THEN /\ (answer = "unused") <=> ~Processes(stored, packet.header, packet.content)
                   /\ endpoint' = Finish(Arrive(stored, packet.header, packet.content),
                                         packet.header, d.sequence, TRUE, answer)
              ELSE /\ answer = "unused"
                   /\ endpoint' = Count(stored, {"num_fragments_received"})
    BY <1>2 DEF ReceiveFragment
  <2> DEFINE stored == Store(prepared, d)
             data == Reassembly!Find(stored.fragment_reassembly, d.sequence)
             packet == Rebuilt(stored, data)
             a == Arrive(stored, packet.header, packet.content)
  <2>3. Sound(stored) /\ HasEntry(stored, d) /\ Settled(stored)
    <3>1. /\ Sound(prepared) /\ HasEntry(prepared, d)
          /\ ~Mismatched(prepared, d) /\ ~AlreadyStored(prepared, d)
      BY <2>1, SoundPrepared
    <3>2. Settled(prepared)
      BY <2>1, PreparedSettles
    <3> QED BY <2>1, <3>1, <3>2, SoundStored, StoredSettles
  <2>4. CASE Complete(data)
    <3>1. /\ (answer = "unused") <=> ~Processes(stored, packet.header, packet.content)
          /\ endpoint' = Finish(a, packet.header, d.sequence, TRUE, answer)
      BY <2>2, <2>4
    <3>2. /\ packet.header \in Headers \cup {None}
          /\ packet.header # None => packet.header.sequence = d.sequence
      <4> HIDE DEF stored
      <4> QED BY <2>1, <2>3, RebuiltBelongs
    <3> HIDE DEF packet, stored
    <3>3. Sound(a) /\ SameButAcks(stored, a) /\ Settled(a)
      BY <2>3, SoundArrived, CountedSettles
    <3>4. answer = "accepted" =>
            /\ packet.header \in Headers /\ packet.header.sequence = d.sequence
            /\ Received!TestInsert(a.received_packets, packet.header.sequence)
      BY <3>1, <3>2, <3>3, ProcessesFresh DEF SameButAcks
    <3> HIDE DEF a
    <3> QED BY <2>1, <3>1, <3>3, <3>4, FinishSettles
  <2>5. CASE ~Complete(data)
    <3>1. endpoint' = Count(stored, {"num_fragments_received"})
      BY <2>2, <2>5
    <3> HIDE DEF stored
    <3> QED BY <2>3, <3>1, Counted, CountedSettles DEF Sound
  <2> QED BY <2>4, <2>5
<1>3. CASE \/ ReceiveFragmentTooLarge(d) \/ ReceiveInvalidFragment(d) \/ IgnoreFragment(d)
  <2>1. endpoint' = e \/ \E names : endpoint' = Count(e, names)
    BY <1>3 DEF ReceiveFragmentTooLarge, ReceiveInvalidFragment, IgnoreFragment
  <2> QED BY <1>0, <2>1, CountedSettles
<1>4. CASE FailToAllocate(d)
  BY <1>4, UnallocatedSettles DEF FailToAllocate
<1> QED BY <1>1, <1>2, <1>3, <1>4 DEF ReceivePacket

\* The application's calls restart nothing.
LEMMA CallsSettle ==
  ASSUME Sound(endpoint), Settled(endpoint),
         \/ \E content \in Packets : SendPacket(content) \/ SendTooLarge(content)
         \/ ClearAcks
         \/ Reset
  PROVE  Settled(endpoint')
<1>1. CASE \E content \in Packets : SendPacket(content) \/ SendTooLarge(content)
  <2>1. /\ endpoint'.received_packets = endpoint.received_packets
        /\ endpoint'.fragment_reassembly = endpoint.fragment_reassembly
    BY <1>1 DEF SendPacket, SendTooLarge, Track, Count, Sound, Endpoints
  <2> QED BY <2>1, SameFewer, FewerSettled
<1>2. CASE ClearAcks
  <2>1. /\ endpoint'.received_packets = endpoint.received_packets
        /\ endpoint'.fragment_reassembly = endpoint.fragment_reassembly
    BY <1>2 DEF ClearAcks, Sound, Endpoints
  <2> QED BY <2>1, SameFewer, FewerSettled
<1>3. CASE Reset
  BY <1>3, EmptySettles DEF Reset
<1> QED BY <1>1, <1>2, <1>3

\* It is the property.
LEMMA SettledMeans == Settled(endpoint) <=> NeverRestarted
BY DEF Settled, NeverRestarted, InWindow, UnderReassembly

\* Duplicate fragments do not restart a packet that was received, whatever is
\* received, dropped for want of memory, sent or reset.
THEOREM NotRestarted == Spec => []NeverRestarted
<1>1. Init => NeverRestarted
  BY SoundCreated, EmptySettles, SettledMeans DEF Init
<1>2. Sound(endpoint) /\ NeverRestarted /\ [Next]_endpoint => NeverRestarted'
  <2> SUFFICES ASSUME Sound(endpoint), Settled(endpoint), [Next]_endpoint
               PROVE  Settled(endpoint')
    BY SettledMeans DEF Settled, NeverRestarted, InWindow, UnderReassembly
  <2>1. CASE \E d \in Datagrams, answer \in Answers : ReceivePacket(d, answer)
    BY <2>1, ReceivedSettles
  <2>2. CASE UNCHANGED endpoint
    BY <2>2
  <2> QED BY <2>1, <2>2, CallsSettle DEF Next
<1> QED BY <1>1, <1>2, SoundInv, PTL DEF Spec

-----------------------------------------------------------------------------
(* The theorems of CallSpec                                                *)

CallRecords ==
  [header : Headers, sequence : SequenceNumber, content : Seq(Byte),
   rebuilt : BOOLEAN, block : Blocks \cup {NULL}]

\* The calls inside their callback are of packets under their own number.
Calls == {c \in CallRecords : c.header.sequence = c.sequence}

\* Where the callback neither receives nor resets, calls do not nest.
Flat == callback_may \subseteq {"send", "clear"} => Len(calls) <= 1

\* What every call, however deep, keeps.
CallInv == Sound(endpoint) /\ calls \in Seq(Calls) /\ Flat /\ PayloadStays

\* What a packet rebuilt out of its block is.
LEMMA RebuiltContent ==
  ASSUME NEW e, Sound(e), NEW d \in Datagrams, d.type = "fragment", HasEntry(e, d),
         NEW data, data = Reassembly!Find(e.fragment_reassembly, d.sequence),
         NEW packet, packet = Rebuilt(e, data), packet.header # None
  PROVE  /\ packet.content \in Seq(Byte)
         /\ SubSeq(e.heap[data.packet_data].data, 1, Len(packet.content)) = packet.content
<1> DEFINE block == e.heap[data.packet_data]
<1>1. data \in ReassemblyData /\ block \in BlockContents /\ Agrees(data, block, d.sequence)
  BY FragmentType, SoundEntry DEF HasEntry
<1>2. packet.content = SubSeq(block.data, 1, data.packet_bytes)
  BY RebuiltBelongs
<1>3. /\ block.data \in Seq(Byte) /\ data.packet_bytes \in 0 .. Len(block.data)
  BY <1>1 DEF BlockContents, ReassemblyData, Agrees
<1> HIDE DEF block
<1>4. SubSeq(block.data, 1, data.packet_bytes) \in Seq(Byte)
  BY <1>3
<1>5. Len(SubSeq(block.data, 1, data.packet_bytes)) = data.packet_bytes
  BY <1>3
<1> QED BY <1>2, <1>4, <1>5 DEF block

\* What receive_packet does up to the callback keeps the endpoint sound, and the
\* callback is given a packet under its own number, out of a block that holds it.
LEMMA UpToCallback ==
  ASSUME CallInv, NEW d \in Datagrams, RegularUpToCallback(d) \/ RebuiltUpToCallback(d)
  PROVE  /\ Sound(endpoint')
         /\ \E top \in Calls :
              /\ calls' = Append(calls, top)
              /\ top.rebuilt =>
                   /\ Live(endpoint'.heap, top.block)
                   /\ endpoint'.heap[top.block].header = top.header
                   /\ SubSeq(endpoint'.heap[top.block].data, 1, Len(top.content)) = top.content
<1>1. CASE RegularUpToCallback(d)
  <2> DEFINE top == Call(d.header, d.header.sequence, d.content, FALSE, NULL)
  <2>1. Sound(endpoint')
    BY <1>1, SoundArrived DEF RegularUpToCallback, CallInv
  <2>2. d.header # None
    BY <1>1, ProcessesFresh DEF RegularUpToCallback
  <2>3. d.header \in Headers /\ d.content \in Seq(Byte)
    BY <1>1, <2>2, DataAssumption DEF RegularUpToCallback, Datagram
  <2>4. top \in Calls /\ ~top.rebuilt
    BY <2>3 DEF Call, Calls, CallRecords, Headers
  <2>5. calls' = Append(calls, top)
    BY <1>1 DEF RegularUpToCallback
  <2> HIDE DEF top
  <2> QED BY <2>1, <2>4, <2>5
<1>2. CASE RebuiltUpToCallback(d)
  <2>1. d.type = "fragment" /\ ReadFragmentHeader(d)
    BY <1>2 DEF RebuiltUpToCallback, Wanted
  <2>2. PICK prepared \in Prepared(endpoint, d) :
          LET stored == Store(prepared, d)
              data == Reassembly!Find(stored.fragment_reassembly, d.sequence)
              packet == Rebuilt(stored, data)
          IN  /\ Complete(data) /\ Processes(stored, packet.header, packet.content)
              /\ endpoint' = Arrive(stored, packet.header, packet.content)
              /\ calls' = Append(calls, Call(packet.header, d.sequence, packet.content,
                                             TRUE, data.packet_data))
    BY <1>2 DEF RebuiltUpToCallback
  <2> DEFINE stored == Store(prepared, d)
             data == Reassembly!Find(stored.fragment_reassembly, d.sequence)
             packet == Rebuilt(stored, data)
             top == Call(packet.header, d.sequence, packet.content, TRUE, data.packet_data)
  <2>3. Sound(stored) /\ HasEntry(stored, d)
    <3>1. Sound(prepared) /\ HasEntry(prepared, d) /\ ~Mismatched(prepared, d) /\ ~AlreadyStored(prepared, d)
      BY <2>1, SoundPrepared DEF CallInv
    <3> QED BY <2>1, <3>1, SoundStored
  <2>4. packet.header # None
    BY <2>2, ProcessesFresh
  <2>5. /\ endpoint' = Arrive(stored, packet.header, packet.content)
        /\ calls' = Append(calls, top)
    BY <2>2
  <2> HIDE DEF stored
  <2>6. /\ packet.header \in Headers /\ packet.header.sequence = d.sequence
        /\ packet.header = stored.heap[data.packet_data].header
    BY <2>1, <2>3, <2>4, RebuiltBelongs
  <2>7. /\ packet.content \in Seq(Byte)
        /\ SubSeq(stored.heap[data.packet_data].data, 1, Len(packet.content)) = packet.content
    BY <2>1, <2>3, <2>4, RebuiltContent
  <2>8. Live(stored.heap, data.packet_data) /\ data.packet_data \in Blocks /\ d.sequence \in SequenceNumber
    BY <2>1, <2>3, FragmentType, SoundEntry DEF HasEntry
  <2> HIDE DEF packet, data
  <2>9. Sound(endpoint') /\ endpoint'.heap = stored.heap
    BY <2>3, <2>5, SoundArrived DEF SameButAcks
  <2>10. /\ top \in Calls /\ top.header = packet.header /\ top.content = packet.content
         /\ top.block = data.packet_data
    BY <2>6, <2>7, <2>8 DEF Call, Calls, CallRecords
  <2> HIDE DEF top
  <2> QED BY <2>5, <2>6, <2>7, <2>8, <2>9, <2>10
<1> QED BY <1>1, <1>2

\* The blocks of the calls on the stack are left alone by an operation that
\* changes neither the heap nor the stack.
LEMMA SamePayloads ==
  ASSUME PayloadStays, endpoint'.heap = endpoint.heap, UNCHANGED <<calls, callback_may>>
  PROVE  PayloadStays'
BY DEF PayloadStays, Live

\* What is done outside every callback leaves no block to be kept.
LEMMA NoPayloads ==
  ASSUME calls = <<>>, UNCHANGED calls
  PROVE  PayloadStays'
BY DEF PayloadStays

\* Every call keeps the invariant.
LEMMA CallStep == CallInv /\ [CallNext]_vars => CallInv'
<1> SUFFICES ASSUME CallInv, [CallNext]_vars PROVE CallInv'
  OBVIOUS
<1>0. /\ Sound(endpoint) /\ calls \in Seq(Calls) /\ Flat /\ PayloadStays
      /\ Len(calls) \in Nat /\ (calls = <<>> <=> Len(calls) = 0)
  <2>1. \A q \in Seq(Calls) : Len(q) \in Nat /\ (q = <<>> <=> Len(q) = 0)
    OBVIOUS
  <2> QED BY <2>1 DEF CallInv
<1>1. ASSUME Sound(endpoint'), UNCHANGED calls, UNCHANGED callback_may, PayloadStays'
      PROVE  CallInv'
  <2>1. Sound(endpoint)'
    BY <1>1 DEF Sound, Memory, Owns, Belongs, Block, Live, Agrees
  <2> QED BY <1>0, <1>1, <2>1 DEF CallInv, Flat
<1>2. ASSUME NEW d \in Datagrams, Receive(d), UNCHANGED callback_may PROVE CallInv'
  <2>1. Sound(endpoint')
    <3>1. "unused" \in Answers /\ ReceivePacket(d, "unused")
      BY <1>2 DEF Answers, Receive
    <3> QED BY <1>0, <3>1, SoundReceived
  <2>2. PayloadStays'
    <3>1. CASE calls = <<>>
      BY <1>2, <3>1, NoPayloads DEF Receive
    <3>2. CASE "receive" \in callback_may
      BY <1>2, <3>2 DEF PayloadStays
    <3> QED BY <1>2, <3>1, <3>2 DEF Receive, May
  <2> QED BY <1>1, <1>2, <2>1, <2>2 DEF Receive
<1>3. ASSUME NEW d \in Datagrams, ReceiveUpToCallback(d), UNCHANGED callback_may PROVE CallInv'
  <2>1. RegularUpToCallback(d) \/ RebuiltUpToCallback(d)
    BY <1>3 DEF ReceiveUpToCallback
  <2>2. Sound(endpoint')
    BY <2>1, UpToCallback
  <2>3. PICK top \in Calls :
          /\ calls' = Append(calls, top)
          /\ top.rebuilt =>
               /\ Live(endpoint'.heap, top.block)
               /\ endpoint'.heap[top.block].header = top.header
               /\ SubSeq(endpoint'.heap[top.block].data, 1, Len(top.content)) = top.content
    BY <2>1, UpToCallback
  <2>4. calls' \in Seq(Calls) /\ Len(calls') = Len(calls) + 1
    BY <1>0, <2>3
  <2>5. callback_may \subseteq {"send", "clear"} => calls = <<>>
    BY <1>3 DEF ReceiveUpToCallback, May
  <2>6. Flat'
    BY <1>0, <1>3, <2>4, <2>5 DEF Flat
  <2>7. PayloadStays'
    <3> SUFFICES ASSUME callback_may \subseteq {"send", "clear"} PROVE PayloadStays'
      BY <1>3 DEF PayloadStays
    <3>1. \A q \in Seq(Calls) : Append(q, top)[Len(q) + 1] = top
      OBVIOUS
    <3>2. DOMAIN calls' = {1} /\ calls'[1] = top
      <4>1. Len(calls) = 0 /\ Len(calls') = 1 /\ DOMAIN calls' = 1 .. Len(calls')
        BY <1>0, <2>4, <2>5
      <4> QED BY <1>0, <2>3, <3>1, <4>1
    <3> QED BY <2>3, <3>2 DEF PayloadStays, Live
  <2>8. Sound(endpoint)'
    BY <2>2 DEF Sound, Memory, Owns, Belongs, Block, Live, Agrees
  <2> QED BY <2>4, <2>6, <2>7, <2>8 DEF CallInv
<1>4. ASSUME NEW answer \in {"accepted", "rejected"}, Return(answer), UNCHANGED callback_may
      PROVE  CallInv'
  <2>1. calls # <<>> /\ Top \in Calls
    BY <1>0, <1>4 DEF Return, Top
  <2>2. /\ Top.header \in Headers /\ Top.sequence \in SequenceNumber
        /\ Top.header.sequence = Top.sequence /\ Top.rebuilt \in BOOLEAN
    BY <2>1 DEF Calls, CallRecords
  <2>3. Sound(endpoint')
    <3>1. /\ endpoint' = Finish(endpoint, Top.header, Top.sequence, Top.rebuilt, answer)
          /\ answer = "accepted" => Received!TestInsert(endpoint.received_packets, Top.sequence)
      BY <1>4 DEF Return
    <3> QED BY <1>0, <2>2, <3>1, SoundFinished
  <2>4. /\ calls' = SubSeq(calls, 1, Len(calls) - 1)
        /\ calls' \in Seq(Calls) /\ Len(calls') = Len(calls) - 1
    <3>1. calls' = SubSeq(calls, 1, Len(calls) - 1)
      BY <1>4 DEF Return
    <3>2. Len(calls) - 1 \in 0 .. Len(calls)
      BY <1>0, <2>1
    <3>3. \A q \in Seq(Calls) : \A n \in 0 .. Len(q) :
            SubSeq(q, 1, n) \in Seq(Calls) /\ Len(SubSeq(q, 1, n)) = n
      OBVIOUS
    <3> QED BY <1>0, <3>1, <3>2, <3>3
  <2>5. Flat'
    BY <1>0, <1>4, <2>4 DEF Flat
  <2>6. PayloadStays'
    <3> SUFFICES ASSUME callback_may \subseteq {"send", "clear"} PROVE PayloadStays'
      BY <1>4 DEF PayloadStays
    <3>1. Len(calls') = 0
      BY <1>0, <2>1, <2>4 DEF Flat
    <3>2. DOMAIN calls' = 1 .. Len(calls')
      BY <2>4
    <3> QED BY <3>1, <3>2 DEF PayloadStays
  <2>7. Sound(endpoint)'
    BY <2>3 DEF Sound, Memory, Owns, Belongs, Block, Live, Agrees
  <2> QED BY <2>4, <2>5, <2>6, <2>7 DEF CallInv
<1>5. ASSUME Send, UNCHANGED callback_may PROVE CallInv'
  <2>1. PICK content \in Packets : SendPacket(content)
    BY <1>5 DEF Send
  <2>2. endpoint'.heap = endpoint.heap
    BY <1>0, <2>1 DEF SendPacket, Track, Sound, Endpoints
  <2> QED BY <1>0, <1>1, <1>5, <2>1, <2>2, SoundSent, SamePayloads DEF Send
<1>6. ASSUME Clear, UNCHANGED callback_may PROVE CallInv'
  <2>1. endpoint'.heap = endpoint.heap
    BY <1>0, <1>6 DEF Clear, ClearAcks, Sound, Endpoints
  <2> QED BY <1>0, <1>1, <1>6, <2>1, SoundCleared, SamePayloads DEF Clear
<1>7. ASSUME ResetCall, UNCHANGED callback_may PROVE CallInv'
  <2>1. Sound(endpoint')
    BY <1>0, <1>7, SoundReset DEF ResetCall, Reset
  <2>2. PayloadStays'
    <3>1. CASE calls = <<>>
      BY <1>7, <3>1, NoPayloads DEF ResetCall
    <3>2. CASE "reset" \in callback_may
      BY <1>7, <3>2 DEF PayloadStays
    <3> QED BY <1>7, <3>1, <3>2 DEF ResetCall, May
  <2> QED BY <1>1, <1>7, <2>1, <2>2 DEF ResetCall
<1>8. CASE UNCHANGED vars
  <2>1. endpoint' = endpoint /\ UNCHANGED calls /\ UNCHANGED callback_may
    BY <1>8 DEF vars
  <2> QED BY <1>0, <1>1, <2>1, SamePayloads
<1> QED BY <1>2, <1>3, <1>4, <1>5, <1>6, <1>7, <1>8 DEF CallNext

\* The invariant of the calls.
LEMMA CallInvariant == CallSpec => []CallInv
<1>1. CallInit => CallInv
  <2> SUFFICES ASSUME CallInit PROVE CallInv
    OBVIOUS
  <2>1. Sound(endpoint) /\ calls = <<>>
    BY SoundCreated DEF CallInit, Init
  <2>2. calls \in Seq(Calls) /\ Len(calls) = 0 /\ DOMAIN calls = {}
    BY <2>1
  <2> QED BY <2>1, <2>2 DEF CallInv, Flat, PayloadStays
<1> QED BY <1>1, CallStep, PTL DEF CallSpec

\* Memory stays owned although the callback sends, receives, clears acks or
\* resets in the middle of receive_packet, to any depth.
THEOREM MemoryOwnedInCalls == CallSpec => []Ownership
<1>1. CallInv => Ownership
  BY SoundMeans DEF CallInv
<1> QED BY <1>1, CallInvariant, PTL

\* So do the windows stand together, though receive_packet moves one before and
\* one after the callback.
THEOREM WindowsTogetherInCalls == CallSpec => []WindowsTogether
<1>1. CallInv => WindowsTogether
  BY SoundMeans DEF CallInv
<1> QED BY <1>1, CallInvariant, PTL

\* And packet_data stays valid for the duration of the call, for a callback that
\* neither receives nor resets.
THEOREM PayloadsStay == CallSpec => []PayloadStays
<1>1. CallInv => PayloadStays
  BY DEF CallInv
<1> QED BY <1>1, CallInvariant, PTL

\* A packet that is processed as it came has no number of a fragmented one.
WholeOrRebuilt ==
  \A k \in DOMAIN calls : calls[k].rebuilt \/ ~OnlyInFragments(calls[k].sequence)

\* receive_packet has restarted nothing when it calls the callback.
LEMMA UpToCallbackSettles ==
  ASSUME Sound(endpoint), Settled(endpoint), NEW d \in Datagrams,
         RegularUpToCallback(d) \/ RebuiltUpToCallback(d)
  PROVE  /\ Settled(endpoint')
         /\ \E top : /\ calls' = Append(calls, top)
                     /\ top.rebuilt \/ ~OnlyInFragments(top.sequence)
<1> DEFINE e == endpoint
<1>1. CASE RegularUpToCallback(d)
  <2>1. d.type = "regular" /\ d.header # None
    BY <1>1, ProcessesFresh DEF RegularUpToCallback
  <2>2. /\ endpoint' = Arrive(e, d.header, d.content)
        /\ calls' = Append(calls, Call(d.header, d.header.sequence, d.content, FALSE, NULL))
    BY <1>1 DEF RegularUpToCallback
  <2>3. Settled(Arrive(e, d.header, d.content))
    BY SoundArrived, CountedSettles
  <2>4. Call(d.header, d.header.sequence, d.content, FALSE, NULL).sequence = d.header.sequence
    BY DEF Call
  <2> QED BY <2>1, <2>2, <2>3, <2>4, RegularIsWhole
<1>2. CASE RebuiltUpToCallback(d)
  <2>1. /\ d.type = "fragment" /\ ReadFragmentHeader(d) /\ ~InWindow(e, d.sequence)
    BY <1>2 DEF RebuiltUpToCallback, Wanted, InWindow
  <2>2. PICK prepared \in Prepared(e, d) :
          LET stored == Store(prepared, d)
              data == Reassembly!Find(stored.fragment_reassembly, d.sequence)
              packet == Rebuilt(stored, data)
          IN  /\ endpoint' = Arrive(stored, packet.header, packet.content)
              /\ calls' = Append(calls, Call(packet.header, d.sequence, packet.content,
                                             TRUE, data.packet_data))
    BY <1>2 DEF RebuiltUpToCallback
  <2> DEFINE stored == Store(prepared, d)
             data == Reassembly!Find(stored.fragment_reassembly, d.sequence)
             packet == Rebuilt(stored, data)
  <2>3. Sound(stored) /\ Settled(stored)
    <3>1. /\ Sound(prepared) /\ HasEntry(prepared, d)
          /\ ~Mismatched(prepared, d) /\ ~AlreadyStored(prepared, d)
      BY <2>1, SoundPrepared
    <3>2. Settled(prepared)
      BY <2>1, PreparedSettles
    <3> QED BY <2>1, <3>1, <3>2, SoundStored, StoredSettles
  <2>4. Call(packet.header, d.sequence, packet.content, TRUE, data.packet_data).rebuilt
    BY DEF Call
  <2>5. endpoint' = Arrive(stored, packet.header, packet.content)
    BY <2>2
  <2> HIDE DEF stored, packet, data
  <2>6. Settled(endpoint')
    BY <2>3, <2>5, SoundArrived, CountedSettles
  <2> QED BY <2>2, <2>4, <2>6 DEF stored, packet, data
<1> QED BY <1>1, <1>2

\* Nor do duplicate fragments that arrive inside the callback, in which packets
\* are processed whose entries are removed when their callback returns.
THEOREM NotRestartedInCalls == CallSpec => []NeverRestarted
<1> DEFINE I == NeverRestarted /\ WholeOrRebuilt
<1>1. CallInit => I
  <2>1. CallInit => Settled(endpoint) /\ DOMAIN calls = {}
    BY SoundCreated, EmptySettles DEF CallInit, Init
  <2> QED BY <2>1, SettledMeans DEF WholeOrRebuilt
<1>2. CallInv /\ I /\ [CallNext]_vars => I'
  <2> SUFFICES ASSUME CallInv, Settled(endpoint), WholeOrRebuilt, [CallNext]_vars
               PROVE  Settled(endpoint') /\ WholeOrRebuilt'
    BY SettledMeans DEF Settled, NeverRestarted, InWindow, UnderReassembly
  <2>0. /\ Sound(endpoint) /\ calls \in Seq(Calls)
        /\ UNCHANGED calls => WholeOrRebuilt'
    BY DEF CallInv, WholeOrRebuilt
  <2>1. ASSUME NEW d \in Datagrams, Receive(d)
        PROVE  Settled(endpoint') /\ WholeOrRebuilt'
    <3>1. "unused" \in Answers /\ ReceivePacket(d, "unused") /\ UNCHANGED calls
      BY <2>1 DEF Answers, Receive
    <3> QED BY <2>0, <3>1, ReceivedSettles
  <2>2. ASSUME NEW d \in Datagrams, ReceiveUpToCallback(d)
        PROVE  Settled(endpoint') /\ WholeOrRebuilt'
    <3>1. RegularUpToCallback(d) \/ RebuiltUpToCallback(d)
      BY <2>2 DEF ReceiveUpToCallback
    <3>2. Settled(endpoint')
      BY <2>0, <3>1, UpToCallbackSettles
    <3>3. PICK top : /\ calls' = Append(calls, top)
                     /\ top.rebuilt \/ ~OnlyInFragments(top.sequence)
      BY <2>0, <3>1, UpToCallbackSettles
    <3>4. ASSUME NEW k \in DOMAIN calls'
          PROVE  calls'[k] = top \/ (k \in DOMAIN calls /\ calls'[k] = calls[k])
      BY <2>0, <3>3
    <3> QED BY <3>2, <3>3, <3>4 DEF WholeOrRebuilt
  <2>3. ASSUME NEW answer \in {"accepted", "rejected"}, Return(answer)
        PROVE  Settled(endpoint') /\ WholeOrRebuilt'
    <3>1. calls # <<>> /\ Len(calls) \in DOMAIN calls /\ Top \in Calls
      BY <2>0, <2>3 DEF Return, Top
    <3>2. /\ Top.header \in Headers /\ Top.sequence \in SequenceNumber
          /\ Top.header.sequence = Top.sequence /\ Top.rebuilt \in BOOLEAN
          /\ Top.rebuilt \/ ~OnlyInFragments(Top.sequence)
      BY <3>1 DEF Calls, CallRecords, WholeOrRebuilt, Top
    <3>3. /\ endpoint' = Finish(endpoint, Top.header, Top.sequence, Top.rebuilt, answer)
          /\ answer = "accepted" => Received!TestInsert(endpoint.received_packets, Top.sequence)
          /\ calls' = SubSeq(calls, 1, Len(calls) - 1)
      BY <2>3 DEF Return
    <3>4. Settled(endpoint')
      BY <2>0, <3>2, <3>3, FinishSettles
    <3>5. ASSUME NEW k \in DOMAIN calls'
          PROVE  k \in DOMAIN calls /\ calls'[k] = calls[k]
      BY <2>0, <3>1, <3>3
    <3> QED BY <3>4, <3>5 DEF WholeOrRebuilt
  <2>4. CASE Send \/ Clear \/ ResetCall
    BY <2>0, <2>4, CallsSettle DEF Send, Clear, ResetCall
  <2>5. CASE UNCHANGED vars
    BY <2>0, <2>5 DEF vars
  <2> QED BY <2>1, <2>2, <2>3, <2>4, <2>5 DEF CallNext
<1>3. I => NeverRestarted
  OBVIOUS
<1> QED BY <1>1, <1>2, <1>3, CallInvariant, PTL DEF CallSpec

-----------------------------------------------------------------------------
(* The port's specification: the mapping *)

\* The lemmas on remainders.
Numbers == INSTANCE SequenceBufferProofs
  WITH NumEntries <- SentPacketsBufferSize, Default <- FALSE

\* The mapping, of any buffers and heap.
MapSent(b) ==
  [sequence |-> b.sequence, entry_sequence |-> b.entry_sequence,
   entries |-> [i \in Sent!Index |->
                  IF b.entry_sequence[i] = None THEN FALSE ELSE b.entry_data[i]]]

MapReceived(b) ==
  [sequence |-> b.sequence, entry_sequence |-> b.entry_sequence,
   entries |-> [i \in Received!Index |-> None]]

MapEntry(data, heap) ==
  [num_fragments_received |-> data.num_fragments_received,
   num_fragments_total |-> data.num_fragments_total,
   fragment_received |-> data.fragment_received,
   packet_data |-> heap[data.packet_data].data,
   packet_bytes |-> data.packet_bytes,
   header |-> heap[data.packet_data].header]

MapReassembly(r, heap) ==
  [sequence |-> r.sequence, entry_sequence |-> r.entry_sequence,
   entries |-> [i \in Reassembly!Index |->
                  IF r.entry_sequence[i] = None THEN PortEmpty
                  ELSE MapEntry(r.entry_data[i], heap)]]

\* The refinement mapping is the mapping of the endpoint's buffers, before a
\* step and after it.
LEMMA Mapping ==
  ASSUME Sound(endpoint)
  PROVE  /\ PortSent = MapSent(endpoint.sent_packets)
         /\ PortReceived = MapReceived(endpoint.received_packets)
         /\ PortReassembly = MapReassembly(endpoint.fragment_reassembly, endpoint.heap)
<1> DEFINE e == endpoint
<1>1. /\ e.sent_packets \in SentBuffers /\ e.received_packets \in ReceivedBuffers
      /\ e.fragment_reassembly \in Buffers
  BY SoundParts
<1>2. /\ DOMAIN e.sent_packets.entry_data = Sent!Index
      /\ DOMAIN e.received_packets.entry_data = Received!Index
      /\ DOMAIN e.fragment_reassembly.entry_data = Reassembly!Index
      /\ \A i \in Received!Index : e.received_packets.entry_data[i] = None
  BY <1>1 DEF SentBuffers, ReceivedBuffers, Buffers, Sent!BufferOf, Received!BufferOf,
     Reassembly!BufferOf
<1>3. PortSent = MapSent(e.sent_packets)
  BY <1>2 DEF PortSent, PortBuffer, Untouched, MapSent
<1>4. PortReceived = MapReceived(e.received_packets)
  BY <1>2 DEF PortReceived, PortBuffer, Untouched, MapReceived
<1>5. PortReassembly = MapReassembly(e.fragment_reassembly, e.heap)
  BY <1>2 DEF PortReassembly, PortBuffer, PortEntry, MapReassembly, MapEntry
<1> QED BY <1>3, <1>4, <1>5

\* The same, after the step.
LEMMA MappingNext ==
  ASSUME Sound(endpoint')
  PROVE  /\ PortSent' = MapSent(endpoint'.sent_packets)
         /\ PortReceived' = MapReceived(endpoint'.received_packets)
         /\ PortReassembly' = MapReassembly(endpoint'.fragment_reassembly, endpoint'.heap)
<1> DEFINE e == endpoint'
<1>1. /\ e.sent_packets \in SentBuffers /\ e.received_packets \in ReceivedBuffers
      /\ e.fragment_reassembly \in Buffers
  BY SoundParts
<1>2. /\ DOMAIN e.sent_packets.entry_data = Sent!Index
      /\ DOMAIN e.received_packets.entry_data = Received!Index
      /\ DOMAIN e.fragment_reassembly.entry_data = Reassembly!Index
      /\ \A i \in Received!Index : e.received_packets.entry_data[i] = None
  BY <1>1 DEF SentBuffers, ReceivedBuffers, Buffers, Sent!BufferOf, Received!BufferOf,
     Reassembly!BufferOf
<1>3. PortSent' = MapSent(e.sent_packets)
  BY <1>2 DEF PortSent, PortBuffer, Untouched, MapSent
<1>4. PortReceived' = MapReceived(e.received_packets)
  BY <1>2 DEF PortReceived, PortBuffer, Untouched, MapReceived
<1>5. PortReassembly' = MapReassembly(e.fragment_reassembly, e.heap)
  BY <1>2 DEF PortReassembly, PortBuffer, PortEntry, MapReassembly, MapEntry
<1> QED BY <1>3, <1>4, <1>5

-----------------------------------------------------------------------------
(* The numbers, and the buffers without blocks                             *)

\* Both compare and wrap numbers alike.
LEMMA SameNumbers ==
  /\ \A x, y : Port!Sent!SequenceGreaterThan(x, y) <=> Sent!SequenceGreaterThan(x, y)
  /\ \A x, y : Port!Received!SequenceGreaterThan(x, y) <=> Received!SequenceGreaterThan(x, y)
  /\ \A x, y : Port!Reassembly!SequenceGreaterThan(x, y) <=> Reassembly!SequenceGreaterThan(x, y)
  /\ \A x, n : /\ Port!Sent!WrapAdd(x, n) = Sent!Uint16(x + n)
               /\ Port!Received!WrapAdd(x, n) = Received!Uint16(x + n)
               /\ Port!Reassembly!WrapAdd(x, n) = Reassembly!Uint16(x + n)
  /\ \A x, n : /\ Port!Sent!WrapSub(x, n) = Sent!Uint16(x - n)
               /\ Port!Received!WrapSub(x, n) = Received!Uint16(x - n)
               /\ Port!Reassembly!WrapSub(x, n) = Reassembly!Uint16(x - n)
  /\ \A x, n : Port!WrapAdd(x, n) = Uint16(x + n) /\ Port!WrapSub(x, n) = Uint16(x - n)
BY DEF Port!Sent!SequenceGreaterThan, Port!Received!SequenceGreaterThan,
   Port!Reassembly!SequenceGreaterThan, Port!Sent!HalfModulus, Port!Received!HalfModulus,
   Port!Reassembly!HalfModulus, Sent!SequenceGreaterThan, Received!SequenceGreaterThan,
   Reassembly!SequenceGreaterThan, Port!Sent!WrapAdd, Port!Received!WrapAdd,
   Port!Reassembly!WrapAdd, Port!Sent!WrapSub, Port!Received!WrapSub,
   Port!Reassembly!WrapSub, Sent!Uint16, Received!Uint16, Reassembly!Uint16, Uint16,
   Port!WrapAdd, Port!WrapSub

\* They use the same slots and empty the same ones.
LEMMA SameSlots ==
  /\ Port!Sent!Index = Sent!Index
  /\ Port!Received!Index = Received!Index
  /\ Port!Reassembly!Index = Reassembly!Index
  /\ \A s : /\ Port!Sent!Slot(s) = Sent!Slot(s)
            /\ Port!Received!Slot(s) = Received!Slot(s)
            /\ Port!Reassembly!Slot(s) = Reassembly!Slot(s)
  /\ \A x, y : /\ Port!Sent!RemovedSlots(x, y) = Sent!Spanned(x, y)
               /\ Port!Received!RemovedSlots(x, y) = Received!Spanned(x, y)
               /\ Port!Reassembly!RemovedSlots(x, y) = Reassembly!Spanned(x, y)
<1>1. /\ Port!Sent!Index = Sent!Index
      /\ Port!Received!Index = Received!Index
      /\ Port!Reassembly!Index = Reassembly!Index
  BY DEF Port!Sent!Index, Port!Received!Index, Port!Reassembly!Index,
     Sent!Index, Received!Index, Reassembly!Index
<1>2. \A s : /\ Port!Sent!Slot(s) = Sent!Slot(s)
             /\ Port!Received!Slot(s) = Received!Slot(s)
             /\ Port!Reassembly!Slot(s) = Reassembly!Slot(s)
  BY DEF Port!Sent!Slot, Port!Received!Slot, Port!Reassembly!Slot,
     Sent!Slot, Received!Slot, Reassembly!Slot
<1>3. \A x, y : Port!Sent!RemovedSlots(x, y) = Sent!Spanned(x, y)
  BY <1>1, <1>2 DEF Port!Sent!RemovedSlots, Sent!Spanned
<1>4. \A x, y : Port!Received!RemovedSlots(x, y) = Received!Spanned(x, y)
  BY <1>1, <1>2 DEF Port!Received!RemovedSlots, Received!Spanned
<1>5. \A x, y : Port!Reassembly!RemovedSlots(x, y) = Reassembly!Spanned(x, y)
  BY <1>1, <1>2 DEF Port!Reassembly!RemovedSlots, Reassembly!Spanned
<1> QED BY <1>1, <1>2, <1>3, <1>4, <1>5

\* What the buffers are asked: the answers are the same under the mapping.
LEMMA SameAnswers ==
  ASSUME NEW b, NEW heap, NEW s
  PROVE  /\ Port!Sent!Advances(MapSent(b), s) <=> Sent!Ahead(b, s)
         /\ Port!Sent!CanInsert(MapSent(b), s) <=> Sent!TestInsert(b, s)
         /\ Port!Sent!Exists(MapSent(b), s) <=> Sent!Exists(b, s)
         /\ Port!Received!Advances(MapReceived(b), s) <=> Received!Ahead(b, s)
         /\ Port!Received!CanInsert(MapReceived(b), s) <=> Received!TestInsert(b, s)
         /\ Port!Received!Exists(MapReceived(b), s) <=> Received!Exists(b, s)
         /\ Port!Reassembly!Advances(MapReassembly(b, heap), s) <=> Reassembly!Ahead(b, s)
         /\ Port!Reassembly!CanInsertAdvanceFirst(MapReassembly(b, heap), s)
              <=> Reassembly!InsertsWithCleanup(b, s)
         /\ Port!Reassembly!Exists(MapReassembly(b, heap), s) <=> Reassembly!Exists(b, s)
<1>1. /\ MapSent(b).sequence = b.sequence /\ MapSent(b).entry_sequence = b.entry_sequence
      /\ MapReceived(b).sequence = b.sequence /\ MapReceived(b).entry_sequence = b.entry_sequence
      /\ MapReassembly(b, heap).sequence = b.sequence
      /\ MapReassembly(b, heap).entry_sequence = b.entry_sequence
  BY DEF MapSent, MapReceived, MapReassembly
<1>2. /\ Port!Sent!Advances(MapSent(b), s) <=> Sent!Ahead(b, s)
      /\ Port!Received!Advances(MapReceived(b), s) <=> Received!Ahead(b, s)
      /\ Port!Reassembly!Advances(MapReassembly(b, heap), s) <=> Reassembly!Ahead(b, s)
  BY <1>1, SameNumbers DEF Port!Sent!Advances, Port!Received!Advances,
     Port!Reassembly!Advances, Sent!Ahead, Received!Ahead, Reassembly!Ahead
<1>3. /\ Port!Sent!CanInsert(MapSent(b), s) <=> Sent!TestInsert(b, s)
      /\ Port!Received!CanInsert(MapReceived(b), s) <=> Received!TestInsert(b, s)
      /\ Port!Reassembly!CanInsert(MapReassembly(b, heap), s) <=> Reassembly!TestInsert(b, s)
  BY <1>1, SameNumbers DEF Port!Sent!CanInsert, Port!Received!CanInsert,
     Port!Reassembly!CanInsert, Port!Sent!Oldest, Port!Received!Oldest,
     Port!Reassembly!Oldest, Port!Sent!SequenceLessThan, Port!Received!SequenceLessThan,
     Port!Reassembly!SequenceLessThan, Sent!TestInsert, Received!TestInsert,
     Reassembly!TestInsert, Sent!SequenceLessThan, Received!SequenceLessThan,
     Reassembly!SequenceLessThan, Sent!Uint16, Received!Uint16, Reassembly!Uint16
<1>4. /\ Port!Sent!Exists(MapSent(b), s) <=> Sent!Exists(b, s)
      /\ Port!Received!Exists(MapReceived(b), s) <=> Received!Exists(b, s)
      /\ Port!Reassembly!Exists(MapReassembly(b, heap), s) <=> Reassembly!Exists(b, s)
  BY <1>1, SameSlots DEF Port!Sent!Exists, Port!Received!Exists, Port!Reassembly!Exists,
     Sent!Exists, Received!Exists, Reassembly!Exists
<1>5. Port!Reassembly!CanInsertAdvanceFirst(MapReassembly(b, heap), s)
        <=> Reassembly!InsertsWithCleanup(b, s)
  BY <1>2, <1>3 DEF Port!Reassembly!CanInsertAdvanceFirst, Reassembly!InsertsWithCleanup
<1> QED BY <1>2, <1>3, <1>4, <1>5

\* A buffer of the port, by its fields.
PortRecord(q, n, f) == [sequence |-> q, entry_sequence |-> n, entries |-> f]

\* A record with those fields is that buffer.
LEMMA IsPortRecord ==
  ASSUME NEW q, NEW n, NEW f, NEW p \in [sequence : {q}, entry_sequence : {n}, entries : {f}]
  PROVE  p = PortRecord(q, n, f)
BY DEF PortRecord

\* The assignments to its fields.
Renumbered(p, g) == [p EXCEPT !.sequence = g]

Refilled(p, g, h) == [p EXCEPT !.entry_sequence = g, !.entries = h]

Filled(p, i, s, data) == [p EXCEPT !.entry_sequence[i] = s, !.entries[i] = data]

Updated(p, i, data) == [p EXCEPT !.entries[i] = data]

\* What they make of it.
LEMMA PortAssigns ==
  ASSUME NEW q, NEW n, NEW f
  PROVE  /\ \A g : Renumbered(PortRecord(q, n, f), g) = PortRecord(g, n, f)
         /\ \A g, h : Refilled(PortRecord(q, n, f), g, h) = PortRecord(q, g, h)
         /\ \A i, s, data : Filled(PortRecord(q, n, f), i, s, data) =
              PortRecord(q, [n EXCEPT ![i] = s], [f EXCEPT ![i] = data])
         /\ \A i, data : Updated(PortRecord(q, n, f), i, data) =
              PortRecord(q, n, [f EXCEPT ![i] = data])
<1> DEFINE p == PortRecord(q, n, f)
<1>1. p \in [sequence : {q}, entry_sequence : {n}, entries : {f}]
  BY DEF PortRecord
<1> HIDE DEF p
<1>2. ASSUME NEW g PROVE Renumbered(p, g) = PortRecord(g, n, f)
  <2>1. Renumbered(p, g) \in [sequence : {g}, entry_sequence : {n}, entries : {f}]
    BY <1>1 DEF Renumbered
  <2> QED BY <2>1, IsPortRecord
<1>3. ASSUME NEW g, NEW h PROVE Refilled(p, g, h) = PortRecord(q, g, h)
  <2>1. Refilled(p, g, h) \in [sequence : {q}, entry_sequence : {g}, entries : {h}]
    BY <1>1 DEF Refilled
  <2> QED BY <2>1, IsPortRecord
<1>4. ASSUME NEW i, NEW s, NEW data
      PROVE  Filled(p, i, s, data) = PortRecord(q, [n EXCEPT ![i] = s], [f EXCEPT ![i] = data])
  <2> DEFINE n2 == [n EXCEPT ![i] = s]
             f2 == [f EXCEPT ![i] = data]
  <2>1. Filled(p, i, s, data) \in [sequence : {q}, entry_sequence : {n2}, entries : {f2}]
    BY <1>1 DEF Filled
  <2> HIDE DEF n2, f2
  <2>2. Filled(p, i, s, data) = PortRecord(q, n2, f2)
    BY <2>1, IsPortRecord
  <2> QED BY <2>2 DEF n2, f2
<1>5. ASSUME NEW i, NEW data
      PROVE  Updated(p, i, data) = PortRecord(q, n, [f EXCEPT ![i] = data])
  <2> DEFINE f2 == [f EXCEPT ![i] = data]
  <2>1. Updated(p, i, data) \in [sequence : {q}, entry_sequence : {n}, entries : {f2}]
    BY <1>1 DEF Updated
  <2> HIDE DEF f2
  <2>2. Updated(p, i, data) = PortRecord(q, n, f2)
    BY <2>1, IsPortRecord
  <2> QED BY <2>2 DEF f2
<1> QED BY <1>2, <1>3, <1>4, <1>5 DEF p

\* A function with the slots that are gone set to a default.
Gone(index, slots, default, f) == [i \in index |-> IF i \in slots THEN default ELSE f[i]]

\* What the port's remove_entries makes of the fields of each buffer.
PortSentRemoves(q, n, f, x, y) ==
  Port!Sent!RemoveEntries(PortRecord(q, n, f), x, y) =
    PortRecord(q, Gone(Sent!Index, Sent!Spanned(x, y), None, n),
                  Gone(Sent!Index, Sent!Spanned(x, y), FALSE, f))

PortReceivedRemoves(q, n, f, x, y) ==
  Port!Received!RemoveEntries(PortRecord(q, n, f), x, y) =
    PortRecord(q, Gone(Received!Index, Received!Spanned(x, y), None, n),
                  Gone(Received!Index, Received!Spanned(x, y), None, f))

PortReassemblyRemoves(q, n, f, x, y) ==
  Port!Reassembly!RemoveEntries(PortRecord(q, n, f), x, y) =
    PortRecord(q, Gone(Reassembly!Index, Reassembly!Spanned(x, y), None, n),
                  Gone(Reassembly!Index, Reassembly!Spanned(x, y), PortEmpty, f))

\* It does.
LEMMA PortRemoves ==
  ASSUME NEW q, NEW n, NEW f, NEW x, NEW y
  PROVE  /\ PortSentRemoves(q, n, f, x, y) /\ PortReceivedRemoves(q, n, f, x, y)
         /\ PortReassemblyRemoves(q, n, f, x, y)
<1> DEFINE p == PortRecord(q, n, f)
<1>1. PortEmpty = Port!EmptyReassembly
  BY DEF PortEmpty, Port!EmptyReassembly
<1>2. p.entry_sequence = n /\ p.entries = f
  BY DEF PortRecord
<1>3. \A g, h : Refilled(p, g, h) = PortRecord(q, g, h)
  BY PortAssigns
<1> HIDE DEF p
<1>4. Port!Sent!RemoveEntries(p, x, y) =
        Refilled(p, Gone(Sent!Index, Sent!Spanned(x, y), None, n),
                    Gone(Sent!Index, Sent!Spanned(x, y), FALSE, f))
  BY <1>2, SameSlots DEF Port!Sent!RemoveEntries, Refilled, Gone
<1>5. Port!Received!RemoveEntries(p, x, y) =
        Refilled(p, Gone(Received!Index, Received!Spanned(x, y), None, n),
                    Gone(Received!Index, Received!Spanned(x, y), None, f))
  BY <1>2, SameSlots DEF Port!Received!RemoveEntries, Refilled, Gone
<1>6. Port!Reassembly!RemoveEntries(p, x, y) =
        Refilled(p, Gone(Reassembly!Index, Reassembly!Spanned(x, y), None, n),
                    Gone(Reassembly!Index, Reassembly!Spanned(x, y), PortEmpty, f))
  BY <1>1, <1>2, SameSlots DEF Port!Reassembly!RemoveEntries, Refilled, Gone
<1> QED BY <1>3, <1>4, <1>5, <1>6 DEF p, PortSentRemoves, PortReceivedRemoves, PortReassemblyRemoves

\* What the port's advance does to the fields of each buffer.
PortSentAdvances(q, n, f, s) ==
  Port!Sent!Advances(PortRecord(q, n, f), s) =>
    Port!Sent!Advance(PortRecord(q, n, f), s) =
      PortRecord(Uint16(s + 1), Gone(Sent!Index, Sent!Spanned(q, s), None, n),
                                Gone(Sent!Index, Sent!Spanned(q, s), FALSE, f))

PortReceivedAdvances(q, n, f, s) ==
  Port!Received!Advances(PortRecord(q, n, f), s) =>
    Port!Received!Advance(PortRecord(q, n, f), s) =
      PortRecord(Uint16(s + 1), Gone(Received!Index, Received!Spanned(q, s), None, n),
                                Gone(Received!Index, Received!Spanned(q, s), None, f))

PortReassemblyAdvances(q, n, f, s) ==
  Port!Reassembly!Advances(PortRecord(q, n, f), s) =>
    Port!Reassembly!Advance(PortRecord(q, n, f), s) =
      PortRecord(Uint16(s + 1), Gone(Reassembly!Index, Reassembly!Spanned(q, s), None, n),
                                Gone(Reassembly!Index, Reassembly!Spanned(q, s), PortEmpty, f))

\* It does.
LEMMA PortAdvances ==
  ASSUME NEW q, NEW n, NEW f, NEW s
  PROVE  PortSentAdvances(q, n, f, s) /\ PortReceivedAdvances(q, n, f, s) /\ PortReassemblyAdvances(q, n, f, s)
<1> DEFINE p == PortRecord(q, n, f)
<1>1. p.sequence = q
  BY DEF PortRecord
<1>2. /\ Port!Sent!WrapAdd(s, 1) = Uint16(s + 1)
      /\ Port!Received!WrapAdd(s, 1) = Uint16(s + 1)
      /\ Port!Reassembly!WrapAdd(s, 1) = Uint16(s + 1)
  BY SameNumbers, Instances
<1> HIDE DEF p
<1>3. /\ Port!Sent!Advances(p, s) =>
           Port!Sent!Advance(p, s) = Renumbered(Port!Sent!RemoveEntries(p, q, s), Uint16(s + 1))
      /\ Port!Received!Advances(p, s) =>
           Port!Received!Advance(p, s) =
             Renumbered(Port!Received!RemoveEntries(p, q, s), Uint16(s + 1))
      /\ Port!Reassembly!Advances(p, s) =>
           Port!Reassembly!Advance(p, s) =
             Renumbered(Port!Reassembly!RemoveEntries(p, q, s), Uint16(s + 1))
  BY <1>1, <1>2 DEF Port!Sent!Advance, Port!Received!Advance, Port!Reassembly!Advance,
     Renumbered
<1>4. \A g, n2, f2 : Renumbered(PortRecord(q, n2, f2), g) = PortRecord(g, n2, f2)
  BY PortAssigns
<1>5. PortSentAdvances(q, n, f, s)
  <2> DEFINE n2 == Gone(Sent!Index, Sent!Spanned(q, s), None, n)
             f2 == Gone(Sent!Index, Sent!Spanned(q, s), FALSE, f)
  <2>1. Port!Sent!RemoveEntries(p, q, s) = PortRecord(q, n2, f2)
    <3>1. PortSentRemoves(q, n, f, q, s)
      BY PortRemoves
    <3> QED BY <3>1, Zenon DEF p, PortSentRemoves
  <2>2. p = PortRecord(q, n, f)
    BY DEF p
  <2> HIDE DEF n2, f2
  <2>3. Port!Sent!Advances(p, s) => Port!Sent!Advance(p, s) = PortRecord(Uint16(s + 1), n2, f2)
    BY <1>3, <1>4, <2>1
  <2> QED BY <2>2, <2>3 DEF n2, f2, PortSentAdvances
<1>6. PortReceivedAdvances(q, n, f, s)
  <2> DEFINE n2 == Gone(Received!Index, Received!Spanned(q, s), None, n)
             f2 == Gone(Received!Index, Received!Spanned(q, s), None, f)
  <2>1. Port!Received!RemoveEntries(p, q, s) = PortRecord(q, n2, f2)
    BY PortRemoves DEF p, PortReceivedRemoves
  <2>2. p = PortRecord(q, n, f)
    BY DEF p
  <2> HIDE DEF n2, f2
  <2>3. Port!Received!Advances(p, s) => Port!Received!Advance(p, s) = PortRecord(Uint16(s + 1), n2, f2)
    BY <1>3, <1>4, <2>1
  <2> QED BY <2>2, <2>3 DEF n2, f2, PortReceivedAdvances
<1>7. PortReassemblyAdvances(q, n, f, s)
  <2> DEFINE n2 == Gone(Reassembly!Index, Reassembly!Spanned(q, s), None, n)
             f2 == Gone(Reassembly!Index, Reassembly!Spanned(q, s), PortEmpty, f)
  <2>1. Port!Reassembly!RemoveEntries(p, q, s) = PortRecord(q, n2, f2)
    BY PortRemoves DEF p, PortReassemblyRemoves
  <2>2. p = PortRecord(q, n, f)
    BY DEF p
  <2> HIDE DEF n2, f2
  <2>3. Port!Reassembly!Advances(p, s) => Port!Reassembly!Advance(p, s) = PortRecord(Uint16(s + 1), n2, f2)
    BY <1>3, <1>4, <2>1
  <2> QED BY <2>2, <2>3 DEF n2, f2, PortReassemblyAdvances
<1> QED BY <1>5, <1>6, <1>7

\* The three ways the port writes an entry.
LEMMA PortWrites ==
  ASSUME NEW p, NEW s, NEW data
  PROVE  /\ Port!Sent!Insert(p, s, data) = Filled(Port!Sent!Advance(p, s), Sent!Slot(s), s, data)
         /\ Port!Received!Insert(p, s, data) =
              Filled(Port!Received!Advance(p, s), Received!Slot(s), s, data)
         /\ Port!Reassembly!InsertAdvanceFirst(p, s, data) =
              Filled(Port!Reassembly!Advance(p, s), Reassembly!Slot(s), s, data)
         /\ Port!Reassembly!Update(p, s, data) = Updated(p, Reassembly!Slot(s), data)
BY SameSlots DEF Port!Sent!Insert, Port!Sent!Fill, Port!Received!Insert, Port!Received!Fill,
   Port!Reassembly!InsertAdvanceFirst, Port!Reassembly!Fill, Port!Reassembly!Update,
   Filled, Updated

\* Sending enters the same packet in both.
LEMMA SentCommutes ==
  ASSUME NEW b \in SentBuffers, NEW s \in SequenceNumber
  PROVE  MapSent(Sent!Write(Sent!Insert(b, s), s, FALSE)) = Port!Sent!Insert(MapSent(b), s, FALSE)
<1> DEFINE i0 == Sent!Slot(s)
           a == Sent!Advance(b, s)
           pa == Port!Sent!Advance(MapSent(b), s)
           w == Sent!Write(Sent!Insert(b, s), s, FALSE)
<1>1. i0 \in Sent!Index /\ s # None
  BY Instances, DataAssumption
<1>2. b.entry_sequence \in [Sent!Index -> SequenceNumber \cup {None}] /\ b.entry_data \in [Sent!Index -> BOOLEAN]
  BY Instances DEF SentBuffers, Sent!BufferOf
<1>3. \A c : MapSent(c) = PortRecord(c.sequence, c.entry_sequence,
               [i \in Sent!Index |-> IF c.entry_sequence[i] = None THEN FALSE ELSE c.entry_data[i]])
  BY DEF MapSent, PortRecord
<1>4. /\ pa = MapSent(a) /\ a.entry_data = b.entry_data
      /\ DOMAIN a.entry_sequence = Sent!Index
  <2>1. CASE Sent!Ahead(b, s)
    <3> DEFINE gone == Sent!Spanned(b.sequence, s)
               numbers == [i \in Sent!Index |-> IF i \in gone THEN None ELSE b.entry_sequence[i]]
               data == [i \in Sent!Index |-> IF b.entry_sequence[i] = None THEN FALSE ELSE b.entry_data[i]]
    <3>1. a.sequence = Uint16(s + 1) /\ a.entry_sequence = numbers /\ a.entry_data = b.entry_data
      BY <2>1, Instances DEF Sent!Advance, Sent!Emptied, SentBuffers, Sent!BufferOf
    <3>2. MapSent(b) = PortRecord(b.sequence, b.entry_sequence, data)
      BY <1>3
    <3>3. Port!Sent!Advances(MapSent(b), s)
      BY <2>1, SameAnswers
    <3> HIDE DEF data
    <3>4. pa = PortRecord(Uint16(s + 1), Gone(Sent!Index, gone, None, b.entry_sequence),
                          Gone(Sent!Index, gone, FALSE, data))
      <4>1. PortSentAdvances(b.sequence, b.entry_sequence, data, s)
        BY PortAdvances
      <4> QED BY <3>2, <3>3, <4>1 DEF PortSentAdvances
    <3> HIDE DEF a, pa, gone
    <3>5. /\ Gone(Sent!Index, gone, None, b.entry_sequence) = numbers
          /\ Gone(Sent!Index, gone, FALSE, data) =
            [i \in Sent!Index |-> IF a.entry_sequence[i] = None THEN FALSE ELSE a.entry_data[i]]
      BY <3>1 DEF data, Gone
    <3> QED BY <1>3, <3>1, <3>4, <3>5
  <2>2. CASE ~Sent!Ahead(b, s)
    <3>1. a = b /\ pa = MapSent(b)
      BY <2>2, SameAnswers DEF Sent!Advance, Port!Sent!Advance
    <3> QED BY <1>2, <3>1
  <2> QED BY <2>1, <2>2
<1>5. /\ w.sequence = a.sequence
      /\ w.entry_sequence = [a.entry_sequence EXCEPT ![i0] = s]
      /\ w.entry_data = [a.entry_data EXCEPT ![i0] = FALSE]
  BY DEF Sent!Write, Sent!Insert, Sent!Claim, Sent!Advance, Sent!Emptied, SentBuffers, Sent!BufferOf
<1>6. Port!Sent!Insert(MapSent(b), s, FALSE) = Filled(pa, i0, s, FALSE)
  BY PortWrites
<1> HIDE DEF a, pa, w, i0
<1> DEFINE data == [i \in Sent!Index |-> IF a.entry_sequence[i] = None THEN FALSE ELSE a.entry_data[i]]
<1>7. Filled(pa, i0, s, FALSE) =
        PortRecord(a.sequence, [a.entry_sequence EXCEPT ![i0] = s], [data EXCEPT ![i0] = FALSE])
  <2>1. pa = PortRecord(a.sequence, a.entry_sequence, data)
    BY <1>3, <1>4
  <2> HIDE DEF data
  <2>2. \A i, d : Filled(pa, i, s, d) = PortRecord(a.sequence,
                   [a.entry_sequence EXCEPT ![i] = s], [data EXCEPT ![i] = d])
    BY <2>1, PortAssigns
  <2> QED BY <2>2
<1>8. [data EXCEPT ![i0] = FALSE] =
        [i \in Sent!Index |-> IF w.entry_sequence[i] = None THEN FALSE ELSE w.entry_data[i]]
  BY <1>1, <1>2, <1>4, <1>5
<1>9. MapSent(w) = Filled(pa, i0, s, FALSE)
  <2> HIDE DEF data
  <2> QED BY <1>3, <1>5, <1>7, <1>8
<1> QED BY <1>6, <1>9 DEF w

\* The received window advances, and takes a packet, alike.
LEMMA ReceivedCommutes ==
  ASSUME NEW b \in ReceivedBuffers, NEW s \in SequenceNumber
  PROVE  /\ MapReceived(Received!Advance(b, s)) = Port!Received!Advance(MapReceived(b), s)
         /\ MapReceived(Received!Insert(b, s)) = Port!Received!Insert(MapReceived(b), s, None)
<1> DEFINE i0 == Received!Slot(s)
           a == Received!Advance(b, s)
           pa == Port!Received!Advance(MapReceived(b), s)
<1>1. i0 \in Received!Index
  BY Instances
<1> DEFINE nothing == [i \in Received!Index |-> None]
<1>2. \A c : MapReceived(c) = PortRecord(c.sequence, c.entry_sequence, nothing)
  BY DEF MapReceived, PortRecord
<1>3. pa = MapReceived(a)
  <2>1. CASE Received!Ahead(b, s)
    <3> DEFINE gone == Received!Spanned(b.sequence, s)
               numbers == [i \in Received!Index |-> IF i \in gone THEN None ELSE b.entry_sequence[i]]
    <3>1. a.sequence = Uint16(s + 1) /\ a.entry_sequence = numbers
      BY <2>1, Instances DEF Received!Advance, Received!Emptied, ReceivedBuffers, Received!BufferOf
    <3>2. MapReceived(b) = PortRecord(b.sequence, b.entry_sequence, nothing)
      BY <1>2
    <3>3. Port!Received!Advances(MapReceived(b), s)
      BY <2>1, SameAnswers
    <3>4. /\ Gone(Received!Index, gone, None, nothing) = nothing
          /\ Gone(Received!Index, gone, None, b.entry_sequence) = numbers
      BY DEF Gone
    <3>5. pa = PortRecord(Uint16(s + 1), numbers, nothing)
      <4> HIDE DEF nothing
      <4>1. pa = PortRecord(Uint16(s + 1), Gone(Received!Index, gone, None, b.entry_sequence),
                            Gone(Received!Index, gone, None, nothing))
        <5>1. PortReceivedAdvances(b.sequence, b.entry_sequence, nothing, s)
          BY PortAdvances
        <5> QED BY <3>2, <3>3, <5>1 DEF PortReceivedAdvances
      <4> QED BY <3>4, <4>1
    <3> HIDE DEF a, pa, gone, nothing
    <3> QED BY <1>2, <3>1, <3>5
  <2>2. CASE ~Received!Ahead(b, s)
    BY <2>2, SameAnswers DEF Received!Advance, Port!Received!Advance
  <2> QED BY <2>1, <2>2
<1>4. /\ Received!Insert(b, s).sequence = a.sequence
      /\ Received!Insert(b, s).entry_sequence = [a.entry_sequence EXCEPT ![i0] = s]
  BY DEF Received!Insert, Received!Claim, Received!Advance, Received!Emptied,
     ReceivedBuffers, Received!BufferOf
<1>5. Port!Received!Insert(MapReceived(b), s, None) = Filled(pa, i0, s, None)
  BY PortWrites
<1>6. [nothing EXCEPT ![i0] = None] = nothing
  BY <1>1
<1> HIDE DEF a, pa, i0, nothing
<1>7. Filled(pa, i0, s, None) =
        PortRecord(a.sequence, [a.entry_sequence EXCEPT ![i0] = s], nothing)
  <2>1. pa = PortRecord(a.sequence, a.entry_sequence, nothing)
    BY <1>2, <1>3
  <2> QED BY <1>6, <2>1, PortAssigns
<1> QED BY <1>2, <1>3, <1>4, <1>5, <1>7 DEF a, pa

\* Both acknowledge the same packets.
LEMMA SameAcks ==
  ASSUME NEW b \in ReceivedBuffers
  PROVE  /\ Port!Received!AckOf(MapReceived(b)) = Received!Ack(b)
         /\ Port!Received!GenerateAckBits(MapReceived(b), AckBits) = Received!AckBitsOf(b, AckBits)
<1>1. Port!Received!AckOf(MapReceived(b)) = Received!Ack(b)
  BY SameNumbers DEF Port!Received!AckOf, Received!Ack, MapReceived
<1>2. \A i : Port!Received!Exists(MapReceived(b), Port!Received!WrapSub(Received!Ack(b), i))
               <=> Received!Exists(b, Received!Uint16(Received!Ack(b) - i))
  BY SameAnswers, SameNumbers
<1> QED BY <1>1, <1>2 DEF Port!Received!GenerateAckBits, Received!AckBitsOf

\* An emptied buffer is a new one to the port.
LEMMA SameEmpty ==
  ASSUME NEW b, NEW heap
  PROVE  /\ b.sequence = 0 /\ b.entry_sequence = [i \in Sent!Index |-> None]
              => MapSent(b) = Port!Sent!New
         /\ b.sequence = 0 /\ b.entry_sequence = [i \in Received!Index |-> None]
              => MapReceived(b) = Port!Received!New
         /\ b.sequence = 0 /\ b.entry_sequence = [i \in Reassembly!Index |-> None]
              => MapReassembly(b, heap) = Port!Reassembly!New
<1>1. b.sequence = 0 /\ b.entry_sequence = [i \in Sent!Index |-> None]
        => MapSent(b) = Port!Sent!New
  BY SameSlots DEF MapSent, Port!Sent!New
<1>2. b.sequence = 0 /\ b.entry_sequence = [i \in Received!Index |-> None]
        => MapReceived(b) = Port!Received!New
  BY SameSlots DEF MapReceived, Port!Received!New
<1>3. b.sequence = 0 /\ b.entry_sequence = [i \in Reassembly!Index |-> None]
        => MapReassembly(b, heap) = Port!Reassembly!New
  BY SameSlots DEF MapReassembly, Port!Reassembly!New, PortEmpty, Port!EmptyReassembly
<1> QED BY <1>1, <1>2, <1>3

-----------------------------------------------------------------------------
(* The buffer of packets under reassembly                                  *)

\* Its entries under the mapping.
MapEntries(r, heap) ==
  [i \in Reassembly!Index |->
     IF r.entry_sequence[i] = None THEN PortEmpty ELSE MapEntry(r.entry_data[i], heap)]

\* The mapping of the buffer, by its fields.
LEMMA ReassemblyRecord ==
  ASSUME NEW r, NEW heap
  PROVE  MapReassembly(r, heap) = PortRecord(r.sequence, r.entry_sequence, MapEntries(r, heap))
BY DEF MapReassembly, MapEntries, PortRecord

\* Buffers and heaps as the buffer of packets under reassembly is found.
LEMMA SoundReassembly ==
  ASSUME NEW e, Sound(e)
  PROVE  /\ e.fragment_reassembly \in Buffers /\ e.heap \in Heaps
         /\ Memory(e.fragment_reassembly, e.heap) /\ Owns(e.fragment_reassembly, e.heap)
BY SoundParts DEF Sound, Memory

\* Evicting packets, and freeing their blocks, is to the port emptying slots.
LEMMA EvictionMaps ==
  ASSUME NEW r \in Buffers, NEW t \in Buffers, NEW h1 \in Heaps, NEW h2 \in Heaps,
         Memory(r, h1), NEW slots \in SUBSET Reassembly!Index, NEW freed,
         freed \in SUBSET slots, Reassembly!Occupied(r) \cap slots \subseteq freed,
         Evicts(r, t, slots), Frees(r, h1, h2, freed)
  PROVE  /\ t.entry_sequence = Gone(Reassembly!Index, slots, None, r.entry_sequence)
         /\ MapEntries(t, h2) = Gone(Reassembly!Index, slots, PortEmpty, MapEntries(r, h1))
<1>1. /\ t.entry_sequence \in [Reassembly!Index -> SequenceNumber \cup {None}]
      /\ DOMAIN t.entry_sequence = Reassembly!Index
  BY Instances DEF Buffers, Reassembly!BufferOf
<1>2. t.entry_sequence = Gone(Reassembly!Index, slots, None, r.entry_sequence)
  BY <1>1 DEF Gone, Evicts
<1>3. \A i \in Reassembly!Occupied(t) :
        Block(t, i) = Block(r, i) /\ h2[Block(t, i)] = h1[Block(r, i)]
  BY EvictionKeepsMemory
<1>4. ASSUME NEW i \in Reassembly!Index, i \notin slots, t.entry_sequence[i] # None
      PROVE  MapEntry(t.entry_data[i], h2) = MapEntry(r.entry_data[i], h1)
  <2>1. i \in Reassembly!Occupied(t) /\ t.entry_data[i] = r.entry_data[i]
    BY <1>4 DEF Reassembly!Occupied, Evicts
  <2>2. h2[t.entry_data[i].packet_data] = h1[r.entry_data[i].packet_data]
    BY <1>3, <2>1 DEF Block
  <2> QED BY <2>1, <2>2 DEF MapEntry
<1>5. \A i \in Reassembly!Index :
        MapEntries(t, h2)[i] = IF i \in slots THEN PortEmpty ELSE MapEntries(r, h1)[i]
  BY <1>4 DEF MapEntries, Evicts
<1>6. MapEntries(t, h2) = [i \in Reassembly!Index |-> MapEntries(t, h2)[i]]
  BY DEF MapEntries
<1>7. MapEntries(t, h2) = Gone(Reassembly!Index, slots, PortEmpty, MapEntries(r, h1))
  BY <1>5, <1>6 DEF Gone
<1> QED BY <1>2, <1>7

\* What advances, and what does not, under the mapping.
LEMMA AdvanceMaps ==
  ASSUME NEW r \in Buffers, NEW heap, NEW s \in SequenceNumber
  PROVE  Port!Reassembly!Advance(MapReassembly(r, heap), s) =
           PortRecord(Moved(r.sequence, s),
             Gone(Reassembly!Index, Reassembly!AdvanceCleans(r, s), None, r.entry_sequence),
             Gone(Reassembly!Index, Reassembly!AdvanceCleans(r, s), PortEmpty, MapEntries(r, heap)))
<1> DEFINE f == MapEntries(r, heap)
           p == MapReassembly(r, heap)
           cleans == Reassembly!AdvanceCleans(r, s)
<1>1. p = PortRecord(r.sequence, r.entry_sequence, f)
  BY ReassemblyRecord
<1>2. Port!Reassembly!Advances(p, s) <=> Reassembly!Ahead(r, s)
  BY SameAnswers
<1>3. /\ r.entry_sequence = [i \in Reassembly!Index |-> r.entry_sequence[i]]
      /\ f = [i \in Reassembly!Index |-> f[i]]
  BY DEF MapEntries, Buffers, Reassembly!BufferOf
<1> HIDE DEF f, p
<1>4. CASE Reassembly!Ahead(r, s)
  <2>1. PortReassemblyAdvances(r.sequence, r.entry_sequence, f, s)
    BY PortAdvances
  <2>2. Moved(r.sequence, s) = Uint16(s + 1) /\ cleans = Reassembly!Spanned(r.sequence, s)
    BY <1>4, Instances DEF Moved, Reassembly!AdvanceCleans
  <2> QED BY <1>1, <1>2, <1>4, <2>1, <2>2 DEF PortReassemblyAdvances, f, p
<1>5. CASE ~Reassembly!Ahead(r, s)
  <2>1. Moved(r.sequence, s) = r.sequence /\ cleans = {}
    BY <1>5, Instances DEF Moved, Reassembly!AdvanceCleans
  <2>2. /\ Gone(Reassembly!Index, {}, None, r.entry_sequence) = r.entry_sequence
        /\ Gone(Reassembly!Index, {}, PortEmpty, f) = f
    BY <1>3 DEF Gone
  <2>3. Port!Reassembly!Advance(p, s) = p
    BY <1>2, <1>5 DEF Port!Reassembly!Advance
  <2> QED BY <1>1, <2>1, <2>2, <2>3 DEF f, p
<1> QED BY <1>4, <1>5

\* The reassembly window advances alike, and gives back the blocks it passes.
LEMMA ReassemblyAdvanceCommutes ==
  ASSUME NEW e, Sound(e), NEW s \in SequenceNumber
  PROVE  MapReassembly(Reassembly!AdvanceWithCleanup(e.fragment_reassembly, s),
                       FreePacketData(e, Reassembly!AdvanceCleans(e.fragment_reassembly, s)))
           = Port!Reassembly!Advance(MapReassembly(e.fragment_reassembly, e.heap), s)
<1> DEFINE r == e.fragment_reassembly
           t == Reassembly!AdvanceWithCleanup(r, s)
           cleans == Reassembly!AdvanceCleans(r, s)
           heap == FreePacketData(e, cleans)
<1>1. r \in Buffers /\ e.heap \in Heaps /\ Memory(r, e.heap) /\ Owns(r, e.heap)
  BY SoundReassembly
<1>2. /\ t \in Buffers /\ t.sequence = Moved(r.sequence, s)
      /\ cleans \in SUBSET Reassembly!Index /\ Evicts(r, t, cleans)
  BY <1>1, ReassemblyAdvanced
<1>3. heap \in Heaps /\ Frees(r, e.heap, heap, cleans)
  BY <1>1, <1>2, FreesExactly
<1> HIDE DEF r, t, cleans, heap
<1>4. /\ t.entry_sequence = Gone(Reassembly!Index, cleans, None, r.entry_sequence)
      /\ MapEntries(t, heap) = Gone(Reassembly!Index, cleans, PortEmpty, MapEntries(r, e.heap))
  BY <1>1, <1>2, <1>3, EvictionMaps
<1>5. Port!Reassembly!Advance(MapReassembly(r, e.heap), s) =
        PortRecord(Moved(r.sequence, s), Gone(Reassembly!Index, cleans, None, r.entry_sequence),
          Gone(Reassembly!Index, cleans, PortEmpty, MapEntries(r, e.heap)))
  BY <1>1, AdvanceMaps DEF cleans
<1>6. MapReassembly(t, heap) = PortRecord(t.sequence, t.entry_sequence, MapEntries(t, heap))
  BY ReassemblyRecord
<1> QED BY <1>2, <1>4, <1>5, <1>6 DEF r, t, cleans, heap

\* A buffer of the port with as many slots as the reassembly buffer has.
IsBuffer(p) ==
  /\ p = PortRecord(p.sequence, p.entry_sequence, p.entries)
  /\ p.entry_sequence = [i \in Reassembly!Index |-> p.entry_sequence[i]]
  /\ p.entries = [i \in Reassembly!Index |-> p.entries[i]]

\* Two of them are the same if they are slot by slot.
LEMMA SameBuffer ==
  ASSUME NEW p, NEW q, IsBuffer(p), IsBuffer(q), p.sequence = q.sequence,
         \A i \in Reassembly!Index :
           p.entry_sequence[i] = q.entry_sequence[i] /\ p.entries[i] = q.entries[i]
  PROVE  p = q
<1>1. p.entry_sequence = q.entry_sequence
  BY DEF IsBuffer
<1>2. p.entries = q.entries
  BY DEF IsBuffer
<1> QED BY <1>1, <1>2 DEF IsBuffer

\* A record of functions on the slots is a buffer.
LEMMA RecordIsBuffer ==
  ASSUME NEW g, NEW n, NEW f, n = [i \in Reassembly!Index |-> n[i]],
         f = [i \in Reassembly!Index |-> f[i]]
  PROVE  IsBuffer(PortRecord(g, n, f))
<1>1. /\ PortRecord(g, n, f).sequence = g /\ PortRecord(g, n, f).entry_sequence = n
      /\ PortRecord(g, n, f).entries = f
  BY DEF PortRecord
<1> QED BY <1>1 DEF IsBuffer

\* The mapping gives a buffer.
LEMMA MapIsBuffer ==
  ASSUME NEW r \in Buffers, NEW heap
  PROVE  /\ IsBuffer(MapReassembly(r, heap))
         /\ MapReassembly(r, heap).sequence = r.sequence
         /\ MapReassembly(r, heap).entry_sequence = r.entry_sequence
         /\ MapReassembly(r, heap).entries = MapEntries(r, heap)
         /\ \A i \in Reassembly!Index :
              MapReassembly(r, heap).entries[i] =
                IF r.entry_sequence[i] = None THEN PortEmpty ELSE MapEntry(r.entry_data[i], heap)
<1>1. r.entry_sequence = [i \in Reassembly!Index |-> r.entry_sequence[i]]
  BY DEF Buffers, Reassembly!BufferOf
<1>2. /\ MapEntries(r, heap) = [i \in Reassembly!Index |-> MapEntries(r, heap)[i]]
      /\ \A i \in Reassembly!Index :
           MapEntries(r, heap)[i] =
             IF r.entry_sequence[i] = None THEN PortEmpty ELSE MapEntry(r.entry_data[i], heap)
  BY DEF MapEntries
<1>3. MapReassembly(r, heap) = PortRecord(r.sequence, r.entry_sequence, MapEntries(r, heap))
  BY ReassemblyRecord
<1>4. /\ MapReassembly(r, heap).sequence = r.sequence
      /\ MapReassembly(r, heap).entry_sequence = r.entry_sequence
      /\ MapReassembly(r, heap).entries = MapEntries(r, heap)
  BY DEF MapReassembly, MapEntries
<1>5. IsBuffer(PortRecord(r.sequence, r.entry_sequence, MapEntries(r, heap)))
  BY <1>1, <1>2, RecordIsBuffer
<1> QED BY <1>2, <1>3, <1>4, <1>5

\* What an assignment to one slot makes of it.
LEMMA FilledIs ==
  ASSUME NEW p, IsBuffer(p), NEW i0 \in Reassembly!Index, NEW s, NEW x
  PROVE  /\ IsBuffer(Filled(p, i0, s, x)) /\ Filled(p, i0, s, x).sequence = p.sequence
         /\ \A i \in Reassembly!Index :
              /\ Filled(p, i0, s, x).entry_sequence[i] = IF i = i0 THEN s ELSE p.entry_sequence[i]
              /\ Filled(p, i0, s, x).entries[i] = IF i = i0 THEN x ELSE p.entries[i]
<1> DEFINE n == [p.entry_sequence EXCEPT ![i0] = s]
           f == [p.entries EXCEPT ![i0] = x]
<1>1. p = PortRecord(p.sequence, p.entry_sequence, p.entries)
  BY DEF IsBuffer
<1>2. Filled(p, i0, s, x) = PortRecord(p.sequence, n, f)
  <2>1. \A i, t, y : Filled(PortRecord(p.sequence, p.entry_sequence, p.entries), i, t, y) =
          PortRecord(p.sequence, [p.entry_sequence EXCEPT ![i] = t], [p.entries EXCEPT ![i] = y])
    BY PortAssigns
  <2>2. Filled(PortRecord(p.sequence, p.entry_sequence, p.entries), i0, s, x) =
          PortRecord(p.sequence, n, f)
    BY <2>1, Zenon
  <2> HIDE DEF n, f
  <2> QED BY <1>1, <2>2
<1>3. /\ n = [i \in Reassembly!Index |-> n[i]]
      /\ \A i \in Reassembly!Index : n[i] = IF i = i0 THEN s ELSE p.entry_sequence[i]
  BY DEF IsBuffer
<1>4. /\ f = [i \in Reassembly!Index |-> f[i]]
      /\ \A i \in Reassembly!Index : f[i] = IF i = i0 THEN x ELSE p.entries[i]
  BY DEF IsBuffer
<1> HIDE DEF n, f
<1>5. IsBuffer(PortRecord(p.sequence, n, f))
  BY <1>3, <1>4, RecordIsBuffer
<1>6. /\ PortRecord(p.sequence, n, f).sequence = p.sequence
      /\ PortRecord(p.sequence, n, f).entry_sequence = n
      /\ PortRecord(p.sequence, n, f).entries = f
  BY DEF PortRecord
<1> QED BY <1>2, <1>3, <1>4, <1>5, <1>6

\* And an assignment to its entry alone.
LEMMA UpdatedIs ==
  ASSUME NEW p, IsBuffer(p), NEW i0 \in Reassembly!Index, NEW x
  PROVE  /\ IsBuffer(Updated(p, i0, x)) /\ Updated(p, i0, x).sequence = p.sequence
         /\ Updated(p, i0, x).entry_sequence = p.entry_sequence
         /\ \A i \in Reassembly!Index :
              Updated(p, i0, x).entries[i] = IF i = i0 THEN x ELSE p.entries[i]
<1> DEFINE f == [p.entries EXCEPT ![i0] = x]
<1>1. p = PortRecord(p.sequence, p.entry_sequence, p.entries)
  BY DEF IsBuffer
<1>2. Updated(p, i0, x) = PortRecord(p.sequence, p.entry_sequence, f)
  <2>1. \A i, y : Updated(PortRecord(p.sequence, p.entry_sequence, p.entries), i, y) =
          PortRecord(p.sequence, p.entry_sequence, [p.entries EXCEPT ![i] = y])
    BY PortAssigns
  <2> QED BY <1>1, <2>1, Zenon
<1>3. /\ f = [i \in Reassembly!Index |-> f[i]]
      /\ \A i \in Reassembly!Index : f[i] = IF i = i0 THEN x ELSE p.entries[i]
  BY DEF IsBuffer
<1> HIDE DEF f
<1>4. IsBuffer(PortRecord(p.sequence, p.entry_sequence, f))
  BY <1>3, RecordIsBuffer DEF IsBuffer
<1>5. /\ PortRecord(p.sequence, p.entry_sequence, f).sequence = p.sequence
      /\ PortRecord(p.sequence, p.entry_sequence, f).entry_sequence = p.entry_sequence
      /\ PortRecord(p.sequence, p.entry_sequence, f).entries = f
  BY DEF PortRecord
<1> QED BY <1>2, <1>3, <1>4, <1>5

\* And the port's remove.
LEMMA RemovedIs ==
  ASSUME NEW p, IsBuffer(p), NEW s \in SequenceNumber,
         p.entry_sequence[Reassembly!Slot(s)] = None =>
           p.entries[Reassembly!Slot(s)] = PortEmpty
  PROVE  /\ IsBuffer(Port!Reassembly!Remove(p, s))
         /\ Port!Reassembly!Remove(p, s).sequence = p.sequence
         /\ \A i \in Reassembly!Index :
              /\ Port!Reassembly!Remove(p, s).entry_sequence[i] =
                   IF i = Reassembly!Slot(s) THEN None ELSE p.entry_sequence[i]
              /\ Port!Reassembly!Remove(p, s).entries[i] =
                   IF i = Reassembly!Slot(s) THEN PortEmpty ELSE p.entries[i]
<1> DEFINE i0 == Reassembly!Slot(s)
<1>1. i0 \in Reassembly!Index
  BY Instances
<1>2. PortEmpty = Port!EmptyReassembly /\ Port!Reassembly!Slot(s) = i0
  BY SameSlots DEF PortEmpty, Port!EmptyReassembly
<1> HIDE DEF i0
<1>3. CASE p.entry_sequence[i0] = None
  <2>1. Port!Reassembly!Remove(p, s) = p
    BY <1>2, <1>3 DEF Port!Reassembly!Remove
  <2> QED BY <1>3, <2>1 DEF i0
<1>4. CASE p.entry_sequence[i0] # None
  <2>1. Port!Reassembly!Remove(p, s) = Filled(p, i0, None, PortEmpty)
    BY <1>2, <1>4 DEF Port!Reassembly!Remove, Filled
  <2>2. /\ IsBuffer(Filled(p, i0, None, PortEmpty))
        /\ Filled(p, i0, None, PortEmpty).sequence = p.sequence
        /\ \A i \in Reassembly!Index :
             /\ Filled(p, i0, None, PortEmpty).entry_sequence[i] =
                  IF i = i0 THEN None ELSE p.entry_sequence[i]
             /\ Filled(p, i0, None, PortEmpty).entries[i] =
                  IF i = i0 THEN PortEmpty ELSE p.entries[i]
    BY <1>1, FilledIs
  <2> QED BY <2>1, <2>2 DEF i0
<1> QED BY <1>3, <1>4

\* And its advance.
LEMMA AdvancedIs ==
  ASSUME NEW r \in Buffers, NEW heap, NEW s \in SequenceNumber,
         NEW q, q = Port!Reassembly!Advance(MapReassembly(r, heap), s)
  PROVE  /\ IsBuffer(q) /\ q.sequence = Moved(r.sequence, s)
         /\ \A i \in Reassembly!Index :
              /\ q.entry_sequence[i] =
                   IF i \in Reassembly!AdvanceCleans(r, s) THEN None ELSE r.entry_sequence[i]
              /\ q.entries[i] = IF i \in Reassembly!AdvanceCleans(r, s) THEN PortEmpty
                                                                    ELSE MapEntries(r, heap)[i]
              /\ q.entry_sequence[i] = None => q.entries[i] = PortEmpty
<1> DEFINE cleans == Reassembly!AdvanceCleans(r, s)
           n == Gone(Reassembly!Index, cleans, None, r.entry_sequence)
           f == Gone(Reassembly!Index, cleans, PortEmpty, MapEntries(r, heap))
<1>1. q = PortRecord(Moved(r.sequence, s), n, f)
  BY AdvanceMaps
<1>2. /\ n = [i \in Reassembly!Index |-> n[i]]
      /\ f = [i \in Reassembly!Index |-> f[i]]
      /\ \A i \in Reassembly!Index :
           /\ n[i] = IF i \in cleans THEN None ELSE r.entry_sequence[i]
           /\ f[i] = IF i \in cleans THEN PortEmpty ELSE MapEntries(r, heap)[i]
           /\ n[i] = None => f[i] = PortEmpty
  <2> HIDE DEF cleans
  <2> QED BY DEF Gone, MapEntries
<1> HIDE DEF n, f, cleans
<1>3. IsBuffer(PortRecord(Moved(r.sequence, s), n, f))
  BY <1>2, RecordIsBuffer
<1>4. q.sequence = Moved(r.sequence, s) /\ q.entry_sequence = n /\ q.entries = f
  BY <1>1 DEF PortRecord
<1> QED BY <1>1, <1>2, <1>3, <1>4 DEF cleans

\* A packet is removed alike.
LEMMA RemoveCommutes ==
  ASSUME NEW e, Sound(e), NEW s \in SequenceNumber
  PROVE  MapReassembly(Reassembly!RemoveWithCleanup(e.fragment_reassembly, s),
                       FreePacketData(e, Reassembly!RemoveCleans(e.fragment_reassembly, s)))
           = Port!Reassembly!Remove(MapReassembly(e.fragment_reassembly, e.heap), s)
<1> DEFINE r == e.fragment_reassembly
           t == Reassembly!RemoveWithCleanup(r, s)
           cleans == Reassembly!RemoveCleans(r, s)
           heap == FreePacketData(e, cleans)
           i0 == Reassembly!Slot(s)
           p == MapReassembly(r, e.heap)
           q == Port!Reassembly!Remove(p, s)
           m == MapReassembly(t, heap)
<1>1. r \in Buffers /\ e.heap \in Heaps /\ Memory(r, e.heap) /\ Owns(r, e.heap)
  BY SoundReassembly
<1>2. /\ t \in Buffers /\ t.sequence = r.sequence /\ cleans \in SUBSET Reassembly!Index
      /\ cleans = {i0} \cap Reassembly!Occupied(r) /\ Evicts(r, t, {i0})
  BY <1>1, ReassemblyRemoved
<1>3. i0 \in Reassembly!Index
  BY Instances
<1>4. heap \in Heaps /\ Frees(r, e.heap, heap, cleans)
  BY <1>1, <1>2, FreesExactly
<1>5. /\ IsBuffer(p) /\ p.sequence = r.sequence /\ p.entry_sequence = r.entry_sequence
      /\ p.entries = MapEntries(r, e.heap)
      /\ p.entry_sequence[i0] = None => p.entries[i0] = PortEmpty
  BY <1>1, <1>3, MapIsBuffer
<1>6. /\ IsBuffer(q) /\ q.sequence = p.sequence
      /\ \A i \in Reassembly!Index :
           /\ q.entry_sequence[i] = IF i = i0 THEN None ELSE p.entry_sequence[i]
           /\ q.entries[i] = IF i = i0 THEN PortEmpty ELSE p.entries[i]
  <2> HIDE DEF p
  <2> QED BY <1>5, RemovedIs
<1>7. /\ IsBuffer(m) /\ m.sequence = t.sequence /\ m.entry_sequence = t.entry_sequence
      /\ m.entries = MapEntries(t, heap)
  BY <1>2, MapIsBuffer
<1> HIDE DEF r, t, cleans, heap, i0, p, q, m
<1>8. /\ t.entry_sequence = Gone(Reassembly!Index, {i0}, None, r.entry_sequence)
      /\ MapEntries(t, heap) = Gone(Reassembly!Index, {i0}, PortEmpty, MapEntries(r, e.heap))
  <2>1. {i0} \in SUBSET Reassembly!Index /\ cleans \in SUBSET {i0}
    BY <1>2, <1>3
  <2>2. Reassembly!Occupied(r) \cap {i0} \subseteq cleans
    BY <1>2
  <2> QED BY <1>1, <1>2, <1>4, <2>1, <2>2, EvictionMaps
<1>9. \A i \in Reassembly!Index :
        m.entry_sequence[i] = q.entry_sequence[i] /\ m.entries[i] = q.entries[i]
  BY <1>5, <1>6, <1>7, <1>8 DEF Gone
<1>10. m = q
  BY <1>2, <1>5, <1>6, <1>7, <1>9, SameBuffer
<1> QED BY <1>10 DEF r, t, cleans, heap, p, q, m

\* Opening an entry: but for the slot taken, the port's advance; the received
\* window advances too.
LEMMA OpenedMaps ==
  ASSUME NEW e, Sound(e), NEW d \in Datagrams, d.type = "fragment",
         NEW q, q = Port!Reassembly!Advance(MapReassembly(e.fragment_reassembly, e.heap), d.sequence),
         NEW o, o = Opened(e, d),
         NEW u, u = Reassembly!Emptied(o.fragment_reassembly, {Reassembly!Slot(d.sequence)})
  PROVE  /\ o.fragment_reassembly.sequence = q.sequence
         /\ u.sequence = q.sequence
         /\ \A i \in Reassembly!Index :
              /\ u.entry_sequence[i] =
                   IF i = Reassembly!Slot(d.sequence) THEN None ELSE q.entry_sequence[i]
              /\ MapEntries(u, o.heap)[i] =
                   IF i = Reassembly!Slot(d.sequence) THEN PortEmpty ELSE q.entries[i]
         /\ o.sequence = e.sequence /\ o.sent_packets = e.sent_packets /\ o.acks = e.acks
         /\ o.counters = e.counters
         /\ MapReceived(o.received_packets) =
              Port!Received!Advance(MapReceived(e.received_packets), d.sequence)
<1> DEFINE s == d.sequence
           i0 == Reassembly!Slot(s)
           r == e.fragment_reassembly
           t == Reassembly!InsertWithCleanup(r, s)
           cleans == Reassembly!InsertCleans(r, s)
           heap == FreePacketData(e, cleans)
           slots == Reassembly!AdvanceCleans(r, s) \cup {i0}
<1>1. r \in Buffers /\ e.heap \in Heaps /\ Memory(r, e.heap) /\ Owns(r, e.heap)
  BY SoundReassembly
<1>2. s \in SequenceNumber /\ i0 \in Reassembly!Index
  BY FragmentType
<1>3. /\ t \in Buffers /\ t.sequence = Moved(r.sequence, s)
      /\ cleans \in SUBSET slots /\ Reassembly!Occupied(r) \cap slots \subseteq cleans
      /\ slots \in SUBSET Reassembly!Index /\ Evicts(r, Reassembly!Emptied(t, {i0}), slots)
  BY <1>1, <1>2, ReassemblyInserted
<1>4. /\ o.fragment_reassembly = t /\ o.heap = heap
      /\ o.sequence = e.sequence /\ o.sent_packets = e.sent_packets /\ o.acks = e.acks
      /\ o.counters = e.counters
      /\ o.received_packets = Received!Advance(e.received_packets, s)
  BY DEF Opened, Sound, Endpoints
<1>5. u = Reassembly!Emptied(t, {i0})
  BY <1>4
<1>6. heap \in Heaps /\ Frees(r, e.heap, heap, cleans)
  BY <1>1, <1>3, FreesExactly
<1>7. MapReceived(o.received_packets) = Port!Received!Advance(MapReceived(e.received_packets), s)
  BY <1>2, <1>4, SoundParts, ReceivedCommutes
<1> HIDE DEF s, i0, r, t, cleans, heap, slots
<1>8. u \in Buffers /\ u.sequence = t.sequence
  BY <1>2, <1>3, <1>5, ReassemblyEmptied
<1>9. /\ u.entry_sequence = Gone(Reassembly!Index, slots, None, r.entry_sequence)
      /\ MapEntries(u, heap) = Gone(Reassembly!Index, slots, PortEmpty, MapEntries(r, e.heap))
  BY <1>1, <1>3, <1>5, <1>6, <1>8, EvictionMaps
<1>10. /\ q.sequence = Moved(r.sequence, s)
       /\ \A i \in Reassembly!Index :
            /\ q.entry_sequence[i] =
                 IF i \in Reassembly!AdvanceCleans(r, s) THEN None ELSE r.entry_sequence[i]
            /\ q.entries[i] = IF i \in Reassembly!AdvanceCleans(r, s) THEN PortEmpty
                                                                  ELSE MapEntries(r, e.heap)[i]
  <2>1. q = Port!Reassembly!Advance(MapReassembly(r, e.heap), s)
    BY DEF r, s
  <2> QED BY <1>1, <1>2, <2>1, AdvancedIs
<1>11. \A i \in Reassembly!Index :
         /\ u.entry_sequence[i] = IF i = i0 THEN None ELSE q.entry_sequence[i]
         /\ MapEntries(u, heap)[i] = IF i = i0 THEN PortEmpty ELSE q.entries[i]
  BY <1>9, <1>10 DEF Gone, slots
<1> QED BY <1>3, <1>4, <1>7, <1>8, <1>10, <1>11 DEF i0, s

\* An entry of the port, by its fields.
EntryRecord(received, total, marks, bytes, length, h) ==
  [num_fragments_received |-> received, num_fragments_total |-> total,
   fragment_received |-> marks, packet_data |-> bytes, packet_bytes |-> length, header |-> h]

\* A record with those fields is that entry.
LEMMA IsEntryRecord ==
  ASSUME NEW received, NEW total, NEW marks, NEW bytes, NEW length, NEW h,
         NEW x \in [num_fragments_received : {received}, num_fragments_total : {total},
                    fragment_received : {marks}, packet_data : {bytes},
                    packet_bytes : {length}, header : {h}]
  PROVE  x = EntryRecord(received, total, marks, bytes, length, h)
BY DEF EntryRecord

\* The port's new entry.
LEMMA NewReassemblyIs ==
  ASSUME NEW d
  PROVE  Port!NewReassembly(d) = EntryRecord(0, d.num_fragments, {}, NewBlock(d).data, 0, None)
<1> DEFINE zeros == [k \in 1 .. d.num_fragments * FragmentSize |-> Blank]
           empty == Port!EmptyReassembly
           new == [empty EXCEPT !.num_fragments_total = d.num_fragments, !.packet_data = zeros]
<1>1. NewBlock(d).data = zeros
  BY DEF NewBlock
<1>2. empty \in [num_fragments_received : {0}, num_fragments_total : {0}, fragment_received : {{}},
                 packet_data : {<<>>}, packet_bytes : {0}, header : {None}]
  BY DEF Port!EmptyReassembly
<1>3. Port!NewReassembly(d) = new
  BY DEF Port!NewReassembly
<1> HIDE DEF zeros, empty
<1>4. new \in [num_fragments_received : {0}, num_fragments_total : {d.num_fragments},
               fragment_received : {{}}, packet_data : {zeros}, packet_bytes : {0}, header : {None}]
  BY <1>2
<1>5. new = EntryRecord(0, d.num_fragments, {}, zeros, 0, None)
  <2> HIDE DEF new
  <2> QED BY <1>4, IsEntryRecord
<1> QED BY <1>1, <1>3, <1>5

\* A packet's first fragment opens the same entry.
LEMMA AllocatedMaps ==
  ASSUME NEW e, Sound(e), NEW d \in Datagrams, d.type = "fragment",
         NEW p \in Blocks, Opened(e, d).heap[p] = Free,
         NEW f, f = Allocated(e, d, p),
         NEW q, q = Port!Reassembly!Advance(MapReassembly(e.fragment_reassembly, e.heap), d.sequence)
  PROVE  /\ MapReassembly(f.fragment_reassembly, f.heap) =
              Filled(q, Reassembly!Slot(d.sequence), d.sequence, Port!NewReassembly(d))
         /\ f.sequence = e.sequence /\ f.sent_packets = e.sent_packets /\ f.acks = e.acks
         /\ f.counters = e.counters
         /\ MapReceived(f.received_packets) =
              Port!Received!Advance(MapReceived(e.received_packets), d.sequence)
<1> DEFINE s == d.sequence
           i0 == Reassembly!Slot(s)
           o == Opened(e, d)
           r == o.fragment_reassembly
           u == Reassembly!Emptied(r, {i0})
           t == f.fragment_reassembly
           new == Port!NewReassembly(d)
           m == MapReassembly(t, f.heap)
           w == Filled(q, i0, s, new)
<1>1. s \in SequenceNumber /\ s # None /\ i0 \in Reassembly!Index
  BY FragmentType
<1>2. Sound(f) /\ Begins(o, f, d, p)
  BY SoundAllocated
<1>3. /\ o \in Endpoints /\ r.entry_sequence[i0] = s /\ Memory(u, o.heap)
  BY OpenedMemory
<1>4. /\ r.sequence = q.sequence
      /\ \A i \in Reassembly!Index :
           /\ u.entry_sequence[i] = IF i = i0 THEN None ELSE q.entry_sequence[i]
           /\ MapEntries(u, o.heap)[i] = IF i = i0 THEN PortEmpty ELSE q.entries[i]
      /\ o.sequence = e.sequence /\ o.sent_packets = e.sent_packets /\ o.acks = e.acks
      /\ o.counters = e.counters
      /\ MapReceived(o.received_packets) = Port!Received!Advance(MapReceived(e.received_packets), s)
  BY OpenedMaps
<1>5. /\ u.entry_data = r.entry_data
      /\ \A i \in Reassembly!Index :
           u.entry_sequence[i] = IF i = i0 THEN None ELSE r.entry_sequence[i]
  <2>1. {i0} \in SUBSET Reassembly!Index /\ r \in Buffers
    BY <1>1, <1>3 DEF Endpoints, Buffers
  <2> HIDE DEF i0, r
  <2> QED BY <2>1, ReassemblyEmptied
<1>6. /\ f.sequence = o.sequence /\ f.sent_packets = o.sent_packets /\ f.acks = o.acks
      /\ f.counters = o.counters /\ f.received_packets = o.received_packets
      /\ t.sequence = r.sequence /\ t.entry_sequence = r.entry_sequence
      /\ t.entry_data[i0].packet_data = p /\ t.entry_data[i0].packet_bytes = 0
      /\ t.entry_data[i0].num_fragments_received = 0
      /\ t.entry_data[i0].num_fragments_total = d.num_fragments
      /\ t.entry_data[i0].fragment_received = {}
      /\ \A i \in Reassembly!Index \ {i0} : t.entry_data[i] = r.entry_data[i]
      /\ f.heap[p] = NewBlock(d) /\ \A x \in Blocks \ {p} : f.heap[x] = o.heap[x]
  BY <1>2 DEF Begins
<1>7. t \in Buffers
  BY <1>2, SoundParts
<1>8. MapEntry(t.entry_data[i0], f.heap) = new
  <2>1. f.heap[p].data = NewBlock(d).data /\ f.heap[p].header = None
    BY <1>6 DEF NewBlock
  <2> HIDE DEF i0, t
  <2>2. MapEntry(t.entry_data[i0], f.heap) =
          EntryRecord(0, d.num_fragments, {}, NewBlock(d).data, 0, None)
    BY <1>6, <2>1 DEF MapEntry, EntryRecord
  <2> QED BY <2>2, NewReassemblyIs
<1>9. IsBuffer(q)
  BY <1>1, SoundReassembly, AdvancedIs
<1> HIDE DEF s, i0, o, u, t, new, m, w
<1>10. /\ IsBuffer(m) /\ m.sequence = t.sequence /\ m.entry_sequence = t.entry_sequence
       /\ \A i \in Reassembly!Index :
            m.entries[i] = IF t.entry_sequence[i] = None THEN PortEmpty
                           ELSE MapEntry(t.entry_data[i], f.heap)
  BY <1>7, MapIsBuffer DEF m
<1>11. /\ IsBuffer(w) /\ w.sequence = q.sequence
       /\ \A i \in Reassembly!Index :
            /\ w.entry_sequence[i] = IF i = i0 THEN s ELSE q.entry_sequence[i]
            /\ w.entries[i] = IF i = i0 THEN new ELSE q.entries[i]
  BY <1>1, <1>9, FilledIs DEF w
<1>12. ASSUME NEW i \in Reassembly!Index \ {i0}
       PROVE  m.entry_sequence[i] = w.entry_sequence[i] /\ m.entries[i] = w.entries[i]
  <2>1. m.entry_sequence[i] = u.entry_sequence[i] /\ w.entry_sequence[i] = u.entry_sequence[i]
    BY <1>4, <1>5, <1>6, <1>10, <1>11
  <2>2. MapEntries(u, o.heap)[i] = w.entries[i]
    BY <1>4, <1>11
  <2>3. MapEntries(u, o.heap)[i] = IF u.entry_sequence[i] = None THEN PortEmpty
                                   ELSE MapEntry(t.entry_data[i], o.heap)
    BY <1>5, <1>6 DEF MapEntries
  <2>4. u.entry_sequence[i] # None =>
          MapEntry(t.entry_data[i], o.heap) = MapEntry(t.entry_data[i], f.heap)
    <3> SUFFICES ASSUME u.entry_sequence[i] # None
                 PROVE  o.heap[t.entry_data[i].packet_data] = f.heap[t.entry_data[i].packet_data]
      BY DEF MapEntry
    <3>1. i \in Reassembly!Occupied(u)
      BY DEF Reassembly!Occupied
    <3>2. Live(o.heap, t.entry_data[i].packet_data)
      BY <1>3, <1>5, <1>6, <3>1 DEF Memory, Owns, Block
    <3> QED BY <1>6, <3>2 DEF Live, o
  <2> QED BY <1>10, <2>1, <2>2, <2>3, <2>4
<1>13. m.entry_sequence[i0] = w.entry_sequence[i0] /\ m.entries[i0] = w.entries[i0]
  BY <1>1, <1>3, <1>6, <1>8, <1>10, <1>11
<1>14. m = w
  <2>1. m.sequence = w.sequence
    BY <1>4, <1>6, <1>10, <1>11
  <2>2. \A i \in Reassembly!Index :
          m.entry_sequence[i] = w.entry_sequence[i] /\ m.entries[i] = w.entries[i]
    BY <1>12, <1>13
  <2> QED BY <1>10, <1>11, <2>1, <2>2, SameBuffer
<1> QED BY <1>4, <1>6, <1>14 DEF m, w, t, i0, s, new

\* A failed allocation leaves what DropsFragment says.
LEMMA UnallocatedMaps ==
  ASSUME NEW e, Sound(e), NEW d \in Datagrams, d.type = "fragment",
         NEW f, f = Unallocated(e, d),
         NEW q, q = Port!Reassembly!Advance(MapReassembly(e.fragment_reassembly, e.heap), d.sequence)
  PROVE  /\ MapReassembly(f.fragment_reassembly, f.heap) = Port!Reassembly!Remove(q, d.sequence)
         /\ f.sequence = e.sequence /\ f.sent_packets = e.sent_packets /\ f.acks = e.acks
         /\ f.counters = Increment(e.counters, {"num_fragments_invalid"})
         /\ MapReceived(f.received_packets) =
              Port!Received!Advance(MapReceived(e.received_packets), d.sequence)
<1> DEFINE s == d.sequence
           i0 == Reassembly!Slot(s)
           o == Opened(e, d)
           u == Reassembly!Emptied(o.fragment_reassembly, {i0})
           t == f.fragment_reassembly
           m == MapReassembly(t, f.heap)
           w == Port!Reassembly!Remove(q, s)
<1>1. s \in SequenceNumber /\ i0 \in Reassembly!Index
  BY FragmentType
<1>2. Sound(f) /\ GivesUp(o, f, d)
  BY SoundUnallocated
<1>3. /\ o.fragment_reassembly.sequence = q.sequence
      /\ \A i \in Reassembly!Index :
           /\ u.entry_sequence[i] = IF i = i0 THEN None ELSE q.entry_sequence[i]
           /\ MapEntries(u, o.heap)[i] = IF i = i0 THEN PortEmpty ELSE q.entries[i]
      /\ o.sequence = e.sequence /\ o.sent_packets = e.sent_packets /\ o.acks = e.acks
      /\ o.counters = e.counters
      /\ MapReceived(o.received_packets) = Port!Received!Advance(MapReceived(e.received_packets), s)
  BY OpenedMaps
<1>4. /\ f.sequence = o.sequence /\ f.sent_packets = o.sent_packets /\ f.acks = o.acks
      /\ f.counters = Increment(o.counters, {"num_fragments_invalid"})
      /\ f.received_packets = o.received_packets /\ f.heap = o.heap
      /\ t.sequence = o.fragment_reassembly.sequence
      /\ \A i \in Reassembly!Index : t.entry_sequence[i] = u.entry_sequence[i]
      /\ \A i \in Reassembly!Occupied(u) : t.entry_data[i] = u.entry_data[i]
  BY <1>2 DEF GivesUp
<1>5. t \in Buffers
  BY <1>2, SoundParts
<1>6. IsBuffer(q) /\ \A i \in Reassembly!Index : q.entry_sequence[i] = None => q.entries[i] = PortEmpty
  BY <1>1, SoundReassembly, AdvancedIs
<1> HIDE DEF s, i0, o, u, t, m, w
<1>7. /\ IsBuffer(m) /\ m.sequence = t.sequence /\ m.entry_sequence = t.entry_sequence
      /\ \A i \in Reassembly!Index :
           m.entries[i] = IF t.entry_sequence[i] = None THEN PortEmpty
                          ELSE MapEntry(t.entry_data[i], f.heap)
  BY <1>5, MapIsBuffer DEF m
<1>8. /\ IsBuffer(w) /\ w.sequence = q.sequence
      /\ \A i \in Reassembly!Index :
           /\ w.entry_sequence[i] = IF i = i0 THEN None ELSE q.entry_sequence[i]
           /\ w.entries[i] = IF i = i0 THEN PortEmpty ELSE q.entries[i]
  BY <1>1, <1>6, RemovedIs DEF w, i0
<1>9. ASSUME NEW i \in Reassembly!Index
      PROVE  m.entry_sequence[i] = w.entry_sequence[i] /\ m.entries[i] = w.entries[i]
  <2>1. MapEntries(u, o.heap)[i] = IF u.entry_sequence[i] = None THEN PortEmpty
                                   ELSE MapEntry(u.entry_data[i], o.heap)
    BY DEF MapEntries
  <2>2. u.entry_sequence[i] # None => t.entry_data[i] = u.entry_data[i]
    BY <1>4 DEF Reassembly!Occupied
  <2> QED BY <1>3, <1>4, <1>7, <1>8, <2>1, <2>2
<1>10. m = w
  <2>1. m.sequence = w.sequence
    BY <1>3, <1>4, <1>7, <1>8
  <2> QED BY <1>7, <1>8, <1>9, <2>1, SameBuffer
<1> QED BY <1>3, <1>4, <1>10 DEF m, w, t, s

\* Storing a fragment makes of an entry and its block what the port's store does.
LEMMA StoreFragmentMaps ==
  ASSUME NEW data \in ReassemblyData, NEW block \in BlockContents, NEW s,
         Agrees(data, block, s), NEW d \in Datagrams, d.type = "fragment",
         NEW heap, NEW h2, heap[data.packet_data] = block,
         h2[data.packet_data] = StoreBytes(block, data, d)
  PROVE  MapEntry(StoreLengths(data, d), h2) = Port!StoreFragment(MapEntry(data, heap), d)
<1> DEFINE old == MapEntry(data, heap)
           lengths == StoreLengths(data, d)
           bytes == StoreBytes(block, data, d)
           stored == Port!StoreFragment(old, d)
           offset == d.fragment_id * FragmentSize
           total == data.num_fragments_total
           placed == [k \in DOMAIN block.data |->
                        IF k - offset \in DOMAIN d.content THEN d.content[k - offset]
                                                           ELSE block.data[k]]
           length == IF d.fragment_id = total - 1
                     THEN (total - 1) * FragmentSize + Len(d.content) ELSE data.packet_bytes
           contents == IF offset + Len(d.content) <= total * FragmentSize
                       THEN placed ELSE block.data
           h == IF d.fragment_id = 0 THEN d.header ELSE block.header
           marks == data.fragment_received \cup {d.fragment_id}
           received == data.num_fragments_received + 1
<1>1. /\ d.fragment_id \in Nat /\ d.content \in Seq(Byte) /\ FragmentSize \in Nat \ {0}
  BY FragmentType, ConfigAssumption
<1>2. /\ lengths.num_fragments_received = received /\ lengths.num_fragments_total = total
      /\ lengths.fragment_received = marks /\ lengths.packet_bytes = length
      /\ lengths.packet_data = data.packet_data
  <2> HIDE DEF total
  <2> QED BY DEF StoreLengths, ReassemblyData, total
<1>3. bytes.header = h /\ bytes.data = contents
  BY DEF StoreBytes
<1>4. MapEntry(lengths, h2) = EntryRecord(received, total, marks, contents, length, h)
  <2> HIDE DEF received, total, marks, contents, length, h, lengths, bytes
  <2>1. h2[lengths.packet_data] = bytes
    BY <1>2 DEF bytes
  <2> QED BY <1>2, <1>3, <2>1 DEF MapEntry, EntryRecord
<1>5. old \in [num_fragments_received : {data.num_fragments_received},
               num_fragments_total : {total}, fragment_received : {data.fragment_received},
               packet_data : {block.data}, packet_bytes : {data.packet_bytes},
               header : {block.header}]
  BY DEF MapEntry
<1>6. /\ old.num_fragments_total = total /\ old.packet_data = block.data
      /\ Len(block.data) = total * FragmentSize
  BY <1>5 DEF Agrees
<1>7. stored = [old EXCEPT !.num_fragments_received = @ + 1,
                  !.fragment_received = @ \cup {d.fragment_id},
                  !.header = IF d.fragment_id = 0 THEN d.header ELSE @,
                  !.packet_bytes = IF d.fragment_id = total - 1
                                   THEN (total - 1) * FragmentSize + Len(d.content) ELSE @,
                  !.packet_data = contents]
  <2>1. contents = IF offset + Len(d.content) > Len(old.packet_data) THEN old.packet_data
                   ELSE [k \in DOMAIN old.packet_data |->
                           IF k - offset \in DOMAIN d.content THEN d.content[k - offset]
                                                              ELSE old.packet_data[k]]
    <3>1. offset \in Nat /\ Len(d.content) \in Nat /\ total * FragmentSize \in Nat
      BY <1>1 DEF ReassemblyData
    <3>2. (offset + Len(d.content) > Len(old.packet_data)) <=>
            ~(offset + Len(d.content) <= total * FragmentSize)
      BY <1>6, <3>1
    <3> HIDE DEF offset, old, total
    <3> QED BY <1>6, <3>2
  <2> HIDE DEF old, contents, total
  <2> QED BY <1>6, <2>1 DEF Port!StoreFragment
<1> HIDE DEF old, contents, stored
<1>8. stored \in [num_fragments_received : {received}, num_fragments_total : {total},
                  fragment_received : {marks}, packet_data : {contents},
                  packet_bytes : {length}, header : {h}]
  BY <1>5, <1>7
<1>9. stored = EntryRecord(received, total, marks, contents, length, h)
  <2> HIDE DEF received, total, marks, length, h
  <2> QED BY <1>8, IsEntryRecord
<1> QED BY <1>4, <1>9 DEF old, stored

\* A fragment is stored alike.
LEMMA StoredMaps ==
  ASSUME NEW e, Sound(e), NEW d \in Datagrams, d.type = "fragment",
         ReadFragmentHeader(d), HasEntry(e, d), NEW f, f = Store(e, d),
         NEW m, m = MapReassembly(e.fragment_reassembly, e.heap)
  PROVE  /\ MapReassembly(f.fragment_reassembly, f.heap) =
              Updated(m, Reassembly!Slot(d.sequence),
                      Port!StoreFragment(Port!Reassembly!Find(m, d.sequence), d))
         /\ f.sequence = e.sequence /\ f.sent_packets = e.sent_packets /\ f.acks = e.acks
         /\ f.counters = e.counters /\ f.received_packets = e.received_packets
         /\ MapEntry(Reassembly!Find(f.fragment_reassembly, d.sequence), f.heap) =
              Port!StoreFragment(Port!Reassembly!Find(m, d.sequence), d)
<1> DEFINE s == d.sequence
           i0 == Reassembly!Slot(s)
           r == e.fragment_reassembly
           data == Reassembly!Find(r, s)
           p == data.packet_data
           lengths == StoreLengths(data, d)
           contents == StoreBytes(e.heap[p], data, d)
           heap == [e.heap EXCEPT ![p] = contents]
           t == Reassembly!Write(r, s, lengths)
           old == Port!Reassembly!Find(m, s)
           new == Port!StoreFragment(old, d)
           m2 == MapReassembly(t, heap)
           w == Updated(m, i0, new)
<1>1. s \in SequenceNumber /\ s # None /\ i0 \in Reassembly!Index
  BY FragmentType
<1>2. r \in Buffers /\ e.heap \in Heaps /\ Memory(r, e.heap) /\ Owns(r, e.heap)
  BY SoundReassembly
<1>3. /\ i0 \in Reassembly!Occupied(r) /\ data \in ReassemblyData /\ p \in Blocks
      /\ e.heap[p] \in BlockContents /\ Agrees(data, e.heap[p], s)
  BY <1>1, SoundEntry DEF HasEntry
<1>4. f = With(e, e.received_packets, heap, t)
  BY Stored
<1>5. /\ f.fragment_reassembly = t /\ f.heap = heap
      /\ f.sequence = e.sequence /\ f.sent_packets = e.sent_packets /\ f.acks = e.acks
      /\ f.counters = e.counters /\ f.received_packets = e.received_packets
  <2> HIDE DEF heap, t
  <2> QED BY <1>4 DEF With, Sound, Endpoints
<1>6. lengths \in ReassemblyData
  BY <1>3, StoreLengthsType
<1>7. /\ t \in Buffers /\ t.sequence = r.sequence /\ t.entry_sequence = r.entry_sequence
      /\ t.entry_data[i0] = lengths
      /\ \A i \in Reassembly!Index \ {i0} : t.entry_data[i] = r.entry_data[i]
  <2> HIDE DEF lengths
  <2> QED BY <1>1, <1>2, <1>6, ReassemblyWritten
<1>8. heap[p] = contents /\ \A x \in Blocks \ {p} : heap[x] = e.heap[x]
  BY <1>2, <1>3 DEF Heaps
<1>9. r.entry_sequence[i0] = s /\ data = r.entry_data[i0]
  BY DEF HasEntry, Reassembly!Exists, Reassembly!Find
<1>10. /\ IsBuffer(m) /\ m.sequence = r.sequence /\ m.entry_sequence = r.entry_sequence
       /\ \A i \in Reassembly!Index :
            m.entries[i] = IF r.entry_sequence[i] = None THEN PortEmpty
                           ELSE MapEntry(r.entry_data[i], e.heap)
  BY <1>2, MapIsBuffer
<1>11. old = MapEntry(data, e.heap)
  <2>1. old = m.entries[i0]
    BY SameSlots DEF Port!Reassembly!Find
  <2> QED BY <1>1, <1>9, <1>10, <2>1
<1>12. MapEntry(lengths, heap) = new
  <2> HIDE DEF data, lengths, old, new, heap
  <2> QED BY <1>3, <1>8, <1>11, StoreFragmentMaps DEF lengths, new
<1> HIDE DEF s, i0, data, p, lengths, contents, heap, t, r, old, new, w, m2
<1>13. /\ IsBuffer(m2) /\ m2.sequence = t.sequence /\ m2.entry_sequence = t.entry_sequence
       /\ \A i \in Reassembly!Index :
            m2.entries[i] = IF t.entry_sequence[i] = None THEN PortEmpty
                            ELSE MapEntry(t.entry_data[i], heap)
  BY <1>7, MapIsBuffer DEF m2
<1>14. /\ IsBuffer(w) /\ w.sequence = m.sequence /\ w.entry_sequence = m.entry_sequence
       /\ \A i \in Reassembly!Index : w.entries[i] = IF i = i0 THEN new ELSE m.entries[i]
  BY <1>1, <1>10, UpdatedIs DEF w
<1>15. ASSUME NEW i \in Reassembly!Index, i # i0, r.entry_sequence[i] # None
       PROVE  MapEntry(t.entry_data[i], heap) = MapEntry(r.entry_data[i], e.heap)
  <2>1. i \in Reassembly!Occupied(r) /\ t.entry_data[i] = r.entry_data[i]
    BY <1>7, <1>15 DEF Reassembly!Occupied
  <2>2. /\ r.entry_data[i].packet_data \in Blocks
        /\ r.entry_data[i].packet_data # r.entry_data[i0].packet_data
    BY <1>2, <1>3, <1>15, <2>1 DEF Owns, Block, Live
  <2>3. heap[r.entry_data[i].packet_data] = e.heap[r.entry_data[i].packet_data]
    BY <1>8, <1>9, <2>2 DEF p
  <2> QED BY <2>1, <2>3 DEF MapEntry
<1>16. \A i \in Reassembly!Index :
         m2.entry_sequence[i] = w.entry_sequence[i] /\ m2.entries[i] = w.entries[i]
  BY <1>1, <1>7, <1>9, <1>10, <1>12, <1>13, <1>14, <1>15
<1>17. m2 = w
  BY <1>7, <1>10, <1>13, <1>14, <1>16, SameBuffer
<1>18. Reassembly!Find(t, d.sequence) = lengths
  BY <1>7 DEF Reassembly!Find, i0, s
<1> QED BY <1>5, <1>12, <1>17, <1>18 DEF m2, w, i0, s, new, old

\* A slot filled and then updated is filled with the update.
LEMMA FilledThenUpdated ==
  ASSUME NEW q, IsBuffer(q), NEW i0 \in Reassembly!Index, NEW s, NEW x, NEW y
  PROVE  Updated(Filled(q, i0, s, x), i0, y) = Filled(q, i0, s, y)
<1> DEFINE a == Filled(q, i0, s, x)
           b == Filled(q, i0, s, y)
           u == Updated(a, i0, y)
<1>1. /\ IsBuffer(a) /\ a.sequence = q.sequence
      /\ \A i \in Reassembly!Index :
           /\ a.entry_sequence[i] = IF i = i0 THEN s ELSE q.entry_sequence[i]
           /\ a.entries[i] = IF i = i0 THEN x ELSE q.entries[i]
  BY FilledIs
<1>2. /\ IsBuffer(b) /\ b.sequence = q.sequence
      /\ \A i \in Reassembly!Index :
           /\ b.entry_sequence[i] = IF i = i0 THEN s ELSE q.entry_sequence[i]
           /\ b.entries[i] = IF i = i0 THEN y ELSE q.entries[i]
  BY FilledIs
<1> HIDE DEF a, b
<1>3. /\ IsBuffer(u) /\ u.sequence = a.sequence /\ u.entry_sequence = a.entry_sequence
      /\ \A i \in Reassembly!Index : u.entries[i] = IF i = i0 THEN y ELSE a.entries[i]
  BY <1>1, UpdatedIs
<1> HIDE DEF u
<1>4. u = b
  BY <1>1, <1>2, <1>3, SameBuffer
<1> QED BY <1>4 DEF u, a, b

\* The entry a fragment is stored in is the port's, in the same place.
LEMMA PreparedMaps ==
  ASSUME Sound(endpoint), NEW d \in Datagrams, d.type = "fragment",
         NEW f \in Prepared(endpoint, d),
         NEW m, m = MapReassembly(f.fragment_reassembly, f.heap)
  PROVE  /\ Port!Reassembly!Find(m, d.sequence) = Port!Entry(d)
         /\ \A x : Updated(m, Reassembly!Slot(d.sequence), x) = Port!ReassemblyWith(d, x)
         /\ MapReceived(f.received_packets) = Port!ReceivedOnOpen(d)
         /\ f.sequence = endpoint.sequence /\ f.sent_packets = endpoint.sent_packets
         /\ f.acks = endpoint.acks /\ f.counters = endpoint.counters
<1> DEFINE s == d.sequence
           i0 == Reassembly!Slot(s)
<1>1. s \in SequenceNumber /\ i0 \in Reassembly!Index
  BY FragmentType
<1>2. /\ PortReceived = MapReceived(endpoint.received_packets)
      /\ PortReassembly = MapReassembly(endpoint.fragment_reassembly, endpoint.heap)
  BY Mapping
<1>3. Port!Reassembly!Exists(PortReassembly, s) <=> HasEntry(endpoint, d)
  BY <1>2, SameAnswers DEF HasEntry
<1>4. CASE HasEntry(endpoint, d)
  <2>1. f = endpoint
    BY <1>4 DEF Prepared
  <2>2. m = PortReassembly
    BY <1>2, <2>1
  <2>3. \A x : Port!ReassemblyWith(d, x) = Updated(m, i0, x)
    BY <1>3, <1>4, <2>2, PortWrites DEF Port!ReassemblyWith
  <2> QED BY <1>2, <1>3, <1>4, <2>1, <2>2, <2>3 DEF Port!Entry, Port!ReceivedOnOpen
<1>5. CASE ~HasEntry(endpoint, d)
  <2> DEFINE q == Port!Reassembly!Advance(PortReassembly, s)
             new == Port!NewReassembly(d)
  <2>1. PICK p \in Allocations(Opened(endpoint, d).heap) \ {NULL} : f = Allocated(endpoint, d, p)
    BY <1>5 DEF Prepared
  <2>2. p \in Blocks /\ Opened(endpoint, d).heap[p] = Free
    BY <2>1 DEF Allocations
  <2>3. q = Port!Reassembly!Advance(
              MapReassembly(endpoint.fragment_reassembly, endpoint.heap), s)
    BY <1>2
  <2> HIDE DEF q, i0
  <2>4. IsBuffer(q)
    BY <1>1, <2>3, SoundReassembly, AdvancedIs
  <2>5. /\ m = Filled(q, i0, s, new)
        /\ f.sequence = endpoint.sequence /\ f.sent_packets = endpoint.sent_packets
        /\ f.acks = endpoint.acks /\ f.counters = endpoint.counters
        /\ MapReceived(f.received_packets) =
             Port!Received!Advance(MapReceived(endpoint.received_packets), s)
    BY <2>1, <2>2, <2>3, AllocatedMaps DEF i0
  <2> HIDE DEF new
  <2>6. m.entries[i0] = new
    BY <1>1, <2>4, <2>5, FilledIs
  <2>7. Port!Reassembly!Find(m, s) = new
    BY <2>6, SameSlots DEF Port!Reassembly!Find, i0
  <2>8. \A x : Updated(m, i0, x) = Filled(q, i0, s, x)
    BY <1>1, <2>4, <2>5, FilledThenUpdated
  <2>9. \A x : Port!ReassemblyWith(d, x) = Filled(q, i0, s, x)
    BY <1>3, <1>5, PortWrites DEF Port!ReassemblyWith, q, i0
  <2> QED BY <1>2, <1>3, <1>5, <2>5, <2>7, <2>8, <2>9 DEF Port!Entry, Port!ReceivedOnOpen, new, i0
<1> QED BY <1>4, <1>5

\* An entry with all of its packet's fragments has the packet's header.
LEMMA CompleteHasHeader ==
  ASSUME NEW e, Sound(e), NEW d \in Datagrams, d.type = "fragment", HasEntry(e, d),
         NEW data, data = Reassembly!Find(e.fragment_reassembly, d.sequence),
         Complete(data), data.num_fragments_total # 0
  PROVE  e.heap[data.packet_data].header # None
<1> DEFINE total == data.num_fragments_total
           marks == data.fragment_received
<1>1. d.sequence \in SequenceNumber
  BY FragmentType
<1>2. data \in ReassemblyData /\ Agrees(data, e.heap[data.packet_data], d.sequence)
  BY <1>1, SoundEntry DEF HasEntry
<1>3. total \in Nat /\ marks \subseteq 0 .. total - 1 /\ Cardinality(marks) = total
  BY <1>2 DEF ReassemblyData, Agrees, Complete
<1>4. IsFiniteSet(0 .. total - 1) /\ Cardinality(0 .. total - 1) = total
  BY <1>3, FS_Interval
<1>5. marks = 0 .. total - 1
  BY <1>3, <1>4, FS_Subset
<1>6. 0 \in marks
  BY <1>3, <1>5
<1> QED BY <1>2, <1>6 DEF Agrees

-----------------------------------------------------------------------------
(* The ack loop                                                            *)

\* The number of the packet at an offset of a header's ack bits.
AckedNumber(h, i) == Uint16(h.ack - i)

\* The offsets whose set bit names a packet sent and not acked yet.
Due(e, h) ==
  {i \in h.ack_bits : /\ Sent!Exists(e.sent_packets, AckedNumber(h, i))
                      /\ ~Sent!Find(e.sent_packets, AckedNumber(h, i))}

AckedNumbers(h, reported, n) == [k \in 1 .. n |-> AckedNumber(h, reported[k])]

\* A slot is that of one of the packets reported.
Acked(h, reported, n, slot) == \E k \in 1 .. n : slot = Sent!Slot(AckedNumber(h, reported[k]))

\* Endpoint f is e after the first n packets of `reported` were reported.
Reports(e, f, h, n, reported) ==
  /\ f.acks = e.acks \o AckedNumbers(h, reported, n)
  /\ f.counters = Plus(e.counters, "num_packets_acked", n)
  /\ f.sent_packets.sequence = e.sent_packets.sequence
  /\ f.sent_packets.entry_sequence = e.sent_packets.entry_sequence
  /\ \A slot \in Sent!Index :
       f.sent_packets.entry_data[slot] <=>
         (e.sent_packets.entry_data[slot] \/ Acked(h, reported, n, slot))

\* What is reported of the offsets below k: from the lowest up, all that are due
\* while there is room.
UpTo(e, h, k, n, reported) ==
  /\ n \in 0 .. k /\ n <= AckBufferSize - Len(e.acks)
  /\ reported \in [1 .. n -> Due(e, h)]
  /\ \A j \in 1 .. n : reported[j] < k
  /\ \A i, j \in 1 .. n : i < j => reported[i] < reported[j]
  /\ \A i \in Due(e, h) : i < k =>
       \/ \E j \in 1 .. n : reported[j] = i
       \/ n = AckBufferSize - Len(e.acks) /\ \A j \in 1 .. n : reported[j] < i

\* The lemmas on remainders, whose module's assumptions hold here.
LEMMA RemainderOfSum ==
  ASSUME NEW m \in Nat \ {0}, NEW a \in Int, NEW n \in Int
  PROVE  ((a % m) + n) % m = (a + n) % m
<1>1. None \notin Numbers!SequenceNumber
  BY DataAssumption DEF Numbers!SequenceNumber, SequenceNumber
<1> QED BY <1>1, ConfigAssumption, Numbers!AddRemainder

\* Numbers less than m apart with the same remainder are the same.
LEMMA SameRemainder ==
  ASSUME NEW m \in Nat \ {0}, NEW a \in Int, NEW b \in Int,
         a - b > -m, a - b < m, a % m = b % m
  PROVE  a = b
<1>1. None \notin Numbers!SequenceNumber
  BY DataAssumption DEF Numbers!SequenceNumber, SequenceNumber
<1> QED BY <1>1, ConfigAssumption, Numbers!Apart

\* What a turn that reports does.
LEMMA AckBitReports ==
  ASSUME NEW g \in Endpoints, NEW h \in Headers, NEW k \in 0 .. AckBits - 1,
         NEW f, f = AckBit(g, h, k),
         k \in h.ack_bits, Len(g.acks) < AckBufferSize,
         Sent!Exists(g.sent_packets, AckedNumber(h, k)),
         ~Sent!Find(g.sent_packets, AckedNumber(h, k))
  PROVE  /\ f.acks = Append(g.acks, AckedNumber(h, k))
         /\ f.counters = Increment(g.counters, {"num_packets_acked"})
         /\ f.sent_packets.sequence = g.sent_packets.sequence
         /\ f.sent_packets.entry_sequence = g.sent_packets.entry_sequence
         /\ \A slot \in Sent!Index :
              f.sent_packets.entry_data[slot] <=>
                (slot = Sent!Slot(AckedNumber(h, k)) \/ g.sent_packets.entry_data[slot])
<1> DEFINE s == AckedNumber(h, k)
           b == g.sent_packets
<1>1. b \in SentBuffers
  BY DEF Endpoints, SentBuffers
<1>2. /\ f.acks = Append(g.acks, s)
      /\ f.counters = Increment(g.counters, {"num_packets_acked"})
      /\ f.sent_packets = Sent!Write(b, s, TRUE)
  BY DEF AckBit, AckedNumber, Count, Endpoints
<1> HIDE DEF s, b
<1>3. /\ Sent!Write(b, s, TRUE).sequence = b.sequence
      /\ Sent!Write(b, s, TRUE).entry_sequence = b.entry_sequence
      /\ Sent!Write(b, s, TRUE).entry_data = [b.entry_data EXCEPT ![Sent!Slot(s)] = TRUE]
  BY <1>1 DEF Sent!Write, SentBuffers, Sent!BufferOf
<1>4. DOMAIN b.entry_data = Sent!Index
  BY <1>1 DEF SentBuffers, Sent!BufferOf
<1>5. \A slot \in Sent!Index :
        [b.entry_data EXCEPT ![Sent!Slot(s)] = TRUE][slot] <=>
          (slot = Sent!Slot(s) \/ b.entry_data[slot])
  BY <1>4
<1> QED BY <1>2, <1>3, <1>5 DEF s, b

\* Adding one to a counter that n were added to.
LEMMA PlusOneMore ==
  ASSUME NEW c \in CountersOf, NEW n \in Nat, NEW name \in CounterNames
  PROVE  Increment(Plus(c, name, n), {name}) = Plus(c, name, n + 1)
<1>1. c[name] \in Nat /\ CounterModulus \in Nat \ {0}
  BY CounterModulusAssumption DEF CountersOf
<1>2. (((c[name] + n) % CounterModulus) + 1) % CounterModulus = (c[name] + n + 1) % CounterModulus
  <2> DEFINE v == c[name] + n
             m == CounterModulus
  <2>1. v \in Int /\ m \in Nat \ {0} /\ 1 \in Int
    BY <1>1
  <2> HIDE DEF v, m
  <2>2. ((v % m) + 1) % m = (v + 1) % m
    BY <2>1, RemainderOfSum
  <2> QED BY <2>2 DEF v, m
<1>3. c[name] + n + 1 = c[name] + (n + 1)
  BY <1>1
<1> DEFINE i == Increment(Plus(c, name, n), {name})
           p == Plus(c, name, n + 1)
<1>4. \A x \in CounterNames : i[x] = p[x]
  BY <1>2, <1>3 DEF Increment, Plus, CountersOf
<1>5. i = [x \in CounterNames |-> i[x]] /\ p = [x \in CounterNames |-> p[x]]
  BY DEF Increment, Plus, CountersOf
<1> HIDE DEF i, p
<1>6. i = p
  BY <1>4, <1>5
<1> QED BY <1>6 DEF i, p

\* The acks and n numbers reported, with the number at offset k after them.
Grows(acks, h, n, one, two, k) ==
  /\ Append(acks \o AckedNumbers(h, one, n), AckedNumber(h, k)) =
       acks \o AckedNumbers(h, two, n + 1)
  /\ Len(acks \o AckedNumbers(h, one, n)) = Len(acks) + n

\* One more number reported is one more at the end of the acks.
LEMMA AckedNumbersGrow ==
  ASSUME NEW acks \in Seq(SequenceNumber), NEW h \in Headers, NEW n \in Nat,
         NEW one, NEW two, NEW k \in Nat,
         \A j \in 1 .. n : one[j] \in Nat /\ two[j] = one[j], two[n + 1] = k
  PROVE  Grows(acks, h, n, one, two, k)
<1> DEFINE a == AckedNumbers(h, one, n)
           b == AckedNumbers(h, two, n + 1)
           s == AckedNumber(h, k)
<1>1. \A i \in Nat : AckedNumber(h, i) \in SequenceNumber
  <2>1. h.ack \in Int
    BY ConfigAssumption DEF Headers, SequenceNumber
  <2>2. \A i \in Nat : h.ack - i \in Int
    BY <2>1
  <2> QED BY <2>2, Uint16Type DEF AckedNumber
<1>2. a \in Seq(SequenceNumber) /\ Len(a) = n /\ \A j \in 1 .. n : a[j] = AckedNumber(h, one[j])
  <2>1. \A j \in 1 .. n : AckedNumber(h, one[j]) \in SequenceNumber
    BY <1>1
  <2> QED BY <2>1 DEF AckedNumbers
<1>3. /\ b \in Seq(SequenceNumber) /\ Len(b) = n + 1
      /\ \A j \in 1 .. n + 1 : b[j] = AckedNumber(h, two[j])
  <2>1. \A j \in 1 .. n + 1 : AckedNumber(h, two[j]) \in SequenceNumber
    <3>1. \A j \in 1 .. n + 1 : j \in 1 .. n \/ j = n + 1
      OBVIOUS
    <3> QED BY <1>1, <3>1
  <2> QED BY <2>1 DEF AckedNumbers
<1>4. s \in SequenceNumber
  BY <1>1
<1>5. \A j \in 1 .. n : a[j] = b[j]
  BY <1>2, <1>3
<1>6. b[n + 1] = s
  BY <1>3
<1> HIDE DEF a, b, s
<1>7. b = Append(a, s)
  <2>1. /\ Append(a, s) \in Seq(SequenceNumber) /\ Len(Append(a, s)) = n + 1
        /\ \A j \in 1 .. n : Append(a, s)[j] = a[j]
        /\ Append(a, s)[n + 1] = s
    BY <1>2, <1>4, AppendProperties
  <2>2. \A j \in 1 .. Len(b) : b[j] = Append(a, s)[j]
    BY <1>3, <1>5, <1>6, <2>1
  <2> QED BY <1>3, <2>1, <2>2, SeqEqual
<1>8. Append(acks \o a, s) = acks \o Append(a, s)
  <2>1. acks \o a \in Seq(SequenceNumber) /\ <<s>> \in Seq(SequenceNumber)
    BY <1>2, <1>4, ConcatProperties
  <2>2. Append(acks \o a, s) = (acks \o a) \o <<s>> /\ Append(a, s) = a \o <<s>>
    BY <1>2, <1>4, <2>1, AppendIsConcat
  <2> QED BY <1>2, <2>1, <2>2, ConcatAssociative
<1>9. Len(acks \o a) = Len(acks) + n
  BY <1>2, ConcatProperties
<1> QED BY <1>7, <1>8, <1>9 DEF a, b, s, Grows

\* The offset of turn k names none of the packets reported before it.
LEMMA NotReportedYet ==
  ASSUME NEW e \in Endpoints, NEW h \in Headers, NEW k \in 0 .. AckBits - 1, NEW n \in Nat,
         NEW reported \in [1 .. n -> Due(e, h)], \A j \in 1 .. n : reported[j] < k,
         Sent!Exists(e.sent_packets, AckedNumber(h, k))
  PROVE  ~Acked(h, reported, n, Sent!Slot(AckedNumber(h, k)))
<1> SUFFICES ASSUME NEW j \in 1 .. n,
                    Sent!Slot(AckedNumber(h, k)) = Sent!Slot(AckedNumber(h, reported[j]))
             PROVE  FALSE
  BY DEF Acked
<1> DEFINE i == reported[j]
<1>1. i \in Due(e, h) /\ i < k
  OBVIOUS
<1>2. i \in 0 .. AckBits - 1 /\ Sent!Exists(e.sent_packets, AckedNumber(h, i))
  BY <1>1 DEF Due, Headers
<1> HIDE DEF i
<1>3. AckedNumber(h, k) = AckedNumber(h, i)
  BY <1>2 DEF Sent!Exists, i
<1>4. /\ h.ack \in Int /\ AckBits \in Nat /\ AckBits <= SequenceModulus
      /\ SequenceModulus \in Nat \ {0} /\ k \in Nat /\ i \in Nat
  BY <1>2, ConfigAssumption DEF Headers, SequenceNumber
<1>5. /\ h.ack - k \in Int /\ h.ack - i \in Int
      /\ (h.ack - k) - (h.ack - i) > -SequenceModulus
      /\ (h.ack - k) - (h.ack - i) < SequenceModulus
  BY <1>1, <1>2, <1>4
<1>6. (h.ack - k) % SequenceModulus = (h.ack - i) % SequenceModulus
  BY <1>3 DEF AckedNumber, Uint16
<1>7. h.ack - k = h.ack - i
  <2> DEFINE a == h.ack - k
             b == h.ack - i
  <2> HIDE DEF a, b
  <2>1. a = b
    BY <1>4, <1>5, <1>6, SameRemainder DEF a, b
  <2> QED BY <2>1 DEF a, b
<1> QED BY <1>1, <1>4, <1>7

\* One turn of the loop reports its offset if it is due and there is room.
LEMMA OneTurn ==
  ASSUME NEW e \in Endpoints, NEW g \in Endpoints, NEW h \in Headers,
         NEW k \in 0 .. AckBits - 1, NEW n, NEW reported,
         UpTo(e, h, k, n, reported), Reports(e, g, h, n, reported)
  PROVE  \E n2, two : /\ UpTo(e, h, k + 1, n2, two)
                      /\ Reports(e, AckBit(g, h, k), h, n2, two)
<1> DEFINE room == AckBufferSize - Len(e.acks)
           s == AckedNumber(h, k)
           two == [j \in 1 .. n + 1 |-> IF j = n + 1 THEN k ELSE reported[j]]
<1>1. /\ n \in Nat /\ n <= k /\ n <= room /\ reported \in [1 .. n -> Due(e, h)]
      /\ k \in Nat /\ room \in Int /\ AckBufferSize \in Nat
      /\ \A j \in 1 .. n : reported[j] \in Nat /\ reported[j] < k
      /\ Due(e, h) \subseteq 0 .. AckBits - 1
  <2>1. /\ AckBits \in Nat /\ AckBufferSize \in Nat /\ e.acks \in Seq(SequenceNumber)
    BY ConfigAssumption DEF Endpoints
  <2>2. Due(e, h) \subseteq 0 .. AckBits - 1
    BY DEF Due, Headers
  <2> QED BY <2>1, <2>2 DEF UpTo
<1>2. /\ \A j \in 1 .. n : two[j] = reported[j]
      /\ two[n + 1] = k
  BY <1>1
<1>3. /\ Append(g.acks, s) = e.acks \o AckedNumbers(h, two, n + 1)
      /\ Len(g.acks) = Len(e.acks) + n
  <2>1. e.acks \in Seq(SequenceNumber) /\ g.acks = e.acks \o AckedNumbers(h, reported, n)
    BY DEF Endpoints, Reports
  <2>2. n \in Nat /\ k \in Nat /\ \A j \in 1 .. n : reported[j] \in Nat /\ two[j] = reported[j]
    BY <1>1, <1>2
  <2> HIDE DEF two, room
  <2>3. Grows(e.acks, h, n, reported, two, k)
    BY <2>1, <2>2, <1>2, AckedNumbersGrow
  <2> QED BY <2>1, <2>3 DEF Grows
<1>4. Sent!Exists(g.sent_packets, s) <=> Sent!Exists(e.sent_packets, s)
  BY DEF Sent!Exists, Reports
<1>5. s \in SequenceNumber /\ Sent!Slot(s) \in Sent!Index
  <2>1. h.ack - k \in Int
    BY ConfigAssumption DEF Headers, SequenceNumber
  <2>2. s \in SequenceNumber
    BY <2>1, Uint16Type DEF AckedNumber
  <2> HIDE DEF s
  <2> QED BY <2>2, Instances
<1>6. Sent!Exists(e.sent_packets, s) =>
        (Sent!Find(g.sent_packets, s) <=> Sent!Find(e.sent_packets, s))
  <2>1. Sent!Exists(e.sent_packets, s) => ~Acked(h, reported, n, Sent!Slot(s))
    BY <1>1, NotReportedYet
  <2> HIDE DEF s
  <2> QED BY <1>5, <2>1 DEF Sent!Find, Reports
<1>7. k \in Due(e, h) <=> /\ k \in h.ack_bits /\ Sent!Exists(g.sent_packets, s)
                          /\ ~Sent!Find(g.sent_packets, s)
  BY <1>4, <1>6 DEF Due
<1>10. room = AckBufferSize - Len(e.acks)
  OBVIOUS
<1> HIDE DEF two, s, room
<1>8. CASE k \in Due(e, h) /\ n < room
  <2>1. UpTo(e, h, k + 1, n + 1, two)
    <3>1. n + 1 \in 0 .. k + 1 /\ n + 1 <= AckBufferSize - Len(e.acks)
      <4>1. n + 1 \in 0 .. k + 1 /\ n + 1 <= room
        BY <1>1, <1>8
      <4> QED BY <4>1 DEF room
    <3>2. two \in [1 .. n + 1 -> Due(e, h)] /\ \A j \in 1 .. n + 1 : two[j] < k + 1
      BY <1>1, <1>8 DEF two
    <3>3. ASSUME NEW i \in 1 .. n + 1, NEW j \in 1 .. n + 1, i < j PROVE two[i] < two[j]
      <4>1. CASE j = n + 1
        BY <1>1, <1>2, <3>3, <4>1
      <4>2. CASE j # n + 1
        <5>1. i \in 1 .. n /\ j \in 1 .. n
          BY <1>1, <3>3, <4>2
        <5> QED BY <1>2, <3>3, <5>1 DEF UpTo
      <4> QED BY <4>1, <4>2
    <3>4. ASSUME NEW i \in Due(e, h), i < k + 1 PROVE \E j \in 1 .. n + 1 : two[j] = i
      <4>1. CASE i = k
        BY <1>1, <1>2, <4>1
      <4>2. CASE i # k
        <5>1. i < k
          BY <1>1, <3>4, <4>2
        <5>2. PICK j \in 1 .. n : reported[j] = i
          BY <1>1, <1>8, <1>10, <5>1 DEF UpTo
        <5> QED BY <1>1, <1>2, <5>2
      <4> QED BY <4>1, <4>2
    <3> QED BY <3>1, <3>2, <3>3, <3>4 DEF UpTo
  <2>2. Reports(e, AckBit(g, h, k), h, n + 1, two)
    <3> DEFINE f == AckBit(g, h, k)
    <3>1. /\ k \in h.ack_bits /\ Len(g.acks) < AckBufferSize
          /\ Sent!Exists(g.sent_packets, s) /\ ~Sent!Find(g.sent_packets, s)
      <4>1. Len(e.acks) \in Nat
        BY DEF Endpoints
      <4> QED BY <1>1, <1>3, <1>7, <1>8, <1>10, <4>1
    <3>2. /\ f.acks = Append(g.acks, s)
          /\ f.counters = Increment(g.counters, {"num_packets_acked"})
          /\ f.sent_packets.sequence = g.sent_packets.sequence
          /\ f.sent_packets.entry_sequence = g.sent_packets.entry_sequence
          /\ \A slot \in Sent!Index :
               f.sent_packets.entry_data[slot] <=>
                 (slot = Sent!Slot(s) \/ g.sent_packets.entry_data[slot])
      BY <3>1, AckBitReports DEF s
    <3> HIDE DEF f
    <3>3. f.counters = Plus(e.counters, "num_packets_acked", n + 1)
      <4>1. e.counters \in CountersOf /\ "num_packets_acked" \in CounterNames
        BY DEF Endpoints, CounterNames
      <4> QED BY <1>1, <3>2, <4>1, PlusOneMore DEF Reports
    <3>4. \A slot : Acked(h, two, n + 1, slot) <=>
                      (slot = Sent!Slot(s) \/ Acked(h, reported, n, slot))
      <4>1. \A j \in 1 .. n + 1 : j \in 1 .. n \/ j = n + 1
        BY <1>1
      <4>2. 1 .. n \subseteq 1 .. n + 1 /\ n + 1 \in 1 .. n + 1
        BY <1>1
      <4> QED BY <1>2, <4>1, <4>2 DEF Acked, s
    <3>5. \A slot \in Sent!Index :
            f.sent_packets.entry_data[slot] <=>
              (e.sent_packets.entry_data[slot] \/ Acked(h, two, n + 1, slot))
      BY <3>2, <3>4 DEF Reports
    <3> QED BY <1>3, <3>2, <3>3, <3>5 DEF Reports, f
  <2> QED BY <2>1, <2>2
<1>9. CASE ~(k \in Due(e, h) /\ n < room)
  <2>1. AckBit(g, h, k) = g
    <3>1. ~(/\ k \in h.ack_bits /\ Sent!Exists(g.sent_packets, s)
            /\ ~Sent!Find(g.sent_packets, s) /\ Len(g.acks) < AckBufferSize)
      <4>1. Len(e.acks) \in Nat
        BY DEF Endpoints
      <4> QED BY <1>1, <1>3, <1>7, <1>9, <1>10, <4>1
    <3> QED BY <3>1 DEF AckBit, s, AckedNumber
  <2>2. UpTo(e, h, k + 1, n, reported)
    <3>1. n \in 0 .. k + 1 /\ \A j \in 1 .. n : reported[j] < k + 1
      BY <1>1
    <3>2. ASSUME NEW i \in Due(e, h), i < k + 1
          PROVE  \/ \E j \in 1 .. n : reported[j] = i
                 \/ n = room /\ \A j \in 1 .. n : reported[j] < i
      <4>1. CASE i = k
        <5>1. n = room
          BY <1>1, <1>9, <4>1
        <5> QED BY <1>1, <4>1, <5>1
      <4>2. CASE i # k
        <5>1. i < k
          BY <1>1, <3>2, <4>2
        <5> QED BY <1>10, <5>1 DEF UpTo
      <4> QED BY <4>1, <4>2
    <3> QED BY <1>10, <3>1, <3>2 DEF UpTo
  <2> QED BY <2>1, <2>2
<1> QED BY <1>8, <1>9

\* The whole loop.
LEMMA AckLoopReports ==
  ASSUME NEW e \in Endpoints, NEW h \in Headers, Len(e.acks) <= AckBufferSize
  PROVE  \E n, reported : /\ UpTo(e, h, AckBits, n, reported)
                          /\ Reports(e, AckLoop(e, h), h, n, reported)
<1> DEFINE turn == AckTurns(e, h)
           S == {k \in 0 .. AckBits :
                   /\ turn[k] \in Endpoints
                   /\ \E n, reported : /\ UpTo(e, h, k, n, reported)
                                       /\ Reports(e, turn[k], h, n, reported)}
<1>0. AckBits \in Nat
  BY ConfigAssumption
<1>1. 0 \in S
  <2> DEFINE none == [j \in 1 .. 0 |-> 0]
  <2>1. turn[0] = e
    BY AckTurnsStep
  <2>2. AckedNumbers(h, none, 0) = <<>>
    BY DEF AckedNumbers
  <2>3. /\ e.acks \in Seq(SequenceNumber) /\ e.counters \in CountersOf
        /\ e.sent_packets \in SentBuffers
    BY DEF Endpoints, SentBuffers
  <2>4. e.acks = e.acks \o AckedNumbers(h, none, 0)
    BY <2>2, <2>3, ConcatEmptySeq
  <2>5. e.counters = Plus(e.counters, "num_packets_acked", 0)
    <3> DEFINE p == Plus(e.counters, "num_packets_acked", 0)
    <3>1. \A x \in CounterNames : p[x] = e.counters[x]
      BY <2>3, CounterModulusAssumption DEF Plus, CountersOf
    <3>2. p = [x \in CounterNames |-> p[x]] /\ e.counters = [x \in CounterNames |-> e.counters[x]]
      BY <2>3 DEF Plus, CountersOf
    <3> HIDE DEF p
    <3>3. p = e.counters
      BY <3>1, <3>2
    <3> QED BY <3>3 DEF p
  <2>6. \A slot : ~Acked(h, none, 0, slot)
    BY DEF Acked
  <2>7. Reports(e, e, h, 0, none)
    BY <2>4, <2>5, <2>6 DEF Reports
  <2>8. UpTo(e, h, 0, 0, none)
    <3>1. 0 <= AckBufferSize - Len(e.acks)
      BY <2>3, ConfigAssumption
    <3>2. none \in [1 .. 0 -> Due(e, h)]
      OBVIOUS
    <3>3. \A i \in Due(e, h) : ~(i < 0)
      BY <1>0 DEF Due, Headers
    <3> QED BY <3>1, <3>2, <3>3 DEF UpTo
  <2> HIDE DEF none, turn
  <2> QED BY <1>0, <2>1, <2>7, <2>8
<1>2. ASSUME NEW k \in 0 .. AckBits - 1, k \in S PROVE k + 1 \in S
  <2>1. turn[k + 1] = AckBit(turn[k], h, k) /\ k \in Nat
    BY <1>0, AckTurnsStep
  <2> HIDE DEF turn
  <2>2. turn[k] \in Endpoints /\ turn[k + 1] \in Endpoints
    BY <1>2, <2>1, AckBitType
  <2>3. PICK n, reported : UpTo(e, h, k, n, reported) /\ Reports(e, turn[k], h, n, reported)
    BY <1>2
  <2>4. \E n2, two : UpTo(e, h, k + 1, n2, two) /\ Reports(e, turn[k + 1], h, n2, two)
    BY <2>1, <2>2, <2>3, OneTurn
  <2>5. k + 1 \in 0 .. AckBits
    BY <1>0
  <2> QED BY <2>2, <2>4, <2>5
<1>3. AckBits \in S
  <2> HIDE DEF S
  <2> QED BY <1>0, <1>1, <1>2, InductionUpTo
<1> QED BY <1>3 DEF AckLoop

\* The port's flagging of the packets reported.
Flagged(p, h, reported, n) ==
  [p EXCEPT !.entries = [slot \in DOMAIN @ |-> @[slot] \/ Acked(h, reported, n, slot)]]

\* Both flag the same packets.
LEMMA FlagsMap ==
  ASSUME NEW e \in Endpoints, NEW f \in Endpoints, NEW h \in Headers, NEW n \in Nat,
         NEW reported \in [1 .. n -> Due(e, h)], Reports(e, f, h, n, reported)
  PROVE  MapSent(f.sent_packets) = Flagged(MapSent(e.sent_packets), h, reported, n)
<1> DEFINE b == e.sent_packets
           c == f.sent_packets
           data == [i \in Sent!Index |-> IF b.entry_sequence[i] = None THEN FALSE ELSE b.entry_data[i]]
           more == [i \in Sent!Index |-> data[i] \/ Acked(h, reported, n, i)]
           p == MapSent(b)
<1>1. /\ b.entry_sequence \in [Sent!Index -> SequenceNumber \cup {None}]
      /\ b.entry_data \in [Sent!Index -> BOOLEAN]
      /\ c.entry_data \in [Sent!Index -> BOOLEAN]
  BY Instances DEF Endpoints, SentBuffers, Sent!BufferOf
<1>2. /\ c.sequence = b.sequence /\ c.entry_sequence = b.entry_sequence
      /\ \A i \in Sent!Index : c.entry_data[i] <=> (b.entry_data[i] \/ Acked(h, reported, n, i))
  BY DEF Reports
<1>3. ASSUME NEW i \in Sent!Index, Acked(h, reported, n, i) PROVE b.entry_sequence[i] # None
  <2>1. PICK k \in 1 .. n : i = Sent!Slot(AckedNumber(h, reported[k]))
    BY <1>3 DEF Acked
  <2> DEFINE s == AckedNumber(h, reported[k])
  <2>2. reported[k] \in Due(e, h)
    OBVIOUS
  <2>3. Sent!Exists(b, s) /\ reported[k] \in Nat
    BY <2>2, ConfigAssumption DEF Due, Headers
  <2>4. h.ack - reported[k] \in Int
    BY <2>3, ConfigAssumption DEF Headers, SequenceNumber
  <2>5. s \in SequenceNumber
    BY <2>4, Uint16Type DEF AckedNumber
  <2> HIDE DEF s
  <2>6. s # None
    BY <2>5, DataAssumption
  <2> QED BY <2>1, <2>3, <2>6 DEF Sent!Exists, s
<1>4. p = PortRecord(b.sequence, b.entry_sequence, data)
  BY DEF MapSent, PortRecord
<1>5. MapSent(c) = PortRecord(b.sequence, b.entry_sequence,
        [i \in Sent!Index |-> IF b.entry_sequence[i] = None THEN FALSE ELSE c.entry_data[i]])
  BY <1>2 DEF MapSent, PortRecord
<1>6. ASSUME NEW i \in Sent!Index
      PROVE  (IF b.entry_sequence[i] = None THEN FALSE ELSE c.entry_data[i]) = more[i]
  <2>1. data[i] \in BOOLEAN /\ more[i] \in BOOLEAN /\ c.entry_data[i] \in BOOLEAN
    BY <1>1
  <2>2. more[i] <=> (data[i] \/ Acked(h, reported, n, i))
    OBVIOUS
  <2>3. CASE b.entry_sequence[i] = None
    <3>1. data[i] = FALSE
      BY <2>3
    <3>2. more[i] = FALSE
      BY <1>3, <2>1, <2>2, <2>3, <3>1
    <3> QED BY <2>3, <3>2
  <2>4. CASE b.entry_sequence[i] # None
    <3>1. data[i] = b.entry_data[i]
      BY <2>4
    <3>2. c.entry_data[i] <=> more[i]
      BY <1>2, <2>2, <3>1
    <3> HIDE DEF more
    <3>3. c.entry_data[i] = more[i]
      BY <2>1, <3>2
    <3> QED BY <2>4, <3>3
  <2> QED BY <2>3, <2>4
<1>7. [i \in Sent!Index |-> IF b.entry_sequence[i] = None THEN FALSE ELSE c.entry_data[i]] = more
  BY <1>6
<1>8. Flagged(p, h, reported, n) \in [sequence : {b.sequence}, entry_sequence : {b.entry_sequence},
                                      entries : {more}]
  <2>1. p.entries = data /\ DOMAIN data = Sent!Index
    BY <1>4 DEF PortRecord
  <2>2. p \in [sequence : {b.sequence}, entry_sequence : {b.entry_sequence}, entries : {data}]
    BY <1>4 DEF PortRecord
  <2> HIDE DEF data, p
  <2> QED BY <2>1, <2>2 DEF Flagged
<1> HIDE DEF data, more, p, b, c
<1>9. Flagged(p, h, reported, n) = PortRecord(b.sequence, b.entry_sequence, more)
  BY <1>8, IsPortRecord
<1>10. MapSent(c) = Flagged(p, h, reported, n)
  BY <1>5, <1>7, <1>9
<1> QED BY <1>10 DEF b, c, p

\* Both report the packets that are due.
LEMMA SameDue ==
  ASSUME Sound(endpoint), NEW h \in Headers
  PROVE  /\ Port!Reportable(h) = Due(endpoint, h)
         /\ \A i : Port!AckSequence(h, i) = AckedNumber(h, i)
<1> DEFINE b == endpoint.sent_packets
<1>1. \A i : Port!AckSequence(h, i) = AckedNumber(h, i)
  BY SameNumbers DEF Port!AckSequence, AckedNumber
<1>2. PortSent = MapSent(b) /\ b \in SentBuffers
  BY Mapping, SoundParts
<1>3. ASSUME NEW i \in h.ack_bits
      PROVE  /\ Port!Sent!Exists(PortSent, AckedNumber(h, i)) <=> Sent!Exists(b, AckedNumber(h, i))
             /\ Sent!Exists(b, AckedNumber(h, i)) =>
                  (Port!Sent!Find(PortSent, AckedNumber(h, i)) <=> Sent!Find(b, AckedNumber(h, i)))
  <2> DEFINE s == AckedNumber(h, i)
  <2>1. h.ack - i \in Int
    BY ConfigAssumption DEF Headers, SequenceNumber
  <2>2. s \in SequenceNumber
    BY <2>1, Uint16Type DEF AckedNumber
  <2> HIDE DEF s, b
  <2>3. s # None /\ Sent!Slot(s) \in Sent!Index
    BY <2>2, Instances, DataAssumption
  <2>4. Port!Sent!Exists(PortSent, s) <=> Sent!Exists(b, s)
    BY <1>2, SameAnswers
  <2>5. Sent!Exists(b, s) => (Port!Sent!Find(PortSent, s) <=> Sent!Find(b, s))
    BY <1>2, <2>3, SameSlots DEF Port!Sent!Find, Sent!Find, Sent!Exists, MapSent
  <2> QED BY <2>4, <2>5 DEF s
<1>4. Port!Reportable(h) = Due(endpoint, h)
  BY <1>1, <1>3 DEF Port!Reportable, Due
<1> QED BY <1>1, <1>4

\* The counters of an accepted packet, counted before and after its acks.
LEMMA CountedAround ==
  ASSUME NEW c \in CountersOf, NEW n \in Nat, NEW before, NEW after,
         before \cap after = {}, "num_packets_acked" \notin before \cup after
  PROVE  Increment(Plus(Increment(c, before), "num_packets_acked", n), after) =
           Plus(Increment(c, before \cup after), "num_packets_acked", n)
<1> DEFINE i == Increment(Plus(Increment(c, before), "num_packets_acked", n), after)
           p == Plus(Increment(c, before \cup after), "num_packets_acked", n)
<1>1. \A x \in CounterNames : i[x] = p[x]
  BY DEF Increment, Plus, CountersOf, CounterNames
<1>2. i = [x \in CounterNames |-> i[x]] /\ p = [x \in CounterNames |-> p[x]]
  BY DEF Increment, Plus, CountersOf
<1> HIDE DEF i, p
<1>3. i = p
  BY <1>1, <1>2
<1> QED BY <1>3 DEF i, p

\* The ack loop is the port's: both report the same packets, in the same order.
LEMMA AcksMap ==
  ASSUME Sound(endpoint), Sound(endpoint'), Len(endpoint.acks) <= AckBufferSize,
         NEW h \in Headers, NEW e \in Endpoints, NEW before, NEW after,
         e.sent_packets = endpoint.sent_packets, e.acks = endpoint.acks,
         e.counters = Increment(endpoint.counters, before),
         before \cap after = {}, "num_packets_acked" \notin before \cup after,
         endpoint'.sent_packets = AckLoop(e, h).sent_packets,
         endpoint'.acks = AckLoop(e, h).acks,
         endpoint'.counters = Increment(AckLoop(e, h).counters, after)
  PROVE  /\ Port!ProcessAcks(h, before \cup after)
         /\ Len(endpoint'.acks) <= AckBufferSize
<1> DEFINE f == AckLoop(e, h)
<1>1. PICK n, reported : UpTo(e, h, AckBits, n, reported) /\ Reports(e, f, h, n, reported)
  BY AckLoopReports
<1>2. f \in Endpoints
  BY AckLoopType
<1> HIDE DEF f
<1>3. /\ Port!Reportable(h) = Due(e, h)
      /\ \A i : Port!AckSequence(h, i) = AckedNumber(h, i)
  BY SameDue DEF Due
<1>4. Port!Room = AckBufferSize - Len(e.acks)
  BY DEF Port!Room
<1>5. /\ n \in 0 .. AckBits /\ n \in Nat /\ n <= Port!Room
      /\ reported \in [1 .. n -> Port!Reportable(h)]
      /\ reported \in [1 .. n -> Due(e, h)]
      /\ \A j, k \in 1 .. n : j < k => reported[j] < reported[k]
      /\ \A i \in Port!Reportable(h) :
           \/ \E k \in 1 .. n : reported[k] = i
           \/ n = Port!Room /\ \A k \in 1 .. n : reported[k] < i
  <2>1. \A i \in Due(e, h) : i < AckBits
    BY ConfigAssumption DEF Due, Headers
  <2>2. n \in 0 .. AckBits /\ n \in Nat
    BY <1>1, ConfigAssumption DEF UpTo
  <2> QED BY <1>1, <1>3, <1>4, <2>1, <2>2 DEF UpTo
<1>6. endpoint'.acks = endpoint.acks \o [k \in 1 .. n |-> Port!AckSequence(h, reported[k])]
  BY <1>1, <1>3 DEF Reports, AckedNumbers, f
<1>7. PortSent' = [PortSent EXCEPT !.entries =
        [slot \in DOMAIN @ |->
           @[slot] \/ \E k \in 1 .. n : slot = Port!Sent!Slot(Port!AckSequence(h, reported[k]))]]
  <2>1. PortSent = MapSent(e.sent_packets) /\ PortSent' = MapSent(f.sent_packets)
    BY Mapping, MappingNext DEF f
  <2>2. PortSent' = Flagged(PortSent, h, reported, n)
    BY <1>1, <1>2, <1>5, <2>1, FlagsMap
  <2> QED BY <1>3, <2>2, SameSlots DEF Flagged, Acked
<1>8. endpoint'.counters = Plus(Increment(endpoint.counters, before \cup after), "num_packets_acked", n)
  <2>1. endpoint.counters \in CountersOf
    BY SoundParts
  <2>2. endpoint'.counters =
          Increment(Plus(Increment(endpoint.counters, before), "num_packets_acked", n), after)
    BY <1>1 DEF Reports, f
  <2> QED BY <1>5, <2>1, <2>2, CountedAround
<1>9. Len(endpoint'.acks) <= AckBufferSize
  <2>1. e.acks \in Seq(SequenceNumber)
    BY DEF Endpoints
  <2>2. \A k \in 1 .. n : AckedNumber(h, reported[k]) \in SequenceNumber
    <3>1. \A k \in 1 .. n : h.ack - reported[k] \in Int
      <4>1. \A i \in Due(e, h) : i \in Int
        BY ConfigAssumption DEF Due, Headers
      <4>2. h.ack \in Int
        BY ConfigAssumption DEF Headers, SequenceNumber
      <4> QED BY <1>5, <4>1, <4>2
    <3> QED BY <3>1, Uint16Type DEF AckedNumber
  <2>3. /\ AckedNumbers(h, reported, n) \in Seq(SequenceNumber)
        /\ Len(AckedNumbers(h, reported, n)) = n
    BY <1>5, <2>2 DEF AckedNumbers
  <2>4. endpoint'.acks = e.acks \o AckedNumbers(h, reported, n)
    BY <1>1 DEF Reports, f
  <2>5. Len(endpoint'.acks) = Len(e.acks) + n /\ Len(e.acks) \in Nat
    <3> DEFINE a == AckedNumbers(h, reported, n)
               acks == e.acks
    <3>1. acks \in Seq(SequenceNumber) /\ a \in Seq(SequenceNumber)
      BY <2>1, <2>3
    <3> HIDE DEF a, acks
    <3>2. Len(acks \o a) = Len(acks) + Len(a) /\ Len(acks) \in Nat
      BY <3>1, ConcatProperties
    <3> QED BY <2>3, <2>4, <3>2 DEF a, acks
  <2>6. n \in Nat /\ n <= AckBufferSize - Len(e.acks) /\ AckBufferSize \in Nat
    BY <1>1, <1>5, ConfigAssumption DEF UpTo
  <2> QED BY <2>5, <2>6
<1>10. endpoint'.counters = Port!Plus(Port!Increment(endpoint.counters, before \cup after), "num_packets_acked", n)
  BY <1>8 DEF Port!Plus, Port!Increment, Plus, Increment, Port!CounterNames, CounterNames
<1> QED BY <1>5, <1>6, <1>7, <1>9, <1>10 DEF Port!ProcessAcks

-----------------------------------------------------------------------------
(* The regular branch                                                      *)

\* Counters bumped one set after the other.
LEMMA CountedTwice ==
  ASSUME NEW c \in CountersOf, NEW first, NEW second
  PROVE  /\ Increment(c, {}) = c
         /\ first \cap second = {} =>
              Increment(Increment(c, first), second) = Increment(c, first \cup second)
<1> DEFINE i == Increment(c, {})
           j == Increment(Increment(c, first), second)
           k == Increment(c, first \cup second)
<1>1. /\ \A x \in CounterNames : i[x] = c[x]
      /\ first \cap second = {} => \A x \in CounterNames : j[x] = k[x]
  BY DEF Increment, CountersOf
<1>2. /\ i = [x \in CounterNames |-> i[x]] /\ j = [x \in CounterNames |-> j[x]]
      /\ k = [x \in CounterNames |-> k[x]] /\ c = [x \in CounterNames |-> c[x]]
  BY DEF Increment, CountersOf
<1> HIDE DEF i, j, k
<1>3. i = c /\ (first \cap second = {} => j = k)
  BY <1>1, <1>2
<1> QED BY <1>3 DEF i, j, k

\* The port counts as the C code does.
LEMMA SameCounting ==
  /\ \A c, names : Port!Increment(c, names) = Increment(c, names)
  /\ \A c, name, n : Port!Plus(c, name, n) = Plus(c, name, n)
  /\ Port!ZeroCounters = ZeroCounters
BY DEF Port!Increment, Increment, Port!Plus, Plus, Port!CounterNames, CounterNames,
   Port!ZeroCounters, ZeroCounters

\* What counting changes.
LEMMA CountedIs ==
  ASSUME NEW e \in Endpoints, NEW names, NEW f, f = Count(e, names)
  PROVE  /\ f \in Endpoints /\ SameButAcks(e, f)
         /\ f.sent_packets = e.sent_packets /\ f.acks = e.acks
         /\ f.counters = Increment(e.counters, names)
<1>1. f \in Endpoints /\ SameButAcks(e, f)
  BY Counted
<1> QED BY <1>1 DEF Count, Endpoints

\* What the port has of the heap and the packets under reassembly of e.
Mapped(e) == MapReassembly(e.fragment_reassembly, e.heap)

\* The counter of the last fragment, bumped where a packet was rebuilt.
LastFragment(rebuilt) == IF rebuilt THEN {"num_fragments_received"} ELSE {}

\* How a rebuilt packet leaves: its entry removed, its last fragment counted.
LeftOf(e, s, rebuilt) == IF rebuilt THEN Leave(e, s) ELSE e

\* Leaving, to the port.
LEMMA LeftMaps ==
  ASSUME NEW e, Sound(e), NEW s, NEW rebuilt \in BOOLEAN, rebuilt => s \in SequenceNumber,
         NEW f, f = LeftOf(e, s, rebuilt)
  PROVE  /\ f.sequence = e.sequence /\ f.sent_packets = e.sent_packets /\ f.acks = e.acks
         /\ f.received_packets = e.received_packets
         /\ f.counters = Increment(e.counters, LastFragment(rebuilt))
         /\ Mapped(f) = IF rebuilt THEN Port!Reassembly!Remove(Mapped(e), s) ELSE Mapped(e)
<1>1. CASE ~rebuilt
  <2>1. f = e
    BY <1>1 DEF LeftOf
  <2>2. LastFragment(rebuilt) = {} /\ e.counters \in CountersOf
    BY <1>1, SoundParts DEF LastFragment
  <2>3. Increment(e.counters, {}) = e.counters
    BY <2>2, CountedTwice
  <2> QED BY <1>1, <2>1, <2>2, <2>3
<1>2. CASE rebuilt
  <2> DEFINE r == e.fragment_reassembly
             t == Reassembly!RemoveWithCleanup(r, s)
             heap == FreePacketData(e, Reassembly!RemoveCleans(r, s))
             g == With(e, e.received_packets, heap, t)
  <2>1. r \in Buffers /\ e.heap \in Heaps /\ Memory(r, e.heap) /\ e.received_packets \in ReceivedBuffers
        /\ e \in Endpoints
    BY SoundParts DEF Sound
  <2>2. t \in Buffers /\ Reassembly!RemoveCleans(r, s) \in SUBSET Reassembly!Index
    BY <1>2, <2>1, ReassemblyRemoved DEF Memory
  <2>3. heap \in Heaps
    BY <2>1, <2>2, FreesExactly DEF Memory
  <2>4. f = Count(g, {"num_fragments_received"})
    BY <1>2 DEF LeftOf, Leave, Sound, Endpoints, With
  <2>5. MapReassembly(t, heap) = Port!Reassembly!Remove(Mapped(e), s)
    BY <1>2, RemoveCommutes DEF Mapped
  <2> HIDE DEF t, heap
  <2>6. /\ g \in Endpoints /\ g.received_packets = e.received_packets /\ g.heap = heap
        /\ g.fragment_reassembly = t /\ g.sequence = e.sequence /\ g.acks = e.acks
        /\ g.counters = e.counters /\ g.sent_packets = e.sent_packets
    BY <2>1, <2>2, <2>3, WithType
  <2> HIDE DEF g
  <2>7. /\ SameButAcks(g, f) /\ f.sent_packets = g.sent_packets /\ f.acks = g.acks
        /\ f.counters = Increment(g.counters, {"num_fragments_received"})
    BY <2>4, <2>6, CountedIs
  <2>8. Mapped(f) = MapReassembly(t, heap)
    BY <2>6, <2>7 DEF Mapped, SameButAcks
  <2> QED BY <1>2, <2>5, <2>6, <2>7, <2>8 DEF SameButAcks, LastFragment
<1> QED BY <1>1, <1>2

\* The endpoint with an accepted packet entered, before its acks.
EnteredOf(e, s) ==
  With(e, Received!Insert(e.received_packets, s),
       FreePacketData(e, Reassembly!AdvanceCleans(e.fragment_reassembly, s)),
       Reassembly!AdvanceWithCleanup(e.fragment_reassembly, s))

\* Accepting a packet, to the port.
LEMMA AcceptedMaps ==
  ASSUME NEW e, Sound(e), NEW h \in Headers,
         Received!TestInsert(e.received_packets, h.sequence),
         NEW g, g = EnteredOf(e, h.sequence), NEW f, f = Accept(e, h)
  PROVE  /\ f = AckLoop(g, h) /\ g \in Endpoints /\ f.sequence = e.sequence
         /\ g.sent_packets = e.sent_packets /\ g.acks = e.acks /\ g.counters = e.counters
         /\ MapReceived(f.received_packets) =
              Port!Received!Insert(MapReceived(e.received_packets), h.sequence, None)
         /\ Mapped(f) = Port!Reassembly!Advance(Mapped(e), h.sequence)
<1> DEFINE s == h.sequence
           r == e.fragment_reassembly
           t == Reassembly!AdvanceWithCleanup(r, s)
           cleans == Reassembly!AdvanceCleans(r, s)
           heap == FreePacketData(e, cleans)
           b == Received!Insert(e.received_packets, s)
<1>1. s \in SequenceNumber
  BY DEF Headers
<1>2. r \in Buffers /\ e.heap \in Heaps /\ Memory(r, e.heap) /\ e \in Endpoints
      /\ e.received_packets \in ReceivedBuffers
  BY SoundParts DEF Sound
<1>3. t \in Buffers /\ cleans \in SUBSET Reassembly!Index
  BY <1>1, <1>2, ReassemblyAdvanced
<1>4. heap \in Heaps
  BY <1>2, <1>3, FreesExactly DEF Memory
<1>5. b \in ReceivedBuffers
  BY <1>1, <1>2, ReceivedInserted
<1>6. f = AckLoop(g, h)
  BY DEF Accept, With, EnteredOf
<1>7. MapReassembly(t, heap) = Port!Reassembly!Advance(Mapped(e), s)
  BY <1>1, ReassemblyAdvanceCommutes DEF Mapped
<1>8. MapReceived(b) = Port!Received!Insert(MapReceived(e.received_packets), s, None)
  BY <1>1, <1>2, ReceivedCommutes
<1>9. g = With(e, b, heap, t)
  BY DEF EnteredOf
<1> HIDE DEF t, cleans, heap, b
<1>10. /\ g \in Endpoints /\ g.received_packets = b /\ g.heap = heap
       /\ g.fragment_reassembly = t /\ g.sequence = e.sequence /\ g.acks = e.acks
       /\ g.counters = e.counters /\ g.sent_packets = e.sent_packets
  BY <1>2, <1>3, <1>4, <1>5, <1>9, WithType
<1>11. SameButAcks(g, f)
  BY <1>6, <1>10, AckLoopType
<1>12. Mapped(f) = MapReassembly(t, heap) /\ f.received_packets = b /\ f.sequence = e.sequence
  BY <1>10, <1>11 DEF Mapped, SameButAcks
<1> QED BY <1>6, <1>7, <1>8, <1>10, <1>12

\* What the port asks of a packet.
Gated(h, content) == Port!PassesGate(HeaderBytes(h) + Len(content))

Fits(content) == Len(content) <= MaxPacketSize

Fresh(received, h) == Port!Received!CanInsert(received, h.sequence)

Duplicate(received, h) == Port!Received!Exists(received, h.sequence)

Passes(received, h, content) ==
  Gated(h, content) /\ Fits(content) /\ Fresh(received, h) /\ ~Duplicate(received, h)

\* What it counts where the answers are those.
CountsAs(names, received, h, content) ==
  /\ ~Gated(h, content) => names = {"num_packets_too_large_to_receive"}
  /\ Gated(h, content) /\ ~Fits(content) =>
       names = {"num_packets_received", "num_packets_too_large_to_receive"}
  /\ Gated(h, content) /\ Fits(content) /\ ~Fresh(received, h) =>
       names = {"num_packets_received", "num_packets_stale"}
  /\ Gated(h, content) /\ Fits(content) /\ Fresh(received, h) /\ Duplicate(received, h) =>
       names = {"num_packets_received", "num_packets_duplicate"}
  /\ Passes(received, h, content) => names = {"num_packets_received"}

\* Both refuse the same packets, and count them alike.
LEMMA RefusalIs ==
  ASSUME NEW e, NEW h \in Headers, NEW content \in Seq(Byte),
         NEW q, q = MapReceived(e.received_packets), NEW names, names = Refusal(e, h, content)
  PROVE  /\ CountsAs(names, q, h, content)
         /\ Processes(e, h, content) <=> Passes(q, h, content)
         /\ "num_packets_acked" \notin names /\ "num_fragments_received" \notin names
<1> DEFINE gate == PassesGate(BytesOf(h, content))
           fits == ~(Len(content) > MaxPacketSize)
           stale == ~Received!TestInsert(e.received_packets, h.sequence)
           duplicate == Received!Exists(e.received_packets, h.sequence)
<1>1. h # None
  BY DataAssumption
<1>2. Gated(h, content) <=> gate
  <2>1. HeaderBytes(h) \in Int /\ Len(content) \in Int
    BY DataAssumption, ConfigAssumption
  <2>2. HeaderBytes(h) + Len(content) = Len(content) + HeaderBytes(h)
    BY <2>1
  <2>3. BytesOf(h, content) = Len(content) + HeaderBytes(h)
    BY <1>1 DEF BytesOf
  <2> QED BY <2>2, <2>3 DEF PassesGate, Port!PassesGate, Gated
<1>3. (Fresh(q, h) <=> ~stale) /\ (Duplicate(q, h) <=> duplicate) /\ (Fits(content) <=> fits)
  <2>1. Len(content) \in Int /\ MaxPacketSize \in Int
    BY ConfigAssumption
  <2>2. Fits(content) <=> fits
    BY <2>1 DEF Fits
  <2> QED BY <2>2, SameAnswers DEF Fresh, Duplicate
<1>4. /\ ~gate => names = {"num_packets_too_large_to_receive"}
      /\ gate /\ ~fits =>
           names = {"num_packets_received"} \cup {"num_packets_too_large_to_receive"}
      /\ gate /\ fits /\ stale => names = {"num_packets_received"} \cup {"num_packets_stale"}
      /\ gate /\ fits /\ ~stale /\ duplicate =>
           names = {"num_packets_received"} \cup {"num_packets_duplicate"}
      /\ gate /\ fits /\ ~stale /\ ~duplicate => names = {"num_packets_received"} \cup {}
  <2>1. names = IF ~gate THEN {"num_packets_too_large_to_receive"}
                ELSE {"num_packets_received"} \cup
                  (IF h = None THEN {"num_packets_invalid"}
                   ELSE IF ~fits THEN {"num_packets_too_large_to_receive"}
                   ELSE IF stale THEN {"num_packets_stale"}
                   ELSE IF duplicate THEN {"num_packets_duplicate"} ELSE {})
    BY DEF Refusal
  <2> HIDE DEF gate, fits, stale, duplicate
  <2> QED BY <1>1, <2>1, Zenon
<1> HIDE DEF gate, fits, stale, duplicate
<1>5. CountsAs(names, q, h, content)
  BY <1>2, <1>3, <1>4 DEF CountsAs, Passes
<1>6. "num_packets_acked" \notin names /\ "num_fragments_received" \notin names
  BY <1>4
<1>7. names = {"num_packets_received"} <=> Passes(q, h, content)
  <2>1. Passes(q, h, content) <=> gate /\ fits /\ ~stale /\ ~duplicate
    BY <1>2, <1>3 DEF Passes
  <2>2. CASE ~gate
    <3>1. "num_packets_received" \notin names
      BY <1>4, <2>2
    <3> QED BY <2>1, <2>2, <3>1
  <2>3. CASE gate /\ ~(fits /\ ~stale /\ ~duplicate)
    <3>1. \/ "num_packets_too_large_to_receive" \in names \/ "num_packets_stale" \in names
          \/ "num_packets_duplicate" \in names
      BY <1>4, <2>3
    <3> QED BY <2>1, <2>3, <3>1
  <2>4. CASE gate /\ fits /\ ~stale /\ ~duplicate
    BY <1>4, <2>1, <2>4
  <2> QED BY <2>2, <2>3, <2>4
<1> QED BY <1>5, <1>6, <1>7 DEF Processes

\* The regular branch, on a datagram or a packet rebuilt in endpoint g.
LEMMA Handles ==
  ASSUME Sound(endpoint), Sound(endpoint'), Len(endpoint.acks) <= AckBufferSize,
         NEW g, Sound(g), g.sequence = endpoint.sequence,
         g.sent_packets = endpoint.sent_packets, g.acks = endpoint.acks,
         g.counters = endpoint.counters,
         NEW h \in Headers, NEW content \in Seq(Byte), NEW s, NEW rebuilt \in BOOLEAN,
         rebuilt => s = h.sequence, NEW answer \in Answers,
         (answer = "unused") <=> ~Processes(g, h, content),
         endpoint' = Finish(Arrive(g, h, content), h, s, rebuilt, answer),
         NEW received, received = MapReceived(g.received_packets),
         NEW reassembly, reassembly = Mapped(g)
  PROVE  /\ Port!HandleRegular(h, content, answer, received, reassembly, rebuilt)
         /\ Len(endpoint'.acks) <= AckBufferSize
<1> DEFINE names == Refusal(g, h, content)
           e == Arrive(g, h, content)
           last == LastFragment(rebuilt)
           gated == Gated(h, content)
           fits == Fits(content)
           fresh == Fresh(received, h)
           duplicate == Duplicate(received, h)
           After(b) == IF rebuilt THEN Port!Reassembly!Remove(b, h.sequence) ELSE b
<1>1. /\ Sound(e) /\ SameButAcks(g, e) /\ e.sent_packets = g.sent_packets /\ e.acks = g.acks
      /\ e.counters = Increment(g.counters, names) /\ g.counters \in CountersOf
      /\ e \in Endpoints
  <2>1. g \in Endpoints /\ e = Count(g, names)
    BY DEF Sound, Arrive
  <2> HIDE DEF e, names
  <2>2. Sound(e)
    BY <2>1, SoundCounted
  <2> QED BY <2>1, <2>2, CountedIs, SoundParts
<1>2. /\ ~gated => names = {"num_packets_too_large_to_receive"}
      /\ gated /\ ~fits =>
           names = {"num_packets_received", "num_packets_too_large_to_receive"}
      /\ gated /\ fits /\ ~fresh => names = {"num_packets_received", "num_packets_stale"}
      /\ gated /\ fits /\ fresh /\ duplicate =>
           names = {"num_packets_received", "num_packets_duplicate"}
      /\ gated /\ fits /\ fresh /\ ~duplicate => names = {"num_packets_received"}
      /\ Processes(g, h, content) <=> (gated /\ fits /\ fresh /\ ~duplicate)
      /\ "num_packets_acked" \notin names /\ "num_fragments_received" \notin names
  <2> HIDE DEF names
  <2>1. /\ CountsAs(names, received, h, content)
        /\ Processes(g, h, content) <=> Passes(received, h, content)
        /\ "num_packets_acked" \notin names /\ "num_fragments_received" \notin names
    BY RefusalIs DEF names
  <2> QED BY <2>1 DEF CountsAs, Passes
<1>3. /\ PortSent = MapSent(endpoint.sent_packets) /\ PortSent' = MapSent(endpoint'.sent_packets)
      /\ PortReceived' = MapReceived(endpoint'.received_packets)
      /\ PortReassembly' = Mapped(endpoint')
  BY Mapping, MappingNext DEF Mapped
<1>4. names \cap last = {} /\ "num_packets_acked" \notin names \cup last
  BY <1>2 DEF LastFragment
<1>5. rebuilt => s \in SequenceNumber /\ s = h.sequence
  BY DEF Headers
<1>6. Mapped(e) = reassembly /\ e.received_packets = g.received_packets /\ e.sequence = g.sequence
  BY <1>1 DEF Mapped, SameButAcks
<1>7. CASE answer # "accepted"
  <2>1. endpoint' = LeftOf(e, s, rebuilt)
    BY <1>7 DEF Finish, LeftOf
  <2> HIDE DEF e, names, last
  <2>2. /\ endpoint'.sequence = e.sequence /\ endpoint'.sent_packets = e.sent_packets
        /\ endpoint'.acks = e.acks /\ endpoint'.received_packets = e.received_packets
        /\ endpoint'.counters = Increment(e.counters, last)
        /\ Mapped(endpoint') = IF rebuilt THEN Port!Reassembly!Remove(Mapped(e), s) ELSE Mapped(e)
    BY <1>1, <1>5, <2>1, LeftMaps DEF last
  <2>3. endpoint'.counters = Port!Increment(endpoint.counters, names \cup last)
    BY <1>1, <1>4, <2>2, CountedTwice, SameCounting
  <2>4. /\ PortReceived' = received /\ PortReassembly' = After(reassembly)
        /\ endpoint'.counters = Port!Increment(endpoint.counters, names \cup last)
        /\ endpoint'.sequence = endpoint.sequence /\ PortSent' = PortSent
        /\ endpoint'.acks = endpoint.acks
    BY <1>1, <1>3, <1>5, <1>6, <2>2, <2>3
  <2>5. Port!HandleRegular(h, content, answer, received, reassembly, rebuilt)
    <3> HIDE DEF gated, fits, fresh, duplicate
    <3>1. CASE answer = "unused"
      <4>1. ~(gated /\ fits /\ fresh /\ ~duplicate)
        BY <1>2, <3>1
      <4>2. CASE ~gated
        BY <1>2, <2>4, <3>1, <4>2 DEF Port!HandleRegular, Gated, Fits, Fresh, Duplicate, gated, last, LastFragment
      <4>3. CASE gated /\ ~fits
        BY <1>2, <2>4, <3>1, <4>3 DEF Port!HandleRegular, Gated, Fits, Fresh, Duplicate, gated, fits, last, LastFragment
      <4>4. CASE gated /\ fits /\ ~fresh
        BY <1>2, <2>4, <3>1, <4>4 DEF Port!HandleRegular, Gated, Fits, Fresh, Duplicate, gated, fits, fresh, last, LastFragment
      <4>5. CASE gated /\ fits /\ fresh /\ duplicate
        BY <1>2, <2>4, <3>1, <4>5
           DEF Port!HandleRegular, Gated, Fits, Fresh, Duplicate, gated, fits, fresh, duplicate, last, LastFragment
      <4> QED BY <4>1, <4>2, <4>3, <4>4, <4>5
    <3>2. CASE answer = "rejected"
      <4>1. gated /\ fits /\ fresh /\ ~duplicate
        BY <1>2, <3>2
      <4> QED BY <1>2, <2>4, <3>2, <4>1
              DEF Port!HandleRegular, Gated, Fits, Fresh, Duplicate, gated, fits, fresh, duplicate, last, LastFragment
    <3> QED BY <1>7, <3>1, <3>2 DEF Answers
  <2>6. Len(endpoint'.acks) <= AckBufferSize
    BY <2>4
  <2> QED BY <2>5, <2>6
<1>8. CASE answer = "accepted"
  <2>1. gated /\ fits /\ fresh /\ ~duplicate
    BY <1>2, <1>8
  <2>2. Received!TestInsert(e.received_packets, h.sequence)
    <3>1. Port!Received!CanInsert(MapReceived(e.received_packets), h.sequence)
      BY <1>6, <2>1 DEF fresh, Fresh
    <3> QED BY <3>1, SameAnswers
  <2>3. names = {"num_packets_received"}
    BY <1>2, <2>1
  <2> DEFINE k == EnteredOf(e, h.sequence)
             f == Accept(e, h)
  <2>4. endpoint' = LeftOf(f, s, rebuilt)
    BY <1>8 DEF Finish, LeftOf
  <2> HIDE DEF e, names, last, gated, fits, fresh, duplicate
  <2>5. /\ f = AckLoop(k, h) /\ k \in Endpoints /\ f.sequence = e.sequence
        /\ k.sent_packets = e.sent_packets /\ k.acks = e.acks /\ k.counters = e.counters
        /\ MapReceived(f.received_packets) =
             Port!Received!Insert(MapReceived(e.received_packets), h.sequence, None)
        /\ Mapped(f) = Port!Reassembly!Advance(Mapped(e), h.sequence)
    BY <1>1, <2>2, AcceptedMaps
  <2>6. Sound(f)
    BY <1>1, <2>2, SoundAccepted
  <2> HIDE DEF f, k
  <2>7. /\ endpoint'.sequence = f.sequence /\ endpoint'.sent_packets = f.sent_packets
        /\ endpoint'.acks = f.acks /\ endpoint'.received_packets = f.received_packets
        /\ endpoint'.counters = Increment(f.counters, last)
        /\ Mapped(endpoint') = IF rebuilt THEN Port!Reassembly!Remove(Mapped(f), s) ELSE Mapped(f)
    BY <1>5, <2>4, <2>6, LeftMaps DEF last
  <2>8. /\ Port!ProcessAcks(h, names \cup last) /\ Len(endpoint'.acks) <= AckBufferSize
    BY <1>1, <1>4, <2>5, <2>7, AcksMap
  <2>9. /\ PortReceived' = Port!Received!Insert(received, h.sequence, None)
        /\ PortReassembly' = After(Port!Reassembly!Advance(reassembly, h.sequence))
        /\ endpoint'.sequence = endpoint.sequence
    BY <1>1, <1>3, <1>5, <1>6, <2>5, <2>7 DEF SameButAcks
  <2> QED BY <1>8, <2>1, <2>3, <2>8, <2>9
          DEF Port!HandleRegular, Gated, Fits, Fresh, Duplicate, gated, fits, fresh, duplicate, last, LastFragment
<1> QED BY <1>7, <1>8

-----------------------------------------------------------------------------
(* receive_packet                                                          *)

\* The acks never outgrow the array.
RoomLeft == Len(endpoint.acks) <= AckBufferSize

\* A step that only counts, to the port.
LEMMA CountingMaps ==
  ASSUME Sound(endpoint), NEW names, endpoint' = Count(endpoint, names)
  PROVE  /\ endpoint'.counters = Port!Increment(endpoint.counters, names)
         /\ endpoint'.sequence = endpoint.sequence /\ endpoint'.acks = endpoint.acks
         /\ PortSent' = PortSent /\ PortReceived' = PortReceived
         /\ PortReassembly' = PortReassembly
<1>1. endpoint \in Endpoints
  BY DEF Sound
<1>2. /\ SameButAcks(endpoint, endpoint') /\ endpoint'.sent_packets = endpoint.sent_packets
      /\ endpoint'.acks = endpoint.acks
      /\ endpoint'.counters = Increment(endpoint.counters, names)
  BY <1>1, CountedIs
<1>3. Sound(endpoint')
  BY SoundCounted
<1> QED BY <1>2, <1>3, Mapping, MappingNext, SameCounting DEF SameButAcks

\* A regular datagram.
LEMMA RegularMaps ==
  ASSUME Sound(endpoint), Sound(endpoint'), RoomLeft, NEW d \in Datagrams,
         NEW answer \in Answers, ReceiveRegular(d, answer)
  PROVE  Port!ReceivePacket(d, answer) /\ RoomLeft'
<1>1. /\ d.type = "regular" /\ d.header \in Headers \cup {None} /\ d.content \in Seq(Byte)
      /\ (answer = "unused") <=> ~Processes(endpoint, d.header, d.content)
      /\ endpoint' = Finish(Arrive(endpoint, d.header, d.content), d.header, None, FALSE, answer)
  <2>1. d.type = "regular"
    BY DEF ReceiveRegular
  <2>2. d \in Datagram
    BY DataAssumption
  <2>3. d.header \in Headers \cup {None} /\ d.content \in Seq(Byte)
    BY <2>2 DEF Datagram
  <2> QED BY <2>1, <2>3 DEF ReceiveRegular
<1>2. CASE d.header = None
  <2>1. /\ Len(d.content) \in Nat /\ Len(d.content) <= MaxPacketHeaderBytes
        /\ MaxPacketSize \in Nat /\ MaxPacketHeaderBytes \in Nat /\ FragmentHeaderBytes \in Nat
    BY <1>1, <1>2, DataAssumption, ConfigAssumption
  <2>2. Len(d.content) <= MaxPacketSize + MaxPacketHeaderBytes + FragmentHeaderBytes
    BY <2>1
  <2>3. PassesGate(BytesOf(None, d.content))
    <3>1. Len(d.content) + 0 = Len(d.content)
      BY <2>1
    <3> QED BY <2>2, <3>1 DEF PassesGate, BytesOf
  <2>4. Refusal(endpoint, None, d.content) = {"num_packets_received"} \cup {"num_packets_invalid"}
    BY <2>3 DEF Refusal
  <2>5. answer = "unused"
    <3>1. "num_packets_invalid" \in Refusal(endpoint, None, d.content)
      BY <2>4
    <3>2. ~Processes(endpoint, None, d.content)
      BY <3>1 DEF Processes
    <3> QED BY <1>1, <1>2, <3>2
  <2>6. endpoint' = Count(endpoint, {"num_packets_received", "num_packets_invalid"})
    <3>1. {"num_packets_received"} \cup {"num_packets_invalid"} =
            {"num_packets_received", "num_packets_invalid"}
      OBVIOUS
    <3>2. endpoint' = Arrive(endpoint, None, d.content)
      BY <1>1, <1>2, <2>5 DEF Finish
    <3> QED BY <2>4, <3>1, <3>2 DEF Arrive
  <2>7. Port!ReceiveUnreadable(d, answer) /\ endpoint'.acks = endpoint.acks
    BY <1>1, <1>2, <2>5, <2>6, CountingMaps DEF Port!ReceiveUnreadable
  <2> QED BY <2>7 DEF Port!ReceivePacket, RoomLeft
<1>3. CASE d.header # None
  <2> DEFINE h == d.header
             content == d.content
  <2>1. h \in Headers /\ content \in Seq(Byte)
    BY <1>1, <1>3
  <2>2. /\ PortReceived = MapReceived(endpoint.received_packets)
        /\ PortReassembly = Mapped(endpoint)
    BY Mapping DEF Mapped
  <2>3. /\ (answer = "unused") <=> ~Processes(endpoint, h, content)
        /\ endpoint' = Finish(Arrive(endpoint, h, content), h, None, FALSE, answer)
    BY <1>1
  <2> HIDE DEF h, content
  <2>4. /\ Port!HandleRegular(h, content, answer, PortReceived, PortReassembly, FALSE)
        /\ Len(endpoint'.acks) <= AckBufferSize
    BY <2>1, <2>2, <2>3, Handles DEF RoomLeft
  <2>5. Port!ReceiveRegular(d, answer)
    BY <1>1, <1>3, <2>4 DEF Port!ReceiveRegular, h, content
  <2> QED BY <2>4, <2>5 DEF Port!ReceivePacket, RoomLeft
<1> QED BY <1>2, <1>3

\* What is asked of a fragment before it is stored.
LEMMA SameQuestions ==
  ASSUME Sound(endpoint), NEW d \in Datagrams, d.type = "fragment"
  PROVE  /\ Port!PassesGate(Port!FragmentBytes(d)) <=> PassesGate(FragmentBytes(d))
         /\ Port!ValidFragment(d) <=> ReadFragmentHeader(d)
         /\ Port!Received!Exists(PortReceived, d.sequence)
              <=> Received!Exists(endpoint.received_packets, d.sequence)
         /\ Port!Reassembly!Exists(PortReassembly, d.sequence) <=> HasEntry(endpoint, d)
         /\ Port!Storable(d) <=>
              /\ ~Received!Exists(endpoint.received_packets, d.sequence)
              /\ HasEntry(endpoint, d) \/ MayOpen(endpoint, d)
         /\ HasEntry(endpoint, d) =>
              Port!Entry(d) = MapEntry(Reassembly!Find(endpoint.fragment_reassembly, d.sequence),
                                       endpoint.heap)
<1>1. Port!PassesGate(Port!FragmentBytes(d)) <=> PassesGate(FragmentBytes(d))
  <2> DEFINE n == IF d.header = None THEN 0 ELSE HeaderBytes(d.header)
             l == Len(d.content)
  <2>1. n \in Int /\ l \in Int /\ FragmentHeaderBytes \in Int
    BY FragmentType, DataAssumption, ConfigAssumption
  <2>2. FragmentBytes(d) = FragmentHeaderBytes + (l + n)
    BY DEF FragmentBytes, BytesOf
  <2>3. Port!FragmentBytes(d) = FragmentHeaderBytes + l + n
    BY DEF Port!FragmentBytes
  <2> HIDE DEF n, l
  <2>4. Port!FragmentBytes(d) = FragmentBytes(d)
    BY <2>1, <2>2, <2>3
  <2> QED BY <2>4 DEF Port!PassesGate, PassesGate
<1>2. Port!ValidFragment(d) <=> ReadFragmentHeader(d)
  BY DEF Port!ValidFragment, ReadFragmentHeader
<1>3. /\ PortReceived = MapReceived(endpoint.received_packets)
      /\ PortReassembly = MapReassembly(endpoint.fragment_reassembly, endpoint.heap)
  BY Mapping
<1>4. /\ Port!Received!Exists(PortReceived, d.sequence)
           <=> Received!Exists(endpoint.received_packets, d.sequence)
      /\ Port!Reassembly!Exists(PortReassembly, d.sequence) <=> HasEntry(endpoint, d)
      /\ Port!Reassembly!CanInsertAdvanceFirst(PortReassembly, d.sequence) <=> MayOpen(endpoint, d)
  BY <1>3, SameAnswers DEF HasEntry, MayOpen
<1>5. Port!Storable(d) <=> /\ ~Received!Exists(endpoint.received_packets, d.sequence)
                           /\ HasEntry(endpoint, d) \/ MayOpen(endpoint, d)
  BY <1>4 DEF Port!Storable
<1>6. ASSUME HasEntry(endpoint, d)
      PROVE  Port!Entry(d) = MapEntry(Reassembly!Find(endpoint.fragment_reassembly, d.sequence),
                                      endpoint.heap)
  <2> DEFINE r == endpoint.fragment_reassembly
             i0 == Reassembly!Slot(d.sequence)
  <2>1. i0 \in Reassembly!Index /\ d.sequence # None /\ r \in Buffers
    BY FragmentType, SoundParts
  <2>2. r.entry_sequence[i0] # None
    BY <1>6, <2>1 DEF HasEntry, Reassembly!Exists
  <2>3. Port!Entry(d) = PortReassembly.entries[i0]
    BY <1>4, <1>6, SameSlots DEF Port!Entry, Port!Reassembly!Find
  <2>4. PortReassembly.entries[i0] = MapEntry(r.entry_data[i0], endpoint.heap)
    BY <1>3, <2>1, <2>2, MapIsBuffer
  <2> QED BY <2>3, <2>4 DEF Reassembly!Find
<1> QED BY <1>1, <1>2, <1>4, <1>5, <1>6

\* A fragment that is not stored.
LEMMA RefusedFragmentMaps ==
  ASSUME Sound(endpoint), RoomLeft, NEW d \in Datagrams,
         ReceiveFragmentTooLarge(d) \/ ReceiveInvalidFragment(d) \/ IgnoreFragment(d)
  PROVE  Port!ReceivePacket(d, "unused") /\ RoomLeft'
<1>0. d.type = "fragment"
  BY DEF ReceiveFragmentTooLarge, ReceiveInvalidFragment, IgnoreFragment
<1> DEFINE entry == Reassembly!Find(endpoint.fragment_reassembly, d.sequence)
<1>1. CASE ReceiveFragmentTooLarge(d)
  <2>1. endpoint' = Count(endpoint, {"num_packets_too_large_to_receive"})
    BY <1>1 DEF ReceiveFragmentTooLarge
  <2>2. Port!ReceiveFragmentTooLarge(d, "unused") /\ endpoint'.acks = endpoint.acks
    BY <1>0, <1>1, <2>1, CountingMaps, SameQuestions
       DEF ReceiveFragmentTooLarge, Port!ReceiveFragmentTooLarge
  <2> QED BY <2>2 DEF Port!ReceivePacket, RoomLeft
<1>2. CASE ReceiveInvalidFragment(d)
  <2>1. endpoint' = Count(endpoint, {"num_fragments_invalid"})
    BY <1>2 DEF ReceiveInvalidFragment
  <2>2. PassesGate(FragmentBytes(d))
    BY <1>2 DEF ReceiveInvalidFragment
  <2>3. \/ ~Port!ValidFragment(d)
        \/ /\ Port!ValidFragment(d) /\ ~Port!Received!Exists(PortReceived, d.sequence)
           /\ ~Port!Storable(d)
        \/ /\ Port!ValidFragment(d) /\ Port!Storable(d)
           /\ Port!Entry(d).num_fragments_total # d.num_fragments
    <3>1. CASE ~ReadFragmentHeader(d)
      BY <1>0, <3>1, SameQuestions
    <3>2. CASE Wanted(endpoint, d) /\ ~HasEntry(endpoint, d) /\ ~MayOpen(endpoint, d)
      BY <1>0, <3>2, SameQuestions DEF Wanted
    <3>3. CASE Wanted(endpoint, d) /\ HasEntry(endpoint, d) /\ Mismatched(endpoint, d)
      <4>1. Port!Entry(d).num_fragments_total = entry.num_fragments_total
        BY <1>0, <3>3, SameQuestions DEF MapEntry
      <4> QED BY <1>0, <3>3, <4>1, SameQuestions DEF Wanted, Mismatched
    <3> QED BY <1>2, <3>1, <3>2, <3>3 DEF ReceiveInvalidFragment
  <2>4. Port!ReceiveInvalidFragment(d, "unused") /\ endpoint'.acks = endpoint.acks
    <3>1. Port!PassesGate(Port!FragmentBytes(d))
      BY <1>0, <2>2, SameQuestions
    <3> QED BY <1>0, <2>1, <2>3, <3>1, CountingMaps DEF Port!ReceiveInvalidFragment
  <2> QED BY <2>4 DEF Port!ReceivePacket, RoomLeft
<1>3. CASE IgnoreFragment(d)
  <2>1. endpoint' = endpoint
    BY <1>3 DEF IgnoreFragment
  <2>2. Port!Readable(d)
    BY <1>0, <1>3, SameQuestions DEF IgnoreFragment, Port!Readable
  <2>3. \/ Port!Received!Exists(PortReceived, d.sequence)
        \/ /\ Port!Storable(d) /\ Port!Entry(d).num_fragments_total = d.num_fragments
           /\ d.fragment_id \in Port!Entry(d).fragment_received
    <3>1. CASE Received!Exists(endpoint.received_packets, d.sequence)
      BY <1>0, <3>1, SameQuestions
    <3>2. CASE /\ Wanted(endpoint, d) /\ HasEntry(endpoint, d)
               /\ ~Mismatched(endpoint, d) /\ AlreadyStored(endpoint, d)
      <4>1. /\ Port!Entry(d).num_fragments_total = entry.num_fragments_total
            /\ Port!Entry(d).fragment_received = entry.fragment_received
        BY <1>0, <3>2, SameQuestions DEF MapEntry
      <4> QED BY <1>0, <3>2, <4>1, SameQuestions DEF Wanted, Mismatched, AlreadyStored
    <3> QED BY <1>3, <3>1, <3>2 DEF IgnoreFragment
  <2>4. PortSent' = PortSent /\ PortReceived' = PortReceived /\ PortReassembly' = PortReassembly
    BY <2>1 DEF PortSent, PortReceived, PortReassembly, PortBuffer, PortEntry, Untouched
  <2>5. Port!IgnoreFragment(d, "unused")
    BY <2>1, <2>2, <2>3, <2>4 DEF Port!IgnoreFragment
  <2> QED BY <2>1, <2>5 DEF Port!ReceivePacket, RoomLeft
<1> QED BY <1>1, <1>2, <1>3

\* A first fragment without memory for its packet.
LEMMA DroppedFragmentMaps ==
  ASSUME Sound(endpoint), Sound(endpoint'), RoomLeft, NEW d \in Datagrams, FailToAllocate(d)
  PROVE  DropsFragment(d) /\ RoomLeft'
<1>1. /\ d.type = "fragment" /\ Wanted(endpoint, d) /\ ~HasEntry(endpoint, d)
      /\ MayOpen(endpoint, d) /\ endpoint' = Unallocated(endpoint, d)
  BY DEF FailToAllocate
<1>2. /\ Port!Readable(d) /\ Port!Storable(d)
      /\ ~Port!Reassembly!Exists(PortReassembly, d.sequence)
  BY <1>1, SameQuestions DEF Wanted, Port!Readable
<1> DEFINE q == Port!Reassembly!Advance(Mapped(endpoint), d.sequence)
<1>3. /\ MapReassembly(endpoint'.fragment_reassembly, endpoint'.heap) =
           Port!Reassembly!Remove(q, d.sequence)
      /\ endpoint'.sequence = endpoint.sequence
      /\ endpoint'.sent_packets = endpoint.sent_packets /\ endpoint'.acks = endpoint.acks
      /\ endpoint'.counters = Increment(endpoint.counters, {"num_fragments_invalid"})
      /\ MapReceived(endpoint'.received_packets) =
           Port!Received!Advance(MapReceived(endpoint.received_packets), d.sequence)
  BY <1>1, UnallocatedMaps DEF Mapped
<1> QED BY <1>1, <1>2, <1>3, Mapping, MappingNext DEF DropsFragment, RoomLeft, Mapped

\* A fragment that is stored, in endpoint f prepared for it.
LEMMA StoredEntry ==
  ASSUME Sound(endpoint), NEW d \in Datagrams, d.type = "fragment", Wanted(endpoint, d),
         NEW f \in Prepared(endpoint, d), NEW g, g = Store(f, d),
         NEW data, data = Reassembly!Find(g.fragment_reassembly, d.sequence),
         NEW x, x = Port!StoreFragment(Port!Entry(d), d)
  PROVE  /\ Sound(g) /\ HasEntry(g, d) /\ g.sequence = endpoint.sequence
         /\ g.sent_packets = endpoint.sent_packets /\ g.acks = endpoint.acks
         /\ g.counters = endpoint.counters
         /\ MapReceived(g.received_packets) = Port!ReceivedOnOpen(d)
         /\ Mapped(g) = Port!ReassemblyWith(d, x)
         /\ MapEntry(data, g.heap) = x
         /\ data.num_fragments_total = d.num_fragments
         /\ Port!Entry(d).num_fragments_total = d.num_fragments
         /\ d.fragment_id \notin Port!Entry(d).fragment_received
<1> DEFINE m == MapReassembly(f.fragment_reassembly, f.heap)
           s == d.sequence
           old == Reassembly!Find(f.fragment_reassembly, s)
<1>1. Sound(f) /\ HasEntry(f, d) /\ ~Mismatched(f, d) /\ ~AlreadyStored(f, d)
  BY SoundPrepared
<1>2. ReadFragmentHeader(d)
  BY DEF Wanted
<1>3. Sound(g) /\ HasEntry(g, d)
  BY <1>1, <1>2, SoundStored
<1>4. /\ Port!Reassembly!Find(m, s) = Port!Entry(d)
      /\ \A y : Updated(m, Reassembly!Slot(s), y) = Port!ReassemblyWith(d, y)
      /\ MapReceived(f.received_packets) = Port!ReceivedOnOpen(d)
      /\ f.sequence = endpoint.sequence /\ f.sent_packets = endpoint.sent_packets
      /\ f.acks = endpoint.acks /\ f.counters = endpoint.counters
  BY PreparedMaps
<1>5. /\ MapReassembly(g.fragment_reassembly, g.heap) =
           Updated(m, Reassembly!Slot(s), Port!StoreFragment(Port!Reassembly!Find(m, s), d))
      /\ g.sequence = f.sequence /\ g.sent_packets = f.sent_packets /\ g.acks = f.acks
      /\ g.counters = f.counters /\ g.received_packets = f.received_packets
      /\ MapEntry(Reassembly!Find(g.fragment_reassembly, s), g.heap) =
           Port!StoreFragment(Port!Reassembly!Find(m, s), d)
  BY <1>1, <1>2, StoredMaps
<1>6. Port!Entry(d) = MapEntry(old, f.heap)
  <2> DEFINE r == f.fragment_reassembly
             i0 == Reassembly!Slot(s)
  <2>1. i0 \in Reassembly!Index /\ s # None /\ r \in Buffers
    BY <1>1, FragmentType, SoundParts
  <2>2. r.entry_sequence[i0] # None
    BY <1>1, <2>1 DEF HasEntry, Reassembly!Exists
  <2>3. Port!Entry(d) = m.entries[i0]
    BY <1>4, SameSlots DEF Port!Reassembly!Find
  <2>4. m.entries[i0] = MapEntry(r.entry_data[i0], f.heap)
    BY <2>1, <2>2, MapIsBuffer
  <2> QED BY <2>3, <2>4 DEF Reassembly!Find
<1>7. /\ Port!Entry(d).num_fragments_total = d.num_fragments
      /\ d.fragment_id \notin Port!Entry(d).fragment_received
  BY <1>1, <1>6 DEF MapEntry, Mismatched, AlreadyStored
<1>8. x.num_fragments_total = d.num_fragments
  <2>1. x.num_fragments_total = Port!Entry(d).num_fragments_total
    BY <1>6 DEF MapEntry, Port!StoreFragment
  <2> QED BY <1>7, <2>1
<1>9. MapEntry(data, g.heap) = x
  BY <1>4, <1>5
<1>10. data.num_fragments_total = d.num_fragments
  BY <1>8, <1>9 DEF MapEntry
<1> QED BY <1>3, <1>4, <1>5, <1>7, <1>9, <1>10 DEF Mapped

\* A fragment stored, to the port: the packet waits for more or is handled.
LEMMA FragmentMaps ==
  ASSUME Sound(endpoint), Sound(endpoint'), RoomLeft, NEW d \in Datagrams,
         NEW answer \in Answers, ReceiveFragment(d, answer)
  PROVE  Port!ReceivePacket(d, answer) /\ RoomLeft'
<1>1. d.type = "fragment" /\ Wanted(endpoint, d)
  BY DEF ReceiveFragment
<1>2. PICK f \in Prepared(endpoint, d) :
        LET stored == Store(f, d)
            data == Reassembly!Find(stored.fragment_reassembly, d.sequence)
            packet == Rebuilt(stored, data)
        IN  IF Complete(data)
            THEN /\ (answer = "unused") <=> ~Processes(stored, packet.header, packet.content)
                 /\ endpoint' = Finish(Arrive(stored, packet.header, packet.content),
                                       packet.header, d.sequence, TRUE, answer)
            ELSE /\ answer = "unused"
                 /\ endpoint' = Count(stored, {"num_fragments_received"})
  BY DEF ReceiveFragment
<1> DEFINE g == Store(f, d)
           data == Reassembly!Find(g.fragment_reassembly, d.sequence)
           packet == Rebuilt(g, data)
           x == Port!StoreFragment(Port!Entry(d), d)
<1>3. /\ Complete(data) =>
           /\ (answer = "unused") <=> ~Processes(g, packet.header, packet.content)
           /\ endpoint' = Finish(Arrive(g, packet.header, packet.content),
                                 packet.header, d.sequence, TRUE, answer)
      /\ ~Complete(data) =>
           answer = "unused" /\ endpoint' = Count(g, {"num_fragments_received"})
  BY <1>2
<1>4. /\ Sound(g) /\ HasEntry(g, d) /\ g.sequence = endpoint.sequence
      /\ g.sent_packets = endpoint.sent_packets /\ g.acks = endpoint.acks
      /\ g.counters = endpoint.counters
      /\ MapReceived(g.received_packets) = Port!ReceivedOnOpen(d)
      /\ Mapped(g) = Port!ReassemblyWith(d, x)
      /\ MapEntry(data, g.heap) = x
      /\ data.num_fragments_total = d.num_fragments
      /\ Port!Entry(d).num_fragments_total = d.num_fragments
      /\ d.fragment_id \notin Port!Entry(d).fragment_received
  BY <1>1, StoredEntry
<1>5. Port!Readable(d) /\ Port!Storable(d)
  <2>1. HasEntry(endpoint, d) \/ MayOpen(endpoint, d)
    BY DEF Prepared
  <2> QED BY <1>1, <2>1, SameQuestions DEF Wanted, Port!Readable
<1> HIDE DEF g, data, x
<1>6. /\ x.num_fragments_received = data.num_fragments_received
      /\ x.num_fragments_total = data.num_fragments_total
      /\ x.packet_data = g.heap[data.packet_data].data
      /\ x.packet_bytes = data.packet_bytes
      /\ x.header = g.heap[data.packet_data].header
  BY <1>4 DEF MapEntry
<1>7. CASE ~Complete(data)
  <2>1. g \in Endpoints
    BY <1>4 DEF Sound
  <2>2. /\ SameButAcks(g, endpoint') /\ endpoint'.sent_packets = g.sent_packets
        /\ endpoint'.acks = g.acks
        /\ endpoint'.counters = Increment(g.counters, {"num_fragments_received"})
    BY <1>3, <1>7, <2>1, CountedIs
  <2>3. /\ PortReceived' = Port!ReceivedOnOpen(d) /\ PortReassembly' = Port!ReassemblyWith(d, x)
        /\ PortSent' = PortSent
    BY <1>4, <2>2, Mapping, MappingNext DEF SameButAcks, Mapped
  <2>4. /\ endpoint'.sequence = endpoint.sequence /\ endpoint'.acks = endpoint.acks
        /\ endpoint'.counters = Port!Increment(endpoint.counters, {"num_fragments_received"})
    BY <1>4, <2>2, SameCounting DEF SameButAcks
  <2>5. answer = "unused" /\ x.num_fragments_received # x.num_fragments_total
    BY <1>3, <1>6, <1>7 DEF Complete
  <2>6. Port!ReceiveFragment(d, answer)
    BY <1>4, <1>5, <2>3, <2>4, <2>5 DEF Port!ReceiveFragment, x
  <2> QED BY <2>4, <2>6 DEF Port!ReceivePacket, RoomLeft
<1>8. CASE Complete(data)
  <2>1. d.num_fragments # 0 /\ d.sequence \in SequenceNumber
    BY <1>1, FragmentType
  <2>2. g.heap[data.packet_data].header # None
    BY <1>1, <1>4, <1>8, <2>1, CompleteHasHeader DEF data
  <2>3. /\ packet.header \in Headers \cup {None}
        /\ packet.header # None => packet.header.sequence = d.sequence
        /\ packet.header = g.heap[data.packet_data].header
        /\ packet.header # None =>
             packet.content = SubSeq(g.heap[data.packet_data].data, 1, data.packet_bytes)
    BY <1>1, <1>4, RebuiltBelongs DEF data
  <2>4. /\ packet.header \in Headers /\ packet.header.sequence = d.sequence
        /\ packet.header = x.header
        /\ packet.content = SubSeq(x.packet_data, 1, x.packet_bytes)
    BY <1>6, <2>2, <2>3
  <2>5. packet.content \in Seq(Byte)
    BY <1>1, <1>4, <2>2, <2>3, RebuiltContent DEF data
  <2>6. /\ (answer = "unused") <=> ~Processes(g, packet.header, packet.content)
        /\ endpoint' = Finish(Arrive(g, packet.header, packet.content),
                              packet.header, d.sequence, TRUE, answer)
    BY <1>3, <1>8
  <2> DEFINE h == packet.header
             content == packet.content
  <2> HIDE DEF packet
  <2>7. h \in Headers /\ content \in Seq(Byte) /\ d.sequence = h.sequence
    BY <2>4, <2>5
  <2>8. /\ (answer = "unused") <=> ~Processes(g, h, content)
        /\ endpoint' = Finish(Arrive(g, h, content), h, d.sequence, TRUE, answer)
    BY <2>6
  <2> HIDE DEF h, content
  <2>9. /\ Port!HandleRegular(h, content, answer, Port!ReceivedOnOpen(d),
                              Port!ReassemblyWith(d, x), TRUE)
        /\ Len(endpoint'.acks) <= AckBufferSize
    BY <1>4, <2>7, <2>8, Handles DEF RoomLeft
  <2>10. /\ x.num_fragments_received = x.num_fragments_total
         /\ h = x.header /\ content = SubSeq(x.packet_data, 1, x.packet_bytes)
    BY <1>6, <1>8, <2>4 DEF Complete, h, content
  <2>11. Port!ReceiveFragment(d, answer)
    BY <1>4, <1>5, <2>9, <2>10 DEF Port!ReceiveFragment, x
  <2> QED BY <2>9, <2>11 DEF Port!ReceivePacket, RoomLeft
<1> QED BY <1>7, <1>8

\* A datagram received, whatever it is.
LEMMA ReceiveMaps ==
  ASSUME Sound(endpoint), Sound(endpoint'), RoomLeft, NEW d \in Datagrams,
         NEW answer \in Answers, ReceivePacket(d, answer)
  PROVE  (Port!ReceivePacket(d, answer) \/ DropsFragment(d)) /\ RoomLeft'
<1>1. CASE ReceiveRegular(d, answer)
  BY <1>1, RegularMaps
<1>2. CASE ReceiveFragment(d, answer)
  BY <1>2, FragmentMaps
<1>3. CASE /\ answer = "unused"
           /\ ReceiveFragmentTooLarge(d) \/ ReceiveInvalidFragment(d) \/ IgnoreFragment(d)
  BY <1>3, RefusedFragmentMaps
<1>4. CASE FailToAllocate(d)
  BY <1>4, DroppedFragmentMaps
<1> QED BY <1>1, <1>2, <1>3, <1>4 DEF ReceivePacket

-----------------------------------------------------------------------------
(* send_packet                                                             *)

\* A quotient is the only number whose interval holds x.
LEMMA QuotientIs ==
  ASSUME NEW x \in Nat, NEW k \in Nat \ {0}, NEW q \in Nat, q * k <= x, x < q * k + k
  PROVE  x \div k = q
<1> DEFINE p == x \div k
<1>1. p \in Nat /\ p * k <= x /\ x < p * k + k
  OBVIOUS
<1> HIDE DEF p
<1>2. ASSUME NEW a \in Nat, NEW b \in Nat, a * k <= x, x < b * k + k PROVE ~(b < a)
  <2> SUFFICES ASSUME b < a PROVE FALSE
    OBVIOUS
  <2>1. PICK j \in Nat : a = b + 1 + j
    <3>1. a - b - 1 \in Nat /\ a = b + 1 + (a - b - 1)
      OBVIOUS
    <3> QED BY <3>1
  <2>2. a * k = b * k + k + j * k /\ j * k \in Nat
    BY <2>1
  <2> DEFINE u == a * k
             v == b * k
             w == j * k
  <2>3. u \in Nat /\ v \in Nat /\ w \in Nat /\ u = v + k + w /\ u <= x /\ x < v + k
    BY <1>2, <2>2
  <2> HIDE DEF u, v, w
  <2> QED BY <2>3
<1>3. ~(p < q) /\ ~(q < p)
  BY <1>1, <1>2
<1>4. p = q
  BY <1>1, <1>3
<1> QED BY <1>4 DEF p

\* Both cut a packet in the same number of fragments: C rounds the quotient up
\* by its remainder, the port by adding before it divides.
LEMMA SameFragments ==
  ASSUME NEW content \in Seq(Byte)
  PROVE  /\ NumFragments(content) = Port!NumFragments(content)
         /\ NumFragments(content) \in Nat
         /\ \A id \in 0 .. NumFragments(content) - 1 : id * FragmentSize <= Len(content)
<1> DEFINE l == Len(content)
           k == FragmentSize
           q == l \div k
           r == l % k
<1>1. l \in Nat /\ k \in Nat \ {0}
  BY ConfigAssumption
<1>2. NumFragments(content) = q + (IF r # 0 THEN 1 ELSE 0)
  BY DEF NumFragments
<1>3. Port!NumFragments(content) = (l + k - 1) \div k
  BY DEF Port!NumFragments
<1> HIDE DEF l, k
<1>4. q \in Nat /\ r \in 0 .. k - 1 /\ q * k + r = l /\ q * k \in Nat
  BY <1>1
<1> HIDE DEF q, r
<1> DEFINE a == q * k
<1>5. a \in Nat /\ a + r = l
  BY <1>4
<1>6. l + k - 1 \in Nat
  BY <1>1
<1>7. CASE r = 0
  <2>1. a <= l + k - 1 /\ l + k - 1 < a + k
    <3> HIDE DEF a
    <3> QED BY <1>1, <1>5, <1>7
  <2>2. (l + k - 1) \div k = q
    BY <1>1, <1>4, <1>6, <2>1, QuotientIs
  <2>3. ASSUME NEW id \in 0 .. q - 1 PROVE id * k <= l
    <3>1. id * k <= q * k
      BY <1>1, <1>4
    <3> DEFINE i == id * k
    <3>2. i \in Nat /\ i <= a
      BY <1>1, <1>4, <3>1
    <3> HIDE DEF i, a
    <3>3. i <= l
      BY <1>1, <1>4, <1>5, <3>2
    <3> QED BY <3>3 DEF i
  <2>4. NumFragments(content) = q
    BY <1>2, <1>4, <1>7
  <2> QED BY <1>3, <1>4, <2>2, <2>3, <2>4 DEF k, l
<1>8. CASE r # 0
  <2>1. (q + 1) * k = a + k
    BY <1>1, <1>4
  <2>2. a + k <= l + k - 1 /\ l + k - 1 < a + k + k
    <3> HIDE DEF a
    <3> QED BY <1>1, <1>4, <1>5, <1>8
  <2>3. (l + k - 1) \div k = q + 1
    <3>1. q + 1 \in Nat
      BY <1>4
    <3> QED BY <1>1, <1>6, <2>1, <2>2, <3>1, QuotientIs
  <2>4. ASSUME NEW id \in 0 .. q PROVE id * k <= l
    <3>1. id * k <= q * k
      BY <1>1, <1>4
    <3> DEFINE i == id * k
    <3>2. i \in Nat /\ i <= a
      BY <1>1, <1>4, <3>1
    <3> HIDE DEF i, a
    <3>3. i <= l
      BY <1>1, <1>4, <1>5, <3>2
    <3> QED BY <3>3 DEF i
  <2>5. NumFragments(content) = q + 1 /\ q + 1 - 1 = q
    BY <1>2, <1>4, <1>8
  <2> QED BY <1>3, <1>4, <2>3, <2>4, <2>5 DEF k, l
<1> QED BY <1>7, <1>8

\* A packet sent, to the port.
LEMMA SendMaps ==
  ASSUME Sound(endpoint), Sound(endpoint'), RoomLeft, NEW content \in Packets,
         SendPacket(content) \/ SendTooLarge(content)
  PROVE  (Port!SendPacket(content) \/ Port!SendTooLarge(content)) /\ RoomLeft'
<1> DEFINE e == endpoint
           tracked == Track(e)
           n == IF Len(content) > FragmentAbove THEN NumFragments(content) ELSE 0
<1>1. CASE SendTooLarge(content)
  <2>1. Len(content) > MaxPacketSize /\ endpoint' = Count(e, {"num_packets_too_large_to_send"})
    BY <1>1 DEF SendTooLarge
  <2>2. Port!SendTooLarge(content) /\ endpoint'.acks = e.acks
    BY <2>1, CountingMaps DEF Port!SendTooLarge
  <2> QED BY <2>2 DEF RoomLeft
<1>2. CASE SendPacket(content)
  <2>1. /\ content # <<>> /\ Len(content) <= MaxPacketSize
        /\ Sent!TestInsert(e.sent_packets, e.sequence)
        /\ Len(content) > FragmentAbove => NumFragments(content) <= MaxFragments
        /\ endpoint' = [tracked EXCEPT !.sequence = Uint16(@ + 1),
             !.counters = Plus(Increment(tracked.counters, {"num_packets_sent"}),
                               "num_fragments_sent", n)]
    BY <1>2 DEF SendPacket
  <2>2. content \in Seq(Byte)
    BY DataAssumption
  <2>3. e.sequence \in SequenceNumber /\ e.sent_packets \in SentBuffers
    BY SoundParts
  <2> DEFINE b == Sent!Write(Sent!Insert(e.sent_packets, e.sequence), e.sequence, FALSE)
  <2>4. e \in [sequence : {e.sequence}, acks : {e.acks}, counters : {e.counters},
               sent_packets : {e.sent_packets}, received_packets : {e.received_packets},
               fragment_reassembly : {e.fragment_reassembly}, heap : {e.heap}]
    BY DEF Sound, Endpoints
  <2>5. tracked = [e EXCEPT !.sent_packets = b]
    BY DEF Track
  <2> HIDE DEF b, tracked, n
  <2>6. tracked \in [sequence : {e.sequence}, acks : {e.acks}, counters : {e.counters},
               sent_packets : {b}, received_packets : {e.received_packets},
               fragment_reassembly : {e.fragment_reassembly}, heap : {e.heap}]
    BY <2>4, <2>5
  <2>7. /\ endpoint'.sequence = Uint16(e.sequence + 1)
        /\ endpoint'.counters = Plus(Increment(e.counters, {"num_packets_sent"}),
                                     "num_fragments_sent", n)
        /\ endpoint'.sent_packets = b /\ endpoint'.received_packets = e.received_packets
        /\ endpoint'.fragment_reassembly = e.fragment_reassembly /\ endpoint'.heap = e.heap
        /\ endpoint'.acks = e.acks
    BY <2>1, <2>6
  <2>8. PortSent' = Port!Sent!Insert(PortSent, e.sequence, FALSE)
    <3>1. MapSent(b) = Port!Sent!Insert(MapSent(e.sent_packets), e.sequence, FALSE)
      BY <2>3, SentCommutes DEF b
    <3> QED BY <2>7, <3>1, Mapping, MappingNext
  <2>9. PortReceived' = PortReceived /\ PortReassembly' = PortReassembly
    BY <2>7, Mapping, MappingNext
  <2>10. Port!Sent!CanInsert(PortSent, e.sequence)
    BY <2>1, Mapping, SameAnswers
  <2>11. Len(content) > FragmentAbove => Port!NumFragments(content) <= MaxFragments
    BY <2>1, <2>2, SameFragments
  <2>12. endpoint'.counters =
           Port!Plus(Port!Increment(e.counters, {"num_packets_sent"}), "num_fragments_sent",
                     IF Len(content) > FragmentAbove THEN Port!NumFragments(content) ELSE 0)
    BY <2>2, <2>7, SameFragments, SameCounting DEF n
  <2>13. endpoint'.sequence = Port!WrapAdd(e.sequence, 1)
    BY <2>7, SameNumbers
  <2>14. Port!SendPacket(content)
    BY <2>1, <2>7, <2>8, <2>9, <2>10, <2>11, <2>12, <2>13 DEF Port!SendPacket
  <2> QED BY <2>7, <2>14 DEF RoomLeft
<1> QED BY <1>1, <1>2

\* A fragment carries the same bytes.
LEMMA SamePiece ==
  ASSUME NEW content \in Seq(Byte), NEW id \in 0 .. NumFragments(content) - 1
  PROVE  FragmentData(content, id) = Port!Piece(content, id)
<1> DEFINE l == Len(content)
           f == FragmentSize
           q == id * f
           bytes == IF q + f > l THEN l - q ELSE f
           end == Port!Least((id + 1) * f, l)
           data == FragmentData(content, id)
           piece == Port!Piece(content, id)
<1>1. l \in Nat /\ f \in Nat \ {0} /\ id \in Nat /\ id * FragmentSize <= Len(content)
  BY SameFragments, ConfigAssumption
<1>2. q \in Nat /\ (id + 1) * f = q + f /\ q <= l
  BY <1>1
<1>3. piece = SubSeq(content, q + 1, end)
  BY DEF Port!Piece
<1>4. data = [k \in 1 .. bytes |-> content[q + k]]
  BY DEF FragmentData
<1> HIDE DEF q, l, f, data, piece
<1>5. /\ bytes \in Nat /\ q + bytes <= l /\ end = q + bytes /\ end \in Int
      /\ q + 1 \in Int /\ end - (q + 1) + 1 = bytes
  BY <1>1, <1>2 DEF Port!Least
<1> HIDE DEF bytes, end
<1>6. \A k \in 1 .. bytes : content[q + k] \in Byte
  <2>1. \A k \in 1 .. bytes : q + k \in 1 .. l
    BY <1>1, <1>2, <1>5
  <2> QED BY <2>1 DEF l
<1>7. /\ data \in Seq(Byte) /\ Len(data) = bytes
      /\ \A k \in 1 .. bytes : data[k] = content[q + k]
  BY <1>4, <1>5, <1>6
<1>8. /\ piece \in Seq(Byte) /\ Len(piece) = bytes
      /\ \A k \in 1 .. bytes : piece[k] = content[q + k]
  <2> DEFINE m == q + 1
  <2>1. \A i \in m .. end : content[i] \in Byte
    <3>1. \A i \in m .. end : i \in 1 .. l
      BY <1>1, <1>2, <1>5
    <3> QED BY <3>1 DEF l
  <2>2. m \in Int /\ end \in Int
    BY <1>5
  <2>3. end - m + 1 = bytes /\ (m <= end => end - m + 1 = bytes) /\ (~(m <= end) => bytes = 0)
    BY <1>2, <1>5
  <2>4. \A k \in 1 .. bytes : m + k - 1 = q + k
    BY <1>2, <1>5
  <2> HIDE DEF m
  <2>5. /\ SubSeq(content, m, end) \in Seq(Byte)
        /\ Len(SubSeq(content, m, end)) = IF m <= end THEN end - m + 1 ELSE 0
        /\ \A i \in 1 .. end - m + 1 : SubSeq(content, m, end)[i] = content[m + i - 1]
    BY <2>1, <2>2, SubSeqProperties
  <2> QED BY <1>3, <2>3, <2>4, <2>5 DEF m
<1>9. data = piece
  BY <1>5, <1>7, <1>8, SeqEqual
<1> QED BY <1>9 DEF data, piece

\* Both endpoints transmit the same datagrams.
LEMMA SoundTranscript ==
  ASSUME Sound(endpoint)
  PROVE  SameTranscript
<1> SUFFICES ASSUME NEW content \in Packets, content # <<>>, Len(content) <= MaxPacketSize
             PROVE  LET transmitted == Transmitted(endpoint, content)
                    IN  {transmitted[n] : n \in DOMAIN transmitted} = Port!Transmitted(content)
  BY DEF SameTranscript
<1> DEFINE t == Transmitted(endpoint, content)
           h == Header(endpoint)
           total == NumFragments(content)
           Fragment(id) == [type |-> "fragment", sequence |-> endpoint.sequence, fragment_id |-> id,
             num_fragments |-> total, header |-> IF id = 0 THEN h ELSE None,
             content |-> Port!Piece(content, id)]
<1>1. content \in Seq(Byte)
  BY DataAssumption
<1>2. Port!NextHeader = h
  <2>1. endpoint.received_packets \in ReceivedBuffers
    BY SoundParts
  <2>2. /\ Port!Received!AckOf(PortReceived) = Received!Ack(endpoint.received_packets)
        /\ Port!Received!GenerateAckBits(PortReceived, AckBits) =
             Received!AckBitsOf(endpoint.received_packets, AckBits)
    BY <2>1, Mapping, SameAcks
  <2> QED BY <2>2 DEF Port!NextHeader, Header
<1> HIDE DEF h
<1>3. CASE Len(content) <= FragmentAbove
  <2> DEFINE d == [type |-> "regular", header |-> h, content |-> content]
  <2>1. t = <<d>> /\ Port!Transmitted(content) = {d}
    BY <1>2, <1>3 DEF Transmitted, Port!Transmitted, h
  <2> HIDE DEF d, t
  <2>2. {t[n] : n \in DOMAIN t} = {d}
    BY <2>1
  <2> QED BY <2>1, <2>2 DEF t
<1>4. CASE ~(Len(content) <= FragmentAbove)
  <2>1. total \in Nat /\ total = Port!NumFragments(content)
    BY <1>1, SameFragments
  <2>2. t = [n \in 1 .. total |->
              [type |-> "fragment", sequence |-> endpoint.sequence, fragment_id |-> n - 1,
               num_fragments |-> total, header |-> IF n = 1 THEN h ELSE None,
               content |-> FragmentData(content, n - 1)]]
    BY <1>4 DEF Transmitted, h
  <2>3. Port!Transmitted(content) = {Fragment(id) : id \in 0 .. total - 1}
    BY <1>2, <1>4, <2>1 DEF Port!Transmitted
  <2>4. ASSUME NEW n \in 1 .. total PROVE t[n] = Fragment(n - 1)
    <3>1. n - 1 \in 0 .. NumFragments(content) - 1 /\ (n = 1 <=> n - 1 = 0)
      BY <2>1
    <3>2. FragmentData(content, n - 1) = Port!Piece(content, n - 1)
      BY <1>1, <3>1, SamePiece
    <3> HIDE DEF total
    <3> QED BY <2>2, <3>1, <3>2
  <2>5. DOMAIN t = 1 .. total
    BY <2>2
  <2> HIDE DEF t, total, Fragment
  <2>6. {t[n] : n \in DOMAIN t} = {Fragment(id) : id \in 0 .. total - 1}
    <3>1. ASSUME NEW n \in 1 .. total PROVE \E id \in 0 .. total - 1 : t[n] = Fragment(id)
      <4>1. n - 1 \in 0 .. total - 1
        BY <2>1
      <4> QED BY <2>4, <4>1
    <3>2. ASSUME NEW id \in 0 .. total - 1 PROVE \E n \in 1 .. total : Fragment(id) = t[n]
      <4>1. id + 1 \in 1 .. total /\ (id + 1) - 1 = id
        BY <2>1
      <4>2. t[id + 1] = Fragment((id + 1) - 1)
        BY <2>4, <4>1
      <4> QED BY <4>1, <4>2
    <3> QED BY <2>5, <3>1, <3>2
  <2> QED BY <2>3, <2>6 DEF t
<1> QED BY <1>3, <1>4

-----------------------------------------------------------------------------
(* The other calls, and the theorems                                       *)

\* Clearing the acks, to the port.
LEMMA ClearMaps ==
  ASSUME Sound(endpoint), Sound(endpoint'), ClearAcks
  PROVE  Port!ClearAcks /\ RoomLeft'
<1>1. /\ endpoint'.acks = <<>> /\ endpoint'.sequence = endpoint.sequence
      /\ endpoint'.counters = endpoint.counters
      /\ endpoint'.sent_packets = endpoint.sent_packets
      /\ endpoint'.received_packets = endpoint.received_packets
      /\ endpoint'.fragment_reassembly = endpoint.fragment_reassembly
      /\ endpoint'.heap = endpoint.heap
  BY DEF ClearAcks, Sound, Endpoints
<1>2. PortSent' = PortSent /\ PortReceived' = PortReceived /\ PortReassembly' = PortReassembly
  BY <1>1, Mapping, MappingNext
<1>3. Len(<<>>) <= AckBufferSize
  BY ConfigAssumption
<1> QED BY <1>1, <1>2, <1>3 DEF Port!ClearAcks, RoomLeft

\* Reset, to the port: the data it leaves in emptied slots is not seen.
LEMMA ResetMaps ==
  ASSUME Sound(endpoint), Sound(endpoint'), Reset
  PROVE  Port!Reset /\ RoomLeft'
<1> DEFINE e == endpoint
           sent == Sent!Reset(e.sent_packets)
           received == Received!Reset(e.received_packets)
           m == Reassembly!Cleaned(e.fragment_reassembly, Reassembly!Occupied(e.fragment_reassembly))
           t == Reassembly!Reset(m)
           heap == FreePacketData(e, Reassembly!Occupied(e.fragment_reassembly))
<1>1. /\ e.sent_packets \in SentBuffers /\ e.received_packets \in ReceivedBuffers
      /\ e.fragment_reassembly \in Buffers
  BY SoundParts
<1>2. sent.sequence = 0 /\ sent.entry_sequence = [i \in Sent!Index |-> None]
  BY <1>1 DEF Sent!Reset, SentBuffers, Sent!BufferOf
<1>3. received.sequence = 0 /\ received.entry_sequence = [i \in Received!Index |-> None]
  BY <1>1 DEF Received!Reset, ReceivedBuffers, Received!BufferOf
<1>4. t.sequence = 0 /\ t.entry_sequence = [i \in Reassembly!Index |-> None]
  <2>1. m \in Buffers
    BY <1>1, OccupiedIsIndex, ReassemblyCleaned
  <2> HIDE DEF m
  <2> QED BY <2>1 DEF Reassembly!Reset, Buffers, Reassembly!BufferOf
<1>5. endpoint' = [Created EXCEPT !.sent_packets = sent, !.received_packets = received,
                                  !.fragment_reassembly = t, !.heap = heap]
  BY DEF Reset, ResetOf
<1> HIDE DEF sent, received, t, heap, m
<1>6. /\ endpoint'.sequence = 0 /\ endpoint'.acks = <<>> /\ endpoint'.counters = ZeroCounters
      /\ endpoint'.sent_packets = sent /\ endpoint'.received_packets = received
      /\ endpoint'.fragment_reassembly = t /\ endpoint'.heap = heap
  BY <1>5 DEF Created
<1>7. /\ PortSent' = Port!Sent!New /\ PortReceived' = Port!Received!New
      /\ PortReassembly' = Port!Reassembly!New
  BY <1>2, <1>3, <1>4, <1>6, MappingNext, SameEmpty
<1>8. Len(<<>>) <= AckBufferSize
  BY ConfigAssumption
<1> QED BY <1>6, <1>7, <1>8, SameCounting DEF Port!Reset, RoomLeft

\* A new endpoint, to the port.
LEMMA InitMaps ==
  ASSUME Init
  PROVE  Port!Init /\ RoomLeft
<1>1. Sound(endpoint)
  BY SoundCreated DEF Init
<1>2. /\ endpoint.sequence = 0 /\ endpoint.acks = <<>> /\ endpoint.counters = ZeroCounters
      /\ endpoint.sent_packets = Sent!Create /\ endpoint.received_packets = Received!Create
      /\ endpoint.fragment_reassembly = Reassembly!Create
  BY DEF Init, Created
<1>3. PortSent = Port!Sent!New
  <2>1. /\ Sent!Create.sequence = 0
        /\ Sent!Create.entry_sequence = [i \in Sent!Index |-> None]
    BY DEF Sent!Create
  <2> QED BY <1>1, <1>2, <2>1, Mapping, SameEmpty
<1>4. PortReceived = Port!Received!New
  <2>1. /\ Received!Create.sequence = 0
        /\ Received!Create.entry_sequence = [i \in Received!Index |-> None]
    BY DEF Received!Create
  <2> QED BY <1>1, <1>2, <2>1, Mapping, SameEmpty
<1>5. PortReassembly = Port!Reassembly!New
  <2>1. /\ Reassembly!Create.sequence = 0
        /\ Reassembly!Create.entry_sequence = [i \in Reassembly!Index |-> None]
    BY DEF Reassembly!Create
  <2> QED BY <1>1, <1>2, <2>1, Mapping, SameEmpty
<1>6. Len(<<>>) <= AckBufferSize
  BY ConfigAssumption
<1> QED BY <1>2, <1>3, <1>4, <1>5, <1>6, SameCounting DEF Port!Init, RoomLeft

\* Every call keeps the endpoint sound and the acks within their array, and is
\* the port's step for the same call.
LEMMA CalledStep ==
  ASSUME Sound(endpoint), RoomLeft, CalledNext
  PROVE  Sound(endpoint') /\ RoomLeft' /\ PortStep(call')
<1>1. ASSUME NEW content \in Packets, Sends(content)
      PROVE  Sound(endpoint') /\ RoomLeft' /\ PortStep(call')
  <2>1. /\ SendPacket(content) \/ SendTooLarge(content)
        /\ call' = [of |-> "send_packet", content |-> content]
    BY <1>1 DEF Sends
  <2>2. Sound(endpoint')
    BY <2>1, SoundSent
  <2>3. (Port!SendPacket(content) \/ Port!SendTooLarge(content)) /\ RoomLeft'
    BY <2>1, <2>2, SendMaps
  <2>4. call'.of = "send_packet" /\ call'.content = content
    BY <2>1
  <2> QED BY <2>2, <2>3, <2>4 DEF PortStep
<1>2. ASSUME NEW d \in Datagrams, NEW answer \in Answers, Receives(d, answer)
      PROVE  Sound(endpoint') /\ RoomLeft' /\ PortStep(call')
  <2>1. /\ ReceivePacket(d, answer)
        /\ call' = [of |-> "receive_packet", datagram |-> d, answer |-> answer]
    BY <1>2 DEF Receives
  <2>2. Sound(endpoint')
    BY <2>1, SoundReceived
  <2>3. (Port!ReceivePacket(d, answer) \/ DropsFragment(d)) /\ RoomLeft'
    BY <2>1, <2>2, ReceiveMaps
  <2>4. call'.of = "receive_packet" /\ call'.datagram = d /\ call'.answer = answer
    BY <2>1
  <2> QED BY <2>2, <2>3, <2>4 DEF PortStep
<1>3. ASSUME Clears PROVE Sound(endpoint') /\ RoomLeft' /\ PortStep(call')
  <2>1. ClearAcks /\ call' = [of |-> "clear_acks"]
    BY <1>3 DEF Clears
  <2>2. Sound(endpoint')
    BY <2>1, SoundCleared
  <2>3. Port!ClearAcks /\ RoomLeft' /\ call'.of = "clear_acks"
    BY <2>1, <2>2, ClearMaps
  <2> QED BY <2>2, <2>3 DEF PortStep
<1>4. ASSUME Resets PROVE Sound(endpoint') /\ RoomLeft' /\ PortStep(call')
  <2>1. Reset /\ call' = [of |-> "reset"]
    BY <1>4 DEF Resets
  <2>2. Sound(endpoint')
    BY <2>1, SoundReset DEF Reset
  <2>3. Port!Reset /\ RoomLeft' /\ call'.of = "reset"
    BY <2>1, <2>2, ResetMaps
  <2> QED BY <2>2, <2>3 DEF PortStep
<1> QED BY <1>1, <1>2, <1>3, <1>4 DEF CalledNext

\* The invariant of the calls: the endpoint is sound and the acks fit.
LEMMA CalledInvariant == CalledSpec => [](Sound(endpoint) /\ RoomLeft)
<1>1. CalledInit => Sound(endpoint) /\ RoomLeft
  BY SoundCreated, InitMaps DEF CalledInit, Init
<1>2. Sound(endpoint) /\ RoomLeft /\ [CalledNext]_<<endpoint, call>> => Sound(endpoint') /\ RoomLeft'
  <2> SUFFICES ASSUME Sound(endpoint), RoomLeft, [CalledNext]_<<endpoint, call>>
               PROVE  Sound(endpoint') /\ RoomLeft'
    OBVIOUS
  <2>1. CASE CalledNext
    BY <2>1, CalledStep
  <2>2. CASE UNCHANGED <<endpoint, call>>
    <3>1. endpoint' = endpoint
      BY <2>2
    <3> QED BY <3>1 DEF RoomLeft
  <2> QED BY <2>1, <2>2
<1>3. Sound(endpoint)' <=> Sound(endpoint')
  BY DEF Sound, Memory, Owns, Belongs, Block, Live, Agrees
<1> QED BY <1>1, <1>2, <1>3, PTL DEF CalledSpec

\* Call by call, the C endpoint does what src/src/endpoint.rs does, under the
\* mapping of CPort, for every configuration and every behaviour of the
\* allocator; the one exception is a fragment dropped for want of memory.
THEOREM ImplementsThePort == CalledSpec => ImplementsPort
<1>1. CalledInit => Port!Init
  BY InitMaps DEF CalledInit
<1>2. Sound(endpoint) /\ RoomLeft /\ [CalledNext]_<<endpoint, call>> =>
        [PortStep(call')]_<<endpoint, call>>
  BY CalledStep
<1> QED BY <1>1, <1>2, CalledInvariant, PTL DEF CalledSpec, ImplementsPort

\* In every state of the C endpoint, it and the port transmit the same datagrams
\* for the same packet (src/wire-compat/src/lib.rs, cross_feed).
THEOREM TranscriptsAgree == CalledSpec => []SameTranscript
<1>1. Sound(endpoint) => SameTranscript
  BY SoundTranscript
<1> QED BY <1>1, CalledInvariant, PTL

-----------------------------------------------------------------------------
(* What a call leaves receivable                                           *)

\* No window is longer than half the number space, so that its newest number is
\* not too old for it.
WithinHalf ==
  /\ ReceivedPacketsBufferSize <= SequenceModulus \div 2
  /\ FragmentReassemblyBufferSize <= SequenceModulus \div 2

\* What moved a window is not too old for it.
LEMMA NewestIsFresh ==
  ASSUME WithinHalf, NEW s \in SequenceNumber, NEW b, b.sequence = Uint16(s + 1)
  PROVE  Received!TestInsert(b, s) /\ Reassembly!TestInsert(b, s)
<1>1. ASSUME NEW n \in Nat \ {0}, n <= SequenceModulus \div 2
      PROVE  ~Reassembly!SequenceGreaterThan(Uint16(Uint16(s + 1) - Uint16(n)), s)
  <2>1. /\ SequenceModulus \in Nat \ {0} /\ SequenceModulus % 2 = 0
        /\ s \in 0 .. SequenceModulus - 1
    BY ConfigAssumption DEF SequenceNumber
  <2>2. 2 * (SequenceModulus \div 2) = SequenceModulus
    BY <2>1
  <2>3. n < SequenceModulus /\ Uint16(n) = n
    BY <1>1, <2>1, <2>2 DEF Uint16
  <2>4. Uint16(s + 1) = IF s + 1 = SequenceModulus THEN 0 ELSE s + 1
    BY <2>1 DEF Uint16
  <2>5. Uint16(Uint16(s + 1) - n) = IF s + 1 >= n THEN s + 1 - n ELSE s + 1 - n + SequenceModulus
    <3>1. CASE s + 1 = SequenceModulus
      <4>1. Uint16(s + 1) - n = s + 1 - n - SequenceModulus
        BY <2>1, <2>4, <3>1
      <4>2. (0 - n) % SequenceModulus = SequenceModulus - n
        BY <1>1, <2>1, <2>3
      <4> QED BY <1>1, <2>1, <2>3, <2>4, <3>1, <4>1, <4>2 DEF Uint16
    <3>2. CASE s + 1 # SequenceModulus
      <4>1. s + 1 >= n => (s + 1 - n) % SequenceModulus = s + 1 - n
        BY <1>1, <2>1, <2>3, <3>2
      <4>2. s + 1 < n => (s + 1 - n) % SequenceModulus = s + 1 - n + SequenceModulus
        BY <1>1, <2>1, <2>3, <3>2
      <4> QED BY <1>1, <2>1, <2>4, <3>2, <4>1, <4>2 DEF Uint16
    <3> QED BY <3>1, <3>2
  <2> QED BY <1>1, <2>1, <2>2, <2>3, <2>5 DEF Reassembly!SequenceGreaterThan
<1>2. /\ ReceivedPacketsBufferSize \in Nat \ {0}
      /\ FragmentReassemblyBufferSize \in Nat \ {0}
  BY ConfigAssumption
<1>3. \A x, y : Received!SequenceGreaterThan(x, y) <=> Reassembly!SequenceGreaterThan(x, y)
  BY DEF Received!SequenceGreaterThan, Reassembly!SequenceGreaterThan
<1> QED BY <1>1, <1>2, <1>3, Instances DEF WithinHalf, Received!TestInsert, Reassembly!TestInsert,
     Received!SequenceLessThan, Reassembly!SequenceLessThan

\* A window that stays, or is moved by packet s, does not leave s behind.
LEMMA NotOutdated ==
  ASSUME WithinHalf, NEW s \in SequenceNumber, NEW e, NEW f, Sound(e), Sound(f), ~Outdated(e, s),
         LET q == e.received_packets.sequence
         IN  f.received_packets.sequence \in {q, Moved(q, s)}
  PROVE  ~Outdated(f, s)
<1> DEFINE q == e.received_packets.sequence
           g == f.received_packets.sequence
<1>1. q = e.fragment_reassembly.sequence /\ g = f.fragment_reassembly.sequence
  BY DEF Sound
<1>2. CASE g = q
  BY <1>1, <1>2 DEF Outdated, Received!TestInsert, Reassembly!InsertsWithCleanup,
     Reassembly!TestInsert, Reassembly!Ahead
<1>3. CASE g = Uint16(s + 1)
  BY <1>1, <1>3, NewestIsFresh DEF Outdated, Reassembly!InsertsWithCleanup
<1> QED BY <1>2, <1>3 DEF Moved

\* From e to f no packet is entered but the one with header h, if it was
\* accepted; if it was not, the window stays.
Enters(e, f, h, answer) ==
  /\ \A t \in SequenceNumber :
       InWindow(f, t) => InWindow(e, t) \/ (answer = "accepted" /\ t = h.sequence)
  /\ answer # "accepted" => f.received_packets.sequence = e.received_packets.sequence

\* That is what the end of receive_packet does.
LEMMA FinishNumbers ==
  ASSUME NEW e, Sound(e), NEW h, NEW s, NEW rebuilt \in BOOLEAN, NEW answer,
         answer = "accepted" => h \in Headers /\ Received!TestInsert(e.received_packets, h.sequence),
         rebuilt => s \in SequenceNumber
  PROVE  Enters(e, Finish(e, h, s, rebuilt, answer), h, answer)
<1> DEFINE answered == IF answer = "accepted" THEN Accept(e, h) ELSE e
           f == Finish(e, h, s, rebuilt, answer)
<1>1. Sound(answered)
  <2>1. answer = "accepted" => Sound(Accept(e, h))
    BY SoundAccepted
  <2> QED BY <2>1
<1>2. \A t \in SequenceNumber :
        InWindow(answered, t) => InWindow(e, t) \/ (answer = "accepted" /\ t = h.sequence)
  <2>1. CASE answer = "accepted"
    BY <2>1, AcceptedNumbers
  <2>2. CASE answer # "accepted"
    BY <2>2
  <2> QED BY <2>1, <2>2
<1>3. f = IF rebuilt THEN Leave(answered, s) ELSE answered
  BY DEF Finish
<1>4. answer # "accepted" => answered = e
  OBVIOUS
<1>5. Leave(answered, s).received_packets = answered.received_packets
  <2> HIDE DEF answered
  <2> QED BY <1>1 DEF Leave, Count, Sound, Endpoints
<1> HIDE DEF answered, f
<1>6. \A t \in SequenceNumber : InWindow(f, t) => InWindow(answered, t)
  BY <1>3, <1>5 DEF InWindow
<1>7. f.received_packets = answered.received_packets
  BY <1>3, <1>5
<1> QED BY <1>2, <1>4, <1>6, <1>7 DEF f, Enters

\* What receive_packet enters and moves: a packet that is accepted, and the
\* window by the first fragment of a packet.
LEMMA ReceivedSpends ==
  ASSUME Sound(endpoint), NEW d \in Datagrams, NEW answer \in Answers,
         ReceivePacket(d, answer)
  PROVE  /\ \A t \in SequenceNumber :
              InWindow(endpoint', t) =>
                InWindow(endpoint, t) \/ (answer = "accepted" /\ IsOf(d, t))
         /\ \A t \in SequenceNumber :
              IsOf(d, t) /\ answer # "accepted" =>
                LET q == endpoint.received_packets.sequence
                IN  endpoint'.received_packets.sequence \in {q, Moved(q, t)}
<1> DEFINE e == endpoint
           q == e.received_packets.sequence
<1>0. \A names : SameButAcks(e, Count(e, names))
  BY Counted DEF Sound
<1>1. CASE ReceiveRegular(d, answer)
  <2> DEFINE a == Arrive(e, d.header, d.content)
  <2>1. d.type = "regular" /\ endpoint' = Finish(a, d.header, None, FALSE, answer)
    BY <1>1 DEF ReceiveRegular
  <2>2. Sound(a) /\ SameButAcks(e, a)
    BY SoundArrived
  <2>3. ASSUME answer = "accepted"
        PROVE  /\ d.header \in Headers /\ d.header # None
               /\ Received!TestInsert(a.received_packets, d.header.sequence)
    <3>1. Processes(e, d.header, d.content)
      BY <1>1, <2>3 DEF ReceiveRegular
    <3>2. d.header # None /\ Received!TestInsert(e.received_packets, d.header.sequence)
      BY <3>1, ProcessesFresh
    <3>3. d.header \in Headers \cup {None}
      BY <2>1, DataAssumption DEF Datagram
    <3> QED BY <2>2, <3>2, <3>3 DEF SameButAcks
  <2>4. a.received_packets = e.received_packets
    BY <2>2 DEF SameButAcks
  <2>5. \A t : d.header # None /\ t = d.header.sequence => IsOf(d, t)
    BY <2>1 DEF IsOf
  <2> HIDE DEF a
  <2>6. Enters(a, endpoint', d.header, answer)
    BY <2>1, <2>2, <2>3, FinishNumbers
  <2> QED BY <2>3, <2>4, <2>5, <2>6 DEF Enters, InWindow
<1>2. CASE d.type = "fragment" /\ ~ReceiveRegular(d, answer)
  <2>0. /\ \A t : IsOf(d, t) <=> d.sequence = t
        /\ d.sequence \in SequenceNumber
    BY <1>2, FragmentType DEF IsOf
  <2>1. /\ \A t \in SequenceNumber : InWindow(Opened(e, d), t) => InWindow(e, t)
        /\ Opened(e, d).received_packets.sequence = Moved(q, d.sequence)
    <3>1. Opened(e, d).received_packets = Received!Advance(e.received_packets, d.sequence)
      BY DEF Opened, Sound, Endpoints
    <3> QED BY <1>2, <2>0, <3>1, OpenedNumbers, ReceivedAdvanced, SoundParts
  <2>2. CASE ReceiveFragment(d, answer)
    <3>1. ReadFragmentHeader(d)
      BY <2>2 DEF ReceiveFragment, Wanted
    <3>2. PICK prepared \in Prepared(e, d) :
            LET stored == Store(prepared, d)
                data == Reassembly!Find(stored.fragment_reassembly, d.sequence)
                packet == Rebuilt(stored, data)
            IN  IF Complete(data)
                THEN /\ (answer = "unused") <=> ~Processes(stored, packet.header, packet.content)
                     /\ endpoint' = Finish(Arrive(stored, packet.header, packet.content),
                                           packet.header, d.sequence, TRUE, answer)
                ELSE /\ answer = "unused"
                     /\ endpoint' = Count(stored, {"num_fragments_received"})
      BY <2>2 DEF ReceiveFragment
    <3> DEFINE stored == Store(prepared, d)
               data == Reassembly!Find(stored.fragment_reassembly, d.sequence)
               packet == Rebuilt(stored, data)
               a == Arrive(stored, packet.header, packet.content)
    <3>3. /\ Sound(prepared) /\ HasEntry(prepared, d)
          /\ ~Mismatched(prepared, d) /\ ~AlreadyStored(prepared, d)
      BY <1>2, <3>1, SoundPrepared
    <3>4. /\ Sound(stored) /\ HasEntry(stored, d)
          /\ stored.received_packets = prepared.received_packets
      <4>1. stored.received_packets = prepared.received_packets
        BY <3>3 DEF Store, Sound, Endpoints
      <4> QED BY <1>2, <3>1, <3>3, <4>1, SoundStored
    <3>5. prepared.received_packets \in {e.received_packets, Opened(e, d).received_packets}
      <4>1. CASE HasEntry(e, d)
        BY <4>1 DEF Prepared
      <4>2. CASE ~HasEntry(e, d)
        <5>1. PICK p \in Allocations(Opened(e, d).heap) \ {NULL} : prepared = Allocated(e, d, p)
          BY <4>2 DEF Prepared
        <5>2. p \in Blocks /\ Opened(e, d).heap[p] = Free
          BY <5>1 DEF Allocations
        <5> QED BY <1>2, <5>1, <5>2, SoundAllocated DEF Begins
      <4> QED BY <4>1, <4>2
    <3> HIDE DEF stored
    <3>6. /\ \A t \in SequenceNumber : InWindow(stored, t) => InWindow(e, t)
          /\ stored.received_packets.sequence \in {q, Moved(q, d.sequence)}
      BY <2>1, <3>4, <3>5 DEF InWindow
    <3>7. CASE Complete(data)
      <4>1. /\ (answer = "unused") <=> ~Processes(stored, packet.header, packet.content)
            /\ endpoint' = Finish(a, packet.header, d.sequence, TRUE, answer)
        BY <3>2, <3>7 DEF stored
      <4>2. /\ packet.header \in Headers \cup {None}
            /\ packet.header # None => packet.header.sequence = d.sequence
        BY <1>2, <3>1, <3>4, RebuiltBelongs
      <4> HIDE DEF packet
      <4>3. Sound(a) /\ SameButAcks(stored, a)
        BY <3>4, SoundArrived
      <4>4. answer = "accepted" =>
              /\ packet.header \in Headers /\ packet.header.sequence = d.sequence
              /\ Received!TestInsert(a.received_packets, packet.header.sequence)
        BY <4>1, <4>2, <4>3, ProcessesFresh DEF SameButAcks
      <4>5. a.received_packets = stored.received_packets
        BY <4>3 DEF SameButAcks
      <4> HIDE DEF a
      <4>6. Enters(a, endpoint', packet.header, answer)
        BY <2>0, <4>1, <4>3, <4>4, FinishNumbers
      <4> QED BY <2>0, <3>6, <4>4, <4>5, <4>6 DEF Enters, InWindow
    <3>8. CASE ~Complete(data)
      <4>1. endpoint' = Count(stored, {"num_fragments_received"})
        BY <3>2, <3>8 DEF stored
      <4>2. endpoint'.received_packets = stored.received_packets
        BY <3>4, <4>1, Counted DEF Sound, SameButAcks
      <4> QED BY <2>0, <3>6, <4>2 DEF InWindow
    <3> QED BY <3>7, <3>8
  <2>3. CASE \/ ReceiveFragmentTooLarge(d) \/ ReceiveInvalidFragment(d) \/ IgnoreFragment(d)
    <3>1. endpoint' = e \/ \E names : endpoint' = Count(e, names)
      BY <2>3 DEF ReceiveFragmentTooLarge, ReceiveInvalidFragment, IgnoreFragment
    <3>2. endpoint'.received_packets = e.received_packets
      BY <1>0, <3>1 DEF SameButAcks
    <3> QED BY <3>2 DEF InWindow
  <2>4. CASE FailToAllocate(d)
    <3>1. endpoint' = Unallocated(e, d)
      BY <2>4 DEF FailToAllocate
    <3>2. endpoint'.received_packets = Opened(e, d).received_packets
      BY <1>2, <3>1, SoundUnallocated DEF GivesUp
    <3> QED BY <2>0, <2>1, <3>2 DEF InWindow
  <2> QED BY <1>2, <2>2, <2>3, <2>4 DEF ReceivePacket
<1>3. ReceiveRegular(d, answer) \/ d.type = "fragment"
  BY DEF ReceivePacket, ReceiveFragment, ReceiveFragmentTooLarge, ReceiveInvalidFragment,
     IgnoreFragment, FailToAllocate
<1> QED BY <1>1, <1>2, <1>3

\* Calls of the application enter no packet, and only reset moves a window.
LEMMA CallsSpendNothing ==
  ASSUME Sound(endpoint), NEW t \in SequenceNumber,
         \/ \E content \in Packets : SendPacket(content) \/ SendTooLarge(content)
         \/ ClearAcks
         \/ Reset
  PROVE  InWindow(endpoint', t) => InWindow(endpoint, t)
<1>1. CASE \E content \in Packets : SendPacket(content) \/ SendTooLarge(content)
  <2>1. endpoint'.received_packets = endpoint.received_packets
    BY <1>1 DEF SendPacket, SendTooLarge, Track, Count, Sound, Endpoints
  <2> QED BY <2>1 DEF InWindow
<1>2. CASE ClearAcks
  <2>1. endpoint'.received_packets = endpoint.received_packets
    BY <1>2 DEF ClearAcks, Sound, Endpoints
  <2> QED BY <2>1 DEF InWindow
<1>3. CASE Reset
  <2>1. endpoint'.received_packets = Received!Reset(endpoint.received_packets)
    BY <1>3 DEF Reset, ResetOf, Created
  <2>2. Received!Slot(t) \in Received!Index /\ t # None
    BY Instances, DataAssumption
  <2>3. endpoint.received_packets \in ReceivedBuffers
    BY SoundParts
  <2> HIDE <1>3
  <2>4. endpoint'.received_packets.entry_sequence = [i \in Received!Index |-> None]
    BY <2>1, <2>3 DEF Received!Reset, ReceivedBuffers, Received!BufferOf
  <2> QED BY <2>2, <2>4 DEF InWindow, Received!Exists
<1> QED BY <1>1, <1>2, <1>3

\* In a sound endpoint only its age, or its acceptance, makes a packet unreceivable.
LEMMA SoundReceivable ==
  ASSUME NEW e, Sound(e), NEW s \in SequenceNumber, ~Outdated(e, s), ~InWindow(e, s)
  PROVE  Receivable(e, s)
<1>1. Reassembly!Slot(s) \in Reassembly!Index /\ s # None
  BY Instances, DataAssumption
<1>2. Reassembly!Exists(e.fragment_reassembly, s) =>
        Live(e.heap, Reassembly!Find(e.fragment_reassembly, s).packet_data)
  BY <1>1 DEF Sound, Memory, Owns, Block, Reassembly!Occupied, Reassembly!Exists, Reassembly!Find
<1> QED BY <1>2 DEF Receivable, InWindow

\* A fragment dropped because its allocation failed, and a packet the callback
\* rejected, can come again, whatever else is under reassembly: only acceptance
\* and the windows' passing end it.
THEOREM PacketsStayReceivable == WithinHalf => (CalledSpec => StillReceivable)
<1> SUFFICES ASSUME WithinHalf PROVE CalledSpec => StillReceivable
  OBVIOUS
<1> DEFINE Keeps(s) ==
      Receivable(endpoint, s) =>
        \/ Receivable(endpoint', s)
        \/ Gives(call', s) /\ call'.answer = "accepted"
        \/ ~Gives(call', s) /\ Outdated(endpoint', s)
<1>1. ASSUME Sound(endpoint), RoomLeft, CalledNext, NEW s \in SequenceNumber
      PROVE  Keeps(s)
  <2> SUFFICES ASSUME Receivable(endpoint, s), ~(Gives(call', s) /\ call'.answer = "accepted")
               PROVE  Receivable(endpoint', s) \/ (~Gives(call', s) /\ Outdated(endpoint', s))
    OBVIOUS
  <2>1. Sound(endpoint')
    BY <1>1, CalledStep
  <2>2. ~Outdated(endpoint, s) /\ ~InWindow(endpoint, s)
    BY DEF Receivable, InWindow
  <2>3. ASSUME NEW d \in Datagrams, NEW answer \in Answers, Receives(d, answer)
        PROVE  ~InWindow(endpoint', s) /\ (Gives(call', s) => ~Outdated(endpoint', s))
    <3>1. /\ ReceivePacket(d, answer)
          /\ call' = [of |-> "receive_packet", datagram |-> d, answer |-> answer]
      BY <2>3 DEF Receives
    <3>2. Gives(call', s) <=> IsOf(d, s)
      BY <3>1 DEF Gives
    <3>3. call'.answer = answer
      BY <3>1
    <3>4. ~InWindow(endpoint', s)
      BY <1>1, <2>2, <3>1, <3>2, <3>3, ReceivedSpends
    <3>5. ASSUME Gives(call', s) PROVE ~Outdated(endpoint', s)
      <4>1. LET q == endpoint.received_packets.sequence
            IN  endpoint'.received_packets.sequence \in {q, Moved(q, s)}
        BY <1>1, <3>1, <3>2, <3>3, <3>5, ReceivedSpends
      <4> QED BY <1>1, <2>1, <2>2, <4>1, NotOutdated
    <3> QED BY <3>4, <3>5
  <2>4. ASSUME \/ \E content \in Packets : Sends(content)
               \/ Clears
               \/ Resets
        PROVE  ~InWindow(endpoint', s) /\ ~Gives(call', s)
    <3>1. ~InWindow(endpoint', s)
      BY <1>1, <2>2, <2>4, CallsSpendNothing DEF Sends, Clears, Resets
    <3>2. call'.of # "receive_packet"
      BY <2>4 DEF Sends, Clears, Resets
    <3> QED BY <3>1, <3>2 DEF Gives
  <2> QED BY <1>1, <2>1, <2>3, <2>4, SoundReceivable DEF CalledNext
<1>2. Sound(endpoint) /\ RoomLeft /\ [CalledNext]_<<endpoint, call>> =>
        [\A s \in SequenceNumber : Keeps(s)]_<<endpoint, call>>
  BY <1>1
<1> QED BY <1>2, CalledInvariant, PTL DEF CalledSpec, StillReceivable
=============================================================================
