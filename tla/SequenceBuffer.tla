--------------------------- MODULE SequenceBuffer ---------------------------
(***************************************************************************)
(* The circular buffer of entries indexed by sequence number               *)
(* (src/src/sequence_buffer.rs).  A buffer is a record; every method is an *)
(* operator from buffers to buffers.  Sequence s lives in slot             *)
(* s % NumEntries, whatever SequenceModulus % NumEntries is.               *)
(*                                                                         *)
(* `insert` returns a reference through which the caller fills the fresh   *)
(* entry; here the caller passes the entry's data.                         *)
(***************************************************************************)
EXTENDS SequenceNumbers

CONSTANTS
  NumEntries,   \* the buffer's size
  Default,      \* T::default(), what an empty slot holds
  None          \* Option::None in entry_sequence

ASSUME NumEntriesAssumption == NumEntries \in Nat \ {0}
ASSUME NoneAssumption == None \notin SequenceNumber

Index == 0 .. NumEntries - 1

Slot(s) == s % NumEntries

BufferOf(Data) ==
  [sequence : SequenceNumber,
   entry_sequence : [Index -> SequenceNumber \cup {None}],
   entries : [Index -> Data]]

\* SequenceBuffer::new, and the state SequenceBuffer::reset returns to.
New == [sequence |-> 0,
        entry_sequence |-> [i \in Index |-> None],
        entries |-> [i \in Index |-> Default]]

\* Mutants: a forgotten `finish += 65536`; emptying every slot.
RemovedSlots_NotUnrolled(start, finish) ==
  IF finish - start < NumEntries THEN {Slot(q) : q \in start .. finish} ELSE Index

RemovedSlots_All(start, finish) == Index

\* The slots remove_entries empties: those of start..=finish computed without
\* wrapping (finish is unrolled past the modulus), or all of them.
RemovedSlots(start, finish) ==
  LET last == IF finish < start THEN finish + SequenceModulus ELSE finish
  IN  IF last - start < NumEntries THEN {Slot(q) : q \in start .. last}
                                   ELSE Index

RemoveEntries(b, start, finish) ==
  LET removed == RemovedSlots(start, finish)
  IN  [b EXCEPT
        !.entry_sequence = [i \in Index |-> IF i \in removed THEN None ELSE @[i]],
        !.entries = [i \in Index |-> IF i \in removed THEN Default ELSE @[i]]]

\* Mutants: windows one entry too wide and one too narrow.
Oldest_Wide(b) == WrapSub(b.sequence, NumEntries + 1)

Oldest_Narrow(b) == WrapSub(b.sequence, NumEntries - 1)

\* `self.entries.len() as u16` truncates the size to the width of a sequence.
Oldest(b) == WrapSub(b.sequence, NumEntries % SequenceModulus)

CanInsert(b, s) == ~SequenceLessThan(s, Oldest(b))

\* Mutant: an older number moves the window back.
Advances_Backwards(b, s) == WrapAdd(s, 1) # b.sequence

Advances(b, s) == SequenceGreaterThan(WrapAdd(s, 1), b.sequence)

Advance(b, s) ==
  IF Advances(b, s)
  THEN [RemoveEntries(b, b.sequence, s) EXCEPT !.sequence = WrapAdd(s, 1)]
  ELSE b

Fill(b, s, data) ==
  [b EXCEPT !.entry_sequence[Slot(s)] = s, !.entries[Slot(s)] = data]

\* insert succeeds when CanInsert(b, s): the stale check runs first.
Insert(b, s, data) == Fill(Advance(b, s), s, data)

\* Mutant: no stale check.
CanInsertAdvanceFirst_Always(b, s) == TRUE

\* insert_advance_first succeeds when this holds: the stale check runs last.
CanInsertAdvanceFirst(b, s) == Advances(b, s) \/ CanInsert(b, s)

InsertAdvanceFirst(b, s, data) == Fill(Advance(b, s), s, data)

\* remove empties the slot of s, whichever sequence number occupies it.
Remove(b, s) ==
  IF b.entry_sequence[Slot(s)] = None THEN b
  ELSE [b EXCEPT !.entry_sequence[Slot(s)] = None, !.entries[Slot(s)] = Default]

Exists(b, s) == b.entry_sequence[Slot(s)] = s

\* find and find_mut, for an s that exists.
Find(b, s) == b.entries[Slot(s)]

Update(b, s, data) == [b EXCEPT !.entries[Slot(s)] = data]

\* generate_ack_bits: the most recent sequence number and, as a set of
\* offsets, the bits below it.  The code looks at 32 offsets.
AckOf(b) == WrapSub(b.sequence, 1)

GenerateAckBits(b, bits) == {i \in 0 .. bits - 1 : Exists(b, WrapSub(AckOf(b), i))}
=============================================================================
