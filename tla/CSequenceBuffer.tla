--------------------------- MODULE CSequenceBuffer ---------------------------
(***************************************************************************)
(* The sequence buffer of the C implementation                             *)
(* (reliable_sequence_buffer_t, src/wire-compat/c/reliable.c).  Unlike the *)
(* port's, it never clears an entry's data: an emptied slot keeps what it  *)
(* held, and `insert` hands the caller a slot with leftovers in it.  The   *)
(* variants "with cleanup" call a function on the data of every slot they  *)
(* empty, occupied or not; the operators named ...Cleans give those slots. *)
(***************************************************************************)
EXTENDS Integers

CONSTANTS
  SequenceModulus,  \* 65536
  NumEntries,       \* num_entries
  Empty,            \* 0xFFFFFFFF in entry_sequence
  ZeroData,         \* an entry's data as memset( entry_data, 0 ) leaves it
  Cleanup(_)        \* cleanup_function: what becomes of an entry's data

Uint16(n) == n % SequenceModulus

\* Mutant: numbers are compared as they are.
SequenceGreaterThan_NoWrap(s1, s2) == s1 > s2

SequenceGreaterThan(s1, s2) ==
  \/ s1 > s2 /\ s1 - s2 <= SequenceModulus \div 2
  \/ s1 < s2 /\ s2 - s1 > SequenceModulus \div 2

SequenceLessThan(s1, s2) == SequenceGreaterThan(s2, s1)

SequenceNumber == 0 .. SequenceModulus - 1

Index == 0 .. NumEntries - 1

BufferOf(Data) ==
  [sequence : SequenceNumber,
   entry_sequence : [Index -> SequenceNumber \cup {Empty}],
   entry_data : [Index -> Data]]

Slot(s) == s % NumEntries

Occupied(b) == {i \in Index : b.entry_sequence[i] # Empty}

Create == [sequence |-> 0,
           entry_sequence |-> [i \in Index |-> Empty],
           entry_data |-> [i \in Index |-> ZeroData]]

\* reset empties the slots and leaves their data.
Reset(b) == [b EXCEPT !.sequence = 0, !.entry_sequence = [i \in Index |-> Empty]]

\* The slots remove_entries goes through.
Spanned(start, finish) ==
  LET unrolled == IF finish < start THEN finish + SequenceModulus ELSE finish
  IN  IF unrolled - start < NumEntries THEN {Slot(s) : s \in start .. unrolled} ELSE Index

Emptied(b, slots) ==
  [b EXCEPT !.entry_sequence = [i \in Index |-> IF i \in slots THEN Empty ELSE @[i]]]

Cleaned(b, slots) ==
  [b EXCEPT !.entry_data = [i \in Index |-> IF i \in slots THEN Cleanup(@[i]) ELSE @[i]]]

TestInsert(b, s) == ~SequenceLessThan(s, Uint16(b.sequence - Uint16(NumEntries)))

Ahead(b, s) == SequenceGreaterThan(Uint16(s + 1), b.sequence)

Advance(b, s) ==
  IF Ahead(b, s)
  THEN [Emptied(b, Spanned(b.sequence, s)) EXCEPT !.sequence = Uint16(s + 1)]
  ELSE b

Claim(b, s) == [b EXCEPT !.entry_sequence[Slot(s)] = s]

\* insert, where TestInsert(b, s) holds; elsewhere it returns NULL.
Insert(b, s) == Claim(Advance(b, s), s)

AdvanceCleans(b, s) == IF Ahead(b, s) THEN Spanned(b.sequence, s) ELSE {}

AdvanceWithCleanup(b, s) == Cleaned(Advance(b, s), AdvanceCleans(b, s))

\* insert_with_cleanup returns an entry when this holds, else NULL.
InsertsWithCleanup(b, s) == Ahead(b, s) \/ TestInsert(b, s)

InsertCleans(b, s) == AdvanceCleans(b, s) \cup ({Slot(s)} \cap Occupied(b))

InsertWithCleanup(b, s) == Claim(Cleaned(Advance(b, s), InsertCleans(b, s)), s)

\* remove_with_cleanup empties the slot of s whichever number occupies it.
RemoveCleans(b, s) == {Slot(s)} \cap Occupied(b)

RemoveWithCleanup(b, s) ==
  Cleaned(Emptied(b, RemoveCleans(b, s)), RemoveCleans(b, s))

Exists(b, s) == b.entry_sequence[Slot(s)] = s

\* find, for an s that exists, and a write through the pointer it returns.
Find(b, s) == b.entry_data[Slot(s)]

Write(b, s, data) == [b EXCEPT !.entry_data[Slot(s)] = data]

\* generate_ack_bits: the newest number, and the offsets whose bit is one.
Ack(b) == Uint16(b.sequence - 1)

AckBitsOf(b, bits) == {i \in 0 .. bits - 1 : Exists(b, Uint16(Ack(b) - i))}
=============================================================================
