------------------------- MODULE WindowBufferProofs -------------------------
(***************************************************************************)
(* For every modulus and every size that divides it and is at most half of *)
(* it, the sequence buffer implements SlidingWindow and answers every      *)
(* query about the identities behind the numbers, for ever.  The default   *)
(* sizes, 256 and 64, satisfy both conditions.                             *)
(***************************************************************************)
EXTENDS WindowBuffer, SequenceBufferProofs

\* Buffer b is at identity n and each identity of ids is the data of its slot.
Holding(b, n, ids) ==
  /\ b \in BufferOf(Int \cup {Default})
  /\ Keeps(b, n, ids)
  /\ \A id \in ids : b.entries[Slot(id)] = id

\* The inductive invariant.
IInv == next \in Nat /\ Holding(buffer, next, Occupants)

\* The data of the occupied slots of b.
OccupantsOf(b) == {b.entries[i] : i \in {j \in Index : b.entry_sequence[j] # None}}

\* A buffer that keeps ids is occupied by ids.
LEMMA Occupied ==
  ASSUME NEW b, NEW n \in Int, NEW ids, Holding(b, n, ids)
  PROVE  OccupantsOf(b) = ids
<1>1. ASSUME NEW id \in ids
      PROVE  id \in OccupantsOf(b)
  <2>1. id \in Int
    BY NumEntriesAssumption DEF Holding, Keeps
  <2>2. Slot(id) \in Index /\ NumberOf(id) \in SequenceNumber
    BY <2>1, NumberType
  <2>3. b.entry_sequence[Slot(id)] # None /\ b.entries[Slot(id)] = id
    BY <2>2, NoneAssumption DEF Holding, Keeps
  <2> QED BY <2>2, <2>3 DEF OccupantsOf
<1>2. ASSUME NEW i \in Index, b.entry_sequence[i] # None
      PROVE  b.entries[i] \in ids
  BY <1>2 DEF Holding, Keeps
<1> QED BY <1>1, <1>2 DEF OccupantsOf

\* advance, for any identity within its reach.
LEMMA AdvanceHolds ==
  ASSUME Commensurate, NEW b, NEW n \in Int, NEW ids, Holding(b, n, ids),
         NEW id \in n - HalfModulus .. n + HalfModulus - 2
  PROVE  Holding(Advance(b, Seq16(id)), Reached(n, id),
                 Kept(ids, Reached(n, id)))
<1> DEFINE Data == Int \cup {Default}
           c == Advance(b, NumberOf(id))
           m == Reached(n, id)
           kept == Kept(ids, m)
<1>1. Default \in Data /\ b \in BufferOf(Data) /\ Keeps(b, n, ids)
  BY DEF Holding
<1>3. /\ c \in BufferOf(Data)
      /\ Keeps(c, m, kept)
      /\ \A p \in kept : c.entries[Slot(p)] = b.entries[Slot(p)]
  <2> HIDE DEF Data
  <2> QED BY <1>1, AdvanceKeeps
<1>4. Seq16(id) = NumberOf(id)
  BY DEF Seq16, NumberOf
<1>5. \A p \in kept : c.entries[Slot(p)] = p
  BY <1>3 DEF Holding, Kept
<1> HIDE DEF c, kept, m
<1>6. Holding(c, m, kept)
  BY <1>3, <1>5 DEF Holding
<1> QED BY <1>4, <1>6 DEF c, kept, m

\* Filling the slot of an identity of the window.
LEMMA FillHolds ==
  ASSUME Commensurate, NEW b, NEW n \in Int, NEW ids, Holding(b, n, ids),
         NEW id \in n - NumEntries .. n - 1
  PROVE  Holding(Fill(b, Seq16(id), id), n, ids \cup {id})
<1> DEFINE Data == Int \cup {Default}
           c == Fill(b, NumberOf(id), id)
<1>1. b \in BufferOf(Data) /\ Keeps(b, n, ids) /\ id \in Data
  BY NumEntriesAssumption DEF Holding
<1>2. /\ c \in BufferOf(Data)
      /\ Keeps(c, n, ids \cup {id})
      /\ c.entries[Slot(id)] = id
      /\ \A p \in ids \ {id} : c.entries[Slot(p)] = b.entries[Slot(p)]
  <2> HIDE DEF Data
  <2> QED BY <1>1, FillKeeps
<1>3. Seq16(id) = NumberOf(id)
  BY DEF Seq16, NumberOf
<1> HIDE DEF c
<1>4. \A p \in ids \cup {id} : c.entries[Slot(p)] = p
  BY <1>2 DEF Holding
<1>5. Holding(c, n, ids \cup {id})
  BY <1>2, <1>4 DEF Holding
<1> QED BY <1>3, <1>5 DEF c

\* Removing an identity of the window.
LEMMA RemoveHolds ==
  ASSUME Commensurate, NEW b, NEW n \in Int, NEW ids, Holding(b, n, ids),
         NEW id \in n - NumEntries .. n - 1
  PROVE  Holding(Remove(b, Seq16(id)), n, ids \ {id})
<1> DEFINE Data == Int \cup {Default}
           c == Remove(b, NumberOf(id))
<1>1. Default \in Data /\ b \in BufferOf(Data) /\ Keeps(b, n, ids)
  BY DEF Holding
<1>2. /\ c \in BufferOf(Data)
      /\ Keeps(c, n, ids \ {id})
      /\ \A p \in ids \ {id} : c.entries[Slot(p)] = b.entries[Slot(p)]
  <2> HIDE DEF Data
  <2> QED BY <1>1, RemoveKeeps
<1>3. Seq16(id) = NumberOf(id)
  BY DEF Seq16, NumberOf
<1> HIDE DEF c
<1>4. \A p \in ids \ {id} : c.entries[Slot(p)] = p
  BY <1>2 DEF Holding
<1>5. Holding(c, n, ids \ {id})
  BY <1>2, <1>4 DEF Holding
<1> QED BY <1>3, <1>5 DEF c

\* The two inserts, for an identity they accept within the reach of the advance.
LEMMA InsertHolds ==
  ASSUME Commensurate, IInv, NEW id \in AdvanceReach, id >= next - NumEntries
  PROVE  Holding(Fill(Advance(buffer, Seq16(id)), Seq16(id), id), Reached(next, id),
                 {p \in Occupants \cup {id} : p >= Reached(next, id) - NumEntries})
<1> DEFINE c == Advance(buffer, Seq16(id))
           m == Reached(next, id)
           kept == {p \in Occupants : p >= m - NumEntries}
<1>1. /\ next \in Nat /\ id \in Int /\ NumEntries \in Nat \ {0}
      /\ HalfModulus \in Nat \ {0}
  BY NumEntriesAssumption, HalfType DEF IInv, AdvanceReach
<1>2. m \in Int /\ id \in m - NumEntries .. m - 1
  BY <1>1 DEF Reached
<1>3. Holding(c, m, kept)
  BY <1>1, AdvanceHolds DEF AdvanceReach, IInv, Kept
<1>4. {p \in Occupants \cup {id} : p >= m - NumEntries} = kept \cup {id}
  BY <1>1, <1>2
<1> HIDE DEF c, m, kept
<1>5. Holding(Fill(c, Seq16(id), id), m, kept \cup {id})
  BY <1>2, <1>3, FillHolds
<1> QED BY <1>4, <1>5 DEF c, m, kept

\* Both insert variants refuse exactly the identities older than the window.
LEMMA InsertAdmits ==
  ASSUME Commensurate, IInv
  PROVE  /\ \A id \in InsertReach : CanInsert(buffer, Seq16(id)) <=> id >= next - NumEntries
         /\ \A id \in AdvanceReach : /\ Advances(buffer, Seq16(id)) <=> id >= next
                                     /\ CanInsertAdvanceFirst(buffer, Seq16(id))
                                          <=> id >= next - NumEntries
<1>1. /\ next \in Int /\ buffer.sequence = NumberOf(next)
      /\ NumEntries \in Nat \ {0} /\ NumEntries <= HalfModulus /\ HalfModulus \in Nat \ {0}
  BY NumEntriesAssumption, HalfType DEF IInv, Holding, Keeps, Commensurate
<1>2. ASSUME NEW id \in InsertReach
      PROVE  CanInsert(buffer, Seq16(id)) <=> id >= next - NumEntries
  <2>1. id \in next - NumEntries - HalfModulus + 1 .. next + HalfModulus - NumEntries - 1
    BY DEF InsertReach
  <2>2. CanInsert(buffer, NumberOf(id)) <=> id >= next - NumEntries
    BY <1>1, <2>1, CanInsertNumber
  <2> QED BY <2>2 DEF Seq16, NumberOf
<1>3. ASSUME NEW id \in AdvanceReach
      PROVE  Advances(buffer, Seq16(id)) <=> id >= next
  <2>1. id \in next - HalfModulus .. next + HalfModulus - 2
    BY DEF AdvanceReach
  <2>2. Advances(buffer, NumberOf(id)) <=> id >= next
    BY <1>1, <2>1, AdvancesNumber
  <2> QED BY <2>2 DEF Seq16, NumberOf
<1>4. ASSUME NEW id \in AdvanceReach
      PROVE  CanInsertAdvanceFirst(buffer, Seq16(id)) <=> id >= next - NumEntries
  <2>1. CASE id >= next
    BY <1>1, <1>3, <2>1 DEF CanInsertAdvanceFirst, AdvanceReach
  <2>2. CASE id < next
    <3>1. id \in InsertReach
      BY <1>1, <2>2 DEF InsertReach, AdvanceReach
    <3> QED BY <1>1, <1>2, <1>3, <2>2, <3>1 DEF CanInsertAdvanceFirst, AdvanceReach
  <2> QED BY <1>1, <2>1, <2>2 DEF AdvanceReach
<1> QED BY <1>2, <1>3, <1>4

\* Every query is answered about the identities.
LEMMA QueriesAnswered == Commensurate /\ IInv => QueriesAgree
<1> SUFFICES ASSUME Commensurate, IInv
             PROVE  QueriesAgree
  OBVIOUS
<1>1. /\ next \in Int /\ Keeps(buffer, next, Occupants)
      /\ NumEntries \in Nat \ {0} /\ NumEntries <= HalfModulus
      /\ HalfModulus \in Nat \ {0} /\ SequenceModulus = 2 * HalfModulus
  BY NumEntriesAssumption, HalfType DEF IInv, Holding, Commensurate
<1>2. ASSUME NEW id \in AdvanceReach
      PROVE  Exists(buffer, Seq16(id)) <=> id \in Occupants
  <2>1. id \in next - SequenceModulus .. next + SequenceModulus - NumEntries - 1
    BY <1>1 DEF AdvanceReach
  <2>2. Exists(buffer, NumberOf(id)) <=> id \in Occupants
    BY <1>1, <2>1, ExistsKeeps
  <2> QED BY <2>2 DEF Seq16, NumberOf
<1>3. AckOf(buffer) = Seq16(next - 1)
  <2>1. 1 \in 1 .. SequenceModulus
    BY <1>1
  <2>2. AckOf(buffer) = NumberOf(next - 1)
    BY <1>1, <2>1, AckBitsKeeps
  <2> QED BY <2>2 DEF Seq16, NumberOf
<1>4. ASSUME NEW bits \in 1 .. HalfModulus
      PROVE  GenerateAckBits(buffer, bits) = {i \in 0 .. bits - 1 : next - 1 - i \in Occupants}
  <2>1. bits \in 1 .. SequenceModulus
    BY <1>1
  <2> QED BY <1>1, <2>1, AckBitsKeeps
<1> QED BY <1>2, <1>3, <1>4, InsertAdmits DEF QueriesAgree

-----------------------------------------------------------------------------
(* The steps *)

\* What a step that leaves the buffer c at identity m holding ids does.
LEMMA Stepped ==
  ASSUME NEW m \in Nat, NEW ids, Holding(buffer', m, ids), next' = m
  PROVE  IInv' /\ Occupants' = ids
<1>1. OccupantsOf(buffer') = ids
  BY Occupied
<1>2. Occupants' = ids
  BY <1>1 DEF Occupants, OccupantsOf
<1>3. Holding(buffer', next', Occupants')
  BY <1>2
<1>4. Holding(buffer, next, Occupants)'
  BY <1>3 DEF Holding, Keeps
<1> QED BY <1>2, <1>4 DEF IInv

\* A fresh buffer is the empty window.
LEMMA InitHolds == Init => IInv /\ Window!Init
<1> SUFFICES ASSUME Init
             PROVE  IInv /\ Window!Init
  OBVIOUS
<1>1. buffer = New /\ next = 0
  BY DEF Init
<1>2. New \in BufferOf(Int \cup {Default})
  BY NewType
<1>3. Holding(buffer, 0, {})
  BY <1>1, <1>2, NewKeeps DEF Holding
<1>4. OccupantsOf(buffer) = {}
  BY <1>3, Occupied
<1>5. Occupants = {}
  BY <1>4 DEF Occupants, OccupantsOf
<1> QED BY <1>1, <1>3, <1>5 DEF IInv, Window!Init

\* The three kinds of step, as steps of the window.
LEMMA InsertStep ==
  ASSUME Commensurate, IInv, NEW id \in AdvanceReach, id >= next - NumEntries,
         buffer' = Fill(Advance(buffer, Seq16(id)), Seq16(id), id), Seen(id)
  PROVE  IInv' /\ Window!Next
<1>1. /\ next \in Nat /\ id \in Int /\ NumEntries \in Nat \ {0} /\ HalfModulus \in Nat \ {0}
      /\ id \in next - HalfModulus .. next + HalfModulus - 2
  BY NumEntriesAssumption, HalfType DEF IInv, AdvanceReach
<1>2. next' = Reached(next, id) /\ Reached(next, id) \in Nat
  BY <1>1 DEF Seen, Reached
<1>3. IInv' /\ Occupants' = {p \in Occupants \cup {id} : p >= next' - NumEntries}
  BY <1>2, InsertHolds, Stepped
<1>4. next' = Window!Larger(next, id + 1)
  BY <1>1 DEF Seen, Window!Larger
<1>5. id \in Window!Nameable
  BY <1>1 DEF Window!Nameable
<1>6. Window!Insert(id)
  BY <1>3, <1>4 DEF Window!Insert, Window!SlideTo
<1> QED BY <1>3, <1>5, <1>6 DEF Window!Next

\* So is advance,
LEMMA AdvanceStep ==
  ASSUME Commensurate, IInv, NEW id \in AdvanceReach, DoAdvance(id)
  PROVE  IInv' /\ Window!Next
<1>1. /\ next \in Nat /\ id \in Int /\ NumEntries \in Nat \ {0} /\ HalfModulus \in Nat \ {0}
      /\ id \in next - HalfModulus .. next + HalfModulus - 2
  BY NumEntriesAssumption, HalfType DEF IInv, AdvanceReach
<1>2. /\ next' = Reached(next, id) /\ Reached(next, id) \in Nat
      /\ buffer' = Advance(buffer, Seq16(id))
  BY <1>1 DEF DoAdvance, Seen, Reached
<1>3. IInv' /\ Occupants' = {p \in Occupants : p >= next' - NumEntries}
  <2>1. Holding(buffer', next', {p \in Occupants : p >= next' - NumEntries})
    BY <1>1, <1>2, AdvanceHolds DEF IInv, Kept
  <2> QED BY <1>2, <2>1, Stepped
<1>4. next' = Window!Larger(next, id + 1)
  BY <1>1 DEF DoAdvance, Seen, Window!Larger
<1>5. id \in Window!Nameable
  BY <1>1 DEF Window!Nameable
<1>6. Window!Advance(id)
  BY <1>3, <1>4 DEF Window!Advance, Window!SlideTo
<1> QED BY <1>3, <1>5, <1>6 DEF Window!Next

\* and so is remove.
LEMMA RemoveStep ==
  ASSUME Commensurate, IInv, NEW id \in next - NumEntries .. next - 1, DoRemove(id)
  PROVE  IInv' /\ Window!Next
<1>1. next \in Nat /\ NumEntries \in Nat \ {0} /\ HalfModulus \in Nat \ {0}
  BY NumEntriesAssumption, HalfType DEF IInv
<1>2. next' = next /\ buffer' = Remove(buffer, Seq16(id))
  BY DEF DoRemove
<1>3. IInv' /\ Occupants' = Occupants \ {id}
  <2>1. Holding(buffer', next, Occupants \ {id})
    BY <1>1, <1>2, RemoveHolds DEF IInv
  <2> QED BY <1>1, <1>2, <2>1, Stepped
<1>4. id \in Window!Nameable
  BY <1>1 DEF Window!Nameable
<1>5. Window!Remove(id)
  BY <1>2, <1>3 DEF Window!Remove, Window!Window
<1> QED BY <1>3, <1>4, <1>5 DEF Window!Next

\* Every step keeps the inductive invariant and is a step of the window.
LEMMA NextHolds ==
  ASSUME Commensurate, IInv, Next
  PROVE  IInv' /\ Window!Next
<1>1. /\ next \in Nat /\ NumEntries \in Nat \ {0} /\ HalfModulus \in Nat \ {0}
      /\ NumEntries <= HalfModulus
  BY NumEntriesAssumption, HalfType DEF IInv, Commensurate
<1>2. CASE \E id \in InsertReach : DoInsert(id)
  <2>1. PICK id \in InsertReach : DoInsert(id)
    BY <1>2
  <2>2. id >= next - NumEntries
    BY <2>1, InsertAdmits DEF DoInsert
  <2>3. id \in AdvanceReach
    BY <1>1, <2>2 DEF InsertReach, AdvanceReach
  <2> QED BY <2>1, <2>2, <2>3, InsertStep DEF DoInsert, Insert
<1>3. CASE \E id \in AdvanceReach : DoInsertAdvanceFirst(id)
  <2>1. PICK id \in AdvanceReach : DoInsertAdvanceFirst(id)
    BY <1>3
  <2>2. id >= next - NumEntries
    BY <2>1, InsertAdmits DEF DoInsertAdvanceFirst
  <2> QED BY <2>1, <2>2, InsertStep DEF DoInsertAdvanceFirst, InsertAdvanceFirst
<1>4. CASE \E id \in AdvanceReach : DoAdvance(id)
  BY <1>4, AdvanceStep
<1>5. CASE \E id \in next - NumEntries .. next - 1 : DoRemove(id)
  BY <1>5, RemoveStep
<1> QED BY <1>2, <1>3, <1>4, <1>5 DEF Next

\* A stuttering step is one of the window as well.
LEMMA StutterHolds ==
  ASSUME IInv, UNCHANGED vars
  PROVE  IInv' /\ UNCHANGED <<next, Occupants>>
BY DEF vars, IInv, Holding, Keeps, Occupants

-----------------------------------------------------------------------------
(* The theorems *)

\* can_insert, exists, the advance test and generate_ack_bits answer, in u16
\* arithmetic, about the identities behind the numbers, in every state that any
\* sequence of calls within reach leads to, however often the numbers wrapped.
THEOREM QueriesAlwaysAgree ==
  ASSUME Commensurate
  PROVE  Spec => []QueriesAgree
<1>1. Init => IInv
  BY InitHolds
<1>2. IInv /\ [Next]_vars => IInv'
  BY NextHolds, StutterHolds
<1>3. IInv => QueriesAgree
  BY QueriesAnswered
<1> QED BY <1>1, <1>2, <1>3, PTL DEF Spec

\* The ring of slots with u16 sequence numbers implements the window over
\* unbounded identities.
THEOREM BufferImplementsWindow ==
  ASSUME Commensurate
  PROVE  Spec => ImplementsSlidingWindow
<1>1. Init => IInv /\ Window!Init
  BY InitHolds
<1>2. IInv /\ [Next]_vars => IInv'
  BY NextHolds, StutterHolds
<1>3. IInv /\ [Next]_vars => [Window!Next]_<<next, Occupants>>
  BY NextHolds, StutterHolds
<1> QED BY <1>1, <1>2, <1>3, PTL DEF Spec, ImplementsSlidingWindow, Window!Spec
=============================================================================
