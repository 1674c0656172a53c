---------------------------- MODULE WindowBuffer ----------------------------
(***************************************************************************)
(* One sequence buffer under every sequence of calls its users can make,   *)
(* with the unbounded identity behind each u16 sequence number kept as a   *)
(* ghost: `next` counts identities, and the entry inserted for identity id *)
(* carries id as its data.  The buffer implements SlidingWindow as long as *)
(* its size divides the modulus and callers stay within reach.             *)
(*                                                                         *)
(* The two insert variants disagree on far-away numbers, so each has a     *)
(* reach of its own: `insert` (stale check first) is right for identities  *)
(* in next-N-HALF+1 .. next+HALF-N-1, `insert_advance_first` and `advance` *)
(* for those in next-HALF .. next+HALF-2 (both ranges are exact).          *)
(***************************************************************************)
EXTENDS SequenceBuffer

CONSTANT MaxNext   \* bound on the number of identities a behaviour uses

VARIABLES buffer, next

vars == <<buffer, next>>

Seq16(id) == id % SequenceModulus

\* The identities for which insert decides correctly.
InsertReach ==
  next - NumEntries - HalfModulus + 1 .. next + HalfModulus - NumEntries - 1

\* The identities for which the advancing comparison decides correctly.
AdvanceReach == next - HalfModulus .. next + HalfModulus - 2

Seen(id) == next' = IF id >= next THEN id + 1 ELSE next

Init == buffer = New /\ next = 0

DoInsert(id) ==
  /\ CanInsert(buffer, Seq16(id))
  /\ buffer' = Insert(buffer, Seq16(id), id)
  /\ Seen(id)

DoInsertAdvanceFirst(id) ==
  /\ CanInsertAdvanceFirst(buffer, Seq16(id))
  /\ buffer' = InsertAdvanceFirst(buffer, Seq16(id), id)
  /\ Seen(id)

DoAdvance(id) == buffer' = Advance(buffer, Seq16(id)) /\ Seen(id)

\* Users remove only what they found or inserted, which is in the window.
DoRemove(id) == buffer' = Remove(buffer, Seq16(id)) /\ UNCHANGED next

Next ==
  \/ \E id \in InsertReach : id < MaxNext /\ DoInsert(id)
  \/ \E id \in AdvanceReach :
       id < MaxNext /\ (DoInsertAdvanceFirst(id) \/ DoAdvance(id))
  \/ \E id \in next - NumEntries .. next - 1 : DoRemove(id)

Spec == Init /\ [][Next]_vars

-----------------------------------------------------------------------------
\* The data kept for the occupied slots: the identities remembered.
Occupants ==
  {buffer.entries[i] : i \in {j \in Index : buffer.entry_sequence[j] # None}}

Window == INSTANCE SlidingWindow
            WITH Size <- NumEntries, present <- Occupants,
                 Past <- NumEntries + HalfModulus, Future <- HalfModulus

\* The ring of slots with u16 sequence numbers behaves as the window over
\* unbounded identities: nothing inside the window is evicted or forgotten and
\* nothing outside it survives, across any number of wrap-arounds.
ImplementsSlidingWindow == Window!Spec

\* The answers of can_insert, exists, the advance test and generate_ack_bits, in
\* u16 arithmetic, are the answers about the identities behind the numbers.
QueriesAgree ==
  /\ \A id \in InsertReach :
       CanInsert(buffer, Seq16(id)) <=> id >= next - NumEntries
  /\ \A id \in AdvanceReach :
       /\ Advances(buffer, Seq16(id)) <=> id >= next
       /\ Exists(buffer, Seq16(id)) <=> id \in Occupants
  /\ AckOf(buffer) = Seq16(next - 1)
  /\ \A bits \in 1 .. HalfModulus :
       GenerateAckBits(buffer, bits) = {i \in 0 .. bits - 1 : next - 1 - i \in Occupants}
=============================================================================
