------------------------ MODULE SequenceBufferProofs ------------------------
(***************************************************************************)
(* What the operators of SequenceBuffer return, for every modulus, size    *)
(* and kind of entry.  EndpointProofs instantiates these lemmas for the    *)
(* three buffers of an endpoint.                                           *)
(***************************************************************************)
EXTENDS SequenceBuffer, TLAPS

\* Where a window at sequence number q stands once it has seen s.
Moved(q, s) == IF SequenceGreaterThan(WrapAdd(s, 1), q) THEN WrapAdd(s, 1) ELSE q

\* Every slot of buffer c is empty or as in buffer b.
HoldsNoMore(c, b) ==
  \A i \in Index : \/ c.entry_sequence[i] = None /\ c.entries[i] = Default
                   \/ /\ c.entry_sequence[i] = b.entry_sequence[i]
                      /\ c.entries[i] = b.entries[i]

\* Wrapping arithmetic stays among the sequence numbers (u16 arithmetic).
LEMMA WrapType ==
  /\ \A s, n \in Nat : WrapAdd(s, n) \in SequenceNumber
  /\ \A s, n \in Nat : WrapSub(s, n) \in SequenceNumber
BY SequenceModulusAssumption DEF WrapAdd, WrapSub, SequenceNumber

\* Every sequence number has a slot (the index of insert, find and remove).
LEMMA SlotType == \A s \in Nat : Slot(s) \in Index
BY NumEntriesAssumption DEF Slot, Index

\* The size, cut to the width of a sequence number, is a natural number.
LEMMA OldestType ==
  ASSUME NEW Data, NEW b \in BufferOf(Data)
  PROVE  Oldest(b) \in SequenceNumber
<1>1. NumEntries % SequenceModulus \in Nat
  BY NumEntriesAssumption, SequenceModulusAssumption
<1>2. b.sequence \in Nat
  BY SequenceModulusAssumption DEF BufferOf, SequenceNumber
<1> QED BY <1>1, <1>2, WrapType DEF Oldest

\* new and reset give an empty buffer at sequence number 0.
LEMMA NewType ==
  ASSUME NEW Data, Default \in Data
  PROVE  /\ New \in BufferOf(Data)
         /\ New.sequence = 0
         /\ \A i \in Index : New.entry_sequence[i] = None /\ New.entries[i] = Default
BY SequenceModulusAssumption DEF New, BufferOf, SequenceNumber

\* advance moves the window to Moved and only ever empties slots.
LEMMA AdvanceType ==
  ASSUME NEW Data, Default \in Data, NEW b \in BufferOf(Data),
         NEW s \in SequenceNumber
  PROVE  /\ Advance(b, s) \in BufferOf(Data)
         /\ Advance(b, s).sequence = Moved(b.sequence, s)
         /\ HoldsNoMore(Advance(b, s), b)
<1> DEFINE cleared == RemoveEntries(b, b.sequence, s)
           moved == [cleared EXCEPT !.sequence = WrapAdd(s, 1)]
<1>1. cleared \in BufferOf(Data) /\ HoldsNoMore(cleared, b)
  BY DEF BufferOf, RemoveEntries, HoldsNoMore
<1>2. WrapAdd(s, 1) \in SequenceNumber
  BY WrapType DEF SequenceNumber
<1>3. /\ moved \in BufferOf(Data)
      /\ moved.sequence = WrapAdd(s, 1)
      /\ moved.entry_sequence = cleared.entry_sequence
      /\ moved.entries = cleared.entries
  <2> HIDE DEF cleared
  <2> QED BY <1>1, <1>2 DEF BufferOf
<1>4. HoldsNoMore(moved, b)
  <2> HIDE DEF cleared, moved
  <2> QED BY <1>1, <1>3 DEF HoldsNoMore
<1>5. HoldsNoMore(b, b)
  BY DEF HoldsNoMore
<1> QED BY <1>3, <1>4, <1>5 DEF Advance, Moved, Advances

\* Buffer b with slot holding sequence number q (or None) and data.
Written(b, slot, q, data) ==
  [b EXCEPT !.entry_sequence[slot] = q, !.entries[slot] = data]

\* Writing a slot leaves the window and the other slots alone.
LEMMA WriteSlot ==
  ASSUME NEW Data, NEW b \in BufferOf(Data), NEW slot \in Index,
         NEW q, q \in SequenceNumber \/ q = None, NEW data \in Data
  PROVE  /\ Written(b, slot, q, data) \in BufferOf(Data)
         /\ Written(b, slot, q, data).sequence = b.sequence
         /\ Written(b, slot, q, data).entry_sequence = [b.entry_sequence EXCEPT ![slot] = q]
         /\ Written(b, slot, q, data).entries = [b.entries EXCEPT ![slot] = data]
         /\ DOMAIN b.entry_sequence = Index
         /\ DOMAIN b.entries = Index
BY DEF BufferOf, Written

\* Filling the slot of s.
LEMMA FillType ==
  ASSUME NEW Data, NEW b \in BufferOf(Data), NEW s \in SequenceNumber,
         NEW data \in Data
  PROVE  /\ Fill(b, s, data) \in BufferOf(Data)
         /\ Fill(b, s, data).sequence = b.sequence
         /\ Fill(b, s, data).entry_sequence[Slot(s)] = s
         /\ Fill(b, s, data).entries[Slot(s)] = data
         /\ \A i \in Index \ {Slot(s)} :
              /\ Fill(b, s, data).entry_sequence[i] = b.entry_sequence[i]
              /\ Fill(b, s, data).entries[i] = b.entries[i]
<1> DEFINE c == Written(b, Slot(s), s, data)
<1>1. Slot(s) \in Index
  BY SlotType DEF SequenceNumber
<1>2. /\ c \in BufferOf(Data)
      /\ c.sequence = b.sequence
      /\ c.entry_sequence = [b.entry_sequence EXCEPT ![Slot(s)] = s]
      /\ c.entries = [b.entries EXCEPT ![Slot(s)] = data]
      /\ DOMAIN b.entry_sequence = Index
      /\ DOMAIN b.entries = Index
  BY <1>1, WriteSlot
<1>3. Fill(b, s, data) = c
  BY DEF Fill, Written
<1> HIDE DEF c
<1> QED BY <1>1, <1>2, <1>3

\* insert, once the stale check has passed: advance, then fill.
LEMMA InsertType ==
  ASSUME NEW Data, Default \in Data, NEW b \in BufferOf(Data),
         NEW s \in SequenceNumber, NEW data \in Data
  PROVE  /\ Insert(b, s, data) \in BufferOf(Data)
         /\ Insert(b, s, data).sequence = Moved(b.sequence, s)
         /\ Insert(b, s, data).entry_sequence[Slot(s)] = s
         /\ Insert(b, s, data).entries[Slot(s)] = data
         /\ \A i \in Index \ {Slot(s)} :
              \/ /\ Insert(b, s, data).entry_sequence[i] = None
                 /\ Insert(b, s, data).entries[i] = Default
              \/ /\ Insert(b, s, data).entry_sequence[i] = b.entry_sequence[i]
                 /\ Insert(b, s, data).entries[i] = b.entries[i]
<1>1. /\ Advance(b, s) \in BufferOf(Data)
      /\ Advance(b, s).sequence = Moved(b.sequence, s)
      /\ HoldsNoMore(Advance(b, s), b)
  BY AdvanceType
<1>2. Insert(b, s, data) = Fill(Advance(b, s), s, data)
  BY DEF Insert
<1> QED BY <1>1, <1>2, FillType DEF HoldsNoMore

\* find_mut followed by a write changes one entry and no sequence number.
LEMMA UpdateType ==
  ASSUME NEW Data, NEW b \in BufferOf(Data), NEW s \in SequenceNumber,
         NEW data \in Data
  PROVE  /\ Update(b, s, data) \in BufferOf(Data)
         /\ Update(b, s, data).sequence = b.sequence
         /\ Update(b, s, data).entry_sequence = b.entry_sequence
         /\ Update(b, s, data).entries[Slot(s)] = data
         /\ \A i \in Index \ {Slot(s)} : Update(b, s, data).entries[i] = b.entries[i]
BY SlotType DEF BufferOf, Update, SequenceNumber

\* remove empties one slot, and leaves the entry of an empty one as it is.
LEMMA RemoveType ==
  ASSUME NEW Data, Default \in Data, NEW b \in BufferOf(Data),
         NEW s \in SequenceNumber
  PROVE  /\ Remove(b, s) \in BufferOf(Data)
         /\ Remove(b, s).sequence = b.sequence
         /\ Remove(b, s).entry_sequence[Slot(s)] = None
         /\ HoldsNoMore(Remove(b, s), b)
<1> DEFINE c == Written(b, Slot(s), None, Default)
<1>1. Slot(s) \in Index
  BY SlotType DEF SequenceNumber
<1>2. /\ c \in BufferOf(Data)
      /\ c.sequence = b.sequence
      /\ c.entry_sequence = [b.entry_sequence EXCEPT ![Slot(s)] = None]
      /\ c.entries = [b.entries EXCEPT ![Slot(s)] = Default]
      /\ DOMAIN b.entry_sequence = Index
      /\ DOMAIN b.entries = Index
  BY <1>1, WriteSlot
<1>3. CASE b.entry_sequence[Slot(s)] = None
  <2>1. Remove(b, s) = b
    BY <1>3 DEF Remove
  <2> QED BY <1>3, <2>1 DEF HoldsNoMore
<1>4. CASE b.entry_sequence[Slot(s)] # None
  <2>1. Remove(b, s) = c
    BY <1>4 DEF Remove, Written
  <2> HIDE DEF c
  <2> QED BY <1>1, <1>2, <2>1 DEF HoldsNoMore
<1> QED BY <1>3, <1>4
-----------------------------------------------------------------------------
(* Remainders.  Sequence numbers and slots are the remainders of identities *)
(* that never wrap; these lemmas say how far a remainder determines its     *)
(* number.                                                                  *)

\* Division with remainder.
LEMMA Division ==
  ASSUME NEW a \in Int, NEW m \in Nat \ {0}
  PROVE  /\ a % m \in 0 .. m - 1
         /\ a \div m \in Int
         /\ a = m * (a \div m) + (a % m)
OBVIOUS

\* The only multiple of m closer than m to zero is zero.
LEMMA Multiple ==
  ASSUME NEW m \in Nat \ {0}, NEW k \in Int, m * k > -m, m * k < m
  PROVE  k = 0
<1>1. CASE k >= 1
  <2>1. m * k >= m
    BY <1>1
  <2> QED BY <2>1
<1>2. CASE k <= -1
  <2>1. m * k <= -m
    BY <1>2
  <2> QED BY <2>1
<1> QED BY <1>1, <1>2

\* A quotient and a remainder in range determine a % m.
LEMMA Remainder ==
  ASSUME NEW a \in Int, NEW m \in Nat \ {0}, NEW k \in Int, NEW r \in 0 .. m - 1,
         a = m * k + r
  PROVE  a % m = r
<1> DEFINE q == a \div m
<1>1. a % m \in 0 .. m - 1 /\ q \in Int /\ a = m * q + (a % m)
  BY Division
<1> HIDE DEF q
<1>2. m * (k - q) = (a % m) - r
  BY <1>1
<1>3. k - q = 0
  BY <1>1, <1>2, Multiple
<1> QED BY <1>1, <1>3

\* Adding a multiple of m leaves the remainder.
LEMMA Congruent ==
  ASSUME NEW a \in Int, NEW m \in Nat \ {0}, NEW k \in Int
  PROVE  (a + m * k) % m = a % m
<1> DEFINE q == a \div m
           r == a % m
<1>1. r \in 0 .. m - 1 /\ q \in Int /\ a = m * q + r
  BY Division
<1> HIDE DEF q, r
<1>2. a + m * k = m * (q + k) + r
  BY <1>1
<1>3. (a + m * k) % m = r
  <2> DEFINE x == a + m * k
             j == q + k
  <2>1. x \in Int /\ j \in Int /\ x = m * j + r
    BY <1>1, <1>2
  <2> HIDE DEF x, j
  <2>2. x % m = r
    BY <1>1, <2>1, Remainder
  <2> QED BY <2>2 DEF x
<1> QED BY <1>3 DEF r

\* Two numbers less than m apart with the same remainder are equal.
LEMMA Apart ==
  ASSUME NEW m \in Nat \ {0}, NEW a \in Int, NEW b \in Int,
         a - b > -m, a - b < m, a % m = b % m
  PROVE  a = b
<1> DEFINE p == a \div m
           q == b \div m
<1>1. p \in Int /\ a = m * p + (a % m) /\ q \in Int /\ b = m * q + (b % m)
  BY Division
<1> HIDE DEF p, q
<1>3. a % m \in Int
  BY Division
<1>2. m * (p - q) = a - b
  BY <1>1, <1>3
<1>4. p - q = 0
  BY <1>1, <1>2, Multiple
<1> QED BY <1>1, <1>4

\* A sum may be reduced before or after the addition.
LEMMA AddRemainder ==
  ASSUME NEW m \in Nat \ {0}, NEW a \in Int, NEW n \in Int
  PROVE  ((a % m) + n) % m = (a + n) % m
<1> DEFINE q == a \div m
           r == a % m
<1>1. r \in Int /\ q \in Int /\ a = m * q + r
  BY Division
<1> HIDE DEF q, r
<1>2. a + n = (r + n) + m * q
  BY <1>1
<1>3. ((r + n) + m * q) % m = (r + n) % m
  <2> DEFINE x == r + n
  <2>1. x \in Int
    BY <1>1
  <2> HIDE DEF x
  <2>2. (x + m * q) % m = x % m
    BY <1>1, <2>1, Congruent
  <2> QED BY <2>2 DEF x
<1> QED BY <1>2, <1>3 DEF r

\* Reducing by m first does not matter to a divisor n of m: the slot of an
\* identity is the slot of its number.
LEMMA RemainderOfRemainder ==
  ASSUME NEW m \in Nat \ {0}, NEW n \in Nat \ {0}, m % n = 0, NEW a \in Int
  PROVE  (a % m) % n = a % n
<1> DEFINE q == a \div m
           r == a % m
           k == m \div n
<1>1. r \in Int /\ q \in Int /\ a = m * q + r
  BY Division
<1>2. k \in Int /\ m = n * k + 0
  BY Division
<1> HIDE DEF q, r, k
<1>3. a = r + n * (k * q)
  BY <1>1, <1>2
<1>4. k * q \in Int
  BY <1>1, <1>2
<1> DEFINE j == k * q
<1> HIDE DEF j
<1>5. (r + n * j) % n = r % n
  BY <1>1, <1>4, Congruent DEF j
<1> QED BY <1>3, <1>5 DEF r, j

\* The difference of two remainders is that of their numbers, up to one modulus.
LEMMA Difference ==
  ASSUME NEW m \in Nat \ {0}, NEW a \in Int, NEW b \in Int, a - b > -m, a - b < m
  PROVE  (a % m) - (b % m) \in {a - b, a - b - m, a - b + m}
<1> DEFINE p == a \div m
           q == b \div m
           j == p - q
<1>1. p \in Int /\ a = m * p + (a % m) /\ q \in Int /\ b = m * q + (b % m)
  BY Division
<1>3. a % m \in 0 .. m - 1 /\ b % m \in 0 .. m - 1
  BY Division
<1> HIDE DEF p, q
<1>2. m * j = (a - b) - ((a % m) - (b % m))
  BY <1>1, <1>3
<1>4. j \in Int
  BY <1>1
<1> HIDE DEF j
<1>5. j < 2
  <2>1. CASE j >= 2
    <3>1. m * j >= m * 2
      BY <2>1, <1>4
    <3> QED BY <3>1, <1>2, <1>3
  <2> QED BY <2>1, <1>4
<1>6. j > -2
  <2>1. CASE j <= -2
    <3>1. m * j <= m * (-2)
      BY <2>1, <1>4
    <3> QED BY <3>1, <1>2, <1>3
  <2> QED BY <2>1, <1>4
<1>7. j \in {-1, 0, 1}
  BY <1>4, <1>5, <1>6
<1>8. m * j \in {-m, 0, m}
  BY <1>7
<1> QED BY <1>2, <1>3, <1>8

-----------------------------------------------------------------------------
(* Buffers and the identities behind their sequence numbers *)

\* The sequence number of the packet with identity id.
NumberOf(id) == id % SequenceModulus

\* What the default sizes satisfy: slots do not jump when the numbers wrap, and
\* the window is no longer than the numbers it can compare.
Commensurate == SequenceModulus % NumEntries = 0 /\ NumEntries <= HalfModulus

\* Buffer b has its window at identity n and remembers the identities ids.
Keeps(b, n, ids) ==
  /\ b.sequence = NumberOf(n)
  /\ ids \subseteq n - NumEntries .. n - 1
  /\ \A id \in ids : b.entry_sequence[Slot(id)] = NumberOf(id)
  /\ \A i \in Index : b.entry_sequence[i] # None => \E id \in ids : Slot(id) = i

\* The modulus is twice its half.
LEMMA HalfType == HalfModulus \in Nat \ {0} /\ SequenceModulus = 2 * HalfModulus
BY SequenceModulusAssumption DEF HalfModulus

\* Identities have a number and a slot.
LEMMA NumberType ==
  ASSUME NEW id \in Int
  PROVE  NumberOf(id) \in SequenceNumber /\ Slot(id) \in Index
BY SequenceModulusAssumption, NumEntriesAssumption, Division
   DEF NumberOf, SequenceNumber, Slot, Index

\* Adding to a number is adding to its identity.
LEMMA WrapNumber ==
  ASSUME NEW id \in Int, NEW k \in Int
  PROVE  /\ WrapAdd(NumberOf(id), k) = NumberOf(id + k)
         /\ WrapSub(NumberOf(id), k) = NumberOf(id - k)
<1>1. (NumberOf(id) + k) % SequenceModulus = (id + k) % SequenceModulus
  BY SequenceModulusAssumption, AddRemainder DEF NumberOf
<1>2. -k \in Int
  OBVIOUS
<1>3. (NumberOf(id) + (-k)) % SequenceModulus = (id + (-k)) % SequenceModulus
  BY <1>2, SequenceModulusAssumption, AddRemainder DEF NumberOf
<1>4. NumberOf(id) \in Int
  BY NumberType DEF SequenceNumber
<1>5. NumberOf(id) + (-k) = NumberOf(id) - k /\ id + (-k) = id - k
  BY <1>4
<1> QED BY <1>1, <1>3, <1>5 DEF WrapAdd, WrapSub, NumberOf

\* Less than half the numbers apart, the comparison of numbers is that of the
\* identities.
LEMMA GreaterNumber ==
  ASSUME NEW a \in Int, NEW b \in Int, a - b > -HalfModulus, a - b < HalfModulus
  PROVE  SequenceGreaterThan(NumberOf(a), NumberOf(b)) <=> a > b
<1>1. HalfModulus \in Nat \ {0} /\ SequenceModulus = 2 * HalfModulus
  BY HalfType
<1> DEFINE x == NumberOf(a)
           y == NumberOf(b)
<1>2. SequenceModulus \in Nat \ {0} /\ a - b > -SequenceModulus /\ a - b < SequenceModulus
  BY <1>1
<1>3. x - y \in {a - b, a - b - SequenceModulus, a - b + SequenceModulus}
  BY <1>2, Difference DEF NumberOf
<1>4. x \in 0 .. SequenceModulus - 1 /\ y \in 0 .. SequenceModulus - 1
  BY NumberType DEF SequenceNumber
<1> HIDE DEF x, y
<1> SUFFICES SequenceGreaterThan(x, y) <=> (a > b)
  BY DEF x, y
<1>5. ((x > y /\ x - y <= HalfModulus) \/ (x < y /\ y - x > HalfModulus)) <=> (a > b)
  BY <1>1, <1>3, <1>4
<1> QED BY <1>5 DEF SequenceGreaterThan

\* The slot of an identity is the slot of its number.
LEMMA SlotOfNumber ==
  ASSUME Commensurate, NEW id \in Int
  PROVE  Slot(NumberOf(id)) = Slot(id)
BY SequenceModulusAssumption, NumEntriesAssumption, RemainderOfRemainder
   DEF Commensurate, Slot, NumberOf

\* Two identities of one window have different slots.
LEMMA SlotsDiffer ==
  ASSUME NEW a \in Int, NEW b \in Int, a - b > -NumEntries, a - b < NumEntries,
         Slot(a) = Slot(b)
  PROVE  a = b
BY NumEntriesAssumption, Apart DEF Slot

\* The advance test is about identities, within its reach.
LEMMA AdvancesNumber ==
  ASSUME NEW b, NEW n \in Int, b.sequence = NumberOf(n),
         NEW id \in n - HalfModulus .. n + HalfModulus - 2
  PROVE  /\ Advances(b, NumberOf(id)) <=> id >= n
         /\ WrapAdd(NumberOf(id), 1) = NumberOf(id + 1)
<1>1. HalfModulus \in Nat \ {0}
  BY HalfType
<1>2. id \in Int /\ WrapAdd(NumberOf(id), 1) = NumberOf(id + 1)
  BY <1>1, WrapNumber
<1>3. SequenceGreaterThan(NumberOf(id + 1), NumberOf(n)) <=> id + 1 > n
  <2> DEFINE j == id + 1
  <2>1. j \in Int /\ j - n > -HalfModulus /\ j - n < HalfModulus
    BY <1>1
  <2> HIDE DEF j
  <2>2. SequenceGreaterThan(NumberOf(j), NumberOf(n)) <=> j > n
    BY <2>1, GreaterNumber
  <2> QED BY <2>2 DEF j
<1>4. id + 1 > n <=> id >= n
  BY <1>2
<1> QED BY <1>2, <1>3, <1>4 DEF Advances

\* So is the stale check, within its own.
LEMMA CanInsertNumber ==
  ASSUME NEW b, NEW n \in Int, b.sequence = NumberOf(n), NumEntries <= HalfModulus,
         NEW id \in n - NumEntries - HalfModulus + 1 .. n + HalfModulus - NumEntries - 1
  PROVE  CanInsert(b, NumberOf(id)) <=> id >= n - NumEntries
<1> DEFINE oldest == n - NumEntries
<1>1. HalfModulus \in Nat \ {0} /\ SequenceModulus = 2 * HalfModulus
  BY HalfType
<1>2. NumEntries \in Nat /\ NumEntries % SequenceModulus = NumEntries
  BY <1>1, NumEntriesAssumption, SequenceModulusAssumption
<1>3. Oldest(b) = NumberOf(oldest)
  BY <1>2, WrapNumber DEF Oldest
<1>4. /\ oldest \in Int /\ id \in Int
      /\ oldest - id > -HalfModulus /\ oldest - id < HalfModulus
  BY <1>1, <1>2
<1> HIDE DEF oldest
<1>5. SequenceGreaterThan(NumberOf(oldest), NumberOf(id)) <=> oldest > id
  BY <1>4, GreaterNumber
<1>6. CanInsert(b, NumberOf(id)) <=> id >= oldest
  BY <1>3, <1>4, <1>5 DEF CanInsert, SequenceLessThan
<1> QED BY <1>6 DEF oldest

\* What remove_entries empties when the window moves from n past id: the slots
\* of the identities that fall out of it.
LEMMA RemovedSlotsNumber ==
  ASSUME Commensurate, NEW n \in Int, NEW id \in n .. n + SequenceModulus - 1,
         NEW o \in n - NumEntries .. n - 1
  PROVE  (Slot(o) \in RemovedSlots(NumberOf(n), NumberOf(id))) <=> (o < id + 1 - NumEntries)
<1> DEFINE start == NumberOf(n)
           finish == NumberOf(id)
           last == IF finish < start THEN finish + SequenceModulus ELSE finish
<1>1. HalfModulus \in Nat \ {0} /\ SequenceModulus = 2 * HalfModulus /\ NumEntries \in Nat \ {0}
  BY HalfType, NumEntriesAssumption
<1>2. start \in 0 .. SequenceModulus - 1 /\ finish \in 0 .. SequenceModulus - 1
  BY NumberType, <1>1 DEF SequenceNumber
<1>3. finish - start \in {id - n, id - n - SequenceModulus, id - n + SequenceModulus}
  <2>1. /\ SequenceModulus \in Nat \ {0} /\ id \in Int
        /\ id - n > -SequenceModulus /\ id - n < SequenceModulus
    BY <1>1
  <2> QED BY <2>1, Difference DEF NumberOf
<1> HIDE DEF start, finish
<1>4. last = start + (id - n) /\ last \in Int
  BY <1>1, <1>2, <1>3
<1>5. id - n \in Nat /\ o \in Int /\ id \in Int
  BY <1>1
<1>6. RemovedSlots(start, finish) = IF last - start < NumEntries
                                    THEN {Slot(q) : q \in start .. last} ELSE Index
  BY DEF RemovedSlots
<1> HIDE DEF last
\* The slots counted from a number are those counted from its identity.
<1>7. ASSUME NEW j \in Int
      PROVE  Slot(start + j) = Slot(n + j)
  <2>1. Slot(start) = Slot(n) /\ start \in Int
    BY <1>2, SlotOfNumber DEF start
  <2>2. (Slot(start) + j) % NumEntries = Slot(start + j)
    BY <1>1, <2>1, AddRemainder DEF Slot
  <2>3. (Slot(n) + j) % NumEntries = Slot(n + j)
    BY <1>1, AddRemainder DEF Slot
  <2> QED BY <2>1, <2>2, <2>3
<1>8. Slot(o + NumEntries) = Slot(o) /\ Slot(o) \in Index
  <2> DEFINE k == 1
  <2>2. k \in Int /\ o + NumEntries * k = o + NumEntries
    BY <1>1, <1>5
  <2> HIDE DEF k
  <2>1. (o + NumEntries * k) % NumEntries = o % NumEntries
    BY <1>1, <1>5, <2>2, Congruent
  <2> QED BY <1>5, <2>1, <2>2, NumberType DEF Slot
<1>9. CASE last - start < NumEntries
  <2>1. ASSUME NEW q \in start .. last, Slot(o) = Slot(q)
        PROVE  o < id + 1 - NumEntries
    <3> DEFINE j == q - start
               p == n + j
               u == o + NumEntries
    <3>1. j \in 0 .. id - n /\ q = start + j
      BY <1>2, <1>4
    <3>2. Slot(u) = Slot(p)
      BY <1>7, <1>8, <2>1, <3>1
    <3>3. u \in Int /\ p \in Int /\ u - p > -NumEntries /\ u - p < NumEntries /\ p <= id
      BY <1>1, <1>2, <1>4, <1>5, <1>9, <3>1
    <3> HIDE DEF u, p
    <3>4. u = p
      BY <3>2, <3>3, SlotsDiffer
    <3> QED BY <1>1, <1>5, <3>3, <3>4 DEF u
  <2>2. ASSUME o < id + 1 - NumEntries
        PROVE  \E q \in start .. last : Slot(o) = Slot(q)
    <3> DEFINE j == o + NumEntries - n
    <3>1. j \in 0 .. id - n /\ n + j = o + NumEntries
      BY <1>1, <1>5, <2>2
    <3>2. start + j \in start .. last
      BY <1>2, <1>4, <3>1
    <3>3. Slot(o) = Slot(start + j)
      BY <1>7, <1>8, <3>1
    <3> QED BY <3>2, <3>3
  <2>3. (Slot(o) \in {Slot(q) : q \in start .. last}) <=> (\E q \in start .. last : Slot(o) = Slot(q))
    OBVIOUS
  <2>4. RemovedSlots(start, finish) = {Slot(q) : q \in start .. last}
    BY <1>6, <1>9
  <2>5. (Slot(o) \in RemovedSlots(start, finish)) <=> (o < id + 1 - NumEntries)
    BY <2>1, <2>2, <2>3, <2>4
  <2> QED BY <2>5 DEF start, finish
<1>10. CASE ~(last - start < NumEntries)
  <2>1. RemovedSlots(start, finish) = Index
    BY <1>6, <1>10
  <2>2. o < id + 1 - NumEntries
    BY <1>1, <1>2, <1>4, <1>5, <1>10
  <2> QED BY <1>8, <2>1, <2>2 DEF start, finish
<1> QED BY <1>9, <1>10

\* The slots remove_entries leaves alone, exactly.
LEMMA AdvanceExact ==
  ASSUME NEW Data, Default \in Data, NEW b \in BufferOf(Data), NEW s, Advances(b, s)
  PROVE  /\ Advance(b, s).sequence = WrapAdd(s, 1)
         /\ \A i \in Index :
              IF i \in RemovedSlots(b.sequence, s)
              THEN Advance(b, s).entry_sequence[i] = None
              ELSE /\ Advance(b, s).entry_sequence[i] = b.entry_sequence[i]
                   /\ Advance(b, s).entries[i] = b.entries[i]
<1> DEFINE cleared == RemoveEntries(b, b.sequence, s)
           removed == RemovedSlots(b.sequence, s)
<1>1. /\ cleared.entry_sequence = [i \in Index |-> IF i \in removed THEN None ELSE b.entry_sequence[i]]
      /\ cleared.entries = [i \in Index |-> IF i \in removed THEN Default ELSE b.entries[i]]
      /\ cleared \in BufferOf(Data)
  BY DEF BufferOf, RemoveEntries
<1>2. Advance(b, s) = [cleared EXCEPT !.sequence = WrapAdd(s, 1)]
  BY DEF Advance
<1> HIDE DEF cleared
<1>3. /\ Advance(b, s).sequence = WrapAdd(s, 1)
      /\ Advance(b, s).entry_sequence = cleared.entry_sequence
      /\ Advance(b, s).entries = cleared.entries
  BY <1>1, <1>2 DEF BufferOf
<1> QED BY <1>1, <1>3

\* Moving the window to id + 1 forgets the identities that fall out of it, and no
\* other.
LEMMA MoveKeeps ==
  ASSUME Commensurate, NEW Data, Default \in Data, NEW b \in BufferOf(Data),
         NEW n \in Int, NEW ids, Keeps(b, n, ids),
         NEW id \in n .. n + SequenceModulus - 1, Advances(b, NumberOf(id)),
         NEW m, m = id + 1
  PROVE  LET c == Advance(b, NumberOf(id))
             kept == {p \in ids : p >= m - NumEntries}
         IN  /\ Keeps(c, m, kept)
             /\ \A p \in kept : c.entries[Slot(p)] = b.entries[Slot(p)]
<1> DEFINE c == Advance(b, NumberOf(id))
           kept == {p \in ids : p >= m - NumEntries}
           removed == RemovedSlots(NumberOf(n), NumberOf(id))
<1>1. /\ SequenceModulus \in Nat \ {0} /\ NumEntries \in Nat \ {0} /\ id \in Int /\ id >= n
      /\ ids \subseteq Int /\ \A p \in ids : p >= n - NumEntries /\ p <= n - 1
  BY SequenceModulusAssumption, NumEntriesAssumption DEF Keeps
<1>2. WrapAdd(NumberOf(id), 1) = NumberOf(m)
  BY <1>1, WrapNumber
<1>3. /\ c.sequence = NumberOf(m)
      /\ \A i \in Index :
           IF i \in removed
           THEN c.entry_sequence[i] = None
           ELSE c.entry_sequence[i] = b.entry_sequence[i] /\ c.entries[i] = b.entries[i]
  BY <1>2, AdvanceExact DEF Keeps
<1>4. ASSUME NEW p \in ids
      PROVE  Slot(p) \in Index /\ ((Slot(p) \in removed) <=> (p < m - NumEntries))
  <2>1. p \in n - NumEntries .. n - 1
    BY DEF Keeps
  <2>2. (Slot(p) \in removed) <=> (p < id + 1 - NumEntries)
    BY <2>1, RemovedSlotsNumber
  <2> QED BY <1>1, <2>2, NumberType
<1> HIDE DEF c, removed
<1>5. kept \subseteq m - NumEntries .. m - 1
  <2>1. ASSUME NEW p \in kept
        PROVE  p \in m - NumEntries .. m - 1
    <3>1. p \in Int /\ p >= m - NumEntries /\ p <= n - 1
      BY <1>1
    <3> QED BY <1>1, <3>1
  <2> QED BY <2>1
<1>6. ASSUME NEW p \in kept
      PROVE  c.entry_sequence[Slot(p)] = NumberOf(p) /\ c.entries[Slot(p)] = b.entries[Slot(p)]
  <2>1. p \in ids /\ p \in Int /\ p >= m - NumEntries
    BY <1>1
  <2>2. Slot(p) \notin removed /\ Slot(p) \in Index
    BY <1>1, <1>4, <2>1
  <2>3. b.entry_sequence[Slot(p)] = NumberOf(p)
    BY <2>1 DEF Keeps
  <2> QED BY <1>3, <2>2, <2>3
<1>7. ASSUME NEW i \in Index, c.entry_sequence[i] # None
      PROVE  \E p \in kept : Slot(p) = i
  <2>1. i \notin removed /\ b.entry_sequence[i] # None
    BY <1>3, <1>7
  <2>2. PICK p \in ids : Slot(p) = i
    BY <2>1 DEF Keeps
  <2>3. p \in kept
    BY <1>1, <1>4, <2>1, <2>2
  <2> QED BY <2>2, <2>3
<1>8. Keeps(c, m, kept)
  <2> HIDE DEF kept
  <2> QED BY <1>3, <1>5, <1>6, <1>7 DEF Keeps
<1>9. \A p \in kept : c.entries[Slot(p)] = b.entries[Slot(p)]
  BY <1>6
<1> QED BY <1>8, <1>9 DEF c

\* Where a window at n stands once identity id has been seen, and what is left
\* of the identities `ids` in a window at m.
Reached(n, id) == IF id >= n THEN id + 1 ELSE n

Kept(ids, m) == {p \in ids : p >= m - NumEntries}

\* advance, for any identity within the reach of its comparison.
LEMMA AdvanceKeeps ==
  ASSUME Commensurate, NEW Data, Default \in Data, NEW b \in BufferOf(Data),
         NEW n \in Int, NEW ids, Keeps(b, n, ids),
         NEW id \in n - HalfModulus .. n + HalfModulus - 2,
         NEW m, m = Reached(n, id)
  PROVE  /\ Advance(b, NumberOf(id)) \in BufferOf(Data)
         /\ Keeps(Advance(b, NumberOf(id)), m, Kept(ids, m))
         /\ \A p \in Kept(ids, m) :
              Advance(b, NumberOf(id)).entries[Slot(p)] = b.entries[Slot(p)]
<1> DEFINE c == Advance(b, NumberOf(id))
           kept == {p \in ids : p >= m - NumEntries}
<1>1. /\ HalfModulus \in Nat \ {0} /\ SequenceModulus = 2 * HalfModulus
      /\ NumEntries \in Nat \ {0} /\ id \in Int
      /\ ids \subseteq Int /\ \A p \in ids : p >= n - NumEntries /\ p <= n - 1
  BY HalfType, NumEntriesAssumption DEF Keeps
<1>2. NumberOf(id) \in SequenceNumber
  BY <1>1, NumberType
<1>3. c \in BufferOf(Data)
  BY <1>2, AdvanceType
<1>4. Advances(b, NumberOf(id)) <=> id >= n
  BY AdvancesNumber DEF Keeps
<1> SUFFICES /\ Keeps(c, m, kept)
             /\ \A p \in kept : c.entries[Slot(p)] = b.entries[Slot(p)]
  BY <1>3 DEF Kept
<1>5. CASE id < n
  <2>1. c = b /\ m = n
    BY <1>1, <1>4, <1>5 DEF Advance, Reached
  <2>2. kept = ids
    BY <1>1, <2>1
  <2> QED BY <1>3, <2>1, <2>2
<1>6. CASE id >= n
  <2>1. m = id + 1 /\ id \in n .. n + SequenceModulus - 1
    BY <1>1, <1>6 DEF Reached
  <2> QED BY <1>3, <1>4, <1>6, <2>1, MoveKeeps
<1> QED BY <1>1, <1>5, <1>6

\* Filling the slot of an identity of the window remembers it and evicts no other.
LEMMA FillKeeps ==
  ASSUME Commensurate, NEW Data, NEW b \in BufferOf(Data),
         NEW n \in Int, NEW ids, Keeps(b, n, ids), NEW data \in Data,
         NEW id \in n - NumEntries .. n - 1
  PROVE  LET c == Fill(b, NumberOf(id), data)
         IN  /\ c \in BufferOf(Data)
             /\ Keeps(c, n, ids \cup {id})
             /\ c.entries[Slot(id)] = data
             /\ \A p \in ids \ {id} : c.entries[Slot(p)] = b.entries[Slot(p)]
<1> DEFINE c == Fill(b, NumberOf(id), data)
<1>1. /\ NumEntries \in Nat \ {0} /\ id \in Int
      /\ ids \subseteq Int /\ \A p \in ids : p >= n - NumEntries /\ p <= n - 1
  BY NumEntriesAssumption DEF Keeps
<1>2. NumberOf(id) \in SequenceNumber /\ Slot(NumberOf(id)) = Slot(id)
  BY <1>1, NumberType, SlotOfNumber
<1>3. /\ c \in BufferOf(Data)
      /\ c.sequence = b.sequence
      /\ c.entry_sequence[Slot(id)] = NumberOf(id)
      /\ c.entries[Slot(id)] = data
      /\ \A i \in Index \ {Slot(id)} :
           c.entry_sequence[i] = b.entry_sequence[i] /\ c.entries[i] = b.entries[i]
  BY <1>2, FillType
<1>4. ASSUME NEW p \in ids \ {id}
      PROVE  Slot(p) \in Index \ {Slot(id)}
  BY <1>1, SlotsDiffer, NumberType
<1> HIDE DEF c
<1>5. ASSUME NEW p \in ids \cup {id}
      PROVE  c.entry_sequence[Slot(p)] = NumberOf(p)
  BY <1>3, <1>4 DEF Keeps
<1>6. ASSUME NEW i \in Index, c.entry_sequence[i] # None
      PROVE  \E p \in ids \cup {id} : Slot(p) = i
  BY <1>3, <1>6 DEF Keeps
<1>7. Keeps(c, n, ids \cup {id})
  BY <1>1, <1>3, <1>5, <1>6 DEF Keeps
<1>8. \A p \in ids \ {id} : c.entries[Slot(p)] = b.entries[Slot(p)]
  BY <1>3, <1>4
<1> QED BY <1>3, <1>7, <1>8 DEF c

\* Removing an identity of the window forgets it and no other.
LEMMA RemoveKeeps ==
  ASSUME Commensurate, NEW Data, Default \in Data, NEW b \in BufferOf(Data),
         NEW n \in Int, NEW ids, Keeps(b, n, ids),
         NEW id \in n - NumEntries .. n - 1
  PROVE  LET c == Remove(b, NumberOf(id))
         IN  /\ c \in BufferOf(Data)
             /\ Keeps(c, n, ids \ {id})
             /\ \A p \in ids \ {id} : c.entries[Slot(p)] = b.entries[Slot(p)]
<1> DEFINE c == Remove(b, NumberOf(id))
           written == Written(b, Slot(id), None, Default)
<1>1. /\ NumEntries \in Nat \ {0} /\ id \in Int
      /\ ids \subseteq Int /\ \A p \in ids : p >= n - NumEntries /\ p <= n - 1
  BY NumEntriesAssumption DEF Keeps
<1>2. NumberOf(id) \in SequenceNumber /\ Slot(NumberOf(id)) = Slot(id) /\ Slot(id) \in Index
  BY <1>1, NumberType, SlotOfNumber
<1>3. /\ written \in BufferOf(Data)
      /\ written.sequence = b.sequence
      /\ written.entry_sequence = [b.entry_sequence EXCEPT ![Slot(id)] = None]
      /\ written.entries = [b.entries EXCEPT ![Slot(id)] = Default]
      /\ DOMAIN b.entry_sequence = Index
      /\ DOMAIN b.entries = Index
  BY <1>2, WriteSlot
<1>4. IF b.entry_sequence[Slot(id)] = None THEN c = b ELSE c = written
  BY <1>2 DEF Remove, Written
<1> HIDE DEF c, written
<1>5. /\ c \in BufferOf(Data)
      /\ c.sequence = b.sequence
      /\ c.entry_sequence[Slot(id)] = None
      /\ \A i \in Index \ {Slot(id)} :
           c.entry_sequence[i] = b.entry_sequence[i] /\ c.entries[i] = b.entries[i]
  BY <1>2, <1>3, <1>4
<1>6. ASSUME NEW p \in ids \ {id}
      PROVE  Slot(p) \in Index \ {Slot(id)}
  BY <1>1, SlotsDiffer, NumberType
<1>7. ASSUME NEW p \in ids \ {id}
      PROVE  c.entry_sequence[Slot(p)] = NumberOf(p)
  BY <1>5, <1>6 DEF Keeps
<1>8. ASSUME NEW i \in Index, c.entry_sequence[i] # None
      PROVE  \E p \in ids \ {id} : Slot(p) = i
  <2>1. i # Slot(id) /\ b.entry_sequence[i] # None
    BY <1>5, <1>8
  <2>2. PICK p \in ids : Slot(p) = i
    BY <2>1 DEF Keeps
  <2> QED BY <2>1, <2>2
<1>9. Keeps(c, n, ids \ {id})
  BY <1>1, <1>5, <1>7, <1>8 DEF Keeps
<1>10. \A p \in ids \ {id} : c.entries[Slot(p)] = b.entries[Slot(p)]
  BY <1>5, <1>6
<1> QED BY <1>5, <1>9, <1>10 DEF c

\* exists answers about the identity, less than SequenceModulus from the window.
LEMMA ExistsKeeps ==
  ASSUME Commensurate, NEW b, NEW n \in Int, NEW ids, Keeps(b, n, ids),
         NEW id \in n - SequenceModulus .. n + SequenceModulus - NumEntries - 1
  PROVE  Exists(b, NumberOf(id)) <=> id \in ids
<1>1. /\ NumEntries \in Nat \ {0} /\ SequenceModulus \in Nat \ {0} /\ id \in Int
      /\ ids \subseteq Int /\ \A p \in ids : p >= n - NumEntries /\ p <= n - 1
  BY NumEntriesAssumption, SequenceModulusAssumption DEF Keeps
<1>2. NumberOf(id) \in SequenceNumber /\ Slot(NumberOf(id)) = Slot(id) /\ Slot(id) \in Index
  BY <1>1, NumberType, SlotOfNumber
<1>3. ASSUME b.entry_sequence[Slot(id)] = NumberOf(id)
      PROVE  id \in ids
  <2>1. b.entry_sequence[Slot(id)] # None
    BY <1>2, <1>3, NoneAssumption
  <2>2. PICK p \in ids : Slot(p) = Slot(id)
    BY <1>2, <2>1 DEF Keeps
  <2>3. NumberOf(p) = NumberOf(id)
    BY <1>3, <2>2 DEF Keeps
  <2>4. p \in Int /\ id - p > -SequenceModulus /\ id - p < SequenceModulus
    BY <1>1
  <2>5. p = id
    BY <1>1, <2>3, <2>4, Apart DEF NumberOf
  <2> QED BY <2>5
<1>4. ASSUME id \in ids
      PROVE  b.entry_sequence[Slot(id)] = NumberOf(id)
  BY <1>4 DEF Keeps
<1> QED BY <1>2, <1>3, <1>4 DEF Exists

\* generate_ack_bits names the newest identity and those it remembers below it.
LEMMA AckBitsKeeps ==
  ASSUME Commensurate, NEW b, NEW n \in Int, NEW ids, Keeps(b, n, ids),
         NEW bits \in 1 .. SequenceModulus
  PROVE  /\ AckOf(b) = NumberOf(n - 1)
         /\ GenerateAckBits(b, bits) = {i \in 0 .. bits - 1 : n - 1 - i \in ids}
<1>1. AckOf(b) = NumberOf(n - 1)
  BY WrapNumber DEF AckOf, Keeps
<1>2. ASSUME NEW i \in 0 .. bits - 1
      PROVE  Exists(b, WrapSub(AckOf(b), i)) <=> n - 1 - i \in ids
  <2> DEFINE id == n - 1 - i
  <2>1. n - 1 \in Int /\ i \in Int /\ id = (n - 1) - i
    OBVIOUS
  <2>2. WrapSub(AckOf(b), i) = NumberOf(id)
    BY <1>1, <2>1, WrapNumber
  <2>3. id \in n - SequenceModulus .. n + SequenceModulus - NumEntries - 1
    BY HalfType, NumEntriesAssumption DEF Commensurate
  <2> HIDE DEF id
  <2>4. Exists(b, NumberOf(id)) <=> id \in ids
    BY <2>3, ExistsKeeps
  <2> QED BY <2>2, <2>4 DEF id
<1> QED BY <1>1, <1>2 DEF GenerateAckBits

\* A new buffer remembers nothing.
LEMMA NewKeeps == Keeps(New, 0, {})
BY SequenceModulusAssumption, Remainder DEF New, Keeps, NumberOf

-----------------------------------------------------------------------------
(* The same without identities: entries inside the window *)

\* Every occupied slot holds a sequence number of its own and inside the window.
InWindow(b) ==
  \A i \in Index :
    LET s == b.entry_sequence[i]
    IN  s # None => s % NumEntries = i /\ WrapSub(b.sequence, s + 1) < NumEntries

\* How far behind the window a number is.
LEMMA BehindNumber ==
  ASSUME NEW n \in Int, NEW p \in Int, n - p - 1 \in 0 .. SequenceModulus - 1
  PROVE  WrapSub(NumberOf(n), NumberOf(p) + 1) = n - p - 1
<1> DEFINE q == p \div SequenceModulus
           r == NumberOf(p)
           back == n - p - 1
<1>1. SequenceModulus \in Nat \ {0}
  BY SequenceModulusAssumption
<1>2. r \in Int /\ q \in Int /\ p = SequenceModulus * q + r
  BY <1>1, Division DEF NumberOf
<1> HIDE DEF q, r
<1>3. WrapSub(NumberOf(n), r + 1) = NumberOf(n - (r + 1))
  <2> DEFINE k == r + 1
  <2>1. k \in Int
    BY <1>2
  <2> HIDE DEF k
  <2>2. WrapSub(NumberOf(n), k) = NumberOf(n - k)
    BY <2>1, WrapNumber
  <2> QED BY <2>2 DEF k
<1>4. back \in Int /\ n - (r + 1) = back + SequenceModulus * q
  BY <1>1, <1>2
<1>5. back \in 0 .. SequenceModulus - 1
  OBVIOUS
<1> HIDE DEF back
<1>6. (back + SequenceModulus * q) % SequenceModulus = back % SequenceModulus
  BY <1>1, <1>2, <1>4, Congruent
<1>7. back % SequenceModulus = back
  BY <1>1, <1>5
<1> QED BY <1>3, <1>4, <1>6, <1>7 DEF NumberOf, r, back

\* A buffer that keeps identities has its entries in the window.
LEMMA KeepsInWindow ==
  ASSUME Commensurate, NEW b, NEW n \in Int, NEW ids, Keeps(b, n, ids)
  PROVE  InWindow(b)
<1>1. /\ NumEntries \in Nat \ {0} /\ NumEntries < SequenceModulus
      /\ ids \subseteq Int /\ \A p \in ids : p >= n - NumEntries /\ p <= n - 1
  BY NumEntriesAssumption, HalfType DEF Keeps, Commensurate
<1>2. ASSUME NEW i \in Index, b.entry_sequence[i] # None
      PROVE  /\ b.entry_sequence[i] % NumEntries = i
             /\ WrapSub(b.sequence, b.entry_sequence[i] + 1) < NumEntries
  <2>1. PICK p \in ids : Slot(p) = i
    BY <1>2 DEF Keeps
  <2>2. p \in Int /\ b.entry_sequence[i] = NumberOf(p) /\ b.sequence = NumberOf(n)
    BY <1>1, <2>1 DEF Keeps
  <2>3. n - p - 1 \in 0 .. SequenceModulus - 1 /\ n - p - 1 < NumEntries
    <3>1. p >= n - NumEntries /\ p <= n - 1
      BY <1>1
    <3> QED BY <1>1, <2>2, <3>1, SequenceModulusAssumption
  <2>4. WrapSub(NumberOf(n), NumberOf(p) + 1) = n - p - 1
    BY <2>2, <2>3, BehindNumber
  <2>5. NumberOf(p) % NumEntries = i
    BY <2>1, <2>2, SlotOfNumber DEF Slot
  <2> QED BY <2>2, <2>3, <2>4, <2>5
<1> QED BY <1>2 DEF InWindow

\* The identities of the entries, counted from the window's own number.
Remembered(b) ==
  {id \in b.sequence - NumEntries .. b.sequence - 1 :
     b.entry_sequence[Slot(id)] = NumberOf(id)}

\* A sequence number is its own identity, and so is any number a lap away.
LEMMA NumberOfNumber ==
  ASSUME NEW s \in SequenceNumber
  PROVE  NumberOf(s) = s /\ NumberOf(s - SequenceModulus) = s /\ NumberOf(s + SequenceModulus) = s
<1>1. SequenceModulus \in Nat \ {0} /\ s \in Int /\ s \in 0 .. SequenceModulus - 1
  BY SequenceModulusAssumption DEF SequenceNumber
<1>2. NumberOf(s) = s
  BY <1>1 DEF NumberOf
<1>3. NumberOf(s - SequenceModulus) = s
  BY <1>1 DEF NumberOf
<1>4. NumberOf(s + SequenceModulus) = s
  BY <1>1 DEF NumberOf
<1> QED BY <1>2, <1>3, <1>4

\* Conversely, entries in the window are identities kept.
LEMMA InWindowKeeps ==
  ASSUME Commensurate, NEW Data, NEW b \in BufferOf(Data), InWindow(b)
  PROVE  b.sequence \in Int /\ Keeps(b, b.sequence, Remembered(b))
<1> DEFINE n == b.sequence
<1>1. /\ NumEntries \in Nat \ {0} /\ SequenceModulus \in Nat \ {0}
      /\ n \in SequenceNumber /\ n \in 0 .. SequenceModulus - 1
  BY NumEntriesAssumption, SequenceModulusAssumption DEF BufferOf, SequenceNumber
<1>2. n = NumberOf(n)
  BY <1>1, NumberOfNumber
<1>3. ASSUME NEW i \in Index, b.entry_sequence[i] # None
      PROVE  \E id \in Remembered(b) : Slot(id) = i
  <2> DEFINE s == b.entry_sequence[i]
             back == WrapSub(n, s + 1)
             id == n - 1 - back
  <2>1. s \in SequenceNumber /\ s \in 0 .. SequenceModulus - 1
    BY <1>3 DEF BufferOf, SequenceNumber
  <2>2. s % NumEntries = i /\ back < NumEntries
    BY <1>3 DEF InWindow
  <2> HIDE DEF s, n
  <2>3. back = IF n >= s + 1 THEN n - (s + 1) ELSE n - (s + 1) + SequenceModulus
    <3> DEFINE x == n - (s + 1)
    <3>1. x \in Int /\ x >= -SequenceModulus /\ x < SequenceModulus
      BY <1>1, <2>1
    <3> HIDE DEF x
    <3>2. x % SequenceModulus = IF x >= 0 THEN x ELSE x + SequenceModulus
      BY <1>1, <3>1
    <3> QED BY <1>1, <2>1, <3>2 DEF x, WrapSub
  <2> HIDE DEF back
  <2>4. id = s \/ id = s - SequenceModulus
    BY <1>1, <2>1, <2>3
  <2>5. NumberOf(id) = s
    BY <2>1, <2>4, NumberOfNumber
  <2>6. id \in n - NumEntries .. n - 1 /\ id \in Int
    BY <1>1, <2>1, <2>2, <2>3
  <2> HIDE DEF id
  <2>7. Slot(id) = i
    BY <2>2, <2>5, <2>6, SlotOfNumber DEF Slot
  <2>8. b.entry_sequence[Slot(id)] = NumberOf(id)
    BY <2>5, <2>7 DEF s
  <2> QED BY <2>6, <2>7, <2>8 DEF Remembered, n
<1>4. Remembered(b) \subseteq n - NumEntries .. n - 1
  BY DEF Remembered
<1>5. \A id \in Remembered(b) : b.entry_sequence[Slot(id)] = NumberOf(id)
  BY DEF Remembered
<1> QED BY <1>1, <1>2, <1>3, <1>4, <1>5 DEF Keeps

\* Where a number lies when counted upward from the window.
Ahead(q, s) == IF s >= q THEN s ELSE s + SequenceModulus

\* advance keeps the entries in the window, whatever number arrives: also half
\* the numbers away, where the comparison is lopsided.
LEMMA AdvanceInWindow ==
  ASSUME Commensurate, NEW Data, Default \in Data, NEW b \in BufferOf(Data),
         InWindow(b), NEW s \in SequenceNumber
  PROVE  /\ InWindow(Advance(b, s))
         /\ Advances(b, s) =>
              LET id == Ahead(b.sequence, s)
              IN  /\ id \in b.sequence .. b.sequence + HalfModulus - 1 /\ NumberOf(id) = s
                  /\ \A m \in Int : m = id + 1 =>
                       Keeps(Advance(b, s), m, {p \in Remembered(b) : p >= m - NumEntries})
<1> DEFINE n == b.sequence
           id == Ahead(n, s)
<1>1. n \in Int /\ Keeps(b, n, Remembered(b))
  BY InWindowKeeps
<1>2. /\ HalfModulus \in Nat \ {0} /\ SequenceModulus = 2 * HalfModulus
      /\ n \in 0 .. SequenceModulus - 1 /\ s \in 0 .. SequenceModulus - 1
  BY HalfType DEF BufferOf, SequenceNumber
<1>3. id \in Int /\ NumberOf(id) = s /\ id \in n .. n + SequenceModulus - 1
  <2>1. id = s \/ id = s + SequenceModulus
    BY DEF Ahead
  <2>2. NumberOf(id) = s
    BY <2>1, NumberOfNumber
  <2>3. id \in Int /\ id \in n .. n + SequenceModulus - 1
    BY <1>2 DEF Ahead
  <2> QED BY <2>2, <2>3
<1>4. CASE ~Advances(b, s)
  BY <1>4 DEF Advance
<1>5. CASE Advances(b, s)
  <2>1. id \in n .. n + HalfModulus - 1
    <3>1. WrapAdd(s, 1) = IF s + 1 = SequenceModulus THEN 0 ELSE s + 1
      BY <1>2 DEF WrapAdd
    <3>2. \/ WrapAdd(s, 1) > n /\ WrapAdd(s, 1) - n <= HalfModulus
          \/ WrapAdd(s, 1) < n /\ n - WrapAdd(s, 1) > HalfModulus
      BY <1>5 DEF Advances, SequenceGreaterThan
    <3> QED BY <1>2, <3>1, <3>2 DEF Ahead
  <2> HIDE DEF n, id
  <2>2. Advances(b, NumberOf(id))
    BY <1>3, <1>5
  <2>3. ASSUME NEW m \in Int, m = id + 1
        PROVE  Keeps(Advance(b, NumberOf(id)), m, {p \in Remembered(b) : p >= m - NumEntries})
    BY <1>1, <1>3, <2>2, <2>3, MoveKeeps
  <2>4. id + 1 \in Int
    BY <1>3
  <2>5. InWindow(Advance(b, NumberOf(id)))
    BY <2>3, <2>4, KeepsInWindow
  <2> QED BY <1>3, <2>1, <2>3, <2>5 DEF n, id
<1> QED BY <1>4, <1>5

\* A buffer that keeps more identities has the entries of one that keeps fewer.
LEMMA KeptEntries ==
  ASSUME NEW b, NEW c, NEW n, NEW ids, NEW more, Keeps(b, n, ids), Keeps(c, n, ids \cup more)
  PROVE  \A i \in Index : b.entry_sequence[i] # None => c.entry_sequence[i] = b.entry_sequence[i]
BY DEF Keeps

\* A number that either insert variant accepts is in the window it leaves, and its
\* slot was empty or its own: filling it evicts nothing.
LEMMA InsertInWindow ==
  ASSUME Commensurate, NEW Data, Default \in Data, NEW b \in BufferOf(Data),
         InWindow(b), NEW s \in SequenceNumber, NEW data \in Data,
         Advances(b, s) \/ (NumEntries >= 2 /\ CanInsert(b, s))
  PROVE  /\ InWindow(Fill(Advance(b, s), s, data))
         /\ \A i \in Index :
              Advance(b, s).entry_sequence[i] # None =>
                Fill(Advance(b, s), s, data).entry_sequence[i] = Advance(b, s).entry_sequence[i]
<1> DEFINE n == b.sequence
           id == Ahead(n, s)
<1>1. n \in Int /\ Keeps(b, n, Remembered(b))
  BY InWindowKeeps
<1>2. /\ HalfModulus \in Nat \ {0} /\ SequenceModulus = 2 * HalfModulus
      /\ n \in 0 .. SequenceModulus - 1 /\ s \in 0 .. SequenceModulus - 1
      /\ NumEntries \in Nat \ {0} /\ NumEntries <= HalfModulus
  BY HalfType, NumEntriesAssumption DEF BufferOf, SequenceNumber, Commensurate
<1>3. Advance(b, s) \in BufferOf(Data)
  BY AdvanceType
<1>4. CASE Advances(b, s)
  <2>1. id \in Int
    BY <1>2 DEF Ahead
  <2>2. PICK m \in Int : m = id + 1
    BY <2>1
  <2> DEFINE kept == {p \in Remembered(b) : p >= m - NumEntries}
  <2>3. NumberOf(id) = s /\ Keeps(Advance(b, s), m, kept)
    BY <1>4, <2>2, AdvanceInWindow
  <2> HIDE DEF n, id, kept
  <2>4. id \in m - NumEntries .. m - 1
    BY <1>2, <2>1, <2>2
  <2>5. Keeps(Fill(Advance(b, s), NumberOf(id), data), m, kept \cup {id})
    BY <1>3, <2>3, <2>4, FillKeeps
  <2> QED BY <2>3, <2>5, KeepsInWindow, KeptEntries
<1>5. CASE ~Advances(b, s)
  <2>1. Advance(b, s) = b /\ CanInsert(b, s) /\ NumEntries >= 2
    BY <1>5 DEF Advance
  <2> DEFINE p == id - SequenceModulus
  <2>2. NumberOf(p) = s /\ p \in n - SequenceModulus .. n - 1 /\ p \in Int /\ id \in Int
    <3>1. p = s \/ p = s - SequenceModulus
      BY <1>2 DEF Ahead
    <3>2. p \in n - SequenceModulus .. n - 1 /\ p \in Int /\ id \in Int
      BY <1>2 DEF Ahead
    <3> QED BY <3>1, <3>2, NumberOfNumber
  <2>3. n = NumberOf(n)
    BY <1>1 DEF Keeps
  <2> HIDE DEF n
  <2>4. p >= n - NumEntries
    <3>1. CASE p > n - NumEntries - HalfModulus
      <4>1. p \in n - NumEntries - HalfModulus + 1 .. n + HalfModulus - NumEntries - 1
        BY <1>1, <1>2, <2>2, <3>1
      <4> HIDE DEF p
      <4>2. CanInsert(b, NumberOf(p)) <=> p >= n - NumEntries
        BY <1>1, <1>2, <2>3, <4>1, CanInsertNumber DEF n
      <4> QED BY <2>1, <2>2, <4>2
    \* Further back than that the number counts as ahead of the window.
    <3>2. CASE p <= n - NumEntries - HalfModulus
      <4>1. id \in n - HalfModulus .. n + HalfModulus - 2 /\ id >= n
        BY <1>1, <1>2, <2>1, <2>2, <3>2
      <4>2. NumberOf(id) = s
        <5>1. id = s \/ id = s + SequenceModulus
          BY DEF Ahead
        <5> QED BY <5>1, NumberOfNumber
      <4> HIDE DEF id
      <4>3. Advances(b, NumberOf(id))
        BY <1>1, <2>3, <4>1, AdvancesNumber DEF n
      <4> QED BY <1>5, <4>2, <4>3
    <3> QED BY <1>1, <1>2, <2>2, <3>1, <3>2
  <2>5. p \in n - NumEntries .. n - 1
    BY <1>1, <1>2, <2>2, <2>4
  <2> HIDE DEF p
  <2>6. Keeps(Fill(b, NumberOf(p), data), n, Remembered(b) \cup {p})
    BY <1>1, <2>5, FillKeeps
  <2> QED BY <1>1, <2>1, <2>2, <2>6, KeepsInWindow, KeptEntries
<1> QED BY <1>4, <1>5

\* Emptying slots, or changing data, leaves the rest in the window.
LEMMA FewerInWindow ==
  ASSUME NEW b, NEW c, InWindow(b), c.sequence = b.sequence,
         \A i \in Index : \/ c.entry_sequence[i] = None
                         \/ c.entry_sequence[i] = b.entry_sequence[i]
  PROVE  InWindow(c)
BY DEF InWindow

\* An empty buffer.
LEMMA NewInWindow == InWindow(New)
BY DEF New, InWindow

\* advance forgets no number that is still in the window it leaves.
LEMMA AdvanceRemembers ==
  ASSUME Commensurate, NEW Data, Default \in Data, NEW b \in BufferOf(Data),
         InWindow(b), NEW s \in SequenceNumber, NEW i \in Index, b.entry_sequence[i] # None,
         WrapSub(Advance(b, s).sequence, b.entry_sequence[i] + 1) < NumEntries
  PROVE  Advance(b, s).entry_sequence[i] = b.entry_sequence[i]
<1> DEFINE n == b.sequence
           c == Advance(b, s)
           id == Ahead(n, s)
<1>1. CASE ~Advances(b, s)
  BY <1>1 DEF Advance
<1>2. CASE Advances(b, s)
  <2>1. /\ NumEntries \in Nat \ {0} /\ NumEntries <= HalfModulus
        /\ HalfModulus \in Nat \ {0} /\ SequenceModulus = 2 * HalfModulus
    BY NumEntriesAssumption, HalfType DEF Commensurate
  <2>2. n \in Int /\ Keeps(b, n, Remembered(b))
    BY InWindowKeeps
  <2>3. PICK p \in Remembered(b) : Slot(p) = i
    BY <2>2 DEF Keeps
  <2>4. /\ p \in Int /\ p >= n - NumEntries /\ p <= n - 1
        /\ b.entry_sequence[i] = NumberOf(p)
    <3>1. p \in n - NumEntries .. n - 1
      BY DEF Remembered
    <3>2. b.entry_sequence[i] = NumberOf(p)
      BY <2>2, <2>3 DEF Keeps
    <3> QED BY <2>1, <2>2, <3>1, <3>2
  <2>5. id \in n .. n + HalfModulus - 1
    BY <1>2, AdvanceInWindow
  <2>6. PICK m \in Int : m = id + 1
    BY <2>2, <2>5
  <2>7. Keeps(c, m, {q \in Remembered(b) : q >= m - NumEntries})
    BY <1>2, <2>6, AdvanceInWindow
  <2> HIDE DEF n, c, id
  <2>8. m - p - 1 \in 0 .. SequenceModulus - 1
    BY <2>1, <2>2, <2>4, <2>5, <2>6
  <2>9. WrapSub(c.sequence, b.entry_sequence[i] + 1) = m - p - 1
    BY <2>4, <2>7, <2>8, BehindNumber DEF Keeps
  <2>10. m - p - 1 < NumEntries
    BY <2>9 DEF c
  <2>11. p \in {q \in Remembered(b) : q >= m - NumEntries}
    BY <2>1, <2>3, <2>4, <2>6, <2>10
  <2>12. c.entry_sequence[Slot(p)] = NumberOf(p)
    BY <2>7, <2>11 DEF Keeps
  <2> QED BY <2>3, <2>4, <2>12 DEF c
<1> QED BY <1>1, <1>2

\* Once the window has seen s, seeing it again moves nothing.
LEMMA AdvanceTwice ==
  ASSUME NEW Data, Default \in Data, NEW b \in BufferOf(Data), NEW s \in SequenceNumber
  PROVE  Advance(Advance(b, s), s) = Advance(b, s)
<1> DEFINE c == Advance(b, s)
<1>1. c.sequence = Moved(b.sequence, s) /\ b.sequence \in Int /\ WrapAdd(s, 1) \in Int
  <2>1. c.sequence = Moved(b.sequence, s)
    BY AdvanceType
  <2>2. b.sequence \in Int
    BY DEF BufferOf, SequenceNumber
  <2>3. WrapAdd(s, 1) \in Int
    BY WrapType DEF SequenceNumber
  <2> QED BY <2>1, <2>2, <2>3
<1>2. ~SequenceGreaterThan(WrapAdd(s, 1), c.sequence)
  BY <1>1 DEF Moved, SequenceGreaterThan
<1> HIDE DEF c
<1>3. Advance(c, s) = c
  BY <1>2 DEF Advance, Advances
<1> QED BY <1>3 DEF c
=============================================================================
