-------------------------- MODULE PacketHeaderProofs --------------------------
(***************************************************************************)
(* The codecs at their real widths: every sequence number, ack and         *)
(* ack_bits, every payload, and datagrams damaged any number of times.     *)
(*                                                                         *)
(* What is written has one byte for each part that is present: a part that *)
(* is left out has length 0, and the place of a byte of ack_bits is the    *)
(* number of present ones up to it.                                        *)
(***************************************************************************)
EXTENDS MCCPacketHeader, FiniteSetTheorems, SequenceTheorems, TLAPS

-----------------------------------------------------------------------------
(* Bytes and bits *)

\* A byte is a number.
LEMMA ByteIsNumber ==
  ASSUME NEW byte \in ByteRange
  PROVE  byte \in Int /\ 0 <= byte /\ byte <= 255
BY DEF ByteRange

\* The number space has two bytes.
LEMMA TwoBytes ==
  /\ SequenceModulus \in Nat \ {0} /\ SequenceModulus > 256
  /\ \A x \in Int, y \in 0 .. 255 :
       x <= 255 + 256 * y => x < SequenceModulus
BY SMT DEF SequenceModulus

\* Remainders of what is in the number space, or below it.
LEMMA Remainders ==
  ASSUME NEW x \in Int
  PROVE  /\ 0 <= x /\ x < SequenceModulus => x % SequenceModulus = x
         /\ -SequenceModulus <= x /\ x < 0 => x % SequenceModulus = x + SequenceModulus
<1>1. 0 <= x /\ x < SequenceModulus => x % SequenceModulus = x
  BY SMT DEF SequenceModulus
<1>2. -SequenceModulus <= x /\ x < 0 => x % SequenceModulus = x + SequenceModulus
  BY SMT DEF SequenceModulus
<1> QED BY <1>1, <1>2

\* A number from two bytes, and back.
LEMMA Words ==
  /\ \A n \in Uint16 : Low(n) \in ByteRange /\ High(n) \in ByteRange /\ Word(Low(n), High(n)) = n
  /\ \A low \in ByteRange, high \in ByteRange : Word(low, high) \in Uint16
<1>1. ASSUME NEW n \in Uint16
      PROVE  Low(n) \in ByteRange /\ High(n) \in ByteRange /\ Word(Low(n), High(n)) = n
  <2>1. n \in Int /\ 0 <= n /\ n < SequenceModulus
    BY TwoBytes DEF Uint16
  <2>2. n % 256 \in 0 .. 255 /\ n \div 256 \in 0 .. 255 /\ (n % 256) + 256 * (n \div 256) = n
    BY <2>1, SMT DEF SequenceModulus
  <2> QED BY <2>2 DEF ByteRange, Low, High, Word
<1>2. ASSUME NEW low \in ByteRange, NEW high \in ByteRange
      PROVE  Word(low, high) \in Uint16
  <2>1. low \in Int /\ high \in Int /\ 0 <= low /\ low <= 255 /\ 0 <= high /\ high <= 255
    BY DEF ByteRange
  <2>2. /\ low + 256 * high \in Int /\ 0 <= low + 256 * high
        /\ low + 256 * high <= 255 + 256 * high /\ high \in 0 .. 255
    BY <2>1
  <2> DEFINE x == low + 256 * high
  <2>3. x \in Int /\ 0 <= x /\ x < SequenceModulus
    BY <2>2, TwoBytes
  <2> HIDE DEF x
  <2>4. x \in Uint16
    BY <2>3, TwoBytes DEF Uint16
  <2> QED BY <2>4 DEF x, Word
<1> QED BY <1>1, <1>2

\* The ack and its distance from the sequence number determine each other.
LEMMA Distances ==
  /\ \A s \in Uint16, a \in Uint16 :
       /\ Difference(s, a) \in Uint16 /\ (s - Difference(s, a)) % SequenceModulus = a
       /\ Difference(s, a) = IF s - a < 0 THEN s - a + SequenceModulus ELSE s - a
  /\ \A s \in Uint16, d \in ByteRange :
       /\ (s - d) % SequenceModulus \in Uint16
       /\ Difference(s, (s - d) % SequenceModulus) = d
<1> DEFINE M == SequenceModulus
<1>1. M \in Nat \ {0} /\ M > 256
  BY TwoBytes
<1>2. \A x \in Int : /\ 0 <= x /\ x < M => x % M = x
                     /\ -M <= x /\ x < 0 => x % M = x + M
  BY Remainders
<1>3. \A x : x \in Uint16 <=> x \in Int /\ 0 <= x /\ x < M
  BY <1>1 DEF Uint16
<1>4. \A s, a : Difference(s, a) = (s - a) % M
  BY DEF Difference
<1> HIDE DEF M
<1>5. ASSUME NEW s \in Uint16, NEW a \in Uint16
      PROVE  /\ Difference(s, a) \in Uint16 /\ (s - Difference(s, a)) % M = a
             /\ Difference(s, a) = IF s - a < 0 THEN s - a + M ELSE s - a
  <2>1. s \in Int /\ 0 <= s /\ s < M /\ a \in Int /\ 0 <= a /\ a < M
    BY <1>3
  <2>2. CASE s - a < 0
    <3>1. s - a \in Int /\ -M <= s - a
      BY <1>1, <2>1, <2>2
    <3>2. (s - a) % M = s - a + M
      BY <1>2, <2>2, <3>1
    <3>3. s - (s - a + M) = a - M /\ a - M \in Int /\ -M <= a - M /\ a - M < 0 /\ (a - M) + M = a
      BY <1>1, <2>1
    <3>4. (a - M) % M = a
      BY <1>2, <3>3
    <3>5. s - a + M \in Uint16
      BY <1>1, <1>3, <2>1, <2>2
    <3> QED BY <1>4, <2>2, <3>2, <3>3, <3>4, <3>5
  <2>3. CASE ~(s - a < 0)
    <3>1. s - a \in Int /\ 0 <= s - a /\ s - a < M
      BY <1>1, <2>1, <2>3
    <3>2. (s - a) % M = s - a
      BY <1>2, <3>1
    <3>3. s - (s - a) = a
      BY <2>1
    <3>4. a % M = a
      BY <1>2, <2>1
    <3>5. s - a \in Uint16
      BY <1>3, <3>1
    <3> QED BY <1>4, <2>3, <3>2, <3>3, <3>4, <3>5
  <2> QED BY <2>2, <2>3
<1>6. ASSUME NEW s \in Uint16, NEW d \in ByteRange
      PROVE  (s - d) % M \in Uint16 /\ Difference(s, (s - d) % M) = d
  <2>1. d \in Uint16
    BY <1>1, <1>3 DEF ByteRange
  <2>2. (s - d) % M \in Uint16 /\ (s - ((s - d) % M)) % M = d
    BY <1>4, <1>5, <2>1
  <2> QED BY <1>4, <2>2
<1> QED BY <1>5, <1>6 DEF M

\* A byte made of flags 1 to 5 has those flags, and not flag 0.
LEMMA Flags ==
  ASSUME NEW a \in 0 .. 1, NEW b \in 0 .. 1, NEW c \in 0 .. 1, NEW d \in 0 .. 1, NEW e \in 0 .. 1,
         NEW byte, byte = 2 * a + 4 * b + 8 * c + 16 * d + 32 * e
  PROVE  /\ byte \in ByteRange
         /\ ~Bit(byte, 0) /\ Bit(byte, 1) = (a = 1) /\ Bit(byte, 2) = (b = 1)
         /\ Bit(byte, 3) = (c = 1) /\ Bit(byte, 4) = (d = 1) /\ Bit(byte, 5) = (e = 1)
<1>1. byte \in 0 .. 62 /\ byte \div 1 = byte /\ byte % 2 = 0
  OBVIOUS
<1>2. byte \div 2 = a + 2 * b + 4 * c + 8 * d + 16 * e /\ (byte \div 2) % 2 = a
  OBVIOUS
<1>3. byte \div 4 = b + 2 * c + 4 * d + 8 * e /\ (byte \div 4) % 2 = b
  OBVIOUS
<1>4. byte \div 8 = c + 2 * d + 4 * e /\ (byte \div 8) % 2 = c
  OBVIOUS
<1>5. byte \div 16 = d + 2 * e /\ (byte \div 16) % 2 = d
  OBVIOUS
<1>6. byte \div 32 = e /\ e % 2 = e
  OBVIOUS
<1>7. /\ Shifted(0) = 1 /\ Shifted(1) = 2 /\ Shifted(2) = 4
      /\ Shifted(3) = 8 /\ Shifted(4) = 16 /\ Shifted(5) = 32
  BY DEF Shifted
<1> QED BY <1>1, <1>2, <1>3, <1>4, <1>5, <1>6, <1>7 DEF Bit, ByteRange

\* How many bytes of S are there up to the i-th.
Rank(S, i) == Cardinality({j \in S : j <= i})

\* The bytes of ack_bits up to the i-th that a set holds are counted one by one.
LEMMA Ranks ==
  ASSUME NEW S \in SUBSET AckBytes
  PROVE  /\ \A i \in 0 .. 3 : Rank(S, i) \in Nat
         /\ 0 \in S => Rank(S, 0) = 1
         /\ 0 \notin S => Rank(S, 0) = 0
         /\ \A i \in 0 .. 2 :
              /\ i + 1 \in S => Rank(S, i + 1) = Rank(S, i) + 1
              /\ i + 1 \notin S => Rank(S, i + 1) = Rank(S, i)
         /\ Cardinality(S) = Rank(S, 3)
<1> DEFINE R(i) == {j \in S : j <= i}
<1>5. ASSUME NEW j \in S
      PROVE  j \in Int /\ 0 <= j /\ j <= 3
  BY DEF AckBytes
<1>1. (0 \in S => Cardinality(R(0)) = 1) /\ (0 \notin S => Cardinality(R(0)) = 0)
  <2>1. CASE 0 \in S
    <3>1. R(0) = {0}
      BY <1>5, <2>1
    <3> QED BY <2>1, <3>1, FS_Singleton
  <2>2. CASE 0 \notin S
    <3>1. R(0) = {}
      BY <1>5, <2>2
    <3> QED BY <2>2, <3>1, FS_EmptySet
  <2> QED BY <2>1, <2>2
<1>2. IsFiniteSet(AckBytes)
  <2>1. 0 \in Int /\ 3 \in Int
    OBVIOUS
  <2> QED BY <2>1, FS_Interval DEF AckBytes
<1>3. ASSUME NEW i \in 0 .. 2
      PROVE  /\ i + 1 \in S => Cardinality(R(i + 1)) = Cardinality(R(i)) + 1
             /\ i + 1 \notin S => Cardinality(R(i + 1)) = Cardinality(R(i))
  <2>1. R(i) \subseteq AckBytes /\ IsFiniteSet(R(i)) /\ i + 1 \notin R(i)
    BY <1>2, FS_Subset
  <2>2. CASE i + 1 \in S
    <3>1. R(i + 1) = R(i) \cup {i + 1}
      BY <1>5, <2>2
    <3> HIDE DEF R
    <3> QED BY <2>1, <2>2, <3>1, FS_AddElement
  <2>3. CASE i + 1 \notin S
    <3>1. R(i + 1) = R(i)
      BY <1>5, <2>3
    <3> HIDE DEF R
    <3> QED BY <2>3, <3>1
  <2> QED BY <2>2, <2>3
<1>4. R(3) = S
  BY <1>5
<1>6. ASSUME NEW i \in 0 .. 3
      PROVE  Cardinality(R(i)) \in Nat
  <2>1. R(i) \subseteq AckBytes /\ IsFiniteSet(R(i))
    BY <1>2, FS_Subset
  <2> QED BY <2>1, FS_CardinalityType
<1> QED BY <1>1, <1>3, <1>4, <1>6 DEF Rank

-----------------------------------------------------------------------------
(* What is written *)

AckBitsOf == [AckBytes -> ByteRange]

\* The bytes of ack_bits that are written.
Kept(ack_bits) == {i \in AckBytes : ack_bits[i] # 255}

\* How many bytes the ack takes.
WidthOf(sequence, ack) == IF Close(sequence, ack) THEN 1 ELSE 2

\* A byte that may be elided is appended, or is not.
Longer(data, byte) == data \o Elided(byte)

\* One byte more, or none, behind the same data.
LEMMA Elision ==
  ASSUME NEW data \in Seq(ByteRange), NEW byte \in ByteRange
  PROVE  /\ Longer(data, byte) \in Seq(ByteRange)
         /\ byte = 255 => Len(Longer(data, byte)) = Len(data)
         /\ byte # 255 => /\ Len(Longer(data, byte)) = Len(data) + 1
                          /\ Longer(data, byte)[Len(data) + 1] = byte
         /\ \A k \in 1 .. Len(data) : Longer(data, byte)[k] = data[k]
<1> DEFINE longer == Longer(data, byte)
<1>1. CASE byte = 255
  <2>1. longer = data
    BY <1>1, ConcatEmptySeq DEF Elided, Longer
  <2> QED BY <1>1, <2>1
<1>2. CASE byte # 255
  <2>1. longer = data \o <<byte>> /\ <<byte>> \in Seq(ByteRange) /\ Len(<<byte>>) = 1 /\ <<byte>>[1] = byte
    BY <1>2 DEF Elided, Longer
  <2> HIDE DEF longer
  <2>2. /\ longer \in Seq(ByteRange) /\ Len(longer) = Len(data) + 1 /\ longer[Len(data) + 1] = byte
        /\ \A k \in 1 .. Len(data) : longer[k] = data[k]
    BY <2>1
  <2> QED BY <1>2, <2>2 DEF longer
<1> QED BY <1>1, <1>2

\* The parts of a header that are always there: prefix byte, sequence and ack.
Fixed(sequence, ack, ack_bits) ==
  <<PrefixByte(sequence, ack, ack_bits), Low(sequence), High(sequence)>>
    \o (IF Close(sequence, ack) THEN <<Low(Difference(sequence, ack))>>
                                ELSE <<Low(ack), High(ack)>>)

\* The prefix byte has a flag for each byte of ack_bits that is written, and one
\* for the short form of the ack.
LEMMA Prefix ==
  ASSUME NEW s \in Uint16, NEW a \in Uint16, NEW ab \in AckBitsOf
  PROVE  LET byte == PrefixByte(s, a, ab)
         IN  /\ byte \in ByteRange /\ ~Bit(byte, 0) /\ Bit(byte, 5) = Close(s, a)
             /\ \A i \in AckBytes : Bit(byte, i + 1) = (i \in Kept(ab))
<1> DEFINE byte == PrefixByte(s, a, ab)
<1>1. Close(s, a) \in BOOLEAN
  BY DEF Close
<1> DEFINE c(i) == IF ab[i] # 255 THEN 1 ELSE 0
           e == IF Close(s, a) THEN 1 ELSE 0
<1>4. byte = 2 * c(0) + 4 * c(1) + 8 * c(2) + 16 * c(3) + 32 * e
  BY DEF PrefixByte, Flag, Shifted
<1>5. c(0) \in 0 .. 1 /\ c(1) \in 0 .. 1 /\ c(2) \in 0 .. 1 /\ c(3) \in 0 .. 1 /\ e \in 0 .. 1
  OBVIOUS
<1> HIDE DEF byte
<1>6. /\ byte \in ByteRange /\ ~Bit(byte, 0) /\ Bit(byte, 5) = (e = 1)
      /\ Bit(byte, 1) = (c(0) = 1) /\ Bit(byte, 2) = (c(1) = 1)
      /\ Bit(byte, 3) = (c(2) = 1) /\ Bit(byte, 4) = (c(3) = 1)
  <2> HIDE DEF c, e
  <2> QED BY <1>4, <1>5, Flags
<1>2. /\ byte \in ByteRange /\ ~Bit(byte, 0) /\ Bit(byte, 5) = Close(s, a)
      /\ Bit(byte, 1) = (ab[0] # 255) /\ Bit(byte, 2) = (ab[1] # 255)
      /\ Bit(byte, 3) = (ab[2] # 255) /\ Bit(byte, 4) = (ab[3] # 255)
  BY <1>1, <1>6
<1>3. ASSUME NEW i \in AckBytes
      PROVE  Bit(byte, i + 1) = (i \in Kept(ab))
  <2>1. i = 0 \/ i = 1 \/ i = 2 \/ i = 3
    BY DEF AckBytes
  <2> QED BY <1>2, <2>1 DEF Kept
<1> QED BY <1>2, <1>3 DEF byte

\* The places of two sequences in one after the other.
LEMMA Places ==
  ASSUME NEW x \in Seq(ByteRange), NEW y \in Seq(ByteRange), NEW both, both = x \o y
  PROVE  /\ both \in Seq(ByteRange) /\ Len(both) = Len(x) + Len(y)
         /\ \A k \in 1 .. Len(x) : both[k] = x[k]
         /\ \A k \in 1 .. Len(y) : both[Len(x) + k] = y[k]
BY ConcatProperties

\* Three sequences, one after the other, whichever are joined first.
LEMMA Threes ==
  ASSUME NEW x \in Seq(ByteRange), NEW y \in Seq(ByteRange), NEW z \in Seq(ByteRange)
  PROVE  (x \o y) \o z = x \o (y \o z)
BY ConcatAssociative

\* The same, with their lengths.
LEMMA ThreeSequences ==
  ASSUME NEW x \in Seq(ByteRange), NEW y \in Seq(ByteRange), NEW z \in Seq(ByteRange)
  PROVE  /\ y \o z \in Seq(ByteRange) /\ Len(y \o z) = Len(y) + Len(z)
         /\ x \o (y \o z) \in Seq(ByteRange)
         /\ Len(x \o (y \o z)) = Len(x) + (Len(y) + Len(z))
<1> DEFINE yz == y \o z
<1>1. yz \in Seq(ByteRange) /\ Len(yz) = Len(y) + Len(z)
  BY Places
<1> HIDE DEF yz
<1> DEFINE all == x \o yz
<1>2. all \in Seq(ByteRange) /\ Len(all) = Len(x) + Len(yz)
  BY <1>1, Places
<1> QED BY <1>1, <1>2 DEF yz

\* The fixed parts, byte by byte.
LEMMA FixedParts ==
  ASSUME NEW s \in Uint16, NEW a \in Uint16, NEW ab \in AckBitsOf
  PROVE  LET parts == Fixed(s, a, ab)
         IN  /\ parts \in Seq(ByteRange) /\ Len(parts) = 3 + WidthOf(s, a)
             /\ parts[1] = PrefixByte(s, a, ab) /\ parts[2] = Low(s) /\ parts[3] = High(s)
             /\ Close(s, a) => parts[4] = Difference(s, a)
             /\ ~Close(s, a) => parts[4] = Low(a) /\ parts[5] = High(a)
<1>1. PrefixByte(s, a, ab) \in ByteRange
  BY Prefix
<1>2. Low(s) \in ByteRange /\ High(s) \in ByteRange /\ Low(a) \in ByteRange /\ High(a) \in ByteRange
  BY Words
<1> DEFINE first == <<PrefixByte(s, a, ab), Low(s), High(s)>>
<1>3. /\ first \in Seq(ByteRange) /\ Len(first) = 3
      /\ first[1] = PrefixByte(s, a, ab) /\ first[2] = Low(s) /\ first[3] = High(s)
  BY <1>1, <1>2
<1> HIDE DEF first
<1>4. CASE Close(s, a)
  <2>1. Difference(s, a) \in 0 .. 255
    <3>1. Difference(s, a) \in Uint16 /\ Difference(s, a) <= 255
      BY <1>4, Distances DEF Close
    <3>2. \A x \in Uint16 : x \in Int /\ 0 <= x
      BY TwoBytes DEF Uint16
    <3> QED BY <3>1, <3>2
  <2>2. Low(Difference(s, a)) = Difference(s, a) /\ Difference(s, a) \in ByteRange
    BY <2>1 DEF Low, ByteRange
  <2> DEFINE d == Difference(s, a)
  <2>3. Fixed(s, a, ab) = first \o <<d>> /\ WidthOf(s, a) = 1
    BY <1>4, <2>2 DEF Fixed, WidthOf, first
  <2>4. <<d>> \in Seq(ByteRange) /\ Len(<<d>>) = 1 /\ <<d>>[1] = d
    BY <2>2
  <2> HIDE DEF d
  <2> DEFINE parts == Fixed(s, a, ab)
             t == <<d>>
  <2> HIDE DEF parts, t
  <2>5. /\ parts \in Seq(ByteRange) /\ Len(parts) = Len(first) + Len(t)
        /\ \A k \in 1 .. Len(first) : parts[k] = first[k]
        /\ \A k \in 1 .. Len(t) : parts[Len(first) + k] = t[k]
    <3>1. first \in Seq(ByteRange) /\ t \in Seq(ByteRange) /\ parts = first \o t
      BY <1>3, <2>3, <2>4 DEF parts, t
    <3> QED BY <3>1, Places
  <2>6. Len(first) = 3 /\ Len(t) = 1 /\ t[1] = d
    BY <1>3, <2>4 DEF t
  <2>7. /\ Len(parts) = 4 /\ parts[1] = first[1] /\ parts[2] = first[2] /\ parts[3] = first[3]
        /\ parts[4] = d
    BY <2>5, <2>6
  <2> QED BY <1>3, <1>4, <2>3, <2>5, <2>7 DEF d, parts
<1>5. CASE ~Close(s, a)
  <2> DEFINE t == <<Low(a), High(a)>>
  <2>3. Fixed(s, a, ab) = first \o t /\ WidthOf(s, a) = 2
    BY <1>5 DEF Fixed, WidthOf, first
  <2>4. t \in Seq(ByteRange) /\ Len(t) = 2 /\ t[1] = Low(a) /\ t[2] = High(a)
    BY <1>2
  <2> HIDE DEF t
  <2> DEFINE parts == Fixed(s, a, ab)
  <2> HIDE DEF parts
  <2>5. /\ parts \in Seq(ByteRange) /\ Len(parts) = Len(first) + Len(t)
        /\ \A k \in 1 .. Len(first) : parts[k] = first[k]
        /\ \A k \in 1 .. Len(t) : parts[Len(first) + k] = t[k]
    <3>1. first \in Seq(ByteRange) /\ t \in Seq(ByteRange) /\ parts = first \o t
      BY <1>3, <2>3, <2>4 DEF parts
    <3> QED BY <3>1, Places
  <2>6. Len(first) = 3 /\ Len(t) = 2
    BY <1>3, <2>4
  <2>7. /\ Len(parts) = 5 /\ parts[1] = first[1] /\ parts[2] = first[2] /\ parts[3] = first[3]
        /\ parts[4] = t[1] /\ parts[5] = t[2]
    BY <2>5, <2>6
  <2> QED BY <1>3, <1>5, <2>3, <2>4, <2>5, <2>7 DEF parts
<1> QED BY <1>4, <1>5

\* The fixed parts, and each kept byte of ack_bits at its rank behind them.
LEMMA HeaderWritten ==
  ASSUME NEW s \in Uint16, NEW a \in Uint16, NEW ab \in AckBitsOf
  PROVE  LET W == WritePacketHeader(s, a, ab)
             parts == Fixed(s, a, ab)
         IN  /\ W \in Seq(ByteRange) /\ Len(W) = Len(parts) + Cardinality(Kept(ab))
             /\ Len(W) \in 4 .. 9 /\ Len(W) >= Len(parts)
             /\ \A k \in 1 .. Len(parts) : W[k] = parts[k]
             /\ \A i \in Kept(ab) :
                  \E m \in 1 .. Len(W) - Len(parts) :
                    m = Rank(Kept(ab), i) /\ W[Len(parts) + m] = ab[i]
<1> DEFINE P0 == Fixed(s, a, ab)
           P1 == Longer(P0, ab[0])
           P2 == Longer(P1, ab[1])
           P3 == Longer(P2, ab[2])
           P4 == Longer(P3, ab[3])
           S == Kept(ab)
           n0 == Len(P0)
           n1 == Len(P1)
           n2 == Len(P2)
           n3 == Len(P3)
           n4 == Len(P4)
<1>1. WritePacketHeader(s, a, ab) = P4
  BY DEF WritePacketHeader, Fixed, Longer
<1>2. /\ ab[0] \in ByteRange /\ ab[1] \in ByteRange /\ ab[2] \in ByteRange /\ ab[3] \in ByteRange
      /\ (0 \in S) = (ab[0] # 255) /\ (1 \in S) = (ab[1] # 255)
      /\ (2 \in S) = (ab[2] # 255) /\ (3 \in S) = (ab[3] # 255)
  BY DEF AckBitsOf, AckBytes, Kept
<1>14. ab[0] \in ByteRange /\ ab[1] \in ByteRange /\ ab[2] \in ByteRange /\ ab[3] \in ByteRange
  BY <1>2
<1>3. S \in SUBSET AckBytes
  BY DEF Kept
<1>4. P0 \in Seq(ByteRange) /\ n0 \in 4 .. 5
  BY FixedParts DEF WidthOf
<1> HIDE DEF P0, S
<1>5. /\ P1 \in Seq(ByteRange)
      /\ 0 \notin S => n1 = n0
      /\ 0 \in S => n1 = n0 + 1 /\ P1[n0 + 1] = ab[0]
      /\ \A k \in 1 .. n0 : P1[k] = P0[k]
  <2>1. /\ P1 \in Seq(ByteRange)
        /\ ab[0] = 255 => n1 = n0
        /\ ab[0] # 255 => n1 = n0 + 1 /\ P1[n0 + 1] = ab[0]
        /\ \A k \in 1 .. n0 : P1[k] = P0[k]
    BY <1>14, <1>4, Elision
  <2> HIDE DEF P1, n1, n0
  <2> QED BY <1>2, <2>1
<1> HIDE DEF P1
<1>6. /\ P2 \in Seq(ByteRange)
      /\ 1 \notin S => n2 = n1
      /\ 1 \in S => n2 = n1 + 1 /\ P2[n1 + 1] = ab[1]
      /\ \A k \in 1 .. n1 : P2[k] = P1[k]
  <2>1. /\ P2 \in Seq(ByteRange)
        /\ ab[1] = 255 => n2 = n1
        /\ ab[1] # 255 => n2 = n1 + 1 /\ P2[n1 + 1] = ab[1]
        /\ \A k \in 1 .. n1 : P2[k] = P1[k]
    BY <1>14, <1>5, Elision
  <2> HIDE DEF P2, n2, n1
  <2> QED BY <1>2, <2>1
<1> HIDE DEF P2
<1>7. /\ P3 \in Seq(ByteRange)
      /\ 2 \notin S => n3 = n2
      /\ 2 \in S => n3 = n2 + 1 /\ P3[n2 + 1] = ab[2]
      /\ \A k \in 1 .. n2 : P3[k] = P2[k]
  <2>1. /\ P3 \in Seq(ByteRange)
        /\ ab[2] = 255 => n3 = n2
        /\ ab[2] # 255 => n3 = n2 + 1 /\ P3[n2 + 1] = ab[2]
        /\ \A k \in 1 .. n2 : P3[k] = P2[k]
    BY <1>14, <1>6, Elision
  <2> HIDE DEF P3, n3, n2
  <2> QED BY <1>2, <2>1
<1> HIDE DEF P3
<1>8. /\ P4 \in Seq(ByteRange)
      /\ 3 \notin S => n4 = n3
      /\ 3 \in S => n4 = n3 + 1 /\ P4[n3 + 1] = ab[3]
      /\ \A k \in 1 .. n3 : P4[k] = P3[k]
  <2>1. /\ P4 \in Seq(ByteRange)
        /\ ab[3] = 255 => n4 = n3
        /\ ab[3] # 255 => n4 = n3 + 1 /\ P4[n3 + 1] = ab[3]
        /\ \A k \in 1 .. n3 : P4[k] = P3[k]
    BY <1>14, <1>7, Elision
  <2> HIDE DEF P4, n4, n3
  <2> QED BY <1>2, <2>1
<1> HIDE DEF P4, n0, n1, n2, n3, n4
<1>9. /\ n0 \in 4 .. 5 /\ n0 <= n1 /\ n1 <= n2 /\ n2 <= n3 /\ n3 <= n4
      /\ n1 \in 4 .. 6 /\ n2 \in 4 .. 7 /\ n3 \in 4 .. 8 /\ n4 \in 4 .. 9
  <2>1. n0 \in 4 .. 5 /\ n1 \in n0 .. n0 + 1
    BY <1>4, <1>5
  <2>2. n2 \in n1 .. n1 + 1
    BY <1>6, <2>1
  <2>3. n3 \in n2 .. n2 + 1
    BY <1>7, <2>1, <2>2
  <2>4. n4 \in n3 .. n3 + 1
    BY <1>8, <2>1, <2>2, <2>3
  <2> QED BY <2>1, <2>2, <2>3, <2>4
<1>10. /\ n1 = n0 + Rank(S, 0) /\ n2 = n0 + Rank(S, 1) /\ n3 = n0 + Rank(S, 2)
       /\ n4 = n0 + Rank(S, 3) /\ Cardinality(S) = Rank(S, 3)
       /\ Rank(S, 0) \in Nat /\ Rank(S, 1) \in Nat /\ Rank(S, 2) \in Nat /\ Rank(S, 3) \in Nat
  <2>1. /\ \A i \in 0 .. 3 : Rank(S, i) \in Nat
        /\ 0 \in S => Rank(S, 0) = 1
        /\ 0 \notin S => Rank(S, 0) = 0
        /\ \A i \in 0 .. 2 : /\ i + 1 \in S => Rank(S, i + 1) = Rank(S, i) + 1
                             /\ i + 1 \notin S => Rank(S, i + 1) = Rank(S, i)
        /\ Cardinality(S) = Rank(S, 3)
    BY <1>3, Ranks
  <2>2. /\ 1 \in S => Rank(S, 1) = Rank(S, 0) + 1
        /\ 1 \notin S => Rank(S, 1) = Rank(S, 0)
    BY <2>1, 0 \in 0 .. 2, 0 + 1 = 1
  <2>3. /\ 2 \in S => Rank(S, 2) = Rank(S, 1) + 1
        /\ 2 \notin S => Rank(S, 2) = Rank(S, 1)
    BY <2>1, 1 \in 0 .. 2, 1 + 1 = 2
  <2>4. /\ 3 \in S => Rank(S, 3) = Rank(S, 2) + 1
        /\ 3 \notin S => Rank(S, 3) = Rank(S, 2)
    BY <2>1, 2 \in 0 .. 2, 2 + 1 = 3
  <2>9. Rank(S, 0) \in Nat /\ Rank(S, 1) \in Nat /\ Rank(S, 2) \in Nat /\ Rank(S, 3) \in Nat
    BY <2>1, 0 \in 0 .. 3, 1 \in 0 .. 3, 2 \in 0 .. 3, 3 \in 0 .. 3
  <2>5. n1 = n0 + Rank(S, 0)
    BY <1>5, <1>9, <2>1
  <2>6. n2 = n0 + Rank(S, 1)
    BY <1>6, <1>9, <2>2, <2>5, <2>9
  <2>7. n3 = n0 + Rank(S, 2)
    BY <1>7, <1>9, <2>3, <2>6, <2>9
  <2>8. n4 = n0 + Rank(S, 3)
    BY <1>8, <1>9, <2>4, <2>7, <2>9
  <2> QED BY <2>1, <2>5, <2>6, <2>7, <2>8, <2>9
<1>15. /\ 0 \in S => n1 = n0 + 1 /\ P1[n0 + 1] = ab[0]
       /\ 1 \in S => n2 = n1 + 1 /\ P2[n1 + 1] = ab[1]
       /\ 2 \in S => n3 = n2 + 1 /\ P3[n2 + 1] = ab[2]
       /\ 3 \in S => n4 = n3 + 1 /\ P4[n3 + 1] = ab[3]
  BY <1>5, <1>6, <1>7, <1>8
<1>11. \A k \in 1 .. n0 : P4[k] = P0[k]
  <2> TAKE k \in 1 .. n0
  <2>1. k \in 1 .. n1 /\ k \in 1 .. n2 /\ k \in 1 .. n3
    BY <1>9
  <2> QED BY <1>5, <1>6, <1>7, <1>8, <2>1
<1>12. ASSUME NEW i \in S
       PROVE  \E m \in 1 .. n4 - n0 : m = Rank(S, i) /\ P4[n0 + m] = ab[i]
  <2>1. i = 0 \/ i = 1 \/ i = 2 \/ i = 3
    BY <1>3 DEF AckBytes
  <2>2. CASE i = 0
    <3>1. n1 = n0 + 1 /\ n1 \in 1 .. n1 /\ n1 \in 1 .. n2 /\ n1 \in 1 .. n3 /\ Rank(S, 0) = 1
      BY <1>9, <1>10, <1>15, <2>2
    <3>2. P4[n1] = ab[0]
      BY <1>15, <1>5, <1>6, <1>7, <1>8, <2>2, <3>1
    <3> QED BY <1>9, <2>2, <3>1, <3>2
  <2>3. CASE i = 1
    <3>1. n2 = n1 + 1 /\ n2 \in 1 .. n2 /\ n2 \in 1 .. n3 /\ Rank(S, 1) = n2 - n0
      BY <1>9, <1>10, <1>15, <2>3
    <3>2. P4[n2] = ab[1]
      BY <1>15, <1>6, <1>7, <1>8, <2>3, <3>1
    <3> QED BY <1>9, <2>3, <3>1, <3>2
  <2>4. CASE i = 2
    <3>1. n3 = n2 + 1 /\ n3 \in 1 .. n3 /\ Rank(S, 2) = n3 - n0
      BY <1>9, <1>10, <1>15, <2>4
    <3>2. P4[n3] = ab[2]
      BY <1>15, <1>7, <1>8, <2>4, <3>1
    <3> QED BY <1>9, <2>4, <3>1, <3>2
  <2>5. CASE i = 3
    <3>1. n4 = n3 + 1 /\ Rank(S, 3) = n4 - n0 /\ P4[n4] = ab[3]
      BY <1>9, <1>10, <1>15, <2>5
    <3> QED BY <1>9, <2>5, <3>1
  <2> QED BY <2>1, <2>2, <2>3, <2>4, <2>5
<1>13. n4 = n0 + Cardinality(S) /\ n4 \in 4 .. 9 /\ n4 >= n0 /\ n4 - n0 = Cardinality(S)
  BY <1>9, <1>10
<1> QED BY <1>1, <1>8, <1>11, <1>12, <1>13 DEF P0, S, n0, n4

-----------------------------------------------------------------------------
(* What is read *)

\* The header that data starts with.
StartsWith(data, header) ==
  Len(header) <= Len(data) /\ \A k \in 1 .. Len(header) : data[k] = header[k]

\* Data that starts with a header as it is written reads as that header.
LEMMA ReadWritten ==
  ASSUME NEW s \in Uint16, NEW a \in Uint16, NEW ab \in AckBitsOf,
         NEW data \in Seq(ByteRange), StartsWith(data, WritePacketHeader(s, a, ab))
  PROVE  /\ Readable(data) /\ HeaderLength(data) = Len(WritePacketHeader(s, a, ab))
         /\ ReadPacketHeader(data) =
              [bytes |-> Len(WritePacketHeader(s, a, ab)),
               sequence |-> s, ack |-> a, ack_bits |-> ab]
<1> DEFINE W == WritePacketHeader(s, a, ab)
           n == Len(W)
           parts == Fixed(s, a, ab)
           w == WidthOf(s, a)
           S == Kept(ab)
           c == Cardinality(S)
<1>1. n <= Len(data) /\ \A k \in 1 .. n : data[k] = W[k]
  BY DEF StartsWith
<1>2. /\ Len(parts) = 3 + w /\ parts[1] = PrefixByte(s, a, ab)
      /\ parts[2] = Low(s) /\ parts[3] = High(s)
      /\ Close(s, a) => parts[4] = Difference(s, a)
      /\ ~Close(s, a) => parts[4] = Low(a) /\ parts[5] = High(a)
  BY FixedParts
<1>3. w \in 1 .. 2 /\ (Close(s, a) => w = 1) /\ (~Close(s, a) => w = 2)
  BY DEF WidthOf
<1>4. /\ W \in Seq(ByteRange) /\ n = Len(parts) + c /\ n \in 4 .. 9 /\ n >= Len(parts)
      /\ \A k \in 1 .. Len(parts) : W[k] = parts[k]
      /\ \A i \in S : \E m \in 1 .. n - Len(parts) : m = Rank(S, i) /\ W[Len(parts) + m] = ab[i]
  BY HeaderWritten
<1>5. c = n - (3 + w) /\ c \in Nat
  <2>1. IsFiniteSet(AckBytes)
    BY 0 \in Int, 3 \in Int, FS_Interval DEF AckBytes
  <2>2. S \subseteq AckBytes
    BY DEF Kept
  <2>3. c \in Nat
    BY <2>1, <2>2, FS_Subset, FS_CardinalityType
  <2> QED BY <1>2, <1>3, <1>4, <2>3
<1> HIDE DEF W, n, parts, w, S, c
<1>6. \A k \in 1 .. 3 + w : data[k] = parts[k]
  <2> TAKE k \in 1 .. 3 + w
  <2>1. k \in 1 .. Len(parts) /\ k \in 1 .. n
    BY <1>2, <1>3, <1>4
  <2> QED BY <1>1, <1>4, <2>1
<1>7. /\ data[1] = PrefixByte(s, a, ab) /\ data[2] = Low(s) /\ data[3] = High(s)
      /\ Close(s, a) => data[4] = Difference(s, a)
      /\ ~Close(s, a) => data[4] = Low(a) /\ data[5] = High(a)
  <2>1. 1 \in 1 .. 3 + w /\ 2 \in 1 .. 3 + w /\ 3 \in 1 .. 3 + w /\ 4 \in 1 .. 3 + w
    BY <1>3
  <2>2. ~Close(s, a) => 5 \in 1 .. 3 + w
    BY <1>3
  <2> QED BY <1>2, <1>6, <2>1, <2>2
<1>8. /\ ~Bit(data[1], 0) /\ Bit(data[1], 5) = Close(s, a)
      /\ \A i \in AckBytes : Bit(data[1], i + 1) = (i \in S)
  BY <1>7, Prefix DEF S
<1>9. Present(data) = S
  BY <1>8 DEF Present, S, Kept
<1>10. AckWidth(data) = w
  BY <1>8 DEF AckWidth, w, WidthOf
<1>11. HeaderLength(data) = n
  <2>1. HeaderLength(data) = 3 + w + c
    BY <1>9, <1>10 DEF HeaderLength, c
  <2> QED BY <1>3, <1>4, <1>5, <2>1
<1>12. Readable(data)
  <2>1. Len(data) \in Nat
    OBVIOUS
  <2> QED BY <1>1, <1>4, <1>8, <1>11, <2>1 DEF Readable
<1>13. Word(data[2], data[3]) = s
  BY <1>7, Words
<1>14. ReadAck(data) = a
  <2>1. CASE Close(s, a)
    BY <1>7, <1>8, <1>13, <2>1, Distances DEF ReadAck
  <2>2. CASE ~Close(s, a)
    BY <1>7, <1>8, <2>2, Words DEF ReadAck
  <2> QED BY <2>1, <2>2
<1>15. ReadAckBits(data) = ab
  <2>1. ReadAckBits(data) = [i \in AckBytes |-> IF i \in S THEN data[3 + w + Rank(S, i)] ELSE 255]
    BY <1>9, <1>10 DEF ReadAckBits, Rank
  <2>2. ASSUME NEW i \in S
        PROVE  data[3 + w + Rank(S, i)] = ab[i]
    <3>1. PICK m \in 1 .. n - Len(parts) : m = Rank(S, i) /\ W[Len(parts) + m] = ab[i]
      BY <1>4
    <3>2. 3 + w + m \in 1 .. n /\ Len(parts) + m = 3 + w + m
      BY <1>2, <1>3, <1>4
    <3> QED BY <1>1, <3>1, <3>2
  <2>3. ASSUME NEW i \in AckBytes, i \notin S
        PROVE  ab[i] = 255
    BY <2>3 DEF S, Kept
  <2>4. ab = [i \in AckBytes |-> ab[i]]
    BY DEF AckBitsOf
  <2> DEFINE f(i) == IF i \in S THEN data[3 + w + Rank(S, i)] ELSE 255
  <2>5. \A i \in AckBytes : f(i) = ab[i]
    BY <2>2, <2>3
  <2>6. ReadAckBits(data) = [i \in AckBytes |-> f(i)]
    BY <2>1
  <2> HIDE DEF f
  <2> QED BY <2>4, <2>5, <2>6
<1> QED BY <1>11, <1>12, <1>13, <1>14, <1>15 DEF ReadPacketHeader, W, n

\* What is read of any data has the types of the fields.
LEMMA ReadType ==
  ASSUME NEW data \in Seq(ByteRange), Readable(data)
  PROVE  /\ ReadPacketHeader(data) \in Headers
         /\ ReadPacketHeader(data).bytes = HeaderLength(data)
         /\ HeaderLength(data) = 3 + AckWidth(data) + Cardinality(Present(data))
         /\ HeaderLength(data) \in 4 .. 9 /\ HeaderLength(data) <= Len(data)
         /\ AckWidth(data) \in 1 .. 2 /\ Cardinality(Present(data)) \in 0 .. 4
<1> DEFINE S == Present(data)
           w == AckWidth(data)
           n == HeaderLength(data)
<1>1. S \in SUBSET AckBytes
  BY DEF Present
<1>2. /\ \A i \in 0 .. 3 : Rank(S, i) \in Nat
      /\ 0 \in S => Rank(S, 0) = 1
      /\ 0 \notin S => Rank(S, 0) = 0
      /\ \A i \in 0 .. 2 : /\ i + 1 \in S => Rank(S, i + 1) = Rank(S, i) + 1
                           /\ i + 1 \notin S => Rank(S, i + 1) = Rank(S, i)
      /\ Cardinality(S) = Rank(S, 3)
  BY <1>1, Ranks
<1>3. w \in 1 .. 2
  BY DEF AckWidth
<1>4. n = 3 + w + Cardinality(S)
  BY DEF HeaderLength
<1>5. Len(data) \in Nat /\ Len(data) >= 3 /\ n <= Len(data)
  <2>1. Len(data) \in Nat /\ Len(data) >= 3 /\ Len(data) >= n
    BY DEF Readable
  <2> QED BY <1>2, <1>3, <1>4, <2>1
<1>6. ReadPacketHeader(data) = [bytes |-> n, sequence |-> Word(data[2], data[3]),
                                ack |-> ReadAck(data), ack_bits |-> ReadAckBits(data)]
  BY DEF ReadPacketHeader
<1>7. ReadAckBits(data) = [i \in AckBytes |-> IF i \in S THEN data[3 + w + Rank(S, i)] ELSE 255]
  BY DEF ReadAckBits, Rank
<1>8. \A k \in 1 .. Len(data) : data[k] \in ByteRange
  BY ElementOfSeq
<1>9. 2 \in 1 .. Len(data) /\ 3 \in 1 .. Len(data)
  BY <1>5
<1>10. Word(data[2], data[3]) \in Uint16
  BY <1>8, <1>9, Words
<1> HIDE DEF S, w, n
<1>11. Rank(S, 0) \in 0 .. 1 /\ Rank(S, 1) \in 0 .. 2 /\ Rank(S, 2) \in 0 .. 3 /\ Rank(S, 3) \in 0 .. 4
       /\ Rank(S, 0) <= Rank(S, 1) /\ Rank(S, 1) <= Rank(S, 2) /\ Rank(S, 2) <= Rank(S, 3)
       /\ (0 \in S => Rank(S, 0) >= 1) /\ (1 \in S => Rank(S, 1) >= 1)
       /\ (2 \in S => Rank(S, 2) >= 1) /\ (3 \in S => Rank(S, 3) >= 1)
  <2>1. Rank(S, 0) \in Nat /\ Rank(S, 1) \in Nat /\ Rank(S, 2) \in Nat /\ Rank(S, 3) \in Nat
    BY <1>2, 0 \in 0 .. 3, 1 \in 0 .. 3, 2 \in 0 .. 3, 3 \in 0 .. 3
  <2>2. /\ 1 \in S => Rank(S, 1) = Rank(S, 0) + 1
        /\ 1 \notin S => Rank(S, 1) = Rank(S, 0)
    BY <1>2, 0 \in 0 .. 2, 0 + 1 = 1
  <2>3. /\ 2 \in S => Rank(S, 2) = Rank(S, 1) + 1
        /\ 2 \notin S => Rank(S, 2) = Rank(S, 1)
    BY <1>2, 1 \in 0 .. 2, 1 + 1 = 2
  <2>4. /\ 3 \in S => Rank(S, 3) = Rank(S, 2) + 1
        /\ 3 \notin S => Rank(S, 3) = Rank(S, 2)
    BY <1>2, 2 \in 0 .. 2, 2 + 1 = 3
  <2>5. (0 \in S => Rank(S, 0) = 1) /\ (0 \notin S => Rank(S, 0) = 0)
    BY <1>2
  <2> QED BY <2>1, <2>2, <2>3, <2>4, <2>5
<1>12. Cardinality(S) \in 0 .. 4 /\ n \in 4 .. 9
  <2>1. Cardinality(S) = Rank(S, 3)
    BY <1>2
  <2> QED BY <1>3, <1>4, <1>11, <2>1
<1>13. ReadAck(data) \in Uint16
  <2>1. CASE Bit(data[1], 5)
    <3>1. data[4] \in ByteRange
      BY <1>4, <1>5, <1>8, <1>12, 4 \in 1 .. Len(data)
    <3> QED BY <1>10, <2>1, <3>1, Distances DEF ReadAck
  <2>2. CASE ~Bit(data[1], 5)
    <3>1. w = 2
      BY <2>2 DEF w, AckWidth
    <3>2. 4 \in 1 .. Len(data) /\ 5 \in 1 .. Len(data)
      BY <1>4, <1>5, <1>12, <3>1
    <3> QED BY <1>8, <2>2, <3>2, Words DEF ReadAck
  <2> QED BY <2>1, <2>2
<1>14. ReadAckBits(data) \in AckBitsOf
  <2>1. ASSUME NEW i \in S
        PROVE  data[3 + w + Rank(S, i)] \in ByteRange
    <3>1. i = 0 \/ i = 1 \/ i = 2 \/ i = 3
      BY <1>1 DEF AckBytes
    <3>2. Rank(S, i) \in 1 .. Cardinality(S)
      BY <1>2, <1>11, <3>1
    <3>3. 3 + w + Rank(S, i) \in 1 .. Len(data)
      BY <1>3, <1>4, <1>5, <1>12, <3>2
    <3> QED BY <1>8, <3>3
  <2> DEFINE f(i) == IF i \in S THEN data[3 + w + Rank(S, i)] ELSE 255
  <2>2. \A i \in AckBytes : f(i) \in ByteRange
    BY <2>1 DEF ByteRange
  <2>3. ReadAckBits(data) = [i \in AckBytes |-> f(i)]
    BY <1>7
  <2> HIDE DEF f
  <2> QED BY <2>2, <2>3 DEF AckBitsOf
<1>15. n \in Nat
  BY <1>12
<1>16. ReadPacketHeader(data) \in Headers /\ ReadPacketHeader(data).bytes = n
  BY <1>6, <1>10, <1>13, <1>14, <1>15 DEF Headers, AckBitsOf
<1> QED BY <1>3, <1>4, <1>5, <1>12, <1>16 DEF S, w, n

\* A header written anew reads the same, and is no longer than the one that
\* was read.
LEMMA Shortest ==
  ASSUME NEW data \in Seq(ByteRange), Readable(data),
         NEW h, h = ReadPacketHeader(data)
  PROVE  /\ ReadPacketHeader(Rewritten(h)) = [h EXCEPT !.bytes = Len(Rewritten(h))]
         /\ Len(Rewritten(h)) <= h.bytes /\ h.bytes <= 9
<1> DEFINE W == Rewritten(h)
           S == Present(data)
           K == Kept(h.ack_bits)
           w == WidthOf(h.sequence, h.ack)
<1>1. h \in Headers /\ h.bytes = 3 + AckWidth(data) + Cardinality(S) /\ h.bytes <= 9
      /\ AckWidth(data) \in 1 .. 2 /\ Cardinality(S) \in 0 .. 4 /\ HeaderLength(data) <= Len(data)
  BY ReadType
<1>2. h.sequence \in Uint16 /\ h.ack \in Uint16 /\ h.ack_bits \in AckBitsOf
  BY <1>1 DEF Headers, AckBitsOf
<1>3. /\ h.sequence = Word(data[2], data[3]) /\ h.ack = ReadAck(data)
      /\ h.ack_bits = ReadAckBits(data)
  BY DEF ReadPacketHeader
<1>4. W \in Seq(ByteRange) /\ Len(W) = Len(Fixed(h.sequence, h.ack, h.ack_bits)) + Cardinality(K)
  BY <1>2, HeaderWritten DEF Rewritten
<1>5. Len(Fixed(h.sequence, h.ack, h.ack_bits)) = 3 + w
  BY <1>2, FixedParts
<1>6. ReadPacketHeader(W) = [h EXCEPT !.bytes = Len(W)]
  <2>1. StartsWith(W, WritePacketHeader(h.sequence, h.ack, h.ack_bits))
    <3>1. Len(W) \in Nat
      BY <1>4
    <3> QED BY <3>1 DEF StartsWith, Rewritten
  <2>2. ReadPacketHeader(W) =
          [bytes |-> Len(W), sequence |-> h.sequence, ack |-> h.ack, ack_bits |-> h.ack_bits]
    BY <1>2, <1>4, <2>1, ReadWritten DEF Rewritten
  <2> HIDE DEF W
  <2> QED BY <1>1, <2>2 DEF Headers
<1>7. Cardinality(K) <= Cardinality(S) /\ Cardinality(K) \in Nat
  <2>1. K \subseteq S
    <3> SUFFICES ASSUME NEW i \in K
                 PROVE  i \in S
      OBVIOUS
    <3>1. i \in AckBytes /\ h.ack_bits[i] # 255
      BY DEF Kept
    <3> QED BY <1>3, <3>1 DEF ReadAckBits
  <2>2. IsFiniteSet(S)
    <3>1. IsFiniteSet(AckBytes) /\ S \subseteq AckBytes
      BY 0 \in Int, 3 \in Int, FS_Interval DEF AckBytes, Present
    <3> QED BY <3>1, FS_Subset
  <2> QED BY <2>1, <2>2, FS_Subset, FS_CardinalityType
<1>8. w <= AckWidth(data) /\ w \in 1 .. 2
  <2>1. CASE Bit(data[1], 5)
    <3>1. Len(data) \in Nat /\ 4 \in 1 .. Len(data)
      BY <1>1, ReadType
    <3>2. data[4] \in ByteRange
      BY <3>1, ElementOfSeq
    <3>3. h.ack = (h.sequence - data[4]) % SequenceModulus
      BY <1>3, <2>1 DEF ReadAck
    <3>4. Difference(h.sequence, h.ack) = data[4]
      BY <1>2, <3>2, <3>3, Distances
    <3>5. Close(h.sequence, h.ack)
      <4>1. data[4] <= 255
        BY <3>2, ByteIsNumber
      <4> QED BY <3>4, <4>1 DEF Close
    <3> QED BY <2>1, <3>5 DEF WidthOf, AckWidth
  <2>2. CASE ~Bit(data[1], 5)
    BY <2>2 DEF WidthOf, AckWidth
  <2> QED BY <2>1, <2>2
<1> HIDE DEF W, S, K, w
<1>9. Len(W) <= h.bytes
  BY <1>1, <1>4, <1>5, <1>7, <1>8
<1> QED BY <1>1, <1>6, <1>9 DEF W

\* What is left of data behind the first n bytes.
LEMMA Rests ==
  ASSUME NEW data \in Seq(ByteRange), NEW n \in 0 .. Len(data)
  PROVE  /\ Rest(data, n) \in Seq(ByteRange) /\ Len(Rest(data, n)) = Len(data) - n
         /\ \A k \in 1 .. Len(data) - n : Rest(data, n)[k] = data[n + k]
<1>1. Len(data) \in Nat /\ n \in Nat /\ n <= Len(data)
  OBVIOUS
<1>2. \A i \in n + 1 .. Len(data) : data[i] \in ByteRange
  <2> TAKE i \in n + 1 .. Len(data)
  <2>1. i \in 1 .. Len(data)
    BY <1>1
  <2> QED BY <2>1, ElementOfSeq
<1> DEFINE r == SubSeq(data, n + 1, Len(data))
           m == Len(data)
<1>3. n + 1 \in Int /\ m \in Int
  BY <1>1
<1>4. /\ r \in Seq(ByteRange) /\ Len(r) = IF n + 1 <= m THEN m - (n + 1) + 1 ELSE 0
      /\ \A k \in 1 .. m - (n + 1) + 1 : r[k] = data[n + 1 + k - 1]
  BY <1>2, <1>3, SubSeqProperties
<1> HIDE DEF r, m
<1>5. m \in Nat /\ n \in Nat /\ n <= m
  BY <1>1 DEF m
<1>6. Len(r) = m - n
  BY <1>4, <1>5
<1>7. ASSUME NEW k \in 1 .. m - n
      PROVE  r[k] = data[n + k]
  <2>1. k \in 1 .. m - (n + 1) + 1 /\ n + 1 + k - 1 = n + k
    BY <1>5
  <2> QED BY <1>4, <2>1
<1> QED BY <1>4, <1>6, <1>7 DEF Rest, r, m

\* The rest of the rest.
LEMMA RestOfRest ==
  ASSUME NEW data \in Seq(ByteRange), NEW k \in Nat, NEW n \in Nat, k + n <= Len(data)
  PROVE  Rest(data, k + n) = Rest(Rest(data, k), n)
<1> DEFINE m == Len(data)
           r == Rest(data, k)
           a == Rest(data, k + n)
           b == Rest(r, n)
<1>1. m \in Nat /\ k \in 0 .. m /\ k + n \in 0 .. m /\ n \in 0 .. m - k
  OBVIOUS
<1>2. r \in Seq(ByteRange) /\ Len(r) = m - k /\ \A i \in 1 .. m - k : r[i] = data[k + i]
  BY <1>1, Rests
<1>3. /\ a \in Seq(ByteRange) /\ Len(a) = m - (k + n)
      /\ \A i \in 1 .. m - (k + n) : a[i] = data[k + n + i]
  BY <1>1, Rests
<1> HIDE DEF m, r, a
<1>4. /\ b \in Seq(ByteRange) /\ Len(b) = m - k - n
      /\ \A i \in 1 .. m - k - n : b[i] = r[n + i]
  <2>1. r \in Seq(ByteRange) /\ n \in 0 .. Len(r)
    BY <1>1, <1>2
  <2>2. /\ b \in Seq(ByteRange) /\ Len(b) = Len(r) - n
        /\ \A i \in 1 .. Len(r) - n : b[i] = r[n + i]
    BY <2>1, Rests
  <2> QED BY <1>2, <2>2
<1> HIDE DEF b
<1>5. m - (k + n) = m - k - n /\ Len(a) = Len(b)
  BY <1>1, <1>3, <1>4
<1>6. ASSUME NEW i \in 1 .. Len(a)
      PROVE  a[i] = b[i]
  <2>1. /\ i \in 1 .. m - (k + n) /\ i \in 1 .. m - k - n /\ n + i \in 1 .. m - k
        /\ k + (n + i) = k + n + i
    BY <1>1, <1>3, <1>5
  <2>2. a[i] = data[k + n + i]
    BY <1>3, <2>1
  <2>3. b[i] = r[n + i]
    BY <1>4, <2>1
  <2>4. r[n + i] = data[k + (n + i)]
    BY <1>2, <2>1
  <2> QED BY <2>1, <2>2, <2>3, <2>4
<1>7. a = b
  BY <1>3, <1>4, <1>5, <1>6, SeqEqual
<1> QED BY <1>7 DEF a, b, r

\* What was put behind a sequence is the rest of it.
LEMMA RestOfBoth ==
  ASSUME NEW x \in Seq(ByteRange), NEW y \in Seq(ByteRange), NEW both, both = x \o y
  PROVE  /\ Rest(both, Len(x)) = y /\ SubSeq(both, 1, Len(x)) = x /\ StartsWith(both, x)
         /\ both \in Seq(ByteRange) /\ Len(both) = Len(x) + Len(y)
<1>1. /\ both \in Seq(ByteRange) /\ Len(both) = Len(x) + Len(y)
      /\ \A k \in 1 .. Len(x) : both[k] = x[k]
      /\ \A k \in 1 .. Len(y) : both[Len(x) + k] = y[k]
  BY Places
<1>2. Len(x) \in Nat /\ Len(y) \in Nat
  OBVIOUS
<1>3. Len(x) \in 0 .. Len(both) /\ Len(both) - Len(x) = Len(y)
  BY <1>1, <1>2
<1> DEFINE r == Rest(both, Len(x))
           t == SubSeq(both, 1, Len(x))
<1>4. /\ r \in Seq(ByteRange) /\ Len(r) = Len(y)
      /\ \A k \in 1 .. Len(y) : r[k] = both[Len(x) + k]
  BY <1>1, <1>3, Rests
<1> HIDE DEF r
<1>5. r = y
  <2>1. \A k \in 1 .. Len(r) : r[k] = y[k]
    BY <1>1, <1>4
  <2> QED BY <1>4, <2>1, SeqEqual
<1>6. t = x
  <2>1. \A i \in 1 .. Len(x) : both[i] \in ByteRange
    BY <1>1, ElementOfSeq
  <2>2. 1 \in Int /\ Len(x) \in Int
    BY <1>2
  <2>3. /\ t \in Seq(ByteRange) /\ Len(t) = IF 1 <= Len(x) THEN Len(x) - 1 + 1 ELSE 0
        /\ \A k \in 1 .. Len(x) - 1 + 1 : t[k] = both[1 + k - 1]
    BY <2>1, <2>2, SubSeqProperties
  <2> HIDE DEF t
  <2>4. Len(t) = Len(x) /\ Len(x) - 1 + 1 = Len(x)
    BY <1>2, <2>3
  <2>5. ASSUME NEW k \in 1 .. Len(t)
        PROVE  t[k] = x[k]
    <3>1. k \in 1 .. Len(x) /\ 1 + k - 1 = k
      BY <2>4
    <3> QED BY <1>1, <2>3, <2>4, <3>1
  <2> QED BY <2>3, <2>4, <2>5, SeqEqual
<1>7. StartsWith(both, x)
  BY <1>1, <1>2 DEF StartsWith
<1> QED BY <1>1, <1>5, <1>6, <1>7 DEF r

-----------------------------------------------------------------------------
(* Fragments *)

\* The packet header in fragment 0.
Embedded(data) == ReadPacketHeader(Rest(data, 5))

\* How many bytes of payload a fragment has.
PayloadBytes(data) == Len(data) - 5 - (IF data[4] = 0 THEN Embedded(data).bytes ELSE 0)

\* The checks of read_fragment_header.
FragmentAccepted(data) ==
  /\ Len(data) >= 5 /\ data[1] = 1 /\ data[5] + 1 <= MaxFragments /\ data[4] < data[5] + 1
  /\ data[4] = 0 => /\ Embedded(data) # None
                    /\ Embedded(data).sequence = Word(data[2], data[3])
                    /\ Canonical(Embedded(data), Rest(data, 5))
  /\ PayloadBytes(data) <= FragmentSize
  /\ data[4] # data[5] => PayloadBytes(data) = FragmentSize

\* What is read of a fragment.
FragmentFields(data) ==
  [bytes |-> 5, fragment_id |-> data[4], num_fragments |-> data[5] + 1,
   sequence |-> Word(data[2], data[3]),
   ack |-> IF data[4] = 0 THEN Embedded(data).ack ELSE 0,
   ack_bits |-> IF data[4] = 0 THEN Embedded(data).ack_bits ELSE [i \in AckBytes |-> 0]]

\* The first bytes of a fragment.
LEMMA FirstBytes ==
  ASSUME NEW data \in Seq(ByteRange), Len(data) >= 5
  PROVE  /\ data[1] \in ByteRange /\ data[2] \in ByteRange /\ data[3] \in ByteRange
         /\ data[4] \in ByteRange /\ data[5] \in ByteRange /\ data[4] \in Int /\ data[5] \in Int
         /\ Word(data[2], data[3]) \in Uint16
         /\ Rest(data, 5) \in Seq(ByteRange) /\ Len(Rest(data, 5)) = Len(data) - 5
<1>1. Len(data) \in Nat
  OBVIOUS
<1>2. /\ 1 \in 1 .. Len(data) /\ 2 \in 1 .. Len(data) /\ 3 \in 1 .. Len(data)
      /\ 4 \in 1 .. Len(data) /\ 5 \in 1 .. Len(data) /\ 5 \in 0 .. Len(data)
  BY <1>1
<1>3. /\ data[1] \in ByteRange /\ data[2] \in ByteRange /\ data[3] \in ByteRange
      /\ data[4] \in ByteRange /\ data[5] \in ByteRange
  BY <1>2, ElementOfSeq
<1>4. data[4] \in Int /\ data[5] \in Int
  BY <1>3, ByteIsNumber
<1>5. Word(data[2], data[3]) \in Uint16
  BY <1>3, Words
<1>6. Rest(data, 5) \in Seq(ByteRange) /\ Len(Rest(data, 5)) = Len(data) - 5
  BY <1>2, Rests
<1> QED BY <1>3, <1>4, <1>5, <1>6

\* A record of fields is a header, hence not None.
LEMMA FieldsAreHeaders ==
  /\ \A h \in Headers \cup FragmentHeaders : h # None
  /\ \A s \in Uint16 : [bytes |-> 0, sequence |-> s, ack |-> 0,
                        ack_bits |-> [i \in AckBytes |-> 0]] \in Headers
<1>1. 0 \in Uint16 /\ 0 \in ByteRange
  BY TwoBytes DEF Uint16, ByteRange
<1>2. [i \in AckBytes |-> 0] \in [AckBytes -> ByteRange]
  BY <1>1
<1> QED BY <1>1, <1>2, WireAssumption DEF Headers

\* read_fragment_header, check by check.
LEMMA FragmentRead ==
  ASSUME NEW data \in Seq(ByteRange)
  PROVE  ReadFragmentHeader(data) = IF FragmentAccepted(data) THEN FragmentFields(data) ELSE None
<1>1. CASE ~(Len(data) >= 5)
  BY <1>1 DEF ReadFragmentHeader, FragmentAccepted
<1>2. CASE Len(data) >= 5
  <2>1. data[4] \in Int /\ data[5] \in Int /\ data[5] + 1 - 1 = data[5]
        /\ Word(data[2], data[3]) \in Uint16
    BY <1>2, FirstBytes
  <2> DEFINE other == [bytes |-> 0, sequence |-> Word(data[2], data[3]), ack |-> 0,
                       ack_bits |-> [i \in AckBytes |-> 0]]
  <2>2. other # None
    BY <2>1, FieldsAreHeaders
  <2>3. CASE data[4] = 0
    BY <1>2, <2>1, <2>3
       DEF ReadFragmentHeader, FragmentAccepted, FragmentFields, Embedded, PayloadBytes
  <2>4. CASE data[4] # 0
    BY <1>2, <2>1, <2>2, <2>4
       DEF ReadFragmentHeader, FragmentAccepted, FragmentFields, Embedded, PayloadBytes
  <2> QED BY <2>3, <2>4
<1> QED BY <1>1, <1>2

\* What an accepted fragment 0 has in it.
LEMMA EmbeddedHeader ==
  ASSUME NEW data \in Seq(ByteRange), FragmentAccepted(data), data[4] = 0
  PROVE  LET h == Embedded(data)
             n == HeaderLength(Rest(data, 5))
         IN  /\ h \in Headers /\ h.bytes = n /\ n \in 4 .. 9 /\ n <= Len(data) - 5
             /\ Len(Rewritten(h)) = n
<1>1. Len(data) >= 5 /\ Embedded(data) # None /\ Canonical(Embedded(data), Rest(data, 5))
  BY DEF FragmentAccepted
<1>2. Rest(data, 5) \in Seq(ByteRange) /\ Len(Rest(data, 5)) = Len(data) - 5
  BY <1>1, FirstBytes
<1>3. Readable(Rest(data, 5))
  BY <1>1 DEF Embedded, ReadPacketHeader
<1>4. /\ Embedded(data) \in Headers /\ Embedded(data).bytes = HeaderLength(Rest(data, 5))
      /\ HeaderLength(Rest(data, 5)) \in 4 .. 9 /\ HeaderLength(Rest(data, 5)) <= Len(data) - 5
  BY <1>2, <1>3, ReadType DEF Embedded
<1>5. Len(Rewritten(Embedded(data))) = Embedded(data).bytes
  BY <1>1 DEF Canonical
<1> QED BY <1>4, <1>5

\* An accepted fragment has a payload of its size behind its headers.
LEMMA FragmentSizes ==
  ASSUME NEW data \in Seq(ByteRange), FragmentAccepted(data)
  PROVE  LET f == ReadFragmentHeader(data)
             skipped == IF data[4] = 0 THEN HeaderLength(Rest(data, 5)) ELSE 0
         IN  /\ f.bytes = 5 /\ f.fragment_id = data[4] /\ f.num_fragments = data[5] + 1
             /\ skipped \in Nat /\ 5 + skipped \in 0 .. Len(data)
             /\ PayloadBytes(data) = Len(data) - (5 + skipped)
             /\ data[4] = 0 => Len(Rewritten(f)) = skipped
             /\ StoredPayload(f, data) = Rest(data, 5 + skipped)
             /\ Len(StoredPayload(f, data)) = PayloadBytes(data)
<1> DEFINE f == ReadFragmentHeader(data)
           skipped == IF data[4] = 0 THEN HeaderLength(Rest(data, 5)) ELSE 0
<1>1. f = FragmentFields(data)
  BY FragmentRead
<1>2. /\ f.bytes = 5 /\ f.fragment_id = data[4] /\ f.num_fragments = data[5] + 1
      /\ f.sequence = Word(data[2], data[3])
      /\ data[4] = 0 => f.ack = Embedded(data).ack /\ f.ack_bits = Embedded(data).ack_bits
  BY <1>1 DEF FragmentFields
<1>3. Len(data) \in Nat /\ Len(data) >= 5
  BY DEF FragmentAccepted
<1>4. /\ skipped \in Nat /\ 5 + skipped \in 0 .. Len(data)
      /\ PayloadBytes(data) = Len(data) - (5 + skipped)
      /\ data[4] = 0 => Len(Rewritten(f)) = skipped
  <2>1. CASE data[4] = 0
    <3> DEFINE n == HeaderLength(Rest(data, 5))
    <3>1. /\ Embedded(data).bytes = n /\ n \in 4 .. 9 /\ n <= Len(data) - 5
          /\ Len(Rewritten(Embedded(data))) = n
      BY <2>1, EmbeddedHeader
    <3>2. Rewritten(f) = Rewritten(Embedded(data))
      BY <1>2, <2>1 DEF Rewritten, FragmentAccepted
    <3>3. PayloadBytes(data) = Len(data) - 5 - n
      BY <2>1, <3>1 DEF PayloadBytes
    <3> HIDE DEF n, f
    <3>4. skipped = n
      BY <2>1 DEF n
    <3> QED BY <1>3, <2>1, <3>1, <3>2, <3>3, <3>4
  <2>2. CASE data[4] # 0
    <3>1. PayloadBytes(data) = Len(data) - 5 - 0
      BY <2>2 DEF PayloadBytes
    <3> QED BY <1>3, <2>2, <3>1
  <2> QED BY <2>1, <2>2
<1>5. StoredPayload(f, data) = Rest(data, 5 + skipped)
  <2> HIDE DEF f
  <2>1. CASE data[4] = 0
    BY <1>2, <1>4, <2>1 DEF StoredPayload
  <2>2. CASE data[4] # 0
    BY <1>2, <2>2 DEF StoredPayload
  <2> QED BY <2>1, <2>2
<1> HIDE DEF f, skipped
<1>6. Len(Rest(data, 5 + skipped)) = Len(data) - (5 + skipped)
  BY <1>4, Rests
<1> QED BY <1>2, <1>4, <1>5, <1>6 DEF f, skipped

-----------------------------------------------------------------------------
(* What was written, and what is left of it *)

\* The fields of what is written.
LEMMA WrittenFields ==
  ASSUME NEW w \in Writes
  PROVE  /\ w.kind \in {"regular", "fragment"}
         /\ w.sequence \in Uint16 /\ w.ack \in Uint16 /\ w.ack_bits \in AckBitsOf
         /\ w.payload \in Seq(ByteRange) /\ Len(w.payload) \in Nat \ {0}
         /\ w.fragment_id \in Int /\ w.num_fragments \in Int
         /\ 0 <= w.fragment_id /\ w.fragment_id < w.num_fragments
         /\ w.num_fragments <= MaxFragments /\ w.num_fragments <= 256
         /\ w.kind = "fragment" =>
              /\ Len(w.payload) <= FragmentSize
              /\ w.fragment_id # w.num_fragments - 1 => Len(w.payload) = FragmentSize
<1>1. w \in Fields
  BY DEF Writes
<1>2. /\ w.kind \in {"regular", "fragment"} /\ w.sequence \in Sequences16 /\ w.ack \in Sequences16
      /\ w.ack_bits \in [AckBytes -> AckByteValues] /\ w.payload \in Payloads
      /\ w.fragment_id \in 0 .. MaxFragments - 1 /\ w.num_fragments \in 1 .. MaxFragments
  BY <1>1 DEF Fields
<1>3. w.sequence \in Uint16 /\ w.ack \in Uint16 /\ w.payload \in Seq(ByteRange) \ {<<>>}
  BY <1>2, WritesAssumption
<1>4. w.ack_bits \in AckBitsOf
  BY <1>2, WritesAssumption DEF AckBitsOf
<1>5. Len(w.payload) \in Nat \ {0}
  BY <1>3, EmptySeq
<1>6. \/ w.kind = "regular" /\ w.fragment_id = 0 /\ w.num_fragments = 1
      \/ /\ w.kind = "fragment" /\ w.fragment_id < w.num_fragments
         /\ Len(w.payload) <= FragmentSize
         /\ w.fragment_id # w.num_fragments - 1 => Len(w.payload) = FragmentSize
  BY DEF Writes
<1>7. /\ w.fragment_id \in Int /\ w.num_fragments \in Int
      /\ 0 <= w.fragment_id /\ w.fragment_id < w.num_fragments
      /\ w.num_fragments <= MaxFragments /\ w.num_fragments <= 256
  BY <1>2, <1>6, WireAssumption
<1> QED BY <1>2, <1>3, <1>4, <1>5, <1>6, <1>7

\* The five bytes before a fragment.
LEMMA FragmentPrefix ==
  ASSUME NEW w \in Writes
  PROVE  LET first == WriteFragmentHeader(w.sequence, w.fragment_id, w.num_fragments)
         IN  /\ first \in Seq(ByteRange) /\ Len(first) = 5
             /\ first[1] = 1 /\ first[2] = Low(w.sequence) /\ first[3] = High(w.sequence)
             /\ first[4] = w.fragment_id /\ first[5] = w.num_fragments - 1
<1>1. Low(w.sequence) \in ByteRange /\ High(w.sequence) \in ByteRange
  BY WrittenFields, Words
<1> DEFINE id == w.fragment_id
           last == w.num_fragments - 1
<1>2. id \in ByteRange /\ last \in ByteRange /\ 1 \in ByteRange
  <2> DEFINE num == w.num_fragments
  <2>1. id \in Int /\ num \in Int /\ 0 <= id /\ id < num /\ num <= 256
    BY WrittenFields
  <2> HIDE DEF id, num
  <2>2. id \in 0 .. 255 /\ num - 1 \in 0 .. 255 /\ 1 \in 0 .. 255
    BY <2>1
  <2> QED BY <2>2 DEF ByteRange, num
<1> HIDE DEF id, last
<1>3. WriteFragmentHeader(w.sequence, w.fragment_id, w.num_fragments)
        = <<1, Low(w.sequence), High(w.sequence), id, last>>
  BY DEF WriteFragmentHeader, id, last
<1> QED BY <1>1, <1>2, <1>3 DEF id, last

\* What stands between the five bytes and the payload.
Between(w) ==
  IF w.fragment_id = 0 THEN WritePacketHeader(w.sequence, w.ack, w.ack_bits) ELSE <<>>

\* A written datagram is its prefix, and what is behind.
LEMMA WrittenBytes ==
  ASSUME NEW w \in Writes
  PROVE  /\ WritePacketHeader(w.sequence, w.ack, w.ack_bits) \in Seq(ByteRange)
         /\ Len(WritePacketHeader(w.sequence, w.ack, w.ack_bits)) \in 4 .. 9
         /\ Between(w) \in Seq(ByteRange) /\ Len(Between(w)) \in Nat
         /\ Between(w) \o w.payload \in Seq(ByteRange)
         /\ w.kind = "regular" =>
              Bytes(w) = WritePacketHeader(w.sequence, w.ack, w.ack_bits) \o w.payload
         /\ w.kind = "fragment" =>
              Bytes(w) = WriteFragmentHeader(w.sequence, w.fragment_id, w.num_fragments)
                           \o (Between(w) \o w.payload)
         /\ Bytes(w) \in Seq(ByteRange) \ {<<>>}
<1> DEFINE W == WritePacketHeader(w.sequence, w.ack, w.ack_bits)
           F == WriteFragmentHeader(w.sequence, w.fragment_id, w.num_fragments)
           B == Between(w)
           p == w.payload
<1>1. W \in Seq(ByteRange) /\ Len(W) \in 4 .. 9
  BY WrittenFields, HeaderWritten
<1>2. B \in Seq(ByteRange) /\ Len(B) \in Nat
  BY <1>1 DEF Between
<1>3. p \in Seq(ByteRange) /\ Len(p) \in Nat \ {0}
  BY WrittenFields
<1>4. F \in Seq(ByteRange) /\ Len(F) = 5
  BY FragmentPrefix
<1>5. w.kind = "regular" => Bytes(w) = W \o p
  BY DEF Bytes
<1>6. w.kind = "fragment" => Bytes(w) = (F \o B) \o p
  BY DEF Bytes, Between
<1> HIDE DEF W, F, B, p
<1>7. /\ (F \o B) \o p = F \o (B \o p)
      /\ B \o p \in Seq(ByteRange)
      /\ F \o (B \o p) \in Seq(ByteRange)
      /\ Len(F \o (B \o p)) = Len(F) + (Len(B) + Len(p))
  <2>1. F \in Seq(ByteRange) /\ B \in Seq(ByteRange) /\ p \in Seq(ByteRange)
    BY <1>2, <1>3, <1>4
  <2>2. \A x, y, z \in Seq(ByteRange) :
          /\ (x \o y) \o z = x \o (y \o z)
          /\ y \o z \in Seq(ByteRange)
          /\ x \o (y \o z) \in Seq(ByteRange)
          /\ Len(x \o (y \o z)) = Len(x) + (Len(y) + Len(z))
    BY Threes, ThreeSequences
  <2> QED BY <2>1, <2>2, Zenon
<1>8. W \o p \in Seq(ByteRange) /\ Len(W \o p) = Len(W) + Len(p)
  BY <1>1, <1>3, Places
<1> DEFINE Wp == W \o p
           FBp == F \o (B \o p)
<1> DEFINE lW == Len(W)
           lF == Len(F)
           lB == Len(B)
           lp == Len(p)
<1>14. Len(Wp) # 0 /\ Len(FBp) # 0
  <2>1. /\ lW \in 4 .. 9 /\ lp \in Nat \ {0} /\ lF = 5 /\ lB \in Nat
        /\ Len(Wp) = lW + lp /\ Len(FBp) = lF + (lB + lp)
    BY <1>1, <1>2, <1>3, <1>4, <1>7, <1>8
  <2> HIDE DEF lW, lF, lB, lp, Wp, FBp
  <2> QED BY <2>1
<1>10. Bytes(w) \in Seq(ByteRange) /\ Len(Bytes(w)) # 0
  <2>1. CASE w.kind = "regular"
    <3>1. Bytes(w) = Wp /\ Wp \in Seq(ByteRange)
      BY <1>5, <1>8, <2>1
    <3> HIDE DEF Wp
    <3> QED BY <1>14, <3>1
  <2>2. CASE w.kind = "fragment"
    <3>1. Bytes(w) = FBp /\ FBp \in Seq(ByteRange)
      BY <1>6, <1>7, <2>2
    <3> HIDE DEF FBp
    <3> QED BY <1>14, <3>1
  <2> QED BY <2>1, <2>2, WrittenFields
<1>11. Bytes(w) # <<>>
  BY <1>10, EmptySeq
<1> QED BY <1>1, <1>2, <1>5, <1>6, <1>7, <1>10, <1>11 DEF W, F, B, p

\* A datagram is bytes, at least one, and those written until it is damaged.
Delivered ==
  /\ written \in Writes
  /\ datagram \in Seq(ByteRange) \ {<<>>}
  /\ damage \in Nat
  /\ damage = 0 => datagram = Bytes(written)

\* A run keeps Delivered.
LEMMA DeliveredInvariant == Spec => []Delivered
<1>1. Init => Delivered
  <2> SUFFICES ASSUME Init
               PROVE  Delivered
    OBVIOUS
  <2>1. written \in Writes /\ datagram = Bytes(written) /\ damage = 0
    BY DEF Init
  <2>2. Bytes(written) \in Seq(ByteRange) \ {<<>>}
    BY <2>1, WrittenBytes
  <2>3. 0 \in Nat
    OBVIOUS
  <2> QED BY <2>1, <2>2, <2>3 DEF Delivered
<1>2. Delivered /\ [Next]_vars => Delivered'
  <2> SUFFICES ASSUME Delivered, [Next]_vars
               PROVE  Delivered'
    OBVIOUS
  <2>1. datagram \in Seq(ByteRange) /\ Len(datagram) \in Nat \ {0} /\ DOMAIN datagram = 1 .. Len(datagram)
    BY EmptySeq DEF Delivered
  <2>2. ASSUME NEW k \in DOMAIN datagram, NEW byte \in Overwrites, Overwrite(k, byte)
        PROVE  Delivered'
    <3>1. k \in 1 .. Len(datagram) /\ byte \in ByteRange
      BY <2>1, <2>2, WritesAssumption
    <3>2. datagram' \in Seq(ByteRange) /\ Len(datagram') = Len(datagram)
      BY <2>1, <2>2, <3>1, ExceptSeq DEF Overwrite
    <3>3. datagram' # <<>>
      BY <2>1, <3>2, EmptySeq
    <3>4. damage' \in Nat /\ damage' # 0 /\ written' = written
      BY <2>2 DEF Delivered, Overwrite
    <3> QED BY <3>2, <3>3, <3>4 DEF Delivered
  <2>3. ASSUME NEW n \in 1 .. Len(datagram) - 1, Cut(n)
        PROVE  Delivered'
    <3>1. n \in Int /\ 1 <= n /\ n <= Len(datagram)
      BY <2>1
    <3>2. \A i \in 1 .. n : datagram[i] \in ByteRange
      <4> TAKE i \in 1 .. n
      <4>1. i \in 1 .. Len(datagram)
        BY <2>1, <3>1
      <4> QED BY <2>1, <4>1, ElementOfSeq
    <3>3. datagram' \in Seq(ByteRange) /\ Len(datagram') = n
      <4>1. datagram' = SubSeq(datagram, 1, n)
        BY <2>3 DEF Cut
      <4>2. 1 \in Int /\ n - 1 + 1 = n
        BY <3>1
      <4>3. /\ SubSeq(datagram, 1, n) \in Seq(ByteRange)
            /\ Len(SubSeq(datagram, 1, n)) = IF 1 <= n THEN n - 1 + 1 ELSE 0
        BY <3>1, <3>2, <4>2, SubSeqProperties
      <4> QED BY <3>1, <4>1, <4>2, <4>3
    <3>4. datagram' # <<>>
      BY <3>1, <3>3, EmptySeq
    <3>5. damage' \in Nat /\ damage' # 0 /\ written' = written
      BY <2>3 DEF Delivered, Cut
    <3> QED BY <3>3, <3>4, <3>5 DEF Delivered
  <2>4. CASE UNCHANGED vars
    BY <2>4 DEF Delivered, vars
  <2> QED BY <2>2, <2>3, <2>4 DEF Next
<1> QED BY <1>1, <1>2, PTL DEF Spec

\* An accepted fragment reads as a fragment header.
LEMMA FragmentIsRead ==
  ASSUME NEW data \in Seq(ByteRange), FragmentAccepted(data)
  PROVE  FragmentFields(data) \in FragmentHeaders /\ ReadFragmentHeader(data) # None
<1>1. Len(data) >= 5
  BY DEF FragmentAccepted
<1>2. data[4] \in ByteRange /\ data[5] \in ByteRange /\ Word(data[2], data[3]) \in Uint16
  BY <1>1, FirstBytes
<1> DEFINE last == data[5]
<1>3. last + 1 \in 1 .. 256
  <2>1. last \in Int /\ 0 <= last /\ last <= 255
    BY <1>2, ByteIsNumber
  <2> HIDE DEF last
  <2> QED BY <2>1
<1> DEFINE ack == IF data[4] = 0 THEN Embedded(data).ack ELSE 0
           ack_bits == IF data[4] = 0 THEN Embedded(data).ack_bits ELSE [i \in AckBytes |-> 0]
<1>4. ack \in Uint16 /\ ack_bits \in [AckBytes -> ByteRange]
  <2>1. CASE data[4] = 0
    <3>1. Embedded(data) \in Headers
      BY <2>1, EmbeddedHeader
    <3> QED BY <2>1, <3>1 DEF Headers
  <2>2. CASE data[4] # 0
    <3>1. 0 \in Uint16 /\ 0 \in ByteRange
      BY TwoBytes DEF Uint16, ByteRange
    <3>2. [i \in AckBytes |-> 0] \in [AckBytes -> ByteRange]
      BY <3>1
    <3> QED BY <2>2, <3>1, <3>2
  <2> QED BY <2>1, <2>2
<1>5. FragmentFields(data) =
        [bytes |-> 5, fragment_id |-> data[4], num_fragments |-> last + 1,
         sequence |-> Word(data[2], data[3]), ack |-> ack, ack_bits |-> ack_bits]
  BY DEF FragmentFields
<1> HIDE DEF ack, ack_bits, last
<1>6. FragmentFields(data) \in FragmentHeaders
  BY <1>2, <1>3, <1>4, <1>5 DEF FragmentHeaders
<1> QED BY <1>6, FragmentRead, FieldsAreHeaders

\* The prefix byte of a fragment has flag 0, that of a regular packet does not.
LEMMA FragmentFlag == Bit(1, 0)
<1>1. Shifted(0) = 1 /\ 1 \div 1 = 1 /\ 1 % 2 = 1
  BY DEF Shifted
<1> QED BY <1>1 DEF Bit

\* A regular packet is read back as it was written.
LEMMA RegularBack ==
  ASSUME NEW w \in Writes, w.kind = "regular", NEW data, data = Bytes(w)
  PROVE  LET h == ReadPacketHeader(data)
         IN  /\ ~Bit(data[1], 0) /\ h # None
             /\ h.sequence = w.sequence /\ h.ack = w.ack /\ h.ack_bits = w.ack_bits
             /\ Rest(data, h.bytes) = w.payload
<1> DEFINE W == WritePacketHeader(w.sequence, w.ack, w.ack_bits)
           p == w.payload
           h == ReadPacketHeader(data)
<1>1. W \in Seq(ByteRange) /\ data = W \o p
  BY WrittenBytes
<1>2. /\ w.sequence \in Uint16 /\ w.ack \in Uint16 /\ w.ack_bits \in AckBitsOf
      /\ p \in Seq(ByteRange)
  BY WrittenFields
<1>3. Rest(data, Len(W)) = p /\ StartsWith(data, W) /\ data \in Seq(ByteRange)
  <2> HIDE DEF W, p
  <2> QED BY <1>1, <1>2, RestOfBoth
<1>4. /\ Readable(data)
      /\ h = [bytes |-> Len(W), sequence |-> w.sequence, ack |-> w.ack, ack_bits |-> w.ack_bits]
  BY <1>2, <1>3, ReadWritten
<1>5. h \in Headers
  BY <1>3, <1>4, ReadType
<1>6. h # None
  BY <1>5, FieldsAreHeaders
<1>7. ~Bit(data[1], 0)
  BY <1>4 DEF Readable
<1> HIDE DEF W, p
<1> QED BY <1>3, <1>4, <1>6, <1>7 DEF p

\* The five bytes and the rest of a written fragment.
LEMMA FragmentBytes ==
  ASSUME NEW w \in Writes, w.kind = "fragment", NEW data, data = Bytes(w)
  PROVE  /\ data \in Seq(ByteRange) /\ Len(data) = 5 + Len(Between(w) \o w.payload)
         /\ data[1] = 1 /\ Word(data[2], data[3]) = w.sequence
         /\ data[4] = w.fragment_id /\ data[5] = w.num_fragments - 1
         /\ Rest(data, 5) = Between(w) \o w.payload
<1> DEFINE F == WriteFragmentHeader(w.sequence, w.fragment_id, w.num_fragments)
           t == Between(w) \o w.payload
<1>1. /\ F \in Seq(ByteRange) /\ Len(F) = 5
      /\ F[1] = 1 /\ F[2] = Low(w.sequence) /\ F[3] = High(w.sequence)
      /\ F[4] = w.fragment_id /\ F[5] = w.num_fragments - 1
  BY FragmentPrefix
<1>2. t \in Seq(ByteRange) /\ data = F \o t
  BY WrittenBytes
<1> HIDE DEF F, t
<1>3. /\ Rest(data, Len(F)) = t /\ data \in Seq(ByteRange) /\ Len(data) = Len(F) + Len(t)
      /\ StartsWith(data, F)
  BY <1>1, <1>2, RestOfBoth
<1>4. \A k \in 1 .. 5 : data[k] = F[k]
  BY <1>1, <1>3 DEF StartsWith
<1>5. 1 \in 1 .. 5 /\ 2 \in 1 .. 5 /\ 3 \in 1 .. 5 /\ 4 \in 1 .. 5 /\ 5 \in 1 .. 5
  OBVIOUS
<1>6. Word(Low(w.sequence), High(w.sequence)) = w.sequence
  BY WrittenFields, Words
<1>7. Word(data[2], data[3]) = w.sequence
  BY <1>1, <1>4, <1>5, <1>6
<1> QED BY <1>1, <1>3, <1>4, <1>5, <1>7 DEF t

\* A fragment is accepted and read back as it was written.
LEMMA FragmentBack ==
  ASSUME NEW w \in Writes, w.kind = "fragment", NEW data, data = Bytes(w)
  PROVE  LET f == ReadFragmentHeader(data)
         IN  /\ Bit(data[1], 0) /\ f # None /\ f.sequence = w.sequence
             /\ f.fragment_id = 0 => f.ack = w.ack /\ f.ack_bits = w.ack_bits
             /\ StoredPayload(f, data) = w.payload
<1> DEFINE W == WritePacketHeader(w.sequence, w.ack, w.ack_bits)
           p == w.payload
           t == Between(w) \o p
           id == w.fragment_id
           num == w.num_fragments
           f == ReadFragmentHeader(data)
<1>1. /\ data \in Seq(ByteRange) /\ Len(data) = 5 + Len(t)
      /\ data[1] = 1 /\ Word(data[2], data[3]) = w.sequence
      /\ data[4] = id /\ data[5] = num - 1 /\ Rest(data, 5) = t
  BY FragmentBytes
<1>2. /\ w.sequence \in Uint16 /\ w.ack \in Uint16 /\ w.ack_bits \in AckBitsOf
      /\ p \in Seq(ByteRange) /\ Len(p) \in Nat /\ id \in Int /\ num \in Int
      /\ 0 <= id /\ id < num /\ num <= MaxFragments /\ num <= 256
      /\ Len(p) <= FragmentSize /\ (id # num - 1 => Len(p) = FragmentSize)
  BY WrittenFields
<1>3. W \in Seq(ByteRange) /\ Len(W) \in 4 .. 9 /\ t \in Seq(ByteRange) /\ Len(t) \in Nat
  <2>1. W \in Seq(ByteRange) /\ Len(W) \in 4 .. 9 /\ t \in Seq(ByteRange)
    BY WrittenBytes
  <2> HIDE DEF t
  <2>2. Len(t) \in Nat
    BY <2>1
  <2> QED BY <2>1, <2>2
<1>4. data[5] + 1 = num /\ data[4] < data[5] + 1 /\ Len(data) >= 5
  <2> HIDE DEF id, num, t
  <2> QED BY <1>1, <1>2, <1>3
<1>5. /\ id = 0 => /\ Embedded(data) # None /\ Embedded(data).sequence = w.sequence
                   /\ Embedded(data).ack = w.ack /\ Embedded(data).ack_bits = w.ack_bits
                   /\ Canonical(Embedded(data), Rest(data, 5))
      /\ PayloadBytes(data) = Len(p)
  <2>1. CASE id = 0
    <3>1. t = W \o p
      BY <2>1 DEF Between
    <3> DEFINE h == Embedded(data)
    <3> HIDE DEF W, t, p
    <3>2. /\ StartsWith(t, W) /\ SubSeq(t, 1, Len(W)) = W /\ Len(t) = Len(W) + Len(p)
      BY <1>2, <1>3, <3>1, RestOfBoth
    <3>3. /\ Readable(t)
          /\ h = [bytes |-> Len(W), sequence |-> w.sequence, ack |-> w.ack,
                  ack_bits |-> w.ack_bits]
      BY <1>1, <1>2, <1>3, <3>2, ReadWritten DEF W, Embedded
    <3>4. h # None
      BY <1>1, <1>3, <3>3, ReadType, FieldsAreHeaders DEF Embedded
    <3>5. Rewritten(h) = W
      BY <3>3 DEF Rewritten, W
    <3>6. Canonical(h, t)
      BY <3>2, <3>3, <3>5 DEF Canonical
    <3>7. PayloadBytes(data) = Len(data) - 5 - Len(W)
      BY <1>1, <2>1, <3>3 DEF PayloadBytes
    <3>8. PayloadBytes(data) = Len(p)
      <4> DEFINE lW == Len(W)
                 lp == Len(p)
                 lt == Len(t)
      <4>1. lW \in 4 .. 9 /\ lp \in Nat /\ lt = lW + lp
        BY <1>2, <1>3, <3>2
      <4>3. PayloadBytes(data) = 5 + lt - 5 - lW
        BY <1>1, <3>7
      <4> HIDE DEF lW, lp, lt
      <4>2. PayloadBytes(data) = lp
        BY <4>1, <4>3
      <4> QED BY <4>2 DEF lp
    <3> QED BY <1>1, <3>3, <3>4, <3>6, <3>8
  <2>2. CASE id # 0
    <3>1. t = p
      BY <1>2, <2>2, ConcatEmptySeq DEF Between
    <3>2. PayloadBytes(data) = 5 + Len(p) - 5 - 0
      BY <1>1, <2>2, <3>1 DEF PayloadBytes
    <3> DEFINE lp == Len(p)
    <3>3. lp \in Nat /\ PayloadBytes(data) = 5 + lp - 5 - 0
      BY <1>2, <3>2
    <3> HIDE DEF lp
    <3>4. PayloadBytes(data) = lp
      BY <3>3
    <3> QED BY <2>2, <3>4 DEF lp
  <2> QED BY <2>1, <2>2
<1>6. data[4] # data[5] => PayloadBytes(data) = FragmentSize
  BY <1>1, <1>2, <1>5
<1>7. FragmentAccepted(data)
  <2> HIDE DEF W, p, t
  <2> QED BY <1>1, <1>2, <1>4, <1>5, <1>6 DEF FragmentAccepted
<1>8. f # None /\ f = FragmentFields(data)
  BY <1>1, <1>7, FragmentIsRead, FragmentRead
<1>9. /\ f.fragment_id = id /\ f.sequence = w.sequence
      /\ id = 0 => f.ack = w.ack /\ f.ack_bits = w.ack_bits
  BY <1>1, <1>5, <1>8 DEF FragmentFields
<1>10. StoredPayload(f, data) = p
  <2> DEFINE F == WriteFragmentHeader(w.sequence, w.fragment_id, w.num_fragments)
             skipped == IF data[4] = 0 THEN HeaderLength(Rest(data, 5)) ELSE 0
  <2>1. StoredPayload(f, data) = Rest(data, 5 + skipped)
    BY <1>1, <1>7, FragmentSizes
  <2>2. CASE id = 0
    <3>1. t = W \o p
      BY <2>2 DEF Between
    <3> HIDE DEF W, t, p
    <3>2. StartsWith(t, W) /\ Rest(t, Len(W)) = p /\ Len(t) = Len(W) + Len(p)
      BY <1>2, <1>3, <3>1, RestOfBoth
    <3>3. HeaderLength(t) = Len(W)
      BY <1>2, <1>3, <3>2, ReadWritten DEF W
    <3>4. StoredPayload(f, data) = Rest(data, 5 + Len(W))
      BY <1>1, <2>1, <2>2, <3>3
    <3>5. Rest(data, 5 + Len(W)) = Rest(t, Len(W))
      BY <1>1, <1>3, <3>2, RestOfRest
    <3> QED BY <3>2, <3>4, <3>5
  <2>3. CASE id # 0
    <3>1. t = p
      BY <1>2, <2>3, ConcatEmptySeq DEF Between
    <3>2. StoredPayload(f, data) = Rest(data, 5)
      BY <1>1, <2>1, <2>3
    <3> QED BY <1>1, <3>1, <3>2
  <2> QED BY <2>2, <2>3
<1>11. Bit(data[1], 0)
  BY <1>1, FragmentFlag
<1> QED BY <1>8, <1>9, <1>10, <1>11 DEF p

-----------------------------------------------------------------------------
(* The properties of the port's codec *)

\* RoundTrip: what write_packet_header and send_packet write is read back
\* exactly, whatever sequence number, ack, ack_bits and payload it has.
THEOREM RoundTrips == Spec => []RoundTrip
<1>1. Delivered => RoundTrip
  <2> SUFFICES ASSUME Delivered, damage = 0
               PROVE  RoundTrip
    BY DEF RoundTrip
  <2>1. written \in Writes /\ datagram = Bytes(written)
    BY DEF Delivered
  <2>2. CASE written.kind = "regular"
    BY <2>1, <2>2, RegularBack DEF RoundTrip, IsRegular
  <2>3. CASE written.kind # "regular"
    <3>1. written.kind = "fragment"
      BY <2>1, <2>3, WrittenFields
    <3> QED BY <2>1, <2>3, <3>1, FragmentBack DEF RoundTrip, IsRegular
  <2> QED BY <2>2, <2>3
<1> QED BY <1>1, DeliveredInvariant, PTL

\* CanonicalIsShortest: a header that is read, from any bytes, is read the same
\* after it is written anew, and that form is no longer and fits the 9 bytes
\* that store_fragment reserves for it.
THEOREM ShortestHeader == Spec => []CanonicalIsShortest
<1>1. Delivered => CanonicalIsShortest
  <2> DEFINE h == ReadPacketHeader(datagram)
  <2> SUFFICES ASSUME Delivered, Readable(datagram)
               PROVE  /\ ReadPacketHeader(Rewritten(h)) = [h EXCEPT !.bytes = Len(Rewritten(h))]
                      /\ ReadPacketHeader(Rewritten(h)).bytes <= h.bytes /\ h.bytes <= 9
    BY DEF CanonicalIsShortest
  <2>1. h \in Headers
    BY ReadType DEF Delivered
  <2>2. [h EXCEPT !.bytes = Len(Rewritten(h))].bytes = Len(Rewritten(h))
    BY <2>1 DEF Headers
  <2>3. /\ ReadPacketHeader(Rewritten(h)) = [h EXCEPT !.bytes = Len(Rewritten(h))]
        /\ Len(Rewritten(h)) <= h.bytes /\ h.bytes <= 9
    BY Shortest DEF Delivered
  <2> HIDE DEF h
  <2> QED BY <2>2, <2>3
<1> QED BY <1>1, DeliveredInvariant, PTL

\* PayloadPlaced: store_fragment skips exactly the headers that
\* read_fragment_header accepted, and what is left has the fragment's size.
THEOREM PayloadsPlaced == Spec => []PayloadPlaced
<1>1. Delivered => PayloadPlaced
  <2> DEFINE f == ReadFragmentHeader(datagram)
             skipped == IF f.fragment_id = 0 THEN HeaderLength(Rest(datagram, 5)) ELSE 0
  <2> SUFFICES ASSUME Delivered, f # None
               PROVE  /\ StoredPayload(f, datagram) = Rest(datagram, 5 + skipped)
                      /\ Len(StoredPayload(f, datagram)) <= FragmentSize
                      /\ f.fragment_id < f.num_fragments - 1 =>
                           Len(StoredPayload(f, datagram)) = FragmentSize
    BY DEF PayloadPlaced
  <2>1. datagram \in Seq(ByteRange) /\ FragmentAccepted(datagram)
    BY FragmentRead DEF Delivered
  <2>2. /\ f.fragment_id = datagram[4] /\ f.num_fragments = datagram[5] + 1
        /\ StoredPayload(f, datagram)
             = Rest(datagram, 5 + (IF datagram[4] = 0 THEN HeaderLength(Rest(datagram, 5)) ELSE 0))
        /\ Len(StoredPayload(f, datagram)) = PayloadBytes(datagram)
    BY <2>1, FragmentSizes
  <2>3. /\ PayloadBytes(datagram) <= FragmentSize
        /\ datagram[4] # datagram[5] => PayloadBytes(datagram) = FragmentSize
        /\ Len(datagram) >= 5
    BY <2>1 DEF FragmentAccepted
  <2>4. datagram[4] \in Int /\ datagram[5] \in Int
    BY <2>1, <2>3, FirstBytes
  <2>5. f.fragment_id < f.num_fragments - 1 => datagram[4] # datagram[5]
    <3> DEFINE id == datagram[4]
               last == datagram[5]
    <3>1. id \in Int /\ last \in Int /\ f.fragment_id = id /\ f.num_fragments = last + 1
      BY <2>2, <2>4
    <3> HIDE DEF f, id, last
    <3>2. f.fragment_id < f.num_fragments - 1 => id # last
      BY <3>1
    <3> QED BY <3>2 DEF id, last
  <2> HIDE DEF f
  <2> QED BY <2>2, <2>3, <2>5
<1> QED BY <1>1, DeliveredInvariant, PTL

-----------------------------------------------------------------------------
(* The C side's reader and the port's *)

\* The flags and two-byte numbers are the same.
LEMMA SameParts ==
  /\ \A byte, k : C!Flagged(byte, k) = Bit(byte, k)
  /\ \A data : /\ C!ReadUint16(data, 1) = Word(data[2], data[3])
               /\ C!ReadUint16(data, 3) = Word(data[4], data[5])
               /\ C!From(data, 5) = Rest(data, 5)
  /\ C!SequenceModulus = SequenceModulus
<1>1. \A byte, k : C!Flagged(byte, k) = Bit(byte, k)
  BY DEF C!Flagged, Bit, C!Shifted, Shifted
<1>2. 1 + 1 = 2 /\ 1 + 2 = 3 /\ 3 + 1 = 4 /\ 3 + 2 = 5
  OBVIOUS
<1>3. \A data : /\ C!ReadUint16(data, 1) = Word(data[2], data[3])
                /\ C!ReadUint16(data, 3) = Word(data[4], data[5])
  BY <1>2 DEF C!ReadUint16, Word
<1>4. \A data : C!From(data, 5) = Rest(data, 5)
  BY DEF C!From, Rest
<1>5. C!SequenceModulus = SequenceModulus
  BY DEF C!SequenceModulus, SequenceModulus
<1> QED BY <1>1, <1>3, <1>4, <1>5

\* Both count the members of a set.
LEMMA SameCounting == \A S : C!Cardinality(S) = Cardinality(S)
BY DEF C!Cardinality, Cardinality

\* The flags from 1 count as many bytes as the bytes from 0.
LEMMA Shifts ==
  ASSUME NEW S \in SUBSET AckBytes, NEW i \in AckBytes
  PROVE  Cardinality({k \in {j \in 1 .. 4 : j - 1 \in S} : k <= i + 1}) = Rank(S, i)
<1> DEFINE low == {j \in S : j <= i}
           high == {k \in {j \in 1 .. 4 : j - 1 \in S} : k <= i + 1}
           f == [j \in low |-> j + 1]
<1>1. i \in Int /\ \A j \in S : j \in Int /\ 0 <= j /\ j <= 3
  BY DEF AckBytes
<1>2. IsFiniteSet(low)
  <2>1. IsFiniteSet(AckBytes)
    BY 0 \in Int, 3 \in Int, FS_Interval DEF AckBytes
  <2> QED BY <2>1, FS_Subset
<1>3. \A j \in low : j + 1 \in high
  BY <1>1
<1>4. \A k \in high : k - 1 \in low /\ (k - 1) + 1 = k
  BY <1>1
<1>5. \A j \in low : j \in Int
  BY <1>1
<1> HIDE DEF low, high
<1>6. f \in [low -> high]
  BY <1>3
<1>7. \A x, y \in low : f[x] = f[y] => x = y
  BY <1>5
<1>8. \A k \in high : \E j \in low : f[j] = k
  BY <1>4
<1> HIDE DEF f
<1>9. ExistsBijection(low, high)
  BY <1>6, <1>7, <1>8 DEF ExistsBijection, Bijection, Injection, Surjection, IsInjective
<1>10. Cardinality(high) = Cardinality(low)
  BY <1>2, <1>9, FS_Bijection
<1> QED BY <1>10 DEF high, low, Rank

\* The C reader of packet headers, check by check, and the port's are one.
LEMMA SameHeaderRead ==
  ASSUME NEW data
  PROVE  /\ C!ReadPacketHeader(data) = ReadPacketHeader(data)
         /\ C!HeaderBytes(data) = HeaderLength(data)
         /\ C!AfterAck(data) = 3 + AckWidth(data)
<1> DEFINE S == Present(data)
           T == C!Expected(data)
<1>1. S \in SUBSET AckBytes
  BY DEF Present
<1>2. T = {k \in 1 .. 4 : k - 1 \in S}
  <2>1. ASSUME NEW k \in 1 .. 4
        PROVE  Bit(data[1], k) <=> k - 1 \in S
    <3>1. k - 1 \in AckBytes /\ k - 1 + 1 = k
      BY DEF AckBytes
    <3>2. \A j \in AckBytes : j \in S <=> Bit(data[1], j + 1)
      BY DEF Present
    <3> HIDE DEF S
    <3> QED BY <3>1, <3>2
  <2>2. T = {k \in 1 .. 4 : Bit(data[1], k)}
    BY SameParts DEF C!Expected
  <2> HIDE DEF S, T
  <2> QED BY <2>1, <2>2
<1> HIDE DEF S, T
<1>3. \A i \in AckBytes : Cardinality({k \in T : k <= i + 1}) = Rank(S, i)
  BY <1>1, <1>2, Shifts
<1>4. Cardinality(T) = Cardinality(S)
  <2>1. 3 \in AckBytes /\ \A k \in T : k <= 3 + 1
    BY <1>2 DEF AckBytes
  <2>2. {k \in T : k <= 3 + 1} = T
    BY <2>1
  <2>3. Cardinality({k \in T : k <= 3 + 1}) = Rank(S, 3)
    BY <1>3, <2>1
  <2> QED BY <1>1, <2>2, <2>3, Ranks
<1>5. C!AfterAck(data) = 3 + AckWidth(data) /\ 3 + AckWidth(data) \in Int
  <2>1. C!Flagged(data[1], 5) = Bit(data[1], 5)
    BY SameParts
  <2> QED BY <2>1 DEF C!AfterAck, AckWidth
<1>6. C!HeaderBytes(data) = HeaderLength(data)
  <2>1. C!HeaderBytes(data) = C!AfterAck(data) + Cardinality(T)
    BY SameCounting DEF C!HeaderBytes, T
  <2>2. HeaderLength(data) = 3 + AckWidth(data) + Cardinality(S)
    BY DEF HeaderLength, S
  <2> QED BY <1>4, <1>5, <2>1, <2>2
<1>7. C!ReadAck(data) = ReadAck(data)
  BY SameParts DEF C!ReadAck, ReadAck
<1>8. C!ReadAckBits(data) = ReadAckBits(data)
  <2> DEFINE c(i) == IF i + 1 \in T
                     THEN data[C!AfterAck(data) + Cardinality({k \in T : k <= i + 1})] ELSE 255
             r(i) == IF i \in S THEN data[3 + AckWidth(data) + Rank(S, i)] ELSE 255
  <2>1. ASSUME NEW i \in AckBytes
        PROVE  c(i) = r(i)
    <3>1. i + 1 \in T <=> i \in S
      <4> DEFINE k == i + 1
      <4>1. k \in 1 .. 4 /\ k - 1 = i
        BY DEF AckBytes
      <4> HIDE DEF k
      <4>2. k \in T <=> k - 1 \in S
        BY <1>2, <4>1
      <4>3. k \in T <=> i \in S
        BY <4>1, <4>2
      <4> QED BY <4>3 DEF k
    <3>2. CASE i \in S
      <4>1. c(i) = data[C!AfterAck(data) + Cardinality({k \in T : k <= i + 1})]
        BY <3>1, <3>2
      <4> QED BY <1>3, <1>5, <3>2, <4>1
    <3>3. CASE i \notin S
      BY <3>1, <3>3
    <3> QED BY <3>2, <3>3
  <2>2. C!ReadAckBits(data) = [i \in AckBytes |-> c(i)]
    BY SameCounting DEF C!ReadAckBits, AckBytes, T
  <2>3. ReadAckBits(data) = [i \in AckBytes |-> r(i)]
    BY DEF ReadAckBits, Rank, S
  <2> HIDE DEF c, r
  <2> QED BY <2>1, <2>2, <2>3
<1>9. C!ReadPacketHeader(data) = ReadPacketHeader(data)
  BY <1>6, <1>7, <1>8, SameParts DEF C!ReadPacketHeader, ReadPacketHeader, Readable
<1> QED BY <1>5, <1>6, <1>9

-----------------------------------------------------------------------------
(* The C side's writer and the port's *)

\* One byte before two.
LEMMA OneAndTwo ==
  ASSUME NEW x \in ByteRange, NEW y \in ByteRange, NEW z \in ByteRange
  PROVE  <<x>> \o <<y, z>> = <<x, y, z>>
<1> DEFINE u == <<x>>
           v == <<y, z>>
           w == <<x, y, z>>
           both == u \o v
<1>1. u \in Seq(ByteRange) /\ v \in Seq(ByteRange) /\ w \in Seq(ByteRange)
  OBVIOUS
<1>2. Len(u) = 1 /\ Len(v) = 2 /\ Len(w) = 3
  OBVIOUS
<1>3. u[1] = x /\ v[1] = y /\ v[2] = z /\ w[1] = x /\ w[2] = y /\ w[3] = z
  OBVIOUS
<1>4. both = u \o v
  OBVIOUS
<1> HIDE DEF u, v, w, both
<1>5. /\ both \in Seq(ByteRange) /\ Len(both) = Len(u) + Len(v)
      /\ \A k \in 1 .. Len(u) : both[k] = u[k]
      /\ \A k \in 1 .. Len(v) : both[Len(u) + k] = v[k]
  BY <1>1, <1>4, Places
<1>6. Len(both) = 3 /\ both[1] = x /\ both[2] = y /\ both[3] = z
  BY <1>2, <1>3, <1>5
<1>7. \A k \in 1 .. Len(both) : both[k] = w[k]
  BY <1>3, <1>6
<1>8. both = w
  BY <1>1, <1>2, <1>5, <1>6, <1>7, SeqEqual
<1> QED BY <1>8 DEF both, w, u, v

\* One sequence behind another.
Join(u, v) == u \o v

\* Which two are joined first makes no difference.
LEMMA Joins ==
  ASSUME NEW x \in Seq(ByteRange), NEW y \in Seq(ByteRange), NEW z \in Seq(ByteRange)
  PROVE  Join(Join(x, y), z) = Join(x, Join(y, z))
<1>1. (x \o y) \o z = x \o (y \o z)
  BY ConcatAssociative
<1> QED BY <1>1, Zenon DEF Join

\* Four sequences behind another, one by one or joined first.
LEMMA FourBehind ==
  ASSUME NEW x \in Seq(ByteRange), NEW b0 \in Seq(ByteRange), NEW b1 \in Seq(ByteRange),
         NEW b2 \in Seq(ByteRange), NEW b3 \in Seq(ByteRange)
  PROVE  Join(x, Join(Join(Join(b0, b1), b2), b3)) = Join(Join(Join(Join(x, b0), b1), b2), b3)
<1>1. ASSUME NEW u \in Seq(ByteRange), NEW v \in Seq(ByteRange), NEW w \in Seq(ByteRange)
      PROVE  Join(Join(u, v), w) = Join(u, Join(v, w))
  BY Joins
<1>2. ASSUME NEW u \in Seq(ByteRange), NEW v \in Seq(ByteRange)
      PROVE  Join(u, v) \in Seq(ByteRange)
  BY ConcatProperties DEF Join
<1>3. Join(b0, b1) \in Seq(ByteRange) /\ Join(x, Join(b0, b1)) = Join(Join(x, b0), b1)
  BY <1>1, <1>2
<1>4. /\ Join(Join(b0, b1), b2) \in Seq(ByteRange)
      /\ Join(x, Join(Join(b0, b1), b2)) = Join(Join(x, Join(b0, b1)), b2)
  BY <1>1, <1>2, <1>3
<1>5. Join(x, Join(Join(Join(b0, b1), b2), b3)) = Join(Join(x, Join(Join(b0, b1), b2)), b3)
  BY <1>1, <1>4
<1> QED BY <1>3, <1>4, <1>5

\* The C writer of packet headers makes the bytes that the port's makes.
LEMMA SameHeaderWritten ==
  ASSUME NEW s \in Uint16, NEW a \in Uint16, NEW ab \in AckBitsOf
  PROVE  C!WritePacketHeader(s, a, ab) = WritePacketHeader(s, a, ab)
<1> DEFINE d == Difference(s, a)
           e(i) == Elided(ab[i])
           first == <<PrefixByte(s, a, ab), Low(s), High(s)>>
           second == IF Close(s, a) THEN <<Low(d)>> ELSE <<Low(a), High(a)>>
           fixed == first \o second
<1>1. C!SequenceDifference(s, a) = d
  BY Distances, SameParts DEF C!SequenceDifference
<1>2. \A i \in 0 .. 3 : i \in C!Written(ab) <=> ab[i] # 255
  BY DEF C!Written
<1>3. 0 \in 0 .. 3 /\ 1 \in 0 .. 3 /\ 2 \in 0 .. 3 /\ 3 \in 0 .. 3
  OBVIOUS
<1>4. C!AckBitsBytes(ab) = e(0) \o e(1) \o e(2) \o e(3)
  BY <1>2, <1>3 DEF C!AckBitsBytes, Elided
<1> DEFINE flag(i) == IF i \in C!Written(ab) THEN C!Shifted(i + 1) ELSE 0
           prefix == flag(0) + flag(1) + flag(2) + flag(3)
                       + (IF d <= 255 THEN C!Shifted(5) ELSE 0)
           third == IF d <= 255 THEN <<d>> ELSE C!WriteUint16(a)
<1>5. C!WritePacketHeader(s, a, ab)
        = <<prefix>> \o C!WriteUint16(s) \o third \o C!AckBitsBytes(ab)
  BY <1>1 DEF C!WritePacketHeader
<1>6. prefix = PrefixByte(s, a, ab)
  <2>1. /\ flag(0) = Flag(ab[0] # 255, 1) /\ flag(1) = Flag(ab[1] # 255, 2)
        /\ flag(2) = Flag(ab[2] # 255, 3) /\ flag(3) = Flag(ab[3] # 255, 4)
    <3>1. 0 + 1 = 1 /\ 1 + 1 = 2 /\ 2 + 1 = 3 /\ 3 + 1 = 4
      OBVIOUS
    <3> QED BY <1>2, <1>3, <3>1 DEF Flag, C!Shifted, Shifted
  <2>2. (IF d <= 255 THEN C!Shifted(5) ELSE 0) = Flag(Close(s, a), 5)
    BY DEF Flag, Close, C!Shifted, Shifted
  <2> HIDE DEF flag
  <2> QED BY <2>1, <2>2 DEF PrefixByte
<1>7. third = second
  <2>1. CASE Close(s, a)
    <3>1. d <= 255
      BY <2>1 DEF Close
    <3>2. d \in Uint16
      BY Distances
    <3>3. \A x \in Uint16 : x \in Int /\ 0 <= x
      BY TwoBytes DEF Uint16
    <3>4. d \in 0 .. 255
      BY <3>1, <3>2, <3>3
    <3> HIDE DEF d
    <3>5. Low(d) = d
      BY <3>4 DEF Low
    <3> QED BY <2>1, <3>1, <3>5
  <2>2. CASE ~Close(s, a)
    BY <2>2 DEF Close, C!WriteUint16, Low, High
  <2> QED BY <2>1, <2>2
<1>8. <<prefix>> \o C!WriteUint16(s) = first
  <2>1. C!WriteUint16(s) = <<Low(s), High(s)>>
    BY DEF C!WriteUint16, Low, High
  <2> DEFINE p == PrefixByte(s, a, ab)
             l == Low(s)
             h == High(s)
  <2>2. p \in ByteRange /\ l \in ByteRange /\ h \in ByteRange
    BY Prefix, Words
  <2> HIDE DEF prefix, p, l, h
  <2>3. <<p>> \o <<l, h>> = <<p, l, h>>
    BY <2>2, OneAndTwo
  <2> QED BY <1>6, <2>1, <2>3 DEF p, l, h
<1>9. WritePacketHeader(s, a, ab) = fixed \o e(0) \o e(1) \o e(2) \o e(3)
  BY DEF WritePacketHeader
<1>10. fixed \in Seq(ByteRange)
  BY FixedParts DEF Fixed
<1>11. e(0) \in Seq(ByteRange) /\ e(1) \in Seq(ByteRange) /\ e(2) \in Seq(ByteRange)
       /\ e(3) \in Seq(ByteRange)
  <2>1. \A byte \in ByteRange : Elided(byte) \in Seq(ByteRange)
    BY DEF Elided
  <2> QED BY <2>1 DEF AckBitsOf, AckBytes
<1>12. C!WritePacketHeader(s, a, ab) = fixed \o (e(0) \o e(1) \o e(2) \o e(3))
  <2>1. C!WritePacketHeader(s, a, ab)
          = Join(Join(Join(<<prefix>>, C!WriteUint16(s)), third), C!AckBitsBytes(ab))
    BY <1>5 DEF Join
  <2>2. Join(<<prefix>>, C!WriteUint16(s)) = first
    BY <1>8 DEF Join
  <2>3. Join(first, second) = fixed
    BY DEF Join
  <2> HIDE DEF prefix, first, second, third, fixed
  <2>4. C!WritePacketHeader(s, a, ab) = Join(fixed, C!AckBitsBytes(ab))
    BY <1>7, <2>1, <2>2, <2>3
  <2>5. C!WritePacketHeader(s, a, ab) = fixed \o C!AckBitsBytes(ab)
    BY <2>4 DEF Join
  <2> DEFINE A == C!AckBitsBytes(ab)
             B == e(0) \o e(1) \o e(2) \o e(3)
  <2>6. A = B /\ C!WritePacketHeader(s, a, ab) = fixed \o A
    BY <1>4, <2>5
  <2> HIDE DEF A, B
  <2>7. C!WritePacketHeader(s, a, ab) = fixed \o B
    BY <2>6
  <2> QED BY <2>7 DEF B
<1> DEFINE b0 == e(0)
           b1 == e(1)
           b2 == e(2)
           b3 == e(3)
           all == Join(Join(Join(b0, b1), b2), b3)
           port == Join(Join(Join(Join(fixed, b0), b1), b2), b3)
<1>13. C!WritePacketHeader(s, a, ab) = Join(fixed, all) /\ WritePacketHeader(s, a, ab) = port
  BY <1>9, <1>12 DEF Join
<1> HIDE DEF fixed, e, b0, b1, b2, b3
<1>14. Join(fixed, all) = port
  <2>1. b0 \in Seq(ByteRange) /\ b1 \in Seq(ByteRange) /\ b2 \in Seq(ByteRange)
        /\ b3 \in Seq(ByteRange)
    BY <1>11 DEF b0, b1, b2, b3
  <2> QED BY <1>10, <2>1, FourBehind
<1> HIDE DEF all, port
<1> QED BY <1>13, <1>14

\* Three bytes before two.
LEMMA ThreeAndTwo ==
  ASSUME NEW a \in ByteRange, NEW b \in ByteRange, NEW c \in ByteRange,
         NEW d \in ByteRange, NEW e \in ByteRange
  PROVE  <<a, b, c>> \o <<d, e>> = <<a, b, c, d, e>>
<1> DEFINE u == <<a, b, c>>
           v == <<d, e>>
           w == <<a, b, c, d, e>>
           both == u \o v
<1>1. u \in Seq(ByteRange) /\ v \in Seq(ByteRange) /\ w \in Seq(ByteRange)
  OBVIOUS
<1>2. Len(u) = 3 /\ Len(v) = 2 /\ Len(w) = 5
  OBVIOUS
<1>3. /\ u[1] = a /\ u[2] = b /\ u[3] = c /\ v[1] = d /\ v[2] = e
      /\ w[1] = a /\ w[2] = b /\ w[3] = c /\ w[4] = d /\ w[5] = e
  OBVIOUS
<1>4. both = u \o v
  OBVIOUS
<1> HIDE DEF u, v, w, both
<1>5. /\ both \in Seq(ByteRange) /\ Len(both) = Len(u) + Len(v)
      /\ \A k \in 1 .. Len(u) : both[k] = u[k]
      /\ \A k \in 1 .. Len(v) : both[Len(u) + k] = v[k]
  BY <1>1, <1>4, Places
<1>6. Len(both) = 5 /\ both[1] = a /\ both[2] = b /\ both[3] = c /\ both[4] = d /\ both[5] = e
  BY <1>2, <1>3, <1>5
<1>7. \A k \in 1 .. Len(both) : both[k] = w[k]
  BY <1>3, <1>6
<1>8. both = w
  BY <1>1, <1>2, <1>5, <1>6, <1>7, SeqEqual
<1> QED BY <1>8 DEF both, w, u, v

\* Both write the same five bytes before a fragment.
LEMMA SamePrefixWritten ==
  ASSUME NEW w \in Writes
  PROVE  C!WriteFragmentHeader(w.sequence, w.fragment_id, w.num_fragments)
           = WriteFragmentHeader(w.sequence, w.fragment_id, w.num_fragments)
<1> DEFINE l == Low(w.sequence)
           h == High(w.sequence)
           id == w.fragment_id
           last == w.num_fragments - 1
           F == WriteFragmentHeader(w.sequence, w.fragment_id, w.num_fragments)
<1>1. 1 \in ByteRange /\ l \in ByteRange /\ h \in ByteRange
  <2>1. 1 \in ByteRange
    BY DEF ByteRange
  <2> QED BY <2>1, WrittenFields, Words
<1>2. id \in ByteRange /\ last \in ByteRange
  <2>1. /\ F \in Seq(ByteRange) /\ Len(F) = 5 /\ F[4] = id /\ F[5] = last
    BY FragmentPrefix
  <2> HIDE DEF F, id, last
  <2>2. 4 \in 1 .. Len(F) /\ 5 \in 1 .. Len(F)
    BY <2>1
  <2> QED BY <2>1, <2>2, ElementOfSeq
<1>3. F = <<1, l, h, id, last>>
  BY DEF WriteFragmentHeader
<1>4. C!WriteFragmentHeader(w.sequence, w.fragment_id, w.num_fragments)
        = Join(Join(<<1>>, <<l, h>>), <<id, last>>)
  BY DEF C!WriteFragmentHeader, C!WriteUint16, Low, High, Join
<1> HIDE DEF l, h, id, last, F
<1>5. Join(<<1>>, <<l, h>>) = <<1, l, h>>
  BY <1>1, OneAndTwo DEF Join
<1>6. Join(<<1, l, h>>, <<id, last>>) = <<1, l, h, id, last>>
  BY <1>1, <1>2, ThreeAndTwo DEF Join
<1> QED BY <1>3, <1>4, <1>5, <1>6 DEF F

\* The C reader of fragment headers makes the port's checks, and reads the same.
LEMMA SameFragmentRead ==
  ASSUME NEW data \in Seq(ByteRange)
  PROVE  /\ C!ReadFragmentHeader(data) = ReadFragmentHeader(data)
         /\ C!FragmentOk(data) => Len(data) >= 5
<1> DEFINE h == Embedded(data)
           zeros == [i \in AckBytes |-> 0]
<1>1. /\ C!ReadPacketHeader(C!From(data, 5)) = h
      /\ C!ReadUint16(data, 1) = Word(data[2], data[3])
      /\ C!From(data, 5) = Rest(data, 5)
  BY SameParts, SameHeaderRead DEF Embedded
<1>2. C!FragmentBytes(data) = PayloadBytes(data)
  BY <1>1 DEF C!FragmentBytes, PayloadBytes, C!FragmentHeaderBytes
<1>3. C!FragmentOk(data) <=> /\ Len(data) >= 5 /\ data[1] = 1
                             /\ data[5] + 1 <= MaxFragments /\ data[4] < data[5] + 1
  BY DEF C!FragmentOk, C!FragmentHeaderBytes
<1>4. ASSUME Len(data) >= 5
      PROVE  C!EmbeddedOk(data) <=> /\ h # None /\ h.sequence = Word(data[2], data[3])
                                    /\ Canonical(h, Rest(data, 5))
  <2>1. CASE h = None
    BY <1>1, <2>1 DEF C!EmbeddedOk, C!FragmentHeaderBytes
  <2>2. CASE h # None
    <3>1. Rest(data, 5) \in Seq(ByteRange) /\ Readable(Rest(data, 5))
      BY <1>4, <2>2, FirstBytes DEF Embedded, ReadPacketHeader
    <3>2. h \in Headers
      BY <3>1, ReadType DEF Embedded
    <3>3. h.sequence \in Uint16 /\ h.ack \in Uint16 /\ h.ack_bits \in AckBitsOf
      BY <3>2 DEF Headers, AckBitsOf
    <3>4. C!WritePacketHeader(h.sequence, h.ack, h.ack_bits) = Rewritten(h)
      BY <3>3, SameHeaderWritten DEF Rewritten
    <3> HIDE DEF h
    <3>5. C!EmbeddedOk(data) <=>
            /\ h # None /\ h.sequence = Word(data[2], data[3])
            /\ Len(Rewritten(h)) = h.bytes /\ SubSeq(Rest(data, 5), 1, h.bytes) = Rewritten(h)
      BY <1>1, <3>4 DEF C!EmbeddedOk, C!FragmentHeaderBytes
    <3> QED BY <3>5 DEF Canonical
  <2> QED BY <2>1, <2>2
<1>5. zeros = [i \in 0 .. 3 |-> 0]
  BY DEF AckBytes
<1> DEFINE accepted == /\ C!FragmentOk(data)
                       /\ data[4] = 0 => C!EmbeddedOk(data)
                       /\ C!FragmentBytes(data) <= FragmentSize
                       /\ data[4] # data[5] => C!FragmentBytes(data) = FragmentSize
<1>6. accepted <=> FragmentAccepted(data)
  <2> HIDE DEF h
  <2> QED BY <1>2, <1>3, <1>4 DEF FragmentAccepted, h
<1>7. C!ReadFragmentHeader(data) = IF accepted THEN FragmentFields(data) ELSE None
  <2> HIDE DEF h, zeros
  <2>1. C!FragmentHeaderBytes = 5
    BY DEF C!FragmentHeaderBytes
  <2>2. C!ReadFragmentHeader(data) =
          IF accepted
          THEN [bytes |-> 5, fragment_id |-> data[4], num_fragments |-> data[5] + 1,
                sequence |-> Word(data[2], data[3]),
                ack |-> IF data[4] = 0 THEN h.ack ELSE 0,
                ack_bits |-> IF data[4] = 0 THEN h.ack_bits ELSE zeros]
          ELSE None
    BY <1>1, <1>5, <2>1 DEF C!ReadFragmentHeader
  <2> QED BY <2>2 DEF FragmentFields, h, zeros
<1>8. C!ReadFragmentHeader(data) = ReadFragmentHeader(data)
  <2> HIDE DEF accepted
  <2> QED BY <1>6, <1>7, FragmentRead
<1> QED BY <1>3, <1>8

\* SameBytes: every header written, and every one read and written anew, has
\* the same bytes on both sides.
THEOREM SameBytesWritten == Spec => []SameBytes
<1>1. Delivered => SameBytes
  <2> DEFINE h == ReadPacketHeader(datagram)
  <2> SUFFICES ASSUME Delivered
               PROVE  SameBytes
    OBVIOUS
  <2>1. written \in Writes /\ datagram \in Seq(ByteRange)
    BY DEF Delivered
  <2>2. C!WritePacketHeader(written.sequence, written.ack, written.ack_bits)
          = WritePacketHeader(written.sequence, written.ack, written.ack_bits)
    BY <2>1, WrittenFields, SameHeaderWritten
  <2>3. C!WriteFragmentHeader(written.sequence, written.fragment_id, written.num_fragments)
          = WriteFragmentHeader(written.sequence, written.fragment_id, written.num_fragments)
    BY <2>1, SamePrefixWritten
  <2>4. ASSUME h # None
        PROVE  C!WritePacketHeader(h.sequence, h.ack, h.ack_bits)
                 = WritePacketHeader(h.sequence, h.ack, h.ack_bits)
    <3>1. Readable(datagram)
      BY <2>4 DEF ReadPacketHeader
    <3>2. h \in Headers
      BY <2>1, <3>1, ReadType
    <3>3. h.sequence \in Uint16 /\ h.ack \in Uint16 /\ h.ack_bits \in AckBitsOf
      BY <3>2 DEF Headers, AckBitsOf
    <3> HIDE DEF h
    <3> QED BY <3>3, SameHeaderWritten
  <2> QED BY <2>2, <2>3, <2>4 DEF SameBytes
<1> QED BY <1>1, DeliveredInvariant, PTL

\* SameReading: the C reader and the port's read the same from any bytes, and
\* refuse the same.
THEOREM SameBytesRead == Spec => []SameReading
<1>1. Delivered => SameReading
  BY SameHeaderRead, SameFragmentRead DEF Delivered, SameReading
<1> QED BY <1>1, DeliveredInvariant, PTL

-----------------------------------------------------------------------------
(* The C side reads and copies inside the datagram *)

\* No byte beyond the end is read for a packet header.
LEMMA ReadsInside ==
  ASSUME NEW data \in Seq(ByteRange)
  PROVE  C!BytesRead(data) <= Len(data)
<1> DEFINE m == Len(data)
           w == AckWidth(data)
           n == HeaderLength(data)
<1>1. C!AfterAck(data) = 3 + w /\ C!HeaderBytes(data) = n
  BY SameHeaderRead
<1>2. w \in 1 .. 2
  BY DEF AckWidth
<1>3. n \in Int
  <2>1. Cardinality(Present(data)) \in Nat
    <3>1. Present(data) \in SUBSET AckBytes
      BY DEF Present
    <3> QED BY <3>1, Ranks, 3 \in 0 .. 3
  <2> QED BY <1>2, <2>1 DEF HeaderLength
<1>4. m \in Nat
  OBVIOUS
<1>5. \/ C!BytesRead(data) = 0
      \/ C!BytesRead(data) = 1 /\ ~(m < 3)
      \/ C!BytesRead(data) = 3 /\ ~(m < 3)
      \/ C!BytesRead(data) = 3 + w /\ ~(m < 3 + w)
      \/ C!BytesRead(data) = n /\ ~(m < n)
  <2> HIDE DEF w, n
  <2> QED BY <1>1 DEF C!BytesRead
<1> HIDE DEF m, w, n
<1>6. C!BytesRead(data) <= m
  BY <1>2, <1>3, <1>4, <1>5
<1> QED BY <1>6 DEF m

\* The fragment after id still has room behind it.
LEMMA RoomBehind ==
  ASSUME NEW id \in Nat, NEW num \in Nat, NEW size \in Nat, id < num
  PROVE  id * size + size <= num * size
<1> DEFINE m == num - id - 1
<1>1. m \in Nat /\ num = id + 1 + m
  OBVIOUS
<1> HIDE DEF m
<1>2. (id + 1 + m) * size = id * size + size + m * size
  BY <1>1
<1>3. m * size \in Nat /\ id * size \in Nat
  BY <1>1
<1> QED BY <1>1, <1>2, <1>3

\* StaysInside: the C code reads no byte beyond a datagram's end, and copies a
\* fragment from inside it into its room in the packet's buffer.
THEOREM CopiesStayInside == Spec => []StaysInside
<1>1. Delivered => StaysInside
  <2> DEFINE f == C!ReadFragmentHeader(datagram)
             payload == PayloadBytes(datagram)
  <2> SUFFICES ASSUME Delivered
               PROVE  StaysInside
    OBVIOUS
  <2>1. datagram \in Seq(ByteRange)
    BY DEF Delivered
  <2>2. C!BytesRead(datagram) <= Len(datagram)
    BY <2>1, ReadsInside
  <2>3. ASSUME C!FragmentOk(datagram)
        PROVE  C!BytesRead(C!From(datagram, 5)) <= Len(datagram) - 5
    <3>1. C!From(datagram, 5) \in Seq(ByteRange) /\ Len(C!From(datagram, 5)) = Len(datagram) - 5
      BY <2>1, <2>3, SameFragmentRead, SameParts, FirstBytes
    <3> QED BY <3>1, ReadsInside
  <2>4. ASSUME f # None
        PROVE  C!BytesToCopy(f, datagram) >= 0 /\ C!CopyEnds(f, datagram) <= C!CopyRoom(f)
    <3>1. f = ReadFragmentHeader(datagram) /\ FragmentAccepted(datagram)
      BY <2>1, <2>4, SameFragmentRead, FragmentRead
    <3> DEFINE skipped == IF datagram[4] = 0 THEN HeaderLength(Rest(datagram, 5)) ELSE 0
               id == datagram[4]
               last == datagram[5]
               m == Len(datagram)
    <3>2. /\ f.bytes = 5 /\ f.fragment_id = id /\ f.num_fragments = last + 1
          /\ skipped \in Nat /\ 5 + skipped \in 0 .. m /\ payload = m - (5 + skipped)
          /\ id = 0 => Len(Rewritten(f)) = skipped
      BY <2>1, <3>1, FragmentSizes
    <3>3. C!StoredHeaderBytes(f) = skipped
      <4>1. f \in FragmentHeaders
        BY <2>1, <3>1, FragmentIsRead, FragmentRead
      <4>2. f.sequence \in Uint16 /\ f.ack \in Uint16 /\ f.ack_bits \in AckBitsOf
        BY <4>1 DEF FragmentHeaders, AckBitsOf
      <4> HIDE DEF f
      <4>3. C!WritePacketHeader(f.sequence, f.ack, f.ack_bits) = Rewritten(f)
        BY <4>2, SameHeaderWritten DEF Rewritten
      <4> QED BY <3>2, <4>3 DEF C!StoredHeaderBytes
    <3>4. payload <= FragmentSize /\ m >= 5 /\ id < last + 1
      BY <3>1 DEF FragmentAccepted
    <3>5. id \in Nat /\ last + 1 \in Nat
      <4>1. id \in ByteRange /\ last \in ByteRange
        BY <2>1, <3>4, FirstBytes
      <4> HIDE DEF id, last
      <4> QED BY <4>1, ByteIsNumber
    <3>6. m \in Nat /\ FragmentSize \in Nat
      BY <2>1, WireAssumption
    <3> HIDE DEF f, skipped, id, last, m, payload
    <3>7. C!BytesToCopy(f, datagram) = payload /\ payload >= 0 /\ payload \in Int
      <4>1. C!BytesToCopy(f, datagram) = m - 5 - skipped
        BY <3>2, <3>3 DEF C!BytesToCopy, m
      <4> QED BY <3>2, <3>6, <4>1
    <3> DEFINE num == last + 1
    <3>8. id * FragmentSize + FragmentSize <= num * FragmentSize
      <4> HIDE DEF num
      <4>1. id \in Nat /\ num \in Nat /\ id < num
        BY <3>4, <3>5 DEF num
      <4> QED BY <3>6, <4>1, RoomBehind
    <3>9. /\ C!CopyEnds(f, datagram) = 9 + id * FragmentSize + payload
          /\ C!CopyRoom(f) = 9 + num * FragmentSize
      BY <3>2, <3>7 DEF C!CopyEnds, C!CopyRoom, C!MaxPacketHeaderBytes
    <3> DEFINE before == id * FragmentSize
               room == num * FragmentSize
    <3>10. before \in Int /\ room \in Int
      BY <3>5, <3>6
    <3> HIDE DEF before, room, num
    <3>11. 9 + before + payload <= 9 + room
      BY <3>4, <3>6, <3>7, <3>8, <3>10 DEF before, room
    <3> QED BY <3>7, <3>9, <3>11 DEF before, room
  <2> QED BY <2>2, <2>3, <2>4 DEF StaysInside
<1> QED BY <1>1, DeliveredInvariant, PTL
===============================================================================
