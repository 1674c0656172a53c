---------------------------- MODULE PacketHeader ----------------------------
(***************************************************************************)
(* The wire format of headers (src/src/packet.rs), byte by byte at the     *)
(* real widths: a datagram is a sequence of bytes 0..255, sequence numbers *)
(* have two bytes, low byte first, and ack_bits is a function from its     *)
(* four bytes, 0 being the low one.                                        *)
(***************************************************************************)
EXTENDS Integers, Sequences, FiniteSets

CONSTANTS None, MaxFragments, FragmentSize

ByteRange == 0 .. 255

SequenceModulus == 65536

Uint16 == 0 .. SequenceModulus - 1

AckBytes == 0 .. 3

Headers == [bytes : Nat, sequence : Uint16, ack : Uint16, ack_bits : [AckBytes -> ByteRange]]

FragmentHeaders ==
  [bytes : Nat, fragment_id : ByteRange, num_fragments : 1 .. 256, sequence : Uint16,
   ack : Uint16, ack_bits : [AckBytes -> ByteRange]]

\* From the asserts of Endpoint::new; and nothing read is None.
ASSUME WireAssumption ==
  /\ MaxFragments \in 1 .. 256 /\ FragmentSize \in Nat \ {0}
  /\ None \notin Headers \cup FragmentHeaders

Low(n) == n % 256

High(n) == n \div 256

Word(low, high) == low + 256 * high

\* 1 << k, in a prefix byte.
Shifted(k) == <<1, 2, 4, 8, 16, 32>>[k + 1]

Bit(byte, k) == (byte \div Shifted(k)) % 2 = 1

-----------------------------------------------------------------------------
(* Writing *)

\* sequence.wrapping_sub(ack), and whether it fits the one-byte form.
Difference(sequence, ack) == (sequence - ack) % SequenceModulus

\* Mutant: 256 also taken for a one-byte difference.
Close_OffByOne(sequence, ack) == Difference(sequence, ack) <= 256

Close(sequence, ack) == Difference(sequence, ack) <= 255

Flag(condition, k) == IF condition THEN Shifted(k) ELSE 0

PrefixByte(sequence, ack, ack_bits) ==
  Flag(ack_bits[0] # 255, 1) + Flag(ack_bits[1] # 255, 2) + Flag(ack_bits[2] # 255, 3)
    + Flag(ack_bits[3] # 255, 4) + Flag(Close(sequence, ack), 5)

\* A byte of ack_bits that is all ones is implied, not sent.
Elided(byte) == IF byte = 255 THEN <<>> ELSE <<byte>>

WritePacketHeader(sequence, ack, ack_bits) ==
  <<PrefixByte(sequence, ack, ack_bits), Low(sequence), High(sequence)>>
    \o (IF Close(sequence, ack) THEN <<Low(Difference(sequence, ack))>>
                                ELSE <<Low(ack), High(ack)>>)
    \o Elided(ack_bits[0]) \o Elided(ack_bits[1]) \o Elided(ack_bits[2])
    \o Elided(ack_bits[3])

\* The five bytes before each fragment.
WriteFragmentHeader(sequence, fragment_id, num_fragments) ==
  <<1, Low(sequence), High(sequence), fragment_id, num_fragments - 1>>

-----------------------------------------------------------------------------
(* Reading *)

\* The bytes of ack_bits that the prefix says are there.
Present(data) == {i \in AckBytes : Bit(data[1], i + 1)}

AckWidth(data) == IF Bit(data[1], 5) THEN 1 ELSE 2

HeaderLength(data) == 3 + AckWidth(data) + Cardinality(Present(data))

\* A regular packet long enough for the header its prefix announces.
Readable(data) == Len(data) >= 3 /\ ~Bit(data[1], 0) /\ Len(data) >= HeaderLength(data)

\* Mutant: the difference subtracted without wrapping.
ReadAck_NoWrap(data) ==
  IF Bit(data[1], 5)
  THEN IF Word(data[2], data[3]) < data[4] THEN 0 ELSE Word(data[2], data[3]) - data[4]
  ELSE Word(data[4], data[5])

ReadAck(data) ==
  IF Bit(data[1], 5) THEN (Word(data[2], data[3]) - data[4]) % SequenceModulus
                     ELSE Word(data[4], data[5])

ReadAckBits(data) ==
  [i \in AckBytes |->
     IF i \in Present(data)
     THEN data[3 + AckWidth(data) + Cardinality({j \in Present(data) : j <= i})]
     ELSE 255]

ReadPacketHeader(data) ==
  IF Readable(data)
  THEN [bytes |-> HeaderLength(data), sequence |-> Word(data[2], data[3]),
        ack |-> ReadAck(data), ack_bits |-> ReadAckBits(data)]
  ELSE None

Rest(data, bytes) == SubSeq(data, bytes + 1, Len(data))

Rewritten(header) == WritePacketHeader(header.sequence, header.ack, header.ack_bits)

\* Mutant: any header that can be read will do.
Canonical_Unchecked(header, data) == TRUE

\* The header, written again, is what data starts with.
Canonical(header, data) ==
  LET written == Rewritten(header)
  IN  Len(written) = header.bytes /\ SubSeq(data, 1, header.bytes) = written

\* read_fragment_header.  Fragment 0 has its packet's header embedded; the
\* others read as ack 0 and no bits.
ReadFragmentHeader(data) ==
  LET sequence == Word(data[2], data[3])
      fragment_id == data[4]
      num_fragments == data[5] + 1
      embedded == Rest(data, 5)
      header == IF fragment_id = 0 THEN ReadPacketHeader(embedded)
                ELSE [bytes |-> 0, sequence |-> sequence, ack |-> 0,
                      ack_bits |-> [i \in AckBytes |-> 0]]
      fragment_bytes == Len(data) - 5 - header.bytes
      accepted ==
        /\ Len(data) >= 5
        /\ data[1] = 1
        /\ num_fragments <= MaxFragments
        /\ fragment_id < num_fragments
        /\ header # None
        /\ header.sequence = sequence
        /\ fragment_id = 0 => Canonical(header, embedded)
        /\ fragment_bytes <= FragmentSize
        /\ fragment_id # num_fragments - 1 => fragment_bytes = FragmentSize
  IN  IF accepted
      THEN [bytes |-> 5, fragment_id |-> fragment_id, num_fragments |-> num_fragments,
            sequence |-> sequence, ack |-> header.ack, ack_bits |-> header.ack_bits]
      ELSE None

\* What store_fragment takes for the payload of fragment data: it writes the
\* header of fragment 0 again and skips that many bytes.
StoredPayload(fragment, data) ==
  Rest(data, fragment.bytes + (IF fragment.fragment_id = 0 THEN Len(Rewritten(fragment)) ELSE 0))
=============================================================================
