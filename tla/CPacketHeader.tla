---------------------------- MODULE CPacketHeader ----------------------------
(***************************************************************************)
(* The headers as the C implementation writes and reads them, through a    *)
(* pointer and with a length check before each stretch of reads            *)
(* (src/wire-compat/c/reliable.c).  Bytes and ack_bits are as in           *)
(* PacketHeader: a sequence of 0..255, and a function from the four bytes. *)
(***************************************************************************)
EXTENDS Integers, Sequences, FiniteSets

CONSTANTS None, MaxFragments, FragmentSize

SequenceModulus == 65536
FragmentHeaderBytes == 5
MaxPacketHeaderBytes == 9

\* reliable_write_uint16, reliable_read_uint16.
WriteUint16(n) == <<n % 256, n \div 256>>

ReadUint16(data, p) == data[p + 1] + 256 * data[p + 2]

\* 1<<k, in a prefix byte.
Shifted(k) == <<1, 2, 4, 8, 16, 32>>[k + 1]

Flagged(prefix_byte, k) == (prefix_byte \div Shifted(k)) % 2 = 1

\* Byte i of ack_bits has flag i + 1; it is written unless it is all ones.
Written(ack_bits) == {i \in 0 .. 3 : ack_bits[i] # 255}

\* Mutant: the wrap-around of the difference is forgotten.
SequenceDifference_NoWrap(sequence, ack) == sequence - ack

SequenceDifference(sequence, ack) ==
  IF sequence - ack < 0 THEN sequence - ack + SequenceModulus ELSE sequence - ack

\* The bytes of ack_bits that are written, low byte first.
AckBitsBytes(ack_bits) ==
  LET byte(i) == IF i \in Written(ack_bits) THEN <<ack_bits[i]>> ELSE <<>>
  IN  byte(0) \o byte(1) \o byte(2) \o byte(3)

\* reliable_write_packet_header.
WritePacketHeader(sequence, ack, ack_bits) ==
  LET difference == SequenceDifference(sequence, ack)
      near == difference <= 255
      flag(i) == IF i \in Written(ack_bits) THEN Shifted(i + 1) ELSE 0
      prefix_byte ==
        flag(0) + flag(1) + flag(2) + flag(3) + (IF near THEN Shifted(5) ELSE 0)
  IN  <<prefix_byte>> \o WriteUint16(sequence)
        \o (IF near THEN <<difference>> ELSE WriteUint16(ack))
        \o AckBitsBytes(ack_bits)

\* The five bytes send_packet writes before a fragment.
WriteFragmentHeader(sequence, fragment_id, num_fragments) ==
  <<1>> \o WriteUint16(sequence) \o <<fragment_id, num_fragments - 1>>

-----------------------------------------------------------------------------
(* reliable_read_packet_header *)

\* Where p is after the ack, whose form the prefix byte gives.
AfterAck(data) == IF Flagged(data[1], 5) THEN 3 + 1 ELSE 3 + 2

Expected(data) == {i \in 1 .. 4 : Flagged(data[1], i)}

HeaderBytes(data) == AfterAck(data) + Cardinality(Expected(data))

\* Mutant: the check of the ack's length is left out.
BytesRead_AckUnchecked(data) ==
  IF Len(data) < 3 THEN 0
  ELSE IF Flagged(data[1], 0) THEN 1
  ELSE IF Len(data) < HeaderBytes(data) THEN AfterAck(data)
  ELSE HeaderBytes(data)

\* How many bytes are read before it returns, by the checks that are passed.
BytesRead(data) ==
  IF Len(data) < 3 THEN 0
  ELSE IF Flagged(data[1], 0) THEN 1
  ELSE IF Len(data) < AfterAck(data) THEN 3
  ELSE IF Len(data) < HeaderBytes(data) THEN AfterAck(data)
  ELSE HeaderBytes(data)

\* Each byte of ack_bits is read where the expected ones below it end.
ReadAckBits(data) ==
  [i \in 0 .. 3 |->
     IF i + 1 \in Expected(data)
     THEN data[AfterAck(data) + Cardinality({k \in Expected(data) : k <= i + 1})]
     ELSE 255]

\* Mutant: the difference is added.
ReadAck_Added(data) ==
  IF Flagged(data[1], 5) THEN (ReadUint16(data, 1) + data[4]) % SequenceModulus ELSE ReadUint16(data, 3)

ReadAck(data) ==
  IF Flagged(data[1], 5) THEN (ReadUint16(data, 1) - data[4]) % SequenceModulus ELSE ReadUint16(data, 3)

\* The fields and the length of the header; None for -1.
ReadPacketHeader(data) ==
  IF Len(data) >= 3 /\ ~Flagged(data[1], 0) /\ Len(data) >= HeaderBytes(data)
  THEN [bytes |-> HeaderBytes(data), sequence |-> ReadUint16(data, 1),
        ack |-> ReadAck(data), ack_bits |-> ReadAckBits(data)]
  ELSE None

-----------------------------------------------------------------------------
(* reliable_read_fragment_header and reliable_store_fragment_data *)

From(data, p) == SubSeq(data, p + 1, Len(data))

\* The five bytes before a fragment, read and range checked.
FragmentOk(data) ==
  /\ Len(data) >= FragmentHeaderBytes /\ data[1] = 1
  /\ data[5] + 1 <= MaxFragments /\ data[4] < data[5] + 1

\* The packet header in fragment 0 is of the same packet and canonical.
EmbeddedOk(data) ==
  LET embedded == From(data, FragmentHeaderBytes)
      header == ReadPacketHeader(embedded)
  IN  /\ header # None
      /\ header.sequence = ReadUint16(data, 1)
      /\ LET canonical == WritePacketHeader(header.sequence, header.ack, header.ack_bits)
         IN  Len(canonical) = header.bytes /\ SubSeq(embedded, 1, header.bytes) = canonical

\* fragment_bytes: what is left for the fragment.
FragmentBytes(data) ==
  Len(data) - FragmentHeaderBytes
    - (IF data[4] = 0 THEN ReadPacketHeader(From(data, FragmentHeaderBytes)).bytes ELSE 0)

ReadFragmentHeader(data) ==
  IF /\ FragmentOk(data)
     /\ data[4] = 0 => EmbeddedOk(data)
     /\ FragmentBytes(data) <= FragmentSize
     /\ data[4] # data[5] => FragmentBytes(data) = FragmentSize
  THEN LET header == ReadPacketHeader(From(data, FragmentHeaderBytes))
       IN  [bytes |-> FragmentHeaderBytes, fragment_id |-> data[4],
            num_fragments |-> data[5] + 1, sequence |-> ReadUint16(data, 1),
            ack |-> IF data[4] = 0 THEN header.ack ELSE 0,
            ack_bits |-> IF data[4] = 0 THEN header.ack_bits ELSE [i \in 0 .. 3 |-> 0]]
  ELSE None

\* Bytes of the packet header that store_fragment_data writes anew.
StoredHeaderBytes(fragment) ==
  IF fragment.fragment_id = 0
  THEN Len(WritePacketHeader(fragment.sequence, fragment.ack, fragment.ack_bits))
  ELSE 0

\* How many bytes of the datagram it copies: what receive_packet hands it, less
\* the header.  A negative number would reach memcpy as a huge one but for the
\* check before it.
BytesToCopy(fragment, data) == Len(data) - fragment.bytes - StoredHeaderBytes(fragment)

\* Where the copy ends in the packet's buffer, and where the buffer's room does.
CopyEnds(fragment, data) ==
  MaxPacketHeaderBytes + fragment.fragment_id * FragmentSize + BytesToCopy(fragment, data)

CopyRoom(fragment) == MaxPacketHeaderBytes + fragment.num_fragments * FragmentSize
=============================================================================
