--------------------------- MODULE MCCPacketHeader ---------------------------
(***************************************************************************)
(* The C headers against the port's, on the datagrams of MCPacketHeader.   *)
(***************************************************************************)
EXTENDS MCPacketHeader

C == INSTANCE CPacketHeader

\* Every header either implementation writes or reads is written by the other
\* in the same bytes ("identical transcripts", wire-compat/src/lib.rs:10-12).
SameBytes ==
  LET h == ReadPacketHeader(datagram)
      Same(f) == C!WritePacketHeader(f.sequence, f.ack, f.ack_bits)
                   = WritePacketHeader(f.sequence, f.ack, f.ack_bits)
  IN  /\ Same(written)
      /\ C!WriteFragmentHeader(written.sequence, written.fragment_id, written.num_fragments)
           = WriteFragmentHeader(written.sequence, written.fragment_id, written.num_fragments)
      /\ IsRegular /\ h # None => Same(h)

\* Both read the same out of any datagram, damaged or not, and refuse the same:
\* the C reader, check by check, and the port's.
SameReading ==
  IF IsRegular THEN C!ReadPacketHeader(datagram) = ReadPacketHeader(datagram)
               ELSE C!ReadFragmentHeader(datagram) = ReadFragmentHeader(datagram)

\* The C code, which nothing else would stop, reads no byte beyond the end of
\* the datagram, in it or in the header embedded in a fragment, and copies a
\* fragment from inside the datagram into its room: the check in
\* reliable_store_fragment_data (reliable.c:1237) never has to refuse.
StaysInside ==
  /\ C!BytesRead(datagram) <= Len(datagram)
  /\ ~IsRegular =>
       /\ C!FragmentOk(datagram) =>
            C!BytesRead(C!From(datagram, 5)) <= Len(datagram) - 5
       /\ LET f == C!ReadFragmentHeader(datagram)
          IN  f # None =>
                C!BytesToCopy(f, datagram) >= 0 /\ C!CopyEnds(f, datagram) <= C!CopyRoom(f)

\* One byte, a full fragment, and more than fits one.
MCPayloads == {<<7>>, <<7, 0>>, <<7, 0, 255>>}
=============================================================================
