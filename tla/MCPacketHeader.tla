--------------------------- MODULE MCPacketHeader ---------------------------
(***************************************************************************)
(* Datagrams as the endpoint writes them, then damaged on the way: a byte  *)
(* overwritten or the end cut off, at most MaxDamage times.  The sequence  *)
(* numbers sit at the limits of a byte and of the number space.            *)
(***************************************************************************)
EXTENDS PacketHeader

CONSTANTS Sequences16, AckByteValues, Payloads, Overwrites, MaxDamage

ASSUME WritesAssumption ==
  /\ Sequences16 \subseteq Uint16
  /\ AckByteValues \subseteq ByteRange /\ Overwrites \subseteq ByteRange
  /\ Payloads \subseteq Seq(ByteRange) \ {<<>>}

VARIABLES written,    \* what was written: kind, fields and payload
          datagram,   \* its bytes, as they are now
          damage      \* how often they were damaged

vars == <<written, datagram, damage>>

Fields ==
  [kind : {"regular", "fragment"}, fragment_id : 0 .. MaxFragments - 1,
   num_fragments : 1 .. MaxFragments, sequence : Sequences16, ack : Sequences16,
   ack_bits : [AckBytes -> AckByteValues], payload : Payloads]

\* A fragment is of full size, but for the last.
Writes ==
  {w \in Fields :
     \/ w.kind = "regular" /\ w.fragment_id = 0 /\ w.num_fragments = 1
     \/ /\ w.kind = "fragment" /\ w.fragment_id < w.num_fragments
        /\ Len(w.payload) <= FragmentSize
        /\ w.fragment_id # w.num_fragments - 1 => Len(w.payload) = FragmentSize}

\* The datagram send_packet makes of w: a regular packet, or a fragment.
Bytes(w) ==
  IF w.kind = "regular"
  THEN WritePacketHeader(w.sequence, w.ack, w.ack_bits) \o w.payload
  ELSE WriteFragmentHeader(w.sequence, w.fragment_id, w.num_fragments)
         \o (IF w.fragment_id = 0 THEN WritePacketHeader(w.sequence, w.ack, w.ack_bits)
                                  ELSE <<>>)
         \o w.payload

Init ==
  /\ written \in Writes
  /\ datagram = Bytes(written)
  /\ damage = 0

Overwrite(k, byte) ==
  /\ damage < MaxDamage
  /\ datagram' = [datagram EXCEPT ![k] = byte]
  /\ damage' = damage + 1
  /\ UNCHANGED written

\* receive_packet refuses to be handed an empty datagram.
Cut(n) ==
  /\ damage < MaxDamage
  /\ datagram' = SubSeq(datagram, 1, n)
  /\ damage' = damage + 1
  /\ UNCHANGED written

Next ==
  \/ \E k \in DOMAIN datagram, byte \in Overwrites : Overwrite(k, byte)
  \/ \E n \in 1 .. Len(datagram) - 1 : Cut(n)

Spec == Init /\ [][Next]_vars

-----------------------------------------------------------------------------

IsRegular == ~Bit(datagram[1], 0)

\* A header written is read back exactly, in either form of the ack and with
\* any bytes of ack_bits elided, and the payload starts where it was put.
RoundTrip ==
  damage = 0 =>
    IF written.kind = "regular"
    THEN LET h == ReadPacketHeader(datagram)
         IN  /\ IsRegular /\ h # None
             /\ <<h.sequence, h.ack, h.ack_bits>>
                  = <<written.sequence, written.ack, written.ack_bits>>
             /\ Rest(datagram, h.bytes) = written.payload
    ELSE LET f == ReadFragmentHeader(datagram)
         IN  /\ ~IsRegular /\ f # None
             /\ f.sequence = written.sequence
             /\ f.fragment_id = 0 => <<f.ack, f.ack_bits>> = <<written.ack, written.ack_bits>>
             /\ StoredPayload(f, datagram) = written.payload

\* Whatever header is read, from a damaged datagram too, writing it again gives
\* one that reads the same and is no longer: the one encoding that STANDARD.md
\* calls legal is the shortest, and the nine bytes reserved for a header
\* (MAX_PACKET_HEADER_BYTES, store_fragment) suffice.
CanonicalIsShortest ==
  IsRegular /\ Readable(datagram) =>
    LET h == ReadPacketHeader(datagram)
        again == ReadPacketHeader(Rewritten(h))
    IN  /\ again = [h EXCEPT !.bytes = Len(Rewritten(h))]
        /\ again.bytes <= h.bytes /\ h.bytes <= 9

\* The payload that store_fragment copies out of an accepted fragment, after it
\* wrote the header of fragment 0 anew, is what follows the header that was
\* read, and is as long as its place in the packet, or shorter in the last one.
PayloadPlaced ==
  ~IsRegular =>
    LET f == ReadFragmentHeader(datagram)
    IN  f # None =>
          LET skipped == IF f.fragment_id = 0 THEN HeaderLength(Rest(datagram, 5)) ELSE 0
          IN  /\ StoredPayload(f, datagram) = Rest(datagram, 5 + skipped)
              /\ Len(StoredPayload(f, datagram)) <= FragmentSize
              /\ f.fragment_id < f.num_fragments - 1 =>
                   Len(StoredPayload(f, datagram)) = FragmentSize
=============================================================================
