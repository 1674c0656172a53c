----------------------------- MODULE MCEndpoint -----------------------------
(***************************************************************************)
(* One endpoint against every datagram of a small hostile set.             *)
(* Sizes: FragmentSize 3, MaxPacketSize 4, so an honest packet has one or  *)
(* two fragments and a rebuilt one can be too large for either size check. *)
(***************************************************************************)
EXTENDS EndpointProperties

CONSTANTS b, zero

Bytes(n) == [k \in 1 .. n |-> b]

MCPackets == {Bytes(n) : n \in {1, 4, 5}}

MCHeaderBytes(h) == 1

H(s, ack, bits) == [sequence |-> s, ack |-> ack, ack_bits |-> bits]

Regular(h, n) == [type |-> "regular", header |-> h, content |-> Bytes(n)]

Fragment(s, id, num, h, n) ==
  [type |-> "fragment", sequence |-> s, fragment_id |-> id, num_fragments |-> num,
   header |-> h, content |-> Bytes(n)]

\* Every sequence number, with acks that between them name every packet.
RegularDatagrams ==
  {Regular(H(s, ack, {0, 1}), 1) : s \in SequenceNumber, ack \in {0, 2, 4}}

\* Single fragments, first and last fragments of two, and two last fragments
\* that make the packet exceed the payload limit or the datagram gate.
FragmentDatagrams ==
  UNION {{Fragment(s, 0, 1, H(s, 0, {0}), 2),
          Fragment(s, 0, 2, H(s, 1, {0}), 3),
          Fragment(s, 1, 2, None, 1)} : s \in SequenceNumber}
  \cup {Fragment(0, 1, 2, None, 2), Fragment(0, 1, 2, None, 3)}

BadDatagrams ==
  {Regular(None, 1), Regular(H(0, 0, {0}), 5), Regular(H(0, 0, {0}), 6),
   Fragment(0, 0, 3, H(0, 0, {0}), 3),    \* too many fragments
   Fragment(0, 2, 2, None, 1),            \* id out of range
   Fragment(0, 0, 1, None, 1),            \* unreadable packet header
   Fragment(0, 0, 1, H(1, 0, {0}), 1),    \* header of another packet
   Fragment(0, 0, 2, H(0, 0, {0}), 2),    \* short, but not the last
   Fragment(0, 1, 2, None, 4),            \* longer than a fragment
   Fragment(0, 0, 1, H(0, 0, {0}), 5)}    \* beyond the size gate

MCDatagrams == RegularDatagrams \cup FragmentDatagrams \cup BadDatagrams
=============================================================================
