----------------------------- MODULE MCCEndpoint -----------------------------
(***************************************************************************)
(* One C endpoint against a set of datagrams; sizes as in MCEndpoint.      *)
(***************************************************************************)
EXTENDS CEndpointProperties, TLC

CONSTANTS b, zero

Bytes(n) == [k \in 1 .. n |-> b]

MCPackets == {Bytes(n) : n \in {1, 3, 4, 5}}

MCHeaderBytes(h) == 1

H(s, ack, bits) == [sequence |-> s, ack |-> ack, ack_bits |-> bits]

Regular(h, n) == [type |-> "regular", header |-> h, content |-> Bytes(n)]

Fragment(s, id, num, h, n) ==
  [type |-> "fragment", sequence |-> s, fragment_id |-> id, num_fragments |-> num,
   header |-> h, content |-> Bytes(n)]

Numbers == 0 .. SequenceModulus - 1

\* Every number as a regular packet and in two fragments, one packet as a
\* single fragment, last fragments that make packet 0 too large, and one
\* datagram for every check that refuses.
FragmentDatagrams ==
  {Regular(H(s, 0, {0}), 1) : s \in Numbers}
  \cup UNION {{Fragment(s, 0, 2, H(s, 1, {0}), 3), Fragment(s, 1, 2, None, 1)} : s \in Numbers}
  \cup {Fragment(1, 0, 1, H(1, 0, {0}), 2),
        Fragment(0, 1, 2, None, 2), Fragment(0, 1, 2, None, 3)}
  \cup {Regular(None, 1), Regular(H(0, 0, {0}), 5), Regular(H(0, 0, {0}), 6),
        Fragment(0, 0, 3, H(0, 0, {0}), 3), Fragment(0, 0, 1, H(1, 0, {0}), 1),
        Fragment(0, 0, 2, H(0, 0, {0}), 2), Fragment(0, 0, 1, H(0, 0, {0}), 5)}

\* Regular packets, two of each number, whose acks between them name every
\* number, and fragments of two packets, which move the received window.
AckDatagrams ==
  {Regular(H(s, (2 * s + k) % SequenceModulus, {0, 1}), 1) : s \in Numbers, k \in {0, 2}}
  \cup {Fragment(s, 1, 2, None, 1) : s \in {0, 3}}

Symmetry == Permutations(Blocks)
=============================================================================
