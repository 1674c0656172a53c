---------------------------- MODULE MCConnection ----------------------------
(***************************************************************************)
(* Two connected endpoints with small windows and few packets.             *)
(***************************************************************************)
EXTENDS Connection

CONSTANT zero

MCHeaderBytes(h) == 1

\* Every packet regular, and one more than there are numbers.
Wrapping ==
  [lengths |-> [id \in 0 .. SequenceModulus |-> 1], verdicts |-> {"accepted"},
   max_age |-> 2, max_outage |-> 1, client_max |-> SequenceModulus + 1, server_max |-> 2]

\* The windows drift further apart; the server sends one packet.
Drifting == [Wrapping EXCEPT !.max_outage = 2, !.server_max = 1]

\* Three bytes at two per fragment: every even packet has two fragments, the
\* second one short.
Fragmented ==
  [lengths |-> [id \in 0 .. 4 |-> IF id % 2 = 0 THEN 3 ELSE 1],
   verdicts |-> {"accepted", "rejected"},
   max_age |-> 3, max_outage |-> 2, client_max |-> 5, server_max |-> 1]

MCSettings == {Wrapping, Drifting, Fragmented}

\* Windows of three drift less far.
Near == {Wrapping}

\* "Because bit 0 is `ack` itself, a sender that has received anything sets
\* bit 0" (STANDARD.md:79): once the server accepted a packet, its next header
\* has bit 0 set.
BitZeroSetOnceReceived ==
  (\E id \in Identities : server_delivered[id] > 0) => 0 \in Server!NextHeader.ack_bits
=============================================================================
