------------------------------- MODULE MCCPair -------------------------------
(***************************************************************************)
(* Small pairs: a packet is one byte, or three in two fragments.           *)
(***************************************************************************)
EXTENDS CPairProperties

CONSTANT b

MCHeaderBytes(h) == 1

Contents(Of(_)) == [s \in Numbers |-> Of(s)]

Nothing(s) == {}

Regular(s) == {<<b>>}

\* As test_ack_buffer_overflow, but with three packets.
ThreePackets(s) == IF s < 3 THEN {<<b>>} ELSE {}

\* Every other packet is fragmented.
Mixed(s) == IF s % 2 = 0 THEN {<<b, b, b>>} ELSE {<<b>>}

\* Packet 0 may be fragmented, and regular when its number comes back.
Zero(s) == IF s = 0 THEN {<<b>>, <<b, b, b>>} ELSE {<<b>>}

\* Three packets one way and any number the other; packets one way, 0 or 1
\* replayed; packets one way that may all be regular but one.
MCSettings ==
  {[sender_packets |-> Contents(ThreePackets), receiver_packets |-> Contents(Regular),
    kept_numbers |-> {}],
   [sender_packets |-> Contents(Mixed), receiver_packets |-> Contents(Nothing),
    kept_numbers |-> {0, 1}],
   [sender_packets |-> Contents(Zero), receiver_packets |-> Contents(Nothing),
    kept_numbers |-> {}]}
==============================================================================
