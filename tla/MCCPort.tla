------------------------------- MODULE MCCPort -------------------------------
(***************************************************************************)
(* The C endpoint against the port: what the application sends and the     *)
(* network delivers is chosen at the start.                                *)
(***************************************************************************)
EXTENDS MCCEndpoint, CPort

VARIABLE offered   \* the packets and datagrams to choose from

MCOffers == {[packets |-> {}, datagrams |-> FragmentDatagrams],
             [packets |-> MCPackets, datagrams |-> AckDatagrams]}

MCDatagrams == FragmentDatagrams \cup AckDatagrams

MCInit == CalledInit /\ offered \in MCOffers

MCNext ==
  /\ \/ \E content \in offered.packets : Sends(content)
     \/ \E d \in offered.datagrams, answer \in Answers : Receives(d, answer)
     \/ Clears
     \/ Resets
  /\ UNCHANGED offered

MCSpec == MCInit /\ [][MCNext]_<<endpoint, offered, call>>

\* The counters and the last call steer nothing: steps that differ in them alone
\* are one to TLC, which compares the counters by how much each step moves them.
WithoutCounters == <<[endpoint EXCEPT !.counters = 0], offered>>
=============================================================================
