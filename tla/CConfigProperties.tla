--------------------------- MODULE CConfigProperties ---------------------------
(***************************************************************************)
(* What the configuration checks of the C implementation are for.          *)
(***************************************************************************)
EXTENDS CConfig

\* With a configuration create accepts, no operation computes a length that is
\* not an int ("every field is range checked and the two relationships between
\* fields are checked", reliable.c:556-557), but for that of ReceivedLengthFits.
IntsFit == \A n \in lengths : n \in 0 .. IntMax

\* No copy goes beyond the transmit buffer or the reassembly buffer, whose sizes
\* were computed from the configuration beforehand, and no packet needs more
\* fragments than there may be ("a fragment count that does not cover the
\* maximum packet size means a large packet has nowhere to go", reliable.c:559).
CopiesFit == \A c \in copies : c.end <= c.room

\* The checks of Endpoint::new (endpoint.rs:266-318), whose lengths are u32.
PortAccepts(c) ==
  LET u32max == 2 * IntMax + 1
  IN  /\ c.max_packet_size > 0 /\ c.fragment_above > 0 /\ c.fragment_size > 0
      /\ c.max_fragments > 0 /\ c.max_fragments <= FragmentsLimit
      /\ c.fragment_above <= c.max_packet_size
      /\ c.max_fragments > (c.max_packet_size - 1) \div c.fragment_size
      /\ c.max_fragments * c.fragment_size + MaxPacketHeaderBytes <= u32max
      /\ c.smallest_buffer > 0
      /\ c.packet_header_size + c.max_packet_size
           + MaxPacketHeaderBytes + FragmentHeaderBytes <= u32max

\* A configuration an endpoint in C runs with does not make the port panic.
PortAcceptsWhatCDoes == config # None => PortAccepts(config)

\* "the receive path stores the same sum for a packet that arrives carrying both
\* headers, and that is the largest length either path can reach"
\* (endpoint.rs:311-312): the sum of reliable.c:1326 fits an int.
ReceivedLengthFits == received_length <= IntMax
=============================================================================
