------------------------------- MODULE MCCCreate -------------------------------
(***************************************************************************)
(* The configuration checks at the edges of an int: INT_MAX is smaller     *)
(* than the real one, the header lengths are the real ones.                *)
(***************************************************************************)
EXTENDS CCreate

Near(n) == n - 1 .. n + 1

\* Every edge a check mentions, one inside it and one beyond.
MCConfigs ==
  [max_packet_size : Near(1) \cup {4096} \cup
     Near(IntMax - MaxPacketHeaderBytes - FragmentHeaderBytes) \cup {IntMax},
   fragment_above : {0, 1, 500, IntMax},
   max_fragments : Near(1) \cup Near(FragmentsLimit),
   fragment_size : Near(1) \cup Near(4096) \cup
     Near(IntMax - FragmentHeaderBytes - MaxPacketHeaderBytes) \cup
     Near(IntMax - MaxPacketHeaderBytes),
   smallest_buffer : {1}, callbacks : {TRUE},
   packet_header_size : {-1, 28} \cup Near(IntMax - 4096) \cup
     Near(MaxPacketHeaderBytes + FragmentHeaderBytes)]
  \cup [max_packet_size : {1}, fragment_above : {1}, max_fragments : {1}, fragment_size : {1},
        smallest_buffer : {0, 1}, callbacks : BOOLEAN, packet_header_size : {0}]

MCLengths(c) ==
  {1, c.fragment_above, c.fragment_above + 1, c.fragment_size - 1, c.fragment_size,
   c.max_packet_size, c.max_packet_size + 1, c.max_packet_size + MaxPacketHeaderBytes}
=============================================================================
