\* Six sequence numbers, two slots in every buffer, room for one ack.
CONSTANTS
  SequenceModulus = 6
  SentPacketsBufferSize = 2
  ReceivedPacketsBufferSize = 2
  FragmentReassemblyBufferSize = 2
  AckBufferSize = 1
  AckBits = 2
  MaxPacketSize = 4
  FragmentAbove = 1
  FragmentSize = 2
  MaxFragments = 2
  HeaderBytes <- MCHeaderBytes
  MaxPacketHeaderBytes = 1
  FragmentHeaderBytes = 1
  CounterModulus = 1
  None = None
  b = b
  Byte = {b}
  Blank = b
  Blocks = {p1, p2}
  NULL = NULL
  Free = Free
  Corrupt = Corrupt
  Settings <- MCSettings
  Followed = {0, 2}
SPECIFICATION Loop
PROPERTIES
  Recovers
  DueAcksAreReported
  ReassemblyEnds
