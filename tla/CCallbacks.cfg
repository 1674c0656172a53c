\* A callback that sends and clears acks, and one that makes every call, two deep.
CONSTANTS
  SequenceModulus = 6
  SentPacketsBufferSize = 1
  ReceivedPacketsBufferSize = 2
  FragmentReassemblyBufferSize = 2
  AckBufferSize = 1
  AckBits = 2
  MaxPacketSize = 4
  FragmentAbove = 1
  FragmentSize = 3
  MaxFragments = 2
  HeaderBytes <- MCHeaderBytes
  MaxPacketHeaderBytes = 1
  FragmentHeaderBytes = 1
  CounterModulus = 1
  None = None
  b = b
  zero = zero
  Byte = {b, zero}
  Blank = zero
  Packets <- CallbackPackets
  Datagrams <- CallbackDatagrams
  Blocks = {p1, p2}
  NULL = NULL
  Free = Free
  Corrupt = Corrupt
  Callbacks <- MCCallbacks
  MaxDepth = 2
SPECIFICATION CallSpec
SYMMETRY Symmetry
INVARIANTS
  Ownership
  WindowsTogether
  PayloadStays
  NeverRestarted
