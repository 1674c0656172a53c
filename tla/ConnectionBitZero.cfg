\* As Connection.cfg.
CONSTANTS
  SequenceModulus = 8
  SentPacketsBufferSize = 2
  ReceivedPacketsBufferSize = 2
  FragmentReassemblyBufferSize = 2
  AckBufferSize = 1
  AckBits = 2
  MaxPacketSize = 3
  FragmentAbove = 1
  FragmentSize = 2
  MaxFragments = 2
  HeaderBytes <- MCHeaderBytes
  MaxPacketHeaderBytes = 1
  FragmentHeaderBytes = 1
  CounterModulus = 1
  None = None
  zero = zero
  Blank = zero
  Settings <- MCSettings
SPECIFICATION Spec
INVARIANT BitZeroSetOnceReceived
