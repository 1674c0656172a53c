\* Windows of four in a number space of twelve, a history of three samples.
CONSTANTS
  SequenceModulus = 12
  SentPacketsBufferSize = 4
  ReceivedPacketsBufferSize = 4
  RttHistorySize = 3
  PacketHeaderSize = 1
  Whole = 2
  Rate = 1
  None = None
  Settings <- MCSettings
  MaxAhead = 2
SPECIFICATION MCSpec
INVARIANTS
  SamplesAreOldestHalf
  RttFromThisLife
  ViewsAgree
