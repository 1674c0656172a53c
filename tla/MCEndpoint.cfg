\* Six sequence numbers, two slots per window, room for one ack.
CONSTANTS
  SequenceModulus = 6
  SentPacketsBufferSize = 2
  ReceivedPacketsBufferSize = 2
  FragmentReassemblyBufferSize = 2
  AckBufferSize = 1
  AckBits = 2
  MaxPacketSize = 4
  FragmentAbove = 1
  FragmentSize = 3
  MaxFragments = 2
  HeaderBytes <- MCHeaderBytes
  MaxPacketHeaderBytes = 1
  FragmentHeaderBytes = 1
  CounterModulus = 1
  None = None
  b = b
  zero = zero
  Byte = {b, zero}
  Blank = zero
  Packets <- MCPackets
  Datagrams <- MCDatagrams
SPECIFICATION Spec
INVARIANTS
  TypeOK
  WindowsInLockStep
  SendNeverPanics
  EntriesStayInWindow
  ReassemblyConsistent
  SentIsReceivable
PROPERTIES
  FlaggedIffReported
  AcksOnlyWithAcceptedPacket
  ReceivedIsRemembered
