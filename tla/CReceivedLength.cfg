\* INT_MAX is 2^20 - 1; the other sizes are the real ones.
CONSTANTS
  IntMax = 1048575
  FragmentsLimit = 256
  MinPacketHeaderBytes = 4
  MaxPacketHeaderBytes = 9
  FragmentHeaderBytes = 5
  None = None
  Configs <- MCConfigs
  Lengths <- MCLengths
  Slots = {0, 1}
SPECIFICATION CreateSpec
INVARIANTS
  ReceivedLengthFits
