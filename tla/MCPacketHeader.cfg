\* Numbers around one byte and around the wrap, two values of a byte of ack_bits.
CONSTANTS
  None = None
  MaxFragments = 2
  FragmentSize = 2
  Sequences16 = {0, 1, 255, 256, 257, 65535}
  AckByteValues = {127, 255}
  Payloads <- MCPayloads
  Overwrites = {0, 1, 32, 33, 62, 254, 255}
  MaxDamage = 1
SPECIFICATION Spec
CHECK_DEADLOCK FALSE
INVARIANTS
  RoundTrip
  CanonicalIsShortest
  PayloadPlaced
  SameBytes
  SameReading
  StaysInside
