\* A buffer whose size divides the modulus: four slots, sixteen numbers, and
\* identities up to 40, so the numbers wrap twice.
CONSTANTS
  SequenceModulus = 16
  NumEntries = 4
  Default = Default
  None = None
  MaxNext = 40
SPECIFICATION Spec
INVARIANT QueriesAgree
PROPERTY ImplementsSlidingWindow
