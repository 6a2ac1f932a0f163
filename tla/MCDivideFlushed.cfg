CONSTANTS
  Decoded <- MCDecoded
  DivDelay = 4
  MaxWriters = 3
  FlushDividing = TRUE
  None = None
SPECIFICATION Spec
INVARIANT ResultOfOperands
