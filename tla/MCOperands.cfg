CONSTANTS
  Decoded <- MCDecoded
  DivDelay = 2
  MaxWriters = 3
  FlushDividing = FALSE
  None = None
SPECIFICATION FairSpec
INVARIANTS OperandsCurrent RegfileInOrder ResultOfOperands
PROPERTY HeadIssues
