CONSTANTS
  Program <- MCProgram
  Faults <- MCFaults
  None = None
SPECIFICATION FairSpec
INVARIANTS WritesInOrder ReturnsToFault InterruptSkipsNothing ResumesAtBranch StoresPrecise
PROPERTY LatchedIsEntered
