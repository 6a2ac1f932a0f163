CONSTANTS
  Program <- MCProgram
  Faults <- MCFaults
  None = None
SPECIFICATION Spec
INVARIANT InterruptResumes
