CONSTANTS RefLength = 2
          ForceDiff = FALSE
          Accesses <- MCAccesses
          Terminal <- MCTerminal
          MaxAccesses = 3
          MaxRetired = 2
          MAX_CYCLE = 9
SPECIFICATION Spec
INVARIANTS UartInOrder OutputOnce Verdict
PROPERTIES ReadsSeeWrites
CHECK_DEADLOCK FALSE
