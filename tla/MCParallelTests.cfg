CONSTANTS NWorkers = 3
          NTests = 4
SPECIFICATION FairSpec
INVARIANTS HonestCount FailureReported
PROPERTIES Terminates
CHECK_DEADLOCK FALSE
