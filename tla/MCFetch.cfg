CONSTANTS
  NumPC = 4
  Faulting = {3}
  CacheOps = TRUE
  Interrupted = FALSE
  None = None
  Garbage = Garbage
SPECIFICATION FairSpec
INVARIANTS OnPath InstrOfPc
PROPERTY FetchGoesOn
