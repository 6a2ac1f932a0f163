CONSTANTS
  Tags = {0, 1, 2}
  Sets = {0}
  LineWords = 2
  Lanes = {0}
  Old = Old
  None = None
  BusData = BusData
  Accesses <- MCMixed
SPECIFICATION FairSpec
INVARIANTS NothingLost LoadsSeeStores
PROPERTY AccessEnds
