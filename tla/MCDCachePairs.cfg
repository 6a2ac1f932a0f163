CONSTANTS
  Tags = {0, 1, 2}
  Sets = {0, 1}
  LineWords = 1
  Lanes = {0, 1}
  Old = Old
  None = None
  BusData = BusData
  Accesses <- MCPairs
SPECIFICATION Spec
INVARIANTS LinesConsistent NothingLost LoadsSeeStores
