CONSTANTS
  NumTags = 3
  NumSets = 2
  LineWords = 2
  Fetches = {0, 1, 3, 5, 7}
  Writable = {3}
  None = None
  Junk = Junk
SPECIFICATION FairSpec
INVARIANTS AnswersAsked NewCodeAfterInvalidate OneCopy
PROPERTY AccessEnds
