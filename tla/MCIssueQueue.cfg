CONSTANTS
  Size = 3
  Decoded <- MCDecoded
  HazardInputs <- MCHazardInputs
  MaxFetch = 6
SPECIFICATION FairSpec
INVARIANTS CountsAgree CandidatesInOrder BranchWithSlot
PROPERTIES IssuesInOrder OverflowDrains
