CONSTANT MaxLen = 3
SPECIFICATION FairSpec
INVARIANTS RequestStays WordByWord NoReadOverWrite BoundedBypass
PROPERTY BurstsEnd
