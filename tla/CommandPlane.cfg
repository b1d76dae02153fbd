SPECIFICATION FairSpec
CONSTANTS
  MaxGen = 2
  MaxLog = 5
INVARIANTS
  TypeOK
  ResolvedTruly
  ConflictNeedsCancel
  ScenariosReplay
PROPERTIES
  ResultKept
  CallEventuallyResolves
