SPECIFICATION FairSpec
CONSTANTS
  U64_MAX = 3
  None = None
INVARIANTS
  TypeOK
  DurationRespected
PROPERTIES
  EventuallyResolved
