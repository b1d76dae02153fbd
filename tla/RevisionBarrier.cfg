SPECIFICATION FairSpec
CONSTANTS
  MaxRevision = 3
  MaxNow = 2
  MaxRechecks = 2
  None = None
INVARIANTS
  TypeOK
  NoLostWakeup
PROPERTIES
  SatisfiedTruly
  EventuallyWoken
