SPECIFICATION LiveSpec
CONSTANTS
  None = None
  Keys = {a}
  Members = {}
  Receipts = {}
  MaxBuffered = 1
  FreshnessHorizon = 1
  MaxGen = 2
  MaxCursor = 3
  MaxEvents = 3
  MaxNow = 0
INVARIANTS
  TypeOK
  ProjectionFaithful
  BufferSound
PROPERTIES
  Recovers
