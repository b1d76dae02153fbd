SPECIFICATION Spec
CONSTANTS
  None = None
  Keys = {a}
  Members = {m1, m2}
  Receipts = {r1, r2}
  MaxBuffered = 1
  FreshnessHorizon = 1
  MaxGen = 1
  MaxCursor = 1
  MaxEvents = 1
  MaxNow = 3
SYMMETRY MemberReceiptSymmetry
PROPERTIES
  ReceiptFrontier
  EveryChangePublished
