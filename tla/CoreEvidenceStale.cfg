SPECIFICATION Spec
CONSTANTS
  None = None
  f1 = f1
  f2 = f2
  g = g
  Bindings = 2
  Files <- MCFiles
  Claims <- MCClaims
  MaxChildren = 0
INVARIANTS
  RestoredNeverAccepted
