SPECIFICATION Spec
CONSTANTS
  Name <- MCName
  Literal = {1, 2}
  Schemas <- MCSchemas
  MaxInline = 3
INVARIANT NothingFallsOut
CHECK_DEADLOCK FALSE
