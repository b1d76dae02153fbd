SPECIFICATION FairSpec
CONSTANTS
  Name <- MCName
  Literal = {1, 2}
  Schemas <- MCSchemas
  MaxInline = 3
INVARIANTS
  TypeOK
  RefMeansItsTarget
  OnlyNamesakesFallOut
PROPERTIES
  ImplementsClosure
  BuildEnds
CHECK_DEADLOCK FALSE
