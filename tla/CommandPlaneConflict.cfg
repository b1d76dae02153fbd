SPECIFICATION Spec
CONSTANTS
  MaxGen = 2
  MaxLog = 3
PROPERTIES
  ConfirmedCancelIsNoConflict
