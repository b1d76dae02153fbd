SPECIFICATION LiveSpec
CONSTANTS
  None = None
  Keys = {k1}
  Values = {v1, v2}
  Epochs = {1, 2, 3}
  MaxGen = 1
  MaxClaims = 6
  MaxFailures = 2
  DupFailures = FALSE
INVARIANTS
  TypeOK
  NewestNotLost
  FrontierStored
  SingleFlight
PROPERTIES
  FrontierAdvances
  EventuallyDurable
  ImplementsRegister
