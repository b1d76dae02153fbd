SPECIFICATION Spec
CONSTANT Fields <- MCFields
INVARIANTS
  MeaningKept
  RelayDelivers
  AcceptedConforms
  EmitsConforming
  FixtureExpectationsMet
CHECK_DEADLOCK FALSE
