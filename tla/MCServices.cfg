SPECIFICATION Spec
CONSTANTS
  None = None
  Broken = Broken
  Torn = Torn
  Noise = Noise
  Missing = Missing
  Unset = Unset
  Bad = Bad
INVARIANTS
  ConfinementIsThePlan
  ReportsAreBound
PROPERTIES
  SessionsKeepTheirWord
  RunTellsTheOutcome
  CallsAreBilled
  SearchIsHonest
CHECK_DEADLOCK FALSE
