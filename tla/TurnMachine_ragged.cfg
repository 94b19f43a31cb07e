SPECIFICATION Spec
CONSTANTS
  MaxTurns = 2
  MaxCalls = 1
  TurnSteps = 1
  SubSteps = 1
  TokenBudget = 2
  StepTokens = {2}
  Faults = {"approval"}
INVARIANTS
  NextTurnIsValid
CHECK_DEADLOCK FALSE
