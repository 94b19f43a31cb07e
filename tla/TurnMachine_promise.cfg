SPECIFICATION Spec
CONSTANTS
  MaxTurns = 2
  MaxCalls = 2
  TurnSteps = 1
  SubSteps = 1
  TokenBudget = 2
  StepTokens = {2}
  Faults = {"budget"}
PROPERTIES
  KeepsPromise
CHECK_DEADLOCK FALSE
