SPECIFICATION Spec
CONSTANTS
  MaxTurns = 1
  MaxCalls = 2
  TurnSteps = 2
  SubSteps = 1
  TokenBudget = 2
  StepTokens = {0, 2}
  Faults = {"approval", "sink", "budget"}
INVARIANTS
  TypeOK
  ReplayableHistory
  StopReasonIsTrue
  DeniedNeverRan
  RequestWithinBudget
  OneLateRunAtMost
  SubagentInsideTurn
PROPERTIES
  NoRequestAfterCancel
CHECK_DEADLOCK FALSE
