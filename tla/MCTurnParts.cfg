SPECIFICATION Spec
CONSTANTS
  None = None
  f1 = f1
  Unpriced = Unpriced
  Prices <- TwoPrices
  SubSteps = 2
  ToolTimeout = 5
  SearchTimeout = 2
  CeilingTurn <- FourCeilings
  LossyTurn <- Lossy
  LiveTurn <- ClockOnly
  Caller = Caller
  Hooks = {h1, h2, h3}
  Handlers = {h1, h2, h3}
  Fires = {f1}
  Disposes = TRUE
INVARIANTS
  CeilingsAreTrue
  FireIsFaithful
PROPERTIES
  NothingHangs
CHECK_DEADLOCK FALSE
