SPECIFICATION Spec
CONSTANTS
  None = None
  p1 = p1
  Settings = {plain}
  MaxRolls = 1
  WholeChat <- KilledBetween
  BrokenChat <- KilledWithin
  e1 = e1
  e2 = e2
  e3 = e3
  w1 = w1
  s1 = s1
  k1 = k1
  k2 = k2
  InTurn <- ThreeEdits
  AtOnce <- ThreeCalls
  ByCommand <- TwoCommands
INVARIANTS
  CutsAreAccounted
  MatchIsFaithful
  TiersEndWell
  SavedTurnsSurvive
  DoneEditsStay
CHECK_DEADLOCK FALSE
