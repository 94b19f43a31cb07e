SPECIFICATION Spec
CONSTANTS
  None = None
  s1 = s1
  s2 = s2
  MaxTurns = 2
  CarefulUse <- AwaitsAll
  CarelessUse <- EveryHabit
  HastyUse <- DisposesEarly
  Typing <- Completing
  Undoing <- Reverting
  Delegating <- Resetting
  Configurations <- SixConfigurations
  Platforms = {"win32", "linux"}
  MaxChanges = 2
  MaxAsks = 2
INVARIANTS
  AmbiguityIsRefused
CHECK_DEADLOCK FALSE
