SPECIFICATION Spec
CONSTANT None = None
INVARIANTS
  TextMeansItself
PROPERTIES
  HooksDecide
  LoadedIsWhole
  StoreIsConsented
CHECK_DEADLOCK FALSE
