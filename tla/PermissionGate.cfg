SPECIFICATION Spec
CONSTANTS
  Words <- AllWords
  OsLevel = FALSE
  Paths <- AllPaths
  Spelled <- SpelledUnder
  Lies <- LiesUnder
  Roots <- AllRoots
  Workspace = "workspace"
  Outside = "outside"
  Hosts = {"host"}
  Effects <- AllEffects
  Calls <- AllCalls
  Sandboxes <- AllSandboxes
  Channel = TRUE
  Contained = TRUE
  None = None
INVARIANTS
  TypeOK
  GrantIsJustified
  ForbiddenNeverRuns
