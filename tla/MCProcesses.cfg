SPECIFICATION Spec
CONSTANTS
  None = None
  c1 = c1
  Descends = TRUE
  PreAborted = TRUE
  BrokerChunks = 4
  BrokerCap = 2
  BrokerFeeds = FALSE
  SandboxChunks = 3
  SandboxCap = 2
  SandboxFeeds = TRUE
  ServingServers = 2
  ServingLists = 1
  OffersServers = 1
  OffersLists = 3
  Asked = {c1, c2}
INVARIANTS
  OutputIsComplete
  HostIsTidy
PROPERTIES
  SettledIsQuiet
  CommandsReturn
CHECK_DEADLOCK FALSE
