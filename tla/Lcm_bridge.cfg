SPECIFICATION Spec
CONSTANTS
  t1 = t1  t2 = t2
  NULL = NULL
  Threads = {t1, t2}
  Hooks <- AllHooks
  CtrlHooks <- CtrlHooksOnly
  Requests <- BridgeRequests
  MaxCodelets = 5
  MaxSets = 3
  MaxInSet = 3
  MaxMaps = 6
  MaxChannels = 2
  NameLen = 3
  ExperimentalFeatures = TRUE
  Files <- AllFiles
  HtMayFail = FALSE
  Scripts <- OnlyClients
INVARIANT SharedIffLinked
