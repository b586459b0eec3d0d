SPECIFICATION FairSpec
CONSTANTS
  t1 = t1  t2 = t2
  NULL = NULL
  Threads = {t1, t2}
  Hooks <- AllHooks
  CtrlHooks <- CtrlHooksOnly
  Requests <- MainRequests
  MaxCodelets = 4
  MaxSets = 3
  MaxInSet = 3
  MaxMaps = 8
  MaxChannels = 2
  NameLen = 3
  ExperimentalFeatures = TRUE
  Files <- AllFiles
  HtMayFail = TRUE
  Scripts <- AllScripts
INVARIANTS NoFreedMapInUse LoadIsAllOrNothing NothingLeaks LimitsKept SharedIffLinked TestsAgree
PROPERTY RequestAnswered
CHECK_DEADLOCK FALSE
