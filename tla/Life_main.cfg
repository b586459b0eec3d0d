SPECIFICATION FairSpec
CONSTANTS
  w1 = w1
  c1 = c1
  c2 = c2
  a = a
  NULL = NULL
  Workers = {w1}
  Procs <- AllProcs
  Clients = {c1, c2}
  Asks <- LoadAndUnload
  Configs <- SomeConfigs
  Sets = {a}
  NumIds = 5
  WordBits = 32
  MayFail = TRUE
INVARIANTS IdsUnique BitsExact NoUseAfterTeardown ReadyWhenInitReturns
PROPERTIES ImplementsThreadIds InitTerminates StopTerminates RequestAnswered
CHECK_DEADLOCK FALSE
