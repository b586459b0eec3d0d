SPECIFICATION Spec
CONSTANTS
  s1 = s1  s2 = s2  t1 = t1  NULL = NULL
  Secondaries = {s1, s2}
  Locals = {t1}
  Streams = {1}
  Dirs = {"out"}
  MaxPeers = 2
  MaxAttempts = 2
  MaxChannels = 1
  RingSize = 1
  MayFail = TRUE
SYMMETRY SecondarySymmetry
CHECK_DEADLOCK FALSE
INVARIANTS WatchedHasContext RegistrationAgreed RegionsOwned HeldChannelsExist FindIsExact
