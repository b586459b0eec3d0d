SPECIFICATION DataSpec
CONSTANTS
  h1 = h1  h2 = h2  s1 = s1  Lcm = Lcm  App = App
  Marker = Marker  Null = Null
  HookThreads = {h1, h2}
  ListThreads = {s1}
  Threads <- AllThreads
  NumElems <- QueueElems
  MaxEntries = 1
  NumIds = 2
  BatchSize = 2
  Dirs = {"out", "in"}
  SendersStop = TRUE
  k1 = k1  k2 = k2  k3 = k3  w1 = w1  w2 = w2
  NoKey = NoKey  NoNode = NoNode  NoThread = NoThread
  Maint = Maint  p1 = p1  p2 = p2
  MapThreads = {"w0", "w1", "w2"}
  ThreadId <- TwoIds
  MapKeys <- AllKeys
  MapVals <- OneVal
  MapDefs <- ClientMaps
  Hashes <- FourHashes
  MapTests <- AllUnitTests
  MaxMapCalls = 4
INVARIANTS
  BuffersConserved WriterOwnsBuffer NoUseAfterFree EntriesUsable
  HeldNodesLive NodesConserved
  PerfArraysLive SamplesCounted
   MapTestsPass
CHECK_DEADLOCK FALSE
