SPECIFICATION FairSpec
CONSTANTS
  h1 = h1  h2 = h2  s1 = s1  Lcm = Lcm  App = App
  Marker = Marker  Null = Null
  HookThreads = {h1}
  ListThreads = {s1}
  Threads <- FewThreads
  NumElems <- QueueElems
  MaxEntries = 1
  NumIds = 2
  BatchSize = 2
  Dirs = {"out", "in"}
  SendersStop = TRUE
PROPERTIES PoolFreed OutputTaken
