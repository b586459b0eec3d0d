SPECIFICATION Spec
CONSTANTS
  h1 = h1  h2 = h2  s1 = s1  Lcm = Lcm  App = App
  Marker = Marker  Null = Null
  HookThreads = {h1, h2}
  ListThreads = {s1}
  Threads <- AllThreads
  NumElems <- QueueElems
  MaxEntries = 1
  NumIds = 2
  BatchSize = 2
  Dirs = {"in"}
  SendersStop = FALSE
INVARIANT WriterOwnsBuffer
