SPECIFICATION FairSpec
CONSTANTS
  a1 = a1
  a2 = a2
  b1 = b1
  b2 = b2
  m = m
  n = n
  NoRev = NoRev
  Revs <- mcRevs
  Parents <- mcParents
  Walk <- mcWalk
  Heads = {m, n}
  NumThreads = 2
  BufferSize = 1
  CheckpointEvery = 2
  Limits = {0, 2}
  InitialRef = NoRev
  Faults = {"thread", "panic"}
  MaxRuns = 3
PROPERTIES StoreSpec RunEnds
