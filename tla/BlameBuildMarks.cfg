SPECIFICATION Spec
CONSTANTS
  a1 = a1
  a2 = a2
  b1 = b1
  b2 = b2
  m = m
  n = n
  NoRev = NoRev
  Revs <- mcRevs
  Parents <- mcParents
  Walk <- mcWalk
  Heads = {m}
  NumThreads = 1
  BufferSize = 1
  CheckpointEvery = 10
  Limits = {0}
  InitialRef = NoRev
  Faults = {"import"}
  MaxRuns = 2
PROPERTY MarksLeftOnError
