SPECIFICATION FairSpec
CONSTANTS
  p1 = p1
  p2 = p2
  p3 = p3
  h = h
  g = g
  NoProc = NoProc
  Procs = {p1, p2, p3}
  Files = {h, g}
  Work <- mcWork
  Garbage = {2}
  Faults = {"die", "disk"}
INVARIANT FilesIntact
PROPERTIES StoreSpec SurvivorsFinish
\* The compilers do end; SurvivorsFinish says that they end well.
CHECK_DEADLOCK FALSE
