SPECIFICATION FairSpec
CONSTANTS
  MaxRuns = 2
  MaxRetry = 1
  Wait = TRUE
  Exits = {137}
INVARIANT StartedCleanly
PROPERTY ServersComeUp
\* The script is run MaxRuns times; servers that gave up are not started again.
CHECK_DEADLOCK FALSE
