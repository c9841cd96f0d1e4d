SPECIFICATION FairSpec
CONSTANTS
  i1 = i1
  i2 = i2
  Schedule <- mcSchedule
  o1 = o1
  Operators = {o1}
  Together <- mcTogether
  Release1 = TRUE
INVARIANT NoStrayVolume
PROPERTIES ServiceKept DeploymentsEnd
\* The triggers of the schedule are all there are.
CHECK_DEADLOCK FALSE
