SPECIFICATION FairSpec
CONSTANTS
  Run = {r1}
  ResourceTTL = 3
  RetainTTL = 2
  Retains = {TRUE}
  Attempts = 1
  RunBound = 1
  ListBound = 1
  SweepPeriod = 7
  MaxTime = 6
CHECK_DEADLOCK FALSE
PROPERTY EventuallyReclaimed
