SPECIFICATION Spec
CONSTANTS
  Run = {r1}
  ResourceTTL = 3
  RetainTTL = 2
  Retains = {FALSE}
  Attempts = 2
  RunBound = 1
  ListBound = 1
  SweepPeriod = 2
  MaxTime = 8
CHECK_DEADLOCK FALSE
INVARIANT LostResponseLeavesNoLeak
