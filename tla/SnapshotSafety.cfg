SPECIFICATION Spec
CONSTANTS
  Run = {r1}
  ResourceTTL = 3
  RetainTTL = 3
  Retains = {FALSE, TRUE}
  Attempts = 2
  RunBound = 1
  ListBound = 1
  SweepPeriod = 2
  MaxTime = 9
CHECK_DEADLOCK FALSE
INVARIANT SnapshotInv
INVARIANT RecordedStaysNamed
INVARIANT SuccessMeansClean
INVARIANT PointerOutlivesSweep
PROPERTY ReclaimedOnTime
