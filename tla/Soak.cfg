SPECIFICATION Spec
CONSTANTS
  SoakDuration = 5
  SoakInterval = 2
  MaxTime = 7
  MaxPauses = 1
  MaxFaults = 1
CHECK_DEADLOCK FALSE
INVARIANT SoakInv
INVARIANT ChecksAccounted
INVARIANT SuccessMeansObserved
INVARIANT PortDeleted
