SPECIFICATION Spec
CONSTANTS
  l1 = l1
  l2 = l2
  b1 = b1
  b2 = b2
  t1 = t1
  Load = {l1}
  Bench = {b1, b2}
  NoHolder = NoHolder
  Kind = {"lifecycle", "soak"}
  TargetOf <- OneTarget
  KindOf <- TwoKinds
  Configs <- LocalCanaries
  MaxLockTTL = 6
  GlobalFirst = FALSE
  Grace = 4
  Preflight = 2
  ReleaseTimeout = 0
  Setup = 1
  BenchTTL = 3
  BenchBound = 2
  Day = 13
  Heavy <- HeavyHours
  MaxTime = 21
  MaxManualTime = 12
  Casts <- Canaries
CHECK_DEADLOCK FALSE
INVARIANT ScenariosIndependent
