SPECIFICATION Spec
CONSTANTS
  l1 = l1
  l2 = l2
  b1 = b1
  b2 = b2
  t1 = t1
  Load = {l1, l2}
  Bench = {b1}
  NoHolder = NoHolder
  Kind = {"lifecycle", "soak"}
  TargetOf <- OneTarget
  KindOf <- SoakRun
  Configs <- AllConfigs
  MaxLockTTL = 6
  GlobalFirst = FALSE
  Grace = 4
  Preflight = 2
  ReleaseTimeout = 0
  Setup = 1
  BenchTTL = 3
  BenchBound = 2
  Day = 13
  Heavy <- HeavyHours
  MaxTime = 21
  MaxManualTime = 12
  Casts <- TwoAtATime
SYMMETRY Symmetry
CHECK_DEADLOCK FALSE
INVARIANT GuardInv
INVARIANT LoadTestsExclude
INVARIANT BenchmarksExclude
INVARIANT OncePerWindow
INVARIANT MarkerOfToday
INVARIANT EndsInWindow
INVARIANT AvoidsHeavyWindows
INVARIANT ReleasesAll
INVARIANT NotAllContended
