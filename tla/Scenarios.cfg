SPECIFICATION FairSpec
CONSTANTS
  l1 = l1
  t1 = t1
  t2 = t2
  d1 = d1
  d2 = d2
  Lifecycle = {l1}
  Template = {t1, t2}
  Dax = {d1, d2}
  ResourceTTL = 2
  RetainTTL = 1
  Retains = {TRUE, FALSE}
  RunBound = 1
  PageLimit = 1
  MaxVersions = 2
  MaxTime = 3
  Casts <- MCCasts
CHECK_DEADLOCK FALSE
INVARIANT ScenariosInv
INVARIANT SuccessMeansDone
PROPERTY SweepSparesRuns
PROPERTY TemplatesReclaimed
