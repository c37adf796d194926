SPECIFICATION FairSpec
CONSTANTS
  Worker = {w1, w2}
  Operations = 3
  Scenarios = {"create", "lifecycle"}
  NoWorker = NoWorker
INVARIANT PoolInv
INVARIANT WorkerLimit
INVARIANT LiveLimit
INVARIANT SuccessMeansClean
INVARIANT AccountsBalance
PROPERTY Returns
