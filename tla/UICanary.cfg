CONSTANT MaxTagAttempts = 3
SPECIFICATION Spec
INVARIANT SuccessMeansDeleted
INVARIANT LeavesNothing
INVARIANT WorksOnTarget
INVARIANT UIInv
