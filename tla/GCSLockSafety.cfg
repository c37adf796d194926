SPECIFICATION Spec
CONSTANTS
  Runner = {r1, r2, r3}
  TTL = 3
  HoldBound = 3
  ReleaseBounded = TRUE
  NoObject = NoObject
  MaxTime = 6
  MaxAcquires = 4
SYMMETRY Symmetry
INVARIANT LockInv
INVARIANT MutualExclusion
PROPERTY OnlyOwnerFrees
PROPERTY Refinement
\* Bounded attempts and a bounded clock: the instance stops when both are used up.
CHECK_DEADLOCK FALSE
