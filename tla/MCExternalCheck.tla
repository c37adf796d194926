-------------------------- MODULE MCExternalCheck --------------------------
EXTENDS ExternalCheck, TLC

CONSTANTS r1, r2, r3

\* The two heavy runs are interchangeable.
Symmetry == Permutations({r1, r2})
=============================================================================
