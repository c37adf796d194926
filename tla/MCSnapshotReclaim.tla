------------------------ MODULE MCSnapshotReclaim ------------------------
EXTENDS SnapshotReclaim, TLC

\* Runs are interchangeable.
Symmetry == Permutations(Run)
=============================================================================
