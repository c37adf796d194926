----------------------------- MODULE MCGCSLock -----------------------------
EXTENDS GCSLock, TLC

\* Processes are interchangeable.
Symmetry == Permutations(Runner)
=============================================================================
