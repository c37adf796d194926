---------------------------- MODULE MCLoadGuard ----------------------------
EXTENDS LoadGuard, TLC

CONSTANTS l1, l2, b1, b2, t1

OneTarget  == [j \in {l1, l2, b1, b2} |-> t1]
SoakRun    == [b \in {b1} |-> "soak"]
TwoKinds   == [b \in {b1, b2} |-> IF b = b1 THEN "lifecycle" ELSE "soak"]
HeavyHours == {<<8, 10>>}

Manual == [scheduled |-> FALSE, globalLock |-> FALSE, benchmarkGuard |-> FALSE,
           external |-> FALSE, backend |-> "none",
           runTimeout |-> 1, deleteTimeout |-> 1, lockTTL |-> 6,
           windowStart |-> 1, windowEnd |-> 8, canaries |-> "gcs"]

\* As the deployment schedules it.
Scheduled == [Manual EXCEPT !.scheduled = TRUE, !.globalLock = TRUE, !.benchmarkGuard = TRUE,
                            !.external = TRUE, !.backend = "gcs"]

Guarded   == [Manual EXCEPT !.benchmarkGuard = TRUE, !.backend = "gcs"]
LocalFile == [Manual EXCEPT !.backend = "file", !.canaries = "file"]
Unlocked  == [Manual EXCEPT !.external = TRUE]

\* What Load must refuse.
ShortLease   == [Guarded EXCEPT !.lockTTL = 5]
GuardedFile  == [Guarded EXCEPT !.backend = "file"]
ShortWindow  == [Scheduled EXCEPT !.windowEnd = 6]
Unguarded    == [Scheduled EXCEPT !.benchmarkGuard = FALSE]

AllConfigs == {Scheduled, Guarded, LocalFile, Unlocked,
               ShortLease, GuardedFile, ShortWindow, Unguarded}
LocalCanaries == {LocalFile}

\* A load test next to another, or to a canary.
TwoAtATime == {{l1, l2}, {l1, b1}, {l2, b1}}

Canaries == {{b1, b2}}

\* Executions of one load test are interchangeable.
Symmetry == Permutations({l1, l2})
=============================================================================
