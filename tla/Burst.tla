------------------------------- MODULE Burst -------------------------------
(***************************************************************************)
(* The burst canary (internal/lifecycle/burst.go): BurstSize goroutines     *)
(* each create a sandbox, run a command in it and delete it, and the run    *)
(* sums up their samples when all have ended.  The goroutines are alike and *)
(* share nothing but their own slot of the samples, so the model counts     *)
(* them by where they are.                                                  *)
(***************************************************************************)
EXTENDS Integers, FiniteSets, Sequences

CONSTANTS Sizes,      \* the values of CANARY_BURST_SIZE considered
          Latency,    \* the times to interactive
          Delay,      \* from the start of the burst to that of a goroutine's timing
          Width,      \* bound of the model: goroutines between create and delete
          MaxFaults   \* bound of the model: requests that fail

ASSUME BurstAssumption ==
  /\ Sizes \subseteq Nat /\ IsFiniteSet(Sizes)
  /\ Latency \subseteq Nat \ {0} /\ IsFiniteSet(Latency)
  /\ Delay \subseteq Nat /\ IsFiniteSet(Delay)
  /\ Width \in Nat \ {0} /\ MaxFaults \in Nat

VARIABLES
  size,        \* r.Config.BurstSize
  creating, running, deleting,   \* how many goroutines wait for each request
  ttis,        \* samples without an error, by TTI
  failed,      \* samples with an error
  wallClock, firstReady,         \* of the samples' ReadyAt, 0 when there is none
  undeleted,   \* deletions that failed, which are only logged
  lost,        \* sandboxes whose creation was reported to have failed
  boxes,       \* backend: sandboxes that exist
  outcome      \* of the run

samples == <<ttis, failed, wallClock, firstReady>>
vars == <<size, creating, running, deleting, samples, undeleted, lost, boxes, outcome>>

Init == /\ size \in Sizes
        /\ creating = size /\ running = 0 /\ deleting = 0
        /\ ttis = [l \in Latency |-> 0] /\ failed = 0 /\ wallClock = 0 /\ firstReady = 0
        /\ undeleted = 0 /\ lost = 0 /\ boxes = 0 /\ outcome = "none"

TypeOK == /\ size \in Sizes
          /\ {creating, running, deleting, failed, undeleted, lost, boxes} \subseteq 0..size
          /\ creating + running <= size /\ running + deleting <= Width
          /\ ttis \in [Latency -> 0..size]
          /\ {wallClock, firstReady} \subseteq Nat
          /\ outcome \in {"none", "success", "error"}

MayFail == failed + undeleted < MaxFaults

-----------------------------------------------------------------------------
(* The goroutines *)

\* A failed sample whose sandbox, if any, is not known to the run.
Create ==
  /\ creating > 0 /\ running + deleting < Width
  /\ creating' = creating - 1
  /\ \/ running' = running + 1 /\ boxes' = boxes + 1 /\ UNCHANGED <<failed, lost>>
     \/ /\ MayFail /\ failed' = failed + 1 /\ UNCHANGED running
        /\ \E effect \in {0, 1} : boxes' = boxes + effect /\ lost' = lost + effect
  /\ UNCHANGED <<size, deleting, ttis, wallClock, firstReady, undeleted, outcome>>

\* The command succeeds.
Exec ==
  /\ running > 0
  /\ running' = running - 1 /\ deleting' = deleting + 1
  /\ \E tti \in Latency, delay \in Delay :
       LET readyAt == tti + delay
       IN  /\ ttis' = [ttis EXCEPT ![tti] = @ + 1]
           /\ wallClock' = IF readyAt > wallClock THEN readyAt ELSE wallClock
           /\ firstReady' = IF firstReady = 0 \/ readyAt < firstReady THEN readyAt ELSE firstReady
  /\ UNCHANGED <<size, creating, failed, undeleted, lost, boxes, outcome>>

\* Mutant of ExecFails: the deletion is not deferred.
ExecFailsAtOnce ==
  /\ running > 0 /\ MayFail
  /\ running' = running - 1 /\ failed' = failed + 1
  /\ UNCHANGED <<size, creating, deleting, ttis, wallClock, firstReady, undeleted, lost,
                 boxes, outcome>>

ExecFails ==
  /\ running > 0 /\ MayFail
  /\ running' = running - 1 /\ deleting' = deleting + 1 /\ failed' = failed + 1
  /\ UNCHANGED <<size, creating, ttis, wallClock, firstReady, undeleted, lost, boxes, outcome>>

\* Not timed, outlives the run's context, and is no error of the sample.
Delete ==
  /\ deleting > 0
  /\ deleting' = deleting - 1
  /\ \/ boxes' = boxes - 1 /\ UNCHANGED undeleted
     \/ MayFail /\ undeleted' = undeleted + 1 /\ boxes' \in {boxes - 1, boxes}
  /\ UNCHANGED <<size, creating, running, samples, lost, outcome>>

-----------------------------------------------------------------------------
(* The run *)

\* The samples with a TTI among the given ones, told apart by a number.
SamplesOf(latencies) == UNION {{l} \X (1..ttis[l]) : l \in latencies}
HowMany(latencies) == Cardinality(SamplesOf(latencies))
Below(l) == {k \in Latency : k < l}
UpTo(l)  == Below(l) \cup {l}
Succeeded == HowMany(Latency)

\* wg.Wait, and the verdict.
Summarize ==
  /\ outcome = "none" /\ creating = 0 /\ running = 0 /\ deleting = 0
  /\ outcome' = IF Succeeded < size THEN "error" ELSE "success"
  /\ UNCHANGED <<size, creating, running, deleting, samples, undeleted, lost, boxes>>

\* The TTIs in ascending order.
Sorted == [i \in 1..Succeeded |->
             CHOOSE l \in Latency : HowMany(Below(l)) < i /\ i <= HowMany(UpTo(l))]

\* The fastest and slowest 5% are dropped, if something is left.
Trimmed(sorted) ==
  LET n == Len(sorted)
      trim == (n * 5) \div 100
  IN  IF n - 2 * trim > 0 THEN SubSeq(sorted, trim + 1, n - trim) ELSE sorted

\* Twice the median.
Median2(sorted) ==
  LET mid == Len(sorted) \div 2
  IN  IF Len(sorted) % 2 = 0 THEN sorted[mid] + sorted[mid + 1] ELSE 2 * sorted[mid + 1]

Ceil(a, b) == -((-a) \div b)

\* Mutant of Percentile: the rank as an index that starts at 0.
PercentileNext(sorted, p) ==
  LET n == Len(sorted)
      i == Ceil(p * n, 100) + 1
  IN  sorted[IF i > n THEN n ELSE i]

\* Nearest rank, kept within the samples.
Percentile(sorted, p) ==
  LET n == Len(sorted)
      i == Ceil(p * n, 100)
  IN  sorted[IF i > n THEN n ELSE IF i < 1 THEN 1 ELSE i]

\* The nearest rank of the load test's report.
NearestRank(ordered, percentile) == ordered[(Len(ordered) * percentile + 99) \div 100]

Next == Create \/ Exec \/ ExecFails \/ Delete \/ Summarize

Spec == Init /\ [][Next]_vars

-----------------------------------------------------------------------------
(* Properties *)

\* Every goroutine is before its sample or has it.
Placed == creating + running + Succeeded + failed = size

\* The sandboxes are those in the hands of a goroutine, and some of those that it
\* could not know of or failed to delete.
Boxes == /\ creating + running + deleting + lost + undeleted <= size
         /\ running + deleting <= boxes
         /\ boxes <= running + deleting + lost + undeleted

\* The first sandbox is ready before the last, and no later than any TTI.
Times == /\ firstReady <= wallClock
         /\ firstReady = 0 <=> wallClock = 0
         /\ \A l \in Latency : ttis[l] > 0 => l <= wallClock

\* Success is every sandbox's.
Verdict == outcome # "none" => /\ creating = 0 /\ running = 0 /\ deleting = 0
                               /\ outcome = "success" <=> Succeeded = size

\* A run that has ended leaves only the sandboxes that it could not know of and those
\* that it tried to delete, whatever became of its commands; and it succeeds just if
\* each of its sandboxes was ready (runBurst and burstOne; with the types of the
\* variables, and as an inductive invariant).
BurstInv == TypeOK /\ Placed /\ Boxes /\ Times /\ Verdict

\* What is dropped at each end: the most that is not above 5%.
Trim == CHOOSE t \in 0..Succeeded : 100 * t <= 5 * Succeeded /\ 100 * (t + 1) > 5 * Succeeded
Kept == Succeeded - 2 * Trim
\* Of the n fastest samples, how many are kept.
KeptOf(n) == IF n < Trim THEN 0 ELSE IF n - Trim > Kept THEN Kept ELSE n - Trim

\* The p-th percentile of what is kept: it is not exceeded by p percent, and no
\* smaller sample is.
IsPercentile(v, p) == /\ 100 * KeptOf(HowMany(UpTo(v))) >= p * Kept
                      /\ 100 * KeptOf(HowMany(Below(v))) < p * Kept

\* The statistics of the report are those of the benchmark, at every size and
\* distribution: half of what is kept is on either side of the median, the
\* percentiles are the nearest ranks, which the load test's report computes in
\* another way, they are in order, and none exceeds the time the burst took
\* (summarizeBurst, trimmedStats and percentile).
StatsRight ==
  outcome # "none" /\ Succeeded > 0 =>
    LET kept == Trimmed(Sorted)
        p95  == Percentile(kept, 95)
        p99  == Percentile(kept, 99)
        median2 == Median2(kept)
    IN  /\ Len(kept) = Kept
        /\ 2 * KeptOf(HowMany({l \in Latency : 2 * l < median2})) <= Kept
        /\ 2 * KeptOf(HowMany({l \in Latency : 2 * l <= median2})) >= Kept
        /\ IsPercentile(p95, 95) /\ IsPercentile(p99, 99)
        /\ p95 = NearestRank(kept, 95) /\ p99 = NearestRank(kept, 99)
        /\ median2 <= 2 * p95 /\ p95 <= p99 /\ p99 <= wallClock
        /\ 0 < firstReady /\ firstReady <= wallClock
=============================================================================
