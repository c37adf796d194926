# Verification of the Superserve canaries

This directory models the programs of this repository that coordinate with each
other or clean up after themselves, checks the models with TLC on small
instances, and proves the properties that matter most for all instances with
TLAPS. Paths below are relative to the repository; `PROJECT.json` maps every
definition that models code to its lines.

## The system

| component | state | operations | who it meets |
|---|---|---|---|
| target leases (`internal/lock/gcs.go`) | one object per target and scenario in a bucket: a token and an expiry | `Acquire`: attributes, read, conditional write; `Release`: read, delete | every process that runs a canary or a load test against the target |
| local leases (`internal/lock/file.go`, `lock_file_unix.go`) | a lock on one file, whatever the key | `Acquire`, `Release` | processes on one machine |
| load test worker pool (`internal/loadrunner/runner.go`) | a channel of jobs, a stop flag, counters under a mutex | send loop, workers, deferred cleanup | the platform API |
| load test guard (`internal/loadrunner/guard.go`) | the leases taken so far, the deadline | time checks, up to six leases in sorted order, daily marker, `Release` | leases, benchmark canaries, GitHub |
| load test program (`cmd/load-runner`) | configuration, report | guard, run under a deadline, release, report | guard and pool |
| lifecycle runner (`internal/lifecycle/runner.go`, `operations.go`) | one run's resources and result | lease, dispatch by mode, retain or delete | platform API, leases |
| snapshot canary (`internal/lifecycle/snapshot.go`) | a source sandbox, a snapshot, a fork | capture, record on the source, fork, verify, deferred cleanup | platform API, janitor |
| soak canary (`internal/lifecycle/soak.go`) | schedule, counters, one sandbox | a cycle of eleven checks per interval | platform API |
| burst canary (`internal/lifecycle/burst.go`) | samples, one slot per goroutine | concurrent creates, commands and deletes; statistics | platform API |
| template and dax canaries (`internal/lifecycle/template.go`, `dax.go`) | a sandbox; a template of its own, or one shared by name | build, wait, verify, delete; find, replace, reuse | platform API, janitor, each other |
| UI canary (`internal/uicanary`) | a browser page, a sandbox | create and delete through the console, recovery through the API | console, API |
| janitor (`internal/janitor`) | nothing between sweeps | list, delete what has expired | everything that creates a resource |
| API client, configuration, metrics, Slack, infrastructure | none that is read back | requests, parsing, output | all |

The processes share no memory. They meet in three places: the lease objects in
Cloud Storage (or a lock file), the resources on the platform with their metadata
and expiry, and the public benchmark's workflow runs at GitHub. The hard behaviour
is there:

* several processes take over one expired lease at once; a response is lost, and
  the writer does not know that it holds the lease; a process dies with it;
* a create or snapshot request commits and its response is lost, so that nobody
  knows what to delete;
* the janitor works on a listing that is minutes old, while runs delete, retain
  and re-expire the same resources, and the platform deletes them on its own;
* two dax runs, of targets that share a team, replace one failed template, each from
  its own listing;
* the deferred cleanup of a run fails half-way, or the run is killed in it;
* within the load runner, workers, the sender and the timer race for the stop
  flag and the context;
* times add up: budgets, deadlines, windows, lease TTLs and task timeouts.

What makes each component correct is stated as the properties listed below under
its module; `PROJECT.json` lists the hazards with the line where each one bites.

## Modules

| module | models | composed with |
|---|---|---|
| `Lease` | what a lease promises (`internal/lock/lock.go`): the abstract specification | implemented by `GCSLock`, assumed by `LoadGuard` |
| `GCSLock` | `Acquire` and `Release`, one storage request per step | refines `Lease` |
| `LoadRunner` | `Runner.Run`: sender, workers, operations and their cleanup | |
| `LoadGuard` | `validateExecutionConfig`, `AcquireGuard`, the run under its deadline, `Release`; canaries; both kinds of lease | uses leases as `Lease` has them |
| `ExternalCheck` | `checkExternalBenchmarks`: two requests to a moving target | its result is a free choice in `LoadGuard` |
| `SnapshotReclaim` | `runSnapshot`, `FinalizeSandbox`, the janitor's sweep of sandboxes, auto-deletion | two components over one platform |
| `Scenarios` | `runLifecycle`, `runTemplate`, `runDax`, the janitor's sweep of templates | four components over one platform |
| `Burst` | `runBurst`, `burstOne`, `summarizeBurst` and the statistics | |
| `Soak` | `runSoak`: schedule, cycle, counters, cleanup | |
| `UICanary` | one run in the browser: creation, steps, deletion, deferred cleanup, recovery through the API | |
| `GCSLockProofs`, `LoadGuardProofs`, `SnapshotReclaimProofs`, `LoadRunnerProofs`, `ScenariosProofs`, `SoakProofs`, `UICanaryProofs`, `BurstProofs` | the theorems about the module each is named for | |
| `MC...` | model values, symmetry and small sets for TLC | |

### Lease and GCSLock

`Lease` has a holder, the time the grant runs to, and the tokens at work.
`GCSLock` follows `gcs.go`: `AcquireBegin` reads the clock and makes the token;
`AcquireAttrs` fetches the generation; `AcquireRead` reads that generation and
compares its expiry with the clock read at the beginning; `AcquireWrite` writes
under the precondition (`DoesNotExist` or `GenerationMatch`), and may take effect
without the writer learning of it; `ReleaseRead` and `ReleaseDelete` are two
requests, the second without a generation, as in the code. `Abandon` is any
error or death; it leaves the object behind. `Timed` is the task timeout: no
owner works longer than `HoldBound`, which is at most the TTL. This is an
assumption about the deployment, not the code, which gives `Release` a context
without a deadline (`internal/lifecycle/runner.go:163`): in `infra/envs/production` every
job's task timeout is shorter than, or equal to, its `LOCK_TTL` (snapshot
15m/15m, dax 45m/45m, soak 6h20m/6h30m), and the timeout counts from before the
lease is taken. Without it the unconditional delete in `Release` could remove a
successor's lease; with the `gcs` backend outside Cloud Run nothing enforces it.

* `LockInv`: the invariant of the protocol: what each process has read is true
  of the object's generation, a generation has one content, and a holder's
  object is in the bucket until the holder's time is up.
* `MutualExclusion`: two processes never hold the lock, whatever requests lose.
* `OnlyOwnerFrees`: an unexpired lease leaves the bucket only by its owner. This
  holds because of the assumption above; it says nothing of a `Release` that
  outlives its lease.
* `Refinement`: the storage protocol implements `Lease`.

### LoadRunner

Each worker has a program counter over `runOneWithUnsafeReplacement` and its
deferred cleanup; the platform has sandboxes; `summary`, `unsafe` and
`cancelled` are the variables of `Run`. Setting the flag and cancelling the
context are two steps, as in the code, and so are admission and accounting.

* `WorkerLimit`, `LiveLimit`: sandboxes never outnumber workers; "Uncertain
  creation outcomes or cleanup failures stop replacement dispatch rather than
  accumulating unobserved sandboxes above the worker limit" (`README.md:283`).
  In the create scenario deletion is not awaited, so only sandboxes without an
  accepted delete are counted.
* `PoolInv`: the inductive invariant behind these; see Proofs. Jobs in hand are
  distinct, a sandbox belongs to its worker, the counters are those of the workers
  (`Counted`), a failure is marked (`FailuresMarked`), the pool stops only for a
  cause (`StopsForCause`), and the verdict is about all of this (`Reported`).
* `SuccessMeansClean`: no error means that every operation was done and no sandbox
  is left without a delete.
* `AccountsBalance`: the counters are what happened at any time, operations that
  never started fail the run, and every sandbox left behind is some failure's.
* `Returns`: `Run` returns, though its workers may leave while the sender waits.

### LoadGuard and ExternalCheck

Time is explicit, and so is the configuration: a behaviour has one of several
environments, of which `Accepted` (`validateExecutionConfig`) lets some pass. A
guarded load test checks the time, takes its keys in sorted order, rechecks, takes
the daily marker, checks once more, runs under its deadline, deletes, and releases.
Every acquisition may fail with or without effect. A canary takes one key and works
within its task timeout. `LockOf` says which lock a key stands for: its own on Cloud
Storage; with the file backend, the one file of the load tests or of the target's
canaries, which does not expire and goes with its process.

* `GuardInv`: what holds a configuration, its phases and its leases together: no
  phase overruns (`InTime`), `AcquireGuard` refuses nothing that `Load` accepted
  (`InOrder`), a test goes on with all of its leases, which outlast what is left to do
  (`HoldsKeys`, `HoldsLease`), what it remembers is its own and what is its own it
  remembers (`Owns`, `Recalls`), and a daily marker is that of an execution of its
  window and is gone before the next (`MarkedBy`, `MarkerLasts`, `MarkerFound`).
* `LoadTestsExclude`, `BenchmarksExclude`: exclusion by the leases, whatever
  expires, fails or is killed.
* `OncePerWindow`, `MarkerOfToday`: a scheduled test delivered again is not admitted
  again, and the marker of one day blocks none of the next.
* `EndsInWindow`: work and deletions leave the grace period of the window free.
* `AvoidsHeavyWindows`: a guarded manual run never reaches into a heavy window.
* `ReleasesAll`: a blocked or finished test holds nothing but its marker, unless a
  call of its own failed: a lease whose response was lost is left to expire, and a lost
  daily marker costs the rest of the day (`MarkerOfToday`).
* `NotAllContended`: tests that contend for several keys do not all lose.
* `CheckSound`: a heavy run pending throughout the check is never overlooked,
  because queued runs are asked for first and runs only move forward.
* `ScenariosIndependent` does **not** hold with the file backend (run
  `guard_file_lock`): `lifecycle/runner.go:116` says that each scenario holds its own
  lease, so that a slow run never blocks the lifecycle run on the same target. A file
  lock ignores its key, and the default file is named by the target alone.

The model has no load test with several keys on the file backend, since
`validateExecutionConfig` refuses one.

### SnapshotReclaim

Each run owns a source, at most one capture and a fork. The capture has no
metadata: the source's metadata is the only pointer to it. Requests fail with or
without effect; the janitor lists, later reads the clock, then handles the items
of its old listing one request at a time; auto-deletion may strike any time
after its deadline, which is doubled for pointers.

* `SnapshotInv`: retries of a lost capture never make a second one, and a run that
  knows of a snapshot it could not delete ends with the source in place. The parts
  that make it inductive say what a run knows of its sandboxes (`RunInOrder`), that
  an item of an old listing is still true of its sandbox or harmless
  (`SweepInOrder`), and when the next sweep is due (`Punctual`).
* `RecordedStaysNamed`: a recorded snapshot is never separated from the source that
  names it, and what is kept for debugging is kept whole.
* `SuccessMeansClean`: a run without error has deleted all it made.
* `ReclaimedOnTime`: nothing is taken from a run in progress or kept for debugging.
* `PointerOutlivesSweep`: while sweeps are on time, the doubled auto-delete time
  lets the janitor see every pointer before it vanishes. Production sweeps hourly
  with a default TTL of one hour, which is the boundary: the theorem assumes that the
  sweep period is at most either TTL, and the instance has it shorter.
* `EventuallyReclaimed`: everything is reclaimed in the end.
* `LostResponseLeavesNoLeak` does **not** hold (run `snapshot_leak`): when no
  attempt of `CreateSnapshot` gets its response, `SnapshotID` stays empty, the
  deferred cleanup deletes the source, and the capture is left with no pointer
  to it. `snapshot.go:188` says that the idempotency key prevents the leak, and
  `README.md:58` that "the source keeps pointing at its snapshot until the
  snapshot is gone"; both hold only if some attempt is answered.

### Scenarios

A run goes through the steps its scenario shares with the others: a sandbox is
created, awaited, used, finalized. A template run builds a template of its own first
and deletes it last; a dax run first loops over `ensureDaxTemplate`, where each turn
acts on a listing that others may have overtaken. Dax runs of one target do not meet,
since its `dax` lease serialises them; two that do are of different targets, or use
different lock backends, in one team. Requests fail with or without
effect, builds end at their own pace, runs are killed anywhere. The janitor reads the
clock, later lists one page of templates, and later handles each of them.

* `ScenariosInv`: a dax run goes on only with a template that is ready, and nobody
  deletes it under the name of the failed one it replaced (`DaxFound`). The other
  parts: a run keeps to its time (`OnTime`), its template and sandbox are those it
  knows of (`OwnTemplate`, `KnowsOwn`), and a lifecycle run past its pause has paused
  (`HasPaused`).
* `SuccessMeansDone`: a run without error has deleted its sandbox and its template,
  and a lifecycle run's sandbox was paused on the way.
* `SweepSparesRuns`: the janitor takes a template only when its run is over and the
  longer of the two TTLs has passed.
* `TemplatesReclaimed`: no template of a template run stays for ever. The comment at
  `janitor/runner.go:147` names retention as the only way a template outlives its
  run; a lost response, a failed delete and a killed run are others, and the sweep
  reaches these as well, also when they fill more than a page.

### Burst

The goroutines are alike and share nothing but their slots, so the model counts them
by where they are. The samples are kept as the number of goroutines with each time
to interactive, which `Sorted` turns into the sequence that the statistics are
computed from.

* `BurstInv`: a burst leaves only sandboxes it could not know of or failed to
  delete, and succeeds just if every sandbox was ready. It counts: every goroutine is
  before its sample or has it (`Placed`), and every sandbox is a goroutine's or
  excused (`Boxes`).
* `StatsRight`: the median and percentiles agree with a definition by counting, at
  sizes where nothing is trimmed, where trimming begins, and where five of a
  hundred go from either end; the percentile of
  the burst and the nearest rank of the load test's report, two formulas in the code,
  agree; and no statistic exceeds the time the burst took. `CANARY_BURST_SIZE` is not
  validated; with 0 the burst succeeds and reports nothing.

### Soak

Both readings of the clock after a cycle are steps, timers may be late, the
context may end anywhere, checks fail with or without effect, and the platform
pauses the sandbox and may resume it with another process.

* `SoakInv`: attempted and skipped checks add up to the cycles for each of the
  eleven checks, also when a cycle is cut short (`Balanced`), and reported pauses took
  place (`PausesReported`). Its other parts tie the counters to the schedule
  (`OnSchedule`) and an error to what it is about (`SetUp`, `ErrorsKept`,
  `PortUndone`).
* `ChecksAccounted`: each scheduled check was made or counted as missed.
* `SuccessMeansObserved`: success means all checks made, none failed, the process
  outlived a pause, and the sandbox is gone ("slow checks cannot silently reduce
  coverage", `README.md:69`). Counting a late check twice, which the two readings
  of the clock allow, only ever turns a late run into a failed one.
* `PortDeleted`: a second port whose publication seemed to fail is deleted.

### UICanary

The browser is a lossy view of the backend. `config` says whether the run has
the API and an expected ID prefix, `created` where the page's active team creates
and what its IDs look like; both are chosen at the start. The request that
creates the sandbox, the goroutine that reads its response, and each DELETE of
the three callers of `deleteSandboxInUI` (last step, failed tagging, deferred
cleanup) move on their own, also after the run has given up on them. A wait may
time out, a page may show an error, and a click may work and still fail; a list
without the sandbox's row says nothing of the backend.

* `UIInv`: the inductive invariant of a run: the name is noted before a sandbox can
  have it (`NameNoted`), which is created at most once (`CreatedOnce`); a call believes
  a deletion only if it was its own and the backend's (`Deletions`); an error is never
  dropped (`ErrorsKept`); and what is left behind has an excuse at any time
  (`Excused`).
* `SuccessMeansDeleted`: a run without error has deleted its sandbox.
* `LeavesNothing`: a sandbox survives the run only if the API recovery failed or
  is not configured, if the backend created it after the recovery looked, or if
  it is in another team. `recovery.go:33` says what bounds these cases: the
  sandbox's own timeout.
* `WorksOnTarget`: terminal, pause and resume are only tried in a sandbox shown
  to be on the target.

## Runs

| run | instance | checks |
|---|---|---|
| `gcs_lock` | three contending processes | safety of the lock, refinement of `Lease` |
| `load_pool` | two workers, three operations, either scenario, fair | limits, accounts, termination |
| `snapshot_safety` | one run, two attempts, retention on and off, several sweeps | safety of snapshots and sandboxes |
| `snapshot_reclaimed` | one run, one attempt, fair | reclamation |
| `snapshot_leak` | two attempts | a divergence, expected violation |
| `guard` | two load tests, or one and a canary; eight configurations, four of which must be refused; two days | exclusion, windows, markers, deadline, release, order |
| `guard_file_lock` | two canaries of one target, file backend | a divergence, expected violation |
| `external_benchmarks` | three workflow runs, two of them heavy | soundness of the check |
| `scenarios` | two template runs and the janitor; two dax runs; a lifecycle run; fair | success, sweeps, reclamation |
| `burst` | 0, 1, 2, 20 and 100 sandboxes, up to two faults | leftovers, verdict, statistics |
| `ui_canary` | one run, every configuration and location, three tagging attempts | deletion, leftovers, target |
| `soak` | four scheduled checks, the last clamped | accounts, success, pauses |

Bounds. Two workers and three operations are enough for a worker to be replaced
while another is in every phase. Three processes let two take over the lease of
a third. One snapshot run suffices, since runs share only the janitor, whose
items are independent; the time bound lets a run start at any point of a sweep
and expire during another. In `LoadGuard`, `Casts` are the sets of jobs that run
together, since exclusion is a matter of two; `MaxTime` reaches into the second
day's window, `MaxManualTime` past the heavy window, where unscheduled jobs have no
more to do. In `Scenarios`, `Casts` puts together the runs that share something;
a page of one with two templates is a full page; `MaxVersions` of 2 lets a failed
dax template be replaced, or two be built at once; a run starts only if its template
can still expire within `MaxTime`. In `Burst`, `Width` bounds the goroutines between
create and delete, which do not affect each other, and `MaxFaults` of 2 reaches the
sizes 0 to 2, 18 to 20 and 98 to 100 of what is summed up: trimming begins at 20. A soak duration of 5 with an
interval of 2 has whole intervals and a clamped last check, and 7 instants let a
cycle overrun it. All bounds are constants named in the modules; symmetry is used
for safety only. Deadlock checking is off where all processes may be over.

Fairness. `LoadRunner`: weak fairness of each worker and of the sender
(goroutines are scheduled), none of the run's timeout; requests are bounded by timeouts,
so each step ends. `SnapshotReclaim`: runs get on or are killed by the task
timeout, the clock advances, the scheduler starts sweeps again and again, and a
delete that is repeated succeeds sooner or later (strong fairness, since a
sweep may be cut short); nothing is assumed of auto-deletion. `Scenarios`: the same
of the clock, the task timeout and the sweeps; nothing is assumed of what a run does
itself, so templates are reclaimed wherever it stops.

## Proofs

Every theorem holds for all values of the constants that the module's assumption
admits, and every safety property that a passing run checks is a theorem, except
`CheckSound` of `ExternalCheck`. In each module the argument is the same: an invariant
is shown to hold at the beginning and to be kept by every step, one lemma per action or
group of actions, and the properties follow from it. That invariant is itself checked
by a run (`LockInv`, `PoolInv`, `GuardInv`, `SnapshotInv`, `ScenariosInv`, `SoakInv`,
`UIInv`, `BurstInv`). None of the properties is inductive alone: each speaks of what
has come to pass, and not of what is under way.

`GCSLockProofs`: for any set of processes, TTL, bounds. `LockInv` is inductive:
mutual exclusion is not, since it says nothing of an acquirer that has read an
old generation. The invariant ties every pending conditional write to the
generation it read and every holder to the object in the bucket.
`LockInvariant`, `MutualExclusionHolds` and `OnlyOwnerFreesHolds` follow;
`LeaseRefinement` shows that each step of the protocol is a step of `Lease` or
a stutter. `ExclusiveHolds` is proved of the abstract lease, from the invariant that
any token at work is the holder's and has time left, and carried over by the
refinement. All of this is for releases that the task timeout bounds like the rest
(`ReleaseBounded`).

`LoadRunnerProofs`: for any number of workers and operations. Jobs in hand are distinct
and every sandbox that exists, or may exist, belongs to a worker that is in the middle
of its operation or has left the pool. The limits follow by counting: the map from
sandboxes to their workers is injective. `AccountsBalanceHolds` and
`SuccessMeansCleanHolds` need the counters as sizes of sets (of workers at work, of
operations started, of operations whose worker failed); each step adds or removes one
element.

`LoadGuardProofs`: for any jobs, targets, configurations that `Load` accepts, and
timeouts. Each step of a job is first shown to touch one lease, and only the job's own
part of the state (`Frame`, `LeaseStep`); then the others keep what is true of them,
and what is left is the job itself, by time, order, keys and markers. The
sum of the phases against the lease TTL, which `validateExecutionConfig` checks, is
where `GuardInv` meets the configuration. Exclusion is then a matter of two holders of
one unexpired lease. `NotAllContendedHolds` adds `ContendInv`: keys are taken in
order, and whoever is blocked leaves somebody ahead who holds a later lease or is past
all of them. It assumes that there is a load test at all. The model's assumption asks
that a day is longer than a window and that the longest lease taken in a window is
gone when the next one opens, both facts of the deployment, and that the longest lease
covers preflight and grace, 30s and 1m of 2h: the guard and the lock read the clock one
after the other, so that a marker may outlast the grace period by as much as that takes.

`SnapshotReclaimProofs`: for any number of runs, attempts and times. The invariant says
what a run knows at each place, and what an item of a listing still means while the
janitor gets to it. `PointerOutlivesSweepHolds` has two hypotheses, that the sweep
period is at most `RetainTTL` and at most `ResourceTTL`; they are what doubling the
auto-delete time is for.

`ScenariosProofs`: for any runs happening together, any TTLs and page size. No run
touches another's state, except for the templates the dax runs share. For these,
`Settles` says that a ready template stays so and a failed one never comes back, so that
what a run has found remains true while it acts on it.

`SoakProofs`: for any duration and interval, however late cycles and timers are. The
counters of each check are followed through a cycle cut short at any place.
`ChecksAccountedHolds` rests on `Before`, the number of checks due before a time, which
both readings of the clock round in their own way.

`UICanaryProofs`: for any number of tagging attempts. The steps are grouped by what they
belong to (beginning, working, deleting, finishing, outside); each group keeps each part
of `UIInv`.

`BurstProofs`: for any sizes, latencies and faults. `BurstInvariant` is a count.
`StatsRightHolds` relates the sorted sequence to counting: the samples with a TTI in a
set that is closed downwards are the first ones of the sequence (`SortedAmong`), and
after trimming still are (`KeptAmong`); the ranks are arithmetic (`Ranks`). It holds for
every number of samples, where the run has the sizes at which the formulas change.

Model-checked only:

* liveness: `Returns`, `EventuallyReclaimed`, `TemplatesReclaimed`. They depend on
  fairness and on which actions are enabled, which the proof system does not handle;
* `CheckSound`: workflow runs do not affect each other, so two heavy ones and another,
  more than a page, are all there is to tell apart;
* the disagreements with the documentation, which are counterexamples.

## Not modelled

* The wording of reports, metrics and Slack messages: output that nothing reads back.
* The API client and its HTTP transport: encoding. What callers tell apart of its
  errors appears as the outcomes of their requests.
* Parsing of the environment in `internal/config`, `internal/uicanary/config.go` and
  the routing and names in `internal/loadrunner/config.go`, and the selection of the
  mode in `internal/app`: sequential code over strings. What admission of load tests
  depends on is in `LoadGuard`.
* The infrastructure: its timeouts and schedules are the assumptions of the models.
* The checks inside sandboxes, the output of the dax script and the elements of a
  web page, which only succeed or fail.
* The score of the burst, a formula in floating point; durations and the samples of
  each phase in the load test's report.
* Auto-deletion and the sweep of sandboxes in `Scenarios`: they are
  `SnapshotReclaim`'s, and do not depend on the scenario.

## Plan

The modules are complete for what the repository lets one check, and the safety
properties are proved. What is left, in this order:

1. `LoadGuard` against `Lease`: for each key in the bucket, the steps of `LoadGuard` are
   steps of the abstract lease or none, with the jobs at work under the key as its
   active tokens. This closes the composition, since `GCSLock` implements `Lease`.
2. `ContendInv` as a part of `GuardInv`, so that a run checks it as well.
3. `ExternalCheck`: `CheckSound` for any number of workflow runs.
