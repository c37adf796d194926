----------------------------- MODULE LoadGuard -----------------------------
(***************************************************************************)
(* Admission of load tests (internal/loadrunner/guard.go, AcquireGuard and  *)
(* Release; cmd/load-runner/main.go, runConfigured) in every configuration  *)
(* that internal/loadrunner/config.go accepts, next to the canaries that    *)
(* take the same leases (internal/lifecycle/runner.go, Run).                *)
(*                                                                         *)
(* A lease on Cloud Storage is the abstract one of module Lease, which      *)
(* GCSLock implements: an acquisition is atomic, may fail with or without   *)
(* effect, and replaces an expired grant.  A local lease is a lock on one   *)
(* file (internal/lock/file.go): it does not expire, and goes with its      *)
(* process.                                                                 *)
(***************************************************************************)
EXTENDS Integers, FiniteSets, Sequences

CONSTANTS
  Kind,            \* the scenarios of canaries considered
  Load, Bench,     \* job executions: load tests, and canaries of the other program
  TargetOf,        \* the target of each job
  KindOf,          \* the scenario of each canary
  NoHolder,
  Configs,         \* the environments considered, well- and ill-configured
  MaxLockTTL,      \* the longest LOAD_TEST_LOCK_TTL that is accepted
  GlobalFirst,     \* whether "loadtest-global" sorts before the target's keys
  Grace,           \* guardReportGrace
  Preflight,       \* guardPreflightTimeout
  ReleaseTimeout,  \* guardReleaseTimeout
  Setup,           \* bound of the environment: from admission to Runner.Run, no I/O
  BenchTTL, BenchBound,                    \* a canary's lease and task timeout
  Day,             \* the length of a day
  Heavy,           \* known heavy windows of other projects: pairs of times
  MaxTime, MaxManualTime,  \* bounds of the model: the last instant, scheduled or not
  Casts            \* bound of the model: sets of jobs that run together

Benchmark == Kind \cap {"burst", "dax", "soak"}

\* loadrunner.Config, as far as admission depends on it, and the lock backend
\* of the canaries.
Config == [scheduled : BOOLEAN, globalLock : BOOLEAN, benchmarkGuard : BOOLEAN,
           external : BOOLEAN, backend : {"none", "file", "gcs"},
           runTimeout : Nat, deleteTimeout : Nat, lockTTL : Nat,
           windowStart : Nat, windowEnd : Nat, canaries : {"file", "gcs"}]

BudgetOf(c) == c.runTimeout + c.deleteTimeout + Grace

\* Mutant of Accepted: the lease need not cover the cleanup.
AcceptedShortLease(c) ==
  /\ c.runTimeout > 0 /\ c.deleteTimeout > 0
  /\ c.benchmarkGuard \/ c.globalLock => c.backend = "gcs"
  /\ c.backend # "none" => c.lockTTL \in c.runTimeout..MaxLockTTL
  /\ c.scheduled => /\ c.backend = "gcs" /\ c.benchmarkGuard /\ c.globalLock /\ c.external
                    /\ c.windowStart + BudgetOf(c) <= c.windowEnd

\* Load and validateExecutionConfig.
Accepted(c) ==
  /\ c.runTimeout > 0 /\ c.deleteTimeout > 0
  /\ c.benchmarkGuard \/ c.globalLock => c.backend = "gcs"
  /\ c.backend # "none" => c.lockTTL \in BudgetOf(c)..MaxLockTTL
  /\ c.scheduled => /\ c.backend = "gcs" /\ c.benchmarkGuard /\ c.globalLock /\ c.external
                    /\ c.windowStart + BudgetOf(c) <= c.windowEnd

ASSUME LoadGuardAssumption ==
  /\ NoHolder \notin Load \cup Bench /\ Load \cap Bench = {}
  /\ \A j \in Load \cup Bench : TargetOf[j] # "file"   \* the tag of the files, below
  /\ Kind \subseteq {"lifecycle", "burst", "dax", "soak"} /\ KindOf \in [Bench -> Kind]
  /\ GlobalFirst \in BOOLEAN
  /\ Configs \subseteq Config
  /\ {MaxLockTTL, Grace, Preflight, ReleaseTimeout, Setup, BenchTTL, BenchBound, Day,
      MaxTime, MaxManualTime} \subseteq Nat
  /\ Day > 0 /\ Heavy \subseteq Nat \X Nat
  /\ MaxManualTime <= MaxTime /\ Casts \subseteq SUBSET (Load \cup Bench)
  /\ Preflight + Setup + ReleaseTimeout < Grace   \* 30s + 10s < 1m
  /\ Preflight + Grace <= MaxLockTTL              \* 30s + 1m <= 2h
  \* infra/envs/production: the task timeout, counted from before the lease,
  \* is at most the lease's TTL.
  /\ BenchBound < BenchTTL
  \* The clock of a window is a time of day, and even the longest lease taken
  \* in a window of the deployment is gone when the next window starts.
  /\ \A c \in Configs : /\ c.windowEnd <= Day /\ Setup <= c.runTimeout
                        /\ MaxLockTTL + c.windowEnd <= Day + c.windowStart

VARIABLES
  now,
  cfg,        \* the configuration, which never changes
  lease,      \* for each lock its holder and when the lease runs out
  pc,
  since,      \* when the current phase of a job began
  leases,     \* Guard.leases, the last acquired first
  windowEnd,  \* the end of the window a load test was checked against, 0 if none
  outcome,    \* admitted, or why the load test was blocked
  lost        \* an acquisition or release failed that may leave a lease behind

jobs == <<pc, since, leases, windowEnd, outcome, lost>>
vars == <<now, cfg, lease, jobs>>

Job    == Load \cup Bench
Target == {TargetOf[j] : j \in Job}
Time   == 0..MaxTime
Free   == [holder |-> NoHolder, until |-> 0]

\* The keys: a target's by suffix, and the global one.  On Cloud Storage each has
\* a lease of its own, while a file lock ignores the key: there is one file for
\* the load tests and one for each target's canaries.
Global == <<"loadtest", "global">>
Key == (Target \X (Kind \cup {"loadtest", "loadtest-daily"})) \cup {Global}
File == {"file"} \X (Target \cup {"loadtest"})
Lock == Key \cup File
LockOf(j, k) == CASE j \in Load /\ cfg.backend = "file"   -> <<"file", "loadtest">>
                  [] j \in Bench /\ cfg.canaries = "file" -> <<"file", TargetOf[j]>>
                  [] OTHER -> k
Marker(j) == <<TargetOf[j], "loadtest-daily">>

Preflighting == {"check", "external", "lease", "recheck", "marker", "final_check"}
Working == {"admitted", "work", "cleanup"}
Releasing == {"blocked_release", "release"}
Over == {"absent", "blocked", "done", "skipped", "killed"}
Reason == {"time", "config", "benchmark", "loadtest", "daily", "error"}

Init == /\ now = 0
        /\ cfg \in {c \in Configs : Accepted(c)}
        /\ lease = [k \in Lock |-> Free]
        /\ \E cast \in Casts : pc = [j \in Job |-> IF j \in cast THEN "idle" ELSE "absent"]
        /\ since = [j \in Job |-> 0]
        /\ leases = [j \in Job |-> <<>>]
        /\ windowEnd = [j \in Load |-> 0]
        /\ outcome = [j \in Load |-> "none"]
        /\ lost = [j \in Job |-> FALSE]

Goto(j, l) == pc' = [pc EXCEPT ![j] = l]
Enter(j, l) == Goto(j, l) /\ since' = [since EXCEPT ![j] = now]
Exit(j, l)  == Goto(j, l) /\ since' = [since EXCEPT ![j] = 0]
Elements(s) == {s[i] : i \in DOMAIN s}
Held(j) == Elements(leases[j])

-----------------------------------------------------------------------------
(* Locks *)

\* Mutant of Available: a lease that is held is granted again.
AvailableAlways(k) == TRUE

Available(k) == lease[k].holder = NoHolder \/ lease[k].until <= now

Never == MaxTime + MaxLockTTL + BenchTTL

\* A grant runs from the time read when the acquisition began, some time in
\* the current phase; a file lock runs on.
Starts(j) == since[j]..now

Grants(j, k, ends) ==
  \E end \in IF k \in File THEN {Never} ELSE ends :
     lease' = [lease EXCEPT ![k] = [holder |-> j, until |-> end]]

\* The lease is acquired, and remembered.
Acquires(j, k, ends) == /\ Available(k)
                        /\ Grants(j, k, ends)
                        /\ leases' = [leases EXCEPT ![j] = <<k>> \o @]

\* The acquisition fails, and may yet have taken the lease, but not the file.
AcquireFails(j, k, ends) ==
  \/ k \in File /\ UNCHANGED <<lease, lost>>
  \/ /\ k \notin File
     /\ \/ Available(k) /\ Grants(j, k, ends)
        \/ UNCHANGED lease
     /\ lost' = [lost EXCEPT ![j] = TRUE]

\* Only the owner's lease is removed.
Removes(j, k) == lease' = IF lease[k].holder = j THEN [lease EXCEPT ![k] = Free] ELSE lease

\* The last lease acquired is released first; a failed release is not repeated.
ReleaseNext(j, over) ==
  /\ leases[j] # <<>>
  /\ \/ Removes(j, Head(leases[j])) /\ UNCHANGED lost
     \/ /\ Head(leases[j]) \notin File
        /\ \/ Removes(j, Head(leases[j]))
           \/ UNCHANGED lease
        /\ lost' = [lost EXCEPT ![j] = TRUE]
  /\ leases' = [leases EXCEPT ![j] = Tail(@)]
  /\ IF Tail(leases[j]) = <<>> THEN Exit(j, over) ELSE UNCHANGED <<pc, since>>
  /\ UNCHANGED <<now, cfg, windowEnd, outcome>>

-----------------------------------------------------------------------------
(* AcquireGuard *)

DayOf(t) == t \div Day
StartOf(t) == DayOf(t) * Day + cfg.windowStart
EndOf(t)   == DayOf(t) * Day + cfg.windowEnd

\* Mutant of OverlapsKnownHeavyWindow: only the start is compared.
StartsInHeavyWindow(from, to) == \E h \in Heavy : h[1] <= from /\ from < h[2]

OverlapsKnownHeavyWindow(from, to) == \E h \in Heavy : from < h[2] /\ to > h[1]

\* scheduledWindow: the whole budget fits in what is left of today's window,
\* and no heavy window reaches into it.
InWindow(t) == /\ ~OverlapsKnownHeavyWindow(StartOf(t), EndOf(t))
               /\ StartOf(t) <= t /\ t + BudgetOf(cfg) <= EndOf(t)

\* checkTime: the preflight has time left, and so has the window, today's as before.
TimeOK(j) ==
  /\ now < since[j] + Preflight
  /\ cfg.scheduled => InWindow(now) /\ windowEnd[j] \in {0, EndOf(now)}
  /\ ~cfg.scheduled /\ (cfg.benchmarkGuard \/ cfg.external) =>
       ~OverlapsKnownHeavyWindow(now, now + BudgetOf(cfg))

\* Mutant of Deadline: no time is kept for the deletions.
DeadlineWithoutCleanup(j) == windowEnd[j] - Grace

Deadline(j) == windowEnd[j] - cfg.deleteTimeout - Grace

\* Mutant of Block: the leases taken so far are forgotten.
BlockOnly(j, why) == /\ outcome' = [outcome EXCEPT ![j] = why]
                     /\ Exit(j, "blocked")

\* blocked: give back every lease taken so far, in a time of its own.
Block(j, why) == /\ outcome' = [outcome EXCEPT ![j] = why]
                 /\ IF leases[j] = <<>> THEN Exit(j, "blocked")
                                        ELSE Enter(j, "blocked_release")

Admit(j) == /\ outcome' = [outcome EXCEPT ![j] = "admitted"]
            /\ Enter(j, "admitted")

\* Mutant of Keys: without the benchmarks' leases.
KeysOfLoadTests(j) == {<<TargetOf[j], "loadtest">>} \cup (IF cfg.globalLock THEN {Global} ELSE {})

Keys(j) == IF cfg.backend = "none" THEN {} ELSE
  {<<TargetOf[j], "loadtest">>}
    \cup (IF cfg.globalLock THEN {Global} ELSE {})
    \cup (IF cfg.benchmarkGuard THEN {<<TargetOf[j], k>> : k \in Benchmark} ELSE {})

\* Mutant of Before: the keys are not sorted.
Unordered(k, l) == TRUE

\* sort.Strings on the keys of one load test.
Before(k, l) ==
  LET rank == [burst |-> 1, dax |-> 2, loadtest |-> 3, soak |-> 4,
               global |-> IF GlobalFirst THEN 0 ELSE 5]
  IN  rank[k[2]] < rank[l[2]]

Begin(j) == /\ pc[j] = "idle"
            /\ Enter(j, "check")
            /\ UNCHANGED <<now, cfg, lease, leases, windowEnd, outcome, lost>>

Check(j) == /\ pc[j] = "check"
            /\ \/ /\ TimeOK(j)
                  /\ windowEnd' = [windowEnd EXCEPT ![j] = IF cfg.scheduled THEN EndOf(now) ELSE 0]
                  /\ Goto(j, "external")
                  /\ UNCHANGED <<since, outcome>>
               \/ ~TimeOK(j) /\ Block(j, "time") /\ UNCHANGED windowEnd
            /\ UNCHANGED <<now, cfg, lease, leases, lost>>

\* AcquireGuard trusts no validation but its own.
Misconfigured == \/ cfg.scheduled /\ cfg.backend # "gcs"
                 \/ cfg.backend # "none" /\ cfg.lockTTL < BudgetOf(cfg)
                 \/ (cfg.globalLock \/ cfg.benchmarkGuard) /\ cfg.backend # "gcs"

\* The benchmarks of other projects (module ExternalCheck), which takes a while,
\* so the time again; then the configuration of the leases.
CheckExternal(j) ==
  /\ pc[j] = "external"
  /\ LET late == cfg.external /\ ~TimeOK(j) IN
     \/ ~late /\ ~Misconfigured /\ Goto(j, "lease") /\ UNCHANGED <<since, outcome>>
     \/ (late \/ Misconfigured) /\ Block(j, IF late THEN "time" ELSE "config")
     \/ cfg.external /\ Block(j, "error")
  /\ UNCHANGED <<now, cfg, lease, leases, windowEnd, lost>>

LockEnds(j) == {t + cfg.lockTTL : t \in Starts(j)}

\* What a lease that is not available says of its holder.
HolderKind(k) == IF lease[k].holder \in Bench THEN "benchmark" ELSE "loadtest"

\* The keys are acquired in order, without waiting for any.
TakeLease(j) ==
  /\ pc[j] = "lease"
  /\ LET missing == {k \in Keys(j) : LockOf(j, k) \notin Held(j)} IN
     \/ /\ missing = {}
        /\ Goto(j, "recheck")
        /\ UNCHANGED <<lease, since, leases, outcome, lost>>
     \/ \E k \in missing :
          /\ \A l \in missing : k = l \/ Before(k, l)
          /\ \/ /\ Acquires(j, LockOf(j, k), LockEnds(j))
                /\ IF missing = {k} THEN Goto(j, "recheck") ELSE UNCHANGED pc
                /\ UNCHANGED <<since, outcome, lost>>
             \/ /\ ~Available(LockOf(j, k))
                /\ Block(j, HolderKind(LockOf(j, k)))
                /\ UNCHANGED <<lease, leases, lost>>
             \/ /\ AcquireFails(j, LockOf(j, k), LockEnds(j))
                /\ Block(j, "error")
                /\ UNCHANGED leases
  /\ UNCHANGED <<now, cfg, windowEnd>>

Recheck(j) == /\ pc[j] = "recheck"
              /\ \/ /\ TimeOK(j) /\ cfg.scheduled
                    /\ Goto(j, "marker") /\ UNCHANGED <<since, outcome>>
                 \/ TimeOK(j) /\ ~cfg.scheduled /\ Admit(j)
                 \/ ~TimeOK(j) /\ Block(j, "time")
              /\ UNCHANGED <<now, cfg, lease, leases, windowEnd, lost>>

\* Mutant of MarkerTTL: the marker lasts a day.
MarkerForADay(j, t) == Day

\* The marker outlives the window, and the other leases.
MarkerTTL(j, t) == LET rest == windowEnd[j] - t + Grace
                   IN  IF cfg.lockTTL > rest THEN cfg.lockTTL ELSE rest

\* The guard reads the clock for the TTL, and then the lock for the start of the grant.
MarkerEnds(j) == UNION {{t + MarkerTTL(j, u) : u \in since[j]..t} : t \in Starts(j)}

AdmitOnce(j) ==
  /\ pc[j] = "marker"
  /\ \/ /\ Acquires(j, Marker(j), MarkerEnds(j))
        /\ Goto(j, "final_check")
        /\ UNCHANGED <<since, outcome, lost>>
     \/ /\ ~Available(Marker(j))
        /\ Block(j, "daily")
        /\ UNCHANGED <<lease, leases, lost>>
     \/ /\ AcquireFails(j, Marker(j), MarkerEnds(j))
        /\ Block(j, "error")
        /\ UNCHANGED leases
  /\ UNCHANGED <<now, cfg, windowEnd>>

\* Mutant of FinalCheck: the marker is given back with the other leases.
FinalCheckKeeps(j) == /\ pc[j] = "final_check"
                      /\ TimeOK(j)
                      /\ Admit(j)
                      /\ UNCHANGED <<now, cfg, lease, leases, windowEnd, lost>>

\* From here on the guard no longer holds the marker: it stays until it expires.
FinalCheck(j) == /\ pc[j] = "final_check"
                 /\ \/ /\ TimeOK(j)
                       /\ leases' = [leases EXCEPT ![j] = Tail(@)]
                       /\ Admit(j)
                    \/ ~TimeOK(j) /\ Block(j, "time") /\ UNCHANGED leases
                 /\ UNCHANGED <<now, cfg, lease, windowEnd, lost>>

AcquireGuard(j) == \/ Check(j) \/ CheckExternal(j) \/ TakeLease(j) \/ Recheck(j)
                   \/ AdmitOnce(j) \/ FinalCheck(j)

-----------------------------------------------------------------------------
(* The rest of a load test *)

\* Runner.Run starts: from here on the run timeout counts.
Start(j) == /\ pc[j] = "admitted"
            /\ Enter(j, "work")
            /\ UNCHANGED <<now, cfg, lease, leases, windowEnd, outcome, lost>>

\* Operations stop, at the latest when the context ends ...
Work(j) == /\ pc[j] = "work"
           /\ Enter(j, "cleanup")
           /\ UNCHANGED <<now, cfg, lease, leases, windowEnd, outcome, lost>>

\* ... and the deletions that follow have a timeout of their own.
Cleanup(j) == /\ pc[j] = "cleanup"
              /\ IF leases[j] = <<>> THEN Exit(j, "done") ELSE Enter(j, "release")
              /\ UNCHANGED <<now, cfg, lease, leases, windowEnd, outcome, lost>>

Release(j) == \/ pc[j] = "release" /\ ReleaseNext(j, "done")
              \/ pc[j] = "blocked_release" /\ ReleaseNext(j, "blocked")

\* When a phase must have ended.
PhaseEnd(j) ==
  CASE pc[j] \in Preflighting -> since[j] + Preflight
    [] pc[j] = "admitted" -> since[j] + Setup
    [] pc[j] = "work" -> IF cfg.scheduled /\ Deadline(j) < since[j] + cfg.runTimeout
                           THEN Deadline(j) ELSE since[j] + cfg.runTimeout
    [] pc[j] = "cleanup" -> since[j] + cfg.deleteTimeout
    [] pc[j] \in Releasing -> since[j] + ReleaseTimeout
    [] OTHER -> MaxTime

LoadStep(j) == Begin(j) \/ AcquireGuard(j) \/ Start(j) \/ Work(j) \/ Cleanup(j) \/ Release(j)

-----------------------------------------------------------------------------
(* A canary: one lease, taken first and released last *)

BenchKey(b) == <<TargetOf[b], KindOf[b]>>

BenchEnds(b) == {t + BenchTTL : t \in Starts(b)}

BenchBegin(b) == /\ pc[b] = "idle"
                 /\ Enter(b, "lease")
                 /\ UNCHANGED <<now, cfg, lease, leases, windowEnd, outcome, lost>>

BenchLock(b) == LockOf(b, BenchKey(b))

BenchAcquire(b) ==
  /\ pc[b] = "lease"
  /\ \/ /\ Acquires(b, BenchLock(b), BenchEnds(b))
        /\ Goto(b, "work") /\ UNCHANGED <<since, lost>>
     \/ /\ ~Available(BenchLock(b))
        /\ Exit(b, "skipped") /\ UNCHANGED <<lease, leases, lost>>
     \/ /\ AcquireFails(b, BenchLock(b), BenchEnds(b))
        /\ Exit(b, "done") /\ UNCHANGED leases
  /\ UNCHANGED <<now, cfg, windowEnd, outcome>>

BenchWork(b) == /\ pc[b] = "work"
                /\ Goto(b, "release")
                /\ UNCHANGED <<now, cfg, lease, since, leases, windowEnd, outcome, lost>>

BenchStep(b) == \/ BenchBegin(b) \/ BenchAcquire(b) \/ BenchWork(b)
                \/ pc[b] = "release" /\ ReleaseNext(b, "done")

BenchEnd(b) == IF pc[b] \in {"lease", "work", "release"} THEN since[b] + BenchBound ELSE MaxTime

-----------------------------------------------------------------------------

\* The process dies, and its files are closed.
Kill(j) == /\ pc[j] \notin {"idle"} \cup Over
           /\ Exit(j, "killed")
           /\ leases' = [leases EXCEPT ![j] = <<>>]
           /\ lease' = [k \in Lock |-> IF k \in File /\ lease[k].holder = j THEN Free ELSE lease[k]]
           /\ UNCHANGED <<now, cfg, windowEnd, outcome, lost>>

Tick == /\ now < IF cfg.scheduled THEN MaxTime ELSE MaxManualTime
        /\ \A j \in Load : now < PhaseEnd(j)
        /\ \A b \in Bench : now < BenchEnd(b)
        /\ now' = now + 1
        /\ UNCHANGED <<cfg, lease, jobs>>

Next == \/ Tick
        \/ \E j \in Load : LoadStep(j)
        \/ \E b \in Bench : BenchStep(b)
        \/ \E j \in Job : Kill(j)

Spec == Init /\ [][Next]_vars

-----------------------------------------------------------------------------
(* Properties *)

AtWork(j) == pc[j] \in Working

TypeOK == /\ now \in Time
          /\ cfg \in Configs /\ Accepted(cfg)
          /\ lease \in [Lock -> [holder : Job \cup {NoHolder}, until : Nat]]
          /\ pc \in [Job -> {"idle"} \cup Preflighting \cup Working \cup Releasing \cup Over]
          /\ since \in [Job -> Time]
          /\ DOMAIN leases = Job /\ \A j \in Job : leases[j] \in Seq(Lock)
          /\ windowEnd \in [Load -> Nat]
          /\ outcome \in [Load -> {"none", "admitted"} \cup Reason]
          /\ lost \in [Job -> BOOLEAN]

\* How long before the current phase the first lease may have been taken.
Spent(j) == CASE pc[j] \in {"admitted", "blocked_release"} -> Preflight
              [] pc[j] = "work" -> Preflight + Setup
              [] pc[j] = "cleanup" -> Preflight + Setup + cfg.runTimeout
              [] pc[j] = "release" -> Preflight + Setup + cfg.runTimeout + cfg.deleteTimeout
              [] OTHER -> 0

Distinct(s) == \A m, n \in DOMAIN s : s[m] = s[n] => m = n

\* What is left to do in a phase of the work, at most.
Left(j) == CASE pc[j] = "admitted" -> BudgetOf(cfg)
             [] pc[j] = "work" -> cfg.runTimeout + cfg.deleteTimeout
             [] OTHER -> cfg.deleteTimeout

\* No phase of a load test overruns, and none does that is still to come: before
\* admission it has seen its window open, and what is left fits into the window,
\* or ends before the next heavy one.
InTime(j) ==
  /\ since[j] <= now /\ now <= PhaseEnd(j)
  /\ windowEnd[j] # 0 => \E t \in 0..now : windowEnd[j] = EndOf(t)
  /\ cfg.scheduled =>
       /\ pc[j] \in Preflighting \ {"check"} =>
            \E t \in since[j]..now : InWindow(t) /\ windowEnd[j] = EndOf(t)
       /\ pc[j] = "admitted" => since[j] + BudgetOf(cfg) <= windowEnd[j]
       /\ pc[j] = "cleanup" => since[j] <= Deadline(j)
  /\ ~cfg.scheduled /\ (cfg.benchmarkGuard \/ cfg.external) /\ pc[j] \in Working =>
       \A h \in Heavy : since[j] >= h[2] \/ since[j] + Left(j) <= h[1]

\* What became of a load test fits where it is, and AcquireGuard refuses no
\* configuration that Load accepted.
InOrder(j) ==
  /\ pc[j] # "skipped" /\ outcome[j] # "config"
  /\ pc[j] \in {"idle", "absent"} \cup Preflighting => outcome[j] = "none"
  /\ pc[j] \in Working \cup {"release", "done"} => outcome[j] = "admitted"
  /\ pc[j] \in {"blocked", "blocked_release"} => outcome[j] # "admitted"
  /\ pc[j] \in {"marker", "final_check"} => cfg.scheduled

Locks(j) == {LockOf(j, k) : k \in Keys(j)}

\* A load test holds locks of its own, each once, and goes on with all of them.
\* They outlast what remains of the accepted TTL.
HoldsKeys(j) ==
  /\ pc[j] \in {"idle", "check", "external"} \cup Over => leases[j] = <<>>
  /\ Distinct(leases[j])
  /\ Held(j) \subseteq Locks(j) \cup {Marker(j)}
  /\ Marker(j) \in Held(j) => cfg.scheduled /\ pc[j] \in {"final_check", "blocked_release"}
  /\ pc[j] \in {"recheck", "marker", "final_check"} \cup Working => Locks(j) \subseteq Held(j)
  /\ pc[j] = "final_check" =>
       /\ leases[j] # <<>> /\ Head(leases[j]) = Marker(j)
       /\ lease[Marker(j)].until >= windowEnd[j] + Grace
  /\ \A k \in Held(j) : lease[k].until >= since[j] + cfg.lockTTL - Spent(j)

\* A canary at work has its lease, for all of the task timeout.
HoldsLease(b) ==
  /\ pc[b] \in {"idle", "absent", "lease", "work", "release", "done", "skipped", "killed"}
  /\ since[b] <= now /\ now <= BenchEnd(b)
  /\ pc[b] \in {"idle", "lease"} \cup Over => leases[b] = <<>>
  /\ Distinct(leases[b]) /\ Held(b) \subseteq {BenchLock(b)}
  /\ pc[b] = "work" => BenchLock(b) \in Held(b)
  /\ \A k \in Held(b) : lease[k].until >= since[b] + BenchTTL

\* A remembered lease is the job's own ...
Owns(j) == \A k \in Held(j) : lease[k].holder = j

\* ... and one that is its own is remembered, the marker until admission.
Recalls(j) == ~lost[j] /\ pc[j] # "killed" =>
                \A k \in Lock : lease[k].holder = j =>
                   k \in Held(j) \/ (k = Marker(j) /\ outcome[j] = "admitted")

\* A daily marker is of a load test that got that far, and is gone before the
\* next window ...
Unmarked == {"idle", "check", "external", "lease", "recheck", "marker"}
MarkedBy(j) == LET m == lease[Marker(j)] IN m.holder # NoHolder =>
                 /\ m.holder \in Load /\ TargetOf[m.holder] = TargetOf[j]
                 /\ pc[m.holder] \notin Unmarked
                 /\ windowEnd[m.holder] # 0 /\ m.until <= windowEnd[m.holder] + MaxLockTTL

\* ... lasts until its own window is over, once that test is admitted ...
MarkerLasts(j) ==
  cfg.scheduled /\ outcome[j] = "admitted" /\ now < windowEnd[j] + Grace =>
     lease[Marker(j)].holder = j /\ lease[Marker(j)].until >= windowEnd[j] + Grace

\* ... and was left in the same window, if another finds it.
MarkerFound(j) ==
  outcome[j] = "daily" =>
     \E i \in Load \ {j} : /\ TargetOf[i] = TargetOf[j] /\ windowEnd[i] = windowEnd[j]
                           /\ pc[i] \notin {"idle", "check"}

\* The invariant of admission, on which exclusion and the windows rest.
GuardInv == /\ TypeOK
            /\ \A j \in Load : InTime(j) /\ InOrder(j) /\ HoldsKeys(j)
            /\ \A b \in Bench : HoldsLease(b)
            /\ \A j \in Job : Owns(j)
            /\ \A j \in Load : Recalls(j) /\ MarkedBy(j) /\ MarkerLasts(j) /\ MarkerFound(j)

\* Load tests of one target never run together, nor do any two under the global
\* lock, whatever expires, fails or is killed.
LoadTestsExclude ==
  cfg.backend # "none" => \A i, j \in Load : i # j /\ AtWork(i) /\ AtWork(j) =>
     ~cfg.globalLock /\ TargetOf[i] # TargetOf[j]

\* No benchmark is at work on the target of a load test that guards against it,
\* when both keep their leases in the shared bucket.
BenchmarksExclude ==
  cfg.benchmarkGuard /\ cfg.canaries = "gcs" =>
     \A j \in Load, b \in Bench : AtWork(j) /\ AtWork(b) /\ KindOf[b] \in Benchmark =>
        TargetOf[j] # TargetOf[b]

\* However often the scheduler delivers, at most one execution a day is admitted.
OncePerWindow ==
  cfg.scheduled => \A i, j \in Load :
    i # j /\ TargetOf[i] = TargetOf[j] /\ outcome[i] = "admitted" /\ outcome[j] = "admitted"
      => windowEnd[i] # windowEnd[j]

\* The marker of one day blocks none of the next: who finds it taken is preceded
\* by another execution of the same window.
MarkerOfToday ==
  \A i \in Load : outcome[i] = "daily" =>
    \E j \in Load \ {i} : TargetOf[i] = TargetOf[j] /\ windowEnd[i] = windowEnd[j]

\* Work and cleanup of an admitted test leave the grace period of its window free.
EndsInWindow ==
  cfg.scheduled => \A j \in Load : AtWork(j) => now <= windowEnd[j] - Grace

\* A guarded manual run never reaches into a known heavy window.
AvoidsHeavyWindows ==
  ~cfg.scheduled /\ (cfg.benchmarkGuard \/ cfg.external) =>
     \A j \in Load : AtWork(j) => ~\E h \in Heavy : h[1] < now /\ now < h[2]

\* A load test that is over holds nothing but, once admitted, its marker, unless
\* a call failed or it was killed.
ReleasesAll ==
  \A j \in Load : pc[j] \in {"blocked", "done"} /\ ~lost[j] =>
    \A k \in Lock : lease[k].holder = j => k = Marker(j) /\ outcome[j] = "admitted"

\* Load tests do not all block each other: taking the keys in one order, one of
\* those that contend gets them.
NotAllContended == (\A j \in Job : ~lost[j]) => \E j \in Load : outcome[j] # "loadtest"

\* What internal/lifecycle/runner.go says above lockKey: a run never finds its
\* lease taken by the run of another scenario.
ScenariosIndependent ==
  \A b, c \in Bench :
    pc[b] = "lease" /\ lease[BenchLock(b)].holder = c => KindOf[b] = KindOf[c]
=============================================================================
