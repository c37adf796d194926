-------------------------------- MODULE Soak --------------------------------
(***************************************************************************)
(* The soak canary (internal/lifecycle/soak.go, runSoak): one sandbox with  *)
(* one server process, checked at every interval until a deadline.  The     *)
(* module follows the schedule, the checks of a cycle with their            *)
(* dependencies, what the summary counts, and the sandbox itself, which the *)
(* platform may pause, resume, and lose the process of.                     *)
(***************************************************************************)
EXTENDS Integers, Sequences

CONSTANTS
  SoakDuration, SoakInterval,
  MaxTime,      \* bound of the model: the last instant
  MaxPauses,    \* bound of the model: pauses by the platform
  MaxFaults     \* bound of the model: failures without a cause in the sandbox

ASSUME SoakAssumption ==
  /\ {SoakDuration, SoakInterval} \subseteq Nat \ {0}   \* else "soak_setup" fails
  /\ {MaxTime, MaxPauses, MaxFaults} \subseteq Nat

\* soakOperations, but for the deliberate pause, in the order of a cycle.
Checks == <<"status", "activate", "connect", "preview_create", "preview_token",
            "preview_connect", "preview_auth", "preview_delete", "preview_revoked",
            "short_task", "process_identity">>

Check == {Checks[i] : i \in DOMAIN Checks}

VARIABLES
  pc,
  now,          \* the clock, from the start of the observation
  next,         \* when the next check is due
  cancelled,    \* the run's context has ended
  step,         \* the next check of the cycle, by its place in Checks
  outcome,      \* what became of the checks of the last cycle
  attempts, failures, skipped,   \* soakSummary.Counters
  pause,        \* the counter of the deliberate pause
  cycles, missed, idlePauses, seenActive, pauseVerified, firstError,   \* soakSummary
  err,          \* whether RunResult.Err is set
  known,        \* whether resources.SandboxID is
  probed,       \* the process that answered the short task
  box,          \* platform: the sandbox
  process,      \* platform: the server in it
  port,         \* platform: whether the second preview port is published
  pauses,       \* platform: the idle pauses so far
  survived,     \* history: the server was paused and resumed, and is the same
  faults        \* the failures without a cause so far

schedule == <<now, next, cycles, missed>>
counters == <<attempts, failures, skipped>>
observed == <<idlePauses, seenActive, pauseVerified, probed>>
platform == <<box, process, port, pauses, survived>>
vars == <<pc, schedule, cancelled, step, outcome, counters, pause, observed,
          firstError, err, known, platform, faults>>

Setup == {"create", "wait_active", "start_server", "pause"}
Nothing == [c \in Check |-> "none"]
Zero    == [c \in Check |-> 0]

TypeOK ==
  /\ pc \in Setup \cup {"wait", "cycle", "deadline", "catch_up", "cleanup", "done"}
  /\ {now, next, missed} \subseteq Nat
  /\ cycles \in Nat /\ step \in 1..Len(Checks) + 1
  /\ outcome \in [Check -> {"none", "ok", "failed", "skipped"}]
  /\ {attempts, failures, skipped} \subseteq [Check -> Nat]
  /\ pause \in {"none", "ok", "failed", "skipped"}
  /\ {cancelled, seenActive, pauseVerified, firstError, err, known, port, survived} \subseteq BOOLEAN
  /\ {idlePauses, pauses, faults} \subseteq Nat
  /\ box \in {"none", "active", "paused", "gone"}
  /\ {process, probed} \subseteq {"none", "original", "replacement"}

Init == /\ pc = "create" /\ now = 0 /\ next = 0 /\ cancelled = FALSE
        /\ step = 1 /\ outcome = Nothing
        /\ attempts = Zero /\ failures = Zero /\ skipped = Zero /\ pause = "none"
        /\ cycles = 0 /\ missed = 0 /\ idlePauses = 0
        /\ seenActive = FALSE /\ pauseVerified = FALSE /\ firstError = FALSE
        /\ err = FALSE /\ known = FALSE /\ probed = "none"
        /\ box = "none" /\ process = "none" /\ port = FALSE
        /\ pauses = 0 /\ survived = FALSE /\ faults = 0

Fault == faults < MaxFaults /\ faults' = faults + 1

-----------------------------------------------------------------------------
(* Before the observation *)

\* Return with an error: what follows is the deferred cleanup.
Return == err' = TRUE /\ pc' = "cleanup"

CreateSandbox ==
  /\ pc = "create"
  /\ \/ /\ ~cancelled
        /\ box' = "active" /\ known' = TRUE /\ pc' = "start_server" /\ UNCHANGED err
     \/ /\ box' \in {"none", "active"}
        /\ Return /\ UNCHANGED known
  /\ UNCHANGED <<schedule, cancelled, step, outcome, counters, pause, observed, firstError,
                 process, port, pauses, survived, faults>>

\* The script is written and run, and then answers with its identity.
ServerStarts == process' = "original"

\* create_wait_active, the server, its preview port and the token for it.
StartSoakServer ==
  /\ pc = "start_server"
  /\ \/ /\ ~cancelled /\ box = "active"
        /\ ServerStarts /\ pc' = "pause" /\ UNCHANGED err
     \/ /\ ServerStarts \/ UNCHANGED process
        /\ Return
  /\ UNCHANGED <<schedule, cancelled, step, outcome, counters, pause, observed, firstError,
                 known, box, port, pauses, survived, faults>>

\* The deliberate pause: PauseSandbox and the wait for the status "paused".  Only
\* the end of the context ends the run here.
DeliberatePause ==
  /\ pc = "pause"
  /\ \/ /\ cancelled
        /\ pause' = "skipped" /\ Return /\ UNCHANGED <<firstError, box>>
     \/ /\ ~cancelled
        /\ box' = "paused" /\ pause' = "ok"
        /\ pc' = "wait" /\ UNCHANGED <<firstError, err>>
     \/ /\ ~cancelled
        /\ box' \in {box, "paused"} /\ pause' = "failed" /\ firstError' = TRUE
        /\ pc' = "wait" /\ UNCHANGED err
  /\ UNCHANGED <<schedule, cancelled, step, outcome, counters, observed, known,
                 process, port, pauses, survived, faults>>

-----------------------------------------------------------------------------
(* One cycle *)

\* The timer of waitSoak may be late, never early.
WaitSoak ==
  /\ pc = "wait"
  /\ \/ /\ ~cancelled /\ now >= next
        /\ pc' = "cycle" /\ step' = 1 /\ outcome' = Nothing /\ probed' = "none"
        /\ UNCHANGED err
     \/ /\ cancelled
        /\ Return
        /\ UNCHANGED <<step, outcome, probed>>
  /\ UNCHANGED <<schedule, cancelled, counters, pause, idlePauses, seenActive, pauseVerified,
                 firstError, known, platform, faults>>

\* Mutant of NeedsToDelete: only a creation that was confirmed is undone.
NeedsConfirmed == {"preview_create"}

\* The port is deleted even after an ambiguous create failure.
NeedsToDelete == {}

\* The checks that must have succeeded in this cycle, else one is skipped.
Needs(c) == CASE c \in {"preview_token", "preview_auth"} -> {"preview_create"}
              [] c = "preview_connect" -> {"preview_create", "preview_token"}
              [] c = "preview_delete" -> NeedsToDelete
              [] c = "preview_revoked" -> {"preview_create", "preview_token", "preview_delete"}
              [] c = "short_task" -> {"activate"}
              [] c = "process_identity" -> {"activate", "short_task"}
              [] OTHER -> {}

\* What the platform needs for a check to succeed.
Works(c) ==
  CASE c \in {"preview_token", "preview_auth"} -> port
    [] c = "connect" -> box = "active" /\ process = "original"
    [] c = "preview_connect" -> port /\ box = "active" /\ process = "original"
    [] c = "preview_revoked" -> ~port
    [] c = "short_task" -> box = "active"
    [] c = "process_identity" -> probed = "original"
    [] OTHER -> TRUE

\* Activation resumes a paused sandbox, with or without its process.
Resumes == /\ box' = "active"
           /\ process' \in IF box = "paused" THEN {process, "replacement"} ELSE {process}
           /\ survived' = (survived \/ (box = "paused" /\ process' = "original"))
           /\ UNCHANGED <<port, pauses>>

\* What a request does on the platform.
Effect(c) == \/ c = "activate" /\ Resumes
             \/ c = "preview_create" /\ port' = TRUE
                                     /\ UNCHANGED <<box, process, pauses, survived>>
             \/ c = "preview_delete" /\ port' = FALSE
                                     /\ UNCHANGED <<box, process, pauses, survived>>
             \/ c \notin {"activate", "preview_create", "preview_delete"} /\ UNCHANGED platform

Counts(c, counter) == counter' = [counter EXCEPT ![c] = @ + 1]
Ends(c, how) == outcome' = [outcome EXCEPT ![c] = how]

\* What a successful check notes down.
Observes(c) ==
  LET idle == c = "status" /\ box = "paused" /\ seenActive
  IN  /\ idlePauses' = IF idle THEN idlePauses + 1 ELSE idlePauses
      /\ seenActive' = ((seenActive /\ ~idle) \/ c = "activate")
      /\ probed' = IF c = "short_task" THEN process ELSE probed
      /\ pauseVerified' = (pauseVerified \/ (c = "process_identity" /\ pause = "ok"))

Succeeds(c) == /\ Works(c)
               /\ Effect(c) /\ Observes(c)
               /\ Ends(c, "ok") /\ UNCHANGED <<failures, firstError, faults>>

\* A check fails for a cause in the sandbox, or in the request, which may still
\* have its effect.  Comparing the identities is no request.
Fails(c) == /\ \/ ~Works(c) /\ UNCHANGED <<platform, faults>>
               \/ /\ Works(c) /\ c # "process_identity" /\ Fault
                  /\ Effect(c) \/ UNCHANGED platform
            /\ Ends(c, "failed") /\ Counts(c, failures) /\ firstError' = TRUE
            /\ UNCHANGED observed

\* soakAttempt: no request is made once the context has ended.
SoakAttempt(c) == /\ ~cancelled /\ \A d \in Needs(c) : outcome[d] = "ok"
                  /\ Counts(c, attempts)
                  /\ Succeeds(c) \/ Fails(c)
                  /\ UNCHANGED skipped

\* Mutant of SoakSkip: nothing is counted.
SkipSilently(c) == /\ cancelled \/ \E d \in Needs(c) : outcome[d] # "ok"
                   /\ Ends(c, "skipped")
                   /\ UNCHANGED <<counters, observed, firstError, platform, faults>>

SoakSkip(c) == /\ cancelled \/ \E d \in Needs(c) : outcome[d] # "ok"
               /\ Counts(c, skipped) /\ Ends(c, "skipped")
               /\ UNCHANGED <<attempts, failures, observed, firstError, platform, faults>>

SoakCycle == /\ pc = "cycle" /\ step \in DOMAIN Checks
             /\ \E c \in Check : c = Checks[step] /\ (SoakAttempt(c) \/ SoakSkip(c))
             /\ step' = step + 1
             /\ UNCHANGED <<pc, schedule, cancelled, pause, err, known>>

-----------------------------------------------------------------------------
(* Between cycles: two readings of the clock *)

EndCycle ==
  /\ pc = "cycle" /\ step \notin DOMAIN Checks
  /\ cycles' = cycles + 1
  /\ IF cancelled THEN Return ELSE pc' = "deadline" /\ UNCHANGED err
  /\ UNCHANGED <<now, next, missed, cancelled, step, outcome, counters, pause, observed,
                 firstError, known, platform, faults>>

\* Mutant of Unexecuted: checks cut off by the deadline are not missed.
NoneUnexecuted == 0

\* The checks after `next` up to the deadline, the last clamped to it.
Unexecuted == (SoakDuration - next) \div SoakInterval
              + IF (SoakDuration - next) % SoakInterval # 0 THEN 1 ELSE 0

\* Mutant of Verdict: a missed check is reported, but is no failure.
VerdictLenient == ~pauseVerified /\ ~firstError

\* An error of its own, unless a check failed.
Verdict == (~pauseVerified \/ missed' > 0) /\ ~firstError

AtDeadline ==
  /\ pc = "deadline"
  /\ \/ /\ now >= SoakDuration
        /\ missed' = missed + Unexecuted
        /\ err' = Verdict
        /\ pc' = "cleanup" /\ UNCHANGED next
     \/ /\ now < SoakDuration
        /\ next' = next + SoakInterval
        /\ pc' = "catch_up" /\ UNCHANGED <<missed, err>>
  /\ UNCHANGED <<now, cycles, cancelled, step, outcome, counters, pause, observed,
                 firstError, known, platform, faults>>

\* Checks whose time has gone by are missed, not made up for.
CatchUp ==
  LET late == IF next < now THEN (now - next) \div SoakInterval + 1 ELSE 0
      due  == next + late * SoakInterval
  IN  /\ pc = "catch_up"
      /\ missed' = missed + late
      /\ next' = IF due > SoakDuration THEN SoakDuration ELSE due
      /\ pc' = "wait"
      /\ UNCHANGED <<now, cycles, cancelled, step, outcome, counters, pause, observed,
                     firstError, err, known, platform, faults>>

\* The deferred cleanup: a failed check or delete fails the run.
Cleanup ==
  /\ pc = "cleanup"
  /\ \/ /\ box' = IF known THEN "gone" ELSE box
        /\ err' = (err \/ firstError)
     \/ /\ known /\ box' \in {box, "gone"}
        /\ err' = TRUE
  /\ pc' = "done"
  /\ UNCHANGED <<schedule, cancelled, step, outcome, counters, pause, observed, firstError,
                 known, process, port, pauses, survived, faults>>

RunSoak == \/ CreateSandbox \/ StartSoakServer \/ DeliberatePause \/ WaitSoak
           \/ SoakCycle \/ EndCycle \/ AtDeadline \/ CatchUp \/ Cleanup

-----------------------------------------------------------------------------
(* Environment *)

\* The job's timeout, or a signal.
Cancel == /\ pc # "done" /\ ~cancelled
          /\ cancelled' = TRUE
          /\ UNCHANGED <<pc, schedule, step, outcome, counters, pause, observed, firstError,
                         err, known, platform, faults>>

IdlePause == /\ box = "active" /\ pc # "done"
             /\ pauses < MaxPauses /\ pauses' = pauses + 1
             /\ box' = "paused"
             /\ UNCHANGED <<pc, schedule, cancelled, step, outcome, counters, pause, observed,
                            firstError, err, known, process, port, survived, faults>>

Tick == /\ pc \in {"wait", "cycle", "deadline", "catch_up"}
        /\ now < MaxTime
        /\ now' = now + 1
        /\ UNCHANGED <<pc, next, cycles, missed, cancelled, step, outcome, counters, pause,
                       observed, firstError, err, known, platform, faults>>

Next == RunSoak \/ Cancel \/ IdlePause \/ Tick

Spec == Init /\ [][Next]_vars

-----------------------------------------------------------------------------
(* Properties *)

\* The number of checks the schedule has: one at every interval, and one at the
\* deadline.
Scheduled == SoakDuration \div SoakInterval + 1
             + IF SoakDuration % SoakInterval # 0 THEN 1 ELSE 0

\* Every scheduled check was made or is counted as missed.
Accounted == cycles <= Scheduled /\ Scheduled <= cycles + missed

\* No scheduled check is lost from sight: in a run that reaches its deadline each
\* was made or is counted as missed, however late cycles and timers are.
ChecksAccounted == pc \in {"cleanup", "done"} /\ pause # "none" /\ ~cancelled => Accounted

\* A run without error made every scheduled check in full, saw the process
\* outlive a pause, and removed the sandbox.
SuccessMeansObserved ==
  pc = "done" /\ ~err =>
    /\ survived /\ box = "gone"
    /\ \A c \in Check : attempts[c] = Scheduled /\ failures[c] = 0

\* The second port is left published only by a failed delete, also when the
\* request that published it seemed to fail.
PortDeleted == pc # "cycle" /\ port => outcome["preview_delete"] = "failed" \/ cancelled

-----------------------------------------------------------------------------
(* The inductive invariant behind the properties *)

Observing == {"wait", "cycle", "deadline", "catch_up"}

\* The cycle is past the check c.
Past(c) == \E i \in 1..(step - 1) : Checks[i] = c

\* The summary adds up: every cycle attempted or skipped each of its checks, so
\* verified, changed and unknown processes make up the cycles, also when the
\* context ends in the middle of one ...
Balanced ==
  \A c \in Check :
    /\ attempts[c] + skipped[c] = IF pc = "cycle" /\ Past(c) THEN cycles + 1 ELSE cycles
    /\ failures[c] <= attempts[c]

\* ... and what it says of pauses is true: there were as many idle ones as it
\* reports, and the verified one did have the process resumed.
PausesReported ==
  /\ idlePauses <= pauses
  /\ seenActive /\ box = "paused" => idlePauses < pauses
  /\ pause = "ok" => /\ process = "original" /\ box = "active" => survived
                     /\ probed = "original" => survived
  /\ pauseVerified => survived

\* The scheduled checks before the instant t.
Before(t) == (t + SoakInterval - 1) \div SoakInterval

\* The checks made, and those made or missed, are to either side of the schedule.
OnSchedule ==
  /\ pc \in Setup => next = 0 /\ cycles = 0 /\ missed = 0
  /\ pc \in Observing => next % SoakInterval = 0 \/ next = SoakDuration
  /\ pc \in {"wait", "cycle", "deadline"} => next <= SoakDuration
  /\ pc \in {"cycle", "deadline"} => next <= now
  /\ pc \in {"wait", "cycle", "catch_up"} =>
       cycles <= Before(next) /\ Before(next) <= cycles + missed
  /\ pc = "deadline" => cycles <= Before(next) + 1 /\ Before(next) + 1 <= cycles + missed
  /\ pc = "catch_up" => next % SoakInterval = 0 /\ next < SoakDuration + SoakInterval
  /\ pc \in {"cleanup", "done"} => Accounted \/ (err /\ (cancelled \/ pause = "none"))

\* What the run knows of the sandbox and what it has noted so far.
SetUp ==
  /\ pc \in Setup => pause = "none" /\ probed = "none" /\ ~seenActive /\ ~port
  /\ pc \in {"start_server", "pause"} \cup Observing => known
  /\ pc \in {"pause"} \cup Observing => box \in {"active", "paused"}

\* Whatever went wrong is in the verdict in the end.
ErrorsKept ==
  /\ err => pc \in {"cleanup", "done"}
  /\ \A c \in Check : /\ failures[c] > 0 => firstError
                      /\ skipped[c] > 0 => firstError \/ err \/ (pc = "cycle" /\ cancelled)
  /\ pc = "cycle" /\ ~firstError /\ ~cancelled =>
       \A i \in 1..(step - 1) : outcome[Checks[i]] = "ok"
  /\ pc \in {"cleanup", "done"} /\ ~err =>
       known /\ (firstError \/ (pauseVerified /\ missed = 0))
  /\ pc = "done" /\ ~err => ~firstError /\ box = "gone"

\* A cycle that is past the deletion of the second port has deleted it, or says
\* that it could not.
PortUndone == (pc = "cycle" => Past("preview_delete")) /\ port =>
                outcome["preview_delete"] = "failed" \/ cancelled

\* The soak summary is true at any time (soakSummary; with the types of the variables).
SoakInv == /\ TypeOK /\ Balanced /\ PausesReported
           /\ OnSchedule /\ SetUp /\ ErrorsKept /\ PortUndone
=============================================================================
