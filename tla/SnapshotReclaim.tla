-------------------------- MODULE SnapshotReclaim --------------------------
(***************************************************************************)
(* Snapshot canary runs (internal/lifecycle/snapshot.go) and the janitor    *)
(* (internal/janitor/runner.go) over one environment.  A run owns a source  *)
(* sandbox, at most one snapshot of it and a fork.  Snapshots carry no      *)
(* metadata: only the source's metadata can lead the janitor to one.        *)
(*                                                                         *)
(* The platform is external: any request may fail with or without effect,   *)
(* and a sandbox past its auto-delete time may vanish.                      *)
(***************************************************************************)
EXTENDS Integers, FiniteSets

CONSTANTS Run,              \* run IDs
          ResourceTTL, RetainTTL,
          Retains,          \* the values of CANARY_RETAIN_FAILED_SANDBOX considered
          Attempts,         \* CreateSnapshot's first attempt and its retries
          RunBound,         \* the job's task timeout
          ListBound,        \* ... and the janitor's, from listing to clock
          SweepPeriod,      \* the janitor's schedule
          MaxTime           \* bound of the model: the last instant

ASSUME SnapshotReclaimAssumption ==
  /\ ResourceTTL \in Nat /\ RetainTTL \in Nat \ {0} /\ Attempts \in Nat \ {0}
  /\ RunBound \in Nat /\ ListBound \in Nat /\ SweepPeriod \in Nat \ {0} /\ MaxTime \in Nat
  /\ Retains \subseteq BOOLEAN
  \* Production: 15 minute runs, 10 minute sweeps, a TTL of an hour or more.
  /\ RunBound + ListBound < ResourceTTL

VARIABLES
  Retain,     \* the environment's CANARY_RETAIN_FAILED_SANDBOX, which never changes
  now,
  box,        \* the sandboxes, by run and role: metadata and platform state
  snaps,      \* the captures of each run that exist, by the attempt that took them
  pc, created, attempt,
  source,     \* whether a run knows its source (source.SandboxID # "")
  fork,       \* ... and its fork
  snapID,     \* RunResult.SnapshotID, 0 when unknown
  recorded,   \* pointerRecorded
  err,        \* whether RunResult.Err is set
  sweep,      \* the step of the janitor
  listing,    \* what its listing returned and it has not looked at
  current,    \* the stale item whose snapshot is gone
  clock,      \* its reading of the time, or the time of the listing before
  onTime,     \* history: so far no sweep was late, slow, cut short or failed
  nextSweep   \* when the next sweep is due, while onTime

env      == <<now, Retain>>
platform == <<box, snaps>>
result   == <<source, fork, snapID, recorded, err>>
runs     == <<pc, created, attempt, result>>
schedule == <<onTime, nextSweep>>
janitor  == <<sweep, listing, current, clock, schedule>>
vars     == <<env, platform, runs, janitor>>

RetentionTTL == IF Retain /\ RetainTTL > ResourceTTL THEN RetainTTL ELSE ResourceTTL

Time == 0..MaxTime
Role == {"source", "fork"}
Box  == Run \X Role
SnapID == 0..Attempts
\* Mutant of AutoDeleteFactor: a pointer is deleted like any sandbox.
NoFactor == 1

\* snapshotPointerAutoDeleteFactor
AutoDeleteFactor == 2

\* A sandbox: names is the snapshot its metadata points at, expires its
\* expires_at, autoDelete the earliest time the platform may remove it.
Sandbox == [state : {"none", "live", "gone"}, names : SnapID, expires : Nat,
            autoDelete : Nat, retained : BOOLEAN]
Absent  == [state |-> "none", names |-> 0, expires |-> 0, autoDelete |-> 0, retained |-> FALSE]
Item    == [run : Run, role : Role, names : SnapID, expires : Nat]
NoItem  == {}

Body == {"create", "wait_active", "snapshot", "record", "ready", "fork", "verify"}
Cleanup == {"finalize_fork", "delete_snapshot", "leave_pointer", "finalize_source"}
InProgress == Body \cup Cleanup

TypeOK == /\ now \in Time
          /\ box \in [Run -> [Role -> Sandbox]]
          /\ snaps \in [Run -> SUBSET (1..Attempts)]
          /\ pc \in [Run -> {"idle", "done", "killed"} \cup InProgress]
          /\ created \in [Run -> Time] /\ attempt \in [Run -> SnapID]
          /\ source \in [Run -> BOOLEAN] /\ fork \in [Run -> BOOLEAN]
          /\ snapID \in [Run -> SnapID]
          /\ recorded \in [Run -> BOOLEAN] /\ err \in [Run -> BOOLEAN]
          /\ sweep \in {"idle", "clock", "sweep"}
          /\ listing \subseteq Item /\ current \subseteq Item
          /\ clock \in Time
          /\ Retain \in BOOLEAN /\ onTime \in BOOLEAN /\ nextSweep \in Nat

Init == /\ now = 0 /\ Retain \in Retains
        /\ box = [r \in Run |-> [k \in Role |-> Absent]]
        /\ snaps = [r \in Run |-> {}]
        /\ pc = [r \in Run |-> "idle"]
        /\ created = [r \in Run |-> 0] /\ attempt = [r \in Run |-> 0]
        /\ source = [r \in Run |-> FALSE] /\ fork = [r \in Run |-> FALSE]
        /\ snapID = [r \in Run |-> 0]
        /\ recorded = [r \in Run |-> FALSE] /\ err = [r \in Run |-> FALSE]
        /\ sweep = "idle" /\ listing = {} /\ current = NoItem
        /\ clock = 0 /\ onTime = TRUE /\ nextSweep = SweepPeriod

-----------------------------------------------------------------------------
(* The platform *)

Exists(r, k) == box[r][k].state = "live"

\* POST /sandboxes with the request's metadata and auto-delete time.
Creates(r, k, factor) ==
  box' = [box EXCEPT ![r][k] = [state |-> "live", names |-> 0,
                                expires |-> created[r] + RetentionTTL,
                                autoDelete |-> now + factor * RetentionTTL,
                                retained |-> FALSE]]

Deletes(r, k) == box' = [box EXCEPT ![r][k].state = IF @ = "live" THEN "gone" ELSE @]

\* PATCH replaces the metadata of a sandbox that is there.
Updates(r, k, b) == box' = [box EXCEPT ![r][k] = IF @.state = "live" THEN b ELSE @]

\* POST /snapshots: a second attempt with the key of a capture returns it.
Captures(r, n) == snaps' = [snaps EXCEPT ![r] = IF @ = {} THEN {n} ELSE @]

-----------------------------------------------------------------------------
(* A run *)

Goto(r, l) == pc' = [pc EXCEPT ![r] = l]
Fails(r)   == err' = [err EXCEPT ![r] = TRUE]

\* A failed step goes straight to the deferred cleanup.
Abort(r) == Fails(r) /\ Goto(r, "finalize_fork")

Start(r) == /\ pc[r] = "idle"
            \* bound of the model: every expiry stays within MaxTime
            /\ now + RunBound + RetentionTTL + RetainTTL <= MaxTime
            /\ created' = [created EXCEPT ![r] = now]
            /\ Goto(r, "create")
            /\ UNCHANGED <<env, platform, attempt, result, janitor>>

CreateSource(r) ==
  /\ pc[r] = "create"
  /\ \/ /\ Creates(r, "source", AutoDeleteFactor)
        /\ source' = [source EXCEPT ![r] = TRUE]
        /\ Goto(r, "wait_active") /\ UNCHANGED err
     \/ /\ Creates(r, "source", AutoDeleteFactor) \/ UNCHANGED box
        /\ Abort(r) /\ UNCHANGED source
  /\ UNCHANGED <<env, snaps, created, attempt, fork, snapID, recorded, janitor>>

\* wait_active and seeding, or snapshot_wait_ready, source_wait_active and
\* source_exec, or the checks in the fork.
Proceeds(r, step, role, next) ==
  /\ pc[r] = step
  /\ \/ Exists(r, role) /\ Goto(r, next) /\ UNCHANGED err
     \/ Abort(r)
  /\ UNCHANGED <<env, platform, created, attempt, source, fork, snapID, recorded, janitor>>

WaitActive(r) == Proceeds(r, "wait_active", "source", "snapshot")
Ready(r)      == Proceeds(r, "ready", "source", "fork")
Verify(r)     == Proceeds(r, "verify", "fork", "finalize_fork")

MayRetry(r) == attempt[r] + 1 < Attempts

\* One attempt of CreateSnapshot's retry loop.  A transient failure is
\* retried; a definite one, a response without an ID, the end of the run's
\* context or the last attempt is not.
Snapshot(r) ==
  /\ pc[r] = "snapshot"
  /\ attempt' = [attempt EXCEPT ![r] = @ + 1]
  /\ \/ Exists(r, "source") /\ Captures(r, attempt[r] + 1)
     \/ UNCHANGED snaps
  /\ \/ /\ Exists(r, "source") /\ snaps[r]' # {}
        /\ \E n \in snaps[r]' : snapID' = [snapID EXCEPT ![r] = n]
        /\ Goto(r, "record") /\ UNCHANGED err
     \/ MayRetry(r) /\ UNCHANGED <<snapID, err, pc>>
     \/ Abort(r) /\ UNCHANGED snapID
  /\ UNCHANGED <<env, box, created, source, fork, recorded, janitor>>

\* Point the source at its snapshot before anything else can fail.
Names(r) == Updates(r, "source", [box[r]["source"] EXCEPT !.names = snapID[r]])

Record(r) ==
  /\ pc[r] = "record"
  /\ \/ /\ Exists(r, "source") /\ Names(r)
        /\ recorded' = [recorded EXCEPT ![r] = TRUE]
        /\ Goto(r, "ready") /\ UNCHANGED err
     \/ /\ Names(r) \/ UNCHANGED box
        /\ Abort(r) /\ UNCHANGED recorded
  /\ UNCHANGED <<env, snaps, created, attempt, source, fork, snapID, janitor>>

\* The fork may exist without the run knowing, or report the wrong snapshot.
Fork(r) ==
  /\ pc[r] = "fork"
  /\ \/ /\ Creates(r, "fork", 1)
        /\ fork' = [fork EXCEPT ![r] = TRUE]
        /\ \/ Goto(r, "verify") /\ UNCHANGED err
           \/ Abort(r)
     \/ /\ Creates(r, "fork", 1) \/ UNCHANGED box
        /\ Abort(r) /\ UNCHANGED fork
  /\ UNCHANGED <<env, snaps, created, attempt, source, snapID, recorded, janitor>>

\* FinalizeSandbox: retain a failed run's sandbox, when so configured, else
\* delete it.  Retention replaces the metadata and moves both deadlines.
Retained(r, k) ==
  LET names == IF k = "source" THEN snapID[r] ELSE 0
  IN  [state |-> "live", names |-> names, expires |-> now + RetainTTL,
       autoDelete |-> now + (IF names # 0 THEN AutoDeleteFactor ELSE 1) * RetainTTL,
       retained |-> TRUE]

\* Mutant of FinalizeSandbox: a failed delete is no error.
FinalizeQuietly(r, k) == IF err[r] /\ Retain
                           THEN Updates(r, k, Retained(r, k)) /\ UNCHANGED err
                           ELSE (Deletes(r, k) \/ UNCHANGED box) /\ UNCHANGED err

FinalizeSandbox(r, k) ==
  \/ /\ err[r] /\ Retain
     /\ Updates(r, k, Retained(r, k)) \/ UNCHANGED box
     /\ UNCHANGED err
  \/ /\ ~(err[r] /\ Retain)
     /\ \/ Deletes(r, k) /\ UNCHANGED err
        \/ (Deletes(r, k) \/ UNCHANGED box) /\ Fails(r)

FinalizeFork(r) ==
  /\ pc[r] = "finalize_fork"
  /\ IF fork[r] THEN FinalizeSandbox(r, "fork") ELSE UNCHANGED <<box, err>>
  /\ Goto(r, "delete_snapshot")
  /\ UNCHANGED <<env, snaps, created, attempt, source, fork, snapID, recorded, janitor>>

\* Mutant of KeepSource: a failed delete drops the source.
DropSource(r) == "finalize_source"

\* Retention keeps the snapshot only once the source names it.
KeepSnapshot(r) == err[r] /\ Retain /\ recorded[r]
\* When the delete fails the source stays, and is made to name the snapshot.
KeepSource(r) == IF recorded[r] THEN "done" ELSE "leave_pointer"

DeleteSnapshot(r) ==
  /\ pc[r] = "delete_snapshot"
  /\ \/ /\ snapID[r] = 0 \/ KeepSnapshot(r)
        /\ Goto(r, "finalize_source")
        /\ UNCHANGED <<snaps, err>>
     \/ /\ snapID[r] # 0 /\ ~KeepSnapshot(r)
        /\ \/ /\ snaps' = [snaps EXCEPT ![r] = @ \ {snapID[r]}]
              /\ Goto(r, "finalize_source") /\ UNCHANGED err
           \/ /\ snaps' = [snaps EXCEPT ![r] = @ \ {snapID[r]}] \/ UNCHANGED snaps
              /\ Goto(r, KeepSource(r))
              /\ Fails(r)
  /\ UNCHANGED <<env, box, created, attempt, source, fork, snapID, recorded, janitor>>

LeavePointer(r) ==
  /\ pc[r] = "leave_pointer"
  /\ Names(r) \/ UNCHANGED box
  /\ Goto(r, "done")
  /\ UNCHANGED <<env, snaps, created, attempt, result, janitor>>

FinalizeSource(r) ==
  /\ pc[r] = "finalize_source"
  /\ IF source[r] THEN FinalizeSandbox(r, "source") ELSE UNCHANGED <<box, err>>
  /\ Goto(r, "done")
  /\ UNCHANGED <<env, snaps, created, attempt, source, fork, snapID, recorded, janitor>>

\* The process is killed, at the latest by the task timeout.
Kill(r) == /\ pc[r] \in InProgress
           /\ Goto(r, "killed")
           /\ UNCHANGED <<env, platform, created, attempt, result, janitor>>

RunStep(r) == \/ CreateSource(r) \/ WaitActive(r) \/ Snapshot(r) \/ Record(r)
              \/ Ready(r) \/ Fork(r) \/ Verify(r)
              \/ FinalizeFork(r) \/ DeleteSnapshot(r) \/ LeavePointer(r) \/ FinalizeSource(r)

-----------------------------------------------------------------------------
(* The janitor: the listing, the clock, then the items in any order *)

\* The sweeps are on time as long as `ok`.
Keeps(ok) == /\ onTime' = (onTime /\ ok)
             /\ nextSweep' = IF onTime /\ ok THEN nextSweep ELSE 0

ItemOf(r, k) == [run |-> r, role |-> k, names |-> box[r][k].names, expires |-> box[r][k].expires]

ListSandboxes ==
  /\ sweep = "idle"
  /\ Keeps(now = nextSweep)
  /\ listing' = {ItemOf(b[1], b[2]) : b \in {c \in Box : Exists(c[1], c[2])}}
  /\ clock' = now
  /\ sweep' = "clock"
  /\ UNCHANGED <<env, platform, runs, current>>

ReadClock ==
  /\ sweep = "clock"
  /\ clock' = now
  /\ sweep' = "sweep"
  /\ UNCHANGED <<env, platform, runs, listing, current, schedule>>

\* Mutant of Stale: expired a TTL too early.
StaleEarly(i) == i.expires <= clock + ResourceTTL

Stale(i) == i.expires <= clock
Sweeps(i) == sweep = "sweep" /\ current = NoItem /\ i \in listing
Drops(i) == listing' = listing \ {i}

Skip(i) == /\ Sweeps(i) /\ ~Stale(i)
           /\ Drops(i)
           /\ UNCHANGED <<env, platform, runs, sweep, current, clock, schedule>>

\* Mutant of SweepSnapshot: a snapshot that is already gone is a failure.
SweepSnapshotFound(i) ==
  /\ Sweeps(i) /\ Stale(i) /\ i.names \in snaps[i.run] \cup {0}
  /\ Drops(i)
  /\ snaps' = [snaps EXCEPT ![i.run] = @ \ {i.names}]
  /\ current' = {i}
  /\ UNCHANGED <<env, box, runs, sweep, clock, schedule>>

\* The snapshot goes first, and a failed delete leaves the sandbox for the
\* next pass.
SweepSnapshot(i) ==
  /\ Sweeps(i) /\ Stale(i)
  /\ Drops(i)
  /\ snaps' = IF i.names = 0 THEN snaps ELSE [snaps EXCEPT ![i.run] = @ \ {i.names}]
  /\ current' = {i}
  /\ UNCHANGED <<env, box, runs, sweep, clock, schedule>>

\* Mutant of SweepSnapshotFails: the sandbox is deleted all the same.
SweepRegardless(i) ==
  /\ Sweeps(i) /\ Stale(i) /\ i.names # 0
  /\ Drops(i)
  /\ current' = {i}
  /\ UNCHANGED <<env, platform, runs, sweep, clock, schedule>>

SweepSnapshotFails(i) ==
  /\ Sweeps(i) /\ Stale(i) /\ i.names # 0
  /\ Drops(i)
  /\ UNCHANGED snaps \/ snaps' = [snaps EXCEPT ![i.run] = @ \ {i.names}]
  /\ Keeps(FALSE)
  /\ UNCHANGED <<env, box, runs, sweep, current, clock>>

SweepSandbox(i) == /\ current = {i}
                   /\ Deletes(i.run, i.role)
                   /\ current' = NoItem
                   /\ UNCHANGED <<env, snaps, runs, sweep, listing, clock, schedule>>

SweepSandboxFails(i) ==
  /\ current = {i}
  /\ Deletes(i.run, i.role) \/ UNCHANGED box
  /\ current' = NoItem
  /\ Keeps(FALSE)
  /\ UNCHANGED <<env, snaps, runs, sweep, listing, clock>>

\* Nothing is left to do, or the sweep fails or is killed half-way.
EndSweep == /\ sweep # "idle"
            /\ sweep' = "idle" /\ listing' = {} /\ current' = NoItem /\ clock' = 0
            /\ onTime' = (onTime /\ sweep = "sweep" /\ listing = {} /\ current = NoItem)
            /\ nextSweep' = IF onTime' THEN now + SweepPeriod ELSE 0
            /\ UNCHANGED <<env, platform, runs>>

SweepItem(i) == \/ Skip(i) \/ SweepSnapshot(i) \/ SweepSnapshotFails(i)
                \/ SweepSandbox(i) \/ SweepSandboxFails(i)

\* The items the janitor has in hand.
Janitor == ListSandboxes \/ ReadClock \/ EndSweep \/ (\E i \in listing \cup current : SweepItem(i))

-----------------------------------------------------------------------------
(* Environment *)

AutoDelete(r, k) == /\ Exists(r, k) /\ box[r][k].autoDelete <= now
                    /\ Deletes(r, k)
                    /\ UNCHANGED <<env, snaps, runs, janitor>>

Tick == /\ now < MaxTime
        /\ \A r \in Run : pc[r] \in InProgress => now < created[r] + RunBound
        /\ sweep = "clock" => now < clock + ListBound
        /\ now' = now + 1
        /\ Keeps(sweep = "idle" /\ now < nextSweep)
        /\ UNCHANGED <<Retain, platform, runs, sweep, listing, current, clock>>

Next == \/ \E r \in Run : Start(r) \/ RunStep(r) \/ Kill(r)
        \/ Janitor
        \/ \E r \in Run, k \in Role : AutoDelete(r, k)
        \/ Tick

Spec == Init /\ [][Next]_vars

\* The run always gets on, the clock advances, and a janitor delete that is
\* tried again and again succeeds; nothing is assumed of auto-deletion.
Fairness == /\ WF_vars(Tick)
            /\ \A r \in Run : WF_vars(RunStep(r)) /\ WF_vars(Kill(r))
            /\ SF_vars(ListSandboxes) /\ SF_vars(ReadClock) /\ WF_vars(EndSweep)
            /\ \A b \in Box :
                 /\ SF_vars(\E i \in listing : i.run = b[1] /\ i.role = b[2] /\ SweepSnapshot(i))
                 /\ SF_vars(\E i \in current : i.run = b[1] /\ i.role = b[2] /\ SweepSandbox(i))

FairSpec == Spec /\ Fairness

-----------------------------------------------------------------------------
(* Properties *)

Over(r)  == pc[r] \in {"done", "killed"}
Named(r) == Exists(r, "source") /\ box[r]["source"].names \in snaps[r]

AutoDeleted(r, k) == box[r][k].state = "gone" /\ box[r][k].autoDelete <= now

\* The idempotency key: a lost response to a snapshot request never makes a
\* retry take a second capture.
OneSnapshot == \A r \in Run : Cardinality(snaps[r]) <= 1

\* A run that knows of a snapshot it could not delete leaves the source in place.
FailedDeleteKeepsSource ==
  \A r \in Run : pc[r] = "done" /\ snapID[r] \in snaps[r] =>
     Exists(r, "source") \/ box[r]["source"].expires <= now

\* What a run has in hand, by the step it is at.

Before(r) == pc[r] \in {"idle", "create", "wait_active", "snapshot"}
Naming(r) == pc[r] \in {"record", "ready", "fork", "verify", "finalize_fork", "delete_snapshot"}

\* A run in progress is within its timeout.
InTime(r) == pc[r] \in InProgress => created[r] <= now /\ now <= created[r] + RunBound

\* A source that a run knows of is there until the run gives it up.
KnowsSource(r) ==
  /\ pc[r] \in {"idle", "create"} => box[r]["source"].state = "none" /\ ~source[r]
  /\ pc[r] \in Body \ {"create"} \/ snapID[r] # 0 => source[r]
  /\ source[r] => box[r]["source"].state # "none"
  /\ source[r] /\ pc[r] \in InProgress => Exists(r, "source")

KnowsFork(r) ==
  /\ pc[r] \in {"idle"} \cup (Body \ {"verify"}) => box[r]["fork"].state = "none" /\ ~fork[r]
  /\ pc[r] = "verify" => fork[r]
  /\ box[r]["fork"].names = 0

\* The captures of a run are the one it knows, if any; it has that one until
\* it deletes it, unless it retains it.
KnowsSnapshot(r) ==
  /\ Before(r) => snapID[r] = 0 /\ attempt[r] < Attempts
  /\ pc[r] \in {"idle", "create", "wait_active"} => snaps[r] = {} /\ attempt[r] = 0
  /\ pc[r] \in {"record", "ready", "fork", "verify"} => snapID[r] # 0
  /\ \A m, n \in snaps[r] : m = n
  /\ snapID[r] # 0 => snaps[r] \subseteq {snapID[r]}
  /\ Naming(r) /\ snapID[r] # 0 => snapID[r] \in snaps[r]
  /\ pc[r] = "finalize_source" => (snapID[r] \in snaps[r] <=> KeepSnapshot(r))

Points(r) ==
  /\ box[r]["source"].names \in {0, snapID[r]}
  /\ recorded[r] => snapID[r] # 0 /\ box[r]["source"].names = snapID[r]

\* Without an error, the cleanup undoes what the run did, step by step.
Undoes(r) ==
  /\ pc[r] = "leave_pointer" => err[r]
  /\ ~err[r] /\ pc[r] = "finalize_fork" => fork[r] /\ snapID[r] # 0
  /\ ~err[r] /\ pc[r] \in {"delete_snapshot", "finalize_source", "done"} =>
       ~Exists(r, "fork") /\ snapID[r] # 0
  /\ ~err[r] /\ pc[r] \in {"finalize_source", "done"} => snaps[r] = {}
  /\ ~err[r] /\ pc[r] = "done" => ~Exists(r, "source")

\* The run does not touch the sandbox any more.
Settled(r, k) == Over(r) \/ (k = "fork" /\ pc[r] \in Cleanup \ {"finalize_fork"})

\* A pointer outlives its expiry by this much.
Margin == IF RetainTTL <= ResourceTTL THEN RetainTTL ELSE ResourceTTL

Expires(r, k) ==
  LET b == box[r][k]
  IN  b.state # "none" =>
        /\ b.retained => Settled(r, k)
        /\ ~b.retained => b.expires = created[r] + RetentionTTL
        /\ b.expires + (IF b.names = 0 THEN 0 ELSE Margin) <= b.autoDelete
        /\ k = "source" /\ ~b.retained => b.expires + Margin <= b.autoDelete

\* What is kept of a snapshot and its pointer.
Remains(r) ==
  LET s == box[r]["source"]
  IN  /\ s.state = "gone" /\ snapID[r] \in snaps[r] =>
            s.expires <= now /\ (recorded[r] => s.autoDelete <= now)
      /\ s.state = "live" /\ s.retained /\ recorded[r] /\ now < s.expires =>
            snapID[r] \in snaps[r]

\* The latest time the sweep may judge its listing at.
Latest == IF sweep = "clock" THEN clock + ListBound ELSE clock

\* A listed sandbox that is going to be stale is still as it was listed: the run
\* that owns it has been over since before the listing.
Lists(i) ==
  LET b == box[i.run][i.role]
  IN  /\ b.state # "none"
      /\ i.expires <= Latest =>
           Settled(i.run, i.role) /\ i.expires = b.expires /\ i.names = b.names

SweepInOrder ==
  /\ sweep = "idle" => listing = {}
  /\ sweep # "sweep" => current = NoItem
  /\ clock <= now
  /\ sweep = "clock" => now <= clock + ListBound
  /\ \A i \in listing \cup current : Lists(i)
  /\ \A i \in current : i.expires <= clock /\ i.names \notin snaps[i.run]

\* While the sweeps are on time, a source that names a snapshot is not long past
\* its expiry, and the sweep that is due has it still before it.
Awaits(r) ==
  LET s == box[r]["source"]
  IN  Named(r) => /\ nextSweep < s.expires + SweepPeriod
                  /\ sweep # "idle" /\ s.expires <= now =>
                       \E i \in listing : /\ i.run = r /\ i.role = "source"
                                         /\ i.names = s.names /\ i.expires = s.expires

Punctual == onTime => /\ now <= nextSweep /\ nextSweep <= now + SweepPeriod
                      /\ sweep # "idle" => now = nextSweep /\ clock = now
                      /\ \A r \in Run : Awaits(r)

RunInOrder(r) == /\ InTime(r) /\ KnowsSource(r) /\ KnowsFork(r) /\ KnowsSnapshot(r)
                 /\ Points(r) /\ Undoes(r) /\ Remains(r)
                 /\ \A k \in Role : Expires(r, k)

\* A run makes at most one snapshot, and with one that it knows of it ends with
\* the source still there (runSnapshot and CreateSnapshot; with the types of the
\* variables, and what makes this and the properties below inductive).
SnapshotInv == /\ TypeOK /\ OneSnapshot /\ FailedDeleteKeepsSource
               /\ \A r \in Run : RunInOrder(r)
               /\ SweepInOrder /\ Punctual

\* Once the pointer is recorded, neither the run, wherever it is killed, nor a
\* janitor with an old listing ever separates a snapshot from the source that
\* names it; only the platform's auto-deletion may.  And what is kept for
\* debugging is whole until it expires: the retained source still has its snapshot.
RecordedStaysNamed ==
  \A r \in Run : LET s == box[r]["source"] IN recorded[r] =>
     /\ Over(r) /\ snaps[r] # {} => Named(r) \/ s.autoDelete <= now
     /\ s.state = "live" /\ s.retained /\ now < s.expires => s.names \in snaps[r]

\* A run without error has deleted all it made.
SuccessMeansClean ==
  \A r \in Run : pc[r] = "done" /\ ~err[r] =>
     snaps[r] = {} /\ \A k \in Role : ~Exists(r, k)

\* A sandbox ends by its own run's cleanup or past its expiry: no sweep takes it
\* from a run in progress or out of its retention.
ReclaimedOnTime ==
  [][\A r \in Run, k \in Role :
       Exists(r, k) /\ ~Exists(r, k)' =>
          \/ pc[r] \in Cleanup /\ pc'[r] # pc[r]
          \/ box[r][k].expires <= now]_vars

\* Doubling the auto-delete time suffices: with a janitor that is on time, no
\* source vanishes while it is the pointer to a snapshot.
PointerOutlivesSweep ==
  onTime => \A r \in Run : box[r]["source"].state = "gone" => box[r]["source"].names \notin snaps[r]

\* Every sandbox is eventually reclaimed, and every snapshot that a source names
\* goes too, unless the platform was first.
EventuallyReclaimed ==
  \A r \in Run : /\ \A k \in Role : Exists(r, k) ~> ~Exists(r, k)
                 /\ Named(r) ~> (snaps[r] = {} \/ AutoDeleted(r, "source"))

\* What the retry of CreateSnapshot is for: no capture outlives the run and its
\* source because a response was lost.
LostResponseLeavesNoLeak ==
  \A r \in Run : pc[r] = "done" /\ snaps[r] # {} =>
     Exists(r, "source") \/ box[r]["source"].expires <= now
=============================================================================
