----------------------------- MODULE Scenarios -----------------------------
(***************************************************************************)
(* The lifecycle, template and dax scenarios of a canary run                *)
(* (internal/lifecycle/runner.go, template.go and dax.go) and the janitor's *)
(* sweep of templates (internal/janitor/runner.go).  Each run has one       *)
(* sandbox; a template run builds a template of its own and deletes it,     *)
(* while the dax runs of a team share one by its name.                      *)
(*                                                                         *)
(* The platform is external: any request may fail with or without effect.   *)
(* Expired sandboxes are the subject of SnapshotReclaim; here a sandbox     *)
(* that its run leaves stays.                                               *)
(***************************************************************************)
EXTENDS Integers, FiniteSets

CONSTANTS Lifecycle, Template, Dax,   \* run IDs, by scenario
          ResourceTTL, RetainTTL,
          Retains,          \* the values of CANARY_RETAIN_FAILED_SANDBOX considered
          RunBound,         \* the job's task timeout
          PageLimit,        \* templateListLimit
          MaxVersions,      \* bound of the model: dax templates ever made
          MaxTime,          \* bound of the model: the last instant
          Casts             \* bound of the model: sets of runs that happen together,
                            \* with the janitor where there are templates to sweep

Run == Lifecycle \cup Template \cup Dax

ASSUME ScenariosAssumption ==
  /\ Lifecycle \cap Template = {} /\ Dax \cap (Lifecycle \cup Template) = {}
  /\ IsFiniteSet(Template)
  /\ {ResourceTTL, RetainTTL, RunBound, MaxTime} \subseteq Nat
  /\ {PageLimit, MaxVersions} \subseteq Nat \ {0}
  /\ Retains \subseteq BOOLEAN /\ Casts \subseteq SUBSET Run
  \* Deployment: runs of minutes, a TTL of an hour or more.
  /\ RunBound < ResourceTTL

VARIABLES
  Retain,     \* the environment's CANARY_RETAIN_FAILED_SANDBOX, which never changes
  now,
  tpl,        \* the template of each template run: its build and CreatedAt
  dax,        \* the builds of the templates named daxTemplateName, by ID
  box,        \* the sandbox of each run
  paused,     \* history: the sandbox has been paused
  pc, started,
  built,      \* res.TemplateID is set
  sandbox,    \* resources.SandboxID is set
  found,      \* what findTemplate returned
  err,        \* RunResult.Err is set
  sweep,      \* the step of the janitor
  listing,    \* the page of templates it has not looked at
  clock       \* its reading of the time

env      == <<now, Retain>>
platform == <<tpl, dax, box, paused>>
result   == <<built, sandbox, err>>
runs     == <<pc, started, found, result>>
janitor  == <<sweep, listing, clock>>
vars     == <<env, platform, runs, janitor>>

Time == 0..MaxTime
Version == 1..MaxVersions
Live == {"building", "ready", "failed"}
NotFound == [id |-> 0, status |-> "none"]

Body == {"template_create", "template_build_wait", "dax_find", "dax_ensure",
         "create_request", "create_wait_active", "seed", "pause_request",
         "pause_wait_paused", "resume_request", "resume_wait_active", "verify_state",
         "check_preview_url", "verify_build_artifact", "dax_build"}
InProgress == Body \cup {"finalize", "template_delete"}

TypeOK ==
  /\ now \in Time /\ Retain \in BOOLEAN
  /\ tpl \in [Template -> [status : Live \cup {"none", "gone"}, created : Time]]
  /\ dax \in [Version -> Live \cup {"none", "gone"}]
  /\ box \in [Run -> {"none", "starting", "active", "pausing", "paused", "resuming",
                      "gone"}]
  /\ paused \in [Run -> BOOLEAN]
  /\ pc \in [Run -> InProgress \cup {"absent", "idle", "done", "killed"}]
  /\ started \in [Run -> Time] /\ err \in [Run -> BOOLEAN]
  /\ built \in [Template -> BOOLEAN] /\ sandbox \in [Run -> BOOLEAN]
  /\ found \in [Dax -> [id : 0..MaxVersions, status : Live \cup {"none"}]]
  /\ sweep \in {"absent", "idle", "sandboxes", "templates"}
  /\ listing \subseteq Template /\ Cardinality(listing) <= PageLimit /\ clock \in Time

Init ==
  /\ now = 0 /\ Retain \in Retains
  /\ tpl = [r \in Template |-> [status |-> "none", created |-> 0]]
  /\ dax = [v \in Version |-> "none"]
  /\ box = [r \in Run |-> "none"] /\ paused = [r \in Run |-> FALSE]
  /\ \E cast \in Casts :
       /\ pc = [r \in Run |-> IF r \in cast THEN "idle" ELSE "absent"]
       /\ sweep = IF cast \cap Template = {} THEN "absent" ELSE "idle"
  /\ started = [r \in Run |-> 0] /\ err = [r \in Run |-> FALSE]
  /\ built = [r \in Template |-> FALSE] /\ sandbox = [r \in Run |-> FALSE]
  /\ found = [r \in Dax |-> NotFound]
  /\ listing = {} /\ clock = 0

-----------------------------------------------------------------------------
(* A run *)

Goto(r, l) == pc' = [pc EXCEPT ![r] = l]
Fails(r)   == err' = [err EXCEPT ![r] = TRUE]

\* A failed step goes straight to the deferred cleanup.
Abort(r) == Fails(r) /\ Goto(r, "finalize")
Proceed(r, l) == Goto(r, l) /\ UNCHANGED err

\* The process ends, and what it knew goes with it.
Exit(r, l) == /\ Goto(r, l)
              /\ started' = [started EXCEPT ![r] = 0]
              /\ sandbox' = [sandbox EXCEPT ![r] = FALSE]
              /\ IF r \in Template THEN built' = [built EXCEPT ![r] = FALSE] ELSE UNCHANGED built
              /\ IF r \in Dax THEN found' = [found EXCEPT ![r] = NotFound] ELSE UNCHANGED found

\* The scenarios are the same steps in different company.
First(r) == CASE r \in Template -> "template_create"
              [] r \in Dax      -> "dax_find"
              [] OTHER          -> "create_request"
AfterActive(r) == CASE r \in Template -> "verify_build_artifact"
                    [] r \in Dax      -> "dax_build"
                    [] OTHER          -> "seed"

Start(r) ==
  /\ pc[r] = "idle"
  /\ now + RunBound + ResourceTTL <= MaxTime     \* bound of the model
  /\ started' = [started EXCEPT ![r] = now]
  /\ Goto(r, First(r))
  /\ UNCHANGED <<env, platform, found, result, janitor>>

-----------------------------------------------------------------------------
(* The template of a template run *)

Builds(r) == tpl' = [tpl EXCEPT ![r] = [status |-> "building", created |-> now]]

\* A response that is lost, or lacks the build's ID, leaves TemplateID empty.
CreateTemplate(r) ==
  /\ pc[r] = "template_create"
  /\ \/ Builds(r) /\ built' = [built EXCEPT ![r] = TRUE] /\ Proceed(r, "template_build_wait")
     \/ (Builds(r) \/ UNCHANGED tpl) /\ Abort(r) /\ UNCHANGED built
  /\ UNCHANGED <<env, dax, box, paused, started, found, sandbox, janitor>>

\* waitForBuild polls until the build is over, a request fails or the run's
\* context ends.
WaitForBuild(r) ==
  /\ pc[r] = "template_build_wait"
  /\ \/ tpl[r].status = "ready" /\ Proceed(r, "create_request")
     \/ Abort(r)
  /\ UNCHANGED <<env, platform, started, found, built, sandbox, janitor>>

-----------------------------------------------------------------------------
(* The template that the dax runs share: ensureDaxTemplate *)

DaxLive == {v \in Version : dax[v] \in Live}

\* One of the templates of the name that there are.
FindTemplate(r) ==
  /\ pc[r] = "dax_find"
  /\ \/ /\ found' = [found EXCEPT ![r] = NotFound]
        /\ DaxLive = {} /\ Proceed(r, "dax_ensure")
     \/ \E v \in DaxLive :
          /\ found' = [found EXCEPT ![r] = [id |-> v, status |-> dax[v]]]
          /\ Proceed(r, "dax_ensure")
     \/ Abort(r) /\ UNCHANGED found
  /\ UNCHANGED <<env, platform, started, built, sandbox, janitor>>

\* Two runs may both find none.  Whether the platform then takes a second
\* template of the name is its own affair.
BuildsDax == \E v \in Version : dax[v] = "none" /\ dax' = [dax EXCEPT ![v] = "building"]

\* Mutant of DeleteFound: whatever has the name is deleted.
DeleteByName(r) == dax' = [v \in Version |-> IF v \in DaxLive THEN "gone" ELSE dax[v]]

\* By ID, so that what replaced the failed template since is safe.
DeleteFound(r) == dax' = [dax EXCEPT ![found[r].id] = "gone"]

\* What the listing said may be out of date by now.  A failed request may have
\* had its effect, and a run may stop waiting at any turn.
EnsureTemplate(r) ==
  /\ pc[r] = "dax_ensure"
  /\ \/ found[r].status = "none" /\ BuildsDax /\ (Proceed(r, "dax_find") \/ Abort(r))
     \/ found[r].status = "ready" /\ Proceed(r, "create_request") /\ UNCHANGED dax
     \/ found[r].status = "building" /\ Proceed(r, "dax_find") /\ UNCHANGED dax
     \/ found[r].status = "failed" /\ DeleteFound(r) /\ (Proceed(r, "dax_find") \/ Abort(r))
     \/ Abort(r) /\ UNCHANGED dax
  /\ UNCHANGED <<env, tpl, box, paused, started, found, built, sandbox, janitor>>

-----------------------------------------------------------------------------
(* The sandbox of a run *)

Becomes(r, s) == box' = [box EXCEPT ![r] = s]

\* A sandbox launches from a template that is ready.
Launchable(r) == /\ r \in Template => tpl[r].status = "ready"
                 /\ r \in Dax => \E v \in Version : dax[v] = "ready"

CreateSandbox(r) ==
  /\ pc[r] = "create_request"
  /\ \/ /\ Launchable(r) /\ Becomes(r, "starting")
        /\ sandbox' = [sandbox EXCEPT ![r] = TRUE] /\ Proceed(r, "create_wait_active")
     \/ /\ \/ Launchable(r) /\ Becomes(r, "starting")
           \/ UNCHANGED box
        /\ Abort(r) /\ UNCHANGED sandbox
  /\ UNCHANGED <<env, tpl, dax, paused, started, found, built, janitor>>

\* A sandbox reaches a status, or does what it is asked while it has it.
Awaits(r, step, want, next) ==
  /\ pc[r] = step
  /\ \/ box[r] = want /\ Proceed(r, next)
     \/ Abort(r)
  /\ UNCHANGED <<env, platform, started, found, built, sandbox, janitor>>

WaitForStatus(r) == \/ Awaits(r, "create_wait_active", "active", AfterActive(r))
                    \/ Awaits(r, "pause_wait_paused", "paused", "resume_request")
                    \/ Awaits(r, "resume_wait_active", "active", "verify_state")

\* Files written and commands run in the sandbox.
SeedState(r)           == Awaits(r, "seed", "active", "pause_request")
VerifyState(r)         == Awaits(r, "verify_state", "active", "check_preview_url")
CheckPreview(r)        == Awaits(r, "check_preview_url", "active", "finalize")
VerifyBuildArtifact(r) == Awaits(r, "verify_build_artifact", "active", "finalize")
DaxBuild(r)            == Awaits(r, "dax_build", "active", "finalize")

\* A request that moves a sandbox from one state to another.
Requests(r, step, from, to, next) ==
  /\ pc[r] = step
  /\ LET moves == box' = [box EXCEPT ![r] = IF @ = from THEN to ELSE @]
     IN  \/ moves /\ Proceed(r, next)
         \/ (moves \/ UNCHANGED box) /\ Abort(r)
  /\ UNCHANGED <<env, tpl, dax, paused, started, found, built, sandbox, janitor>>

Pause(r)  == Requests(r, "pause_request", "active", "pausing", "pause_wait_paused")
Resume(r) == Requests(r, "resume_request", "paused", "resuming", "resume_wait_active")

-----------------------------------------------------------------------------
(* The deferred cleanup *)

\* FinalizeSandbox: a failed run's sandbox is kept when so configured, and else
\* deleted; a failed deletion is the error of a run that had none.
Finalize(r) ==
  /\ pc[r] = "finalize"
  /\ IF r \in Template
       THEN Goto(r, "template_delete") /\ UNCHANGED <<started, found, built, sandbox>>
       ELSE Exit(r, "done")
  /\ \/ (~sandbox[r] \/ (err[r] /\ Retain)) /\ UNCHANGED <<box, err>>
     \/ /\ sandbox[r] /\ ~(err[r] /\ Retain)
        /\ \/ Becomes(r, "gone") /\ UNCHANGED err
           \/ (Becomes(r, "gone") \/ UNCHANGED box) /\ Fails(r)
  /\ UNCHANGED <<env, tpl, dax, paused, janitor>>

DeletesTemplate(r) == tpl' = [tpl EXCEPT ![r].status = IF @ = "none" THEN @ ELSE "gone"]

\* Mutant of DeleteFails: a failed delete is only logged.
DeleteFailsQuietly(r) == (DeletesTemplate(r) \/ UNCHANGED tpl) /\ UNCHANGED err

DeleteFails(r) == (DeletesTemplate(r) \/ UNCHANGED tpl) /\ Fails(r)

DeleteTemplate(r) ==
  /\ pc[r] = "template_delete"
  /\ Exit(r, "done")
  /\ \/ (~built[r] \/ (err[r] /\ Retain)) /\ UNCHANGED <<tpl, err>>
     \/ /\ built[r] /\ ~(err[r] /\ Retain)
        /\ \/ DeletesTemplate(r) /\ UNCHANGED err
           \/ DeleteFails(r)
  /\ UNCHANGED <<env, dax, box, paused, janitor>>

\* The process is killed, at the latest by the task timeout.
Kill(r) == /\ pc[r] \in InProgress
           /\ Exit(r, "killed")
           /\ err' = [err EXCEPT ![r] = FALSE]
           /\ UNCHANGED <<env, platform, janitor>>

RunTemplate(r) == /\ r \in Template
                  /\ \/ CreateTemplate(r) \/ WaitForBuild(r) \/ VerifyBuildArtifact(r)
                     \/ DeleteTemplate(r)
RunDax(r) == r \in Dax /\ (FindTemplate(r) \/ EnsureTemplate(r) \/ DaxBuild(r))
RunLifecycle(r) == /\ r \in Lifecycle
                   /\ \/ SeedState(r) \/ Pause(r) \/ Resume(r) \/ VerifyState(r)
                      \/ CheckPreview(r)

RunStep(r) == \/ RunTemplate(r) \/ RunDax(r) \/ RunLifecycle(r)
              \/ CreateSandbox(r) \/ WaitForStatus(r) \/ Finalize(r)

-----------------------------------------------------------------------------
(* The janitor *)

\* Mutant of TemplateTTL: what a failed run keeps, no longer.
RetentionOnly == RetainTTL

TemplateTTL == IF RetainTTL > ResourceTTL THEN RetainTTL ELSE ResourceTTL

\* The clock is read when the sandboxes are listed, before they are swept and
\* the templates listed.  Without that listing the sweep is over.
ReadClock ==
  /\ sweep = "idle"
  /\ clock' = now /\ sweep' = "sandboxes"
  /\ UNCHANGED <<env, platform, runs, listing>>

\* Mutant of Prefixed: only what is ready is swept.
PrefixedReady == {r \in Template : tpl[r].status = "ready"}

\* The templates with the canaries' prefix, which the dax template does not have.
Prefixed == {r \in Template : tpl[r].status \in Live}

\* One page of them.
ListTemplates ==
  /\ sweep = "sandboxes"
  /\ \E page \in SUBSET Prefixed :
       /\ Cardinality(page) = PageLimit \/ (Cardinality(page) < PageLimit /\ page = Prefixed)
       /\ listing' = page
  /\ sweep' = "templates"
  /\ UNCHANGED <<env, platform, runs, clock>>

Stale(r) == tpl[r].created + TemplateTTL <= clock

Sweep(r) == /\ sweep = "templates" /\ r \in listing
            /\ listing' = listing \ {r}
            /\ IF Stale(r) THEN DeletesTemplate(r) ELSE UNCHANGED tpl
            /\ UNCHANGED <<env, dax, box, paused, runs, sweep, clock>>

SweepFails(r) == /\ sweep = "templates" /\ r \in listing /\ Stale(r)
                 /\ listing' = listing \ {r}
                 /\ DeletesTemplate(r) \/ UNCHANGED tpl
                 /\ UNCHANGED <<env, dax, box, paused, runs, sweep, clock>>

\* Nothing is left to do, or a listing fails, or the janitor is killed.
EndSweep == /\ sweep \in {"sandboxes", "templates"}
            /\ sweep' = "idle" /\ listing' = {} /\ clock' = 0
            /\ UNCHANGED <<env, platform, runs>>

Janitor == ReadClock \/ ListTemplates \/ EndSweep \/ \E r \in Template : Sweep(r) \/ SweepFails(r)

-----------------------------------------------------------------------------
(* The platform *)

\* A build ends, for good.  That of a run's own template may as well never end as
\* fail: the run gives up, and the template is there.
BuildEnds ==
  /\ \/ /\ \E r \in Template : /\ tpl[r].status = "building"
                               /\ tpl' = [tpl EXCEPT ![r].status = "ready"]
        /\ UNCHANGED dax
     \/ /\ \E v \in Version, s \in {"ready", "failed"} :
             dax[v] = "building" /\ dax' = [dax EXCEPT ![v] = s]
        /\ UNCHANGED tpl
  /\ UNCHANGED <<env, box, paused, runs, janitor>>

Settled == [starting |-> "active", pausing |-> "paused", resuming |-> "active"]

\* A sandbox that fails is one that never gets there.
BoxSettles(r) ==
  /\ box[r] \in DOMAIN Settled
  /\ pc[r] \in InProgress       \* bound of the model: else nobody looks
  /\ Becomes(r, Settled[box[r]])
  /\ paused' = [paused EXCEPT ![r] = @ \/ box[r] = "pausing"]
  /\ UNCHANGED <<env, tpl, dax, runs, janitor>>

Tick == /\ now < MaxTime
        /\ \A r \in Run : pc[r] \in InProgress => now < started[r] + RunBound
        /\ now' = now + 1
        /\ UNCHANGED <<Retain, platform, runs, janitor>>

Next == \/ \E r \in Run : Start(r) \/ RunStep(r) \/ Kill(r) \/ BoxSettles(r)
        \/ Janitor \/ BuildEnds \/ Tick

Spec == Init /\ [][Next]_vars

\* The clock advances, which ends the runs (the task timeout kills them), and what
\* the janitor tries again and again succeeds: a listing, and the deletion of a
\* template on a page.
Fairness == /\ WF_vars(Tick) /\ WF_vars(\E r \in Run : Kill(r))
            /\ WF_vars(ReadClock) /\ SF_vars(ListTemplates) /\ WF_vars(EndSweep)
            /\ \A r \in Template : SF_vars(Sweep(r))

FairSpec == Spec /\ Fairness

-----------------------------------------------------------------------------
(* Properties *)

Over(r) == pc[r] \in {"absent", "done", "killed"}

\* A run without an error has deleted its sandbox and its template, and the sandbox
\* of a lifecycle run was paused on the way, whatever the platform's answers were
\* (runLifecycle, runTemplate, FinalizeSandbox and DeleteTemplateBestEffort).
SuccessMeansDone ==
  \A r \in Run : pc[r] = "done" /\ ~err[r] =>
     /\ box[r] = "gone"
     /\ r \in Template => tpl[r].status = "gone"
     /\ r \in Lifecycle => paused[r]

\* A template goes by its own run, or when the run is over and the time it may be
\* retained for has passed (templateTTL).
SweepSparesRuns ==
  [][\A r \in Template :
       tpl[r].status \in Live /\ tpl'[r].status = "gone" =>
          \/ pc[r] = "template_delete" /\ pc'[r] = "done"
          \/ Over(r) /\ \A ttl \in {ResourceTTL, RetainTTL} : tpl[r].created + ttl <= now]_vars

\* Every template of a template run is deleted in the end: retained, lost with the
\* response that named it, left by a failed delete or by a killed run, on the first
\* page of a listing or not.  There is always a time to come at which none is left
\* (no template comes back, so each is deleted).
TemplatesReclaimed == []<>(\A r \in Template : tpl[r].status \notin Live)
-----------------------------------------------------------------------------
(* The inductive invariant behind the properties *)

\* Steps of a run whose sandbox has been created.
Launched == InProgress \ {"template_create", "template_build_wait", "dax_find", "dax_ensure",
                          "create_request", "template_delete"}
AfterPause == {"resume_request", "resume_wait_active", "verify_state", "check_preview_url",
               "finalize"}

\* A run never outlives its task timeout, and the sweep's clock is never ahead.
OnTime == /\ \A r \in Run : pc[r] \in InProgress =>
                            started[r] <= now /\ now <= started[r] + RunBound
          /\ clock <= now

\* A template run has no template before its request, and none older than itself.
OwnTemplate ==
  \A r \in Template :
     /\ pc[r] \in {"absent", "idle", "template_create"} => tpl[r].status = "none"
     /\ pc[r] \in InProgress /\ tpl[r].status # "none" => started[r] <= tpl[r].created

\* As long as nothing failed, a run knows all that it has made.
KnowsOwn ==
  \A r \in Run : pc[r] \in InProgress /\ ~err[r] =>
     /\ r \in Template /\ pc[r] # "template_create" => built[r] /\ tpl[r].status # "none"
     /\ pc[r] \in Launched => sandbox[r]
     /\ pc[r] = "template_delete" => box[r] = "gone"

HasPaused ==
  \A r \in Run : /\ box[r] = "paused" => paused[r]
                 /\ r \in Lifecycle /\ pc[r] \in AfterPause /\ ~err[r] => paused[r]

\* What a dax run found is still that, or a failed template that is gone by now:
\* it goes on to its sandbox only with a template that is ready, and that no other
\* run takes for the failed one it found before (ensureDaxTemplate).
DaxFound ==
  \A r \in Dax :
     /\ found[r].status # "none" => found[r].id \in Version
     /\ found[r].status = "ready" => dax[found[r].id] = "ready"
     /\ found[r].status = "failed" => dax[found[r].id] \in {"failed", "gone"}
     /\ pc[r] \in {"create_request", "create_wait_active", "dax_build"} =>
          found[r].status = "ready"

\* With the types of the variables.
ScenariosInv == /\ TypeOK /\ OnTime /\ OwnTemplate /\ KnowsOwn /\ HasPaused /\ DaxFound
                /\ SuccessMeansDone
=============================================================================
