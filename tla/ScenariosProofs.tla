--------------------------- MODULE ScenariosProofs ---------------------------
(***************************************************************************)
(* Proofs about the lifecycle, template and dax scenarios and the sweep of  *)
(* templates, for any set of runs happening together and any TTLs.          *)
(***************************************************************************)
EXTENDS Scenarios, FiniteSetTheorems, TLAPS

\* What the constants are.
LEMMA Parameters ==
  /\ Lifecycle \subseteq Run /\ Template \subseteq Run /\ Dax \subseteq Run
  /\ \A r \in Template : r \notin Lifecycle /\ r \notin Dax
  /\ \A r \in Dax : r \notin Lifecycle
  /\ ResourceTTL \in Nat /\ RetainTTL \in Nat /\ RunBound \in Nat /\ MaxTime \in Nat
  /\ MaxVersions \in Nat \ {0} /\ PageLimit \in Nat \ {0}
  /\ RunBound < ResourceTTL /\ IsFiniteSet(Template) /\ Retains \subseteq BOOLEAN
BY ScenariosAssumption DEF Run

-----------------------------------------------------------------------------
(* Types *)

\* Nothing has begun.
LEMMA TypingInit == Init => TypeOK
<1> SUFFICES ASSUME Init
             PROVE  TypeOK
  OBVIOUS
<1> USE Parameters
<1>1. /\ now \in Time /\ Retain \in BOOLEAN
      /\ tpl \in [Template -> [status : Live \cup {"none", "gone"}, created : Time]]
      /\ dax \in [Version -> Live \cup {"none", "gone"}]
      /\ paused \in [Run -> BOOLEAN]
  BY DEF Init, Time
<1>2. box \in [Run -> {"none", "starting", "active", "pausing", "paused", "resuming", "gone"}]
  BY DEF Init
<1>3. pc \in [Run -> InProgress \cup {"absent", "idle", "done", "killed"}]
  BY DEF Init
<1>4. /\ started \in [Run -> Time] /\ err \in [Run -> BOOLEAN]
      /\ built \in [Template -> BOOLEAN] /\ sandbox \in [Run -> BOOLEAN]
      /\ found \in [Dax -> [id : 0..MaxVersions, status : Live \cup {"none"}]]
  BY DEF Init, Time, NotFound
<1>5. sweep \in {"absent", "idle", "sandboxes", "templates"} /\ clock \in Time
  BY DEF Init, Time
<1>6. listing \subseteq Template /\ Cardinality(listing) <= PageLimit
  BY FS_EmptySet DEF Init
<1> QED
  BY <1>1, <1>2, <1>3, <1>4, <1>5, <1>6 DEF TypeOK

\* A set of steps does not change the types of what the janitor and the platform keep.
LEMMA JanitorTyping ==
  ASSUME TypeOK, Janitor
  PROVE  TypeOK'
<1> USE Parameters DEF env, platform, runs, result
<1>1. CASE ReadClock
  BY <1>1 DEF ReadClock, TypeOK, Time
<1>2. CASE ListTemplates
  <2>1. PICK page \in SUBSET Prefixed :
           /\ Cardinality(page) = PageLimit \/ (Cardinality(page) < PageLimit /\ page = Prefixed)
           /\ listing' = page
    BY <1>2 DEF ListTemplates
  <2>2. listing' \subseteq Template /\ Cardinality(listing') <= PageLimit
    <3>1. listing' \subseteq Template
      BY <2>1 DEF Prefixed
    <3>2. Cardinality(listing') \in Nat
      BY <3>1, FS_Subset, FS_CardinalityType
    <3> QED
      BY <2>1, <3>1, <3>2
  <2> QED
    BY <1>2, <2>2 DEF ListTemplates, TypeOK
<1>3. CASE EndSweep
  <2>1. listing' \subseteq Template /\ Cardinality(listing') <= PageLimit /\ clock' \in Time
    BY <1>3, FS_EmptySet DEF EndSweep, Time
  <2> QED
    BY <1>3, <2>1 DEF EndSweep, TypeOK
<1>4. ASSUME NEW r \in Template, Sweep(r) \/ SweepFails(r)
      PROVE  TypeOK'
  <2>1. listing' \subseteq listing /\ listing \subseteq Template /\ IsFiniteSet(listing)
        /\ Cardinality(listing) <= PageLimit
    BY <1>4, FS_Subset DEF Sweep, SweepFails, TypeOK
  <2>2. Cardinality(listing') <= Cardinality(listing) /\ Cardinality(listing') \in Nat
        /\ Cardinality(listing) \in Nat
    BY <2>1, FS_Subset, FS_CardinalityType
  <2>3. listing' \subseteq Template /\ Cardinality(listing') <= PageLimit
    BY <2>1, <2>2
  <2>4. tpl' \in [Template -> [status : Live \cup {"none", "gone"}, created : Time]]
    BY <1>4 DEF Sweep, SweepFails, DeletesTemplate, TypeOK
  <2> QED
    BY <1>4, <2>3, <2>4 DEF Sweep, SweepFails, TypeOK
<1> QED
  BY <1>1, <1>2, <1>3, <1>4 DEF Janitor

\* A run that ends forgets what it knew.
LEMMA ExitTyping ==
  ASSUME TypeOK, NEW r \in Run, NEW l \in {"done", "killed"}, Exit(r, l)
  PROVE  /\ pc' \in [Run -> InProgress \cup {"absent", "idle", "done", "killed"}]
         /\ started' \in [Run -> Time] /\ sandbox' \in [Run -> BOOLEAN]
         /\ built' \in [Template -> BOOLEAN]
         /\ found' \in [Dax -> [id : 0..MaxVersions, status : Live \cup {"none"}]]
<1> USE Parameters
<1>1. 0 \in Time /\ NotFound \in [id : 0..MaxVersions, status : Live \cup {"none"}]
  BY DEF Time, NotFound
<1>2. /\ pc' \in [Run -> InProgress \cup {"absent", "idle", "done", "killed"}]
      /\ started' \in [Run -> Time] /\ sandbox' \in [Run -> BOOLEAN]
  BY <1>1 DEF Exit, Goto, TypeOK
<1>3. built' \in [Template -> BOOLEAN]
  BY DEF Exit, TypeOK
<1>4. found' \in [Dax -> [id : 0..MaxVersions, status : Live \cup {"none"}]]
  <2>1. found' = [found EXCEPT ![r] = NotFound] \/ found' = found
    BY DEF Exit
  <2>2. found \in [Dax -> [id : 0..MaxVersions, status : Live \cup {"none"}]]
    BY DEF TypeOK
  <2> QED
    BY <1>1, <2>1, <2>2, Zenon
<1> QED
  BY <1>2, <1>3, <1>4

\* Waiting for a status keeps the types.
LEMMA AwaitsTyping ==
  ASSUME TypeOK, NEW r \in Run, NEW step, NEW want, NEW next \in InProgress,
         Awaits(r, step, want, next)
  PROVE  TypeOK'
BY DEF Awaits, Proceed, Abort, Fails, Goto, InProgress, TypeOK, env, platform, janitor

\* So does a request that changes the status.
LEMMA RequestsTyping ==
  ASSUME TypeOK, NEW r \in Run, NEW step, NEW from, NEW next \in InProgress,
         NEW to \in {"pausing", "resuming"}, Requests(r, step, from, to, next)
  PROVE  TypeOK'
<1>1. box' \in [Run -> {"none", "starting", "active", "pausing", "paused", "resuming", "gone"}]
  BY DEF Requests, TypeOK
<1>2. /\ pc' \in [Run -> InProgress \cup {"absent", "idle", "done", "killed"}]
      /\ err' \in [Run -> BOOLEAN]
  BY DEF Requests, Proceed, Abort, Fails, Goto, InProgress, TypeOK
<1> QED
  BY <1>1, <1>2 DEF Requests, TypeOK, env, janitor

\* So does any step of a run.
LEMMA RunTyping ==
  ASSUME TypeOK, NEW r \in Run, Start(r) \/ RunStep(r) \/ Kill(r) \/ BoxSettles(r)
  PROVE  TypeOK'
<1> USE Parameters DEF env, platform, result, janitor
<1>1. CASE Start(r)
  <2>1. First(r) \in InProgress
    BY DEF First, InProgress, Body
  <2> QED
    BY <1>1, <2>1 DEF Start, Goto, TypeOK
<1>2. CASE r \in Template /\ CreateTemplate(r)
  <2>1. \A s \in Live : [status |-> s, created |-> now] \in
                          [status : Live \cup {"none", "gone"}, created : Time]
    BY DEF TypeOK
  <2>2. tpl' \in [Template -> [status : Live \cup {"none", "gone"}, created : Time]]
    BY <1>2, <2>1 DEF CreateTemplate, Builds, Live, TypeOK
  <2> QED
    BY <1>2, <2>2 DEF CreateTemplate, Proceed, Abort, Fails, Goto, TypeOK, InProgress, Body
<1>3. CASE WaitForBuild(r)
  BY <1>3 DEF WaitForBuild, Proceed, Abort, Fails, Goto, TypeOK, InProgress, Body
<1>4. CASE r \in Dax /\ FindTemplate(r)
  <2>1. found' \in [Dax -> [id : 0..MaxVersions, status : Live \cup {"none"}]]
    <3>1. NotFound \in [id : 0..MaxVersions, status : Live \cup {"none"}]
      BY DEF NotFound
    <3>2. \A v \in DaxLive : [id |-> v, status |-> dax[v]] \in
                               [id : 0..MaxVersions, status : Live \cup {"none"}]
      BY DEF DaxLive, Version
    <3> QED
      BY <1>4, <3>1, <3>2 DEF FindTemplate, TypeOK
  <2> QED
    BY <1>4, <2>1 DEF FindTemplate, Proceed, Abort, Fails, Goto, TypeOK, InProgress, Body
<1>5. CASE r \in Dax /\ EnsureTemplate(r)
  <2>1. dax' \in [Version -> Live \cup {"none", "gone"}]
    BY <1>5 DEF EnsureTemplate, BuildsDax, DeleteFound, Live, TypeOK
  <2> QED
    BY <1>5, <2>1 DEF EnsureTemplate, Proceed, Abort, Fails, Goto, TypeOK, InProgress, Body
<1>6. CASE CreateSandbox(r)
  BY <1>6 DEF CreateSandbox, Becomes, Proceed, Abort, Fails, Goto, TypeOK, InProgress, Body
<1>7. CASE \/ WaitForStatus(r) \/ SeedState(r) \/ VerifyState(r) \/ CheckPreview(r)
           \/ VerifyBuildArtifact(r) \/ DaxBuild(r)
  <2>1. /\ AfterActive(r) \in InProgress /\ "resume_request" \in InProgress
        /\ "verify_state" \in InProgress /\ "pause_request" \in InProgress
        /\ "check_preview_url" \in InProgress /\ "finalize" \in InProgress
    BY DEF AfterActive, InProgress, Body
  <2> QED
    BY <1>7, <2>1, AwaitsTyping
       DEF WaitForStatus, SeedState, VerifyState, CheckPreview, VerifyBuildArtifact, DaxBuild
<1>8. CASE Pause(r) \/ Resume(r)
  <2>1. "pause_wait_paused" \in InProgress /\ "resume_wait_active" \in InProgress
    BY DEF InProgress, Body
  <2> QED
    BY <1>8, <2>1, RequestsTyping DEF Pause, Resume
<1>9. CASE Finalize(r)
  <2>1. box' \in [Run -> {"none", "starting", "active", "pausing", "paused", "resuming", "gone"}]
        /\ err' \in [Run -> BOOLEAN]
    BY <1>9 DEF Finalize, Becomes, Fails, TypeOK
  <2>2. /\ pc' \in [Run -> InProgress \cup {"absent", "idle", "done", "killed"}]
        /\ started' \in [Run -> Time] /\ sandbox' \in [Run -> BOOLEAN]
        /\ built' \in [Template -> BOOLEAN]
        /\ found' \in [Dax -> [id : 0..MaxVersions, status : Live \cup {"none"}]]
    <3>1. CASE r \in Template
      BY <1>9, <3>1 DEF Finalize, Goto, TypeOK, InProgress
    <3>2. CASE r \notin Template
      BY <1>9, <3>2, ExitTyping DEF Finalize
    <3> QED
      BY <3>1, <3>2
  <2> QED
    BY <1>9, <2>1, <2>2 DEF Finalize, TypeOK
<1>10. CASE r \in Template /\ DeleteTemplate(r)
  <2>1. /\ tpl' \in [Template -> [status : Live \cup {"none", "gone"}, created : Time]]
        /\ err' \in [Run -> BOOLEAN]
    <3>1. DeletesTemplate(r) \/ UNCHANGED tpl
      BY <1>10 DEF DeleteTemplate, DeleteFails
    <3>2. Fails(r) \/ UNCHANGED err
      BY <1>10 DEF DeleteTemplate, DeleteFails
    <3>3. tpl' \in [Template -> [status : Live \cup {"none", "gone"}, created : Time]]
      BY <1>10, <3>1 DEF DeletesTemplate, TypeOK
    <3> QED
      BY <3>2, <3>3 DEF Fails, TypeOK
  <2> QED
    BY <1>10, <2>1, ExitTyping DEF DeleteTemplate, TypeOK
<1>11. CASE Kill(r)
  BY <1>11, ExitTyping DEF Kill, TypeOK
<1>12. CASE BoxSettles(r)
  <2>1. /\ box' \in [Run -> {"none", "starting", "active", "pausing", "paused", "resuming", "gone"}]
        /\ paused' \in [Run -> BOOLEAN]
    BY <1>12 DEF BoxSettles, Becomes, Settled, TypeOK
  <2> QED
    BY <1>12, <2>1 DEF BoxSettles, TypeOK, runs
<1> QED
  BY <1>1, <1>2, <1>3, <1>4, <1>5, <1>6, <1>7, <1>8, <1>9, <1>10, <1>11, <1>12
     DEF RunStep, RunTemplate, RunDax, RunLifecycle

\* So does any step.
LEMMA TypingStep ==
  ASSUME TypeOK, [Next]_vars
  PROVE  TypeOK'
<1>1. CASE \E r \in Run : Start(r) \/ RunStep(r) \/ Kill(r) \/ BoxSettles(r)
  BY <1>1, RunTyping
<1>2. CASE Janitor
  BY <1>2, JanitorTyping
<1>3. CASE BuildEnds
  BY <1>3 DEF BuildEnds, TypeOK, Live, env, runs, result, janitor
<1>4. CASE Tick
  BY <1>4, Parameters DEF Tick, TypeOK, Time, platform, runs, result, janitor
<1>5. CASE UNCHANGED vars
  BY <1>5 DEF vars, TypeOK, env, platform, runs, result, janitor
<1> QED
  BY <1>1, <1>2, <1>3, <1>4, <1>5 DEF Next

-----------------------------------------------------------------------------
(* Runs do not touch one another *)

\* What the invariant says of one run.
RunInOrder(r) ==
  /\ pc[r] \in InProgress => started[r] <= now /\ now <= started[r] + RunBound
  /\ r \in Template =>
       /\ pc[r] \in {"absent", "idle", "template_create"} => tpl[r].status = "none"
       /\ pc[r] \in InProgress /\ tpl[r].status # "none" => started[r] <= tpl[r].created
  /\ pc[r] \in InProgress /\ ~err[r] =>
       /\ r \in Template /\ pc[r] # "template_create" => built[r] /\ tpl[r].status # "none"
       /\ pc[r] \in Launched => sandbox[r]
       /\ pc[r] = "template_delete" => box[r] = "gone"
  /\ box[r] = "paused" => paused[r]
  /\ r \in Lifecycle /\ pc[r] \in AfterPause /\ ~err[r] => paused[r]
  /\ pc[r] = "done" /\ ~err[r] => /\ box[r] = "gone"
                                  /\ r \in Template => tpl[r].status = "gone"
                                  /\ r \in Lifecycle => paused[r]

\* The invariant, run by run.
LEMMA InvariantByRun ==
  ScenariosInv <=> TypeOK /\ clock <= now /\ (\A r \in Run : RunInOrder(r)) /\ DaxFound
<1>1. Template \subseteq Run
  BY Parameters
<1>2. ScenariosInv => TypeOK /\ clock <= now /\ (\A r \in Run : RunInOrder(r)) /\ DaxFound
  BY DEF ScenariosInv, OnTime, OwnTemplate, KnowsOwn, HasPaused, SuccessMeansDone, RunInOrder
<1>3. ASSUME TypeOK, clock <= now, \A r \in Run : RunInOrder(r), DaxFound
      PROVE  ScenariosInv
  <2>1. OnTime /\ OwnTemplate
    BY <1>1, <1>3 DEF OnTime, OwnTemplate, RunInOrder
  <2>2. KnowsOwn
    BY <1>3 DEF KnowsOwn, RunInOrder
  <2>3. HasPaused /\ SuccessMeansDone
    BY <1>3 DEF HasPaused, SuccessMeansDone, RunInOrder
  <2> QED
    BY <1>3, <2>1, <2>2, <2>3 DEF ScenariosInv
<1> QED
  BY <1>2, <1>3

\* Nothing of the run q changes.
Still(q) ==
  /\ pc'[q] = pc[q] /\ started'[q] = started[q] /\ err'[q] = err[q]
  /\ box'[q] = box[q] /\ paused'[q] = paused[q] /\ sandbox'[q] = sandbox[q]
  /\ q \in Template => tpl'[q] = tpl[q] /\ built'[q] = built[q]
  /\ q \in Dax => found'[q] = found[q]

\* A run whose state does not change stays in order.
LEMMA StillInOrder ==
  ASSUME NEW q \in Run, RunInOrder(q), Still(q), UNCHANGED now
  PROVE  RunInOrder(q)'
BY DEF RunInOrder, Still

\* A step of a run changes no other run.
LEMMA OthersStill ==
  ASSUME TypeOK, NEW r \in Run, Start(r) \/ RunStep(r) \/ Kill(r) \/ BoxSettles(r)
  PROVE  (\A q \in Run \ {r} : Still(q)) /\ UNCHANGED <<env, janitor>>
<1> USE DEF Still, Goto, env, platform, result, janitor, Proceed, Abort, Fails, Becomes
<1>t. /\ pc \in [Run -> InProgress \cup {"absent", "idle", "done", "killed"}]
      /\ started \in [Run -> Time] /\ err \in [Run -> BOOLEAN] /\ paused \in [Run -> BOOLEAN]
      /\ box \in [Run -> {"none", "starting", "active", "pausing", "paused", "resuming", "gone"}]
      /\ built \in [Template -> BOOLEAN] /\ sandbox \in [Run -> BOOLEAN]
      /\ tpl \in [Template -> [status : Live \cup {"none", "gone"}, created : Time]]
      /\ found \in [Dax -> [id : 0..MaxVersions, status : Live \cup {"none"}]]
  BY DEF TypeOK
<1>0. ASSUME NEW l, Exit(r, l)
      PROVE  \A q \in Run \ {r} : /\ pc'[q] = pc[q] /\ started'[q] = started[q]
                                  /\ sandbox'[q] = sandbox[q]
                                  /\ q \in Template => built'[q] = built[q]
                                  /\ q \in Dax => found'[q] = found[q]
  BY <1>t, <1>0 DEF Exit
<1>1. CASE Start(r)
  BY <1>1, <1>t DEF Start
<1>2. CASE CreateTemplate(r)
  BY <1>2, <1>t DEF CreateTemplate, Builds
<1>3. CASE WaitForBuild(r)
  BY <1>3, <1>t DEF WaitForBuild
<1>4. CASE FindTemplate(r)
  BY <1>4, <1>t DEF FindTemplate
<1>5. CASE EnsureTemplate(r)
  BY <1>5, <1>t DEF EnsureTemplate
<1>6. CASE CreateSandbox(r)
  BY <1>6, <1>t DEF CreateSandbox
<1>7. CASE \/ WaitForStatus(r) \/ SeedState(r) \/ VerifyState(r) \/ CheckPreview(r)
           \/ VerifyBuildArtifact(r) \/ DaxBuild(r)
  <2>1. ASSUME NEW step, NEW want, NEW next, Awaits(r, step, want, next)
        PROVE  (\A q \in Run \ {r} : Still(q)) /\ UNCHANGED <<env, janitor>>
    BY <2>1, <1>t DEF Awaits
  <2> QED
    BY <1>7, <2>1, Zenon
       DEF WaitForStatus, SeedState, VerifyState, CheckPreview, VerifyBuildArtifact, DaxBuild
<1>8. CASE Pause(r) \/ Resume(r)
  BY <1>8, <1>t DEF Pause, Resume, Requests
<1>9. CASE Finalize(r)
  <2>1. /\ \A q \in Run \ {r} : box'[q] = box[q] /\ err'[q] = err[q]
        /\ UNCHANGED <<env, tpl, dax, paused, janitor>>
    BY <1>9, <1>t DEF Finalize
  <2>2. CASE r \in Template
    BY <1>9, <1>t, <2>1, <2>2 DEF Finalize
  <2>3. CASE r \notin Template
    BY <1>9, <1>0, <2>1, <2>3 DEF Finalize
  <2> QED
    BY <2>2, <2>3
<1>10. CASE DeleteTemplate(r)
  <2>1. /\ (\A q \in Template : q # r => tpl'[q] = tpl[q])
        /\ \A q \in Run \ {r} : err'[q] = err[q]
    BY <1>10, <1>t DEF DeleteTemplate, DeleteFails, DeletesTemplate
  <2> QED
    BY <1>10, <1>0, <2>1 DEF DeleteTemplate
<1>11. CASE Kill(r)
  BY <1>11, <1>0, <1>t DEF Kill
<1>12. CASE BoxSettles(r)
  BY <1>12, <1>t DEF BoxSettles, runs
<1> QED
  BY <1>1, <1>2, <1>3, <1>4, <1>5, <1>6, <1>7, <1>8, <1>9, <1>10, <1>11, <1>12
     DEF RunStep, RunTemplate, RunDax, RunLifecycle

-----------------------------------------------------------------------------
(* The steps of a run *)

\* What is known of a run.
LEMMA TypeFacts ==
  ASSUME TypeOK, NEW r \in Run
  PROVE  /\ now \in Nat /\ started[r] \in Nat /\ err[r] \in BOOLEAN /\ clock \in Nat
         /\ paused[r] \in BOOLEAN /\ sandbox[r] \in BOOLEAN
         /\ r \in Template => tpl[r].created \in Nat /\ built[r] \in BOOLEAN
         /\ RunBound \in Nat
BY Parameters DEF TypeOK, Time

\* A failed step leaves a run to its cleanup, in order.
LEMMA AbortInOrder ==
  ASSUME TypeOK, NEW r \in Run, RunInOrder(r), pc[r] \in Body, Abort(r),
         UNCHANGED <<now, started>>, box'[r] = "paused" => paused'[r],
         r \in Template => \/ tpl'[r] = tpl[r]
                           \/ tpl'[r].created = now
  PROVE  RunInOrder(r)'
<1>1. pc'[r] = "finalize" /\ err'[r] = TRUE /\ pc[r] \in InProgress
  BY DEF Abort, Fails, Goto, TypeOK, InProgress
<1>2. /\ "finalize" \notin {"absent", "idle", "template_create"} /\ "finalize" # "done"
  OBVIOUS
<1>3. started'[r] <= now' /\ now' <= started'[r] + RunBound
  BY <1>1 DEF RunInOrder
<1>4. r \in Template /\ tpl'[r].status # "none" => started'[r] <= tpl'[r].created
  BY <1>1, <1>3, TypeFacts DEF RunInOrder
<1> QED
  BY <1>1, <1>2, <1>3, <1>4 DEF RunInOrder

\* A run begins.
LEMMA StartInOrder ==
  ASSUME TypeOK, NEW r \in Run, RunInOrder(r), Start(r)
  PROVE  RunInOrder(r)'
<1>1. /\ pc[r] = "idle" /\ pc'[r] = First(r) /\ started'[r] = now
      /\ UNCHANGED <<now, tpl, box, paused, err, built, sandbox>>
  BY DEF Start, Goto, TypeOK, env, platform, result
<1>2. /\ r \in Template => First(r) = "template_create"
      /\ First(r) \in {"template_create", "dax_find", "create_request"}
  <2>1. CASE r \in Template
    BY <2>1, Parameters DEF First
  <2>2. CASE r \in Dax
    BY <2>2, Parameters DEF First
  <2>3. CASE r \notin Template /\ r \notin Dax
    BY <2>3 DEF First
  <2> QED
    BY <2>1, <2>2, <2>3
<1> QED
  BY <1>1, <1>2, TypeFacts DEF RunInOrder, Launched, AfterPause

\* A template run builds its template.
LEMMA TemplateInOrder ==
  ASSUME TypeOK, NEW r \in Run, RunInOrder(r), r \in Template, CreateTemplate(r) \/ WaitForBuild(r)
  PROVE  RunInOrder(r)'
<1> USE TypeFacts DEF env, platform, result
<1>0. r \notin Lifecycle
  BY Parameters
<1>1. CASE CreateTemplate(r)
  <2>1. /\ pc[r] = "template_create"
        /\ UNCHANGED <<now, dax, box, paused, started, sandbox>>
        /\ tpl' = tpl \/ Builds(r)
    BY <1>1 DEF CreateTemplate
  <2>2. tpl'[r] = tpl[r] \/ (tpl'[r].created = now /\ tpl'[r].status = "building")
    BY <2>1 DEF Builds, TypeOK
  <2>3. CASE Abort(r)
    BY <2>1, <2>2, <2>3, AbortInOrder DEF Body, RunInOrder
  <2>4. CASE Builds(r) /\ built' = [built EXCEPT ![r] = TRUE] /\ Proceed(r, "template_build_wait")
    <3>1. /\ pc'[r] = "template_build_wait" /\ err'[r] = err[r] /\ built'[r] = TRUE
          /\ tpl'[r].created = now /\ tpl'[r].status = "building"
      BY <2>4 DEF Builds, Proceed, Goto, TypeOK
    <3> QED
      BY <1>0, <2>1, <3>1 DEF RunInOrder, Launched, InProgress, Body
  <2> QED
    BY <1>1, <2>3, <2>4 DEF CreateTemplate
<1>2. CASE WaitForBuild(r)
  <2>1. /\ pc[r] = "template_build_wait"
        /\ UNCHANGED <<now, tpl, box, paused, started, built, sandbox>>
    BY <1>2 DEF WaitForBuild
  <2>2. CASE Abort(r)
    BY <2>1, <2>2, AbortInOrder DEF Body, RunInOrder
  <2>3. CASE Proceed(r, "create_request")
    <3>1. pc'[r] = "create_request" /\ err'[r] = err[r]
      BY <2>3 DEF Proceed, Goto, TypeOK
    <3> QED
      BY <1>0, <2>1, <3>1 DEF RunInOrder, Launched, InProgress, Body
  <2> QED
    BY <1>2, <2>2, <2>3 DEF WaitForBuild
<1> QED
  BY <1>1, <1>2

\* A dax run looks for a template that is ready.
LEMMA DaxInOrder ==
  ASSUME TypeOK, NEW r \in Run, RunInOrder(r), r \in Dax, FindTemplate(r) \/ EnsureTemplate(r)
  PROVE  RunInOrder(r)'
<1> USE TypeFacts
<1>0. r \notin Lifecycle /\ r \notin Template
  BY Parameters
<1>1. /\ pc[r] \in {"dax_find", "dax_ensure"}
      /\ UNCHANGED <<now, box, paused, started, sandbox>>
      /\ \/ Abort(r)
         \/ \E l \in {"dax_find", "dax_ensure", "create_request"} : Proceed(r, l)
  BY DEF FindTemplate, EnsureTemplate, env, platform
<1>2. CASE Abort(r)
  BY <1>0, <1>1, <1>2, AbortInOrder DEF Body, RunInOrder
<1>3. CASE \E l \in {"dax_find", "dax_ensure", "create_request"} : Proceed(r, l)
  <2>1. pc'[r] \in {"dax_find", "dax_ensure", "create_request"} /\ err'[r] = err[r]
    BY <1>3 DEF Proceed, Goto, TypeOK
  <2> QED
    BY <1>0, <1>1, <2>1 DEF RunInOrder, Launched, InProgress, Body
<1> QED
  BY <1>1, <1>2, <1>3

\* A sandbox is created.
LEMMA CreateInOrder ==
  ASSUME TypeOK, NEW r \in Run, RunInOrder(r), CreateSandbox(r)
  PROVE  RunInOrder(r)'
<1> USE TypeFacts
<1>1. /\ pc[r] = "create_request" /\ UNCHANGED <<now, tpl, paused, started, built>>
      /\ box' = box \/ Becomes(r, "starting")
  BY DEF CreateSandbox, env
<1>2. box'[r] = box[r] \/ box'[r] = "starting"
  BY <1>1 DEF Becomes, TypeOK
<1>3. CASE Abort(r)
  BY <1>1, <1>2, <1>3, AbortInOrder DEF Body, RunInOrder
<1>4. CASE sandbox' = [sandbox EXCEPT ![r] = TRUE] /\ Proceed(r, "create_wait_active")
  <2>1. pc'[r] = "create_wait_active" /\ err'[r] = err[r] /\ sandbox'[r] = TRUE
    BY <1>4 DEF Proceed, Goto, TypeOK
  <2> QED
    BY <1>1, <1>2, <2>1 DEF RunInOrder, Launched, InProgress, Body, AfterPause
<1> QED
  BY <1>3, <1>4 DEF CreateSandbox

\* Waiting for the sandbox, working in it, pausing it and resuming it.
LEMMA ExerciseInOrder ==
  ASSUME TypeOK, NEW r \in Run, RunInOrder(r),
         \/ WaitForStatus(r) \/ RunLifecycle(r)
         \/ r \in Template /\ VerifyBuildArtifact(r)
         \/ r \in Dax /\ DaxBuild(r)
  PROVE  RunInOrder(r)'
<1> USE TypeFacts DEF Launched, InProgress, Body, AfterPause
<1>1. /\ pc[r] \in Body /\ pc[r] \in Launched
      /\ UNCHANGED <<now, tpl, paused, started, built, sandbox>>
      /\ box'[r] = "paused" => box[r] = "paused"
      /\ pc[r] # "template_create"
  BY DEF WaitForStatus, RunLifecycle, VerifyBuildArtifact, DaxBuild, SeedState, Pause, Resume,
         VerifyState, CheckPreview, Awaits, Requests, TypeOK, env, platform
<1>2. \/ Abort(r)
      \/ \E l \in Launched : /\ Proceed(r, l)
                             /\ r \in Lifecycle /\ l \in AfterPause =>
                                  pc[r] \in AfterPause \/ box[r] = "paused"
  <2>0. /\ AfterActive(r) \in Launched \ AfterPause
        /\ r \in Template \/ r \in Dax => r \notin Lifecycle
    BY Parameters DEF AfterActive
  <2>1. CASE WaitForStatus(r)
    BY <2>0, <2>1 DEF WaitForStatus, Awaits
  <2>2. CASE RunLifecycle(r)
    BY <2>2 DEF RunLifecycle, SeedState, Pause, Resume, VerifyState, CheckPreview, Awaits,
       Requests
  <2>3. CASE (r \in Template /\ VerifyBuildArtifact(r)) \/ (r \in Dax /\ DaxBuild(r))
    BY <2>0, <2>3 DEF VerifyBuildArtifact, DaxBuild, Awaits
  <2> QED
    BY <2>1, <2>2, <2>3
<1>3. CASE Abort(r)
  BY <1>1, <1>3, AbortInOrder DEF RunInOrder
<1>4. ASSUME NEW l \in Launched, Proceed(r, l),
             r \in Lifecycle /\ l \in AfterPause => pc[r] \in AfterPause \/ box[r] = "paused"
      PROVE  RunInOrder(r)'
  <2>1. pc'[r] = l /\ err'[r] = err[r]
    BY <1>4 DEF Proceed, Goto, TypeOK
  <2> QED
    BY <1>1, <1>4, <2>1 DEF RunInOrder
<1> QED
  BY <1>2, <1>3, <1>4

\* The sandbox is deleted, or kept for debugging.
LEMMA FinalizeInOrder ==
  ASSUME TypeOK, NEW r \in Run, RunInOrder(r), Finalize(r)
  PROVE  RunInOrder(r)'
<1> USE TypeFacts
<1>1. /\ pc[r] = "finalize" /\ UNCHANGED <<now, tpl, paused>>
      /\ box'[r] = box[r] \/ box'[r] = "gone"
  BY DEF Finalize, Becomes, TypeOK, env
\* Without an error the sandbox has been deleted.
<1>2. /\ err[r] => err'[r]
      /\ ~err'[r] => box'[r] = "gone"
  <2>1. ~err[r] => sandbox[r]
    BY <1>1 DEF RunInOrder, Launched, InProgress
  <2> QED
    BY <2>1 DEF Finalize, Becomes, Fails, TypeOK
<1>3. CASE r \in Template
  <2>1. pc'[r] = "template_delete" /\ UNCHANGED <<started, built>> /\ r \notin Lifecycle
    BY <1>3, Parameters DEF Finalize, Goto, TypeOK
  <2> QED
    BY <1>1, <1>2, <1>3, <2>1 DEF RunInOrder, Launched, InProgress, Body, AfterPause
<1>4. CASE r \notin Template
  <2>1. pc'[r] = "done"
    BY <1>4 DEF Finalize, Exit, Goto, TypeOK
  <2> QED
    BY <1>1, <1>2, <1>4, <2>1 DEF RunInOrder, InProgress, Body, AfterPause
<1> QED
  BY <1>3, <1>4

\* The template goes last.
LEMMA DeleteTemplateInOrder ==
  ASSUME TypeOK, NEW r \in Run, RunInOrder(r), r \in Template, DeleteTemplate(r)
  PROVE  RunInOrder(r)'
<1> USE TypeFacts
<1>1. /\ pc[r] = "template_delete" /\ UNCHANGED <<now, box, paused>> /\ pc'[r] = "done"
      /\ r \notin Lifecycle
  BY Parameters DEF DeleteTemplate, Exit, Goto, TypeOK, env
<1>2. /\ err[r] => err'[r]
      /\ ~err'[r] => tpl'[r].status = "gone"
  <2>1. ~err[r] => built[r] /\ tpl[r].status # "none"
    BY <1>1 DEF RunInOrder, InProgress
  <2>2. CASE (~built[r] \/ (err[r] /\ Retain)) /\ UNCHANGED <<tpl, err>>
    BY <2>1, <2>2
  <2>3. CASE DeletesTemplate(r) /\ UNCHANGED err
    BY <2>1, <2>3 DEF DeletesTemplate, TypeOK
  <2>4. CASE DeleteFails(r)
    BY <2>4 DEF DeleteFails, Fails, TypeOK
  <2> QED
    BY <2>2, <2>3, <2>4 DEF DeleteTemplate
<1> QED
  BY <1>1, <1>2 DEF RunInOrder, InProgress, Body, AfterPause

\* A run is killed.
LEMMA KillInOrder ==
  ASSUME TypeOK, NEW r \in Run, RunInOrder(r), Kill(r)
  PROVE  RunInOrder(r)'
<1>1. /\ pc'[r] = "killed" /\ pc[r] \in InProgress /\ UNCHANGED <<box, paused, tpl>>
  BY DEF Kill, Exit, Goto, TypeOK, platform
<1> QED
  BY <1>1 DEF RunInOrder, InProgress, Body, AfterPause

\* The platform pauses or resumes a sandbox.
LEMMA SettlesInOrder ==
  ASSUME TypeOK, NEW r \in Run, RunInOrder(r), BoxSettles(r)
  PROVE  RunInOrder(r)'
<1>1. /\ UNCHANGED <<now, tpl, pc, started, built, sandbox, err>> /\ pc[r] \in InProgress
      /\ box[r] \in {"starting", "pausing", "resuming"}
      /\ box'[r] = "paused" => box[r] = "pausing"
      /\ paused'[r] = (paused[r] \/ box[r] = "pausing")
  BY DEF BoxSettles, Settled, Becomes, TypeOK, env, runs, result
<1>2. paused[r] \/ box[r] = "pausing" => paused'[r]
  BY <1>1, Zenon
<1> QED
  BY <1>1, <1>2 DEF RunInOrder, InProgress, Body

\* Any step of a run.
LEMMA RunStepInOrder ==
  ASSUME TypeOK, NEW r \in Run, RunInOrder(r), Start(r) \/ RunStep(r) \/ Kill(r) \/ BoxSettles(r)
  PROVE  RunInOrder(r)'
BY StartInOrder, TemplateInOrder, DaxInOrder, CreateInOrder, ExerciseInOrder, FinalizeInOrder,
   DeleteTemplateInOrder, KillInOrder, SettlesInOrder DEF RunStep, RunTemplate, RunDax

-----------------------------------------------------------------------------
(* The steps of the janitor, the builds and the clock *)

\* The janitor, the builds and the clock touch no run's knowledge.
LEMMA SurroundingsInOrder ==
  ASSUME TypeOK, NEW r \in Run, RunInOrder(r), Janitor \/ BuildEnds \/ Tick
  PROVE  RunInOrder(r)'
<1> USE TypeFacts
<1>1. /\ UNCHANGED <<box, paused, runs>>
      /\ now' = now \/ (now' = now + 1 /\ (pc[r] \in InProgress => now < started[r] + RunBound))
  BY DEF Janitor, ReadClock, ListTemplates, EndSweep, Sweep, SweepFails, BuildEnds, Tick, env,
         platform
\* A template that is there is only ever built or deleted.
<1>2. r \in Template =>
        /\ tpl'[r].created = tpl[r].created
        /\ tpl'[r].status = "none" <=> tpl[r].status = "none"
        /\ tpl[r].status = "gone" => tpl'[r].status = "gone"
  <2>1. CASE tpl' = tpl
    BY <2>1
  <2>2. ASSUME NEW q \in Template, DeletesTemplate(q), r \in Template
        PROVE  /\ tpl'[r].created = tpl[r].created
               /\ tpl'[r].status = "none" <=> tpl[r].status = "none"
               /\ tpl[r].status = "gone" => tpl'[r].status = "gone"
    BY <2>2 DEF DeletesTemplate, TypeOK
  <2>3. ASSUME NEW q \in Template, tpl[q].status = "building",
               tpl' = [tpl EXCEPT ![q].status = "ready"], r \in Template
        PROVE  /\ tpl'[r].created = tpl[r].created
               /\ tpl'[r].status = "none" <=> tpl[r].status = "none"
               /\ tpl[r].status = "gone" => tpl'[r].status = "gone"
    BY <2>3 DEF TypeOK
  <2>4. \/ tpl' = tpl
        \/ \E q \in Template : DeletesTemplate(q)
        \/ \E q \in Template : tpl[q].status = "building" /\ tpl' = [tpl EXCEPT ![q].status = "ready"]
    BY DEF Janitor, ReadClock, ListTemplates, EndSweep, Sweep, SweepFails, BuildEnds, Tick,
       platform
  <2> QED
    BY <2>1, <2>2, <2>3, <2>4
<1>3. pc[r] \in InProgress /\ started[r] <= now => started[r] <= now' /\ now' <= started[r] + RunBound
  BY <1>1 DEF RunInOrder
<1> QED
  BY <1>1, <1>2, <1>3 DEF RunInOrder, runs, result

\* The janitor's clock is one that was read.
LEMMA ClockBehind ==
  ASSUME TypeOK, clock <= now, [Next]_vars
  PROVE  clock' <= now'
<1>1. now \in Nat /\ clock \in Nat
  BY DEF TypeOK, Time
<1>2. CASE \E r \in Run : Start(r) \/ RunStep(r) \/ Kill(r) \/ BoxSettles(r)
  <2>1. UNCHANGED <<env, janitor>>
    BY <1>2, OthersStill
  <2> QED
    BY <2>1 DEF env, janitor
<1>3. CASE Janitor \/ BuildEnds \/ Tick \/ UNCHANGED vars
  BY <1>1, <1>3 DEF Janitor, ReadClock, ListTemplates, EndSweep, Sweep, SweepFails,
     BuildEnds, Tick,
                    vars, env, janitor
<1> QED
  BY <1>2, <1>3 DEF Next

-----------------------------------------------------------------------------
(* The template that the dax runs share *)

\* A template that is ready stays so, and a failed one never comes back.
Settles == \A v \in Version : /\ dax[v] = "ready" => dax'[v] = "ready"
                              /\ dax[v] \in {"failed", "gone"} => dax'[v] \in {"failed", "gone"}

\* Only EnsureTemplate and BuildEnds write the shared templates: the former
\* deletes what a run has found failed.
LEMMA DaxSettles ==
  ASSUME TypeOK, DaxFound, [Next]_vars
  PROVE  Settles
<1> USE DEF Settles
<1>1. CASE UNCHANGED dax
  BY <1>1
<1>2. ASSUME NEW r \in Dax, EnsureTemplate(r)
      PROVE  Settles
  <2>1. CASE BuildsDax
    BY <2>1 DEF BuildsDax, TypeOK
  <2>2. CASE found[r].status = "failed" /\ DeleteFound(r)
    <3>1. found[r].id \in Version /\ dax[found[r].id] \in {"failed", "gone"}
      BY <2>2 DEF DaxFound
    <3> QED
      BY <2>2, <3>1 DEF DeleteFound, TypeOK
  <2> QED
    BY <1>1, <1>2, <2>1, <2>2 DEF EnsureTemplate
<1>3. CASE BuildEnds
  BY <1>3 DEF BuildEnds, TypeOK
<1>4. ASSUME NEW r \in Run, Start(r) \/ RunStep(r) \/ Kill(r) \/ BoxSettles(r)
      PROVE  Settles
  <2>1. \/ UNCHANGED dax
        \/ r \in Dax /\ EnsureTemplate(r)
    BY <1>4 DEF Start, RunStep, RunTemplate, RunDax, RunLifecycle, CreateTemplate,
       WaitForBuild,
       VerifyBuildArtifact, DeleteTemplate, FindTemplate, DaxBuild, SeedState, Pause, Resume,
       VerifyState, CheckPreview, CreateSandbox, WaitForStatus, Finalize, Kill, BoxSettles,
       Awaits, Requests, platform
  <2> QED
    BY <1>1, <1>2, <2>1
<1>5. CASE Janitor \/ Tick \/ UNCHANGED vars
  BY <1>1, <1>5 DEF Janitor, ReadClock, ListTemplates, EndSweep, Sweep, SweepFails, Tick,
     vars,
                    platform
<1> QED
  BY <1>3, <1>4, <1>5 DEF Next

\* What DaxFound says of one run.
FoundInOrder(r) ==
  /\ found[r].status # "none" => found[r].id \in Version
  /\ found[r].status = "ready" => dax[found[r].id] = "ready"
  /\ found[r].status = "failed" => dax[found[r].id] \in {"failed", "gone"}
  /\ pc[r] \in {"create_request", "create_wait_active", "dax_build"} => found[r].status = "ready"

\* What a run has found stays true while it does nothing.
LEMMA FoundStays ==
  ASSUME NEW q \in Dax, FoundInOrder(q), Settles, found'[q] = found[q],
         pc'[q] \in {"create_request", "create_wait_active", "dax_build"} =>
            found[q].status = "ready"
  PROVE  FoundInOrder(q)'
BY DEF FoundInOrder, Settles

\* A dax run's own steps keep it on a template that is ready.
LEMMA RunFound ==
  ASSUME TypeOK, NEW r \in Dax, FoundInOrder(r), Settles,
         Start(r) \/ RunStep(r) \/ Kill(r) \/ BoxSettles(r)
  PROVE  FoundInOrder(r)'
<1> DEFINE Needs == {"create_request", "create_wait_active", "dax_build"}
<1> USE DEF Goto, Proceed, Abort
<1>0. /\ r \in Run /\ r \notin Template /\ r \notin Lifecycle
      /\ pc \in [Run -> InProgress \cup {"absent", "idle", "done", "killed"}]
      /\ found \in [Dax -> [id : 0..MaxVersions, status : Live \cup {"none"}]]
  BY Parameters DEF TypeOK
<1>1. CASE Start(r)
  <2>1. First(r) = "dax_find"
    BY <1>0 DEF First
  <2>2. found' = found /\ pc'[r] = "dax_find"
    BY <1>0, <1>1, <2>1 DEF Start
  <2> QED
    BY <2>2, FoundStays
<1>2. CASE FindTemplate(r)
  <2>1. pc'[r] \in {"dax_ensure", "finalize"} /\ dax' = dax
    BY <1>0, <1>2 DEF FindTemplate, platform
  <2>2. CASE found' = found
    BY <2>1, <2>2, FoundStays
  <2>3. CASE found' = [found EXCEPT ![r] = NotFound]
    <3>1. found'[r].status = "none"
      BY <1>0, <2>3 DEF NotFound
    <3> QED
      BY <2>1, <3>1 DEF FoundInOrder
  <2>4. ASSUME NEW v \in DaxLive, found' = [found EXCEPT ![r] = [id |-> v, status |-> dax[v]]]
        PROVE  FoundInOrder(r)'
    <3>1. found'[r].id = v /\ found'[r].status = dax[v] /\ v \in Version
      BY <1>0, <2>4 DEF DaxLive
    <3> QED
      BY <2>1, <3>1 DEF FoundInOrder
  <2> QED
    BY <1>2, <2>2, <2>3, <2>4 DEF FindTemplate
<1>3. CASE EnsureTemplate(r)
  <2>1. found' = found /\ (pc'[r] \in Needs => found[r].status = "ready")
    BY <1>0, <1>3 DEF EnsureTemplate
  <2> QED
    BY <2>1, FoundStays
<1>4. CASE CreateSandbox(r) \/ WaitForStatus(r) \/ DaxBuild(r)
  <2>1. AfterActive(r) = "dax_build"
    BY <1>0 DEF AfterActive
  <2>2. /\ found' = found
        /\ \/ pc[r] \in {"create_request", "create_wait_active"}
           \/ pc'[r] \notin Needs
    BY <1>0, <1>4, <2>1 DEF CreateSandbox, WaitForStatus, DaxBuild, Awaits
  <2>3. pc'[r] \in Needs => found[r].status = "ready"
    BY <2>2 DEF FoundInOrder
  <2> QED
    BY <2>2, <2>3, FoundStays
<1>5. ASSUME NEW l \in {"done", "killed"}, Exit(r, l)
      PROVE  FoundInOrder(r)'
  <2>1. found'[r].status = "none" /\ pc'[r] = l
    BY <1>0, <1>5 DEF Exit, NotFound
  <2> QED
    BY <2>1 DEF FoundInOrder
<1>6. CASE Finalize(r) \/ Kill(r)
  BY <1>0, <1>5, <1>6 DEF Finalize, Kill
<1>7. CASE BoxSettles(r)
  <2>1. found' = found /\ pc' = pc
    BY <1>7 DEF BoxSettles, runs
  <2> QED
    BY <2>1, FoundStays DEF FoundInOrder
<1> QED
  BY <1>0, <1>1, <1>2, <1>3, <1>4, <1>6, <1>7 DEF RunStep, RunTemplate, RunDax, RunLifecycle

\* So do the steps of everybody else: a template that is ready is neither replaced nor
\* deleted.
LEMMA FoundStep ==
  ASSUME TypeOK, DaxFound, [Next]_vars
  PROVE  DaxFound'
<1>1. Settles /\ \A r \in Dax : FoundInOrder(r)
  BY DaxSettles DEF DaxFound, FoundInOrder
<1>2. SUFFICES ASSUME NEW q \in Dax
               PROVE  FoundInOrder(q)'
  BY DEF DaxFound, FoundInOrder
<1>3. q \in Run
  BY Parameters
<1>4. CASE found'[q] = found[q] /\ pc'[q] = pc[q]
  BY <1>1, <1>4, FoundStays DEF FoundInOrder
<1>5. ASSUME NEW r \in Run, Start(r) \/ RunStep(r) \/ Kill(r) \/ BoxSettles(r)
      PROVE  FoundInOrder(q)'
  <2>1. CASE r = q
    BY <1>1, <1>5, <2>1, RunFound
  <2>2. CASE r # q
    <3>1. Still(q)
      BY <1>3, <1>5, <2>2, OthersStill
    <3> QED
      BY <1>4, <3>1 DEF Still
  <2> QED
    BY <2>1, <2>2
<1>6. CASE Janitor \/ BuildEnds \/ Tick \/ UNCHANGED vars
  <2>1. UNCHANGED <<found, pc>>
    BY <1>6 DEF Janitor, ReadClock, ListTemplates, EndSweep, Sweep, SweepFails, BuildEnds,
       Tick,
                vars, runs
  <2> QED
    BY <1>4, <2>1
<1> QED
  BY <1>5, <1>6 DEF Next

-----------------------------------------------------------------------------
(* The invariant and the properties *)

\* Nothing has begun.
LEMMA InvariantInit == Init => ScenariosInv
<1> SUFFICES ASSUME Init
             PROVE  ScenariosInv
  OBVIOUS
<1>1. TypeOK
  BY TypingInit
<1>2. clock <= now
  BY DEF Init
<1>3. ASSUME NEW r \in Run
      PROVE  RunInOrder(r)
  <2>1. pc[r] \in {"absent", "idle"} /\ box[r] = "none"
    BY DEF Init
  <2>2. r \in Template => tpl[r].status = "none"
    BY DEF Init
  <2> QED
    BY <2>1, <2>2 DEF RunInOrder, InProgress, Body, AfterPause
<1>4. ASSUME NEW r \in Dax
      PROVE  FoundInOrder(r)
  <2>1. found[r].status = "none" /\ pc[r] \in {"absent", "idle"}
    BY Parameters DEF Init, NotFound
  <2> QED
    BY <2>1 DEF FoundInOrder
<1>5. DaxFound
  BY <1>4 DEF DaxFound, FoundInOrder
<1> QED
  BY <1>1, <1>2, <1>3, <1>5, InvariantByRun

\* Every step keeps the invariant.
LEMMA InvariantStep ==
  ASSUME ScenariosInv, [Next]_vars
  PROVE  ScenariosInv'
<1>1. TypeOK /\ clock <= now /\ (\A r \in Run : RunInOrder(r)) /\ DaxFound
  BY InvariantByRun
<1>2. TypeOK' /\ (clock <= now)' /\ DaxFound'
  BY <1>1, TypingStep, ClockBehind, FoundStep
<1>3. ASSUME NEW q \in Run
      PROVE  RunInOrder(q)'
  <2>1. ASSUME NEW r \in Run, Start(r) \/ RunStep(r) \/ Kill(r) \/ BoxSettles(r)
        PROVE  RunInOrder(q)'
    <3>1. CASE r = q
      BY <1>1, <2>1, <3>1, RunStepInOrder
    <3>2. CASE r # q
      <4>1. Still(q) /\ UNCHANGED now
        BY <1>1, <2>1, <3>2, OthersStill DEF env
      <4> QED
        BY <1>1, <4>1, StillInOrder
    <3> QED
      BY <3>1, <3>2
  <2>2. CASE Janitor \/ BuildEnds \/ Tick
    BY <1>1, <2>2, SurroundingsInOrder
  <2>3. CASE UNCHANGED vars
    <3>1. Still(q) /\ UNCHANGED now
      BY <2>3 DEF vars, Still, env, platform, runs, result
    <3> QED
      BY <1>1, <3>1, StillInOrder
  <2> QED
    BY <2>1, <2>2, <2>3 DEF Next
<1>4. (\A r \in Run : RunInOrder(r))'
  BY <1>3
<1> QED
  BY <1>2, <1>4, InvariantByRun, PTL

\* ScenariosInv: every run keeps to its time and, while nothing failed, knows all
\* that it has made; a dax run launches only from a template that is ready and that
\* no other run takes for the failed one it has found.
THEOREM ScenariosInvariant == Spec => []ScenariosInv
<1>1. ScenariosInv /\ [Next]_vars => ScenariosInv'
  BY InvariantStep
<1> QED
  BY <1>1, InvariantInit, PTL DEF Spec

\* SuccessMeansDone: a run without an error has deleted its sandbox and its own
\* template, and a lifecycle run has paused its sandbox on the way.
THEOREM SuccessMeansDoneHolds == Spec => []SuccessMeansDone
<1>1. ScenariosInv => SuccessMeansDone
  BY DEF ScenariosInv
<1> QED
  BY <1>1, ScenariosInvariant, PTL

\* SweepSparesRuns: a template goes by its own run's cleanup, or when its run is
\* over and both the TTL and the retention of a failed run have passed.
THEOREM SweepSparesRunsHolds == Spec => SweepSparesRuns
<1> DEFINE Spares == \A r \in Template :
              tpl[r].status \in Live /\ tpl'[r].status = "gone" =>
                 \/ pc[r] = "template_delete" /\ pc'[r] = "done"
                 \/ Over(r) /\ \A ttl \in {ResourceTTL, RetainTTL} : tpl[r].created + ttl <= now
<1>1. ScenariosInv /\ [Next]_vars => Spares
  <2> SUFFICES ASSUME ScenariosInv, [Next]_vars, NEW r \in Template,
                      tpl[r].status \in Live, tpl'[r].status = "gone"
               PROVE  \/ pc[r] = "template_delete" /\ pc'[r] = "done"
                      \/ Over(r) /\ \A ttl \in {ResourceTTL, RetainTTL} : tpl[r].created + ttl <= now
    OBVIOUS
  <2>0. r \in Run /\ TypeOK /\ clock <= now /\ RunInOrder(r)
    BY Parameters, InvariantByRun
  <2>1. tpl[r].status # "none" /\ tpl[r].status # "gone"
    BY DEF Live
  <2>2. ASSUME NEW q \in Template, Sweep(q) \/ SweepFails(q)
        PROVE  Over(r) /\ \A ttl \in {ResourceTTL, RetainTTL} : tpl[r].created + ttl <= now
    <3>1. q = r /\ Stale(r)
      BY <2>0, <2>1, <2>2 DEF Sweep, SweepFails, DeletesTemplate, TypeOK
    <3>2. \A ttl \in {ResourceTTL, RetainTTL} : tpl[r].created + ttl <= now
      BY <2>0, <3>1, TypeFacts, Parameters DEF Stale, TemplateTTL
    <3>3. pc[r] \notin {"absent", "idle", "template_create"}
      BY <2>0, <2>1 DEF RunInOrder
    <3>4. pc[r] \notin InProgress
      <4> SUFFICES ASSUME pc[r] \in InProgress
                   PROVE  FALSE
        OBVIOUS
      <4>1. started[r] <= tpl[r].created /\ now <= started[r] + RunBound
        BY <2>0, <2>1 DEF RunInOrder
      <4>2. tpl[r].created + ResourceTTL <= now
        BY <3>2
      <4> QED
        BY <2>0, <4>1, <4>2, TypeFacts, Parameters
    <3> QED
      BY <2>0, <3>2, <3>3, <3>4 DEF Over, TypeOK
  <2>3. ASSUME NEW q \in Run, Start(q) \/ RunStep(q) \/ Kill(q) \/ BoxSettles(q)
        PROVE  pc[r] = "template_delete" /\ pc'[r] = "done"
    <3>1. q = r
      BY <2>0, <2>1, <2>3, OthersStill DEF Still
    <3>2. DeleteTemplate(r)
      <4>1. CASE CreateTemplate(r)
        <5>1. tpl'[r].status = "building" \/ tpl' = tpl
          BY <2>0, <4>1 DEF CreateTemplate, Builds, TypeOK
        <5> QED
          BY <2>1, <5>1
      <4>2. CASE tpl' = tpl
        BY <2>1, <4>2
      <4>3. \/ CreateTemplate(r) \/ tpl' = tpl \/ DeleteTemplate(r)
        BY <2>3, <3>1 DEF Start, RunStep, RunTemplate, RunDax, RunLifecycle, WaitForBuild,
           VerifyBuildArtifact, FindTemplate, EnsureTemplate, DaxBuild, SeedState, Pause, Resume,
           VerifyState, CheckPreview, CreateSandbox, WaitForStatus, Finalize, Kill, BoxSettles,
           Awaits, Requests, platform
      <4> QED
        BY <4>1, <4>2, <4>3
    <3> QED
      BY <2>0, <3>2 DEF DeleteTemplate, Exit, Goto, TypeOK
  <2>4. CASE ReadClock \/ ListTemplates \/ EndSweep \/ Tick \/ UNCHANGED vars
    BY <2>1, <2>4 DEF ReadClock, ListTemplates, EndSweep, Tick, vars, platform
  <2>5. CASE BuildEnds
    BY <2>0, <2>1, <2>5 DEF BuildEnds, TypeOK
  <2> QED
    BY <2>2, <2>3, <2>4, <2>5 DEF Next, Janitor
<1>2. Spec => [][Spares]_vars
  BY <1>1, ScenariosInvariant, PTL DEF Spec
<1> QED
  BY <1>2 DEF SweepSparesRuns
=============================================================================
