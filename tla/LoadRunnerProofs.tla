-------------------------- MODULE LoadRunnerProofs --------------------------
(***************************************************************************)
(* Proofs about the load runner's pool for any number of workers and        *)
(* operations, in both scenarios.                                           *)
(***************************************************************************)
EXTENDS LoadRunner, FiniteSetTheorems, TLAPS

\* Writing one counter keeps the type of the summary ...
LEMMA CounterTyping ==
  ASSUME NEW s \in Summary, NEW n \in Nat, NEW i \in Int
  PROVE  /\ [s EXCEPT !.started = n] \in Summary
         /\ [s EXCEPT !.inFlight = i] \in Summary
         /\ [s EXCEPT !.peak = i] \in Summary
         /\ [s EXCEPT !.completed = n] \in Summary
         /\ [s EXCEPT !.failed = n] \in Summary
         /\ [s EXCEPT !.cleanupFailures = n] \in Summary
         /\ [s EXCEPT !.unstarted = i] \in Summary
<1>1. [s EXCEPT !.started = n] \in Summary
  BY DEF Summary
<1>2. [s EXCEPT !.inFlight = i] \in Summary
  BY DEF Summary
<1>3. [s EXCEPT !.peak = i] \in Summary
  BY DEF Summary
<1>4. [s EXCEPT !.completed = n] \in Summary
  BY DEF Summary
<1>5. [s EXCEPT !.failed = n] \in Summary
  BY DEF Summary
<1>6. [s EXCEPT !.cleanupFailures = n] \in Summary
  BY DEF Summary
<1>7. [s EXCEPT !.unstarted = i] \in Summary
  BY DEF Summary
<1> QED
  BY <1>1, <1>2, <1>3, <1>4, <1>5, <1>6, <1>7

\* ... and so do an admission ...
LEMMA AdmissionTyping ==
  ASSUME NEW s \in Summary, NEW i \in Int
  PROVE  [s EXCEPT !.started = @ + 1, !.inFlight = i,
                   !.peak = IF i > @ THEN i ELSE @] \in Summary
<1>1. s.started + 1 \in Nat /\ (IF i > s.peak THEN i ELSE s.peak) \in Int
  BY DEF Summary
<1>2. [s EXCEPT !.started = s.started + 1] \in Summary
  BY <1>1, CounterTyping
<1>3. [[s EXCEPT !.started = s.started + 1] EXCEPT !.inFlight = i] \in Summary
  BY <1>2, CounterTyping, Zenon
<1> QED
  BY <1>1, <1>3, CounterTyping, Zenon

\* ... and the accounting of an operation.
LEMMA AccountTyping ==
  ASSUME NEW s \in Summary, NEW f \in BOOLEAN, NEW c \in BOOLEAN
  PROVE  [s EXCEPT !.inFlight = @ - 1,
                   !.failed = IF f THEN @ + 1 ELSE @,
                   !.completed = IF f THEN @ ELSE @ + 1,
                   !.cleanupFailures = IF c THEN @ + 1 ELSE @] \in Summary
<1>1. /\ s.inFlight - 1 \in Int
      /\ (IF f THEN s.failed + 1 ELSE s.failed) \in Nat
      /\ (IF f THEN s.completed ELSE s.completed + 1) \in Nat
      /\ (IF c THEN s.cleanupFailures + 1 ELSE s.cleanupFailures) \in Nat
  BY DEF Summary
<1> DEFINE ended == [s EXCEPT !.inFlight = s.inFlight - 1]
           sorted == [ended EXCEPT !.failed = IF f THEN s.failed + 1 ELSE s.failed]
           counted == [sorted EXCEPT !.completed = IF f THEN s.completed ELSE s.completed + 1]
<1>2. ended \in Summary
  BY <1>1, CounterTyping
<1>3. sorted \in Summary
  BY <1>1, <1>2, CounterTyping, Zenon
<1>4. counted \in Summary
  BY <1>1, <1>3, CounterTyping, Zenon
<1> QED
  BY <1>1, <1>4, CounterTyping, Zenon

\* The pool is set up with its types.
LEMMA TypingInit == Init => TypeOK
<1> USE LoadRunnerAssumption DEF TypeOK, Op, Running, Stage, SandboxState
<1> SUFFICES ASSUME Init
             PROVE  TypeOK
  OBVIOUS
<1>1. summary \in Summary
  BY DEF Init, Summary
<1>2. /\ pc \in [Worker -> {"receive", "admit", "account", "exited"} \cup Running]
      /\ job \in [Worker -> 0..Operations]
      /\ failed \in [Worker -> BOOLEAN] /\ cleanup \in [Worker -> BOOLEAN]
  BY DEF Init
<1>3. /\ owner \in [Op -> Worker \cup {NoWorker}]
      /\ sandbox \in [Op -> SandboxState]
  BY DEF Init
<1>4. sent \in 0..Operations
  BY DEF Init
<1>5. /\ scenario \in Scenarios /\ main \in {"send", "wait", "done"}
      /\ expired \in BOOLEAN /\ cancelled \in BOOLEAN /\ unsafe \in BOOLEAN
      /\ runErr \in BOOLEAN
  BY Zenon DEF Init
<1> HIDE DEF Op, Running, SandboxState
<1> QED
  BY <1>1, <1>2, <1>3, <1>4, <1>5, Zenon

\* Every variable keeps its type.
LEMMA Typing == Spec => []TypeOK
<1> USE LoadRunnerAssumption DEF TypeOK, Op, Running, Stage, SandboxState, Goto, Becomes
<1>1. Init => TypeOK
  BY TypingInit
<1>2. TypeOK /\ [Next]_vars => TypeOK'
  <2> SUFFICES ASSUME TypeOK, [Next]_vars
               PROVE  TypeOK'
    OBVIOUS
  <2>1. CASE CloseJobs
    BY <2>1 DEF CloseJobs, worker
  <2>2. CASE Return
    <3>1. Operations - summary.started \in Int
      BY DEF Summary
    <3>2. summary' \in Summary
      BY <2>2, <3>1, CounterTyping, Zenon DEF Return
    <3> QED
      BY <2>2, <3>2 DEF Return, worker
  <2>3. ASSUME NEW w \in Worker, Dispatch(w)
        PROVE  TypeOK'
    BY <2>3 DEF Dispatch
  <2>4. ASSUME NEW w \in Worker, WorkerStep(w)
        PROVE  TypeOK'
    <3>1. CASE Exit(w) \/ Refuse(w)
      BY <3>1 DEF Exit, Refuse, dispatch
    <3>2. CASE Admit(w)
      <4>1. summary.inFlight + 1 \in Int
        BY DEF Summary
      <4>2. owner' \in [Op -> Worker \cup {NoWorker}]
        BY <3>2 DEF Admit
      <4>3. summary' \in Summary
        BY <3>2, <4>1, AdmissionTyping, Zenon DEF Admit
      <4> QED
        BY <3>2, <4>2, <4>3 DEF Admit, dispatch
    <3>3. CASE Created(w) \/ Rejected(w) \/ Uncertain(w)
      BY <3>3 DEF Created, Rejected, Uncertain, dispatch
    <3>4. CASE StageOK(w)
      <4>1. pc[w] \in Stage => After[pc[w]] \in Running
        BY DEF After
      <4> QED
        BY <3>4, <4>1 DEF StageOK, dispatch
    <3>5. CASE StageFails(w)
      BY <3>5 DEF StageFails, dispatch
    <3>6. CASE DeleteAccepted(w) \/ DeleteObserved(w)
      BY <3>6 DEF DeleteAccepted, DeleteObserved, dispatch
    <3>7. CASE CleanupFails(w)
      BY <3>7 DEF CleanupFails, dispatch
    <3>8. CASE StopFlag(w) \/ StopCancel(w)
      BY <3>8 DEF StopFlag, StopCancel
    <3>9. CASE Account(w)
      <4>1. failed[w] \in BOOLEAN /\ cleanup[w] \in BOOLEAN /\ summary \in Summary
        OBVIOUS
      <4>2. summary' \in Summary
        BY <3>9, <4>1, AccountTyping, Zenon DEF Account
      <4> QED
        BY <3>9, <4>2 DEF Account, dispatch
    <3> QED
      BY <2>4, <3>1, <3>2, <3>3, <3>4, <3>5, <3>6, <3>7, <3>8, <3>9 DEF WorkerStep, RunOne
  <2>5. CASE Expire
    BY <2>5 DEF Expire, worker
  <2>6. ASSUME NEW o \in Op, Vanish(o)
        PROVE  TypeOK'
    BY <2>6 DEF Vanish, dispatch, worker
  <2>7. CASE UNCHANGED vars
    BY <2>7 DEF vars, dispatch, worker
  <2> QED
    BY <2>1, <2>2, <2>3, <2>4, <2>5, <2>6, <2>7 DEF Next, Pool, Returned
<1> HIDE DEF TypeOK
<1> QED
  BY <1>1, <1>2, PTL DEF Spec

-----------------------------------------------------------------------------
(* Operations and their sandboxes *)

\* The part of PoolInv that says which worker holds what.
Placed == TypeOK /\ JobsDistinct /\ HeldByOwner

\* What every step of an operation in progress has in common: it stays the
\* operation of its worker, and leaves it with no sandbox, or the pool unsafe.
Advance(w) ==
  /\ pc[w] \in Running
  /\ \E l \in (Running \ {"create_request"}) \cup {"account"} : pc' = [pc EXCEPT ![w] = l]
  /\ UNCHANGED <<job, owner, sent>>
  /\ \A o \in Op : o # job[w] => sandbox'[o] = sandbox[o]
  /\ unsafe => unsafe'
  /\ Held(job[w])' => pc'[w] \in Running \ {"cancel"} \/ unsafe'

\* A worker that goes through an operation keeps its job.
LEMMA RunOneAdvances ==
  ASSUME TypeOK, Placed, NEW w \in Worker, RunOne(w)
  PROVE  Advance(w)
<1> DEFINE o == job[w]
<1> USE DEF Goto, Becomes
<1>1. pc \in [Worker -> {"receive", "admit", "account", "exited"} \cup Running]
  BY DEF TypeOK
<1>2. pc[w] \in Running
  BY DEF RunOne, Created, Rejected, Uncertain, StageOK, StageFails, DeleteAccepted,
         DeleteObserved, CleanupFails, StopFlag, StopCancel, Running
<1>3. o \in Op /\ owner[o] = w /\ sandbox \in [Op -> SandboxState]
  BY <1>2, LoadRunnerAssumption DEF TypeOK, Placed, JobsDistinct, Op
<1>4. /\ pc[w] = "create_request" => sandbox[o] = "none"
      /\ Held(o) /\ pc[w] = "cancel" => unsafe
  BY <1>2, <1>3 DEF Placed, JobsDistinct, HeldByOwner
<1> HIDE DEF o
<1>5. CASE Created(w) \/ Rejected(w) \/ Uncertain(w)
  BY <1>1, <1>2, <1>3, <1>4, <1>5
     DEF Created, Rejected, Uncertain, Advance, Running, Stage, Held, dispatch, o
<1>6. CASE StageOK(w) \/ StageFails(w)
  BY <1>1, <1>2, <1>3, <1>6
     DEF StageOK, StageFails, After, Advance, Running, Stage, dispatch, o
<1>7. CASE DeleteAccepted(w) \/ DeleteObserved(w)
  BY <1>1, <1>2, <1>3, <1>7
     DEF DeleteAccepted, DeleteObserved, Advance, Running, Held, FullLifecycle, dispatch, o
<1>8. CASE CleanupFails(w)
  BY <1>1, <1>2, <1>3, <1>8 DEF CleanupFails, Advance, Running, dispatch, o
<1>9. CASE StopFlag(w) \/ StopCancel(w)
  BY <1>1, <1>2, <1>3, <1>4, <1>9
     DEF StopFlag, StopCancel, Advance, Running, Held, FullLifecycle, o
<1> QED
  BY <1>5, <1>6, <1>7, <1>8, <1>9 DEF RunOne

\* Every step leaves each sandbox with a worker in the middle of its operation, or one
\* that has left.
LEMMA PlacedStep == TypeOK /\ TypeOK' /\ Placed /\ [Next]_vars => Placed'
<1> SUFFICES ASSUME TypeOK, TypeOK', Placed, [Next]_vars
             PROVE  Placed'
  OBVIOUS
<1> USE LoadRunnerAssumption
<1>t. /\ pc \in [Worker -> {"receive", "admit", "account", "exited"} \cup Running]
      /\ pc' \in [Worker -> {"receive", "admit", "account", "exited"} \cup Running]
      /\ job \in [Worker -> 0..Operations] /\ job' \in [Worker -> 0..Operations]
      /\ owner \in [Op -> Worker \cup {NoWorker}] /\ owner' \in [Op -> Worker \cup {NoWorker}]
      /\ sandbox \in [Op -> SandboxState] /\ sandbox' \in [Op -> SandboxState]
      /\ sent \in 0..Operations /\ sent' \in 0..Operations
  BY DEF TypeOK
<1>n. /\ Operations \in Nat \ {0} /\ NoWorker \notin Worker
      /\ "receive" \notin Running /\ "admit" \notin Running /\ "exited" \notin Running
      /\ "account" \notin Running /\ "create_request" \in Running /\ "cancel" \in Running
  BY DEF Running, Stage
<1>i. JobsDistinct /\ HeldByOwner
  BY DEF Placed
\* The scenario never changes.
<1>f. FullLifecycle' = FullLifecycle
  BY Zenon DEF Next, Pool, WorkerStep, RunOne, CloseJobs, Return, Dispatch, Exit, Refuse,
     Admit,
     Created, Rejected, Uncertain, StageOK, StageFails, DeleteAccepted, DeleteObserved,
     CleanupFails, StopFlag, StopCancel, Account, Expire, Vanish, Returned, FullLifecycle,
     vars, dispatch
<1> USE DEF Op, Goto
\* The steps outside an operation in progress.
<1>1. ASSUME NEW w \in Worker, Dispatch(w)
      PROVE  Placed'
  <2>1. JobsDistinct'
    BY <1>t, <1>n, <1>i, <1>1 DEF Dispatch, JobsDistinct
  <2>2. HeldByOwner'
    BY <1>t, <1>n, <1>i, <1>f, <1>1 DEF Dispatch, JobsDistinct, HeldByOwner, Held
  <2> QED
    BY <2>1, <2>2 DEF Placed
<1>2. ASSUME NEW w \in Worker, Exit(w) \/ Refuse(w) \/ Account(w)
      PROVE  Placed'
  <2>0. /\ pc[w] \in {"receive", "admit", "account"}
        /\ \E l \in {"receive", "exited"} : pc' = [pc EXCEPT ![w] = l]
        /\ UNCHANGED <<job, owner, sent, sandbox>>
    BY <1>2 DEF Exit, Refuse, Account, dispatch
  <2>1. JobsDistinct'
    BY <1>t, <1>n, <1>i, <2>0 DEF JobsDistinct
  <2>2. HeldByOwner'
    BY <1>t, <1>n, <1>i, <1>f, <1>2
       DEF Exit, Refuse, Account, dispatch, JobsDistinct, HeldByOwner, Held
  <2> QED
    BY <2>1, <2>2 DEF Placed
<1>3. ASSUME NEW w \in Worker, Admit(w)
      PROVE  Placed'
  <2>1. /\ pc[w] = "admit" /\ ~unsafe /\ unsafe' = unsafe
        /\ job[w] \in Op /\ owner[job[w]] = NoWorker /\ sandbox[job[w]] = "none"
        /\ owner' = [owner EXCEPT ![job[w]] = w]
        /\ pc' = [pc EXCEPT ![w] = "create_request"]
        /\ job' = job /\ sandbox' = sandbox /\ sent' = sent
    BY <1>t, <1>n, <1>i, <1>3 DEF Admit, dispatch, JobsDistinct
  <2>2. JobsDistinct'
    BY <1>t, <1>n, <1>i, <2>1 DEF JobsDistinct
  <2>3. HeldByOwner'
    BY <1>t, <1>n, <1>i, <1>f, <2>1 DEF JobsDistinct, HeldByOwner, Held
  <2> QED
    BY <2>2, <2>3 DEF Placed
\* The steps of an operation in progress.
<1>4. ASSUME NEW w \in Worker, RunOne(w)
      PROVE  Placed'
  <2>1. Advance(w)
    BY <1>4, RunOneAdvances
  <2>2. JobsDistinct'
    BY <1>t, <1>n, <1>i, <2>1 DEF Advance, JobsDistinct
  <2>3. HeldByOwner'
    <3> DEFINE mine == job[w]
    <3>1. /\ pc[w] \in Running /\ pc'[w] \in (Running \ {"create_request"}) \cup {"account"}
          /\ \A v \in Worker : v # w => pc'[v] = pc[v]
          /\ job' = job /\ owner' = owner /\ (unsafe => unsafe')
          /\ mine \in Op /\ owner[mine] = w
      BY <1>t, <1>n, <1>i, <2>1 DEF Advance, JobsDistinct
    <3>2. \A o \in Op : o # mine => (Held(o)' <=> Held(o))
      BY <1>f, <2>1 DEF Advance, Held
    <3>3. ASSUME NEW o \in Op, Held(o), owner[o] = w
          PROVE  o = mine
      BY <1>i, <3>1, <3>3 DEF HeldByOwner
    <3>4. Held(mine)' => pc'[w] \in Running \ {"cancel"} \/ unsafe'
      BY <2>1 DEF Advance
    <3>5. \A o \in Op : Held(o)' => owner[o] \in Worker
      BY <1>t, <2>2, <3>1 DEF Held, JobsDistinct
    <3> HIDE DEF mine
    <3>6. ASSUME NEW o \in Op, Held(o)', o # mine
          PROVE  owner[o] # w /\ Held(o)
      BY <3>2, <3>3, <3>6
    <3>7. \A o \in Op, p \in Op : Held(o)' /\ Held(p)' /\ owner[p] = owner[o] => p = o
      BY <1>i, <3>1, <3>6 DEF HeldByOwner
    <3>8. ASSUME NEW o \in Op, Held(o)'
          PROVE  /\ pc'[owner[o]] \notin Running \/ pc'[owner[o]] = "cancel" => unsafe'
                 /\ pc'[owner[o]] \in Running => job[owner[o]] = o
      <4>1. CASE o = mine
        BY <3>1, <3>4, <3>8, <4>1 DEF mine
      <4>2. CASE o # mine
        BY <1>i, <1>t, <1>n, <3>1, <3>6, <3>5, <3>8, <4>2 DEF HeldByOwner
      <4> QED
        BY <4>1, <4>2
    <3> QED
      BY <3>1, <3>7, <3>8 DEF HeldByOwner
  <2> QED
    BY <2>2, <2>3 DEF Placed
\* The environment and the Run goroutine.
<1>5. ASSUME NEW o \in Op, Vanish(o)
      PROVE  Placed'
  <2>0. /\ pc' = pc /\ job' = job /\ owner' = owner /\ sent' = sent /\ unsafe' = unsafe
        /\ \A p \in Op :
              sandbox'[p] = sandbox[p] \/ (sandbox[p] \in {"live", "deleting"} /\ sandbox'[p] = "gone")
    <3>1. /\ pc' = pc /\ job' = job /\ owner' = owner /\ sent' = sent /\ unsafe' = unsafe
          /\ sandbox[o] \in {"live", "deleting"} /\ sandbox' = [sandbox EXCEPT ![o] = "gone"]
      BY <1>5 DEF Vanish, dispatch, worker
    <3>2. sandbox \in [1..Operations -> SandboxState]
      BY <1>t
    <3> QED
      BY <3>1, <3>2
  <2>1. JobsDistinct'
    <3>1. \A p \in Op : sandbox'[p] # "none" => owner[p] # NoWorker
      BY <1>i, <2>0 DEF JobsDistinct
    <3>2. ASSUME NEW w \in Worker, pc[w] = "create_request"
          PROVE  sandbox'[job[w]] = "none"
      BY <1>t, <1>n, <1>i, <2>0, <3>2 DEF JobsDistinct
    <3> QED
      BY <1>i, <2>0, <3>1, <3>2 DEF JobsDistinct
  <2>2. HeldByOwner'
    <3>1. \A p \in Op : Held(p)' => Held(p)
      BY <1>f, <2>0 DEF Held
    <3> QED
      BY <1>i, <2>0, <3>1 DEF HeldByOwner
  <2> QED
    BY <2>1, <2>2 DEF Placed
<1>6. CASE UNCHANGED <<sent, unsafe, pc, job, owner, sandbox>>
  BY <1>f, <1>6 DEF Placed, JobsDistinct, HeldByOwner, Held
<1>7. CloseJobs \/ Return \/ Expire \/ Returned \/ UNCHANGED vars
        => UNCHANGED <<sent, unsafe, pc, job, owner, sandbox>>
  BY DEF CloseJobs, Return, Expire, Returned, vars, dispatch, worker
<1> QED
  BY <1>1, <1>2, <1>3, <1>4, <1>5, <1>6, <1>7 DEF Next, Pool, WorkerStep

\* Operations are never handed out twice, and a worker holds at most the
\* sandbox of its current operation unless the pool has been stopped.
LEMMA PlacedInvariant == Spec => []Placed
<1>1. Init => Placed
  <2>1. Init => JobsDistinct /\ HeldByOwner
    BY LoadRunnerAssumption DEF Init, JobsDistinct, HeldByOwner, Held, Op, Running, Stage
  <2> QED
    BY <2>1, TypingInit DEF Placed
<1> QED
  BY <1>1, Typing, PlacedStep, PTL DEF Spec

-----------------------------------------------------------------------------
(* The limits *)

\* Operations whose sandboxes are held have distinct workers, so there are at
\* most as many of them as workers.
LEMMA HeldLimit ==
  ASSUME TypeOK, Placed, NEW S \in SUBSET Op, \A o \in S : Held(o)
  PROVE  Cardinality(S) <= Cardinality(Worker)
<1> DEFINE f == [o \in S |-> owner[o]]
<1>1. f \in Injection(S, Worker)
  <2>1. \A o \in S : owner[o] \in Worker
    BY DEF TypeOK, Placed, JobsDistinct, Held
  <2>2. \A o \in S, p \in S : owner[o] = owner[p] => o = p
    BY DEF Placed, HeldByOwner
  <2> QED
    BY <2>1, <2>2 DEF Injection, IsInjective
<1> HIDE DEF f
<1> QED
  BY <1>1, FS_Injection, LoadRunnerAssumption, Zenon

\* WorkerLimit: in the lifecycle scenario the sandboxes that exist at one time,
\* those the run lost track of included, never outnumber the workers.
THEOREM WorkerLimitHolds == Spec => []WorkerLimit
<1>1. TypeOK /\ Placed => WorkerLimit
  <2> SUFFICES ASSUME TypeOK, Placed, FullLifecycle
               PROVE  Cardinality(Existing) <= Cardinality(Worker)
    BY DEF WorkerLimit
  <2>1. Existing \in SUBSET Op /\ \A o \in Existing : Held(o)
    BY DEF Existing, Held
  <2> QED
    BY <2>1, HeldLimit
<1> QED
  BY <1>1, Typing, PlacedInvariant, PTL

\* LiveLimit: in both scenarios the sandboxes whose deletion was not accepted
\* never outnumber the workers.
THEOREM LiveLimitHolds == Spec => []LiveLimit
<1>1. TypeOK /\ Placed => LiveLimit
  BY HeldLimit DEF LiveLimit, Live, Held
<1> QED
  BY <1>1, Typing, PlacedInvariant, PTL
-----------------------------------------------------------------------------
(* The accounts *)

Accounts == FailuresMarked /\ Counted /\ StopsForCause /\ Reported

\* The counters are numbers.
LEMMA PoolTypes ==
  ASSUME TypeOK
  PROVE  /\ summary.started \in Nat /\ summary.inFlight \in Int /\ summary.peak \in Int
         /\ summary.completed \in Nat /\ summary.failed \in Nat
         /\ summary.cleanupFailures \in Nat /\ summary.unstarted \in Int
         /\ Operations \in Nat /\ sent \in Nat /\ sent <= Operations
         /\ \A w \in Worker : failed[w] \in BOOLEAN /\ cleanup[w] \in BOOLEAN
         /\ NoWorker \notin Worker
  BY LoadRunnerAssumption DEF TypeOK, Summary

\* Workers and operations can be counted.
LEMMA FinitePool ==
  /\ IsFiniteSet(Worker) /\ IsFiniteSet(Op) /\ Cardinality(Op) = Operations
  /\ Cardinality(Worker) \in Nat
<1>1. IsFiniteSet(1..Operations) /\ Cardinality(1..Operations) = Operations
  BY FS_Interval, LoadRunnerAssumption
<1> QED
  BY <1>1, FS_CardinalityType, LoadRunnerAssumption DEF Op

\* So can those at work, those started and those lost.
LEMMA FiniteParts ==
  /\ IsFiniteSet(Busy) /\ IsFiniteSet(Started) /\ IsFiniteSet(Lost)
  /\ Cardinality(Busy) \in Nat /\ Cardinality(Started) \in Nat /\ Cardinality(Lost) \in Nat
  /\ Cardinality(Busy) <= Cardinality(Worker)
<1>1. Busy \subseteq Worker /\ Started \subseteq Op /\ Lost \subseteq Op
  BY DEF Busy, Started, Lost
<1>2. IsFiniteSet(Busy) /\ IsFiniteSet(Started) /\ IsFiniteSet(Lost)
      /\ Cardinality(Busy) <= Cardinality(Worker)
  BY <1>1, FinitePool, FS_Subset
<1> QED
  BY <1>2, FS_CardinalityType

\* The counters when no operation starts or ends.
LEMMA CountsStay ==
  ASSUME TypeOK, Counted, Busy' = Busy, Started' = Started, Lost' \subseteq Lost,
         \A f \in {"started", "inFlight", "peak", "completed", "failed", "cleanupFailures"} :
           summary'[f] = summary[f]
  PROVE  Counted'
<1>1. /\ summary'.started = summary.started /\ summary'.inFlight = summary.inFlight
      /\ summary'.peak = summary.peak /\ summary'.completed = summary.completed
      /\ summary'.failed = summary.failed /\ summary'.cleanupFailures = summary.cleanupFailures
  OBVIOUS
<1>2. Cardinality(Lost') <= Cardinality(Lost) /\ Cardinality(Lost') \in Nat
  BY FiniteParts, FS_Subset, FS_CardinalityType
<1>3. Cardinality(Lost') <= summary.failed
  BY <1>2, FiniteParts, PoolTypes DEF Counted
<1> QED
  BY <1>1, <1>3 DEF Counted

\* No field of the summary changes.
LEMMA SameSummary ==
  ASSUME UNCHANGED summary
  PROVE  \A f \in {"started", "inFlight", "peak", "completed", "failed", "cleanupFailures"} :
           summary'[f] = summary[f]
  OBVIOUS

\* Whether an operation still has its sandbox changes only with sandboxes.
LEMMA HeldStays ==
  ASSUME UNCHANGED <<scenario, sandbox>>, NEW o
  PROVE  Held(o)' = Held(o)
  BY DEF Held, FullLifecycle

\* A job handed out is one sent.
LEMMA DispatchAccounts ==
  ASSUME Placed, Accounts, NEW w \in Worker, Dispatch(w)
  PROVE  Accounts'
<1> USE PoolTypes DEF Placed, Accounts
<1>1. /\ main = "send" /\ sent < Operations /\ pc[w] = "receive" /\ sent' = sent + 1
      /\ job' = [job EXCEPT ![w] = sent + 1] /\ pc' = [pc EXCEPT ![w] = "admit"]
      /\ UNCHANGED <<scenario, main, expired, cancelled, unsafe, failed, cleanup, owner,
                     sandbox, summary, runErr>>
  BY DEF Dispatch, Goto
<1>2. /\ pc'[w] = "admit" /\ job'[w] = sent + 1
      /\ \A v \in Worker : v # w => pc'[v] = pc[v] /\ job'[v] = job[v]
      /\ "receive" \notin Running \cup {"account"} /\ "admit" \notin Running \cup {"account"}
  BY <1>1 DEF TypeOK, Running, Stage
<1>3. Busy' = Busy /\ w \notin Busy
  BY <1>1, <1>2 DEF Busy
<1>4. Started' = Started
  BY <1>1 DEF Started
<1>5. \A o \in Op : Held(o)' = Held(o)
  BY <1>1, HeldStays
<1>6. Lost' \subseteq Lost
  BY <1>1, <1>2, <1>3, <1>4, <1>5 DEF Lost, Started, Op
<1>7. Counted'
  BY <1>1, <1>3, <1>4, <1>6, CountsStay, SameSummary
<1>8. FailuresMarked'
  <2>1. \A o : Held(o)' = Held(o)
    BY <1>1, HeldStays
  <2> QED
    BY <1>1, <1>2, <1>3, <2>1 DEF FailuresMarked, Running, Stage
<1>9. StopsForCause'
  <2>1. ASSUME NEW o \in Op, o <= sent'
        PROVE  \/ ContextDone' \/ unsafe' \/ owner'[o] # NoWorker
               \/ \E v \in Worker : job'[v] = o /\ pc'[v] = "admit"
    <3>1. CASE o = sent + 1
      BY <1>2, <3>1
    <3>2. CASE o <= sent
      <4>1. \/ ContextDone \/ unsafe \/ owner[o] # NoWorker
            \/ \E v \in Worker : job[v] = o /\ pc[v] = "admit"
        BY <3>2 DEF StopsForCause
      <4>2. \A v \in Worker : pc[v] = "admit" => v # w
        BY <1>1
      <4> QED
        BY <1>1, <1>2, <4>1, <4>2 DEF ContextDone
    <3> QED
      BY <1>1, <2>1, <3>1, <3>2 DEF Op
  <2> QED
    BY <1>1, <1>3, <2>1 DEF StopsForCause, ContextDone, Op
<1>10. Reported'
  BY <1>1 DEF Reported
<1> QED
  BY <1>7, <1>8, <1>9, <1>10

\* A worker that leaves the loop has nothing in hand.
LEMMA LeaveAccounts ==
  ASSUME Placed, Accounts, NEW w \in Worker, Exit(w) \/ Refuse(w)
  PROVE  Accounts'
<1> USE PoolTypes DEF Placed, Accounts
<1>1. /\ pc' = [pc EXCEPT ![w] = "exited"]
      /\ \/ pc[w] = "receive" /\ main # "send"
         \/ pc[w] = "admit" /\ (ContextDone \/ unsafe)
      /\ UNCHANGED <<dispatch, job, failed, cleanup, owner, sandbox, summary, runErr>>
  BY DEF Exit, Refuse, Goto
<1>2. /\ pc'[w] = "exited" /\ \A v \in Worker : v # w => pc'[v] = pc[v]
      /\ "receive" \notin Running \cup {"account"} /\ "admit" \notin Running \cup {"account"}
      /\ "exited" \notin Running \cup {"account"}
  BY <1>1 DEF TypeOK, Running, Stage
<1>3. Busy' = Busy /\ w \notin Busy
  BY <1>1, <1>2 DEF Busy
<1>4. Started' = Started /\ \A o : Held(o)' = Held(o)
  BY <1>1, HeldStays DEF Started, dispatch
<1>5. Lost' \subseteq Lost
  BY <1>1, <1>3, <1>4 DEF Lost
<1>6. Counted'
  BY <1>1, <1>3, <1>4, <1>5, CountsStay, SameSummary
<1>7. FailuresMarked'
  BY <1>1, <1>2, <1>3, <1>4 DEF FailuresMarked, Running, Stage
<1>8. StopsForCause'
  <2>1. \A v \in Worker : pc[v] = "admit" /\ v # w => pc'[v] = "admit"
    BY <1>2
  <2> QED
    BY <1>1, <1>3, <2>1 DEF StopsForCause, ContextDone, dispatch
<1>9. Reported'
  BY <1>1, <1>2 DEF Reported, dispatch
<1> QED
  BY <1>6, <1>7, <1>8, <1>9

\* A job that is admitted is started and in flight.
LEMMA AdmitAccounts ==
  ASSUME Placed, Accounts, NEW w \in Worker, Admit(w)
  PROVE  Accounts'
<1> USE PoolTypes DEF Placed, Accounts
<1> DEFINE o == job[w]
<1>1. /\ pc[w] = "admit" /\ ~ContextDone /\ ~unsafe /\ pc' = [pc EXCEPT ![w] = "create_request"]
      /\ summary' = [summary EXCEPT !.started = summary.started + 1,
                       !.inFlight = summary.inFlight + 1,
                       !.peak = IF summary.inFlight + 1 > summary.peak THEN summary.inFlight + 1
                                ELSE summary.peak]
      /\ owner' = [owner EXCEPT ![o] = w]
      /\ failed' = [failed EXCEPT ![w] = FALSE] /\ cleanup' = [cleanup EXCEPT ![w] = FALSE]
      /\ UNCHANGED <<dispatch, job, sandbox, runErr>>
  BY DEF Admit, Goto
<1>2. /\ pc'[w] = "create_request" /\ ~failed'[w] /\ ~cleanup'[w]
      /\ \A v \in Worker : v # w => pc'[v] = pc[v] /\ failed'[v] = failed[v] /\ cleanup'[v] = cleanup[v]
      /\ "admit" \notin Running \cup {"account"} /\ "create_request" \in Running
  BY <1>1 DEF TypeOK, Running, Stage
<1>3. o \in Op /\ owner[o] = NoWorker /\ sandbox[o] = "none"
  BY <1>1 DEF JobsDistinct, TypeOK, Op
<1>4. Busy' = Busy \cup {w} /\ w \notin Busy
  BY <1>1, <1>2 DEF Busy
<1>5. owner'[o] = w /\ \A p \in Op : p # o => owner'[p] = owner[p]
  BY <1>1, <1>3 DEF TypeOK
<1>6. Started' = Started \cup {o} /\ o \notin Started
  BY <1>3, <1>5 DEF Started
<1>7. \A p : Held(p)' = Held(p)
  BY <1>1, HeldStays DEF dispatch
<1>8. Lost' \subseteq Lost
  <2>1. ~Held(o)
    BY <1>3 DEF Held
  <2>2. SUFFICES ASSUME NEW p \in Lost'
                 PROVE  p \in Lost
    OBVIOUS
  <2>3. p \in Op /\ p # o /\ Held(p) /\ p \in Started
    BY <1>6, <1>7, <2>1, <2>2 DEF Lost, Started
  <2> QED
    BY <1>1, <1>4, <1>5, <2>2, <2>3 DEF Lost
<1>9. /\ summary'.started = summary.started + 1 /\ summary'.inFlight = summary.inFlight + 1
      /\ summary'.peak = (IF summary.inFlight + 1 > summary.peak THEN summary.inFlight + 1
                          ELSE summary.peak)
      /\ summary'.completed = summary.completed /\ summary'.failed = summary.failed
      /\ summary'.cleanupFailures = summary.cleanupFailures
  BY <1>1 DEF TypeOK, Summary
<1>10. Counted'
  <2>1. Cardinality(Busy') = Cardinality(Busy) + 1 /\ Cardinality(Started') = Cardinality(Started) + 1
    BY <1>4, <1>6, FiniteParts, FS_AddElement
  <2>2. Busy' \subseteq Worker
    BY DEF Busy
  <2>3. Cardinality(Busy') <= Cardinality(Worker)
    BY <2>2, FinitePool, FS_Subset
  <2>4. Cardinality(Lost') <= Cardinality(Lost) /\ Cardinality(Lost') \in Nat
    BY <1>8, FiniteParts, FS_Subset, FS_CardinalityType
  <2>5. /\ summary.inFlight = Cardinality(Busy) /\ summary.inFlight <= summary.peak
        /\ summary.peak <= Cardinality(Worker) /\ summary.started = Cardinality(Started)
        /\ summary.started = summary.inFlight + summary.completed + summary.failed
        /\ summary.cleanupFailures <= summary.failed /\ Cardinality(Lost) <= summary.failed
    BY DEF Counted
  <2> HIDE DEF Accounts
  <2>6. /\ summary'.inFlight = Cardinality(Busy') /\ summary'.inFlight <= summary'.peak
        /\ summary'.peak <= Cardinality(Worker) /\ summary'.started = Cardinality(Started')
    BY <1>9, <2>1, <2>3, <2>5, FiniteParts, FinitePool
  <2>7. /\ summary'.started = summary'.inFlight + summary'.completed + summary'.failed
        /\ summary'.cleanupFailures <= summary'.failed /\ Cardinality(Lost') <= summary'.failed
    BY <1>9, <2>4, <2>5, FiniteParts
  <2> QED
    BY <2>6, <2>7 DEF Counted
<1>11. FailuresMarked'
  BY <1>1, <1>2, <1>4, <1>7 DEF FailuresMarked
<1>12. StopsForCause'
  <2>1. \A v \in Busy : v \in Busy' /\ failed'[v] = failed[v]
    BY <1>2, <1>4 DEF Busy
  <2>2. ASSUME NEW p \in Op, p <= sent
        PROVE  \/ owner'[p] # NoWorker
               \/ \E v \in Worker : job'[v] = p /\ pc'[v] = "admit"
    <3>1. CASE p = o
      BY <1>5, <3>1
    <3>2. CASE p # o
      <4>1. owner[p] # NoWorker \/ \E v \in Worker : job[v] = p /\ pc[v] = "admit"
        BY <1>1, <2>2 DEF StopsForCause
      <4> QED
        BY <1>1, <1>2, <1>5, <3>2, <4>1
    <3> QED
      BY <3>1, <3>2
  <2> QED
    BY <1>1, <1>9, <2>1, <2>2 DEF StopsForCause, ContextDone, dispatch
<1>13. Reported'
  BY <1>1 DEF Reported, dispatch
<1> QED
  BY <1>10, <1>11, <1>12, <1>13

\* What a step of an operation in progress means for the accounts: only a
\* failed operation stops the pool, or is accounted for with its sandbox held.
Progress(w) ==
  /\ pc[w] \in Running
  /\ pc'[w] \in Running \cup {"account"}
  /\ \A v \in Worker : v # w => pc'[v] = pc[v] /\ failed'[v] = failed[v] /\ cleanup'[v] = cleanup[v]
  /\ UNCHANGED <<scenario, main, sent, expired, job, owner, summary, runErr>>
  /\ (unsafe => unsafe') /\ (cancelled => cancelled') /\ (failed[w] => failed'[w])
  /\ unsafe' \/ cancelled' => unsafe \/ cancelled \/ failed[w]
  /\ pc'[w] \in {"flag", "cancel"} => failed'[w]
  /\ cleanup'[w] => failed'[w]
  /\ pc'[w] = "account" /\ Held(job[w])' => failed'[w]
  /\ \A o \in Op : o # job[w] => sandbox'[o] = sandbox[o]

\* A worker's errors and sandbox stay its own during the operation.
LEMMA RunOneProgresses ==
  ASSUME Placed, Accounts, NEW w \in Worker, RunOne(w)
  PROVE  Progress(w)
<1> DEFINE o == job[w]
<1> USE DEF Goto, Becomes, dispatch, Progress
<1>1. /\ pc \in [Worker -> {"receive", "admit", "account", "exited"} \cup Running]
      /\ failed \in [Worker -> BOOLEAN] /\ cleanup \in [Worker -> BOOLEAN]
  BY DEF TypeOK, Placed
<1>2. pc[w] \in Running
  BY DEF RunOne, Created, Rejected, Uncertain, StageOK, StageFails, DeleteAccepted,
         DeleteObserved, CleanupFails, StopFlag, StopCancel, Running
<1>3. o \in Op /\ sandbox \in [Op -> SandboxState]
  BY <1>2, LoadRunnerAssumption DEF TypeOK, Placed, JobsDistinct, Op
<1>4. /\ pc[w] \in {"flag", "cancel"} => failed[w]
      /\ cleanup[w] => failed[w]
      /\ pc[w] = "create_request" => sandbox[o] = "none"
  BY <1>2 DEF Placed, Accounts, FailuresMarked, Busy, JobsDistinct
<1> HIDE DEF o
<1>5. CASE Created(w) \/ Rejected(w) \/ Uncertain(w)
  BY <1>1, <1>2, <1>3, <1>4, <1>5
     DEF Created, Rejected, Uncertain, Running, Stage, Held, o
<1>6. CASE StageOK(w) \/ StageFails(w)
  BY <1>1, <1>2, <1>3, <1>4, <1>6 DEF StageOK, StageFails, After, Running, Stage, o
<1>7. CASE DeleteAccepted(w) \/ DeleteObserved(w)
  BY <1>1, <1>2, <1>3, <1>4, <1>7
     DEF DeleteAccepted, DeleteObserved, Running, Held, FullLifecycle, o
<1>8. CASE CleanupFails(w)
  BY <1>1, <1>2, <1>3, <1>4, <1>8 DEF CleanupFails, Running, o
<1>9. CASE StopFlag(w)
  BY <1>1, <1>2, <1>3, <1>4, <1>9 DEF StopFlag, Running, o
<1>10. CASE StopCancel(w)
  BY <1>1, <1>2, <1>3, <1>4, <1>10 DEF StopCancel, Running, o
<1> QED
  BY <1>5, <1>6, <1>7, <1>8, <1>9, <1>10 DEF RunOne

\* The counters wait for the operation to end.
LEMMA RunOneAccounts ==
  ASSUME Placed, Accounts, NEW w \in Worker, RunOne(w)
  PROVE  Accounts'
<1> USE PoolTypes DEF Placed, Accounts
<1>1. Progress(w)
  BY RunOneProgresses
<1>2. /\ "receive" \notin Running \cup {"account"} /\ "admit" \notin Running \cup {"account"}
      /\ "exited" \notin Running \cup {"account"}
  BY DEF Running, Stage
<1>3. Busy' = Busy /\ w \in Busy
  BY <1>1 DEF Busy, Progress
<1>4. Started' = Started
  BY <1>1 DEF Started, Progress
<1>5. \A o \in Op : o # job[w] => Held(o)' = Held(o)
  BY <1>1 DEF Held, FullLifecycle, Progress
<1>6. \A v \in Busy : job[v] \in Op /\ owner[job[v]] = v
  BY DEF Busy, JobsDistinct, TypeOK, Op
<1>7. Lost' \subseteq Lost
  BY <1>1, <1>3, <1>4, <1>5, <1>6 DEF Lost, Started, Progress
<1>8. Counted'
  BY <1>1, <1>3, <1>4, <1>7, CountsStay, SameSummary DEF Progress
<1>9. FailuresMarked'
  <2>1. ASSUME NEW v \in Worker, v # w, pc[v] = "account"
        PROVE  Held(job[v])' = Held(job[v])
    <3>1. v \in Busy
      BY <2>1 DEF Busy
    <3>2. job[v] # job[w] /\ job[v] \in Op /\ job' = job
      BY <1>1, <1>3, <1>6, <2>1, <3>1 DEF Progress
    <3> QED
      BY <1>1, <3>2 DEF Progress, Held, FullLifecycle
  <2>2. ASSUME NEW v \in Worker
        PROVE  /\ pc'[v] \in {"flag", "cancel"} => failed'[v]
               /\ v \in Busy' /\ cleanup'[v] => failed'[v]
               /\ pc'[v] = "account" /\ Held(job[v])' => failed'[v]
    <3>1. CASE v = w
      BY <1>1, <3>1 DEF Progress
    <3>2. CASE v # w
      BY <1>1, <1>3, <2>1, <3>2 DEF Progress, FailuresMarked
    <3> QED
      BY <3>1, <3>2
  <2> QED
    BY <1>1, <2>2 DEF FailuresMarked, Progress
<1>10. StopsForCause'
  <2>1. /\ \A v \in Busy : failed[v] => failed'[v]
        /\ \A v \in Worker : pc[v] = "admit" => pc'[v] = "admit"
        /\ ContextDone => ContextDone'
    BY <1>1, <1>2 DEF Busy, Progress, ContextDone
  <2>2. unsafe' \/ cancelled' => summary'.failed > 0 \/ \E v \in Busy' : failed'[v]
    BY <1>1, <1>3, <2>1 DEF Progress, StopsForCause
  <2>3. main' # "send" => sent' = Operations \/ ContextDone'
    BY <1>1, <2>1 DEF Progress, StopsForCause
  <2>4. ASSUME NEW o \in Op, o <= sent'
        PROVE  \/ ContextDone' \/ unsafe' \/ owner'[o] # NoWorker
               \/ \E v \in Worker : job'[v] = o /\ pc'[v] = "admit"
    BY <1>1, <2>1, <2>4 DEF Progress, StopsForCause
  <2> QED
    BY <2>2, <2>3, <2>4 DEF StopsForCause, Op
<1>11. Reported'
  BY <1>1, <1>2 DEF Reported, Progress
<1> QED
  BY <1>8, <1>9, <1>10, <1>11

\* An operation that has ended is counted once, with what went wrong in it.
LEMMA AccountAccounts ==
  ASSUME Placed, Accounts, NEW w \in Worker, Account(w)
  PROVE  Accounts'
<1> USE PoolTypes DEF Placed, Accounts
<1> DEFINE o == job[w]
<1>1. /\ pc[w] = "account" /\ pc' = [pc EXCEPT ![w] = "receive"]
      /\ summary' = [summary EXCEPT !.inFlight = summary.inFlight - 1,
                       !.failed = IF failed[w] THEN summary.failed + 1 ELSE summary.failed,
                       !.completed = IF failed[w] THEN summary.completed
                                     ELSE summary.completed + 1,
                       !.cleanupFailures = IF cleanup[w] THEN summary.cleanupFailures + 1
                                           ELSE summary.cleanupFailures]
      /\ UNCHANGED <<dispatch, job, failed, cleanup, owner, sandbox, runErr>>
  BY DEF Account, Goto
<1>2. /\ pc'[w] = "receive" /\ \A v \in Worker : v # w => pc'[v] = pc[v]
      /\ "receive" \notin Running \cup {"account"}
  BY <1>1 DEF TypeOK, Running, Stage
<1>3. Busy' = Busy \ {w} /\ w \in Busy
  BY <1>1, <1>2 DEF Busy
<1>4. Started' = Started /\ o \in Started /\ owner[o] = w
  BY <1>1 DEF Started, JobsDistinct, TypeOK, Op
<1>5. \A p : Held(p)' = Held(p)
  BY <1>1, HeldStays DEF dispatch
<1>6. Lost' \subseteq IF failed[w] THEN Lost \cup {o} ELSE Lost
  <2>1. Held(o) => failed[w]
    BY <1>1 DEF FailuresMarked
  <2>2. SUFFICES ASSUME NEW p \in Lost', p \notin Lost
                 PROVE  p = o /\ failed[w]
    OBVIOUS
  <2>3. p \in Started /\ Held(p) /\ ~(owner[p] \in Busy' /\ job[owner[p]] = p)
    BY <1>1, <1>4, <1>5, <2>2 DEF Lost
  <2>4. owner[p] \in Busy /\ job[owner[p]] = p
    BY <2>2, <2>3 DEF Lost
  <2>5. p = o
    BY <1>3, <2>3, <2>4
  <2> QED
    BY <2>1, <2>3, <2>5
<1>7. /\ summary'.started = summary.started /\ summary'.inFlight = summary.inFlight - 1
      /\ summary'.peak = summary.peak
      /\ summary'.completed = (IF failed[w] THEN summary.completed ELSE summary.completed + 1)
      /\ summary'.failed = (IF failed[w] THEN summary.failed + 1 ELSE summary.failed)
      /\ summary'.cleanupFailures = (IF cleanup[w] THEN summary.cleanupFailures + 1
                                     ELSE summary.cleanupFailures)
  BY <1>1 DEF TypeOK, Summary
<1>8. cleanup[w] => failed[w]
  BY <1>3 DEF FailuresMarked
<1>9. Counted'
  <2>1. Cardinality(Busy') = Cardinality(Busy) - 1
    BY <1>3, FiniteParts, FS_RemoveElement
  <2>2. Cardinality(Lost') <= Cardinality(Lost) + (IF failed[w] THEN 1 ELSE 0)
    <3>0. /\ IsFiniteSet(Lost \cup {o})
          /\ Cardinality(Lost \cup {o}) = IF o \in Lost THEN Cardinality(Lost)
                                          ELSE Cardinality(Lost) + 1
      BY FiniteParts, FS_AddElement, Zenon
    <3>1. Cardinality(Lost \cup {o}) <= Cardinality(Lost) + 1 /\ IsFiniteSet(Lost \cup {o})
          /\ Cardinality(Lost \cup {o}) \in Nat
      BY <3>0, FiniteParts
    <3>2. CASE failed[w]
      <4>1. Lost' \subseteq Lost \cup {o}
        BY <1>6, <3>2
      <4>2. IsFiniteSet(Lost') /\ Cardinality(Lost') <= Cardinality(Lost \cup {o})
        BY <3>1, <4>1, FS_Subset
      <4> QED
        BY <3>1, <3>2, <4>2, FS_CardinalityType, FiniteParts
    <3>3. CASE ~failed[w]
      <4>1. Lost' \subseteq Lost
        BY <1>6, <3>3
      <4>2. IsFiniteSet(Lost') /\ Cardinality(Lost') <= Cardinality(Lost)
        BY <4>1, FiniteParts, FS_Subset
      <4> QED
        BY <3>3, <4>2, FS_CardinalityType, FiniteParts
    <3> QED
      BY <3>2, <3>3
  <2>3. Cardinality(Lost') \in Nat
    <3>1. Lost' \subseteq Op
      BY DEF Lost, Started, Op
    <3> QED
      BY <3>1, FinitePool, FS_Subset, FS_CardinalityType
  <2>4. /\ summary.inFlight = Cardinality(Busy) /\ summary.inFlight <= summary.peak
        /\ summary.peak <= Cardinality(Worker) /\ summary.started = Cardinality(Started)
        /\ summary.started = summary.inFlight + summary.completed + summary.failed
        /\ summary.cleanupFailures <= summary.failed /\ Cardinality(Lost) <= summary.failed
    BY DEF Counted
  <2> HIDE DEF Accounts
  <2>5. /\ summary'.inFlight = Cardinality(Busy') /\ summary'.inFlight <= summary'.peak
        /\ summary'.peak <= Cardinality(Worker) /\ summary'.started = Cardinality(Started')
    BY <1>4, <1>7, <2>1, <2>4, FiniteParts
  <2>6. /\ summary'.started = summary'.inFlight + summary'.completed + summary'.failed
        /\ summary'.cleanupFailures <= summary'.failed
    BY <1>7, <1>8, <2>4, FiniteParts
  <2>7. Cardinality(Lost') <= summary'.failed
    BY <1>7, <2>2, <2>3, <2>4, FiniteParts
  <2> QED
    BY <2>5, <2>6, <2>7 DEF Counted
<1>10. FailuresMarked'
  BY <1>1, <1>2, <1>3, <1>5 DEF FailuresMarked, Running, Stage
<1>11. StopsForCause'
  <2>1. \A v \in Worker : pc[v] = "admit" => pc'[v] = "admit"
    BY <1>1, <1>2
  <2>2. \/ summary'.failed > 0
        \/ ~failed[w] /\ summary'.failed = summary.failed
    BY <1>7
  <2>3. unsafe' \/ cancelled' => summary'.failed > 0 \/ \E v \in Busy' : failed'[v]
    BY <1>1, <1>3, <2>2 DEF StopsForCause, dispatch
  <2> QED
    BY <1>1, <2>1, <2>3 DEF StopsForCause, ContextDone, dispatch
<1>12. Reported'
  BY <1>1 DEF Reported, dispatch
<1> QED
  BY <1>9, <1>10, <1>11, <1>12

\* The steps of the Run goroutine and of the environment.
LEMMA OutsideAccounts ==
  ASSUME Placed, Accounts,
         UNCHANGED <<pc, job, failed, cleanup, owner, unsafe, cancelled, sent>>,
         expired => expired', main' # "send" => sent = Operations \/ ContextDone,
         \A o \in Op : Held(o)' => Held(o),
         \A f \in {"started", "inFlight", "peak", "completed", "failed", "cleanupFailures"} :
           summary'[f] = summary[f],
         Reported'
  PROVE  Accounts'
<1> USE PoolTypes DEF Placed, Accounts
<1>1. Busy' = Busy /\ Started' = Started
  BY DEF Busy, Started
<1>2. Lost' \subseteq Lost
  BY <1>1 DEF Lost, Started
<1>3. Counted'
  BY <1>1, <1>2, CountsStay
<1>4. FailuresMarked'
  <2>1. \A w \in Worker : pc[w] = "account" => job[w] \in Op
    BY DEF JobsDistinct, TypeOK, Op
  <2> QED
    BY <1>1, <2>1 DEF FailuresMarked
<1>5. StopsForCause'
  <2>1. summary'.failed = summary.failed
    OBVIOUS
  <2> QED
    BY <1>1, <2>1 DEF StopsForCause, ContextDone
<1> QED
  BY <1>3, <1>4, <1>5

\* The operations that never started are counted at the end.
LEMMA ReturnAccounts ==
  ASSUME Placed, Accounts, Return
  PROVE  Accounts'
<1> USE PoolTypes DEF Placed, Accounts
<1>1. /\ main = "wait" /\ main' = "done" /\ \A w \in Worker : pc[w] = "exited"
      /\ summary' = [summary EXCEPT !.unstarted = Operations - summary.started]
      /\ runErr' = (summary.failed > 0 \/ expired)
      /\ UNCHANGED <<scenario, sent, expired, cancelled, unsafe, pc, job, failed, cleanup,
                     owner, sandbox>>
  BY DEF Return, worker
<1>2. /\ \A f \in {"started", "inFlight", "peak", "completed", "failed", "cleanupFailures"} :
           summary'[f] = summary[f]
      /\ summary'.unstarted = Operations - summary.started
  BY <1>1 DEF TypeOK, Summary
<1>3. Reported'
  <2>1. ASSUME ~runErr'
        PROVE  summary'.failed = 0 /\ summary'.started = Operations
    <3>0. ~(summary.failed > 0 \/ expired)
      BY <1>1, <2>1, Zenon
    <3>1. summary.failed = 0 /\ ~expired
      BY <3>0
    <3>2. Busy = {} /\ \A w \in Worker : pc[w] # "admit"
      BY <1>1 DEF Busy, Running, Stage
    <3>3. ~unsafe /\ ~cancelled /\ sent = Operations
      BY <1>1, <3>1, <3>2 DEF StopsForCause, ContextDone
    <3>4. \A o \in Op : owner[o] # NoWorker
      BY <3>1, <3>2, <3>3 DEF StopsForCause, ContextDone, Op
    <3>5. Started = Op
      BY <3>4 DEF Started
    <3>6. summary'.failed = summary.failed /\ summary'.started = summary.started
      BY <1>2
    <3> QED
      BY <3>1, <3>5, <3>6, FinitePool DEF Counted
  <2>2. summary'.started = summary.started
    BY <1>2
  <2> QED
    BY <1>1, <1>2, <2>1, <2>2 DEF Reported
<1>4. \A o \in Op : Held(o)' => Held(o)
  BY <1>1, HeldStays
<1>5. main' # "send" => sent = Operations \/ ContextDone
  BY <1>1 DEF StopsForCause
<1> HIDE DEF Placed, Accounts
<1> QED
  BY <1>1, <1>2, <1>3, <1>4, <1>5, OutsideAccounts

\* What happens around the workers changes no counter.
LEMMA SurroundingAccounts ==
  ASSUME Placed, Accounts, CloseJobs \/ Expire \/ (\E o \in Op : Vanish(o)) \/ UNCHANGED vars
  PROVE  Accounts'
<1>1. /\ UNCHANGED <<pc, job, failed, cleanup, owner, unsafe, cancelled, sent, scenario,
                     summary, runErr>>
      /\ main' = main \/ (main' = "wait" /\ (sent = Operations \/ ContextDone))
      /\ expired => expired'
  BY DEF CloseJobs, Expire, Vanish, vars, dispatch, worker
<1>2. main' # "send" => sent = Operations \/ ContextDone
  BY <1>1 DEF Accounts, StopsForCause
<1>3. Reported'
  BY <1>1 DEF Accounts, Reported
<1>4. \A o \in Op : Held(o)' => Held(o)
  <2>1. CASE CloseJobs \/ Expire \/ UNCHANGED vars
    <3>1. sandbox' = sandbox
      BY <2>1 DEF CloseJobs, Expire, vars
    <3> QED
      BY <1>1, <3>1, HeldStays
  <2>2. ASSUME NEW p \in Op, Vanish(p)
        PROVE  \A o \in Op : Held(o)' => Held(o)
    <3>1. /\ sandbox' = [sandbox EXCEPT ![p] = "gone"]
          /\ sandbox \in [Op -> SandboxState]
      BY <2>2 DEF Vanish, Placed, TypeOK
    <3> QED
      BY <1>1, <3>1 DEF Held, FullLifecycle
  <2> QED
    BY <2>1, <2>2
<1>5. \A f \in {"started", "inFlight", "peak", "completed", "failed", "cleanupFailures"} :
        summary'[f] = summary[f]
  BY <1>1
<1> QED
  BY <1>1, <1>2, <1>3, <1>4, <1>5, OutsideAccounts

-----------------------------------------------------------------------------
(* The invariant and what it implies *)

\* All counters begin at zero.
LEMMA AccountsInit == Init => Accounts
<1> SUFFICES ASSUME Init
             PROVE  Accounts
  OBVIOUS
<1>1. Busy = {} /\ Started = {} /\ Lost = {}
  BY DEF Init, Busy, Started, Lost, Running, Stage
<1>2. /\ summary.started = 0 /\ summary.inFlight = 0 /\ summary.peak = 0
      /\ summary.completed = 0 /\ summary.failed = 0 /\ summary.cleanupFailures = 0
  BY DEF Init
<1>3. Counted
  BY <1>1, <1>2, FS_EmptySet, FinitePool DEF Counted
<1>4. FailuresMarked
  BY <1>1 DEF Init, FailuresMarked
<1>5. StopsForCause
  BY DEF Init, StopsForCause, Op
<1>6. Reported
  BY DEF Init, Reported
<1> QED
  BY <1>3, <1>4, <1>5, <1>6 DEF Accounts

\* Every step keeps the accounts.
LEMMA AccountsStep == Placed /\ Accounts /\ [Next]_vars => Accounts'
<1> SUFFICES ASSUME Placed, Accounts, [Next]_vars
             PROVE  Accounts'
  OBVIOUS
<1>1. ASSUME NEW w \in Worker, Dispatch(w)
      PROVE  Accounts'
  BY <1>1, DispatchAccounts
<1>2. ASSUME NEW w \in Worker, WorkerStep(w)
      PROVE  Accounts'
  BY <1>2, LeaveAccounts, AdmitAccounts, RunOneAccounts, AccountAccounts DEF WorkerStep
<1>3. CASE Return
  BY <1>3, ReturnAccounts
<1>4. CASE CloseJobs \/ Expire \/ (\E o \in Op : Vanish(o)) \/ UNCHANGED vars
  BY <1>4, SurroundingAccounts
<1> QED
  BY <1>1, <1>2, <1>3, <1>4 DEF Next, Pool, Returned

\* PoolInv: operations are never handed out twice, a worker holds at most the
\* sandbox of its current operation unless the pool has been stopped, and the
\* counters of the summary are what happened.
THEOREM PoolInvariant == Spec => []PoolInv
<1>1. Placed /\ Accounts => PoolInv
  BY DEF Placed, Accounts, PoolInv
<1> QED
  BY <1>1, AccountsInit, AccountsStep, PlacedInvariant, PTL DEF Spec

\* Once every worker has exited, the sandboxes still held are those that
\* finished operations left behind.
LEMMA HeldAtTheEnd ==
  ASSUME PoolInv, main = "done"
  PROVE  Busy = {} /\ \A o \in Op : Held(o) => o \in Lost
<1>1. Busy = {}
  BY DEF PoolInv, Reported, Busy, Running, Stage
<1> QED
  BY <1>1 DEF Lost, Started, Held, PoolInv, JobsDistinct

\* AccountsBalance: the operations counted as in flight are those in progress,
\* and the report adds up: what started completed or failed, what never started
\* is an error, and every live sandbox is accounted for by a failure.
THEOREM AccountsBalanceHolds == Spec => []AccountsBalance
<1>1. PoolInv => AccountsBalance
  <2> SUFFICES ASSUME PoolInv
               PROVE  AccountsBalance
    OBVIOUS
  <2> USE PoolTypes DEF PoolInv
  <2>1. /\ summary.inFlight = Cardinality({w \in Worker : pc[w] \in Running \cup {"account"}})
        /\ summary.inFlight <= summary.peak /\ summary.peak <= Cardinality(Worker)
    BY DEF Counted, Busy
  <2>2. ASSUME main = "done"
        PROVE  /\ summary.inFlight = 0
               /\ summary.started = summary.completed + summary.failed
               /\ summary.unstarted > 0 => runErr
               /\ Cardinality(Live) <= summary.failed
               /\ summary.cleanupFailures <= summary.failed
    <3>1. summary.inFlight = 0
      BY <2>2, HeldAtTheEnd, FS_EmptySet DEF Counted
    <3>2. summary.started = summary.completed + summary.failed
      BY <3>1 DEF Counted
    <3>3. summary.unstarted > 0 => runErr
      BY <2>2 DEF Reported
    <3>4. Live \subseteq Lost
      BY <2>2, HeldAtTheEnd DEF Live, Held
    <3>5. Cardinality(Live) <= Cardinality(Lost) /\ Cardinality(Live) \in Nat
      BY <3>4, FiniteParts, FS_Subset, FS_CardinalityType
    <3>6. Cardinality(Live) <= summary.failed
      BY <3>5, FiniteParts DEF Counted
    <3> QED
      BY <3>1, <3>2, <3>3, <3>6 DEF Counted
  <2> QED
    BY <2>1, <2>2 DEF AccountsBalance
<1> QED
  BY <1>1, PoolInvariant, PTL

\* SuccessMeansClean: a run that returns no error completed every operation,
\* and left no live sandbox, nor, in the lifecycle scenario, one being deleted.
THEOREM SuccessMeansCleanHolds == Spec => []SuccessMeansClean
<1>1. PoolInv => SuccessMeansClean
  <2> SUFFICES ASSUME PoolInv, main = "done", ~runErr
               PROVE  /\ summary.completed = Operations /\ summary.unstarted = 0
                      /\ summary.cleanupFailures = 0 /\ Live = {}
                      /\ FullLifecycle => Existing = {}
    BY DEF SuccessMeansClean
  <2> USE PoolTypes DEF PoolInv
  <2>1. summary.failed = 0 /\ summary.started = Operations
        /\ summary.unstarted = Operations - summary.started
    BY DEF Reported
  <2>2. summary.inFlight = 0
    BY HeldAtTheEnd, FS_EmptySet DEF Counted
  <2>3. summary.completed = Operations /\ summary.cleanupFailures = 0
    <3>1. /\ summary.started = summary.inFlight + summary.completed + summary.failed
          /\ summary.cleanupFailures <= summary.failed
          /\ summary.completed \in Nat /\ summary.cleanupFailures \in Nat
      BY DEF Counted
    <3> HIDE DEF PoolInv
    <3> QED
      BY <2>1, <2>2, <3>1
  <2>4. Lost = {}
    BY <2>1, FiniteParts, FS_EmptySet DEF Counted
  <2>5. \A o \in Op : ~Held(o)
    BY <2>4, HeldAtTheEnd
  <2>6. Live = {} /\ (FullLifecycle => Existing = {})
    BY <2>5 DEF Live, Existing, Held
  <2> QED
    BY <2>1, <2>3, <2>6
<1> QED
  BY <1>1, PoolInvariant, PTL
=============================================================================
