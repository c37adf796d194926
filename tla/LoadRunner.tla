----------------------------- MODULE LoadRunner -----------------------------
(***************************************************************************)
(* The worker pool of the load runner (internal/loadrunner/runner.go, Run   *)
(* and runOneWithUnsafeReplacement): a send loop hands operations to        *)
(* workers over an unbuffered channel, each worker creates, exercises and   *)
(* deletes one sandbox per operation, and an outcome that may have left a   *)
(* sandbox behind stops the pool.                                           *)
(*                                                                         *)
(* The platform is external: a request may fail with or without effect,     *)
(* deletes are asynchronous, and a sandbox may vanish by itself.            *)
(***************************************************************************)
EXTENDS Integers, FiniteSets

CONSTANTS Worker,         \* the goroutines of the pool
          Operations,     \* LOAD_TEST_OPERATIONS
          Scenarios,      \* the values of LOAD_TEST_SCENARIO considered
          NoWorker

ASSUME LoadRunnerAssumption ==
  /\ Operations \in Nat \ {0}
  /\ Scenarios \subseteq {"create", "lifecycle"}
  /\ IsFiniteSet(Worker) /\ NoWorker \notin Worker
  \* Run rejects any other concurrency.
  /\ Cardinality(Worker) \in 1..Operations

VARIABLES
  scenario,   \* LOAD_TEST_SCENARIO, which never changes
  main,       \* the Run goroutine: in the send loop, waiting, or returned
  sent,       \* operations handed to workers
  expired,    \* timeoutCtx is done: run timeout, guard deadline or signal
  cancelled,  \* cancel() of the inner context was called
  unsafe,     \* replacementUnsafe
  pc,         \* the step each worker is about to take
  job,        \* the operation it last received
  failed,     \* whether that operation has an error so far
  cleanup,    \* ... and whether its cleanup failed
  owner,      \* the worker that started an operation
  sandbox,    \* what exists on the platform for an operation
  summary,    \* the counters of Summary
  runErr      \* Run's error, once it returned

dispatch == <<scenario, main, sent, expired, cancelled, unsafe>>
worker   == <<pc, job, failed, cleanup, owner>>
vars == <<dispatch, worker, sandbox, summary, runErr>>

FullLifecycle == scenario = "lifecycle"
Op == 1..Operations
\* What a created sandbox goes through before its deferred cleanup, by the names
\* that fail records.
Stage == {"wait_active", "verify_exec", "pause_request", "pause_wait_paused",
          "resume_request", "resume_wait_active", "verify_exec_after_resume"}
\* The steps of a worker between admission and accounting.
Running == {"create_request"} \cup Stage
             \cup {"delete_request", "delete_wait_deleted", "flag", "cancel"}
SandboxState == {"none", "live", "deleting", "gone"}
Summary == [started : Nat, inFlight : Int, peak : Int, completed : Nat,
            failed : Nat, cleanupFailures : Nat, unstarted : Int]

\* The stage that follows a successful one.
After == [wait_active              |-> "verify_exec",
          verify_exec              |-> IF FullLifecycle THEN "pause_request" ELSE "delete_request",
          pause_request            |-> "pause_wait_paused",
          pause_wait_paused        |-> "resume_request",
          resume_request           |-> "resume_wait_active",
          resume_wait_active       |-> "verify_exec_after_resume",
          verify_exec_after_resume |-> "delete_request"]

TypeOK == /\ scenario \in Scenarios
          /\ main \in {"send", "wait", "done"}
          /\ sent \in 0..Operations
          /\ expired \in BOOLEAN /\ cancelled \in BOOLEAN /\ unsafe \in BOOLEAN
          /\ pc \in [Worker -> {"receive", "admit", "account", "exited"} \cup Running]
          /\ job \in [Worker -> 0..Operations]
          /\ failed \in [Worker -> BOOLEAN] /\ cleanup \in [Worker -> BOOLEAN]
          /\ owner \in [Op -> Worker \cup {NoWorker}]
          /\ sandbox \in [Op -> SandboxState]
          /\ summary \in Summary
          /\ runErr \in BOOLEAN

Init == /\ scenario \in Scenarios
        /\ main = "send" /\ sent = 0
        /\ expired = FALSE /\ cancelled = FALSE /\ unsafe = FALSE
        /\ pc = [w \in Worker |-> "receive"]
        /\ job = [w \in Worker |-> 0]
        /\ failed = [w \in Worker |-> FALSE] /\ cleanup = [w \in Worker |-> FALSE]
        /\ owner = [o \in Op |-> NoWorker]
        /\ sandbox = [o \in Op |-> "none"]
        /\ summary = [started |-> 0, inFlight |-> 0, peak |-> 0, completed |-> 0,
                      failed |-> 0, cleanupFailures |-> 0, unstarted |-> Operations]
        /\ runErr = FALSE

ContextDone == expired \/ cancelled
Goto(w, l) == pc' = [pc EXCEPT ![w] = l]
Becomes(w, s) == sandbox' = [sandbox EXCEPT ![job[w]] = s]

-----------------------------------------------------------------------------
(* The send loop and the end of Run *)

\* An idle worker receives the next operation.
Dispatch(w) == /\ main = "send" /\ sent < Operations
               /\ pc[w] = "receive"
               /\ sent' = sent + 1
               /\ job' = [job EXCEPT ![w] = sent + 1]
               /\ Goto(w, "admit")
               /\ UNCHANGED <<scenario, main, expired, cancelled, unsafe, failed, cleanup, owner,
                              sandbox, summary, runErr>>

\* Mutant of CloseJobs: the send does not watch the context.
CloseJobsWhenSent == /\ main = "send"
                     /\ sent = Operations
                     /\ main' = "wait"
                     /\ UNCHANGED <<scenario, sent, expired, cancelled, unsafe, worker, sandbox,
                                    summary, runErr>>

\* The loop is over, or select took the done context; either closes the channel.
CloseJobs == /\ main = "send"
             /\ sent = Operations \/ ContextDone
             /\ main' = "wait"
             /\ UNCHANGED <<scenario, sent, expired, cancelled, unsafe, worker, sandbox,
                            summary, runErr>>

\* Mutant of Return: operations that never started are no error.
ReturnLenient ==
  /\ main = "wait"
  /\ \A w \in Worker : pc[w] = "exited"
  /\ main' = "done"
  /\ summary' = [summary EXCEPT !.unstarted = Operations - summary.started]
  /\ runErr' = (summary.failed > 0)
  /\ UNCHANGED <<scenario, sent, expired, cancelled, unsafe, worker, sandbox>>

\* wg.Wait returns: the summary and the error of Run.
Return == /\ main = "wait"
          /\ \A w \in Worker : pc[w] = "exited"
          /\ main' = "done"
          /\ summary' = [summary EXCEPT !.unstarted = Operations - summary.started]
          /\ runErr' = (summary.failed > 0 \/ expired)
          /\ UNCHANGED <<scenario, sent, expired, cancelled, unsafe, worker, sandbox>>

-----------------------------------------------------------------------------
(* A worker *)

\* The channel is closed and drained.
Exit(w) == /\ pc[w] = "receive" /\ main # "send"
           /\ Goto(w, "exited")
           /\ UNCHANGED <<dispatch, job, failed, cleanup, owner, sandbox, summary, runErr>>

\* Under the mutex: drop the operation once work must stop, else start it.
Refuse(w) == /\ pc[w] = "admit"
             /\ ContextDone \/ unsafe
             /\ Goto(w, "exited")
             /\ UNCHANGED <<dispatch, job, failed, cleanup, owner, sandbox, summary, runErr>>

Admit(w) == /\ pc[w] = "admit"
            /\ ~ContextDone /\ ~unsafe
            /\ LET inFlight == summary.inFlight + 1
               IN summary' = [summary EXCEPT !.started = @ + 1, !.inFlight = inFlight,
                                !.peak = IF inFlight > @ THEN inFlight ELSE @]
            /\ owner' = [owner EXCEPT ![job[w]] = w]
            /\ failed' = [failed EXCEPT ![w] = FALSE]
            /\ cleanup' = [cleanup EXCEPT ![w] = FALSE]
            /\ Goto(w, "create_request")
            /\ UNCHANGED <<dispatch, job, sandbox, runErr>>

Created(w) == /\ pc[w] = "create_request"
              /\ Becomes(w, "live")
              /\ Goto(w, "wait_active")
              /\ UNCHANGED <<dispatch, job, failed, cleanup, owner, summary, runErr>>

\* A definite client rejection: 404, or any 4xx but 408.
Rejected(w) == /\ pc[w] = "create_request"
               /\ failed' = [failed EXCEPT ![w] = TRUE]
               /\ Goto(w, "account")
               /\ UNCHANGED <<dispatch, job, cleanup, owner, sandbox, summary, runErr>>

\* Mutants of Uncertain: the pool goes on; the operation does not fail.
UncertainGoesOn(w) == /\ pc[w] = "create_request"
                      /\ \E s \in {"none", "live"} : Becomes(w, s)
                      /\ failed' = [failed EXCEPT ![w] = TRUE]
                      /\ Goto(w, "account")
                      /\ UNCHANGED <<dispatch, job, cleanup, owner, summary, runErr>>
UncertainForgiven(w) == /\ pc[w] = "create_request"
                        /\ \E s \in {"none", "live"} : Becomes(w, s)
                        /\ Goto(w, "flag")
                        /\ UNCHANGED <<dispatch, job, failed, cleanup, owner, summary, runErr>>

\* Any other error, or a response without an ID: there may be a sandbox nobody
\* can delete.  The pool is stopped before the operation is accounted for.
Uncertain(w) == /\ pc[w] = "create_request"
                /\ \E s \in {"none", "live"} : Becomes(w, s)
                /\ failed' = [failed EXCEPT ![w] = TRUE]
                /\ Goto(w, "flag")
                /\ UNCHANGED <<dispatch, job, cleanup, owner, summary, runErr>>

\* A stage succeeds on a sandbox that is there, or fails; a failure goes
\* straight to the deferred cleanup.
StageOK(w) == /\ pc[w] \in Stage
              /\ sandbox[job[w]] = "live"
              /\ Goto(w, After[pc[w]])
              /\ UNCHANGED <<dispatch, job, failed, cleanup, owner, sandbox, summary, runErr>>

StageFails(w) == /\ pc[w] \in Stage
                 /\ failed' = [failed EXCEPT ![w] = TRUE]
                 /\ Goto(w, "delete_request")
                 /\ UNCHANGED <<dispatch, job, cleanup, owner, sandbox, summary, runErr>>

\* The delete is accepted, or the sandbox is gone already (404).  Only the
\* lifecycle scenario then waits for the deletion to complete.
DeleteAccepted(w) == /\ pc[w] = "delete_request"
                     /\ Becomes(w, IF sandbox[job[w]] = "live" THEN "deleting" ELSE "gone")
                     /\ Goto(w, IF FullLifecycle THEN "delete_wait_deleted" ELSE "account")
                     /\ UNCHANGED <<dispatch, job, failed, cleanup, owner, summary, runErr>>

DeleteObserved(w) == /\ pc[w] = "delete_wait_deleted"
                     /\ sandbox[job[w]] = "gone"
                     /\ Goto(w, "account")
                     /\ UNCHANGED <<dispatch, job, failed, cleanup, owner, sandbox, summary, runErr>>

\* Mutant of CleanupFails: the pool goes on.
CleanupGoesOn(w) ==
  /\ pc[w] \in {"delete_request", "delete_wait_deleted"}
  /\ UNCHANGED sandbox
  /\ failed' = [failed EXCEPT ![w] = TRUE]
  /\ cleanup' = [cleanup EXCEPT ![w] = TRUE]
  /\ Goto(w, "account")
  /\ UNCHANGED <<dispatch, job, owner, summary, runErr>>

\* The request or the wait fails or times out; the request may have had its effect.
CleanupFails(w) ==
  /\ pc[w] \in {"delete_request", "delete_wait_deleted"}
  /\ \/ UNCHANGED sandbox
     \/ pc[w] = "delete_request" /\ sandbox[job[w]] = "live" /\ Becomes(w, "deleting")
  /\ failed' = [failed EXCEPT ![w] = TRUE]
  /\ cleanup' = [cleanup EXCEPT ![w] = TRUE]
  /\ Goto(w, "flag")
  /\ UNCHANGED <<dispatch, job, owner, summary, runErr>>

\* stopDispatch: the flag under the mutex, then, outside it, the context.
StopFlag(w) == /\ pc[w] = "flag"
               /\ unsafe' = TRUE
               /\ Goto(w, "cancel")
               /\ UNCHANGED <<scenario, main, sent, expired, cancelled, job, failed, cleanup, owner,
                              sandbox, summary, runErr>>

StopCancel(w) == /\ pc[w] = "cancel"
                 /\ cancelled' = TRUE
                 /\ Goto(w, "account")
                 /\ UNCHANGED <<scenario, main, sent, expired, unsafe, job, failed, cleanup, owner,
                                sandbox, summary, runErr>>

\* The operation is over: addResult under the mutex, then the next receive.
Account(w) == /\ pc[w] = "account"
              /\ summary' = [summary EXCEPT !.inFlight = @ - 1,
                               !.failed = IF failed[w] THEN @ + 1 ELSE @,
                               !.completed = IF failed[w] THEN @ ELSE @ + 1,
                               !.cleanupFailures = IF cleanup[w] THEN @ + 1 ELSE @]
              /\ Goto(w, "receive")
              /\ UNCHANGED <<dispatch, job, failed, cleanup, owner, sandbox, runErr>>

RunOne(w) == \/ Created(w) \/ Rejected(w) \/ Uncertain(w)
             \/ StageOK(w) \/ StageFails(w)
             \/ DeleteAccepted(w) \/ DeleteObserved(w) \/ CleanupFails(w)
             \/ StopFlag(w) \/ StopCancel(w)

WorkerStep(w) == Exit(w) \/ Refuse(w) \/ Admit(w) \/ RunOne(w) \/ Account(w)

-----------------------------------------------------------------------------
(* Environment *)

\* The run timeout, the guard's deadline or a signal.
Expire == /\ ~expired
          /\ expired' = TRUE
          /\ UNCHANGED <<scenario, main, sent, cancelled, unsafe, worker, sandbox, summary, runErr>>

\* A deletion completes, or a sandbox ends on the platform's own account.
Vanish(o) == /\ sandbox[o] \in {"live", "deleting"}
             /\ sandbox' = [sandbox EXCEPT ![o] = "gone"]
             /\ UNCHANGED <<dispatch, worker, summary, runErr>>

\* Run has returned.
Returned == main = "done" /\ UNCHANGED vars

Pool == CloseJobs \/ Return \/ \E w \in Worker : Dispatch(w) \/ WorkerStep(w)

Next == Pool \/ Expire \/ (\E o \in Op : Vanish(o)) \/ Returned

Spec == Init /\ [][Next]_vars

\* Every request, wait and cleanup carries a timeout, so each worker and the
\* Run goroutine always get on with their next step.  Nothing is assumed of the
\* platform or of the clock.
Fairness == /\ WF_vars(CloseJobs) /\ WF_vars(Return)
            /\ WF_vars(\E w \in Worker : Dispatch(w))
            /\ \A w \in Worker : WF_vars(WorkerStep(w))

FairSpec == Spec /\ Fairness

-----------------------------------------------------------------------------
(* Properties *)

Existing == {o \in Op : sandbox[o] \in {"live", "deleting"}}
Live     == {o \in Op : sandbox[o] = "live"}

\* Sandboxes that exist at one time, tracked or not, never outnumber the
\* workers: a replacement starts only once its predecessor is gone, or never.
WorkerLimit == FullLifecycle => Cardinality(Existing) <= Cardinality(Worker)

\* In the create scenario deletion is not awaited; still, sandboxes no delete
\* was accepted for never outnumber the workers.
LiveLimit == Cardinality(Live) <= Cardinality(Worker)

\* A run that returns no error ran every operation to completion and left no
\* sandbox that nobody asked to delete; in the lifecycle scenario, none at all.
SuccessMeansClean ==
  main = "done" /\ ~runErr =>
     /\ summary.completed = Operations /\ summary.unstarted = 0 /\ summary.cleanupFailures = 0
     /\ Live = {}
     /\ FullLifecycle => Existing = {}

\* The counters are what happened: those in flight are, at any time, the
\* operations in progress, their peak exceeds no worker pool, and at the end they
\* add up, operations that never started fail the run, and every sandbox left
\* behind is accounted for by a failure.
AccountsBalance ==
  /\ summary.inFlight = Cardinality({w \in Worker : pc[w] \in Running \cup {"account"}})
  /\ summary.inFlight <= summary.peak /\ summary.peak <= Cardinality(Worker)
  /\ main = "done" =>
       /\ summary.inFlight = 0
       /\ summary.started = summary.completed + summary.failed
       /\ summary.unstarted > 0 => runErr
       /\ Cardinality(Live) <= summary.failed
       /\ summary.cleanupFailures <= summary.failed

\* The run always returns: no worker, sender or cancellation waits for another
\* for ever, however operations fail.
Returns == <>(main = "done")
-----------------------------------------------------------------------------
(* The inductive invariant behind the properties *)

\* A sandbox that keeps its worker from starting another.
Held(o) == \/ sandbox[o] = "live"
           \/ FullLifecycle /\ sandbox[o] = "deleting"

\* Operations are handed out once, and only a started one has a sandbox.
JobsDistinct ==
  /\ \A w \in Worker : job[w] <= sent
  /\ \A v, w \in Worker : job[v] = job[w] => v = w \/ job[v] = 0
  /\ \A w \in Worker : pc[w] \in {"admit", "account"} \cup Running => job[w] >= 1
  /\ \A o \in Op : owner[o] # NoWorker => o <= sent
  /\ \A o \in Op : sandbox[o] # "none" => owner[o] # NoWorker
  /\ \A w \in Worker : pc[w] = "admit" => owner[job[w]] = NoWorker
  /\ \A w \in Worker : pc[w] \in Running \cup {"account"} => owner[job[w]] = w
  /\ \A w \in Worker : pc[w] = "create_request" => sandbox[job[w]] = "none"

\* A worker has at most the sandbox of its current operation, or the pool is unsafe.
HeldByOwner ==
  \A o \in Op : Held(o) =>
     /\ pc[owner[o]] \notin Running \/ pc[owner[o]] = "cancel" => unsafe
     /\ pc[owner[o]] \in Running => job[owner[o]] = o
     /\ \A p \in Op : Held(p) /\ owner[p] = owner[o] => p = o

Busy    == {w \in Worker : pc[w] \in Running \cup {"account"}}
Started == {o \in Op : owner[o] # NoWorker}
\* Sandboxes that an operation which is over has left behind.
Lost    == {o \in Started : Held(o) /\ ~(owner[o] \in Busy /\ job[owner[o]] = o)}

\* An operation that leaves a sandbox, or stops the pool, ends as a failure.
FailuresMarked ==
  \A w \in Worker : /\ pc[w] \in {"flag", "cancel"} => failed[w]
                    /\ w \in Busy /\ cleanup[w] => failed[w]
                    /\ pc[w] = "account" /\ Held(job[w]) => failed[w]

Counted ==
  /\ summary.inFlight = Cardinality(Busy)
  /\ summary.inFlight <= summary.peak /\ summary.peak <= Cardinality(Worker)
  /\ summary.started = Cardinality(Started)
  /\ summary.started = summary.inFlight + summary.completed + summary.failed
  /\ summary.cleanupFailures <= summary.failed
  /\ Cardinality(Lost) <= summary.failed

\* Only a failure stops the pool from within, and only a stop keeps an operation
\* from being handed out and started.
StopsForCause ==
  /\ unsafe \/ cancelled => summary.failed > 0 \/ \E w \in Busy : failed[w]
  /\ main # "send" => sent = Operations \/ ContextDone
  /\ \A o \in Op : o <= sent => \/ ContextDone \/ unsafe \/ owner[o] # NoWorker
                               \/ \E w \in Worker : job[w] = o /\ pc[w] = "admit"

Reported ==
  main = "done" => /\ \A w \in Worker : pc[w] = "exited"
                   /\ summary.unstarted = Operations - summary.started
                   /\ ~runErr => summary.failed = 0 /\ summary.started = Operations

\* With the types of the variables.
PoolInv == /\ TypeOK /\ JobsDistinct /\ HeldByOwner
           /\ FailuresMarked /\ Counted /\ StopsForCause /\ Reported
=============================================================================
