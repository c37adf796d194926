--------------------------- MODULE ExternalCheck ---------------------------
(***************************************************************************)
(* The guard's look at the public benchmark's workflow runs               *)
(* (internal/loadrunner/guard.go, checkExternalBenchmarks): two requests,  *)
(* one for the queued runs and one for those in progress, while GitHub     *)
(* moves the runs on.                                                      *)
(***************************************************************************)
EXTENDS Integers, FiniteSets

CONSTANTS
  Run,       \* workflow runs of the external repository
  Heavy,     \* those isHeavySandboxWorkflow recognises
  PerPage    \* the most runs one response lists: per_page in the request

ASSUME ExternalCheckAssumption ==
  Heavy \subseteq Run /\ PerPage \in Nat

VARIABLES
  state,      \* GitHub: the status of each run
  pc,         \* the check: idle, asking for the runs of a status, or its verdict
  response,   \* the answer on its way, if any
  throughout  \* history: the heavy runs pending ever since the check began

vars == <<state, pc, response, throughout>>

Status  == {"queued", "in_progress"}
Pending == {r \in Run : state[r] \in Status}

\* An answer lists runs or, be it an error, a bad status or an unreadable body, fails.
Nothing   == [kind |-> "none", runs |-> {}]
Failed    == [kind |-> "failed", runs |-> {}]
Lists(rs) == [kind |-> "runs", runs |-> rs]

Init == /\ state \in [Run -> Status \cup {"none", "completed"}]
        /\ pc = "idle"
        /\ response = Nothing
        /\ throughout = {}

-----------------------------------------------------------------------------
(* GitHub *)

Becomes(r, s) == /\ state' = [state EXCEPT ![r] = s]
                 /\ throughout' = IF s \in Status THEN throughout ELSE throughout \ {r}
                 /\ UNCHANGED <<pc, response>>

\* A run is requested, or requested again.
Enqueue(r) == state[r] \in {"none", "completed"} /\ Becomes(r, "queued")
Execute(r) == state[r] = "queued" /\ Becomes(r, "in_progress")
\* It ends, or is cancelled while queued.
Complete(r) == state[r] \in Status /\ Becomes(r, "completed")

GitHub == \E r \in Run : Enqueue(r) \/ Execute(r) \/ Complete(r)

-----------------------------------------------------------------------------
(* The check *)

\* Mutant of FirstStatus: the runs in progress are asked for first.
InProgressFirst == "in_progress"

FirstStatus == "queued"

BeginCheck == /\ pc = "idle"
              /\ pc' = FirstStatus
              /\ throughout' = Pending \cap Heavy
              /\ UNCHANGED <<state, response>>

\* GitHub answers as of now; the answer arrives later, or the request fails.
Answer == /\ pc \in Status /\ response = Nothing
          /\ response' \in {Lists({r \in Run : state[r] = pc}), Failed}
          /\ UNCHANGED <<state, pc, throughout>>

\* A response that may be incomplete is no better than none.
Clear(answer) == /\ answer # Failed
                 /\ Cardinality(answer.runs) <= PerPage
                 /\ answer.runs \cap Heavy = {}

\* checkExternalBenchmarkStatus returns.
Receive == /\ pc \in Status /\ response # Nothing
           /\ pc' = CASE ~Clear(response)   -> "blocked"
                      [] pc = FirstStatus   -> CHOOSE s \in Status : s # FirstStatus
                      [] OTHER              -> "passed"
           /\ response' = Nothing
           /\ UNCHANGED <<state, throughout>>

Next == GitHub \/ BeginCheck \/ Answer \/ Receive

Spec == Init /\ [][Next]_vars

-----------------------------------------------------------------------------

\* A check that passes has not overlooked a heavy run that was queued or in
\* progress from its first request to its last answer, although no answer shows
\* both states at once ("this forward transition cannot disappear from both
\* responses", guard.go).
CheckSound == [][pc # "passed" /\ pc' = "passed" => throughout = {}]_vars
=============================================================================
