------------------------------ MODULE UICanary ------------------------------
(***************************************************************************)
(* The UI canary (internal/uicanary): one run drives the Console in a       *)
(* browser through the life of one sandbox.  The browser shows only part of *)
(* what happened: the request that creates the sandbox may be carried out   *)
(* after the run has given up on it, its ID reaches the run through a       *)
(* goroutine that reads the response or through the page, and a sandbox     *)
(* that has left the list may still exist.  What a page shows, and when it  *)
(* fails, is nondeterministic; every wait may time out.                     *)
(***************************************************************************)
EXTENDS Naturals

CONSTANTS MaxTagAttempts   \* maxTagAttempts

ASSUME UIAssumption == MaxTagAttempts \in Nat \ {0}

VARIABLES
  pc,
  config,      \* api: the Tagger and the Recovery are there; prefix: ExpectedSandboxIDPrefix is
  created,     \* where the Console's active team creates, and the form of the ID
  cancelled,   \* the run's context has ended
  name, id, deleted,   \* createdSandboxName and createdSandboxID are set; sandboxDeleted
  rejected,    \* the tracker holds an error
  reader,      \* the goroutine that reads the response to the creation
  attempts,    \* the calls of TagSandbox that failed
  cleaner,     \* which of its calls deleteSandboxInUI is in
  stage,       \* how far that call is
  status,      \* deleteStatus, of each call
  recovery,    \* what became of the recovery through the API
  err,         \* RunResult.Err is set
  creation,    \* backend: the request that creates the sandbox
  deletion,    \* backend: the request to delete it that each call sent
  box          \* backend: the sandbox

run     == <<name, deleted, err>>
cleanup == <<cleaner, stage, status, deletion>>
fixed   == <<config, created>>
vars == <<pc, fixed, cancelled, run, id, rejected, reader, attempts, cleanup,
          recovery, creation, box>>

\* The calls of deleteSandboxInUI: the last step, and the two of cleanupSandbox.
Cleaners == {"lifecycle", "tag", "deferred"}

Locations == [home : {"target", "elsewhere"}, form : {"regional", "foreign", "uuid"}]

TypeOK ==
  /\ pc \in {"start", "authenticate", "select_team", "create_sandbox", "poll", "list",
             "validate_target", "tag_sandbox", "ready", "terminal_exec", "pause_sandbox",
             "resume_sandbox", "delete", "deferred", "recover", "recover_delete",
             "return", "skipped", "done"}
  /\ config \in [api : BOOLEAN, prefix : BOOLEAN] /\ created \in Locations
  /\ {cancelled, name, id, deleted, rejected, err} \subseteq BOOLEAN
  /\ reader \in {"none", "reading", "done"}
  /\ attempts \in 0..MaxTagAttempts
  /\ cleaner \in Cleaners /\ stage \in {"open", "confirm", "close", "await"}
  /\ status \in [Cleaners -> {"none", "accepted", "refused"}]
  /\ deletion \in [Cleaners -> {"none", "sent", "accepted", "refused"}]
  /\ recovery \in {"none", "listed", "failed"}
  /\ creation \in {"none", "sent", "created", "late", "rejected"}
  /\ box \in {"none", "live", "gone"}

\* A sandbox of the target's own team has no ID of another region.
Init ==
  /\ pc = "start" /\ cancelled = FALSE
  /\ config \in [api : BOOLEAN, prefix : BOOLEAN]
  /\ created \in {l \in Locations : l.home = "target" => l.form # "foreign"}
  /\ name = FALSE /\ id = FALSE /\ deleted = FALSE
  /\ rejected = FALSE /\ reader = "none" /\ attempts = 0
  /\ cleaner = "lifecycle" /\ stage = "open"
  /\ status = [c \in Cleaners |-> "none"] /\ deletion = [c \in Cleaners |-> "none"]
  /\ recovery = "none" /\ err = FALSE /\ creation = "none" /\ box = "none"

\* Return with an error from runLifecycle: the deferred cleanup is next.
Fail == err' = TRUE /\ pc' = "deferred" /\ UNCHANGED <<name, deleted>>

\* Go on to the next step, which a cancelled context keeps a step from.
Proceed(next) == ~cancelled /\ pc' = next /\ UNCHANGED run

-----------------------------------------------------------------------------
(* The run until its sandbox is known *)

\* The lease of the target's UI runs: taken, held by another run, or an error.
AcquireLock ==
  /\ pc = "start"
  /\ \/ Proceed("authenticate")
     \/ pc' = "skipped" /\ UNCHANGED run
     \/ pc' = "done" /\ err' = TRUE /\ UNCHANGED <<name, deleted>>
  /\ UNCHANGED <<fixed, cancelled, id, rejected, reader, attempts, cleanup, recovery,
                 creation, box>>

Authenticate ==
  /\ pc = "authenticate"
  /\ Proceed("select_team") \/ Fail
  /\ UNCHANGED <<fixed, cancelled, id, rejected, reader, attempts, cleanup, recovery,
                 creation, box>>

\* Mutant of SelectTargetTeam: the name is noted only with the ID.
SelectsUnnoted ==
  /\ pc = "select_team"
  /\ Proceed("create_sandbox") \/ Fail
  /\ UNCHANGED <<fixed, cancelled, id, rejected, reader, attempts, cleanup, recovery,
                 creation, box>>

\* The run and its deferred cleanup share the name from here on.
NoteName == name' = TRUE /\ UNCHANGED <<deleted, err>>

\* The name is noted before anything is created.
SelectTargetTeam ==
  /\ pc = "select_team"
  /\ \/ ~cancelled /\ pc' = "create_sandbox" /\ NoteName
     \/ Fail
  /\ UNCHANGED <<fixed, cancelled, id, rejected, reader, attempts, cleanup, recovery,
                 creation, box>>

\* The dialog, the safety settings and the click on its button.  A click that
\* reports an error may have been carried out.
SubmitCreate ==
  /\ pc = "create_sandbox"
  /\ \/ Proceed("poll") /\ creation' = "sent"
     \/ Fail /\ creation' \in {"none", "sent"}
  /\ UNCHANGED <<fixed, cancelled, id, rejected, reader, attempts, cleanup, recovery, box>>

\* An ID in the connect dialog, in the URL of the page, or behind the row that has
\* the sandbox's name.
ShowsID == creation = "created"

\* checkCreationError comes first in each turn of the loop: the tracker's error
\* ends it, as an error that the page shows may.
PollCreate ==
  /\ pc = "poll"
  /\ \/ Fail /\ UNCHANGED id
     \/ ~rejected /\ ShowsID /\ id' = TRUE /\ Proceed("validate_target")
     \/ ~rejected /\ id /\ pc' = "validate_target" /\ UNCHANGED <<id, run>>
     \/ ~rejected /\ ~id /\ UNCHANGED id /\ Proceed("list")
  /\ UNCHANGED <<fixed, cancelled, rejected, reader, attempts, cleanup, recovery,
                 creation, box>>

\* The last look, at the list of sandboxes.
LookInList ==
  /\ pc = "list"
  /\ \/ Fail /\ UNCHANGED id
     \/ ~rejected /\ ShowsID /\ id' = TRUE /\ Proceed("validate_target")
     \/ id /\ pc' = "validate_target" /\ UNCHANGED <<id, run>>
  /\ UNCHANGED <<fixed, cancelled, rejected, reader, attempts, cleanup, recovery,
                 creation, box>>

\* The page's response handler starts a goroutine, while createSandboxInUI listens.
ResponseHandler ==
  /\ pc \in {"poll", "list"} /\ reader = "none" /\ creation \in {"created", "rejected"}
  /\ reader' = "reading"
  /\ UNCHANGED <<pc, fixed, cancelled, run, id, rejected, attempts, cleanup, recovery,
                 creation, box>>

\* It reads the body, which may fail, and may be done when createSandboxInUI has
\* long returned.
ReadResponse ==
  /\ reader = "reading" /\ reader' = "done"
  /\ \/ creation = "rejected" /\ rejected' = TRUE /\ UNCHANGED id
     \/ creation # "rejected" /\ id' = TRUE /\ UNCHANGED rejected
     \/ creation # "rejected" /\ UNCHANGED <<id, rejected>>
  /\ UNCHANGED <<pc, fixed, cancelled, run, attempts, cleanup, recovery, creation, box>>

-----------------------------------------------------------------------------
(* The run in its sandbox *)

\* Mutant of Compatible: such an ID passes without a tagger.
CompatibleUntagged == ~config.prefix \/ created.form \in {"regional", "uuid"}

\* sandboxTargetCompatible: an ID that names no region is left to the tagging.
Compatible == \/ ~config.prefix
              \/ created.form = "regional"
              \/ created.form = "uuid" /\ config.api

ValidateTarget ==
  /\ pc = "validate_target"
  /\ \/ Compatible /\ pc' = "tag_sandbox" /\ UNCHANGED run
     \/ ~Compatible /\ Fail
  /\ UNCHANGED <<fixed, cancelled, id, rejected, reader, attempts, cleanup, recovery,
                 creation, box>>

\* A call of deleteSandboxInUI.
StartDelete(c) == pc' = "delete" /\ cleaner' = c /\ stage' = "open"

\* The regional API knows only the sandboxes of the target's own team.
KnownToAPI == created.home = "target" /\ box = "live"

GivesUp == attempts + 1 = MaxTagAttempts \/ cancelled

\* Without the API there is nothing to tag with.  The last failure, or one after
\* which the context has ended, has the sandbox deleted at once.
TagSandbox ==
  /\ pc = "tag_sandbox"
  /\ \/ /\ config.api => KnownToAPI /\ ~cancelled
        /\ pc' = "ready" /\ UNCHANGED <<attempts, err, cleaner, stage>>
     \/ /\ config.api
        /\ attempts' = attempts + 1
        /\ IF GivesUp
             THEN StartDelete("tag") /\ err' = TRUE
             ELSE UNCHANGED <<pc, err, cleaner, stage>>
  /\ UNCHANGED <<fixed, cancelled, name, deleted, id, rejected, reader, status, deletion,
                 recovery, creation, box>>

\* The steps of the scenario between the tagging and the deletion, in their order.
After == [ready |-> "terminal_exec", terminal_exec |-> "pause_sandbox",
          pause_sandbox |-> "resume_sandbox"]

LifecycleStep ==
  /\ pc \in DOMAIN After
  /\ Proceed(After[pc]) \/ Fail
  /\ UNCHANGED <<fixed, cancelled, id, rejected, reader, attempts, cleanup, recovery,
                 creation, box>>

ResumeSandbox ==
  /\ pc = "resume_sandbox"
  /\ \/ ~cancelled /\ StartDelete("lifecycle") /\ UNCHANGED run
     \/ Fail /\ UNCHANGED <<cleaner, stage>>
  /\ UNCHANGED <<fixed, cancelled, id, rejected, reader, attempts, status, deletion,
                 recovery, creation, box>>

-----------------------------------------------------------------------------
(* deleteSandboxInUI *)

\* Mutant of AfterFailedDelete: the UI's failure is the last word.
TrustsUI == IF cleaner = "deferred" THEN "return" ELSE "deferred"

\* What its three callers do with a failed deletion, and with one that is confirmed.
AfterFailedDelete == IF cleaner = "deferred" THEN "recover" ELSE "deferred"

DeleteFails ==
  /\ pc = "delete" /\ pc' = AfterFailedDelete
  /\ err' = (err \/ cleaner = "lifecycle")
  /\ deletion' \in {deletion, [deletion EXCEPT ![cleaner] =   \* the click may have worked
                                 IF stage = "confirm" THEN "sent" ELSE @]}
  /\ UNCHANGED <<fixed, cancelled, name, deleted, id, rejected, reader, attempts, cleaner,
                 stage, status, recovery, creation, box>>

DeleteReturns ==
  /\ pc' = IF cleaner = "deferred" THEN "return" ELSE "deferred"
  /\ deleted' = (deleted \/ cleaner # "deferred")

\* The detail page, its menu, and the dialog with the sandbox's name.
OpenDeleteDialog ==
  /\ pc = "delete" /\ stage = "open" /\ stage' = "confirm"
  /\ UNCHANGED <<pc, fixed, cancelled, run, id, rejected, reader, attempts, cleaner, status,
                 deletion, recovery, creation, box>>

ConfirmDelete ==
  /\ pc = "delete" /\ stage = "confirm" /\ stage' = "close"
  /\ deletion' = [deletion EXCEPT ![cleaner] = "sent"]
  /\ UNCHANGED <<pc, fixed, cancelled, run, id, rejected, reader, attempts, cleaner, status,
                 recovery, creation, box>>

DialogCloses ==
  /\ pc = "delete" /\ stage = "close" /\ stage' = "await"
  /\ UNCHANGED <<pc, fixed, cancelled, run, id, rejected, reader, attempts, cleaner, status,
                 deletion, recovery, creation, box>>

\* The handler of the call's own page notes the status of the response.
DeleteResponse ==
  /\ pc = "delete" /\ status[cleaner] = "none" /\ deletion[cleaner] \in {"accepted", "refused"}
  /\ status' = [status EXCEPT ![cleaner] = deletion[cleaner]]
  /\ UNCHANGED <<pc, fixed, cancelled, run, id, rejected, reader, attempts, cleaner, stage,
                 deletion, recovery, creation, box>>

\* Mutant of Confirmed: the list is enough, but for a refusal.
ConfirmedByList == status[cleaner] # "refused"

\* The row may be gone from the list whatever became of the request.
Confirmed == status[cleaner] = "accepted"

AwaitDeletion ==
  /\ pc = "delete" /\ stage = "await" /\ Confirmed
  /\ DeleteReturns
  /\ UNCHANGED <<fixed, cancelled, name, err, id, rejected, reader, attempts, cleanup,
                 recovery, creation, box>>

-----------------------------------------------------------------------------
(* The deferred calls *)

\* One look at the three variables, under their mutex.
DeferredCleanup ==
  /\ pc = "deferred"
  /\ \/ (deleted \/ ~name) /\ pc' = "return" /\ UNCHANGED <<cleaner, stage>>
     \/ ~deleted /\ name /\ id /\ StartDelete("deferred")
     \/ ~deleted /\ name /\ ~id /\ pc' = "recover" /\ UNCHANGED <<cleaner, stage>>
  /\ UNCHANGED <<fixed, cancelled, run, id, rejected, reader, attempts, status, deletion,
                 recovery, creation, box>>

\* recoverSandbox: by the metadata that the sandbox was created with.
ListRun ==
  /\ pc = "recover"
  /\ \/ /\ config.api /\ recovery' = "listed"
        /\ pc' = IF KnownToAPI THEN "recover_delete" ELSE "return"
     \/ recovery' = "failed" /\ pc' = "return"
  /\ UNCHANGED <<fixed, cancelled, run, id, rejected, reader, attempts, cleanup, creation, box>>

\* A sandbox that is not found counts as deleted.
DeleteRecovered ==
  /\ pc = "recover_delete" /\ pc' = "return"
  /\ \/ box' = "gone" /\ UNCHANGED recovery
     \/ box' \in {box, "gone"} /\ recovery' = "failed"
  /\ UNCHANGED <<fixed, cancelled, run, id, rejected, reader, attempts, cleanup, creation>>

Return ==
  /\ pc = "return" /\ pc' = "done" /\ err' = (err \/ cancelled)
  /\ UNCHANGED <<fixed, cancelled, name, deleted, id, rejected, reader, attempts, cleanup,
                 recovery, creation, box>>

-----------------------------------------------------------------------------
(* The Console's backend, and the end of the context *)

Cancel ==
  /\ ~cancelled /\ cancelled' = TRUE
  /\ UNCHANGED <<pc, fixed, run, id, rejected, reader, attempts, cleanup, recovery,
                 creation, box>>

\* The request may still be carried out after the run has given up, or looked for
\* what it created.
BackendCreate ==
  /\ creation = "sent"
  /\ \/ /\ creation' = IF recovery = "none" THEN "created" ELSE "late"
        /\ box' = "live"
     \/ creation' = "rejected" /\ UNCHANGED box
  /\ UNCHANGED <<pc, fixed, cancelled, run, id, rejected, reader, attempts, cleanup, recovery>>

BackendDelete(c) ==
  /\ deletion[c] = "sent"
  /\ \/ box = "live" /\ box' = "gone" /\ deletion' = [deletion EXCEPT ![c] = "accepted"]
     \/ deletion' = [deletion EXCEPT ![c] = "refused"] /\ UNCHANGED box
  /\ UNCHANGED <<pc, fixed, cancelled, run, id, rejected, reader, attempts, cleaner, stage,
                 status, recovery, creation>>

\* The safety settings that every sandbox is created with.
Expire ==
  /\ box = "live" /\ box' = "gone"
  /\ UNCHANGED <<pc, fixed, cancelled, run, id, rejected, reader, attempts, cleanup, recovery,
                 creation>>

Stopped == pc \in {"done", "skipped"} /\ UNCHANGED vars

Next ==
  \/ AcquireLock \/ Authenticate \/ SelectTargetTeam
  \/ SubmitCreate \/ PollCreate \/ LookInList \/ ResponseHandler \/ ReadResponse
  \/ ValidateTarget \/ TagSandbox \/ LifecycleStep \/ ResumeSandbox
  \/ OpenDeleteDialog \/ ConfirmDelete \/ DialogCloses \/ DeleteResponse
  \/ AwaitDeletion \/ DeleteFails
  \/ DeferredCleanup \/ ListRun \/ DeleteRecovered \/ Return
  \/ Cancel \/ BackendCreate \/ Expire
  \/ \E c \in Cleaners : BackendDelete(c)
  \/ Stopped

Spec == Init /\ [][Next]_vars

-----------------------------------------------------------------------------
(* Properties *)

\* A run that returns without an error has seen its sandbox deleted: no answer that
\* a page gives before the backend has answered passes for it (deleteSandboxInUI).
SuccessMeansDeleted == pc = "done" /\ ~err => box = "gone"

\* When the run has returned, its sandbox is left only where the API could not help:
\* the recovery failed or was not configured, it looked before the backend carried
\* out the request, or the sandbox is not in the target's team.  In particular
\* neither the ID that comes late, nor a deletion that the page misreports, leaves
\* one behind (runLifecycle's deferred cleanup and recoverSandbox).
LeavesNothing ==
  pc = "done" /\ box = "live" =>
    \/ recovery = "failed"
    \/ creation = "late"
    \/ recovery = "listed" /\ created.home = "elsewhere"

\* The canary works only in a sandbox that it has shown to be on its target: through
\* the API where there is one, and else, where a prefix is configured, by the
\* sandbox's ID (sandboxTargetCompatible and the tagging after it; with the types of
\* the variables).
WorksOnTarget ==
  /\ TypeOK
  /\ pc \in DOMAIN After \cup {"resume_sandbox"} =>
       /\ config.api => created.home = "target"
       /\ config.prefix /\ ~config.api => created.form = "regional"

-----------------------------------------------------------------------------
(* Why they hold *)

\* Until it is tagged the sandbox has a call of TagSandbox left.
Tries ==
  pc \in {"start", "authenticate", "select_team", "create_sandbox", "poll", "list",
          "validate_target", "tag_sandbox"} => attempts < MaxTagAttempts

\* Nothing is created before the run has noted the name that its cleanup goes by.
NameNoted ==
  /\ creation # "none" => name
  /\ pc = "create_sandbox" => name

\* The request is sent once, and the sandbox exists once the backend has carried it
\* out; what the API lists exists.
CreatedOnce ==
  /\ pc \in {"start", "authenticate", "select_team", "create_sandbox"} => creation = "none"
  /\ box = "none" <=> creation \in {"none", "sent", "rejected"}
  /\ pc = "recover_delete" => box # "none"

\* What the run takes for a deletion is one: each call's answer is its own.
Deletions ==
  /\ \A c \in Cleaners : "accepted" \in {deletion[c], status[c]} => box = "gone"
  /\ deleted => box = "gone"

\* The calls after runLifecycle's steps, or the call that a failed tagging makes.
Undoing == \/ pc \in {"deferred", "recover", "recover_delete", "return", "done"}
           \/ pc = "delete" /\ cleaner # "lifecycle"

\* What the steps left undone is in the result.
ErrorsKept == Undoing /\ ~err => box = "gone"

\* What is still live behind the deferred cleanup, and what the backend may still
\* create then.
Excused ==
  pc \in {"return", "done"} =>
    /\ box = "live" => \/ recovery = "failed"
                       \/ creation = "late"
                       \/ recovery = "listed" /\ created.home = "elsewhere"
    /\ creation = "sent" => recovery # "none"

\* What the ID has shown of the sandbox when it is tagged.
Validated == pc = "tag_sandbox" => Compatible

\* A run accounts for its sandbox at every step: the name is noted before the request
\* that creates it, a deletion is believed only on its own call's answer, no failure
\* is dropped on the way to the result, and what the deferred cleanup passes over is
\* gone, late, or out of the API's reach (runLifecycle, deleteSandboxInUI and
\* recoverSandbox).
UIInv ==
  /\ WorksOnTarget /\ Validated /\ Tries /\ NameNoted
  /\ CreatedOnce /\ Deletions /\ ErrorsKept /\ Excused
=============================================================================
