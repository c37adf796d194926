--------------------------- MODULE UICanaryProofs ---------------------------
(***************************************************************************)
(* Proofs about the UI canary's run in the browser, for any number of       *)
(* tagging attempts.                                                        *)
(***************************************************************************)
EXTENDS UICanary, TLAPS

-----------------------------------------------------------------------------
(* Types *)

\* TypeOK in parts: the run's flags, its place, and what it and the backend keep.
Flags == {cancelled, name, id, deleted, rejected, err} \subseteq BOOLEAN

Given == config \in [api : BOOLEAN, prefix : BOOLEAN] /\ created \in Locations

Places ==
  /\ pc \in {"start", "authenticate", "select_team", "create_sandbox", "poll", "list",
             "validate_target", "tag_sandbox", "ready", "terminal_exec", "pause_sandbox",
             "resume_sandbox", "delete", "deferred", "recover", "recover_delete",
             "return", "skipped", "done"}
  /\ reader \in {"none", "reading", "done"}
  /\ cleaner \in Cleaners /\ stage \in {"open", "confirm", "close", "await"}

Calls ==
  /\ attempts \in 0..MaxTagAttempts
  /\ status \in [Cleaners -> {"none", "accepted", "refused"}]
  /\ deletion \in [Cleaners -> {"none", "sent", "accepted", "refused"}]

Backend ==
  /\ recovery \in {"none", "listed", "failed"}
  /\ creation \in {"none", "sent", "created", "late", "rejected"}
  /\ box \in {"none", "live", "gone"}

\* The parts make up the whole.
LEMMA TypeParts == TypeOK <=> Flags /\ Given /\ Places /\ Calls /\ Backend
BY DEF TypeOK, Flags, Given, Places, Calls, Backend

\* The run has its types from the beginning.
LEMMA TypingInit == Init => TypeOK
<1> SUFFICES ASSUME Init
             PROVE  TypeOK
  OBVIOUS
<1>1. Flags
  BY DEF Init, Flags
<1>2. Given
  BY DEF Init, Given
<1>3. Places
  BY DEF Init, Places, Cleaners
<1>4. Calls
  BY UIAssumption DEF Init, Calls
<1>5. Backend
  BY DEF Init, Backend
<1> QED
  BY <1>1, <1>2, <1>3, <1>4, <1>5, TypeParts

-----------------------------------------------------------------------------
(* The steps, by what they belong to *)

\* The run until its sandbox is known.
Beginning ==
  \/ AcquireLock \/ Authenticate \/ SelectTargetTeam \/ SubmitCreate
  \/ PollCreate \/ LookInList \/ ResponseHandler \/ ReadResponse

\* The run in its sandbox.
Working == ValidateTarget \/ TagSandbox \/ LifecycleStep \/ ResumeSandbox

\* A call of deleteSandboxInUI.
Deleting ==
  \/ OpenDeleteDialog \/ ConfirmDelete \/ DialogCloses \/ DeleteResponse
  \/ AwaitDeletion \/ DeleteFails

\* The deferred calls.
Finishing == DeferredCleanup \/ ListRun \/ DeleteRecovered \/ Return

\* The backend and the end of the context.
Outside ==
  \/ Cancel \/ BackendCreate \/ Expire
  \/ \E c \in Cleaners : BackendDelete(c)

\* Every step belongs to one of these.
LEMMA Steps ==
  ASSUME [Next]_vars
  PROVE  Beginning \/ Working \/ Deleting \/ Finishing \/ Outside \/ UNCHANGED vars
BY DEF Next, Stopped, Beginning, Working, Deleting, Finishing, Outside

-----------------------------------------------------------------------------
(* Each group keeps the invariant *)

\* The name is noted before the request that creates the sandbox is sent, and it is sent
\* once.
LEMMA BeginningKeeps ==
  ASSUME UIInv, Beginning
  PROVE  UIInv'
<1> USE UIAssumption DEF Beginning, AcquireLock, Authenticate, SelectTargetTeam, NoteName,
     SubmitCreate, PollCreate, LookInList, ResponseHandler, ReadResponse, Fail, Proceed,
     ShowsID, run, cleanup, fixed
<1>1. TypeOK
  BY DEF UIInv, WorksOnTarget
<1>2. Flags'
  BY <1>1, TypeParts DEF Flags
<1>3. Given'
  BY <1>1, TypeParts DEF Given
<1>4. Places'
  BY <1>1, TypeParts DEF Places, Cleaners
<1>5. Calls'
  BY <1>1, TypeParts DEF UIInv, Calls, Cleaners, Tries
<1>6. Backend'
  BY <1>1, TypeParts DEF Backend
<1>7. TypeOK'
  BY <1>2, <1>3, <1>4, <1>5, <1>6 DEF TypeOK, Flags, Given, Places, Calls, Backend
<1>8. WorksOnTarget'
  BY <1>7 DEF UIInv, WorksOnTarget, Validated, Compatible, After
<1>9. Validated'
  BY <1>1 DEF UIInv, TypeOK, Validated, Compatible
<1>10. Tries'
  BY <1>1 DEF UIInv, TypeOK, Tries
<1>11. NameNoted'
  BY <1>1 DEF UIInv, TypeOK, NameNoted
<1>12. CreatedOnce'
  BY <1>1 DEF UIInv, TypeOK, CreatedOnce
<1>13. Deletions'
  BY <1>1 DEF UIInv, TypeOK, Deletions, CreatedOnce
<1>14. ErrorsKept'
  BY <1>1 DEF UIInv, TypeOK, ErrorsKept, Undoing, CreatedOnce, Deletions
<1>15. Excused'
  BY <1>1 DEF UIInv, TypeOK, Excused, NameNoted, CreatedOnce, Deletions, Locations
<1> QED
  BY <1>8, <1>9, <1>10, <1>11, <1>12, <1>13, <1>14, <1>15 DEF UIInv

\* The run works in a sandbox that was shown to be on the target, or gives up with an
\* error.
LEMMA WorkingKeeps ==
  ASSUME UIInv, Working
  PROVE  UIInv'
<1> USE UIAssumption DEF Working, ValidateTarget, TagSandbox, LifecycleStep,
     ResumeSandbox, Fail, Proceed, StartDelete, GivesUp, KnownToAPI, After, run, cleanup,
     fixed
<1>1. TypeOK
  BY DEF UIInv, WorksOnTarget
<1>2. Flags'
  BY <1>1, TypeParts DEF Flags
<1>3. Given'
  BY <1>1, TypeParts DEF Given
<1>4. Places'
  BY <1>1, TypeParts DEF Places, Cleaners
<1>5. Calls'
  BY <1>1, TypeParts DEF UIInv, Calls, Cleaners, Tries
<1>6. Backend'
  BY <1>1, TypeParts DEF Backend
<1>7. TypeOK'
  BY <1>2, <1>3, <1>4, <1>5, <1>6 DEF TypeOK, Flags, Given, Places, Calls, Backend
<1>8. WorksOnTarget'
  BY <1>7 DEF UIInv, WorksOnTarget, Validated, Compatible, After
<1>9. Validated'
  BY <1>1 DEF UIInv, TypeOK, Validated, Compatible
<1>10. Tries'
  BY <1>1 DEF UIInv, TypeOK, Tries
<1>11. NameNoted'
  BY <1>1 DEF UIInv, TypeOK, NameNoted
<1>12. CreatedOnce'
  BY <1>1 DEF UIInv, TypeOK, CreatedOnce
<1>13. Deletions'
  BY <1>1 DEF UIInv, TypeOK, Deletions, CreatedOnce
<1>14. ErrorsKept'
  BY <1>1 DEF UIInv, TypeOK, ErrorsKept, Undoing, CreatedOnce, Deletions
<1>15. Excused'
  BY <1>1 DEF UIInv, TypeOK, Excused, NameNoted, CreatedOnce, Deletions, Locations
<1> QED
  BY <1>8, <1>9, <1>10, <1>11, <1>12, <1>13, <1>14, <1>15 DEF UIInv

\* A call believes only the answer to its own request, and leaves an error otherwise.
LEMMA DeletingKeeps ==
  ASSUME UIInv, Deleting
  PROVE  UIInv'
<1> USE UIAssumption DEF Deleting, OpenDeleteDialog, ConfirmDelete, DialogCloses,
     DeleteResponse, AwaitDeletion, DeleteFails, AfterFailedDelete, Confirmed,
     DeleteReturns, run, cleanup, fixed
<1>1. TypeOK
  BY DEF UIInv, WorksOnTarget
<1>2. Flags'
  BY <1>1, TypeParts DEF Flags
<1>3. Given'
  BY <1>1, TypeParts DEF Given
<1>4. Places'
  BY <1>1, TypeParts DEF Places, Cleaners
<1>5. Calls'
  BY <1>1, TypeParts DEF UIInv, Calls, Cleaners, Tries
<1>6. Backend'
  BY <1>1, TypeParts DEF Backend
<1>7. TypeOK'
  BY <1>2, <1>3, <1>4, <1>5, <1>6 DEF TypeOK, Flags, Given, Places, Calls, Backend
<1>8. WorksOnTarget'
  BY <1>7 DEF UIInv, WorksOnTarget, Validated, Compatible, After
<1>9. Validated'
  BY <1>1 DEF UIInv, TypeOK, Validated, Compatible
<1>10. Tries'
  BY <1>1 DEF UIInv, TypeOK, Tries
<1>11. NameNoted'
  BY <1>1 DEF UIInv, TypeOK, NameNoted
<1>12. CreatedOnce'
  BY <1>1 DEF UIInv, TypeOK, CreatedOnce
<1>13. Deletions'
  BY <1>1 DEF UIInv, TypeOK, Deletions, CreatedOnce
<1>14. ErrorsKept'
  BY <1>1 DEF UIInv, TypeOK, ErrorsKept, Undoing, CreatedOnce, Deletions
<1>15. Excused'
  BY <1>1 DEF UIInv, TypeOK, Excused, NameNoted, CreatedOnce, Deletions, Locations
<1> QED
  BY <1>8, <1>9, <1>10, <1>11, <1>12, <1>13, <1>14, <1>15 DEF UIInv

\* The deferred calls undo what they can, and drop no error.
LEMMA FinishingKeeps ==
  ASSUME UIInv, Finishing
  PROVE  UIInv'
<1> USE UIAssumption DEF Finishing, DeferredCleanup, ListRun, DeleteRecovered, Return,
     StartDelete, KnownToAPI, run, cleanup, fixed
<1>1. TypeOK
  BY DEF UIInv, WorksOnTarget
<1>2. Flags'
  BY <1>1, TypeParts DEF Flags
<1>3. Given'
  BY <1>1, TypeParts DEF Given
<1>4. Places'
  BY <1>1, TypeParts DEF Places, Cleaners
<1>5. Calls'
  BY <1>1, TypeParts DEF UIInv, Calls, Cleaners, Tries
<1>6. Backend'
  BY <1>1, TypeParts DEF Backend
<1>7. TypeOK'
  BY <1>2, <1>3, <1>4, <1>5, <1>6 DEF TypeOK, Flags, Given, Places, Calls, Backend
<1>8. WorksOnTarget'
  BY <1>7 DEF UIInv, WorksOnTarget, Validated, Compatible, After
<1>9. Validated'
  BY <1>1 DEF UIInv, TypeOK, Validated, Compatible
<1>10. Tries'
  BY <1>1 DEF UIInv, TypeOK, Tries
<1>11. NameNoted'
  BY <1>1 DEF UIInv, TypeOK, NameNoted
<1>12. CreatedOnce'
  BY <1>1 DEF UIInv, TypeOK, CreatedOnce
<1>13. Deletions'
  BY <1>1 DEF UIInv, TypeOK, Deletions, CreatedOnce
<1>14. ErrorsKept'
  BY <1>1 DEF UIInv, TypeOK, ErrorsKept, Undoing, CreatedOnce, Deletions
<1>15. Excused'
  BY <1>1 DEF UIInv, TypeOK, Excused, NameNoted, CreatedOnce, Deletions, Locations
<1> QED
  BY <1>8, <1>9, <1>10, <1>11, <1>12, <1>13, <1>14, <1>15 DEF UIInv

\* The backend acts on what it was sent, also when nobody waits for it any longer.
LEMMA OutsideKeeps ==
  ASSUME UIInv, Outside
  PROVE  UIInv'
<1> USE UIAssumption DEF Outside, Cancel, BackendCreate, Expire, BackendDelete, run,
     cleanup, fixed
<1>1. TypeOK
  BY DEF UIInv, WorksOnTarget
<1>2. Flags'
  BY <1>1, TypeParts DEF Flags
<1>3. Given'
  BY <1>1, TypeParts DEF Given
<1>4. Places'
  BY <1>1, TypeParts DEF Places, Cleaners
<1>5. Calls'
  BY <1>1, TypeParts DEF UIInv, Calls, Cleaners, Tries
<1>6. Backend'
  BY <1>1, TypeParts DEF Backend
<1>7. TypeOK'
  BY <1>2, <1>3, <1>4, <1>5, <1>6 DEF TypeOK, Flags, Given, Places, Calls, Backend
<1>8. WorksOnTarget'
  BY <1>7 DEF UIInv, WorksOnTarget, Validated, Compatible, After
<1>9. Validated'
  BY <1>1 DEF UIInv, TypeOK, Validated, Compatible
<1>10. Tries'
  BY <1>1 DEF UIInv, TypeOK, Tries
<1>11. NameNoted'
  BY <1>1 DEF UIInv, TypeOK, NameNoted
<1>12. CreatedOnce'
  BY <1>1 DEF UIInv, TypeOK, CreatedOnce
<1>13. Deletions'
  BY <1>1 DEF UIInv, TypeOK, Deletions, CreatedOnce
<1>14. ErrorsKept'
  BY <1>1 DEF UIInv, TypeOK, ErrorsKept, Undoing, CreatedOnce, Deletions
<1>15. Excused'
  BY <1>1 DEF UIInv, TypeOK, Excused, NameNoted, CreatedOnce, Deletions, Locations
<1> QED
  BY <1>8, <1>9, <1>10, <1>11, <1>12, <1>13, <1>14, <1>15 DEF UIInv

\* Nothing happens.
LEMMA StutterKeeps ==
  ASSUME UIInv, UNCHANGED vars
  PROVE  UIInv'
<1> USE DEF vars, run, cleanup, fixed
<1>1. WorksOnTarget'
  <2>1. TypeOK'
    BY DEF UIInv, WorksOnTarget, TypeOK
  <2> QED
    BY <2>1 DEF UIInv, WorksOnTarget
<1>2. Validated' /\ Tries' /\ NameNoted' /\ CreatedOnce'
  BY DEF UIInv, Validated, Compatible, Tries, NameNoted, CreatedOnce
<1>3. Deletions' /\ ErrorsKept' /\ Excused'
  BY DEF UIInv, Deletions, ErrorsKept, Undoing, Excused
<1> QED
  BY <1>1, <1>2, <1>3 DEF UIInv

\* The run has done nothing yet.
LEMMA InitHolds == Init => UIInv
<1> SUFFICES ASSUME Init
             PROVE  UIInv
  OBVIOUS
<1>1. WorksOnTarget
  BY TypingInit DEF Init, WorksOnTarget, After
<1>2. Validated /\ Tries /\ NameNoted /\ CreatedOnce
  BY UIAssumption DEF Init, Validated, Tries, NameNoted, CreatedOnce
<1>3. Deletions /\ ErrorsKept /\ Excused
  BY DEF Init, Deletions, ErrorsKept, Undoing, Excused
<1> QED
  BY <1>1, <1>2, <1>3 DEF UIInv

-----------------------------------------------------------------------------
(* The theorems *)

\* A run accounts for its sandbox at every step, whatever the page shows, the backend
\* delays or the run's end cuts short (runLifecycle, deleteSandboxInUI, recoverSandbox).
THEOREM UIInvariant == Spec => []UIInv
<1>1. UIInv /\ [Next]_vars => UIInv'
  BY Steps, BeginningKeeps, WorkingKeeps, DeletingKeeps, FinishingKeeps, OutsideKeeps,
     StutterKeeps
<1> QED
  BY InitHolds, <1>1, PTL DEF Spec

\* A run that returns without an error has seen its sandbox deleted: the deletion that
\* a call believes is the backend's own answer to it, and an error is never dropped
\* (deleteSandboxInUI).
THEOREM SuccessMeansDeletedHolds == Spec => []SuccessMeansDeleted
<1>1. UIInv => SuccessMeansDeleted
  BY DEF UIInv, ErrorsKept, Undoing, SuccessMeansDeleted
<1> QED
  BY UIInvariant, <1>1, PTL

\* A sandbox that is still there when the run has returned is one that the API could
\* not help with: it failed, looked too early, or does not know the team
\* (runLifecycle's deferred cleanup and recoverSandbox).
THEOREM LeavesNothingHolds == Spec => []LeavesNothing
<1>1. UIInv => LeavesNothing
  BY DEF UIInv, Excused, LeavesNothing
<1> QED
  BY UIInvariant, <1>1, PTL

\* The canary works only in a sandbox that the API, or else its ID, has shown to be on
\* the target (sandboxTargetCompatible and the tagging after it).
THEOREM WorksOnTargetHolds == Spec => []WorksOnTarget
<1>1. UIInv => WorksOnTarget
  BY DEF UIInv
<1> QED
  BY UIInvariant, <1>1, PTL
=============================================================================
