------------------------------ MODULE GCSLock ------------------------------
(***************************************************************************)
(* The GCS lease of internal/lock/gcs.go: Acquire and Release of one lock   *)
(* object by concurrent runs, one step per storage request.  Storage is     *)
(* linearizable per object; a request may fail, its response may be lost    *)
(* after the write took effect, and a run may die anywhere.                 *)
(*                                                                         *)
(* An Acquire writes the object at most once and its token is a fresh uuid, *)
(* so the generation of an object is identified with the token it carries.  *)
(***************************************************************************)
EXTENDS Integers

CONSTANTS Runner,          \* the processes that contend for the lock
          TTL,             \* LOCK_TTL
          HoldBound,       \* a process is stopped this long after its Acquire began
          ReleaseBounded,  \* ... during Release too, or only until Release begins
          NoObject,        \* the lock object does not exist
          MaxTime,         \* bound of the clock
          MaxAcquires      \* bound of the number of Acquire calls

ASSUME GCSLockAssumption ==
  /\ TTL \in Nat /\ HoldBound \in Nat /\ HoldBound > 0 /\ HoldBound <= TTL
  /\ ReleaseBounded \in BOOLEAN
  /\ MaxTime \in Nat /\ MaxAcquires \in Nat
  /\ NoObject \notin [tok : Nat, expires : Int]

VARIABLES now,      \* time.Now of every process and of storage
          object,   \* the lock object, NoObject or [tok, expires]
          tokens,   \* how many uuids were drawn
          pc,       \* the request each process is about to make
          tok,      \* payload.Token of the call in progress
          start,    \* its `now`, read once when Acquire begins
          seen      \* the generation Attrs reported

vars == <<now, object, tokens, pc, tok, start, seen>>

Acquiring == {"attrs", "read", "create", "replace"}
Releasing == {"releaseRead", "releaseDelete"}
Holding   == {"held"} \cup Releasing
LockFile  == [tok : Nat, expires : Int]

TypeOK == /\ now \in Nat
          /\ object \in LockFile \cup {NoObject}
          /\ tokens \in Nat
          /\ pc \in [Runner -> {"idle"} \cup Acquiring \cup Holding]
          /\ tok \in [Runner -> Nat]
          /\ start \in [Runner -> Nat]
          /\ seen \in [Runner -> Nat]

Init == /\ now = 0
        /\ object = NoObject
        /\ tokens = 0
        /\ pc = [r \in Runner |-> "idle"]
        /\ tok = [r \in Runner |-> 0]
        /\ start = [r \in Runner |-> 0]
        /\ seen = [r \in Runner |-> 0]

Goto(r, l) == pc' = [pc EXCEPT ![r] = l]

-----------------------------------------------------------------------------
(* Acquire *)

\* The call begins: a fresh token, and the only reading of the clock.
AcquireBegin(r) == /\ pc[r] = "idle" /\ tokens < MaxAcquires
                   /\ tokens' = tokens + 1
                   /\ tok' = [tok EXCEPT ![r] = tokens + 1]
                   /\ start' = [start EXCEPT ![r] = now]
                   /\ Goto(r, "attrs")
                   /\ UNCHANGED <<now, object, seen>>

\* Attrs: the generation of the existing object, or the news that there is none.
AcquireAttrs(r) == /\ pc[r] = "attrs"
                   /\ \/ /\ object = NoObject
                         /\ Goto(r, "create")
                         /\ UNCHANGED seen
                      \/ /\ object # NoObject
                         /\ seen' = [seen EXCEPT ![r] = object.tok]
                         /\ Goto(r, "read")
                   /\ UNCHANGED <<now, object, tokens, tok, start>>

\* Mutant of AcquireRead: the expiry of the existing lease is not looked at.
AcquireReadAny(r) == /\ pc[r] = "read"
                     /\ \/ /\ object # NoObject
                           /\ object.tok = seen[r]
                           /\ Goto(r, "replace")
                        \/ /\ object # NoObject => object.tok # seen[r]
                           /\ Goto(r, "idle")
                     /\ UNCHANGED <<now, object, tokens, tok, start, seen>>

\* readExisting reads that generation.  A generation that is gone is an error,
\* a lease still unexpired at `start` means AlreadyRunning; both end the call.
AcquireRead(r) == /\ pc[r] = "read"
                  /\ \/ /\ object # NoObject
                        /\ object.tok = seen[r]
                        /\ object.expires <= start[r]
                        /\ Goto(r, "replace")
                     \/ /\ object # NoObject => object.tok # seen[r] \/ object.expires > start[r]
                        /\ Goto(r, "idle")
                  /\ UNCHANGED <<now, object, tokens, tok, start, seen>>

\* Mutants of Precondition: created without DoesNotExist, replaced without
\* GenerationMatch.
CreateAlways(r)  == IF pc[r] = "create" THEN TRUE
                    ELSE object # NoObject /\ object.tok = seen[r]
ReplaceAlways(r) == IF pc[r] = "create" THEN object = NoObject ELSE object # NoObject

\* The precondition of the conditional write.
Precondition(r) == IF pc[r] = "create" THEN object = NoObject
                   ELSE object # NoObject /\ object.tok = seen[r]

\* The write takes effect; the process learns that it holds the lease, or the
\* response is lost and it sees an error.
AcquireWrite(r) == /\ pc[r] \in {"create", "replace"}
                   /\ Precondition(r)
                   /\ object' = [tok |-> tok[r], expires |-> start[r] + TTL]
                   /\ \E l \in {"held", "idle"} : Goto(r, l)
                   /\ UNCHANGED <<now, tokens, tok, start, seen>>

\* Precondition failed (412 or not found): AlreadyRunning.
AcquireLostRace(r) == /\ pc[r] \in {"create", "replace"}
                      /\ ~Precondition(r)
                      /\ Goto(r, "idle")
                      /\ UNCHANGED <<now, object, tokens, tok, start, seen>>

-----------------------------------------------------------------------------
(* Release *)

ReleaseBegin(r) == /\ pc[r] = "held"
                   /\ Goto(r, "releaseRead")
                   /\ UNCHANGED <<now, object, tokens, tok, start, seen>>

\* Nothing there, or another run's token: nothing to release.
ReleaseRead(r) == /\ pc[r] = "releaseRead"
                  /\ \/ /\ object # NoObject /\ object.tok = tok[r]
                        /\ Goto(r, "releaseDelete")
                     \/ /\ object # NoObject => object.tok # tok[r]
                        /\ Goto(r, "idle")
                  /\ UNCHANGED <<now, object, tokens, tok, start, seen>>

\* The delete names no generation: it removes whatever is there by now.
ReleaseDelete(r) == /\ pc[r] = "releaseDelete"
                    /\ object' = NoObject
                    /\ Goto(r, "idle")
                    /\ UNCHANGED <<now, tokens, tok, start, seen>>

-----------------------------------------------------------------------------
(* Environment *)

\* A request fails without effect, the context ends, or the process dies.
Abandon(r) == /\ pc[r] # "idle"
              /\ Goto(r, "idle")
              /\ UNCHANGED <<now, object, tokens, tok, start, seen>>

\* The run and task timeouts stop a process before HoldBound is over.
Timed == Acquiring \cup {"held"} \cup (IF ReleaseBounded THEN Releasing ELSE {})

Tick == /\ now < MaxTime
        /\ \A r \in Runner : pc[r] \in Timed => now + 1 < start[r] + HoldBound
        /\ now' = now + 1
        /\ UNCHANGED <<object, tokens, pc, tok, start, seen>>

Acquire(r) == \/ AcquireBegin(r) \/ AcquireAttrs(r) \/ AcquireRead(r)
              \/ AcquireWrite(r) \/ AcquireLostRace(r)

Release(r) == ReleaseBegin(r) \/ ReleaseRead(r) \/ ReleaseDelete(r)

Next == Tick \/ \E r \in Runner : Acquire(r) \/ Release(r) \/ Abandon(r)

Spec == Init /\ [][Next]_vars

-----------------------------------------------------------------------------
(* Properties *)

\* Two runs of one target never work at the same time: a canary that finds the
\* target lock taken skips its run (lifecycle/runner.go, Run).
MutualExclusion == \A r, q \in Runner : pc[r] = "held" /\ pc[q] = "held" => r = q

\* An unexpired lease leaves the bucket only through the Release of the run
\* that wrote it: a late Release never frees its successor's lease.
OnlyOwnerFrees ==
  [][object # NoObject /\ object.expires > now /\ object' # object
       => \E r \in Runner : /\ pc[r] = "releaseDelete" /\ pc'[r] = "idle"
                            /\ tok[r] = object.tok]_vars

\* Tokens of the processes that hold the lease or are giving it up.
ActiveTokens == {tok[r] : r \in {q \in Runner : pc[q] \in Holding}}

\* The storage protocol implements the abstract lease.
LeaseSpec == INSTANCE Lease WITH
  Token    <- 1..MaxAcquires,
  NoHolder <- 0,
  Deadline <- Int,
  holder   <- IF object = NoObject THEN 0 ELSE object.tok,
  until    <- IF object = NoObject THEN 0 ELSE object.expires,
  active   <- ActiveTokens

Refinement == LeaseSpec!Spec

-----------------------------------------------------------------------------
(* The inductive invariant behind the three properties *)

\* A token belongs to one call.
TokensFresh == /\ tokens <= MaxAcquires
               /\ \A r \in Runner : tok[r] <= tokens /\ seen[r] <= tokens
               /\ \A r, q \in Runner : tok[r] = tok[q] /\ tok[r] # 0 => r = q
               /\ \A r \in Runner : pc[r] # "idle" => tok[r] # 0
               /\ object # NoObject => object.tok <= tokens /\ object.tok # 0

\* A call in progress is younger than the lease it wants or has.
CallsYoung == \A r \in Runner : pc[r] # "idle" =>
                 start[r] <= now /\ now < start[r] + HoldBound

\* Whoever holds the lease finds its own token in the bucket.
HolderOwns == \A r \in Runner : pc[r] \in Holding =>
                 object # NoObject /\ object.tok = tok[r] /\ object.expires = start[r] + TTL

\* A generation about to be replaced had expired when its reader began, and
\* one's own token was not yet in the bucket for anyone to see.
ReplacesExpired == \A r \in Runner :
  /\ pc[r] \in Acquiring => /\ object # NoObject => object.tok # tok[r]
                            /\ \A q \in Runner : seen[q] # tok[r]
  /\ pc[r] = "replace" /\ object # NoObject /\ object.tok = seen[r] => object.expires <= start[r]

LockInv == TypeOK /\ TokensFresh /\ CallsYoung /\ HolderOwns /\ ReplacesExpired
=============================================================================
