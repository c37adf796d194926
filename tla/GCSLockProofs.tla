--------------------------- MODULE GCSLockProofs ---------------------------
(***************************************************************************)
(* Proofs about the GCS lease for any number of runs, any TTL and any       *)
(* bounds, when releases are bounded like the rest of the run.              *)
(***************************************************************************)
EXTENDS GCSLock, TLAPS

\* Every variable keeps its type.
LEMMA Typing == Spec => []TypeOK
<1> USE GCSLockAssumption DEF TypeOK, LockFile, Acquiring, Releasing, Holding, Goto
<1>1. Init => TypeOK
  BY DEF Init
<1>2. TypeOK /\ [Next]_vars => TypeOK'
  <2> SUFFICES ASSUME TypeOK, [Next]_vars
               PROVE  TypeOK'
    OBVIOUS
  <2>1. CASE Tick
    BY <2>1 DEF Tick
  <2>2. ASSUME NEW r \in Runner, Acquire(r)
        PROVE  TypeOK'
    <3>1. CASE AcquireBegin(r)
      BY <3>1 DEF AcquireBegin
    <3>2. CASE AcquireAttrs(r)
      BY <3>2 DEF AcquireAttrs
    <3>3. CASE AcquireRead(r)
      BY <3>3 DEF AcquireRead
    <3>4. CASE AcquireWrite(r)
      BY <3>4 DEF AcquireWrite
    <3>5. CASE AcquireLostRace(r)
      BY <3>5 DEF AcquireLostRace
    <3> QED
      BY <2>2, <3>1, <3>2, <3>3, <3>4, <3>5 DEF Acquire
  <2>3. ASSUME NEW r \in Runner, Release(r)
        PROVE  TypeOK'
    BY <2>3 DEF Release, ReleaseBegin, ReleaseRead, ReleaseDelete
  <2>4. ASSUME NEW r \in Runner, Abandon(r)
        PROVE  TypeOK'
    BY <2>4 DEF Abandon
  <2>5. CASE UNCHANGED vars
    BY <2>5 DEF vars
  <2> QED
    BY <2>1, <2>2, <2>3, <2>4, <2>5 DEF Next
<1> QED
  BY <1>1, <1>2, PTL DEF Spec

-----------------------------------------------------------------------------
\* The parts of the inductive invariant survive every step of every process
\* when the whole of a run, its Release included, ends within HoldBound.
LEMMA LockInvStep ==
  ASSUME ReleaseBounded = TRUE, LockInv, [Next]_vars
  PROVE  TokensFresh' /\ CallsYoung' /\ HolderOwns' /\ ReplacesExpired'
<1> USE GCSLockAssumption
        DEF LockInv, TypeOK, TokensFresh, CallsYoung, HolderOwns, ReplacesExpired,
            LockFile, Acquiring, Releasing, Holding, Goto
<1>1. CASE Tick
  BY <1>1 DEF Tick, Timed
<1>2. ASSUME NEW r \in Runner, AcquireBegin(r)
      PROVE  TokensFresh' /\ CallsYoung' /\ HolderOwns' /\ ReplacesExpired'
  <2>1. TokensFresh'
    BY <1>2 DEF AcquireBegin
  <2>2. CallsYoung'
    BY <1>2 DEF AcquireBegin
  <2>3. HolderOwns'
    BY <1>2 DEF AcquireBegin
  <2>4. ReplacesExpired'
    BY <1>2 DEF AcquireBegin
  <2> QED
    BY <2>1, <2>2, <2>3, <2>4
<1>3. ASSUME NEW r \in Runner, AcquireAttrs(r)
      PROVE  TokensFresh' /\ CallsYoung' /\ HolderOwns' /\ ReplacesExpired'
  BY <1>3 DEF AcquireAttrs
<1>4. ASSUME NEW r \in Runner, AcquireRead(r)
      PROVE  TokensFresh' /\ CallsYoung' /\ HolderOwns' /\ ReplacesExpired'
  BY <1>4 DEF AcquireRead
<1>5. ASSUME NEW r \in Runner, AcquireWrite(r)
      PROVE  TokensFresh' /\ CallsYoung' /\ HolderOwns' /\ ReplacesExpired'
  <2>1. \A q \in Runner : pc[q] \notin Holding
    BY <1>5 DEF AcquireWrite, Precondition
  <2>2. TokensFresh' /\ CallsYoung'
    BY <1>5 DEF AcquireWrite
  <2>3. HolderOwns'
    BY <1>5, <2>1 DEF AcquireWrite
  <2>4. ReplacesExpired'
    BY <1>5 DEF AcquireWrite
  <2> QED
    BY <2>2, <2>3, <2>4
<1>6. ASSUME NEW r \in Runner, AcquireLostRace(r)
      PROVE  TokensFresh' /\ CallsYoung' /\ HolderOwns' /\ ReplacesExpired'
  BY <1>6 DEF AcquireLostRace
<1>7. ASSUME NEW r \in Runner, ReleaseBegin(r) \/ ReleaseRead(r)
      PROVE  TokensFresh' /\ CallsYoung' /\ HolderOwns' /\ ReplacesExpired'
  BY <1>7 DEF ReleaseBegin, ReleaseRead
<1>8. ASSUME NEW r \in Runner, ReleaseDelete(r)
      PROVE  TokensFresh' /\ CallsYoung' /\ HolderOwns' /\ ReplacesExpired'
  BY <1>8 DEF ReleaseDelete
<1>9. ASSUME NEW r \in Runner, Abandon(r)
      PROVE  TokensFresh' /\ CallsYoung' /\ HolderOwns' /\ ReplacesExpired'
  BY <1>9 DEF Abandon
<1>10. CASE UNCHANGED vars
  BY <1>10 DEF vars
<1> QED
  BY <1>1, <1>2, <1>3, <1>4, <1>5, <1>6, <1>7, <1>8, <1>9, <1>10 DEF Next, Acquire, Release

\* The invariant holds throughout, for all values of the constants.
THEOREM LockInvariant == ASSUME ReleaseBounded = TRUE PROVE Spec => []LockInv
<1>1. Init => LockInv
  BY GCSLockAssumption
  DEF Init, LockInv, TypeOK, TokensFresh, CallsYoung, HolderOwns, ReplacesExpired,
      Acquiring, Releasing, Holding
<1>2. LockInv /\ TypeOK' /\ [Next]_vars => LockInv'
  BY LockInvStep DEF LockInv
<1> QED
  BY <1>1, <1>2, Typing, PTL DEF Spec

\* Two runs of one target never work at the same time, whatever requests fail,
\* whichever responses are lost and wherever a run dies (gcs.go, Acquire).
THEOREM MutualExclusionHolds == ASSUME ReleaseBounded = TRUE PROVE Spec => []MutualExclusion
<1>1. LockInv => MutualExclusion
  BY DEF LockInv, TokensFresh, HolderOwns, MutualExclusion, Holding, TypeOK
<1> QED
  BY <1>1, LockInvariant, PTL

\* An unexpired lease leaves the bucket only through its owner's Release,
\* although the delete of Release names no generation (gcs.go, Release).
THEOREM OnlyOwnerFreesHolds == ASSUME ReleaseBounded = TRUE PROVE Spec => OnlyOwnerFrees
<1> DEFINE Freed == object # NoObject /\ object.expires > now /\ object' # object
           Owner == \E r \in Runner : /\ pc[r] = "releaseDelete" /\ pc'[r] = "idle"
                                      /\ tok[r] = object.tok
<1>1. LockInv /\ [Next]_vars => [Freed => Owner]_vars
  <2> SUFFICES ASSUME LockInv, [Next]_vars, Freed
               PROVE  Owner
    OBVIOUS
  <2> USE DEF LockInv, TypeOK, LockFile
  <2>1. ASSUME NEW r \in Runner, AcquireWrite(r)
        PROVE  FALSE
    <3>1. pc[r] = "replace" /\ object.expires <= start[r]
      BY <2>1 DEF AcquireWrite, Precondition, ReplacesExpired
    <3>2. start[r] <= now
      BY <3>1 DEF CallsYoung
    <3> QED
      BY <3>1, <3>2
  <2>2. ASSUME NEW r \in Runner, ReleaseDelete(r)
        PROVE  Owner
    BY <2>2 DEF ReleaseDelete, Goto, HolderOwns, Holding, Releasing
  <2>3. ASSUME NEW r \in Runner, Acquire(r) \/ Release(r) \/ Abandon(r)
        PROVE  AcquireWrite(r) \/ ReleaseDelete(r)
    BY <2>3 DEF Acquire, AcquireBegin, AcquireAttrs, AcquireRead, AcquireLostRace,
                Release, ReleaseBegin, ReleaseRead, Abandon
  <2> QED
    BY <2>1, <2>2, <2>3 DEF Next, Tick, vars
<1> QED
  BY <1>1, LockInvariant, PTL DEF Spec, OnlyOwnerFrees

-----------------------------------------------------------------------------
\* How a step of one process changes the active tokens.
LEMMA ActiveAfter ==
  ASSUME TypeOK, NEW r \in Runner, NEW l, Goto(r, l), tok' = tok
  PROVE  /\ l \in Holding => ActiveTokens' = ActiveTokens \cup {tok[r]}
         /\ pc[r] \notin Holding /\ l \notin Holding => ActiveTokens' = ActiveTokens
BY DEF TypeOK, Goto, ActiveTokens, Holding, Releasing

\* When a process stops holding, its token, which is its own, is no longer active.
LEMMA ActiveWithout ==
  ASSUME LockInv, NEW r \in Runner, pc[r] \in Holding, Goto(r, "idle"), tok' = tok
  PROVE  ActiveTokens' = ActiveTokens \ {tok[r]}
<1>1. \A q \in Runner : pc[q] \in Holding => tok[q] # 0
  BY DEF LockInv, TokensFresh, Holding, Releasing
<1>2. \A q \in Runner : pc[q] \in Holding /\ q # r => tok[q] # tok[r]
  BY <1>1 DEF LockInv, TokensFresh
<1>3. \A q \in Runner : pc'[q] \in Holding <=> pc[q] \in Holding /\ q # r
  BY DEF LockInv, TypeOK, Goto, Holding, Releasing
<1> QED
  BY <1>2, <1>3 DEF ActiveTokens

\* The abstract holder and deadline read off the bucket.
Holder == IF object = NoObject THEN 0 ELSE object.tok
Until  == IF object = NoObject THEN 0 ELSE object.expires

\* Every step of the storage protocol is a step of the abstract lease or none.
LEMMA StepSimulation ==
  ASSUME ReleaseBounded = TRUE, LockInv, LockInv', [Next]_vars
  PROVE  [LeaseSpec!Next]_(LeaseSpec!vars)
<1> DEFINE Stutter == UNCHANGED <<Holder, Until, ActiveTokens, now>>
<1>0. Stutter => UNCHANGED LeaseSpec!vars
  BY DEF LeaseSpec!vars, Holder, Until
<1> USE GCSLockAssumption DEF LockInv, TypeOK, LockFile
<1>1. ASSUME Tick
      PROVE  LeaseSpec!Next
  <2>1. \A t \in ActiveTokens : now + 1 < Until
    BY <1>1 DEF Tick, Timed, ActiveTokens, HolderOwns, Holding, Until
  <2>2. ActiveTokens' = ActiveTokens
    BY <1>1 DEF Tick, ActiveTokens
  <2>3. LeaseSpec!Tick
    BY <1>1, <2>1, <2>2 DEF Tick, Until, LeaseSpec!Tick
  <2> QED
    BY <2>3 DEF LeaseSpec!Next
<1>2. ASSUME NEW r \in Runner, AcquireBegin(r)
      PROVE  Stutter
  <2>1. /\ \A q \in Runner : pc'[q] \in Holding <=> pc[q] \in Holding
        /\ \A q \in Runner : pc[q] \in Holding => tok'[q] = tok[q]
    BY <1>2 DEF AcquireBegin, Goto, Holding, Releasing
  <2>2. ActiveTokens' = ActiveTokens
    BY <2>1 DEF ActiveTokens
  <2> QED
    BY <1>2, <2>2 DEF AcquireBegin, Holder, Until
<1>3. ASSUME NEW r \in Runner, NEW l \in {"read", "create", "replace", "idle"},
             pc[r] \in Acquiring, Goto(r, l), UNCHANGED <<now, object, tok>>
      PROVE  Stutter
  BY <1>3, ActiveAfter DEF Acquiring, Holding, Releasing, Holder, Until
<1>4. ASSUME NEW r \in Runner, AcquireWrite(r)
      PROVE  LeaseSpec!Next
  <2>1. /\ object # NoObject => object.expires <= now
        /\ start[r] + TTL > now
    BY <1>4 DEF AcquireWrite, Precondition, ReplacesExpired, CallsYoung
  <2>2. tok[r] \in 1..MaxAcquires
    BY <1>4 DEF AcquireWrite, TokensFresh
  <2>3. tok[r] \notin ActiveTokens
    BY <1>4 DEF AcquireWrite, TokensFresh, ActiveTokens, Holding, Releasing
  <2>4. ActiveTokens' \in {ActiveTokens, ActiveTokens \cup {tok[r]}}
    BY <1>4, ActiveAfter DEF AcquireWrite, Holding, Releasing
  <2>5. Holder' = tok[r] /\ Until' = start[r] + TTL
    BY <1>4 DEF AcquireWrite, Holder, Until
  <2>6. LeaseSpec!Grant(tok[r])
    BY <1>4, <2>1, <2>3, <2>4, <2>5 DEF AcquireWrite, LeaseSpec!Grant, Holder, Until
  <2> QED
    BY <2>2, <2>6 DEF LeaseSpec!Next
<1>5. ASSUME NEW r \in Runner, ReleaseBegin(r)
      PROVE  Stutter
  <2>1. ActiveTokens' = ActiveTokens \cup {tok[r]}
    BY <1>5, ActiveAfter DEF ReleaseBegin, Holding, Releasing
  <2>2. tok[r] \in ActiveTokens
    BY <1>5 DEF ReleaseBegin, Holding, Releasing, ActiveTokens
  <2> QED
    BY <1>5, <2>1, <2>2 DEF ReleaseBegin, Holder, Until
<1>6. ASSUME NEW r \in Runner, ReleaseRead(r)
      PROVE  Stutter
  <2>1. object # NoObject /\ object.tok = tok[r]
    BY <1>6 DEF ReleaseRead, HolderOwns, Holding, Releasing
  <2>2. Goto(r, "releaseDelete")
    BY <1>6, <2>1 DEF ReleaseRead
  <2>3. ActiveTokens' = ActiveTokens \cup {tok[r]}
    BY <1>6, <2>2, ActiveAfter DEF ReleaseRead, Holding, Releasing
  <2>4. tok[r] \in ActiveTokens
    BY <1>6 DEF ReleaseRead, Holding, Releasing, ActiveTokens
  <2> QED
    BY <1>6, <2>3, <2>4 DEF ReleaseRead, Holder, Until
<1>7. ASSUME NEW r \in Runner, ReleaseDelete(r)
      PROVE  LeaseSpec!Next
  <2>1. object # NoObject /\ object.tok = tok[r] /\ tok[r] \in 1..MaxAcquires
    BY <1>7 DEF ReleaseDelete, HolderOwns, TokensFresh, Holding, Releasing
  <2>2. ActiveTokens' = ActiveTokens \ {tok[r]}
    BY <1>7, ActiveWithout DEF ReleaseDelete, Holding, Releasing
  <2> QED
    BY <1>7, <2>1, <2>2 DEF ReleaseDelete, LeaseSpec!Free, LeaseSpec!Next
<1>8. ASSUME NEW r \in Runner, Abandon(r)
      PROVE  Stutter \/ LeaseSpec!Next
  <2>1. CASE pc[r] \in Holding
    <3>1. ActiveTokens' = ActiveTokens \ {tok[r]}
      BY <1>8, <2>1, ActiveWithout DEF Abandon
    <3>2. tok[r] \in ActiveTokens /\ tok[r] \in 1..MaxAcquires
      BY <1>8, <2>1 DEF Abandon, ActiveTokens, TokensFresh
    <3> QED
      BY <1>8, <3>1, <3>2 DEF Abandon, LeaseSpec!Quit, LeaseSpec!Next
  <2>2. CASE pc[r] \notin Holding
    BY <1>8, <2>2, ActiveAfter DEF Abandon, Holding, Releasing, Holder, Until
  <2> QED
    BY <2>1, <2>2
<1>9. ASSUME UNCHANGED vars
      PROVE  Stutter
  BY <1>9 DEF vars, ActiveTokens, Holder, Until
<1>10. ASSUME NEW r \in Runner, Acquire(r)
       PROVE  Stutter \/ LeaseSpec!Next
  <2>1. CASE AcquireAttrs(r) \/ AcquireRead(r) \/ AcquireLostRace(r)
    BY <1>3, <2>1 DEF AcquireAttrs, AcquireRead, AcquireLostRace, Acquiring
  <2> QED
    BY <1>2, <1>4, <1>10, <2>1 DEF Acquire
<1> HIDE DEF Stutter
<1>11. Stutter \/ LeaseSpec!Next
  BY <1>1, <1>5, <1>6, <1>7, <1>8, <1>9, <1>10 DEF Next, Release
<1> QED
  BY <1>0, <1>11

\* The GCS lease implements the abstract one.
THEOREM LeaseRefinement == ASSUME ReleaseBounded = TRUE PROVE Spec => Refinement
<1>1. Init => LeaseSpec!Init
  BY DEF Init, LeaseSpec!Init, ActiveTokens, Holding, Releasing
<1>2. LockInv /\ LockInv' /\ [Next]_vars => [LeaseSpec!Next]_(LeaseSpec!vars)
  BY StepSimulation
<1> QED
  BY <1>1, <1>2, LockInvariant, PTL DEF Spec, Refinement, LeaseSpec!Spec


\* What the abstract lease promises: only the holder of a lease is ever active, so
\* guarded work of two runs never overlaps (lock.go, the Lease and Lock interfaces).
\* It follows from the abstract steps alone, and the GCS lease inherits it.
THEOREM ExclusiveHolds ==
  ASSUME ReleaseBounded = TRUE PROVE Spec => []LeaseSpec!Exclusive
<1> DEFINE LeaseInv == LeaseSpec!TypeOK /\ LeaseSpec!ActiveUnexpired /\ LeaseSpec!Exclusive
<1> USE GCSLockAssumption DEF LeaseSpec!TypeOK, LeaseSpec!ActiveUnexpired, LeaseSpec!Exclusive
<1>1. LeaseSpec!Init => LeaseInv
  BY DEF LeaseSpec!Init
<1>2. LeaseInv /\ [LeaseSpec!Next]_(LeaseSpec!vars) => LeaseInv'
  <2> SUFFICES ASSUME LeaseInv, [LeaseSpec!Next]_(LeaseSpec!vars)
               PROVE  LeaseInv'
    OBVIOUS
  <2>1. CASE LeaseSpec!Tick
    BY <2>1 DEF LeaseSpec!Tick
  <2>2. ASSUME NEW t \in 1..MaxAcquires, LeaseSpec!Grant(t)
        PROVE  LeaseInv'
    <3>1. ActiveTokens = {}
      BY <2>2 DEF LeaseSpec!Grant
    <3> QED
      BY <2>2, <3>1 DEF LeaseSpec!Grant
  <2>3. ASSUME NEW t \in 1..MaxAcquires, LeaseSpec!Free(t)
        PROVE  LeaseInv'
    <3>1. ActiveTokens' = {}
      BY <2>3 DEF LeaseSpec!Free
    <3>2. (Holder = 0 /\ Until = 0)' /\ now' = now
      BY <2>3 DEF LeaseSpec!Free, Holder, Until
    <3> QED
      BY <3>1, <3>2 DEF Holder, Until
  <2>4. ASSUME NEW t \in 1..MaxAcquires, LeaseSpec!Quit(t)
        PROVE  LeaseInv'
    BY <2>4 DEF LeaseSpec!Quit
  <2>5. CASE UNCHANGED LeaseSpec!vars
    BY <2>5 DEF LeaseSpec!vars
  <2> QED
    BY <2>1, <2>2, <2>3, <2>4, <2>5 DEF LeaseSpec!Next
<1>3. LeaseInv => LeaseSpec!Exclusive
  OBVIOUS
<1> HIDE DEF LeaseInv
<1> QED
  BY <1>1, <1>2, <1>3, LeaseRefinement, PTL DEF Refinement, LeaseSpec!Spec
=============================================================================
