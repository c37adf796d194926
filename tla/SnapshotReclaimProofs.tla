----------------------- MODULE SnapshotReclaimProofs -----------------------
(***************************************************************************)
(* Proofs about snapshot runs and the janitor, for any number of runs, any  *)
(* number of attempts and any timeouts.                                     *)
(***************************************************************************)
EXTENDS SnapshotReclaim, FiniteSetTheorems, TLAPS

-----------------------------------------------------------------------------
(* Constants and types *)

\* The constants are times, and a run with a listing before it fits into the TTL.
LEMMA ConstantFacts ==
  /\ ResourceTTL \in Nat /\ RetainTTL \in Nat /\ RetainTTL > 0 /\ Attempts \in Nat /\ Attempts > 0
  /\ RunBound \in Nat /\ ListBound \in Nat /\ SweepPeriod \in Nat /\ SweepPeriod > 0
  /\ MaxTime \in Nat /\ RunBound + ListBound < ResourceTTL
  BY SnapshotReclaimAssumption

\* So do they fit into the TTL of what is retained.
LEMMA TTLFacts ==
  /\ RetentionTTL \in Nat /\ RetentionTTL >= ResourceTTL /\ RetentionTTL > RunBound + ListBound
  /\ Margin \in Nat /\ Margin <= RetentionTTL /\ Margin <= RetainTTL /\ Margin <= ResourceTTL
  BY ConstantFacts DEF RetentionTTL, Margin

\* Neither changes when the configuration does not.
LEMMA TTLsStay ==
  ASSUME Retain' = Retain
  PROVE  RetentionTTL' = RetentionTTL /\ Margin' = Margin
  BY DEF RetentionTTL, Margin

\* What is known of a sandbox.
LEMMA BoxTypes ==
  ASSUME TypeOK, NEW r \in Run, NEW k \in Role
  PROVE  /\ box[r][k] \in Sandbox
         /\ box[r][k].state \in {"none", "live", "gone"} /\ box[r][k].names \in SnapID
         /\ box[r][k].expires \in Nat /\ box[r][k].autoDelete \in Nat
         /\ box[r][k].retained \in BOOLEAN
<1>1. box[r][k] \in Sandbox
  BY DEF TypeOK
<1> QED
  BY <1>1 DEF Sandbox

\* What is known of a run.
LEMMA RunTypes ==
  ASSUME TypeOK, NEW r \in Run
  PROVE  /\ created[r] \in Nat /\ attempt[r] \in Nat /\ now \in Nat /\ snapID[r] \in Nat
         /\ source[r] \in BOOLEAN /\ fork[r] \in BOOLEAN /\ recorded[r] \in BOOLEAN
         /\ err[r] \in BOOLEAN /\ Retain \in BOOLEAN
         /\ snaps[r] \subseteq 1..Attempts /\ 0 \notin snaps[r] /\ snapID[r] \in SnapID
  BY ConstantFacts DEF TypeOK, Time, SnapID

\* A run has a source and a fork.
LEMMA Roles == "source" \in Role /\ "fork" \in Role /\ \A k \in Role : k = "source" \/ k = "fork"
  BY DEF Role

-----------------------------------------------------------------------------
(* What the requests do to a sandbox *)

\* Only the sandbox of run r in role k may change.
OnlyAt(r, k) == \A q \in Run, l \in Role : q # r \/ l # k => box'[q][l] = box[q][l]

\* Only the one sandbox changes.
LEMMA PutEffect ==
  ASSUME TypeOK, NEW r \in Run, NEW k \in Role, NEW b \in Sandbox,
         box' = [box EXCEPT ![r][k] = b]
  PROVE  box' \in [Run -> [Role -> Sandbox]] /\ OnlyAt(r, k) /\ box'[r][k] = b
<1>1. box \in [Run -> [Role -> Sandbox]] /\ box[r] \in [Role -> Sandbox]
  BY DEF TypeOK
<1>2. box'[r] = [box[r] EXCEPT ![k] = b] /\ \A q \in Run : q # r => box'[q] = box[q]
  BY <1>1
<1>3. box'[r] \in [Role -> Sandbox] /\ box'[r][k] = b
      /\ \A l \in Role : l # k => box'[r][l] = box[r][l]
  BY <1>1, <1>2
<1> QED
  BY <1>1, <1>2, <1>3 DEF OnlyAt

\* A sandbox is created with its expiry and its auto-deletion.
LEMMA CreatesEffect ==
  ASSUME TypeOK, NEW r \in Run, NEW k \in Role, NEW factor \in {1, 2}, Creates(r, k, factor)
  PROVE  /\ box' \in [Run -> [Role -> Sandbox]] /\ OnlyAt(r, k)
         /\ box'[r][k].state = "live" /\ box'[r][k].names = 0
         /\ box'[r][k].expires = created[r] + RetentionTTL
         /\ box'[r][k].autoDelete = now + factor * RetentionTTL
         /\ box'[r][k].retained = FALSE
<1> DEFINE b == [state |-> "live", names |-> 0, expires |-> created[r] + RetentionTTL,
                 autoDelete |-> now + factor * RetentionTTL, retained |-> FALSE]
<1>1. now + factor * RetentionTTL \in Nat /\ created[r] + RetentionTTL \in Nat
  BY TTLFacts, RunTypes
<1>2. b \in Sandbox
  BY <1>1, ConstantFacts DEF Sandbox, SnapID
<1>3. box' = [box EXCEPT ![r][k] = b]
  BY DEF Creates
<1> HIDE DEF b
<1>4. box' \in [Run -> [Role -> Sandbox]] /\ OnlyAt(r, k) /\ box'[r][k] = b
  BY <1>2, <1>3, PutEffect
<1> QED
  BY <1>4 DEF b

\* A deletion takes a sandbox that is there, and else does nothing.
LEMMA DeletesEffect ==
  ASSUME TypeOK, NEW r \in Run, NEW k \in Role, Deletes(r, k)
  PROVE  /\ box' \in [Run -> [Role -> Sandbox]] /\ OnlyAt(r, k)
         /\ box'[r][k].state = (IF box[r][k].state = "live" THEN "gone" ELSE box[r][k].state)
         /\ box'[r][k].names = box[r][k].names /\ box'[r][k].expires = box[r][k].expires
         /\ box'[r][k].autoDelete = box[r][k].autoDelete
         /\ box'[r][k].retained = box[r][k].retained
         /\ box[r][k].state # "live" => box'[r][k] = box[r][k]
<1> DEFINE st == IF box[r][k].state = "live" THEN "gone" ELSE box[r][k].state
           b == [box[r][k] EXCEPT !.state = st]
<1>1. box[r][k] \in Sandbox /\ st \in {"none", "live", "gone"}
      /\ box \in [Run -> [Role -> Sandbox]]
  BY BoxTypes DEF TypeOK
<1>2. box' = [box EXCEPT ![r][k] = b]
  BY <1>1 DEF Deletes
<1> HIDE DEF st
<1>3. b \in Sandbox /\ b.state = st /\ b.names = box[r][k].names
      /\ b.expires = box[r][k].expires /\ b.autoDelete = box[r][k].autoDelete
      /\ b.retained = box[r][k].retained
  BY <1>1 DEF Sandbox
<1>5. ASSUME box[r][k].state # "live"
      PROVE  b = box[r][k]
  <2>1. st = box[r][k].state
    BY <1>5 DEF st
  <2> QED
    BY <1>1, <2>1 DEF Sandbox
<1> HIDE DEF b
<1>4. box' \in [Run -> [Role -> Sandbox]] /\ OnlyAt(r, k) /\ box'[r][k] = b
  BY <1>2, <1>3, PutEffect
<1> QED
  BY <1>3, <1>4, <1>5 DEF st

\* An update reaches only a sandbox that is there.
LEMMA UpdatesEffect ==
  ASSUME TypeOK, NEW r \in Run, NEW k \in Role, NEW b \in Sandbox, Updates(r, k, b)
  PROVE  /\ box' \in [Run -> [Role -> Sandbox]] /\ OnlyAt(r, k)
         /\ box'[r][k] = IF box[r][k].state = "live" THEN b ELSE box[r][k]
<1> DEFINE c == IF box[r][k].state = "live" THEN b ELSE box[r][k]
<1>1. c \in Sandbox /\ box \in [Run -> [Role -> Sandbox]]
  BY BoxTypes DEF TypeOK
<1>2. box' = [box EXCEPT ![r][k] = c]
  BY <1>1 DEF Updates
<1> QED
  BY <1>1, <1>2, PutEffect

\* No request.
LEMMA BoxStays ==
  ASSUME TypeOK, UNCHANGED box, NEW r \in Run, NEW k \in Role
  PROVE  box' \in [Run -> [Role -> Sandbox]] /\ OnlyAt(r, k) /\ box'[r][k] = box[r][k]
  BY DEF TypeOK, OnlyAt

\* Pointing the source at the snapshot the run knows of.
LEMMA NamesEffect ==
  ASSUME TypeOK, NEW r \in Run, Names(r) \/ UNCHANGED box
  PROVE  LET s == box[r]["source"]
             t == box'[r]["source"]
         IN  /\ box' \in [Run -> [Role -> Sandbox]] /\ OnlyAt(r, "source")
             /\ t.state = s.state /\ t.expires = s.expires /\ t.autoDelete = s.autoDelete
             /\ t.retained = s.retained /\ t.names \in {s.names, snapID[r]}
             /\ Names(r) /\ s.state = "live" => t.names = snapID[r]
<1> DEFINE s == box[r]["source"]
           b == [s EXCEPT !.names = snapID[r]]
<1>1. s \in Sandbox /\ snapID[r] \in SnapID
  BY BoxTypes, RunTypes, Roles
<1>2. b \in Sandbox /\ b.state = s.state /\ b.names = snapID[r] /\ b.expires = s.expires
      /\ b.autoDelete = s.autoDelete /\ b.retained = s.retained
  BY <1>1 DEF Sandbox
<1>3. CASE Names(r)
  <2>1. Updates(r, "source", b)
    BY <1>3 DEF Names
  <2>2. /\ box' \in [Run -> [Role -> Sandbox]] /\ OnlyAt(r, "source")
        /\ box'[r]["source"] = IF s.state = "live" THEN b ELSE s
    BY <1>2, <2>1, UpdatesEffect, Roles
  <2> QED
    BY <1>2, <2>2
<1>4. CASE UNCHANGED box /\ ~Names(r)
  BY <1>4, BoxStays, Roles
<1> QED
  BY <1>3, <1>4

\* Retention, deletion, or a request without effect.
Finalized(r, k) ==
  LET b == box[r][k]
      c == box'[r][k]
      names == IF k = "source" THEN snapID[r] ELSE 0
  IN  /\ box' \in [Run -> [Role -> Sandbox]] /\ OnlyAt(r, k)
      /\ err'[r] \in BOOLEAN /\ err' \in [Run -> BOOLEAN] /\ (err[r] => err'[r])
      /\ \A q \in Run : q # r => err'[q] = err[q]
      /\ ~(err[r] /\ Retain) /\ ~err'[r] => c.state # "live"
      /\ err[r] /\ Retain => c.state = b.state
      /\ \/ c = b
         \/ /\ ~(err[r] /\ Retain)
            /\ c.state = (IF b.state = "live" THEN "gone" ELSE b.state)
            /\ c.names = b.names /\ c.expires = b.expires
            /\ c.autoDelete = b.autoDelete /\ c.retained = b.retained
         \/ /\ err[r] /\ Retain /\ b.state = "live"
            /\ c.state = "live" /\ c.names = names /\ c.expires = now + RetainTTL
            /\ c.autoDelete = now + (IF names # 0 THEN 2 ELSE 1) * RetainTTL
            /\ c.retained = TRUE

\* Finalizing a sandbox deletes it or keeps it for debugging, and may fail.
LEMMA FinalizeEffect ==
  ASSUME TypeOK, NEW r \in Run, NEW k \in Role, FinalizeSandbox(r, k)
  PROVE  Finalized(r, k)
<1> DEFINE names == IF k = "source" THEN snapID[r] ELSE 0
           ret == Retained(r, k)
<1>1. now \in Nat /\ RetainTTL \in Nat /\ names \in SnapID /\ err[r] \in BOOLEAN
      /\ err \in [Run -> BOOLEAN] /\ Retain \in BOOLEAN
  BY RunTypes, ConstantFacts DEF SnapID, TypeOK
<1>2. box[r][k].state \in {"none", "live", "gone"}
  BY BoxTypes
<1>3. CASE err[r] /\ Retain /\ (Updates(r, k, ret) \/ UNCHANGED box) /\ UNCHANGED err
  <2>1. ret = [state |-> "live", names |-> names, expires |-> now + RetainTTL,
               autoDelete |-> now + (IF names # 0 THEN 2 ELSE 1) * RetainTTL,
               retained |-> TRUE]
    BY DEF Retained, AutoDeleteFactor
  <2>2. now + RetainTTL \in Nat /\ now + (IF names # 0 THEN 2 ELSE 1) * RetainTTL \in Nat
    BY <1>1
  <2>3. ret \in Sandbox
    BY <1>1, <2>1, <2>2 DEF Sandbox
  <2>4. /\ box' \in [Run -> [Role -> Sandbox]] /\ OnlyAt(r, k)
        /\ box'[r][k] = box[r][k] \/ (box[r][k].state = "live" /\ box'[r][k] = ret)
    BY <1>3, <2>3, UpdatesEffect, BoxStays
  <2> HIDE DEF ret
  <2> QED
    BY <1>1, <1>2, <1>3, <2>1, <2>4 DEF Finalized
<1>4. CASE ~(err[r] /\ Retain) /\ (Deletes(r, k) \/ UNCHANGED box)
           /\ ((Deletes(r, k) /\ UNCHANGED err) \/ Fails(r))
  <2>1. err' \in [Run -> BOOLEAN] /\ (err[r] => err'[r]) /\ (~err'[r] => Deletes(r, k))
        /\ \A q \in Run : q # r => err'[q] = err[q]
    BY <1>1, <1>4 DEF Fails
  <2>2. CASE Deletes(r, k)
    BY <1>2, <1>4, <2>1, <2>2, DeletesEffect DEF Finalized
  <2>3. CASE UNCHANGED box /\ ~Deletes(r, k)
    BY <1>2, <1>4, <2>1, <2>3, BoxStays DEF Finalized
  <2> QED
    BY <1>4, <2>2, <2>3
<1> QED
  BY <1>3, <1>4 DEF FinalizeSandbox

-----------------------------------------------------------------------------
(* A step of a run *)

\* Nothing of run q changes.
Same(q) == /\ pc'[q] = pc[q] /\ created'[q] = created[q] /\ attempt'[q] = attempt[q]
           /\ source'[q] = source[q] /\ fork'[q] = fork[q] /\ snapID'[q] = snapID[q]
           /\ recorded'[q] = recorded[q] /\ err'[q] = err[q] /\ snaps'[q] = snaps[q]
           /\ \A k \in Role : box'[q][k] = box[q][k]

\* What every step of run r does: it keeps itself in order and leaves alone the
\* other runs, the janitor and the sandboxes it is done with.
RunChange(r) ==
  /\ UNCHANGED <<env, janitor>>
  /\ \A q \in Run \ {r} : Same(q)
  /\ RunInOrder(r)'
  /\ \A k \in Role :
       /\ box[r][k].state # "none" => box'[r][k].state # "none"
       /\ Settled(r, k) => /\ Settled(r, k)' /\ snaps'[r] \subseteq snaps[r]
                           /\ box'[r][k].expires = box[r][k].expires
                           /\ box'[r][k].names = box[r][k].names
       /\ Exists(r, k) /\ ~Exists(r, k)' => pc[r] \in Cleanup /\ pc'[r] # pc[r]
  /\ LET s == box[r]["source"]
         t == box'[r]["source"]
     IN  /\ Named(r)' => \/ Named(r) /\ t.expires = s.expires /\ t.names = s.names
                         \/ t.expires > now
         /\ t.state = "gone" /\ t.names \in snaps'[r] => s.state = "gone" /\ s.names \in snaps[r]

\* The run begins.
LEMMA StartStep ==
  ASSUME TypeOK, NEW r \in Run, RunInOrder(r), Start(r)
  PROVE  TypeOK' /\ RunChange(r)
<1> USE RunTypes, ConstantFacts, TTLFacts, BoxTypes, Roles
<1>1. TypeOK'
  BY DEF Start, TypeOK, Goto, InProgress, Body, Time, env, platform, janitor, result, schedule
<1>2. \A q \in Run \ {r} : Same(q)
  BY DEF Same, TypeOK, Start, Goto, platform, result
<1>3. /\ UNCHANGED <<env, janitor>> /\ now' = now /\ RetentionTTL' = RetentionTTL /\ Margin' = Margin
      /\ Retain' = Retain
  BY TTLsStay DEF Start, env
<1>4. /\ pc[r] = "idle" /\ pc'[r] = "create" /\ created'[r] = now
      /\ attempt'[r] = attempt[r] /\ snaps'[r] = snaps[r]
      /\ source'[r] = source[r] /\ fork'[r] = fork[r] /\ snapID'[r] = snapID[r]
      /\ recorded'[r] = recorded[r] /\ err'[r] = err[r]
      /\ \A k \in Role : box'[r][k] = box[r][k]
  BY DEF Start, Goto, TypeOK, platform, result
<1>5. InTime(r)'
  BY <1>3, <1>4 DEF InTime
<1>6. KnowsSource(r)' /\ KnowsFork(r)' /\ Points(r)'
  BY <1>4 DEF RunInOrder, KnowsSource, KnowsFork, Points, Exists, Body, InProgress, Cleanup
<1>7. KnowsSnapshot(r)'
  BY <1>4 DEF RunInOrder, KnowsSnapshot, Before, Naming, KeepSnapshot
<1>8. Undoes(r)'
  BY <1>4 DEF Undoes
<1>9. Remains(r)' /\ \A k \in Role : Expires(r, k)'
  BY <1>3, <1>4 DEF RunInOrder, Remains, Expires, KnowsSource, KnowsFork, Body
<1>10. RunInOrder(r)'
  BY <1>5, <1>6, <1>7, <1>8, <1>9 DEF RunInOrder
<1> QED
  BY <1>1, <1>2, <1>3, <1>4, <1>10 DEF RunChange, RunInOrder, KnowsSource, KnowsFork,
     KnowsSnapshot, Settled, Over, Exists, Named, Cleanup

\* The source is created, or is not known to have been.
LEMMA CreateSourceStep ==
  ASSUME TypeOK, NEW r \in Run, RunInOrder(r), CreateSource(r)
  PROVE  TypeOK' /\ RunChange(r)
<1> USE RunTypes, ConstantFacts, TTLFacts, BoxTypes, Roles
<1>1. \/ Creates(r, "source", 2) /\ pc' = [pc EXCEPT ![r] = "wait_active"]
         /\ source' = [source EXCEPT ![r] = TRUE] /\ UNCHANGED err
      \/ (Creates(r, "source", 2) \/ UNCHANGED box) /\ UNCHANGED source
         /\ pc' = [pc EXCEPT ![r] = "finalize_fork"] /\ err' = [err EXCEPT ![r] = TRUE]
  BY DEF CreateSource, AutoDeleteFactor, Abort, Fails, Goto
<1>2. /\ UNCHANGED <<env, janitor>> /\ now' = now /\ RetentionTTL' = RetentionTTL /\ Margin' = Margin
      /\ Retain' = Retain
      /\ UNCHANGED <<snaps, created, attempt, fork, snapID, recorded>>
  BY TTLsStay DEF CreateSource, env
<1>3. /\ box' \in [Run -> [Role -> Sandbox]] /\ OnlyAt(r, "source")
      /\ \/ box'[r]["source"] = box[r]["source"]
         \/ /\ box'[r]["source"].state = "live" /\ box'[r]["source"].names = 0
            /\ box'[r]["source"].expires = created[r] + RetentionTTL
            /\ box'[r]["source"].autoDelete = now + 2 * RetentionTTL
            /\ box'[r]["source"].retained = FALSE
  BY <1>1, CreatesEffect, BoxStays
<1>4. TypeOK'
  BY <1>1, <1>2, <1>3 DEF TypeOK, InProgress, Body, Cleanup, janitor, schedule, env
<1>5. \A q \in Run \ {r} : Same(q)
  BY <1>1, <1>2, <1>3 DEF Same, TypeOK, OnlyAt
<1>6. /\ pc[r] = "create" /\ box[r]["source"].state = "none" /\ ~source[r]
      /\ box'[r]["fork"] = box[r]["fork"]
      /\ snapID'[r] = 0 /\ snapID[r] = 0 /\ snaps'[r] = {} /\ snaps[r] = {} /\ created'[r] = created[r]
      /\ ~fork[r] /\ ~fork'[r] /\ box[r]["fork"].state = "none" /\ box[r]["fork"].names = 0
      /\ recorded'[r] = recorded[r] /\ ~recorded[r] /\ attempt'[r] = 0
      /\ created[r] <= now /\ now <= created[r] + RunBound
  BY <1>2, <1>3 DEF CreateSource, RunInOrder, KnowsSource, KnowsFork, KnowsSnapshot, Body,
     Points, OnlyAt, InTime, InProgress
<1>7. \/ pc'[r] = "wait_active" /\ box'[r]["source"].state = "live" /\ source'[r] /\ err'[r] = err[r]
      \/ pc'[r] = "finalize_fork" /\ err'[r] = TRUE /\ ~source'[r]
  <2>1. CASE Creates(r, "source", 2) /\ pc' = [pc EXCEPT ![r] = "wait_active"]
              /\ source' = [source EXCEPT ![r] = TRUE] /\ UNCHANGED err
    <3>1. box'[r]["source"].state = "live"
      BY <2>1, CreatesEffect
    <3> QED
      BY <2>1, <3>1 DEF TypeOK
  <2>2. CASE /\ UNCHANGED source /\ pc' = [pc EXCEPT ![r] = "finalize_fork"]
             /\ err' = [err EXCEPT ![r] = TRUE]
    BY <1>6, <2>2 DEF TypeOK
  <2> QED
    BY <1>1, <2>1, <2>2
<1>8. InTime(r)'
  BY <1>2, <1>6, <1>7 DEF InTime
<1>9. KnowsSource(r)' /\ KnowsFork(r)' /\ Points(r)'
  BY <1>3, <1>6, <1>7 DEF RunInOrder, KnowsSource, KnowsFork, Points, Exists, Body,
     InProgress, Cleanup
<1>10. KnowsSnapshot(r)' /\ Undoes(r)'
  BY <1>6, <1>7 DEF KnowsSnapshot, Before, Naming, KeepSnapshot, Undoes
<1>11. Remains(r)'
  BY <1>3, <1>6 DEF Remains
<1>12. \A k \in Role : Expires(r, k)'
  BY <1>2, <1>3, <1>6 DEF Expires
<1>13. RunInOrder(r)'
  BY <1>8, <1>9, <1>10, <1>11, <1>12 DEF RunInOrder
<1> QED
  BY <1>2, <1>3, <1>4, <1>5, <1>6, <1>13 DEF RunChange, Settled, Over, Exists, Named, Cleanup

\* The steps that only look at a sandbox, and the end of the process.
LEMMA ProceedStep ==
  ASSUME TypeOK, NEW r \in Run, RunInOrder(r),
         WaitActive(r) \/ Ready(r) \/ Verify(r) \/ Kill(r)
  PROVE  TypeOK' /\ RunChange(r)
<1> USE RunTypes, ConstantFacts, TTLFacts, BoxTypes, Roles
<1>1. /\ UNCHANGED <<env, platform, created, attempt, source, fork, snapID, recorded, janitor>>
      /\ \/ pc[r] = "wait_active" /\ pc' = [pc EXCEPT ![r] = "snapshot"] /\ UNCHANGED err
         \/ pc[r] = "ready" /\ pc' = [pc EXCEPT ![r] = "fork"] /\ UNCHANGED err
         \/ pc[r] = "verify" /\ pc' = [pc EXCEPT ![r] = "finalize_fork"] /\ UNCHANGED err
         \/ /\ pc[r] \in {"wait_active", "ready", "verify"}
            /\ pc' = [pc EXCEPT ![r] = "finalize_fork"] /\ err' = [err EXCEPT ![r] = TRUE]
         \/ pc[r] \in InProgress /\ pc' = [pc EXCEPT ![r] = "killed"] /\ UNCHANGED err
  BY DEF WaitActive, Ready, Verify, Proceeds, Kill, Abort, Fails, Goto, result
<1>2. TypeOK'
  BY <1>1 DEF TypeOK, InProgress, Body, Cleanup, janitor, schedule, env, platform
<1>3. \A q \in Run \ {r} : Same(q)
  BY <1>1 DEF Same, TypeOK, platform
<1>4. /\ UNCHANGED <<env, janitor>> /\ now' = now /\ RetentionTTL' = RetentionTTL /\ Margin' = Margin
      /\ Retain' = Retain
  BY <1>1, TTLsStay DEF env
<1>5. /\ created'[r] = created[r] /\ attempt'[r] = attempt[r] /\ snaps'[r] = snaps[r]
      /\ source'[r] = source[r] /\ fork'[r] = fork[r] /\ snapID'[r] = snapID[r]
      /\ recorded'[r] = recorded[r] /\ \A k \in Role : box'[r][k] = box[r][k]
  BY <1>1 DEF platform
<1>6. /\ \/ pc[r] = "wait_active" /\ pc'[r] = "snapshot" /\ err'[r] = err[r]
         \/ pc[r] = "ready" /\ pc'[r] = "fork" /\ err'[r] = err[r]
         \/ pc[r] = "verify" /\ pc'[r] = "finalize_fork" /\ err'[r] = err[r]
         \/ pc[r] \in {"wait_active", "ready", "verify"} /\ pc'[r] = "finalize_fork" /\ err'[r]
         \/ pc[r] \in InProgress /\ pc'[r] = "killed" /\ err'[r] = err[r]
  BY <1>1 DEF TypeOK
<1>7. InTime(r)'
  BY <1>4, <1>5, <1>6 DEF InTime, RunInOrder, InProgress, Body, Cleanup
<1>8. KnowsSource(r)' /\ KnowsFork(r)'
  BY <1>5, <1>6 DEF RunInOrder, KnowsSource, KnowsFork, Exists, Body, InProgress, Cleanup
<1>9. Points(r)'
  BY <1>5 DEF RunInOrder, Points
<1>10. KnowsSnapshot(r)'
  BY <1>5, <1>6 DEF RunInOrder, KnowsSnapshot, Before, Naming, KeepSnapshot, InProgress, Body
<1>11. Undoes(r)'
  BY <1>5, <1>6 DEF RunInOrder, Undoes, KnowsFork, KnowsSnapshot, Body, InProgress
<1>12. Remains(r)' /\ \A k \in Role : Expires(r, k)'
  BY <1>4, <1>5, <1>6 DEF RunInOrder, Remains, Expires, Settled, Over, Cleanup
<1>13. RunInOrder(r)'
  BY <1>7, <1>8, <1>9, <1>10, <1>11, <1>12 DEF RunInOrder
<1> QED
  BY <1>2, <1>3, <1>4, <1>5, <1>6, <1>13 DEF RunChange, Settled, Over, Exists, Named,
     Cleanup, InProgress, Body

\* A snapshot is taken, at most once whatever responses are lost, and recorded.
LEMMA SnapshotStep ==
  ASSUME TypeOK, NEW r \in Run, RunInOrder(r), Snapshot(r)
  PROVE  TypeOK' /\ RunChange(r)
<1> USE RunTypes, ConstantFacts, TTLFacts, BoxTypes, Roles
<1>1. /\ UNCHANGED <<env, box, created, source, fork, recorded, janitor>>
      /\ pc[r] = "snapshot" /\ attempt' = [attempt EXCEPT ![r] = attempt[r] + 1]
  BY DEF Snapshot
<1>2. /\ UNCHANGED <<env, janitor>> /\ now' = now /\ RetentionTTL' = RetentionTTL /\ Margin' = Margin
      /\ Retain' = Retain
  BY <1>1, TTLsStay DEF env
<1>3. /\ snapID[r] = 0 /\ attempt[r] < Attempts /\ source[r] /\ ~recorded[r]
      /\ box[r]["source"].names = 0 /\ Exists(r, "source")
      /\ box[r]["fork"].state = "none" /\ ~fork[r]
  BY <1>1 DEF RunInOrder, KnowsSource, KnowsSnapshot, KnowsFork, Points, Before, Body,
     InProgress
<1>4. /\ attempt' \in [Run -> SnapID] /\ attempt'[r] = attempt[r] + 1
      /\ \A q \in Run : q # r => attempt'[q] = attempt[q]
  BY <1>1, <1>3 DEF TypeOK, SnapID
<1>5. /\ snaps' \in [Run -> SUBSET (1..Attempts)] /\ \A q \in Run : q # r => snaps'[q] = snaps[q]
      /\ \A m, n \in snaps'[r] : m = n
  <2>1. \A m, n \in snaps[r] : m = n
    BY DEF RunInOrder, KnowsSnapshot
  <2>2. CASE UNCHANGED snaps
    BY <2>1, <2>2 DEF TypeOK
  <2>3. CASE Captures(r, attempt[r] + 1)
    <3>1. snaps' = [snaps EXCEPT ![r] = IF snaps[r] = {} THEN {attempt[r] + 1} ELSE snaps[r]]
      BY <2>3 DEF Captures
    <3>2. {attempt[r] + 1} \subseteq 1..Attempts
      BY <1>3
    <3> QED
      BY <2>1, <3>1, <3>2 DEF TypeOK
  <2> QED
    BY <2>2, <2>3 DEF Snapshot
<1>6. /\ \/ /\ pc' = [pc EXCEPT ![r] = "record"] /\ UNCHANGED err
            /\ \E n \in snaps'[r] : snapID' = [snapID EXCEPT ![r] = n]
         \/ attempt[r] + 1 < Attempts /\ UNCHANGED <<snapID, err, pc>>
         \/ /\ pc' = [pc EXCEPT ![r] = "finalize_fork"] /\ err' = [err EXCEPT ![r] = TRUE]
            /\ UNCHANGED snapID
  BY DEF Snapshot, Goto, Abort, Fails, MayRetry
<1>7. /\ pc' \in [Run -> {"idle", "done", "killed"} \cup InProgress] /\ err' \in [Run -> BOOLEAN]
      /\ snapID' \in [Run -> SnapID]
      /\ \A q \in Run : q # r => pc'[q] = pc[q] /\ err'[q] = err[q] /\ snapID'[q] = snapID[q]
      /\ \/ pc'[r] = "record" /\ err'[r] = err[r] /\ snapID'[r] \in snaps'[r]
         \/ pc'[r] = "snapshot" /\ attempt'[r] < Attempts /\ snapID'[r] = 0
         \/ pc'[r] = "finalize_fork" /\ err'[r] = TRUE /\ snapID'[r] = 0
  <2>1. CASE /\ pc' = [pc EXCEPT ![r] = "record"] /\ UNCHANGED err
             /\ \E n \in snaps'[r] : snapID' = [snapID EXCEPT ![r] = n]
    <3>1. PICK n \in snaps'[r] : snapID' = [snapID EXCEPT ![r] = n]
      BY <2>1
    <3>2. n \in SnapID
      BY <1>5 DEF SnapID
    <3> QED
      BY <2>1, <3>1, <3>2 DEF TypeOK, InProgress, Body
  <2>2. CASE attempt[r] + 1 < Attempts /\ UNCHANGED <<snapID, err, pc>>
    BY <1>1, <1>3, <1>4, <2>2 DEF TypeOK
  <2>3. CASE /\ pc' = [pc EXCEPT ![r] = "finalize_fork"] /\ err' = [err EXCEPT ![r] = TRUE]
             /\ UNCHANGED snapID
    BY <1>3, <2>3 DEF TypeOK, InProgress, Cleanup
  <2> QED
    BY <1>6, <2>1, <2>2, <2>3
<1>8. TypeOK'
  BY <1>1, <1>4, <1>5, <1>7 DEF TypeOK, janitor, schedule, env
<1>9. \A q \in Run \ {r} : Same(q)
  BY <1>1, <1>4, <1>5, <1>7 DEF Same
<1>10. /\ created'[r] = created[r] /\ source'[r] = source[r] /\ fork'[r] = fork[r]
       /\ recorded'[r] = recorded[r] /\ \A k \in Role : box'[r][k] = box[r][k]
       /\ 0 \notin snaps'[r]
  BY <1>1, <1>5
<1>11. InTime(r)'
  BY <1>1, <1>2, <1>7, <1>10 DEF InTime, RunInOrder, InProgress, Body, Cleanup
<1>12. KnowsSource(r)' /\ KnowsFork(r)' /\ Points(r)'
  BY <1>3, <1>7, <1>10 DEF RunInOrder, KnowsSource, KnowsFork, Points, Exists, Body,
     InProgress, Cleanup
<1>13. KnowsSnapshot(r)'
  BY <1>5, <1>7, <1>10 DEF KnowsSnapshot, Before, Naming
<1>14. Undoes(r)'
  BY <1>7 DEF Undoes
<1>15. Remains(r)' /\ \A k \in Role : Expires(r, k)'
  BY <1>1, <1>2, <1>3, <1>7, <1>10 DEF RunInOrder, Remains, Expires, Settled, Over,
     Cleanup, Exists
<1>16. RunInOrder(r)'
  BY <1>11, <1>12, <1>13, <1>14, <1>15 DEF RunInOrder
<1> QED
  BY <1>1, <1>2, <1>3, <1>7, <1>8, <1>9, <1>10, <1>16 DEF RunChange, Settled, Over, Exists,
     Named, Cleanup

\* The source is made to name the snapshot, at once or as a last resort.
LEMMA RecordStep ==
  ASSUME TypeOK, NEW r \in Run, RunInOrder(r), Record(r) \/ LeavePointer(r)
  PROVE  TypeOK' /\ RunChange(r)
<1> USE RunTypes, ConstantFacts, TTLFacts, BoxTypes, Roles
<1>1. /\ UNCHANGED <<env, snaps, created, attempt, source, fork, snapID, janitor>>
      /\ Names(r) \/ UNCHANGED box
      /\ \/ /\ pc[r] = "record" /\ pc' = [pc EXCEPT ![r] = "ready"] /\ UNCHANGED err
            /\ Exists(r, "source") /\ Names(r) /\ recorded' = [recorded EXCEPT ![r] = TRUE]
         \/ /\ pc[r] = "record" /\ pc' = [pc EXCEPT ![r] = "finalize_fork"]
            /\ err' = [err EXCEPT ![r] = TRUE] /\ UNCHANGED recorded
         \/ /\ pc[r] = "leave_pointer" /\ pc' = [pc EXCEPT ![r] = "done"]
            /\ UNCHANGED <<err, recorded>>
  BY DEF Record, LeavePointer, Goto, Abort, Fails, result
<1>2. /\ UNCHANGED <<env, janitor>> /\ now' = now /\ RetentionTTL' = RetentionTTL /\ Margin' = Margin
      /\ Retain' = Retain
  BY <1>1, TTLsStay DEF env
<1>3. LET s == box[r]["source"]
          t == box'[r]["source"]
      IN  /\ box' \in [Run -> [Role -> Sandbox]] /\ OnlyAt(r, "source")
          /\ t.state = s.state /\ t.expires = s.expires /\ t.autoDelete = s.autoDelete
          /\ t.retained = s.retained /\ t.names \in {s.names, snapID[r]}
          /\ Names(r) /\ s.state = "live" => t.names = snapID[r]
  BY <1>1, NamesEffect
<1>4. TypeOK'
  BY <1>1, <1>3 DEF TypeOK, InProgress, Body, Cleanup, janitor, schedule, env
<1>5. \A q \in Run \ {r} : Same(q)
  BY <1>1, <1>3 DEF Same, TypeOK, OnlyAt
<1>6. /\ created'[r] = created[r] /\ attempt'[r] = attempt[r] /\ snaps'[r] = snaps[r]
      /\ source'[r] = source[r] /\ fork'[r] = fork[r] /\ snapID'[r] = snapID[r]
      /\ box'[r]["fork"] = box[r]["fork"]
      /\ \/ /\ pc[r] = "record" /\ pc'[r] = "ready" /\ err'[r] = err[r]
            /\ recorded'[r] /\ box'[r]["source"].names = snapID[r]
         \/ pc[r] = "record" /\ pc'[r] = "finalize_fork" /\ err'[r] /\ recorded'[r] = recorded[r]
         \/ /\ pc[r] = "leave_pointer" /\ pc'[r] = "done" /\ err'[r] = err[r]
            /\ recorded'[r] = recorded[r]
  BY <1>1, <1>3 DEF TypeOK, OnlyAt, Exists
<1>7. pc[r] \in InProgress /\ pc[r] \notin {"idle", "create"} /\ ~Settled(r, "source")
  BY <1>6 DEF InProgress, Body, Cleanup, Settled, Over
<1>8. /\ snapID[r] # 0 => box[r]["source"].state = "live" /\ ~box[r]["source"].retained
      /\ ~box[r]["source"].retained /\ box[r]["source"].state # "none" =>
           /\ box[r]["source"].expires = created[r] + RetentionTTL
           /\ box[r]["source"].expires > now
           /\ box[r]["source"].expires + Margin <= box[r]["source"].autoDelete
      /\ box[r]["source"].state # "none" => ~box[r]["source"].retained
  BY <1>7 DEF RunInOrder, KnowsSource, Exists, Expires, InTime
<1>9. InTime(r)'
  BY <1>2, <1>6, <1>7 DEF InTime, RunInOrder
<1>10. KnowsSource(r)' /\ KnowsFork(r)'
  BY <1>3, <1>6 DEF RunInOrder, KnowsSource, KnowsFork, Exists, Body, InProgress, Cleanup
<1>11. KnowsSnapshot(r)'
  BY <1>6 DEF RunInOrder, KnowsSnapshot, Before, Naming
<1>12. Points(r)'
  <2>1. box'[r]["source"].names \in {0, snapID'[r]}
    BY <1>3, <1>6 DEF RunInOrder, Points
  <2>2. ASSUME recorded'[r]
        PROVE  snapID'[r] # 0 /\ box'[r]["source"].names = snapID'[r]
    BY <1>3, <1>6, <2>2 DEF RunInOrder, Points, KnowsSnapshot
  <2> QED
    BY <2>1, <2>2 DEF Points
<1>13. Undoes(r)'
  BY <1>6 DEF RunInOrder, Undoes
<1>14. Remains(r)'
  BY <1>2, <1>3, <1>6, <1>8 DEF Remains, RunInOrder, KnowsSource
<1>15. Expires(r, "source")'
  BY <1>2, <1>3, <1>6, <1>8 DEF Expires
<1>16. Expires(r, "fork")'
  BY <1>2, <1>6 DEF RunInOrder, Expires, Settled, Over, Cleanup
<1>17. RunInOrder(r)'
  BY <1>9, <1>10, <1>11, <1>12, <1>13, <1>14, <1>15, <1>16 DEF RunInOrder
<1>18. Settled(r, "fork") => Settled(r, "fork")'
  BY <1>6 DEF Settled, Over, Cleanup
<1>19. box'[r]["source"].names \in snaps'[r] =>
         box'[r]["source"].names # 0 /\ snapID[r] # 0 /\ box'[r]["source"].state = "live"
         /\ box'[r]["source"].expires > now
  BY <1>3, <1>6, <1>8 DEF RunInOrder, Points
<1> QED
  BY <1>2, <1>3, <1>4, <1>5, <1>6, <1>7, <1>17, <1>18, <1>19 DEF RunChange, Exists, Named

\* A fork is created from the snapshot.
LEMMA ForkStep ==
  ASSUME TypeOK, NEW r \in Run, RunInOrder(r), Fork(r)
  PROVE  TypeOK' /\ RunChange(r)
<1> USE RunTypes, ConstantFacts, TTLFacts, BoxTypes, Roles
<1>1. /\ UNCHANGED <<env, snaps, created, attempt, source, snapID, recorded, janitor>>
      /\ pc[r] = "fork" /\ (Creates(r, "fork", 1) \/ UNCHANGED box)
      /\ \/ /\ fork' = [fork EXCEPT ![r] = TRUE] /\ Creates(r, "fork", 1)
            /\ pc' = [pc EXCEPT ![r] = "verify"] /\ UNCHANGED err
         \/ /\ fork' = [fork EXCEPT ![r] = TRUE] /\ Creates(r, "fork", 1)
            /\ pc' = [pc EXCEPT ![r] = "finalize_fork"] /\ err' = [err EXCEPT ![r] = TRUE]
         \/ /\ UNCHANGED fork
            /\ pc' = [pc EXCEPT ![r] = "finalize_fork"] /\ err' = [err EXCEPT ![r] = TRUE]
  BY DEF Fork, Goto, Abort, Fails
<1>2. /\ UNCHANGED <<env, janitor>> /\ now' = now /\ RetentionTTL' = RetentionTTL /\ Margin' = Margin
      /\ Retain' = Retain
  BY <1>1, TTLsStay DEF env
<1>3. /\ box' \in [Run -> [Role -> Sandbox]] /\ OnlyAt(r, "fork")
      /\ \/ box'[r]["fork"] = box[r]["fork"]
         \/ /\ box'[r]["fork"].state = "live" /\ box'[r]["fork"].names = 0
            /\ box'[r]["fork"].expires = created[r] + RetentionTTL
            /\ box'[r]["fork"].autoDelete = now + 1 * RetentionTTL
            /\ box'[r]["fork"].retained = FALSE
  BY <1>1, CreatesEffect, BoxStays
<1>4. TypeOK'
  BY <1>1, <1>3 DEF TypeOK, InProgress, Body, Cleanup, janitor, schedule, env
<1>5. \A q \in Run \ {r} : Same(q)
  BY <1>1, <1>3 DEF Same, TypeOK, OnlyAt
<1>6. /\ created'[r] = created[r] /\ attempt'[r] = attempt[r] /\ snaps'[r] = snaps[r]
      /\ source'[r] = source[r] /\ snapID'[r] = snapID[r] /\ recorded'[r] = recorded[r]
      /\ box'[r]["source"] = box[r]["source"]
      /\ \/ pc'[r] = "verify" /\ err'[r] = err[r] /\ fork'[r]
         \/ pc'[r] = "finalize_fork" /\ err'[r]
  BY <1>1, <1>3 DEF TypeOK, OnlyAt
<1>7. /\ box[r]["fork"].state = "none" /\ box[r]["fork"].names = 0
      /\ created[r] <= now /\ now <= created[r] + RunBound
  BY <1>1 DEF RunInOrder, KnowsFork, InTime, InProgress, Body
<1>8. InTime(r)'
  BY <1>2, <1>6, <1>7 DEF InTime
<1>9. KnowsSource(r)' /\ KnowsFork(r)' /\ Points(r)'
  BY <1>1, <1>3, <1>6, <1>7 DEF RunInOrder, KnowsSource, KnowsFork, Points, Exists, Body,
     InProgress, Cleanup
<1>10. KnowsSnapshot(r)' /\ Undoes(r)'
  BY <1>1, <1>6 DEF RunInOrder, KnowsSnapshot, Before, Naming, Undoes
<1>11. Remains(r)' /\ Expires(r, "source")'
  BY <1>1, <1>2, <1>6 DEF RunInOrder, Remains, Expires, Settled, Over
<1>12. Expires(r, "fork")'
  BY <1>2, <1>3, <1>6, <1>7 DEF Expires
<1>13. RunInOrder(r)'
  BY <1>8, <1>9, <1>10, <1>11, <1>12 DEF RunInOrder
<1> QED
  BY <1>1, <1>2, <1>3, <1>4, <1>5, <1>6, <1>7, <1>13 DEF RunChange, Settled, Over, Exists,
     Named, Cleanup

\* The fork is finalized first.
LEMMA FinalizeForkStep ==
  ASSUME TypeOK, NEW r \in Run, RunInOrder(r), FinalizeFork(r)
  PROVE  TypeOK' /\ RunChange(r)
<1> USE RunTypes, ConstantFacts, TTLFacts, BoxTypes, Roles
<1>1. /\ UNCHANGED <<env, snaps, created, attempt, source, fork, snapID, recorded, janitor>>
      /\ pc[r] = "finalize_fork" /\ pc' = [pc EXCEPT ![r] = "delete_snapshot"]
      /\ IF fork[r] THEN FinalizeSandbox(r, "fork") ELSE UNCHANGED <<box, err>>
  BY DEF FinalizeFork, Goto
<1>2. /\ UNCHANGED <<env, janitor>> /\ now' = now /\ RetentionTTL' = RetentionTTL /\ Margin' = Margin
      /\ Retain' = Retain
  BY <1>1, TTLsStay DEF env
<1> DEFINE b == box[r]["fork"]
           c == box'[r]["fork"]
<1>3. /\ box' \in [Run -> [Role -> Sandbox]] /\ OnlyAt(r, "fork")
      /\ err' \in [Run -> BOOLEAN] /\ (err[r] => err'[r])
      /\ \A q \in Run : q # r => err'[q] = err[q]
      /\ ~err'[r] /\ fork[r] => c.state # "live"
      /\ c.state # "none" => b.state # "none"
      /\ \/ c = b
         \/ /\ c.state = (IF b.state = "live" THEN "gone" ELSE b.state)
            /\ c.names = b.names /\ c.expires = b.expires
            /\ c.autoDelete = b.autoDelete /\ c.retained = b.retained
         \/ /\ c.state = "live" /\ b.state = "live" /\ c.names = 0 /\ c.expires = now + RetainTTL
            /\ c.autoDelete = now + RetainTTL
            /\ c.retained = TRUE
  <2>1. CASE fork[r]
    <3>1. Finalized(r, "fork")
      BY <1>1, <2>1, FinalizeEffect
    <3>2. 1 * RetainTTL = RetainTTL /\ "fork" # "source"
      OBVIOUS
    <3> QED
      BY <3>1, <3>2, <2>1 DEF Finalized
  <2>2. CASE ~fork[r]
    BY <1>1, <2>2, BoxStays DEF TypeOK
  <2> QED
    BY <2>1, <2>2
<1>4. TypeOK'
  BY <1>1, <1>3 DEF TypeOK, InProgress, Cleanup, janitor, schedule, env
<1>5. \A q \in Run \ {r} : Same(q)
  BY <1>1, <1>3 DEF Same, TypeOK, OnlyAt
<1>6. /\ created'[r] = created[r] /\ attempt'[r] = attempt[r] /\ snaps'[r] = snaps[r]
      /\ source'[r] = source[r] /\ snapID'[r] = snapID[r] /\ recorded'[r] = recorded[r]
      /\ fork'[r] = fork[r] /\ box'[r]["source"] = box[r]["source"]
      /\ pc'[r] = "delete_snapshot"
  BY <1>1, <1>3 DEF TypeOK, OnlyAt
<1>7. /\ b.names = 0 /\ (~b.retained \/ b.state = "none")
      /\ created[r] <= now /\ now <= created[r] + RunBound
  BY <1>1 DEF RunInOrder, KnowsFork, Expires, Settled, Over, InTime, InProgress, Cleanup
<1>8. b.names = 0 /\ (c.state # "none" => b.state # "none")
      /\ (b.state # "none" => c.state # "none")
  BY <1>3 DEF RunInOrder, KnowsFork
<1>9. InTime(r)'
  BY <1>2, <1>6, <1>7 DEF InTime
<1>10. KnowsSource(r)' /\ KnowsFork(r)' /\ Points(r)'
  BY <1>1, <1>3, <1>6, <1>8 DEF RunInOrder, KnowsSource, KnowsFork, Points, Exists, Body,
     InProgress, Cleanup
<1>11. KnowsSnapshot(r)'
  BY <1>1, <1>6 DEF RunInOrder, KnowsSnapshot, Before, Naming
<1>12. Undoes(r)'
  BY <1>1, <1>3, <1>6 DEF RunInOrder, Undoes, Exists
<1>13. Remains(r)' /\ Expires(r, "source")'
  BY <1>1, <1>2, <1>6 DEF RunInOrder, Remains, Expires, Settled, Over
<1>14. Expires(r, "fork")'
  <2>1. Settled(r, "fork")'
    BY <1>6 DEF Settled, Cleanup
  <2>2. b.state # "none" => b.autoDelete >= b.expires
    BY <1>8 DEF RunInOrder, Expires
  <2>3. b.state # "none" /\ ~b.retained => b.expires = created[r] + RetentionTTL
    BY <1>8 DEF RunInOrder, Expires
  <2>4. c.names = 0 /\ (c.state # "none" => c.expires <= c.autoDelete)
    BY <1>3, <1>8, <2>2
  <2> QED
    BY <1>2, <1>3, <1>6, <1>8, <2>1, <2>3, <2>4 DEF Expires
<1>15. RunInOrder(r)'
  BY <1>9, <1>10, <1>11, <1>12, <1>13, <1>14 DEF RunInOrder
<1>16. ~Settled(r, "source") /\ ~Settled(r, "fork")
  BY <1>1 DEF Settled, Over, Cleanup
<1> QED
  BY <1>1, <1>2, <1>4, <1>5, <1>6, <1>8, <1>15, <1>16 DEF RunChange, Exists, Named, Cleanup

\* The snapshot goes before the source that names it.
LEMMA DeleteSnapshotStep ==
  ASSUME TypeOK, NEW r \in Run, RunInOrder(r), DeleteSnapshot(r)
  PROVE  TypeOK' /\ RunChange(r)
<1> USE RunTypes, ConstantFacts, TTLFacts, BoxTypes, Roles
<1>1. /\ UNCHANGED <<env, box, created, attempt, source, fork, snapID, recorded, janitor>>
      /\ pc[r] = "delete_snapshot"
      /\ \/ /\ snapID[r] = 0 \/ KeepSnapshot(r)
            /\ pc' = [pc EXCEPT ![r] = "finalize_source"] /\ UNCHANGED <<snaps, err>>
         \/ /\ snapID[r] # 0 /\ ~KeepSnapshot(r)
            /\ snaps' = [snaps EXCEPT ![r] = @ \ {snapID[r]}]
            /\ pc' = [pc EXCEPT ![r] = "finalize_source"] /\ UNCHANGED err
         \/ /\ snapID[r] # 0 /\ ~KeepSnapshot(r)
            /\ snaps' = [snaps EXCEPT ![r] = @ \ {snapID[r]}] \/ UNCHANGED snaps
            /\ pc' = [pc EXCEPT ![r] = IF recorded[r] THEN "done" ELSE "leave_pointer"]
            /\ err' = [err EXCEPT ![r] = TRUE]
  BY DEF DeleteSnapshot, Goto, Fails, KeepSource
<1>2. /\ UNCHANGED <<env, janitor>> /\ now' = now /\ RetentionTTL' = RetentionTTL /\ Margin' = Margin
      /\ Retain' = Retain
  BY <1>1, TTLsStay DEF env
<1>3. /\ snaps' \in [Run -> SUBSET (1..Attempts)] /\ err' \in [Run -> BOOLEAN]
      /\ pc' \in [Run -> {"idle", "done", "killed"} \cup InProgress]
      /\ \A q \in Run : q # r => snaps'[q] = snaps[q] /\ err'[q] = err[q] /\ pc'[q] = pc[q]
      /\ snaps'[r] \subseteq snaps[r]
  <2>1. /\ pc' \in [Run -> {"idle", "done", "killed"} \cup InProgress]
        /\ \A q \in Run : q # r => pc'[q] = pc[q]
    BY <1>1 DEF TypeOK, InProgress, Cleanup
  <2>2. err' \in [Run -> BOOLEAN] /\ \A q \in Run : q # r => err'[q] = err[q]
    BY <1>1 DEF TypeOK
  <2>3. /\ snaps' \in [Run -> SUBSET (1..Attempts)] /\ snaps'[r] \subseteq snaps[r]
        /\ \A q \in Run : q # r => snaps'[q] = snaps[q]
    BY <1>1 DEF TypeOK
  <2> QED
    BY <2>1, <2>2, <2>3
<1>4. TypeOK'
  BY <1>1, <1>3 DEF TypeOK, janitor, schedule, env
<1>5. \A q \in Run \ {r} : Same(q)
  BY <1>1, <1>3 DEF Same
<1>6. /\ created'[r] = created[r] /\ attempt'[r] = attempt[r]
      /\ source'[r] = source[r] /\ snapID'[r] = snapID[r] /\ recorded'[r] = recorded[r]
      /\ fork'[r] = fork[r] /\ \A k \in Role : box'[r][k] = box[r][k]
  BY <1>1
<1>7. \/ /\ snapID[r] = 0 \/ KeepSnapshot(r)
         /\ pc'[r] = "finalize_source" /\ snaps'[r] = snaps[r] /\ err'[r] = err[r]
      \/ /\ snapID[r] # 0 /\ ~KeepSnapshot(r) /\ snaps'[r] = snaps[r] \ {snapID[r]}
         /\ pc'[r] = "finalize_source" /\ err'[r] = err[r]
      \/ /\ snapID[r] # 0 /\ pc'[r] \in {"done", "leave_pointer"} /\ err'[r]
  BY <1>1 DEF TypeOK
<1>8. /\ created[r] <= now /\ now <= created[r] + RunBound /\ ~Settled(r, "source")
      /\ Settled(r, "fork") /\ Settled(r, "fork")'
      /\ pc'[r] \in {"finalize_source", "done", "leave_pointer"}
      /\ source[r] => Exists(r, "source")
  BY <1>1, <1>7 DEF RunInOrder, InTime, InProgress, Cleanup, Settled, Over, KnowsSource
<1>9. InTime(r)'
  BY <1>2, <1>6, <1>8 DEF InTime
<1>10. KnowsSource(r)' /\ KnowsFork(r)' /\ Points(r)'
  BY <1>1, <1>6, <1>8 DEF RunInOrder, KnowsSource, KnowsFork, Points, Exists, Body,
     InProgress, Cleanup
<1>11. KnowsSnapshot(r)'
  <2>1. KeepSnapshot(r) => snapID[r] # 0
    BY DEF RunInOrder, Points, KeepSnapshot
  <2>2. err'[r] = err[r] => KeepSnapshot(r)' = KeepSnapshot(r)
    BY <1>2, <1>6 DEF KeepSnapshot
  <2>3. snapID[r] # 0 => snapID[r] \in snaps[r]
    BY <1>1 DEF RunInOrder, KnowsSnapshot, Naming
  <2>4. (\A m, n \in snaps'[r] : m = n) /\ (snapID[r] # 0 => snaps'[r] \subseteq {snapID[r]})
    BY <1>3 DEF RunInOrder, KnowsSnapshot
  <2>5. pc'[r] = "finalize_source" => (snapID[r] \in snaps'[r] <=> KeepSnapshot(r)')
    BY <1>7, <2>1, <2>2, <2>3
  <2> QED
    BY <1>6, <1>8, <2>4, <2>5 DEF KnowsSnapshot, Before, Naming
<1>12. Undoes(r)'
  <2>1. ~err[r] => ~KeepSnapshot(r) /\ ~Exists(r, "fork") /\ snapID[r] # 0
    BY <1>1 DEF RunInOrder, Undoes, KeepSnapshot
  <2>2. snapID[r] # 0 => snaps[r] \subseteq {snapID[r]}
    BY DEF RunInOrder, KnowsSnapshot
  <2> QED
    BY <1>6, <1>7, <2>1, <2>2 DEF Undoes, Exists
<1>13. Remains(r)'
  <2>1. box[r]["source"].state # "none" => ~box[r]["source"].retained
    BY <1>8 DEF RunInOrder, Expires
  <2>2. box[r]["source"].state # "gone" \/ snapID[r] = 0
    BY <1>8 DEF RunInOrder, KnowsSource, Exists
  <2> QED
    BY <1>3, <1>6, <2>1, <2>2 DEF Remains
<1>14. \A k \in Role : Expires(r, k)'
  BY <1>2, <1>6, <1>8 DEF RunInOrder, Expires
<1>15. RunInOrder(r)'
  BY <1>9, <1>10, <1>11, <1>12, <1>13, <1>14 DEF RunInOrder
<1> QED
  BY <1>1, <1>2, <1>3, <1>4, <1>5, <1>6, <1>8, <1>15 DEF RunChange, Exists, Named

\* The source goes last, or stays with the snapshot that it names.
LEMMA FinalizeSourceStep ==
  ASSUME TypeOK, NEW r \in Run, RunInOrder(r), FinalizeSource(r)
  PROVE  TypeOK' /\ RunChange(r)
<1> USE RunTypes, ConstantFacts, TTLFacts, BoxTypes, Roles
<1>1. /\ UNCHANGED <<env, snaps, created, attempt, source, fork, snapID, recorded, janitor>>
      /\ pc[r] = "finalize_source" /\ pc' = [pc EXCEPT ![r] = "done"]
      /\ IF source[r] THEN FinalizeSandbox(r, "source") ELSE UNCHANGED <<box, err>>
  BY DEF FinalizeSource, Goto
<1>2. /\ UNCHANGED <<env, janitor>> /\ now' = now /\ RetentionTTL' = RetentionTTL /\ Margin' = Margin
      /\ Retain' = Retain
  BY <1>1, TTLsStay DEF env
<1> DEFINE s == box[r]["source"]
           t == box'[r]["source"]
<1>3. /\ box' \in [Run -> [Role -> Sandbox]] /\ OnlyAt(r, "source")
      /\ err' \in [Run -> BOOLEAN] /\ (err[r] => err'[r])
      /\ \A q \in Run : q # r => err'[q] = err[q]
      /\ ~err'[r] /\ source[r] => t.state # "live"
      /\ \/ t = s
         \/ /\ ~(err[r] /\ Retain) /\ t.state = (IF s.state = "live" THEN "gone" ELSE s.state)
            /\ t.names = s.names /\ t.expires = s.expires
            /\ t.autoDelete = s.autoDelete /\ t.retained = s.retained
         \/ /\ err[r] /\ Retain /\ s.state = "live" /\ t.state = "live"
            /\ t.names = snapID[r] /\ t.expires = now + RetainTTL
            /\ t.autoDelete = now + (IF snapID[r] # 0 THEN 2 ELSE 1) * RetainTTL
            /\ t.retained = TRUE
  <2>1. CASE source[r] /\ err[r] /\ Retain
    <3>1. Finalized(r, "source")
      BY <1>1, <2>1, FinalizeEffect
    <3> QED
      BY <3>1, <2>1 DEF Finalized
  <2>2. CASE source[r] /\ ~(err[r] /\ Retain)
    <3>1. Finalized(r, "source")
      BY <1>1, <2>2, FinalizeEffect
    <3> QED
      BY <3>1, <2>2 DEF Finalized
  <2>3. CASE ~source[r]
    BY <1>1, <2>3, BoxStays DEF TypeOK
  <2> QED
    BY <2>1, <2>2, <2>3
<1>4. TypeOK'
  BY <1>1, <1>3 DEF TypeOK, janitor, schedule, env
<1>5. \A q \in Run \ {r} : Same(q)
  BY <1>1, <1>3 DEF Same, TypeOK, OnlyAt
<1>6. /\ created'[r] = created[r] /\ attempt'[r] = attempt[r] /\ snaps'[r] = snaps[r]
      /\ source'[r] = source[r] /\ snapID'[r] = snapID[r] /\ recorded'[r] = recorded[r]
      /\ fork'[r] = fork[r] /\ box'[r]["fork"] = box[r]["fork"]
      /\ pc'[r] = "done"
  BY <1>1, <1>3 DEF TypeOK, OnlyAt
<1>7. /\ created[r] <= now /\ now <= created[r] + RunBound /\ ~Settled(r, "source")
      /\ Settled(r, "fork") /\ Settled(r, "fork")' /\ Settled(r, "source")'
      /\ source[r] => s.state = "live"
      /\ s.state # "none" => s.autoDelete >= s.expires /\ s.expires = created[r] + RetentionTTL
                              /\ s.expires + Margin <= s.autoDelete /\ ~s.retained
  BY <1>1, <1>6 DEF RunInOrder, InTime, InProgress, Cleanup, Settled, Over, KnowsSource,
     Expires, Exists
<1>8. snapID[r] \in snaps[r] <=> KeepSnapshot(r)
  BY <1>1 DEF RunInOrder, KnowsSnapshot
<1>9. (t.state # "none" <=> s.state # "none") /\ s.names \in {0, snapID[r]}
      /\ t.names \in {0, snapID[r]}
  BY <1>3 DEF RunInOrder, Points
<1>10. InTime(r)'
  BY <1>2, <1>6, <1>7 DEF InTime
<1>11. KnowsSource(r)'
  BY <1>1, <1>6, <1>9 DEF RunInOrder, KnowsSource, Body, InProgress, Cleanup
<1>12. KnowsFork(r)' /\ KnowsSnapshot(r)'
  BY <1>6 DEF RunInOrder, KnowsFork, KnowsSnapshot, Body, Before, Naming
<1>13. Points(r)'
  BY <1>3, <1>6, <1>9 DEF RunInOrder, Points
<1>14. Undoes(r)'
  <2>1. ~err'[r] => ~Exists(r, "fork") /\ snapID[r] # 0 /\ snaps[r] = {} /\ source[r]
    BY <1>1, <1>3 DEF RunInOrder, Undoes, KnowsSource
  <2> QED
    BY <1>3, <1>6, <2>1 DEF Undoes, Exists
<1>15. Remains(r)'
  <2>1. ASSUME t.state = "gone", snapID[r] \in snaps[r]
        PROVE  FALSE
    BY <1>3, <1>7, <1>8, <2>1 DEF KeepSnapshot, RunInOrder, Points, KnowsSource
  <2>2. t.state = "live" /\ t.retained /\ recorded[r] => snapID[r] \in snaps[r]
    <3>1. SUFFICES ASSUME t.state = "live", t.retained, recorded[r]
                   PROVE  snapID[r] \in snaps[r]
      OBVIOUS
    <3>2. ~s.retained
      BY <1>7, <1>9, <3>1
    <3>3. err[r] /\ Retain
      BY <1>3, <3>1, <3>2
    <3> QED
      BY <1>8, <3>1, <3>3 DEF KeepSnapshot
  <2> QED
    BY <1>2, <1>6, <2>1, <2>2 DEF Remains
<1>16. Expires(r, "source")'
  <2>1. CASE t.state = s.state /\ t = s
    BY <1>2, <1>6, <1>7, <2>1 DEF Expires
  <2>2. CASE /\ t.state = (IF s.state = "live" THEN "gone" ELSE s.state)
             /\ t.names = s.names /\ t.expires = s.expires
             /\ t.autoDelete = s.autoDelete /\ t.retained = s.retained
    BY <1>2, <1>6, <1>7, <1>9, <2>2 DEF Expires
  <2>3. CASE /\ t.names = snapID[r] /\ t.expires = now + RetainTTL
             /\ t.autoDelete = now + (IF snapID[r] # 0 THEN 2 ELSE 1) * RetainTTL
             /\ t.retained = TRUE
    <3>1. t.expires + (IF t.names = 0 THEN 0 ELSE Margin) <= t.autoDelete
      BY <2>3
    <3> QED
      BY <1>2, <1>6, <1>7, <2>3, <3>1 DEF Expires
  <2> QED
    BY <1>3, <2>1, <2>2, <2>3
<1>17. Expires(r, "fork")'
  BY <1>2, <1>6, <1>7 DEF RunInOrder, Expires
<1>18. RunInOrder(r)'
  BY <1>10, <1>11, <1>12, <1>13, <1>14, <1>15, <1>16, <1>17 DEF RunInOrder
<1>19. t.state = "gone" => t.names \notin snaps[r] \/ (s.state = "gone" /\ t.names = s.names)
  BY <1>3, <1>7, <1>8, <1>9 DEF KeepSnapshot, RunInOrder, Points, KnowsSource
<1>20. Named(r)' => \/ Named(r) /\ t.expires = s.expires /\ t.names = s.names
                    \/ t.expires > now
  BY <1>3, <1>6 DEF Named, Exists
<1> QED
  BY <1>1, <1>2, <1>4, <1>5, <1>6, <1>7, <1>9, <1>18, <1>19, <1>20 DEF RunChange, Exists,
     Cleanup

\* Any step of a run.
LEMMA RunStepChange ==
  ASSUME TypeOK, NEW r \in Run, RunInOrder(r), Start(r) \/ RunStep(r) \/ Kill(r)
  PROVE  TypeOK' /\ RunChange(r)
  BY StartStep, CreateSourceStep, ProceedStep, SnapshotStep, RecordStep, ForkStep,
     FinalizeForkStep, DeleteSnapshotStep, FinalizeSourceStep DEF RunStep

-----------------------------------------------------------------------------
(* What a step leaves of the order of the other parts *)

\* A run that a step does not touch stays in order.
LEMMA SameInOrder ==
  ASSUME NEW r \in Run, RunInOrder(r), Same(r), UNCHANGED env
  PROVE  RunInOrder(r)'
<1>1. now' = now /\ Retain' = Retain /\ RetentionTTL' = RetentionTTL /\ Margin' = Margin
  BY TTLsStay DEF env
<1>2. /\ InTime(r)' /\ KnowsSource(r)' /\ KnowsFork(r)' /\ Points(r)' /\ Undoes(r)'
      /\ Remains(r)'
  BY <1>1, Roles DEF RunInOrder, Same, InTime, KnowsSource, KnowsFork, Points, Undoes,
     Remains, Exists
<1>3. KnowsSnapshot(r)'
  BY <1>1 DEF RunInOrder, Same, KnowsSnapshot, Before, Naming, KeepSnapshot
<1>4. \A k \in Role : Expires(r, k)'
  BY <1>1 DEF RunInOrder, Same, Expires, Settled, Over
<1> QED
  BY <1>2, <1>3, <1>4 DEF RunInOrder

\* The step of a run does not disturb the sweep: what it has listed and may find
\* stale is settled.
LEMMA RunKeepsSweep ==
  ASSUME TypeOK, NEW r \in Run, RunChange(r), SweepInOrder
  PROVE  SweepInOrder'
<1>1. /\ now' = now /\ sweep' = sweep /\ listing' = listing /\ current' = current /\ clock' = clock
      /\ Latest' = Latest /\ listing \subseteq Item /\ current \subseteq Item
  BY DEF RunChange, env, janitor, Latest, TypeOK
<1>2. \A q \in Run, k \in Role : 
        /\ box[q][k].state # "none" => box'[q][k].state # "none"
        /\ Settled(q, k) => /\ Settled(q, k)' /\ snaps'[q] \subseteq snaps[q]
                            /\ box'[q][k].expires = box[q][k].expires
                            /\ box'[q][k].names = box[q][k].names
  <2>1. SUFFICES ASSUME NEW q \in Run, NEW k \in Role
                 PROVE  /\ box[q][k].state # "none" => box'[q][k].state # "none"
                        /\ Settled(q, k) => /\ Settled(q, k)' /\ snaps'[q] \subseteq snaps[q]
                                            /\ box'[q][k].expires = box[q][k].expires
                                            /\ box'[q][k].names = box[q][k].names
    OBVIOUS
  <2>2. CASE q = r
    BY <2>2 DEF RunChange
  <2>3. CASE q # r
    BY <2>3 DEF RunChange, Same, Settled, Over
  <2> QED
    BY <2>2, <2>3
<1>3. \A i \in Item : i.run \in Run /\ i.role \in Role
  BY DEF Item
<1>4. \A i \in listing \cup current : Lists(i)'
  BY <1>1, <1>2, <1>3 DEF SweepInOrder, Lists
<1>5. ASSUME NEW i \in current
      PROVE  i.expires <= clock /\ i.names \notin snaps'[i.run]
  <2>1. Lists(i) /\ i.expires <= clock /\ i.names \notin snaps[i.run] /\ sweep = "sweep"
    BY DEF SweepInOrder, NoItem
  <2>2. Settled(i.run, i.role)
    BY <2>1 DEF Lists, Latest
  <2> QED
    BY <1>1, <1>2, <1>3, <2>1, <2>2
<1> QED
  BY <1>1, <1>4, <1>5 DEF SweepInOrder

\* A run's step makes no sweep late.
LEMMA RunKeepsPunctual ==
  ASSUME TypeOK, TypeOK', NEW r \in Run, RunChange(r), Punctual
  PROVE  Punctual'
<1>1. /\ now' = now /\ sweep' = sweep /\ listing' = listing /\ clock' = clock
      /\ onTime' = onTime /\ nextSweep' = nextSweep
      /\ now \in Nat /\ nextSweep \in Nat /\ SweepPeriod \in Nat
  BY ConstantFacts DEF RunChange, env, janitor, schedule, TypeOK, Time
<1>2. ASSUME onTime, NEW q \in Run
      PROVE  Awaits(q)'
  <2>1. Awaits(q) /\ nextSweep <= now + SweepPeriod
    BY <1>2 DEF Punctual
  <2>2. CASE q # r
    <3>1. Named(q)' = Named(q) /\ box'[q]["source"] = box[q]["source"]
      BY <2>2, Roles DEF RunChange, Same, Named, Exists
    <3> QED
      BY <1>1, <2>1, <3>1 DEF Awaits
  <2>3. CASE q = r
    <3> DEFINE s == box[r]["source"]
               t == box'[r]["source"]
    <3>1. Named(r)' => \/ Named(r) /\ t.expires = s.expires /\ t.names = s.names
                       \/ t.expires > now
      BY DEF RunChange
    <3>2. t.expires \in Nat
      BY Roles DEF TypeOK, Sandbox
    <3>3. CASE Named(r)' /\ t.expires > now
      BY <1>1, <2>1, <2>3, <3>2, <3>3 DEF Awaits
    <3>4. CASE Named(r) /\ t.expires = s.expires /\ t.names = s.names
      BY <1>1, <2>1, <2>3, <3>4 DEF Awaits
    <3>5. CASE ~Named(r)'
      BY <2>3, <3>5 DEF Awaits
    <3> QED
      BY <3>1, <3>3, <3>4, <3>5
  <2> QED
    BY <2>2, <2>3
<1> QED
  BY <1>1, <1>2 DEF Punctual

\* What the sweep and the platform do to a run: they remove what is past its expiry.
Taken(r, k) ==
  LET b == box[r][k]
      c == box'[r][k]
  IN  /\ Settled(r, k) /\ b.expires <= now
      /\ b.state = "live" /\ c.state = "gone" /\ c.names = b.names /\ c.expires = b.expires
      /\ c.autoDelete = b.autoDelete /\ c.retained = b.retained
      /\ k = "source" /\ recorded[r] /\ snapID[r] \in snaps'[r] => b.autoDelete <= now

Reclaims(r) ==
  /\ \/ snaps'[r] = snaps[r]
     \/ snaps'[r] \subseteq snaps[r] /\ Over(r) /\ box[r]["source"].expires <= now
  /\ \A k \in Role : box'[r][k] = box[r][k] \/ Taken(r, k)

\* Reclamation of what has expired leaves every run in order.
LEMMA ReclaimsInOrder ==
  ASSUME TypeOK, NEW r \in Run, RunInOrder(r), UNCHANGED <<env, runs>>, Reclaims(r)
  PROVE  RunInOrder(r)'
<1> USE RunTypes, BoxTypes, Roles
<1> DEFINE s == box[r]["source"]
           t == box'[r]["source"]
           f == box[r]["fork"]
           g == box'[r]["fork"]
<1>1. now' = now /\ Retain' = Retain /\ RetentionTTL' = RetentionTTL /\ Margin' = Margin
  BY TTLsStay DEF env
<1>2. /\ pc'[r] = pc[r] /\ created'[r] = created[r] /\ attempt'[r] = attempt[r]
      /\ source'[r] = source[r] /\ fork'[r] = fork[r] /\ snapID'[r] = snapID[r]
      /\ recorded'[r] = recorded[r] /\ err'[r] = err[r]
  BY DEF runs, result
<1>3. /\ snaps'[r] = snaps[r] \/ (snaps'[r] \subseteq snaps[r] /\ Over(r) /\ s.expires <= now)
      /\ snaps'[r] \subseteq snaps[r]
  BY DEF Reclaims
<1>4. \A k \in Role : /\ box'[r][k].names = box[r][k].names
                      /\ box'[r][k].expires = box[r][k].expires
                      /\ box'[r][k].autoDelete = box[r][k].autoDelete
                      /\ box'[r][k].retained = box[r][k].retained
                      /\ box[r][k].state = "none" <=> box'[r][k].state = "none"
                      /\ box[r][k].state # "live" => box'[r][k].state # "live"
  BY DEF Reclaims, Taken
<1>5. /\ t.state = s.state \/ (Over(r) /\ s.expires <= now /\ t.state = "gone"
                               /\ (recorded[r] /\ snapID[r] \in snaps'[r] => s.autoDelete <= now))
  BY DEF Reclaims, Taken, Settled
<1>6. InTime(r)'
  BY <1>1, <1>2 DEF RunInOrder, InTime
<1>7. KnowsSource(r)'
  BY <1>2, <1>4, <1>5 DEF RunInOrder, KnowsSource, Exists, Over, InProgress, Body, Cleanup
<1>8. KnowsFork(r)' /\ Points(r)'
  BY <1>2, <1>4 DEF RunInOrder, KnowsFork, Points
<1>9. KnowsSnapshot(r)'
  <2>1. CASE snaps'[r] = snaps[r]
    BY <1>1, <1>2, <2>1 DEF RunInOrder, KnowsSnapshot, Before, Naming, KeepSnapshot
  <2>2. CASE snaps'[r] \subseteq snaps[r] /\ Over(r)
    BY <1>2, <2>2 DEF RunInOrder, KnowsSnapshot, Before, Naming, Over
  <2> QED
    BY <1>3, <2>1, <2>2
<1>10. Undoes(r)'
  BY <1>2, <1>3, <1>4 DEF RunInOrder, Undoes, Exists
<1>11. Remains(r)'
  <2>1. ASSUME t.state = "gone", snapID[r] \in snaps'[r]
        PROVE  s.expires <= now /\ (recorded[r] => s.autoDelete <= now)
    BY <1>3, <1>5, <2>1 DEF RunInOrder, Remains
  <2>2. ASSUME t.state = "live", s.retained, recorded[r], now < s.expires
        PROVE  snapID[r] \in snaps'[r]
    BY <1>3, <1>5, <2>2 DEF RunInOrder, Remains
  <2> QED
    BY <1>1, <1>2, <1>4, <2>1, <2>2 DEF Remains
<1>12. \A k \in Role : Expires(r, k)'
  BY <1>1, <1>2, <1>4 DEF RunInOrder, Expires, Settled, Over
<1> QED
  BY <1>6, <1>7, <1>8, <1>9, <1>10, <1>11, <1>12 DEF RunInOrder

-----------------------------------------------------------------------------
(* The steps of the janitor and of the platform *)

\* The inductive invariant, without the two properties that follow from it.
InOrder == TypeOK /\ (\A r \in Run : RunInOrder(r)) /\ SweepInOrder /\ Punctual

\* A sandbox that a run has not finished with is far from its expiry.
LEMMA UnsettledIsFresh ==
  ASSUME TypeOK, NEW r \in Run, RunInOrder(r), NEW k \in Role,
         box[r][k].state # "none", ~Settled(r, k)
  PROVE  box[r][k].expires > now + ListBound
<1> USE RunTypes, ConstantFacts, TTLFacts, BoxTypes, Roles
<1>1. box[r][k].expires = created[r] + RetentionTTL
  BY DEF RunInOrder, Expires
<1>2. pc[r] # "idle"
  BY DEF RunInOrder, KnowsSource, KnowsFork
<1>3. pc[r] \in InProgress
  BY <1>2 DEF TypeOK, Settled, Over
<1>4. now <= created[r] + RunBound
  BY <1>3 DEF RunInOrder, InTime
<1> QED
  BY <1>1, <1>4

\* What changes of a sandbox and its snapshot when it is reclaimed.
LEMMA ReclaimFrame ==
  ASSUME TypeOK, UNCHANGED <<env, runs>>, NEW r \in Run, Reclaims(r), NEW k \in Role
  PROVE  /\ box'[r][k].names = box[r][k].names /\ box'[r][k].expires = box[r][k].expires
         /\ box[r][k].state # "none" => box'[r][k].state # "none"
         /\ Settled(r, k)' = Settled(r, k) /\ snaps'[r] \subseteq snaps[r]
         /\ Named(r)' => Named(r)
<1>1. /\ box'[r][k].names = box[r][k].names /\ box'[r][k].expires = box[r][k].expires
      /\ box[r][k].state # "none" => box'[r][k].state # "none"
  BY DEF Reclaims, Taken
<1>2. Settled(r, k)' = Settled(r, k)
  BY DEF Settled, Over, runs
<1>3. snaps'[r] \subseteq snaps[r]
  BY DEF Reclaims
<1>4. box'[r]["source"].state = "live" => box[r]["source"].state = "live"
  BY Roles DEF Reclaims, Taken
<1>5. box'[r]["source"].names = box[r]["source"].names
  BY Roles DEF Reclaims, Taken
<1> QED
  BY <1>1, <1>2, <1>3, <1>4, <1>5 DEF Named, Exists

\* An item that was listed stays true of its sandbox.
LEMMA ReclaimKeepsLists ==
  ASSUME TypeOK, UNCHANGED <<env, runs>>, \A r \in Run : Reclaims(r), NEW i \in Item, Lists(i),
         Latest' <= Latest, Latest \in Nat, Latest' \in Nat
  PROVE  Lists(i)'
<1>1. i.run \in Run /\ i.role \in Role /\ i.expires \in Nat
  BY DEF Item
<1>2. LET r == i.run
          k == i.role
      IN  /\ box'[r][k].names = box[r][k].names /\ box'[r][k].expires = box[r][k].expires
          /\ box[r][k].state # "none" => box'[r][k].state # "none"
          /\ Settled(r, k)' = Settled(r, k)
  BY <1>1, ReclaimFrame
<1> QED
  BY <1>1, <1>2 DEF Lists

\* A listed item that is stale: its sandbox is as it was listed, and settled.
LEMMA StaleFacts ==
  ASSUME InOrder, NEW i \in listing \cup current, sweep = "sweep", i.expires <= clock
  PROVE  /\ i \in Item /\ i.run \in Run /\ i.role \in Role /\ i.names \in Nat
         /\ box[i.run][i.role].state # "none" /\ Settled(i.run, i.role)
         /\ box[i.run][i.role].expires = i.expires /\ box[i.run][i.role].names = i.names
         /\ box[i.run][i.role].expires <= now
         /\ i.names # 0 => i.role = "source" /\ Over(i.run)
<1>1. i \in Item /\ i.run \in Run /\ i.role \in Role /\ i.names \in Nat /\ i.expires \in Nat
      /\ clock \in Nat /\ now \in Nat
  BY ConstantFacts DEF InOrder, TypeOK, Item, SnapID, Time
<1>2. Lists(i) /\ clock <= now
  BY DEF InOrder, SweepInOrder
<1>3. /\ box[i.run][i.role].state # "none" /\ Settled(i.run, i.role)
      /\ box[i.run][i.role].expires = i.expires /\ box[i.run][i.role].names = i.names
  BY <1>2 DEF Lists, Latest
<1>4. i.names # 0 => i.role = "source"
  BY <1>1, <1>3, Roles DEF InOrder, RunInOrder, KnowsFork
<1> QED
  BY <1>1, <1>2, <1>3, <1>4 DEF Settled

\* Everything a step of the janitor or the platform does.
SweepChange == UNCHANGED <<env, runs>> /\ (\A r \in Run : Reclaims(r)) /\ InOrder'

\* Clocks are times.
LEMMA TimeTypes ==
  ASSUME TypeOK
  PROVE  /\ now \in Nat /\ clock \in Nat /\ Latest \in Nat /\ nextSweep \in Nat
         /\ onTime \in BOOLEAN /\ listing \subseteq Item /\ current \subseteq Item
  BY ConstantFacts DEF TypeOK, Time, Latest

\* What is left to show of a step of the sweep.
LEMMA SweepChangeIntro ==
  ASSUME InOrder, UNCHANGED <<env, runs>>, \A r \in Run : Reclaims(r),
         TypeOK', SweepInOrder', Punctual'
  PROVE  SweepChange
<1>1. ASSUME NEW r \in Run
      PROVE  RunInOrder(r)'
  BY <1>1, ReclaimsInOrder DEF InOrder
<1> QED
  BY <1>1 DEF SweepChange, InOrder

\* Nothing is reclaimed.
LEMMA NoReclaim ==
  ASSUME UNCHANGED platform, NEW r \in Run
  PROVE  Reclaims(r)
  BY DEF platform, Reclaims

\* The listing is what the platform has.
LEMMA ListStep ==
  ASSUME InOrder, ListSandboxes
  PROVE  SweepChange
<1> USE TimeTypes DEF InOrder
<1>1. /\ UNCHANGED <<env, platform, runs, current>> /\ sweep = "idle" /\ sweep' = "clock"
      /\ clock' = now /\ onTime' = (onTime /\ now = nextSweep)
      /\ onTime' => nextSweep' = nextSweep /\ onTime /\ now = nextSweep
      /\ nextSweep' \in Nat
      /\ listing' = {ItemOf(b[1], b[2]) : b \in {c \in Box : Exists(c[1], c[2])}}
  BY DEF ListSandboxes, Keeps
<1>2. \A r \in Run : Reclaims(r)
  BY <1>1, NoReclaim
<1>3. \A r \in Run, k \in Role : /\ ItemOf(r, k) \in Item /\ ItemOf(r, k).run = r
                                 /\ ItemOf(r, k).role = k
                                 /\ ItemOf(r, k).names = box[r][k].names
                                 /\ ItemOf(r, k).expires = box[r][k].expires
  BY BoxTypes DEF ItemOf, Item
<1>4. \A i \in listing' : \E r \in Run, k \in Role : i = ItemOf(r, k) /\ Exists(r, k)
  BY <1>1 DEF Box
<1>5. \A r \in Run, k \in Role : Exists(r, k) => ItemOf(r, k) \in listing'
  <2>1. SUFFICES ASSUME NEW r \in Run, NEW k \in Role, Exists(r, k)
                 PROVE  ItemOf(r, k) \in listing'
    OBVIOUS
  <2> DEFINE b == <<r, k>>
  <2>2. b \in Box /\ b[1] = r /\ b[2] = k
    BY DEF Box
  <2> HIDE DEF b
  <2> QED
    BY <1>1, <2>1, <2>2
<1>6. TypeOK'
  <2>1. listing' \subseteq Item
    BY <1>3, <1>4
  <2>2. clock' \in Time
    BY <1>1 DEF TypeOK
  <2>3. onTime' \in BOOLEAN
    BY <1>1
  <2> QED
    BY <1>1, <2>1, <2>2, <2>3 DEF TypeOK, env, platform, runs, result
<1>7. SweepInOrder'
  <2>1. current' = {} /\ now' = now /\ Latest' = now + ListBound /\ UNCHANGED <<box, pc>>
    BY <1>1 DEF SweepInOrder, NoItem, env, Latest, platform, runs
  <2>2. ASSUME NEW i \in listing'
        PROVE  Lists(i)'
    <3>1. PICK r \in Run, k \in Role : i = ItemOf(r, k) /\ Exists(r, k)
      BY <1>4, <2>2
    <3>2. box[r][k].state # "none" /\ i.run = r /\ i.role = k /\ i.names = box[r][k].names
          /\ i.expires = box[r][k].expires
      BY <1>3, <3>1 DEF Exists
    <3>3. Settled(r, k) \/ i.expires > now + ListBound
      BY <3>2, UnsettledIsFresh
    <3>4. Settled(r, k)' = Settled(r, k)
      BY <2>1 DEF Settled, Over
    <3> QED
      BY <2>1, <3>2, <3>3, <3>4, ConstantFacts, BoxTypes DEF Lists
  <2> QED
    BY <1>1, <2>1, <2>2, ConstantFacts DEF SweepInOrder, NoItem
<1>8. Punctual'
  <2>1. SUFFICES ASSUME onTime'
                 PROVE  /\ now' <= nextSweep' /\ nextSweep' <= now' + SweepPeriod
                        /\ sweep' # "idle" => now' = nextSweep' /\ clock' = now'
                        /\ \A r \in Run : Awaits(r)'
    BY DEF Punctual
  <2>2. now' = now /\ nextSweep' = nextSweep /\ now = nextSweep /\ onTime
    BY <1>1, <2>1 DEF env
  <2>3. ASSUME NEW r \in Run
        PROVE  Awaits(r)'
    <3>1. Awaits(r) /\ Named(r)' = Named(r) /\ box' = box
      BY <1>1, <2>2, <2>3 DEF Punctual, Named, Exists, platform
    <3>2. Named(r) => ItemOf(r, "source") \in listing'
      BY <1>5, Roles DEF Named
    <3> QED
      BY <1>3, <2>2, <3>1, <3>2, Roles DEF Awaits
  <2> QED
    BY <1>1, <2>2, <2>3, ConstantFacts
<1> QED
  BY <1>1, <1>2, <1>6, <1>7, <1>8, SweepChangeIntro

\* The clock is read after the listing.
LEMMA ClockStep ==
  ASSUME InOrder, ReadClock
  PROVE  SweepChange
<1> USE TimeTypes DEF InOrder
<1>1. /\ UNCHANGED <<env, platform, runs, listing, current, schedule>>
      /\ sweep = "clock" /\ sweep' = "sweep" /\ clock' = now
  BY DEF ReadClock
<1>2. \A r \in Run : Reclaims(r)
  BY <1>1, NoReclaim
<1>3. TypeOK'
  BY <1>1 DEF TypeOK, env, platform, runs, result, schedule
<1>4. SweepInOrder'
  <2>1. /\ current = {} /\ current' = {} /\ now' = now /\ Latest' = now /\ Latest = clock + ListBound
        /\ now <= clock + ListBound
    BY <1>1 DEF SweepInOrder, NoItem, env, Latest
  <2>2. \A i \in listing \cup current : Lists(i)'
    BY <1>1, <1>2, <2>1, ReclaimKeepsLists, ConstantFacts DEF SweepInOrder
  <2> QED
    BY <1>1, <2>1, <2>2 DEF SweepInOrder, NoItem
<1>5. Punctual'
  BY <1>1 DEF Punctual, Awaits, Named, Exists, env, platform, schedule
<1> QED
  BY <1>1, <1>2, <1>3, <1>4, <1>5, SweepChangeIntro

\* Steps within the sweep: the listing shrinks, and while the sweep is on time the
\* pointers that are due stay in it.
LEMMA WithinSweep ==
  ASSUME InOrder, UNCHANGED <<env, runs, sweep, clock>>, \A r \in Run : Reclaims(r), TypeOK',
         listing' \subseteq listing, current' # {} => sweep = "sweep", sweep # "idle",
         \A i \in current' : /\ i \in listing \cup current /\ i.expires <= clock
                             /\ i.names \notin snaps'[i.run],
         onTime' => onTime /\ nextSweep' = nextSweep,
         onTime' => \A i \in listing \ listing' :
                       i.expires > clock \/ (i.role = "source" => i.names \notin snaps'[i.run])
  PROVE  SweepChange
<1> USE TimeTypes DEF InOrder
<1>1. now' = now /\ sweep' = sweep /\ clock' = clock /\ Latest' = Latest
  BY DEF env, Latest
<1>2. SweepInOrder'
  <2>1. ASSUME NEW i \in listing' \cup current'
        PROVE  Lists(i)'
    <3>1. i \in listing \cup current /\ i \in Item
      OBVIOUS
    <3>2. Lists(i)
      BY <3>1 DEF SweepInOrder
    <3> QED
      BY <1>1, <3>1, <3>2, ReclaimKeepsLists
  <2> QED
    BY <1>1, <2>1 DEF SweepInOrder, NoItem
<1>3. Punctual'
  <2>1. SUFFICES ASSUME onTime', NEW r \in Run
                 PROVE  Awaits(r)'
    BY <1>1 DEF Punctual
  <2> DEFINE s == box[r]["source"]
  <2>2. Awaits(r) /\ nextSweep' = nextSweep /\ (sweep # "idle" => clock = now)
    BY <2>1 DEF Punctual
  <2>3. box'[r]["source"].names = s.names /\ box'[r]["source"].expires = s.expires
        /\ (Named(r)' => Named(r)) /\ s.expires \in Nat
    BY <2>1, ReclaimFrame, BoxTypes, Roles
  <2>4. ASSUME Named(r)', NEW i \in listing, i.run = r, i.role = "source",
               i.names = s.names, i.expires = s.expires, s.expires <= now
        PROVE  i \in listing'
    <3>1. i.names \in snaps'[i.run]
      BY <2>3, <2>4 DEF Named
    <3> QED
      BY <2>1, <2>2, <2>3, <2>4, <3>1
  <2> QED
    BY <1>1, <2>2, <2>3, <2>4 DEF Awaits
<1> QED
  BY <1>2, <1>3, SweepChangeIntro

\* What an item says.
LEMMA ItemOf1 ==
  ASSUME TypeOK, NEW i \in listing \cup current
  PROVE  i \in Item /\ i.run \in Run /\ i.role \in Role /\ i.names \in Nat /\ i.expires \in Nat
  BY TimeTypes, ConstantFacts DEF Item, SnapID

\* An item that has not expired is passed over.
LEMMA SkipStep ==
  ASSUME InOrder, NEW i \in listing \cup current, Skip(i)
  PROVE  SweepChange
<1> USE TimeTypes, ItemOf1 DEF InOrder
<1>1. /\ UNCHANGED <<env, platform, runs, sweep, current, clock, schedule>>
      /\ i.expires > clock /\ listing' = listing \ {i} /\ current = {} /\ sweep = "sweep"
  BY DEF Skip, Drops, Stale, Sweeps, NoItem
<1>2. \A r \in Run : Reclaims(r)
  BY <1>1, NoReclaim
<1>3. TypeOK'
  BY <1>1 DEF TypeOK, env, platform, runs, result, schedule
<1>4. current' = {} /\ onTime' = onTime /\ nextSweep' = nextSweep
  BY <1>1 DEF schedule
<1> QED
  BY <1>1, <1>2, <1>3, <1>4, WithinSweep

\* The snapshot of a stale item goes: its run is over, and its source past its expiry.
LEMMA SnapshotGoes ==
  ASSUME InOrder, NEW i \in listing \cup current, sweep = "sweep", i.expires <= clock,
         UNCHANGED <<env, box, runs>>,
         UNCHANGED snaps \/ (i.names # 0 /\ snaps' = [snaps EXCEPT ![i.run] = @ \ {i.names}])
  PROVE  /\ \A r \in Run : Reclaims(r)
         /\ snaps' \in [Run -> SUBSET (1..Attempts)]
         /\ i.names # 0 /\ ~UNCHANGED snaps => i.names \notin snaps'[i.run]
<1> USE TimeTypes DEF InOrder
<1>1. /\ i.run \in Run /\ box[i.run][i.role].expires <= now
      /\ i.names # 0 => i.role = "source" /\ Over(i.run)
  BY StaleFacts
<1>2. CASE UNCHANGED snaps
  BY <1>2, NoReclaim DEF platform, TypeOK
<1>3. CASE i.names # 0 /\ snaps' = [snaps EXCEPT ![i.run] = @ \ {i.names}]
  <2>1. /\ snaps' \in [Run -> SUBSET (1..Attempts)] /\ i.names \notin snaps'[i.run]
        /\ snaps'[i.run] \subseteq snaps[i.run]
        /\ \A r \in Run : r # i.run => snaps'[r] = snaps[r]
    BY <1>1, <1>3 DEF TypeOK
  <2>2. \A r \in Run : Reclaims(r)
    BY <1>1, <1>3, <2>1 DEF Reclaims
  <2> QED
    BY <2>1, <2>2
<1> QED
  BY <1>2, <1>3

\* The snapshot that an item names goes first.
LEMMA SweepSnapshotStep ==
  ASSUME InOrder, NEW i \in listing \cup current, SweepSnapshot(i)
  PROVE  SweepChange
<1> USE TimeTypes, ItemOf1 DEF InOrder
<1>1. /\ UNCHANGED <<env, box, runs, sweep, clock, schedule>> /\ sweep = "sweep" /\ i \in listing
      /\ i.expires <= clock /\ listing' = listing \ {i} /\ current = {} /\ current' = {i}
      /\ snaps' = IF i.names = 0 THEN snaps ELSE [snaps EXCEPT ![i.run] = @ \ {i.names}]
  BY DEF SweepSnapshot, Drops, Stale, Sweeps, NoItem
<1>2. /\ \A r \in Run : Reclaims(r)
      /\ snaps' \in [Run -> SUBSET (1..Attempts)]
  BY <1>1, SnapshotGoes
<1>3. TypeOK'
  BY <1>1, <1>2 DEF TypeOK, env, runs, result, schedule
<1>4. i.names \notin snaps'[i.run]
  BY <1>1, <1>2, RunTypes DEF TypeOK
<1>5. onTime' = onTime /\ nextSweep' = nextSweep
  BY <1>1 DEF schedule
<1> QED
  BY <1>1, <1>2, <1>3, <1>4, <1>5, WithinSweep

\* Without that its source is left for the next sweep.
LEMMA SweepSnapshotFailsStep ==
  ASSUME InOrder, NEW i \in listing \cup current, SweepSnapshotFails(i)
  PROVE  SweepChange
<1> USE TimeTypes, ItemOf1 DEF InOrder
<1>1. /\ UNCHANGED <<env, box, runs, sweep, current, clock>> /\ sweep = "sweep" /\ i \in listing
      /\ i.expires <= clock /\ listing' = listing \ {i} /\ current = {}
      /\ UNCHANGED snaps \/ (i.names # 0 /\ snaps' = [snaps EXCEPT ![i.run] = @ \ {i.names}])
      /\ ~onTime' /\ onTime' \in BOOLEAN /\ nextSweep' = 0
  BY DEF SweepSnapshotFails, Drops, Stale, Sweeps, NoItem, Keeps
<1>2. /\ \A r \in Run : Reclaims(r)
      /\ snaps' \in [Run -> SUBSET (1..Attempts)]
  BY <1>1, SnapshotGoes
<1>3. TypeOK'
  BY <1>1, <1>2 DEF TypeOK, env, runs, result
<1> QED
  BY <1>1, <1>2, <1>3, WithinSweep

\* Then the sandbox goes.
LEMMA SweepSandboxStep ==
  ASSUME InOrder, NEW i \in listing \cup current, SweepSandbox(i) \/ SweepSandboxFails(i)
  PROVE  SweepChange
<1> USE TimeTypes, ItemOf1 DEF InOrder
<1>1. /\ UNCHANGED <<env, snaps, runs, sweep, listing, clock>> /\ current = {i} /\ current' = {}
      /\ Deletes(i.run, i.role) \/ UNCHANGED box
      /\ UNCHANGED schedule \/ (~onTime' /\ onTime' \in BOOLEAN /\ nextSweep' = 0)
  BY DEF SweepSandbox, SweepSandboxFails, NoItem, Keeps
<1>2. i.expires <= clock /\ i.names \notin snaps[i.run] /\ sweep = "sweep"
  BY <1>1 DEF SweepInOrder, NoItem
<1>3. /\ i.run \in Run /\ i.role \in Role /\ Settled(i.run, i.role)
      /\ box[i.run][i.role].expires <= now /\ box[i.run][i.role].names = i.names
  BY <1>2, StaleFacts
<1>4. (\A r \in Run : Reclaims(r)) /\ box' \in [Run -> [Role -> Sandbox]]
  <2>1. CASE UNCHANGED box
    BY <1>1, <2>1, NoReclaim DEF platform, TypeOK
  <2>2. CASE Deletes(i.run, i.role)
    <3> DEFINE b == box[i.run][i.role]
               c == box'[i.run][i.role]
    <3>1. /\ box' \in [Run -> [Role -> Sandbox]] /\ OnlyAt(i.run, i.role)
          /\ c.state = (IF b.state = "live" THEN "gone" ELSE b.state)
          /\ c.names = b.names /\ c.expires = b.expires
          /\ c.autoDelete = b.autoDelete /\ c.retained = b.retained
      BY <1>3, <2>2, DeletesEffect
    <3>2. i.role = "source" /\ recorded[i.run] => b.names = snapID[i.run]
      BY <1>3 DEF RunInOrder, Points
    <3>3. b.state = "live" => Taken(i.run, i.role)
      BY <1>1, <1>2, <1>3, <3>1, <3>2 DEF Taken
    <3>4. b.state # "live" => c = b
      BY <1>3, <2>2, DeletesEffect
    <3>5. \A r \in Run : Reclaims(r)
      BY <1>1, <3>1, <3>3, <3>4 DEF Reclaims, OnlyAt
    <3> QED
      BY <3>1, <3>5
  <2> QED
    BY <1>1, <2>1, <2>2
<1>5. TypeOK'
  BY <1>1, <1>4 DEF TypeOK, env, runs, result, schedule
<1>6. onTime' => onTime /\ nextSweep' = nextSweep
  BY <1>1 DEF schedule
<1> QED
  BY <1>1, <1>2, <1>4, <1>5, <1>6, WithinSweep

\* A sweep ends.
LEMMA EndStep ==
  ASSUME InOrder, EndSweep
  PROVE  SweepChange
<1> USE TimeTypes DEF InOrder
<1>1. /\ UNCHANGED <<env, platform, runs>> /\ sweep # "idle"
      /\ sweep' = "idle" /\ listing' = {} /\ current' = {} /\ clock' = 0
      /\ onTime' = (onTime /\ sweep = "sweep" /\ listing = {} /\ current = {})
      /\ nextSweep' = IF onTime' THEN now + SweepPeriod ELSE 0
  BY DEF EndSweep, NoItem
<1>2. onTime' \in BOOLEAN /\ (onTime' => onTime /\ listing = {} /\ nextSweep' = now + SweepPeriod)
  BY <1>1
<1>3. \A r \in Run : Reclaims(r)
  BY <1>1, NoReclaim
<1>4. TypeOK'
  <2>1. nextSweep' \in Nat /\ clock' \in Time
    BY <1>1, ConstantFacts DEF Time
  <2> QED
    BY <1>1, <1>2, <2>1 DEF TypeOK, env, platform, runs, result
<1>5. SweepInOrder'
  BY <1>1 DEF SweepInOrder, NoItem, env
<1>6. Punctual'
  <2>1. SUFFICES ASSUME onTime'
                 PROVE  /\ now' <= nextSweep' /\ nextSweep' <= now' + SweepPeriod
                        /\ \A r \in Run : Awaits(r)'
    BY <1>1 DEF Punctual
  <2>2. now' = now /\ nextSweep' = now + SweepPeriod /\ onTime /\ listing = {}
    BY <1>2, <2>1, <1>1 DEF env
  <2>3. ASSUME NEW r \in Run
        PROVE  Awaits(r)'
    <3>1. /\ Awaits(r) /\ Named(r)' = Named(r) /\ box' = box
          /\ box[r]["source"].expires \in Nat
      BY <1>1, <2>2, <2>3, BoxTypes, Roles DEF Punctual, Named, Exists, platform
    <3>2. Named(r) => box[r]["source"].expires > now
      BY <1>1, <2>2, <3>1 DEF Awaits
    <3> QED
      BY <1>1, <2>2, <3>1, <3>2, ConstantFacts DEF Awaits
  <2> QED
    BY <2>2, <2>3, ConstantFacts
<1> QED
  BY <1>1, <1>3, <1>4, <1>5, <1>6, SweepChangeIntro

\* Any step of the janitor.
LEMMA JanitorStep ==
  ASSUME InOrder, Janitor
  PROVE  SweepChange
  BY ListStep, ClockStep, EndStep, SkipStep, SweepSnapshotStep, SweepSnapshotFailsStep,
     SweepSandboxStep DEF Janitor, SweepItem

\* The platform deletes a sandbox after its deadline.
LEMMA AutoDeleteStep ==
  ASSUME InOrder, NEW r \in Run, NEW k \in Role, AutoDelete(r, k)
  PROVE  SweepChange
<1> USE TimeTypes DEF InOrder
<1> DEFINE b == box[r][k]
           c == box'[r][k]
<1>1. /\ UNCHANGED <<env, snaps, runs, janitor>> /\ b.state = "live" /\ b.autoDelete <= now
      /\ Deletes(r, k)
  BY DEF AutoDelete, Exists
<1>2. /\ box' \in [Run -> [Role -> Sandbox]] /\ OnlyAt(r, k)
      /\ c.state = "gone" /\ c.names = b.names /\ c.expires = b.expires
      /\ c.autoDelete = b.autoDelete /\ c.retained = b.retained
  BY <1>1, DeletesEffect
<1>3. b.expires <= b.autoDelete /\ b.expires \in Nat /\ b.autoDelete \in Nat
  BY <1>1, BoxTypes, TTLFacts DEF RunInOrder, Expires
<1>4. Settled(r, k)
  BY <1>1, <1>3, UnsettledIsFresh, ConstantFacts
<1>5. Taken(r, k)
  BY <1>1, <1>2, <1>3, <1>4 DEF Taken
<1>6. \A q \in Run : Reclaims(q)
  BY <1>1, <1>2, <1>5 DEF Reclaims, OnlyAt
<1>7. TypeOK'
  BY <1>1, <1>2 DEF TypeOK, env, runs, result, janitor, schedule
<1>8. UNCHANGED <<now, sweep, listing, current, clock, onTime, nextSweep>> /\ Latest' = Latest
  BY <1>1 DEF env, janitor, schedule, Latest
<1>9. SweepInOrder'
  <2>1. \A i \in listing \cup current : Lists(i)'
    BY <1>1, <1>6, <1>8, ReclaimKeepsLists DEF SweepInOrder
  <2> QED
    BY <1>1, <1>8, <2>1 DEF SweepInOrder
<1>10. Punctual'
  <2>1. ASSUME NEW q \in Run
        PROVE  /\ box'[q]["source"].names = box[q]["source"].names
               /\ box'[q]["source"].expires = box[q]["source"].expires
               /\ Named(q)' => Named(q)
    BY <1>1, <1>6, <2>1, ReclaimFrame, Roles
  <2>2. \A q \in Run : Awaits(q) => Awaits(q)'
    BY <1>8, <2>1 DEF Awaits
  <2> QED
    BY <1>8, <2>2 DEF Punctual
<1> QED
  BY <1>1, <1>6, <1>7, <1>9, <1>10, SweepChangeIntro

\* Time passes: no run overruns, and a sweep that is on time is not late yet.
LEMMA TickStep ==
  ASSUME InOrder, Tick
  PROVE  InOrder'
<1> USE TimeTypes, ConstantFacts DEF InOrder
<1>1. /\ now < MaxTime /\ now' = now + 1
      /\ \A r \in Run : pc[r] \in InProgress => now < created[r] + RunBound
      /\ sweep = "clock" => now < clock + ListBound
      /\ UNCHANGED <<Retain, platform, runs, sweep, listing, current, clock>>
      /\ onTime' = (onTime /\ sweep = "idle" /\ now < nextSweep)
      /\ nextSweep' = IF onTime /\ sweep = "idle" /\ now < nextSweep THEN nextSweep ELSE 0
  BY DEF Tick, Keeps
<1>2. /\ onTime' \in BOOLEAN /\ nextSweep' \in Nat
      /\ onTime' => onTime /\ sweep = "idle" /\ now < nextSweep /\ nextSweep' = nextSweep
  BY <1>1
<1>3. TypeOK'
  <2>1. now' \in Time
    BY <1>1 DEF TypeOK, Time
  <2> QED
    BY <1>1, <1>2, <2>1 DEF TypeOK, platform, runs, result
<1>4. ASSUME NEW r \in Run
      PROVE  RunInOrder(r)'
  <2> USE RunTypes, BoxTypes, Roles
  <2>1. RetentionTTL' = RetentionTTL /\ Margin' = Margin /\ UNCHANGED <<box, snaps, pc, created,
          attempt, source, fork, snapID, recorded, err>> /\ now' >= now
    BY <1>1, TTLsStay DEF platform, runs, result
  <2>2. InTime(r)'
    BY <1>1, <1>4, <2>1 DEF RunInOrder, InTime
  <2>3. KnowsSource(r)' /\ KnowsFork(r)' /\ Points(r)' /\ Undoes(r)'
    BY <1>4, <2>1 DEF RunInOrder, KnowsSource, KnowsFork, Points, Undoes, Exists
  <2>4. KnowsSnapshot(r)'
    BY <1>1, <1>4, <2>1 DEF RunInOrder, KnowsSnapshot, Before, Naming, KeepSnapshot
  <2>5. Remains(r)'
    BY <1>1, <1>4, <2>1 DEF RunInOrder, Remains
  <2>6. \A k \in Role : Expires(r, k)'
    BY <1>4, <2>1 DEF RunInOrder, Expires, Settled, Over
  <2> QED
    BY <2>2, <2>3, <2>4, <2>5, <2>6 DEF RunInOrder
<1>5. SweepInOrder'
  <2>1. UNCHANGED <<box, pc, snaps, sweep, listing, current, clock>> /\ Latest' = Latest
    BY <1>1 DEF platform, runs, Latest
  <2>2. \A i \in listing \cup current : Lists(i)'
    BY <2>1 DEF SweepInOrder, Lists, Settled, Over
  <2> QED
    BY <1>1, <2>1, <2>2 DEF SweepInOrder
<1>6. Punctual'
  <2>1. UNCHANGED <<box, snaps, sweep>>
    BY <1>1 DEF platform
  <2>2. \A r \in Run : onTime' /\ Awaits(r) => Awaits(r)'
    BY <1>2, <2>1 DEF Awaits, Named, Exists
  <2> QED
    BY <1>1, <1>2, <2>1, <2>2 DEF Punctual
<1> QED
  BY <1>3, <1>4, <1>5, <1>6

-----------------------------------------------------------------------------
(* The invariant *)

\* Nothing has begun.
LEMMA InitInOrder == Init => InOrder
<1> SUFFICES ASSUME Init
             PROVE  InOrder
  OBVIOUS
<1> USE ConstantFacts, TTLFacts, Roles
<1>1. TypeOK
  <2>1. Absent \in Sandbox
    BY DEF Absent, Sandbox, SnapID
  <2>2. box \in [Run -> [Role -> Sandbox]]
    BY <2>1 DEF Init
  <2>3. Retain \in BOOLEAN
    BY SnapshotReclaimAssumption DEF Init
  <2> QED
    BY <2>2, <2>3 DEF Init, TypeOK, Time, SnapID, NoItem
<1>2. ASSUME NEW r \in Run
      PROVE  RunInOrder(r)
  <2>1. \A k \in Role : box[r][k] = Absent
    BY <1>2 DEF Init
  <2>2. \A k \in Role : box[r][k].state = "none" /\ box[r][k].names = 0
    BY <2>1 DEF Absent
  <2>3. /\ pc[r] = "idle" /\ ~source[r] /\ ~fork[r] /\ snapID[r] = 0 /\ attempt[r] = 0
        /\ snaps[r] = {} /\ ~recorded[r]
    BY <1>2 DEF Init
  <2>4. InTime(r) /\ KnowsSource(r) /\ KnowsFork(r) /\ Points(r) /\ Undoes(r) /\ Remains(r)
    BY <2>2, <2>3 DEF InTime, KnowsSource, KnowsFork, Points, Undoes, Remains, InProgress,
       Body, Cleanup
  <2>5. KnowsSnapshot(r) /\ \A k \in Role : Expires(r, k)
    BY <2>2, <2>3 DEF KnowsSnapshot, Before, Naming, Expires
  <2> QED
    BY <2>4, <2>5 DEF RunInOrder
<1>3. SweepInOrder
  BY DEF Init, SweepInOrder, NoItem
<1>4. Punctual
  BY DEF Init, Punctual, Awaits, Named
<1> QED
  BY <1>1, <1>2, <1>3, <1>4 DEF InOrder

\* Every step keeps the order.
LEMMA StepInOrder == InOrder /\ [Next]_vars => InOrder'
<1> SUFFICES ASSUME InOrder, [Next]_vars
             PROVE  InOrder'
  OBVIOUS
<1>1. ASSUME NEW r \in Run, Start(r) \/ RunStep(r) \/ Kill(r)
      PROVE  InOrder'
  <2>1. TypeOK' /\ RunChange(r) /\ UNCHANGED env
    BY <1>1, RunStepChange DEF InOrder, RunChange
  <2>2. ASSUME NEW q \in Run
        PROVE  RunInOrder(q)'
    <3>1. q # r => Same(q)
      BY <2>1, <2>2 DEF RunChange
    <3> QED
      BY <2>1, <2>2, <3>1, SameInOrder DEF InOrder, RunChange
  <2> QED
    BY <2>1, <2>2, RunKeepsSweep, RunKeepsPunctual DEF InOrder
<1>2. CASE Janitor
  BY <1>2, JanitorStep DEF SweepChange
<1>3. ASSUME NEW r \in Run, NEW k \in Role, AutoDelete(r, k)
      PROVE  InOrder'
  BY <1>3, AutoDeleteStep DEF SweepChange
<1>4. CASE Tick
  BY <1>4, TickStep
<1>5. CASE UNCHANGED vars
  <2>1. UNCHANGED <<now, Retain, box, snaps, pc, created, attempt, source, fork, snapID,
          recorded, err, sweep, listing, current, clock, onTime, nextSweep>>
    BY <1>5 DEF vars, env, platform, runs, result, janitor, schedule
  <2>2. UNCHANGED env /\ (\A r \in Run : Same(r)) /\ Latest' = Latest
    BY <2>1 DEF env, Same, Latest
  <2>3. TypeOK'
    BY <2>1 DEF InOrder, TypeOK
  <2>4. \A r \in Run : RunInOrder(r)'
    BY <2>2, SameInOrder DEF InOrder
  <2>5. SweepInOrder'
    BY <2>1, <2>2 DEF InOrder, SweepInOrder, Lists, Settled, Over
  <2>6. Punctual'
    BY <2>1 DEF InOrder, Punctual, Awaits, Named, Exists
  <2> QED
    BY <2>3, <2>4, <2>5, <2>6 DEF InOrder
<1> QED
  BY <1>1, <1>2, <1>3, <1>4, <1>5 DEF Next

\* The order is more than the invariant that the runs check.
LEMMA InOrderSuffices == InOrder => SnapshotInv
<1> SUFFICES ASSUME InOrder
             PROVE  OneSnapshot /\ FailedDeleteKeepsSource
  BY DEF InOrder, SnapshotInv
<1>1. ASSUME NEW r \in Run
      PROVE  Cardinality(snaps[r]) <= 1
  <2>1. \A m, n \in snaps[r] : m = n
    BY <1>1 DEF InOrder, RunInOrder, KnowsSnapshot
  <2>2. CASE snaps[r] = {}
    BY <2>2, FS_EmptySet
  <2>3. ASSUME NEW n \in snaps[r]
        PROVE  Cardinality(snaps[r]) <= 1
    <3>1. snaps[r] = {n}
      BY <2>1, <2>3
    <3>2. Cardinality({n}) = 1
      BY FS_Singleton
    <3> QED
      BY <3>1, <3>2
  <2> QED
    BY <2>2, <2>3
<1>2. ASSUME NEW r \in Run, pc[r] = "done", snapID[r] \in snaps[r]
      PROVE  Exists(r, "source") \/ box[r]["source"].expires <= now
  <2>1. snapID[r] # 0 /\ box[r]["source"].state \in {"none", "live", "gone"}
    BY <1>2, RunTypes, BoxTypes, Roles DEF InOrder
  <2> QED
    BY <1>2, <2>1 DEF InOrder, RunInOrder, KnowsSource, Remains, Exists
<1> QED
  BY <1>1, <1>2 DEF OneSnapshot, FailedDeleteKeepsSource

\* A run makes at most one snapshot, and leaves the source behind when it could
\* not delete the one it knows of (runSnapshot, CreateSnapshot).
THEOREM SnapshotInvariant == Spec => []SnapshotInv
<1>1. InOrder /\ [Next]_vars => InOrder'
  BY StepInOrder
<1> QED
  BY InitInOrder, <1>1, InOrderSuffices, PTL DEF Spec

\* Every reachable state is in order.
LEMMA AlwaysInOrder == Spec => []InOrder
<1>1. InOrder /\ [Next]_vars => InOrder'
  BY StepInOrder
<1> QED
  BY InitInOrder, <1>1, PTL DEF Spec

-----------------------------------------------------------------------------
(* What follows *)

\* Once the source names its snapshot, neither the run, wherever it stops, nor the
\* janitor separates the two, and what is retained keeps its snapshot (the order of
\* runSnapshot's cleanup and of the janitor's deletes).
THEOREM RecordedStaysNamedHolds == Spec => []RecordedStaysNamed
<1>1. ASSUME InOrder
      PROVE  RecordedStaysNamed
  <2> USE <1>1 DEF InOrder
  <2>1. SUFFICES ASSUME NEW r \in Run, recorded[r]
                 PROVE  LET s == box[r]["source"]
                        IN  /\ Over(r) /\ snaps[r] # {} => Named(r) \/ s.autoDelete <= now
                            /\ s.state = "live" /\ s.retained /\ now < s.expires => s.names \in snaps[r]
    BY DEF RecordedStaysNamed
  <2>2. snapID[r] # 0 /\ box[r]["source"].names = snapID[r] /\ snaps[r] \subseteq {snapID[r]}
        /\ source[r] /\ box[r]["source"].state \in {"live", "gone"}
    BY <2>1, BoxTypes, Roles DEF RunInOrder, Points, KnowsSnapshot, KnowsSource
  <2> QED
    BY <2>1, <2>2 DEF RunInOrder, Remains, Named, Exists
<1> QED
  BY AlwaysInOrder, <1>1, PTL

\* A run without error leaves nothing: snapshot, fork and source are deleted
\* (runSnapshot's deferred cleanup and FinalizeSandbox).
THEOREM SuccessMeansCleanHolds == Spec => []SuccessMeansClean
<1>1. InOrder => SuccessMeansClean
  BY Roles DEF InOrder, RunInOrder, Undoes, SuccessMeansClean
<1> QED
  BY AlwaysInOrder, <1>1, PTL

\* No sweep takes a sandbox from a run in progress, or out of its retention: it ends
\* by its own run's cleanup or past its expiry (janitor.Runner.Run, StaleSince).
THEOREM ReclaimedOnTimeHolds == Spec => ReclaimedOnTime
<1> DEFINE OnTimeStep == \A r \in Run, k \in Role :
             Exists(r, k) /\ ~Exists(r, k)' =>
                \/ pc[r] \in Cleanup /\ pc'[r] # pc[r]
                \/ box[r][k].expires <= now
<1>1. InOrder /\ [Next]_vars => [OnTimeStep]_vars
  <2> SUFFICES ASSUME InOrder, Next, NEW r \in Run, NEW k \in Role, Exists(r, k), ~Exists(r, k)'
               PROVE  \/ pc[r] \in Cleanup /\ pc'[r] # pc[r]
                      \/ box[r][k].expires <= now
    OBVIOUS
  <2>1. ASSUME NEW q \in Run, Start(q) \/ RunStep(q) \/ Kill(q)
        PROVE  pc[r] \in Cleanup /\ pc'[r] # pc[r]
    <3>1. RunChange(q)
      BY <2>1, RunStepChange DEF InOrder
    <3> QED
      BY <3>1 DEF RunChange, Same, Exists
  <2>2. ASSUME SweepChange
        PROVE  box[r][k].expires <= now
    BY <2>2 DEF SweepChange, Reclaims, Taken, Exists
  <2>3. CASE Tick
    BY <2>3 DEF Tick, platform, Exists
  <2> QED
    BY <2>1, <2>2, <2>3, JanitorStep, AutoDeleteStep DEF Next
<1> HIDE DEF OnTimeStep
<1>2. Spec => [][OnTimeStep]_vars
  BY AlwaysInOrder, <1>1, PTL DEF Spec
<1> QED
  BY <1>2 DEF OnTimeStep, ReclaimedOnTime

-----------------------------------------------------------------------------
(* Auto-deletion *)

\* The source of run r does not vanish while it points at a snapshot.
PointerKept(r) ==
  LET s == box[r]["source"]
      t == box'[r]["source"]
  IN  t.state = "gone" /\ t.names \in snaps'[r] => s.state = "gone" /\ s.names \in snaps[r]

\* No step of a run separates a snapshot from its source.
LEMMA RunKeepsPointers ==
  ASSUME NEW r \in Run, RunChange(r), NEW q \in Run
  PROVE  PointerKept(q)
  BY Roles DEF RunChange, Same, PointerKept

\* No step of the janitor does, either.
LEMMA JanitorKeepsPointers ==
  ASSUME InOrder, Janitor, NEW r \in Run
  PROVE  PointerKept(r)
<1> DEFINE s == box[r]["source"]
           t == box'[r]["source"]
<1>1. snaps'[r] \subseteq snaps[r] /\ t.names = s.names
  BY JanitorStep, ReclaimFrame, Roles DEF SweepChange, InOrder
<1>2. CASE UNCHANGED box
  BY <1>1, <1>2 DEF PointerKept
<1>3. ASSUME NEW i \in listing \cup current, SweepSandbox(i) \/ SweepSandboxFails(i)
      PROVE  PointerKept(r)
  <2>1. UNCHANGED <<snaps, runs>> /\ current = {i}
        /\ (Deletes(i.run, i.role) \/ UNCHANGED box)
    BY <1>3 DEF SweepSandbox, SweepSandboxFails
  <2>2. i.names \notin snaps[i.run] /\ sweep = "sweep" /\ i.expires <= clock
    BY <2>1 DEF InOrder, SweepInOrder, NoItem
  <2>3. i.run \in Run /\ i.role \in Role /\ box[i.run][i.role].names = i.names
    BY <2>2, StaleFacts
  <2>4. CASE Deletes(i.run, i.role)
    <3>1. OnlyAt(i.run, i.role)
      BY <2>3, <2>4, DeletesEffect DEF InOrder
    <3>2. CASE r = i.run /\ i.role = "source"
      BY <1>1, <2>2, <2>3, <3>2 DEF PointerKept
    <3>3. CASE ~(r = i.run /\ i.role = "source")
      <4>1. t = s
        BY <3>1, <3>3, Roles DEF OnlyAt
      <4> QED
        BY <1>1, <4>1 DEF PointerKept
    <3> QED
      BY <3>2, <3>3
  <2> QED
    BY <1>2, <2>1, <2>4
<1> QED
  BY <1>2, <1>3 DEF Janitor, ListSandboxes, ReadClock, EndSweep, SweepItem, Skip,
     SweepSnapshot,
       SweepSnapshotFails, platform

\* With sweeps on time, a pointer that auto-deletion could take is named no more.
LEMMA AutoDeleteKeepsPointers ==
  ASSUME InOrder, NEW r \in Run, NEW k \in Role, AutoDelete(r, k), onTime,
         SweepPeriod <= RetainTTL, SweepPeriod <= ResourceTTL, NEW q \in Run
  PROVE  PointerKept(q)
<1> DEFINE s == box[q]["source"]
           t == box'[q]["source"]
<1>1. /\ box[r][k].state = "live" /\ box[r][k].autoDelete <= now /\ UNCHANGED snaps
      /\ OnlyAt(r, k) /\ box'[r][k].names = box[r][k].names
  BY DeletesEffect DEF AutoDelete, Exists, InOrder
<1>2. CASE q = r /\ k = "source"
  <2>1. SUFFICES ASSUME s.names \in snaps[q]
                 PROVE  FALSE
    BY <1>1, <1>2 DEF PointerKept
  <2>2. Named(q) /\ s.names # 0
    BY <1>1, <1>2, <2>1, RunTypes DEF Named, Exists, InOrder
  <2>3. now <= nextSweep /\ nextSweep < s.expires + SweepPeriod
    BY <2>2 DEF InOrder, Punctual, Awaits
  <2>4. s.expires + Margin <= s.autoDelete
    BY <1>1, <1>2, <2>2, Roles DEF InOrder, RunInOrder, Expires
  <2>5. SweepPeriod <= Margin
    BY DEF Margin
  <2>6. /\ s.expires \in Nat /\ s.autoDelete \in Nat /\ now \in Nat /\ nextSweep \in Nat
        /\ Margin \in Nat /\ SweepPeriod \in Nat
    BY BoxTypes, Roles, TimeTypes, TTLFacts, ConstantFacts DEF InOrder
  <2> QED
    BY <1>1, <1>2, <2>3, <2>4, <2>5, <2>6
<1>3. CASE ~(q = r /\ k = "source")
  <2>1. t = s
    BY <1>1, <1>3, Roles DEF OnlyAt
  <2> QED
    BY <1>1, <2>1 DEF PointerKept
<1> QED
  BY <1>2, <1>3

\* A sweep that is late stays late.
LEMMA LateStaysLate ==
  ASSUME InOrder, Next, onTime'
  PROVE  onTime
<1>1. ASSUME NEW r \in Run, Start(r) \/ RunStep(r) \/ Kill(r)
      PROVE  UNCHANGED onTime
  BY <1>1, RunStepChange DEF InOrder, RunChange, janitor, schedule
<1>2. CASE Janitor
  BY <1>2 DEF Janitor, ListSandboxes, ReadClock, EndSweep, SweepItem, Skip, SweepSnapshot,
     SweepSnapshotFails, SweepSandbox, SweepSandboxFails, Keeps, schedule
<1>3. CASE (\E r \in Run, k \in Role : AutoDelete(r, k)) \/ Tick
  BY <1>3 DEF AutoDelete, Tick, Keeps, janitor, schedule
<1> QED
  BY <1>1, <1>2, <1>3 DEF Next

\* Doubling the auto-delete time suffices: as long as no sweep is late, slow, cut
\* short or failed, the platform never deletes a source that still names a snapshot
\* (snapshotPointerAutoDeleteFactor), provided that the janitor runs at least once in
\* each of the two TTLs.
THEOREM PointerOutlivesSweepHolds ==
  ASSUME SweepPeriod <= RetainTTL, SweepPeriod <= ResourceTTL
  PROVE  Spec => []PointerOutlivesSweep
<1>1. Init => PointerOutlivesSweep
  BY Roles DEF Init, PointerOutlivesSweep, Absent
<1>2. InOrder /\ PointerOutlivesSweep /\ [Next]_vars => PointerOutlivesSweep'
  <2>1. SUFFICES ASSUME InOrder, PointerOutlivesSweep, [Next]_vars
                 PROVE  PointerOutlivesSweep'
    OBVIOUS
  <2>2. CASE UNCHANGED vars
    BY <2>1, <2>2 DEF PointerOutlivesSweep, vars, platform, janitor, schedule
  <2>3. CASE Next
    <3>1. SUFFICES ASSUME onTime', NEW q \in Run
                   PROVE  PointerKept(q)
      <4>1. ASSUME onTime'
            PROVE  onTime
        BY <2>1, <2>3, <4>1, LateStaysLate
      <4> QED
        BY <2>1, <4>1 DEF PointerOutlivesSweep, PointerKept
    <3>2. onTime
      BY <2>1, <2>3, <3>1, LateStaysLate
    <3>3. ASSUME NEW r \in Run, Start(r) \/ RunStep(r) \/ Kill(r)
          PROVE  PointerKept(q)
      BY <2>1, <3>3, RunStepChange, RunKeepsPointers DEF InOrder
    <3>4. CASE Janitor
      BY <2>1, <3>4, JanitorKeepsPointers
    <3>5. ASSUME NEW r \in Run, NEW k \in Role, AutoDelete(r, k)
          PROVE  PointerKept(q)
      BY <2>1, <3>2, <3>5, AutoDeleteKeepsPointers
    <3>6. CASE Tick
      BY <3>6 DEF Tick, platform, PointerKept
    <3> QED
      BY <2>3, <3>3, <3>4, <3>5, <3>6 DEF Next
  <2> QED
    BY <2>1, <2>2, <2>3
<1> QED
  BY AlwaysInOrder, <1>1, <1>2, PTL DEF Spec

=============================================================================
