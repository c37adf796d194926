------------------------------ MODULE SoakProofs ------------------------------
(***************************************************************************)
(* Proofs about the soak canary for every duration and interval, however    *)
(* late its timers and cycles are.                                          *)
(***************************************************************************)
EXTENDS Soak, TLAPS

-----------------------------------------------------------------------------
(* The schedule *)

\* Quotient and remainder.
LEMMA DivMod ==
  ASSUME NEW a \in Nat, NEW d \in Nat \ {0}
  PROVE  /\ a \div d \in Nat /\ (a \div d) * d <= a /\ a < (a \div d) * d + d
         /\ a % d = a - (a \div d) * d
  OBVIOUS

\* What the constants are.
LEMMA Parameters ==
  /\ SoakDuration \in Nat \ {0} /\ SoakInterval \in Nat \ {0}
  /\ MaxTime \in Nat /\ MaxPauses \in Nat /\ MaxFaults \in Nat
BY SoakAssumption

\* Before is the quotient rounded up.
LEMMA BeforeIs ==
  ASSUME NEW t \in Nat
  PROVE  /\ Before(t) \in Nat
         /\ (Before(t) - 1) * SoakInterval < t /\ t <= Before(t) * SoakInterval
<1>1. t + SoakInterval - 1 \in Nat
  BY Parameters
<1> QED
  BY <1>1, Parameters, DivMod DEF Before

\* How many checks are due before a time.
LEMMA BeforeUnique ==
  ASSUME NEW t \in Nat, NEW k \in Int, (k - 1) * SoakInterval < t, t <= k * SoakInterval
  PROVE  Before(t) = k
BY Parameters DEF Before

\* A check of the schedule that is not the last at the deadline.
LEMMA OnGrid ==
  ASSUME NEW t \in Nat, t % SoakInterval = 0
  PROVE  /\ Before(t) * SoakInterval = t
         /\ (t + SoakInterval) % SoakInterval = 0
         /\ Before(t + SoakInterval) = Before(t) + 1
<1> DEFINE k == t \div SoakInterval
<1>1. k \in Nat /\ t = k * SoakInterval
  BY DivMod, Parameters
<1> HIDE DEF k
<1>2. Before(t) = k
  <2>1. (k - 1) * SoakInterval < t /\ t <= k * SoakInterval
    BY <1>1, Parameters
  <2> QED
    BY <1>1, <2>1, BeforeUnique
<1>3. (k + 1) * SoakInterval = t + SoakInterval /\ t + SoakInterval \in Nat
  BY <1>1, Parameters
<1>4. Before(t + SoakInterval) = k + 1
  <2>1. (k + 1 - 1) * SoakInterval < t + SoakInterval /\ t + SoakInterval <= (k + 1) * SoakInterval
    BY <1>1, <1>3, Parameters
  <2> QED
    BY <1>1, <1>3, <2>1, BeforeUnique
<1>5. (t + SoakInterval) % SoakInterval = 0
  BY <1>1, <1>3, Parameters, DivMod
<1> QED
  BY <1>1, <1>2, <1>4, <1>5

\* The check at the deadline comes after all others.
LEMMA ScheduledIs == Scheduled = Before(SoakDuration) + 1 /\ Scheduled \in Nat
<1> DEFINE q == SoakDuration \div SoakInterval
<1>1. /\ q \in Nat /\ q * SoakInterval <= SoakDuration
      /\ SoakDuration < q * SoakInterval + SoakInterval
      /\ SoakDuration % SoakInterval = SoakDuration - q * SoakInterval
  BY DivMod, Parameters
<1>2. Scheduled = q + 1 + IF SoakDuration % SoakInterval # 0 THEN 1 ELSE 0
  BY DEF Scheduled
<1> HIDE DEF q
<1>3. CASE SoakDuration % SoakInterval = 0
  BY <1>1, <1>2, <1>3, Parameters, BeforeUnique
<1>4. CASE SoakDuration % SoakInterval # 0
  <2>1. (q + 1 - 1) * SoakInterval < SoakDuration /\ SoakDuration <= (q + 1) * SoakInterval
    BY <1>1, <1>4, Parameters
  <2>2. Before(SoakDuration) = q + 1
    BY <1>1, <2>1, Parameters, BeforeUnique
  <2> QED
    BY <1>1, <1>2, <1>4, <2>2
<1> QED
  BY <1>3, <1>4

\* What the deadline cuts off is the rest of the schedule.
LEMMA UnexecutedIs ==
  ASSUME next \in Nat, next <= SoakDuration, next % SoakInterval = 0 \/ next = SoakDuration
  PROVE  Unexecuted \in Nat /\ Before(next) + Unexecuted = Before(SoakDuration)
<1> DEFINE rest == SoakDuration - next
           q == rest \div SoakInterval
<1>0. rest \in Nat /\ rest = SoakDuration - next
  BY Parameters
<1>2. Unexecuted = q + IF rest % SoakInterval # 0 THEN 1 ELSE 0
  BY DEF Unexecuted
<1> HIDE DEF rest
<1>1. /\ q \in Nat /\ q * SoakInterval <= rest
      /\ rest < q * SoakInterval + SoakInterval
      /\ rest % SoakInterval = rest - q * SoakInterval
  BY <1>0, DivMod, Parameters
<1> HIDE DEF q
<1>3. CASE next = SoakDuration
  <2>1. rest = 0 /\ q = 0
    BY <1>0, <1>1, <1>3, Parameters
  <2>2. Unexecuted = 0
    BY <1>1, <1>2, <2>1, Parameters
  <2> QED
    BY <1>3, <2>2, BeforeIs, Parameters
<1>4. CASE next % SoakInterval = 0
  <2>1. Before(next) \in Nat /\ next = Before(next) * SoakInterval
    BY <1>4, OnGrid, BeforeIs
  <2> DEFINE b == Before(next)
             u == Unexecuted
  <2>2. u \in Nat /\ (u - 1) * SoakInterval < rest /\ rest <= u * SoakInterval
    <3>1. CASE rest % SoakInterval = 0
      <4>1. u = q /\ (q - 1) * SoakInterval = q * SoakInterval - SoakInterval
        BY <1>1, <1>2, <3>1, Parameters
      <4> QED
        BY <1>0, <1>1, <3>1, <4>1, Parameters
    <3>2. CASE rest % SoakInterval # 0
      <4>1. u = q + 1 /\ (q + 1) * SoakInterval = q * SoakInterval + SoakInterval
        BY <1>1, <1>2, <3>2, Parameters
      <4> QED
        BY <1>0, <1>1, <3>2, <4>1, Parameters
    <3> QED
      BY <3>1, <3>2
  <2> HIDE DEF b, u
  <2>3. (b + u - 1) * SoakInterval < SoakDuration /\ SoakDuration <= (b + u) * SoakInterval
    <3>1. /\ (b + u - 1) * SoakInterval = b * SoakInterval + (u - 1) * SoakInterval
          /\ (b + u) * SoakInterval = b * SoakInterval + u * SoakInterval
      BY <2>1, <2>2, Parameters DEF b
    <3> QED
      BY <1>0, <1>1, <2>1, <2>2, <3>1, Parameters DEF b
  <2>4. Before(SoakDuration) = b + u
    BY <2>1, <2>2, <2>3, Parameters, BeforeUnique DEF b
  <2> QED
    BY <2>2, <2>4 DEF b, u
<1> QED
  BY <1>3, <1>4

\* However many checks are late, and wherever the next one is clamped.
LEMMA CatchUpKeeps ==
  ASSUME next \in Nat, cycles \in Nat, missed \in Nat, NEW late \in Nat,
         next % SoakInterval = 0, next < SoakDuration + SoakInterval,
         cycles <= Before(next), Before(next) <= cycles + missed,
         NEW due \in Nat, due = next + late * SoakInterval,
         NEW then \in Nat, then = IF due > SoakDuration THEN SoakDuration ELSE due
  PROVE  /\ then <= SoakDuration /\ (then % SoakInterval = 0 \/ then = SoakDuration)
         /\ cycles <= Before(then) /\ Before(then) <= cycles + missed + late
<1> DEFINE b == Before(next)
<1>1. b \in Nat /\ b * SoakInterval = next
  BY BeforeIs, OnGrid
<1> HIDE DEF b
<1>2. (b + late) * SoakInterval = due
  BY <1>1, Parameters
<1>3. CASE due <= SoakDuration
  <2>1. (b + late - 1) * SoakInterval < due /\ due % SoakInterval = 0
    <3>1. due % SoakInterval = due - (due \div SoakInterval) * SoakInterval
      BY DivMod, Parameters
    <3>2. (b + late - 1) * SoakInterval = due - SoakInterval
      BY <1>1, <1>2, Parameters
    <3>3. due \div SoakInterval = b + late
      BY <1>1, <1>2, Parameters
    <3> QED
      BY <1>2, <3>1, <3>2, <3>3, Parameters
  <2>2. Before(due) = b + late
    BY <1>1, <1>2, <2>1, BeforeUnique
  <2>3. then = due
    BY <1>3, Parameters
  <2> QED
    BY <1>1, <1>3, <2>1, <2>2, <2>3 DEF b
<1>4. CASE due > SoakDuration
  <2> DEFINE e == Before(SoakDuration)
  <2>1. e \in Nat /\ (e - 1) * SoakInterval < SoakDuration /\ SoakDuration <= e * SoakInterval
    BY BeforeIs, Parameters
  <2> HIDE DEF e
  <2>2. e <= b + late
    <3>1. (e - 1) * SoakInterval < (b + late) * SoakInterval
      BY <1>1, <1>2, <1>4, <2>1, Parameters
    <3>2. e - 1 < b + late
      BY <1>1, <2>1, <3>1, Parameters
    <3> QED
      BY <1>1, <2>1, <3>2
  <2>3. b <= e
    <3>1. (b - 1) * SoakInterval < e * SoakInterval
      BY <1>1, <2>1, Parameters
    <3>2. b - 1 < e
      BY <1>1, <2>1, <3>1, Parameters
    <3> QED
      BY <1>1, <2>1, <3>2
  <2>4. then = SoakDuration
    BY <1>4
  <2> QED
    BY <1>1, <2>1, <2>2, <2>3, <2>4, Parameters DEF b, e
<1> QED
  BY <1>3, <1>4, Parameters

-----------------------------------------------------------------------------
(* The checks of a cycle *)

\* The checks in their order.
LEMMA CheckPlaces ==
  /\ Len(Checks) = 11 /\ DOMAIN Checks = 1..11
  /\ Checks[1] = "status" /\ Checks[2] = "activate" /\ Checks[3] = "connect"
  /\ Checks[4] = "preview_create" /\ Checks[5] = "preview_token"
  /\ Checks[6] = "preview_connect" /\ Checks[7] = "preview_auth"
  /\ Checks[8] = "preview_delete" /\ Checks[9] = "preview_revoked"
  /\ Checks[10] = "short_task" /\ Checks[11] = "process_identity"
BY DEF Checks

\* Each check has one place.
LEMMA CheckMembers ==
  /\ \A i \in 1..11 : Checks[i] \in Check
  /\ \A c \in Check : \E i \in 1..11 : Checks[i] = c
  /\ \A i \in 1..11, j \in 1..11 : Checks[i] = Checks[j] => i = j
<1>1. \A i \in 1..11 : i = 1 \/ i = 2 \/ i = 3 \/ i = 4 \/ i = 5 \/ i = 6 \/ i = 7 \/ i = 8
                       \/ i = 9 \/ i = 10 \/ i = 11
  OBVIOUS
<1>2. \A i \in 1..11, j \in 1..11 : Checks[i] = Checks[j] => i = j
  BY <1>1, CheckPlaces
<1>3. Check = {Checks[i] : i \in 1..11}
  BY CheckPlaces DEF Check
<1> QED
  BY <1>2, <1>3

\* What a check needs comes before it in the cycle.
LEMMA NeedsBefore ==
  ASSUME NEW s \in 1..11, NEW d \in Needs(Checks[s])
  PROVE  d \in Check /\ \E i \in 1..(s - 1) : Checks[i] = d
<1>1. s = 1 \/ s = 2 \/ s = 3 \/ s = 4 \/ s = 5 \/ s = 6 \/ s = 7 \/ s = 8
      \/ s = 9 \/ s = 10 \/ s = 11
  OBVIOUS
<1>2. \E i \in 1..(s - 1) : Checks[i] = d
  BY <1>1, CheckPlaces DEF Needs, NeedsToDelete
<1> QED
  BY <1>2, CheckMembers

-----------------------------------------------------------------------------
(* Before the observation, and after it *)

\* The sandbox is created, its server started, and it is paused.
LEMMA SetupKeeps ==
  ASSUME SoakInv, CreateSandbox \/ StartSoakServer \/ DeliberatePause
  PROVE  SoakInv'
<1> USE DEF CreateSandbox, StartSoakServer, DeliberatePause, ServerStarts, Return, schedule,
            counters, observed, platform, SoakInv
<1>1. /\ pc \in {"create", "start_server", "pause"} /\ pc \in Setup
      /\ pc' \in {"start_server", "pause", "wait", "cleanup"}
      /\ pc' # "create"
  BY DEF Setup
<1>2. TypeOK'
  BY DEF TypeOK, Setup
<1>3. Balanced'
  BY <1>1 DEF Balanced, Past
<1>4. PausesReported'
  BY <1>1 DEF PausesReported, SetUp
<1>5. OnSchedule'
  <2>1. next = 0 /\ cycles = 0 /\ missed = 0
    BY <1>1 DEF OnSchedule
  <2>2. Before(0) = 0 /\ 0 % SoakInterval = 0 /\ 0 <= SoakDuration
    BY Parameters, BeforeUnique
  <2>3. pc' = "cleanup" => err' /\ (cancelled' \/ pause' = "none")
    BY <1>1 DEF SetUp
  <2>4. UNCHANGED <<next, cycles, missed>>
    OBVIOUS
  <2> QED
    BY <1>1, <2>1, <2>2, <2>3, <2>4 DEF OnSchedule, Observing, Before
<1>6. SetUp'
  BY <1>1 DEF SetUp, Setup, Observing, TypeOK
<1>7. ErrorsKept'
  <2>1. ~err
    BY <1>1 DEF ErrorsKept
  <2>2. \A c \in Check : failures[c] <= 0 /\ skipped[c] <= 0
    BY <1>1 DEF Balanced, OnSchedule, TypeOK
  <2>3. (err' => pc' = "cleanup") /\ (pc' = "cleanup" => err')
    BY <2>1
  <2>4. \A c \in Check : ~(failures'[c] > 0) /\ ~(skipped'[c] > 0)
    BY <2>2 DEF TypeOK
  <2> QED
    BY <1>1, <2>3, <2>4 DEF ErrorsKept
<1>8. PortUndone'
  BY <1>1 DEF PortUndone, SetUp
<1> QED
  BY <1>2, <1>3, <1>4, <1>5, <1>6, <1>7, <1>8

\* The run waits for the next check.
LEMMA WaitKeeps ==
  ASSUME SoakInv, WaitSoak
  PROVE  SoakInv'
<1> USE DEF WaitSoak, Return, schedule, counters, observed, platform, SoakInv
<1>1. pc = "wait" /\ pc' \in {"cycle", "cleanup"} /\ (pc' = "cycle" => step' = 1 /\ ~cancelled)
  OBVIOUS
<1>2. TypeOK'
  <2>1. outcome' \in [Check -> {"none", "ok", "failed", "skipped"}]
        /\ step' \in 1..(Len(Checks) + 1)
    BY CheckPlaces DEF TypeOK, Nothing
  <2>2. probed' \in {"none", "original", "replacement"} /\ err' \in BOOLEAN
    BY DEF TypeOK
  <2> QED
    BY <1>1, <2>1, <2>2 DEF TypeOK
<1>3. Balanced'
  BY <1>1 DEF Balanced, Past
<1>4. PausesReported'
  BY <1>1 DEF PausesReported
<1>5. OnSchedule'
  BY <1>1 DEF OnSchedule, Observing, Setup, Before, Accounted
<1>6. SetUp'
  BY <1>1 DEF SetUp, Setup, Observing
<1>7. ErrorsKept'
  <2>1. ~err /\ (pc' = "cleanup" <=> err')
    BY <1>1 DEF ErrorsKept
  <2> QED
    BY <1>1, <2>1 DEF ErrorsKept
<1>8. PortUndone'
  <2>1. "preview_delete" \in Check
    BY CheckMembers, CheckPlaces
  <2>2. pc' = "cycle" => ~Past("preview_delete")'
    BY <1>1 DEF Past
  <2> QED
    BY <1>1, <2>2 DEF PortUndone
<1> QED
  BY <1>2, <1>3, <1>4, <1>5, <1>6, <1>7, <1>8

\* A cycle ends: what was due in the meantime is counted as missed.
LEMMA EndCycleKeeps ==
  ASSUME SoakInv, EndCycle
  PROVE  SoakInv'
<1> USE DEF EndCycle, Return, counters, observed, platform, SoakInv
<1>1. /\ pc = "cycle" /\ step = 12 /\ cycles' = cycles + 1 /\ cycles \in Nat
      /\ pc' = (IF cancelled THEN "cleanup" ELSE "deadline")
  BY CheckPlaces DEF TypeOK
<1>2. TypeOK'
  <2>0. err \in BOOLEAN
    BY DEF TypeOK
  <2>1. err' \in BOOLEAN /\ cycles' \in Nat
    <3>1. err' = TRUE \/ err' = err
      OBVIOUS
    <3>2. err' \in BOOLEAN
      BY <2>0, <3>1, Zenon
    <3> QED
      BY <1>1, <3>2
  <2>2. pc' \in {"cleanup", "deadline"}
    BY <1>1
  <2> HIDE DEF Return
  <2>3. UNCHANGED <<now, next, missed, cancelled, step, outcome, attempts, failures, skipped,
                    pause, idlePauses, seenActive, pauseVerified, probed, firstError, known, box,
                    process, port, pauses, survived, faults>>
    OBVIOUS
  <2> HIDE DEF EndCycle
  <2> QED
    BY <2>1, <2>2, <2>3 DEF TypeOK
<1>3. \A c \in Check : Past(c)
  BY <1>1, CheckMembers DEF Past
<1>4. Balanced'
  BY <1>1, <1>3 DEF Balanced
<1>5. PausesReported'
  BY <1>1 DEF PausesReported
<1>6. OnSchedule'
  <2>1. pc' = "cleanup" => err' /\ cancelled'
    BY <1>1
  <2>2. next \in Nat /\ missed \in Nat /\ Before(next) \in Nat
    BY BeforeIs DEF TypeOK
  <2> QED
    BY <1>1, <2>1, <2>2 DEF OnSchedule, Observing, Setup, Before
<1>7. SetUp'
  BY <1>1 DEF SetUp, Setup, Observing
<1>8. ErrorsKept'
  <2>1. ~err /\ (pc' = "cleanup" <=> err') /\ (pc' = "cleanup" <=> cancelled)
    BY <1>1 DEF ErrorsKept, TypeOK
  <2> QED
    BY <1>1, <2>1 DEF ErrorsKept
<1>9. PortUndone'
  <2>1. Past("preview_delete")
    BY <1>3, CheckMembers, CheckPlaces
  <2> QED
    BY <1>1, <2>1 DEF PortUndone
<1> QED
  BY <1>2, <1>4, <1>5, <1>6, <1>7, <1>8, <1>9

\* The observation ends at its deadline.
LEMMA DeadlineKeeps ==
  ASSUME SoakInv, AtDeadline
  PROVE  SoakInv'
<1> USE DEF AtDeadline, counters, observed, platform, SoakInv
<1>1. pc = "deadline" /\ pc' \in {"cleanup", "catch_up"} /\ cycles' = cycles
  OBVIOUS
<1>2. /\ next \in Nat /\ missed \in Nat /\ cycles \in Nat /\ now \in Nat
      /\ next <= SoakDuration /\ next <= now
      /\ next % SoakInterval = 0 \/ next = SoakDuration
      /\ cycles <= Before(next) + 1 /\ Before(next) + 1 <= cycles + missed
  BY <1>1 DEF TypeOK, OnSchedule, Observing
<1>3. Unexecuted \in Nat /\ Before(next) + Unexecuted = Before(SoakDuration) /\ Before(next) \in Nat
  BY <1>2, UnexecutedIs, BeforeIs
<1>4. \/ pc' = "cleanup" /\ missed' = missed + Unexecuted /\ err' = Verdict /\ next' = next
      \/ /\ pc' = "catch_up" /\ missed' = missed /\ err' = err /\ now < SoakDuration
         /\ next' = next + SoakInterval
  OBVIOUS
<1>5. TypeOK'
  <2>1. err' \in BOOLEAN
    <3>1. Verdict \in BOOLEAN
      BY Zenon DEF Verdict
    <3> QED
      BY <1>4, <3>1 DEF TypeOK
  <2>2. next' \in Nat /\ missed' \in Nat
    BY <1>2, <1>3, <1>4, Parameters
  <2> QED
    BY <1>1, <2>1, <2>2 DEF TypeOK
<1>6. Balanced'
  BY <1>1 DEF Balanced
<1>7. PausesReported'
  BY DEF PausesReported
<1>8. OnSchedule'
  <2>1. CASE pc' = "cleanup"
    <3>1. Accounted'
      BY <1>1, <1>2, <1>3, <1>4, <2>1, ScheduledIs DEF Accounted, Scheduled
    <3> QED
      BY <2>1, <3>1 DEF OnSchedule, Observing, Setup
  <2>2. CASE pc' = "catch_up"
    <3>1. next % SoakInterval = 0
      BY <1>2, <1>4, <2>2, Parameters
    <3>2. /\ next' % SoakInterval = 0 /\ Before(next') = Before(next) + 1
          /\ next' < SoakDuration + SoakInterval
      BY <1>2, <1>4, <2>2, <3>1, OnGrid, Parameters
    <3>3. cycles' <= Before(next)' /\ Before(next)' <= cycles' + missed'
      BY <1>1, <1>2, <1>4, <2>2, <3>2 DEF Before
    <3> QED
      BY <2>2, <3>2, <3>3 DEF OnSchedule, Observing, Setup
  <2> QED
    BY <1>1, <2>1, <2>2
<1>9. SetUp'
  BY <1>1 DEF SetUp, Setup, Observing
<1>10. ErrorsKept'
  <2>1. ~err /\ known
    BY <1>1 DEF ErrorsKept, SetUp, Observing
  <2>2. \A c \in Check : /\ failures[c] > 0 => firstError
                         /\ skipped[c] > 0 => firstError
    BY <1>1, <2>1 DEF ErrorsKept
  <2>3. CASE pc' = "cleanup"
    <3>1. ~err' => firstError \/ (pauseVerified /\ ~(missed' > 0))
      BY <1>4, <2>3, Zenon DEF Verdict
    <3>2. missed' \in Nat
      BY <1>5 DEF TypeOK
    <3> QED
      BY <2>1, <2>2, <2>3, <3>1, <3>2 DEF ErrorsKept
  <2>4. CASE pc' = "catch_up"
    BY <1>4, <2>1, <2>2, <2>4 DEF ErrorsKept
  <2> QED
    BY <1>1, <2>3, <2>4
<1>11. PortUndone'
  BY <1>1 DEF PortUndone
<1> QED
  BY <1>5, <1>6, <1>7, <1>8, <1>9, <1>10, <1>11

\* What was due and not made is counted as missed.
LEMMA CatchUpStep ==
  ASSUME SoakInv, CatchUp
  PROVE  SoakInv'
<1> USE DEF counters, observed, platform, SoakInv
<1> DEFINE late == IF next < now THEN (now - next) \div SoakInterval + 1 ELSE 0
           due == next + late * SoakInterval
           then == IF due > SoakDuration THEN SoakDuration ELSE due
<1>1. /\ pc = "catch_up" /\ pc' = "wait" /\ missed' = missed + late /\ next' = then
      /\ UNCHANGED <<now, cycles, cancelled, step, outcome, counters, pause, observed,
                     firstError, err, known, platform, faults>>
  BY DEF CatchUp
<1>2. /\ next \in Nat /\ missed \in Nat /\ cycles \in Nat /\ now \in Nat
      /\ next % SoakInterval = 0 /\ next < SoakDuration + SoakInterval
      /\ cycles <= Before(next) /\ Before(next) <= cycles + missed
  BY <1>1 DEF TypeOK, OnSchedule
<1>3. late \in Nat
  <2>1. CASE next < now
    <3>1. now - next \in Nat
      BY <1>2, <2>1
    <3>2. (now - next) \div SoakInterval \in Nat
      BY <3>1, DivMod, Parameters
    <3> QED
      BY <2>1, <3>2
  <2> QED
    BY <2>1
<1> HIDE DEF late
<1>4. due \in Nat
  BY <1>2, <1>3, Parameters
<1> HIDE DEF due
<1>5. then \in Nat
  BY <1>4, Parameters
<1>6. /\ then <= SoakDuration /\ (then % SoakInterval = 0 \/ then = SoakDuration)
      /\ cycles <= Before(then) /\ Before(then) <= cycles + missed + late
  BY <1>2, <1>3, <1>4, <1>5, CatchUpKeeps DEF due
<1> HIDE DEF then
<1>7. TypeOK'
  BY <1>1, <1>2, <1>3, <1>5 DEF TypeOK
<1>8. Balanced' /\ PausesReported'
  BY <1>1 DEF Balanced, PausesReported
<1>9. OnSchedule'
  <2>1. Before(next)' = Before(then)
    BY <1>1 DEF Before
  <2>2. cycles' <= Before(next)' /\ Before(next)' <= cycles' + missed'
    BY <1>1, <1>2, <1>3, <1>6, <2>1
  <2>3. next' <= SoakDuration /\ (next' % SoakInterval = 0 \/ next' = SoakDuration)
    BY <1>1, <1>6
  <2> QED
    BY <1>1, <2>2, <2>3 DEF OnSchedule, Observing, Setup
<1>10. SetUp'
  BY <1>1 DEF SetUp, Setup, Observing
<1>11. ErrorsKept'
  BY <1>1 DEF ErrorsKept
<1>12. PortUndone'
  BY <1>1 DEF PortUndone
<1> QED
  BY <1>7, <1>8, <1>9, <1>10, <1>11, <1>12

\* The sandbox is deleted.
LEMMA CleanupKeeps ==
  ASSUME SoakInv, Cleanup
  PROVE  SoakInv'
<1> USE DEF SoakInv
<1>1. /\ pc = "cleanup" /\ pc' = "done"
      /\ UNCHANGED <<schedule, cancelled, step, outcome, counters, pause, observed, firstError,
                     known, process, port, pauses, survived, faults>>
      /\ box' = box \/ box' = "gone"
  BY DEF Cleanup
<1>2. /\ err => err'
      /\ ~err' => ~err /\ ~firstError /\ (known => box' = "gone")
  BY DEF Cleanup, TypeOK
<1>3. TypeOK'
  <2>1. err' \in BOOLEAN
    <3>1. (err \/ firstError) \in BOOLEAN
      BY Zenon
    <3> QED
      BY <3>1 DEF Cleanup
  <2> QED
    BY <1>1, <2>1 DEF TypeOK, schedule, counters, observed
<1>4. Balanced'
  BY <1>1 DEF Balanced, schedule, counters
<1>5. PausesReported'
  BY <1>1 DEF PausesReported, observed
<1>6. OnSchedule'
  BY <1>1, <1>2 DEF OnSchedule, schedule, Observing, Setup, Accounted
<1>7. SetUp'
  BY <1>1 DEF SetUp, Setup, Observing
<1>8. ErrorsKept'
  BY <1>1, <1>2 DEF ErrorsKept, counters, schedule, observed
<1>9. PortUndone'
  BY <1>1 DEF PortUndone
<1> QED
  BY <1>3, <1>4, <1>5, <1>6, <1>7, <1>8, <1>9

\* The platform pauses the sandbox, the context ends, time passes.
LEMMA EnvironmentKeeps ==
  ASSUME SoakInv, Cancel \/ IdlePause \/ Tick \/ UNCHANGED vars
  PROVE  SoakInv'
<1> USE DEF SoakInv, schedule, counters, observed, platform, vars
<1>1. /\ UNCHANGED <<pc, next, cycles, missed, step, outcome, counters, pause, observed,
                     firstError, err, known, process, port, survived, faults>>
      /\ cancelled' = cancelled \/ cancelled' = TRUE
      /\ now' = now \/ now' = now + 1
      /\ \/ UNCHANGED <<box, pauses>>
         \/ box = "active" /\ box' = "paused" /\ pauses' = pauses + 1
  BY DEF Cancel, IdlePause, Tick
<1>2. TypeOK'
  <2>1. cancelled' \in BOOLEAN
    BY <1>1, Zenon DEF TypeOK
  <2>2. now' \in Nat /\ pauses' \in Nat /\ box' \in {"none", "active", "paused", "gone"}
    BY <1>1 DEF TypeOK
  <2> QED
    BY <1>1, <2>1, <2>2 DEF TypeOK
<1>3. Balanced'
  BY <1>1 DEF Balanced, Past
<1>4. PausesReported'
  BY <1>1 DEF PausesReported, TypeOK
<1>5. OnSchedule'
  <2>1. now \in Nat /\ next \in Nat /\ now' >= now /\ (cancelled => cancelled')
    BY <1>1 DEF TypeOK
  <2> QED
    BY <1>1, <2>1 DEF OnSchedule, Before, Accounted
<1>6. SetUp'
  BY <1>1 DEF SetUp
<1>7. ErrorsKept'
  BY <1>1, <1>2 DEF ErrorsKept
<1>8. PortUndone'
  BY <1>1 DEF PortUndone, Past
<1> QED
  BY <1>2, <1>3, <1>4, <1>5, <1>6, <1>7, <1>8

-----------------------------------------------------------------------------
(* One check of a cycle *)

\* What a request can do on the platform, whether it is answered or not.
Touches(c) ==
  /\ box' = box \/ (c = "activate" /\ box' = "active")
  /\ process' \in {process, "replacement"}
  /\ port' = port \/ c \in {"preview_create", "preview_delete"}
  /\ pauses' = pauses
  /\ survived \in BOOLEAN /\ survived' \in BOOLEAN /\ (survived => survived')
  /\ box' = "active" /\ process' = "original" =>
       process = "original" /\ (box = "active" \/ survived' \/ box \notin {"active", "paused"})

\* A check changes only what it is about.
LEMMA EffectTouches ==
  ASSUME TypeOK, NEW c \in Check, Effect(c) \/ UNCHANGED platform
  PROVE  Touches(c)
<1>0. survived \in BOOLEAN
  BY DEF TypeOK
<1>1. CASE UNCHANGED platform
  BY <1>0, <1>1 DEF platform, Touches
<1>2. CASE c = "activate" /\ Resumes
  <2>1. /\ box' = "active" /\ UNCHANGED <<port, pauses>>
        /\ process' \in (IF box = "paused" THEN {process, "replacement"} ELSE {process})
        /\ survived' = (survived \/ (box = "paused" /\ process' = "original"))
    BY <1>2 DEF Resumes
  <2>2. survived' \in BOOLEAN /\ (survived => survived')
        /\ (box = "paused" /\ process' = "original" => survived')
    BY <2>1, Zenon
  <2>3. process' = "original" => process = "original"
    BY <2>1
  <2> QED
    BY <1>0, <1>2, <2>1, <2>2, <2>3 DEF Touches
<1>3. CASE c \in {"preview_create", "preview_delete"} /\ UNCHANGED <<box, process, pauses, survived>>
  BY <1>0, <1>3 DEF Touches
<1> QED
  BY <1>1, <1>2, <1>3 DEF Effect

\* What every check has in common: it is counted once, as attempted or as
\* skipped, and noted as succeeded, failed or skipped.
Counted(c) ==
  /\ UNCHANGED <<pc, schedule, cancelled, pause, err, known>> /\ step' = step + 1
  /\ Touches(c)
  /\ outcome' \in [Check -> {"none", "ok", "failed", "skipped"}]
  /\ \A d \in Check : d # c => outcome'[d] = outcome[d]
  /\ \A f \in {attempts', failures', skipped'} : f \in [Check -> Nat]
  /\ \A d \in Check : d # c => /\ attempts'[d] = attempts[d] /\ failures'[d] = failures[d]
                               /\ skipped'[d] = skipped[d]
  /\ firstError \in BOOLEAN /\ firstError' \in BOOLEAN /\ (firstError => firstError')
  /\ \/ /\ attempts'[c] = attempts[c] + 1 /\ skipped'[c] = skipped[c] /\ failures'[c] = failures[c]
        /\ outcome'[c] = "ok" /\ Works(c) /\ Effect(c) /\ Observes(c)
     \/ /\ attempts'[c] = attempts[c] + 1 /\ skipped'[c] = skipped[c]
        /\ failures'[c] = failures[c] + 1 /\ UNCHANGED observed
        /\ outcome'[c] = "failed" /\ firstError'
     \/ /\ attempts'[c] = attempts[c] /\ skipped'[c] = skipped[c] + 1 /\ failures'[c] = failures[c]
        /\ outcome'[c] = "skipped" /\ (cancelled \/ \E d \in Needs(c) : outcome[d] # "ok")
        /\ UNCHANGED <<observed, port>>
  /\ faults' \in Nat

\* A check is attempted or skipped, and counted once.
LEMMA CycleCounted ==
  ASSUME TypeOK, SoakCycle, NEW c \in Check, SoakAttempt(c) \/ SoakSkip(c)
  PROVE  Counted(c)
<1>s. UNCHANGED <<pc, schedule, cancelled, pause, err, known>> /\ step' = step + 1
  BY DEF SoakCycle
<1>t. /\ outcome \in [Check -> {"none", "ok", "failed", "skipped"}]
      /\ attempts \in [Check -> Nat] /\ failures \in [Check -> Nat] /\ skipped \in [Check -> Nat]
      /\ firstError \in BOOLEAN /\ faults \in Nat
  BY DEF TypeOK
<1> USE DEF Counts, Ends
<1>1. CASE SoakAttempt(c) /\ Succeeds(c)
  <2>1. Touches(c)
    BY <1>1, EffectTouches DEF Succeeds
  <2>2. /\ attempts' = [attempts EXCEPT ![c] = attempts[c] + 1]
        /\ outcome' = [outcome EXCEPT ![c] = "ok"]
        /\ UNCHANGED <<failures, firstError, faults, skipped>>
        /\ Works(c) /\ Effect(c) /\ Observes(c)
    BY <1>1 DEF SoakAttempt, Succeeds
  <2>3. /\ outcome' \in [Check -> {"none", "ok", "failed", "skipped"}]
        /\ attempts' \in [Check -> Nat]
        /\ outcome'[c] = "ok" /\ attempts'[c] = attempts[c] + 1
        /\ \A d \in Check : d # c => outcome'[d] = outcome[d] /\ attempts'[d] = attempts[d]
    BY <1>t, <2>2
  <2> QED
    BY <1>s, <1>t, <2>1, <2>2, <2>3 DEF Counted
<1>2. CASE SoakAttempt(c) /\ Fails(c)
  <2>1. Touches(c)
    BY <1>2, EffectTouches DEF Fails
  <2>2. /\ attempts' = [attempts EXCEPT ![c] = attempts[c] + 1]
        /\ failures' = [failures EXCEPT ![c] = failures[c] + 1]
        /\ outcome' = [outcome EXCEPT ![c] = "failed"]
        /\ firstError' = TRUE /\ UNCHANGED <<observed, skipped>>
        /\ faults' = faults \/ faults' = faults + 1
    BY <1>2 DEF SoakAttempt, Fails, Fault
  <2>3. /\ outcome' \in [Check -> {"none", "ok", "failed", "skipped"}]
        /\ attempts' \in [Check -> Nat] /\ failures' \in [Check -> Nat]
        /\ outcome'[c] = "failed" /\ attempts'[c] = attempts[c] + 1
        /\ failures'[c] = failures[c] + 1
        /\ \A d \in Check : d # c => /\ outcome'[d] = outcome[d] /\ attempts'[d] = attempts[d]
                                     /\ failures'[d] = failures[d]
    BY <1>t, <2>2
  <2> QED
    BY <1>s, <1>t, <2>1, <2>2, <2>3 DEF Counted
<1>3. CASE SoakSkip(c)
  <2>1. Touches(c)
    BY <1>3, EffectTouches DEF SoakSkip
  <2>2. /\ skipped' = [skipped EXCEPT ![c] = skipped[c] + 1]
        /\ outcome' = [outcome EXCEPT ![c] = "skipped"]
        /\ UNCHANGED <<attempts, failures, observed, firstError, port, faults>>
        /\ cancelled \/ \E d \in Needs(c) : outcome[d] # "ok"
    BY <1>3 DEF SoakSkip, platform
  <2>3. /\ outcome' \in [Check -> {"none", "ok", "failed", "skipped"}]
        /\ skipped' \in [Check -> Nat]
        /\ outcome'[c] = "skipped" /\ skipped'[c] = skipped[c] + 1
        /\ \A d \in Check : d # c => outcome'[d] = outcome[d] /\ skipped'[d] = skipped[d]
    BY <1>t, <2>2
  <2> QED
    BY <1>s, <1>t, <2>1, <2>2, <2>3 DEF Counted
<1> QED
  BY <1>s, <1>1, <1>2, <1>3 DEF SoakAttempt

\* What a successful check notes down is of its type.
LEMMA ObservesTyping ==
  ASSUME TypeOK, NEW c \in Check, Observes(c) \/ UNCHANGED observed
  PROVE  /\ idlePauses' \in Nat /\ seenActive' \in BOOLEAN /\ pauseVerified' \in BOOLEAN
         /\ probed' \in {"none", "original", "replacement"}
<1>0. /\ idlePauses \in Nat /\ seenActive \in BOOLEAN /\ pauseVerified \in BOOLEAN
      /\ probed \in {"none", "original", "replacement"}
      /\ process \in {"none", "original", "replacement"}
  BY DEF TypeOK
<1>1. CASE UNCHANGED observed
  BY <1>0, <1>1 DEF observed
<1>2. CASE Observes(c)
  <2>1. idlePauses' \in Nat /\ probed' \in {"none", "original", "replacement"}
    BY <1>0, <1>2 DEF Observes
  <2>2. seenActive' \in BOOLEAN /\ pauseVerified' \in BOOLEAN
    BY <1>2, Zenon DEF Observes
  <2> QED
    BY <2>1, <2>2
<1> QED
  BY <1>1, <1>2

\* Any check of a cycle.
LEMMA CycleKeeps ==
  ASSUME SoakInv, SoakCycle
  PROVE  SoakInv'
<1> USE DEF SoakInv
<1>0. PICK c \in Check : c = Checks[step] /\ (SoakAttempt(c) \/ SoakSkip(c))
  BY DEF SoakCycle
<1>1. /\ pc = "cycle" /\ step \in 1..11 /\ step' = step + 1
      /\ UNCHANGED <<pc, schedule, cancelled, pause, err, known>>
  BY CheckPlaces DEF SoakCycle
<1>3. \A d \in Check : (Past(d)' <=> Past(d) \/ d = c)
  BY <1>0, <1>1 DEF Past
<1>4. ~Past(c)
  BY <1>0, <1>1, CheckMembers DEF Past
<1>5. Needs(c) \subseteq Check /\ \A d \in Needs(c) : \E i \in 1..(step - 1) : Checks[i] = d
  BY <1>0, <1>1, NeedsBefore
<1>6. \A i \in 1..(step - 1) : Checks[i] \in Check /\ Checks[i] # c
  BY <1>0, <1>1, <1>4, CheckMembers DEF Past
<1>7. c = "preview_delete" => Needs(c) = {}
  BY DEF Needs, NeedsToDelete
<1>8. Counted(c)
  <2>1. TypeOK
    OBVIOUS
  <2> HIDE DEF SoakInv
  <2> QED
    BY <1>0, <2>1, CycleCounted
<1>9. TypeOK'
  <2>1. /\ idlePauses' \in Nat /\ seenActive' \in BOOLEAN /\ pauseVerified' \in BOOLEAN
        /\ probed' \in {"none", "original", "replacement"}
    BY <1>8, ObservesTyping DEF Counted
  <2>2. /\ step' \in 1..(Len(Checks) + 1)
        /\ box' \in {"none", "active", "paused", "gone"}
        /\ process' \in {"none", "original", "replacement"} /\ pauses' \in Nat
    BY <1>1, <1>8, CheckPlaces DEF Counted, Touches, TypeOK
  <2>3. port' \in BOOLEAN
    <3>1. port' \in {port, TRUE, FALSE}
      BY <1>0 DEF SoakAttempt, SoakSkip, Succeeds, Fails, Effect, Resumes, platform
    <3>2. port \in BOOLEAN
      BY DEF TypeOK
    <3> QED
      BY <3>1, <3>2, Zenon
  <2>4. /\ {attempts', failures', skipped'} \subseteq [Check -> Nat]
        /\ outcome' \in [Check -> {"none", "ok", "failed", "skipped"}]
        /\ firstError' \in BOOLEAN /\ survived' \in BOOLEAN /\ faults' \in Nat
    BY <1>8 DEF Counted, Touches
  <2> QED
    BY <1>1, <2>1, <2>2, <2>3, <2>4 DEF TypeOK, schedule
<1>10. Balanced'
  <2>1. ASSUME NEW d \in Check
        PROVE  /\ attempts'[d] + skipped'[d] = IF Past(d)' THEN cycles + 1 ELSE cycles
               /\ failures'[d] <= attempts'[d]
    <3>1. /\ attempts[d] \in Nat /\ skipped[d] \in Nat /\ failures[d] \in Nat /\ cycles \in Nat
          /\ attempts[d] + skipped[d] = (IF Past(d) THEN cycles + 1 ELSE cycles)
          /\ failures[d] <= attempts[d]
      BY <1>1 DEF TypeOK, Balanced
    <3>2. CASE d = c
      BY <1>3, <1>4, <1>8, <3>1, <3>2 DEF Counted
    <3>3. CASE d # c
      BY <1>3, <1>8, <3>1, <3>3 DEF Counted
    <3> QED
      BY <3>2, <3>3
  <2> QED
    BY <1>1, <2>1 DEF Balanced, schedule
<1>11. PausesReported'
  <2>1. /\ Touches(c) /\ pause' = pause
        /\ UNCHANGED observed \/ (Works(c) /\ Effect(c) /\ Observes(c))
        /\ box \in {"active", "paused"}
    BY <1>1, <1>8 DEF Counted, SetUp, Observing
  <2>2. pause' = "ok" /\ process' = "original" /\ box' = "active" => survived'
    BY <2>1 DEF PausesReported, Touches
  <2>3. CASE UNCHANGED observed
    BY <2>1, <2>2, <2>3 DEF PausesReported, Touches, observed
  <2>4. CASE Works(c) /\ Effect(c) /\ Observes(c)
    <3>0. idlePauses \in Nat /\ pauses \in Nat
      BY DEF TypeOK
    <3>1. /\ idlePauses' = IF c = "status" /\ box = "paused" /\ seenActive THEN idlePauses + 1
                           ELSE idlePauses
          /\ probed' = IF c = "short_task" THEN process ELSE probed
      BY <2>4 DEF Observes
    <3>2. seenActive' => \/ seenActive /\ ~(c = "status" /\ box = "paused" /\ seenActive)
                         \/ c = "activate"
      BY <2>4, Zenon DEF Observes
    <3>3. pauseVerified' => pauseVerified \/ (c = "process_identity" /\ pause = "ok")
      BY <2>4, Zenon DEF Observes
    <3>4. /\ c = "short_task" => box = "active"
          /\ c = "process_identity" => probed = "original"
          /\ c = "activate" => box' = "active"
      BY <2>4 DEF Works, Effect, Resumes
    <3>5. idlePauses' <= pauses'
      BY <2>1, <3>0, <3>1 DEF PausesReported, Touches
    <3>6. seenActive' /\ box' = "paused" => idlePauses' < pauses'
      BY <2>1, <3>0, <3>1, <3>2, <3>4 DEF PausesReported, Touches
    <3>7. pause' = "ok" /\ probed' = "original" => survived'
      BY <2>1, <3>1, <3>4 DEF PausesReported, Touches
    <3>8. pauseVerified' => survived'
      BY <2>1, <3>3, <3>4 DEF PausesReported, Touches
    <3> QED
      BY <2>2, <3>5, <3>6, <3>7, <3>8 DEF PausesReported
  <2> QED
    BY <2>1, <2>3, <2>4
<1>12. OnSchedule'
  BY <1>1 DEF OnSchedule, Observing, Setup, Before, schedule
<1>13. SetUp'
  BY <1>1, <1>8 DEF SetUp, Setup, Observing, Counted, Touches
<1>14. ErrorsKept'
  <2>1. ~err /\ ~err'
    BY <1>1 DEF ErrorsKept
  <2>2. ~firstError' /\ ~cancelled' => \A i \in 1..(step - 1) : outcome[Checks[i]] = "ok"
    BY <1>1, <1>8 DEF ErrorsKept, Counted
  <2>3. ~firstError' /\ ~cancelled' => outcome'[c] = "ok"
    BY <1>1, <1>5, <1>8, <2>2 DEF Counted
  <2>4. ~firstError' /\ ~cancelled' => \A i \in 1..(step' - 1) : outcome'[Checks[i]] = "ok"
    <3>1. \A i \in 1..(step' - 1) : i \in 1..(step - 1) \/ i = step
      BY <1>1
    <3> QED
      BY <1>0, <1>6, <1>8, <2>2, <2>3, <3>1 DEF Counted
  <2>5. ASSUME NEW d \in Check
        PROVE  /\ failures'[d] > 0 => firstError'
               /\ skipped'[d] > 0 => firstError' \/ cancelled'
    <3>0. failures[d] \in Nat /\ skipped[d] \in Nat
      BY DEF TypeOK
    <3>1. /\ failures[d] > 0 => firstError
          /\ skipped[d] > 0 => firstError \/ cancelled
      BY <2>1 DEF ErrorsKept
    <3>2. CASE d = c
      BY <1>1, <1>8, <2>3, <3>0, <3>1, <3>2 DEF Counted
    <3>3. CASE d # c
      BY <1>1, <1>8, <3>1, <3>3 DEF Counted
    <3> QED
      BY <3>2, <3>3
  <2> QED
    BY <1>1, <2>1, <2>4, <2>5 DEF ErrorsKept
<1>15. PortUndone'
  <2>1. SUFFICES ASSUME Past("preview_delete")', port', ~cancelled
                 PROVE  outcome'["preview_delete"] = "failed"
    BY <1>1 DEF PortUndone
  <2>2. "preview_delete" \in Check /\ "preview_create" \in Check
    BY CheckMembers, CheckPlaces
  <2>3. CASE c = "preview_delete"
    <3>1. Effect(c) => ~port'
      BY <2>3 DEF Effect, platform
    <3> QED
      BY <1>7, <1>8, <2>1, <2>3, <3>1 DEF Counted
  <2>4. CASE c # "preview_delete"
    <3>1. Past("preview_delete")
      BY <1>3, <2>1, <2>2, <2>4
    <3>2. c # "preview_create"
      <4>1. PICK i \in 1..(step - 1) : Checks[i] = "preview_delete"
        BY <3>1 DEF Past
      <4>2. i = 8
        BY <1>1, <4>1, CheckMembers, CheckPlaces
      <4>3. step # 4
        BY <1>1, <4>2
      <4> QED
        BY <1>0, <1>1, <4>3, CheckMembers, CheckPlaces
    <3>3. port' = port /\ outcome'["preview_delete"] = outcome["preview_delete"]
      BY <1>8, <2>2, <2>4, <3>2 DEF Counted, Touches
    <3> QED
      BY <1>1, <2>1, <3>1, <3>3 DEF PortUndone
  <2> QED
    BY <2>3, <2>4
<1> QED
  BY <1>9, <1>10, <1>11, <1>12, <1>13, <1>14, <1>15

-----------------------------------------------------------------------------
(* The invariant and the properties *)

\* Nothing has been counted.
LEMMA InvariantInit == Init => SoakInv
<1> SUFFICES ASSUME Init
             PROVE  SoakInv
  OBVIOUS
<1> USE DEF Init
<1>1. TypeOK
  <2>1. step \in 1..(Len(Checks) + 1) /\ pc \in Setup
    BY CheckPlaces DEF Setup
  <2>2. /\ outcome \in [Check -> {"none", "ok", "failed", "skipped"}]
        /\ {attempts, failures, skipped} \subseteq [Check -> Nat]
    BY DEF Nothing, Zero
  <2>3. /\ {now, next, missed} \subseteq Nat /\ cycles \in Nat
        /\ {idlePauses, pauses, faults} \subseteq Nat
        /\ {process, probed} \subseteq {"none", "original", "replacement"}
        /\ pause \in {"none", "ok", "failed", "skipped"}
        /\ box \in {"none", "active", "paused", "gone"}
    OBVIOUS
  <2>4. {cancelled, seenActive, pauseVerified, firstError, err, known, port, survived}
          \subseteq BOOLEAN
    BY Zenon
  <2> QED
    BY <2>1, <2>2, <2>3, <2>4 DEF TypeOK
<1>2. Balanced
  BY DEF Balanced, Zero
<1>3. PausesReported
  BY DEF PausesReported
<1>4. OnSchedule
  BY DEF OnSchedule, Setup, Observing
<1>5. SetUp
  BY DEF SetUp, Setup, Observing
<1>6. ErrorsKept
  BY DEF ErrorsKept, Zero
<1>7. PortUndone
  BY DEF PortUndone
<1> QED
  BY <1>1, <1>2, <1>3, <1>4, <1>5, <1>6, <1>7 DEF SoakInv

\* SoakInv: at any time the soak summary adds up and is true of the sandbox, and
\* the checks made or missed are those that the schedule has so far.
THEOREM SoakInvariant == Spec => []SoakInv
<1>1. SoakInv /\ [Next]_vars => SoakInv'
  BY SetupKeeps, WaitKeeps, CycleKeeps, EndCycleKeeps, DeadlineKeeps, CatchUpStep,
     CleanupKeeps,
     EnvironmentKeeps DEF Next, RunSoak
<1> QED
  BY <1>1, InvariantInit, PTL DEF Spec

\* ChecksAccounted: a run that observed until its deadline made every check of its
\* schedule or counted it as missed, and made none that was not scheduled.
THEOREM ChecksAccountedHolds == Spec => []ChecksAccounted
<1>1. SoakInv => ChecksAccounted
  BY DEF SoakInv, OnSchedule, ChecksAccounted
<1> QED
  BY <1>1, SoakInvariant, PTL

\* SuccessMeansObserved: a run without an error made every scheduled check in
\* full, saw the process outlive a pause, and removed the sandbox.
THEOREM SuccessMeansObservedHolds == Spec => []SuccessMeansObserved
<1>1. SoakInv => SuccessMeansObserved
  <2> SUFFICES ASSUME SoakInv, pc = "done", ~err
               PROVE  /\ survived /\ box = "gone"
                      /\ \A c \in Check : attempts[c] = Scheduled /\ failures[c] = 0
    BY DEF SuccessMeansObserved
  <2> USE DEF SoakInv
  <2>1. ~firstError /\ box = "gone" /\ pauseVerified /\ missed = 0 /\ Accounted
    BY DEF ErrorsKept, OnSchedule
  <2>2. cycles = Scheduled
    BY <2>1, ScheduledIs DEF Accounted, TypeOK
  <2>3. ASSUME NEW c \in Check
        PROVE  attempts[c] = Scheduled /\ failures[c] = 0
    <3>1. attempts[c] \in Nat /\ failures[c] \in Nat /\ skipped[c] \in Nat
      BY DEF TypeOK
    <3>2. ~(failures[c] > 0) /\ ~(skipped[c] > 0)
      BY <2>1 DEF ErrorsKept
    <3>3. attempts[c] + skipped[c] = cycles
      BY DEF Balanced
    <3> QED
      BY <2>2, <3>1, <3>2, <3>3
  <2> QED
    BY <2>1, <2>3 DEF PausesReported
<1> QED
  BY <1>1, SoakInvariant, PTL

\* PortDeleted: between cycles the second port is published only where its
\* deletion failed or the run was cancelled.
THEOREM PortDeletedHolds == Spec => []PortDeleted
<1>1. SoakInv => PortDeleted
  BY DEF SoakInv, PortUndone, PortDeleted
<1> QED
  BY <1>1, SoakInvariant, PTL
=============================================================================
