-------------------------- MODULE LoadGuardProofs --------------------------
(***************************************************************************)
(* Proofs about the admission of load tests, for any numbers of load tests, *)
(* canaries and targets, any configurations and any timeouts.               *)
(***************************************************************************)
EXTENDS LoadGuard, TLAPS

-----------------------------------------------------------------------------
(* Sequences without repetition *)

\* A key put in front of the others is one more.
LEMMA PushElement ==
  ASSUME NEW S, NEW s \in Seq(S), NEW k \in S
  PROVE  /\ <<k>> \o s \in Seq(S) /\ <<k>> \o s # <<>>
         /\ Head(<<k>> \o s) = k /\ Tail(<<k>> \o s) = s
         /\ Elements(<<k>> \o s) = {k} \cup Elements(s)
         /\ Distinct(s) /\ k \notin Elements(s) => Distinct(<<k>> \o s)
<1> DEFINE t == <<k>> \o s
<1>1. /\ t \in Seq(S) /\ t # <<>> /\ Head(t) = k /\ DOMAIN t = 1..(Len(s) + 1)
      /\ Len(s) \in Nat /\ DOMAIN s = 1..Len(s)
      /\ t[1] = k /\ \A i \in DOMAIN s : t[i + 1] = s[i]
  OBVIOUS
<1>2. \A i \in DOMAIN t : i = 1 \/ (i - 1 \in DOMAIN s /\ t[i] = s[i - 1])
  BY <1>1
<1>3. Elements(t) = {k} \cup Elements(s)
  <2>1. Elements(t) \subseteq {k} \cup Elements(s)
    BY <1>1, <1>2 DEF Elements
  <2>2. k \in Elements(t)
    BY <1>1 DEF Elements
  <2>3. \A i \in DOMAIN s : i + 1 \in DOMAIN t
    BY <1>1
  <2>4. Elements(s) \subseteq Elements(t)
    BY <1>1, <2>3 DEF Elements
  <2> QED
    BY <2>1, <2>2, <2>4
<1>4. ASSUME Distinct(s), k \notin Elements(s)
      PROVE  Distinct(t)
  BY <1>1, <1>2, <1>4 DEF Distinct, Elements
<1>5. Tail(t) = s
  OBVIOUS
<1> QED
  BY <1>1, <1>3, <1>4, <1>5

\* What is taken from the front is gone from the rest.
LEMMA PopElement ==
  ASSUME NEW S, NEW s \in Seq(S), s # <<>>
  PROVE  /\ Tail(s) \in Seq(S) /\ Head(s) \in S
         /\ Elements(s) = {Head(s)} \cup Elements(Tail(s))
         /\ Distinct(s) => Distinct(Tail(s)) /\ Head(s) \notin Elements(Tail(s))
<1> DEFINE t == Tail(s)
<1>1. /\ t \in Seq(S) /\ Head(s) \in S /\ Head(s) = s[1] /\ Len(s) \in Nat \ {0}
      /\ DOMAIN s = 1..Len(s) /\ DOMAIN t = 1..(Len(s) - 1)
      /\ \A i \in DOMAIN t : i + 1 \in DOMAIN s /\ t[i] = s[i + 1]
  OBVIOUS
<1> HIDE DEF t
<1>2. \A i \in DOMAIN s : i = 1 \/ (i - 1 \in DOMAIN t /\ t[i - 1] = s[i])
  BY <1>1
<1>3. Elements(s) = {Head(s)} \cup Elements(t)
  <2>1. Elements(s) \subseteq {Head(s)} \cup Elements(t)
    BY <1>1, <1>2 DEF Elements
  <2>2. Head(s) \in Elements(s) /\ Elements(t) \subseteq Elements(s)
    BY <1>1 DEF Elements
  <2> QED
    BY <2>1, <2>2
<1>4. ASSUME Distinct(s)
      PROVE  Distinct(t) /\ Head(s) \notin Elements(t)
  BY <1>1, <1>4 DEF Distinct, Elements
<1> QED
  BY <1>1, <1>3, <1>4 DEF t

\* No keys are no element, and none twice.
LEMMA EmptyElements == Elements(<<>>) = {} /\ Distinct(<<>>)
  BY DEF Elements, Distinct

\* One key is one element.
LEMMA SingleElement ==
  ASSUME NEW k
  PROVE  /\ <<k>> \o <<>> # <<>> /\ Elements(<<k>> \o <<>>) = {k}
         /\ Distinct(<<k>> \o <<>>)
<1>1. <<k>> \o <<>> = <<k>> /\ DOMAIN <<k>> = {1} /\ <<k>>[1] = k
  OBVIOUS
<1> QED
  BY <1>1 DEF Elements, Distinct

-----------------------------------------------------------------------------
(* Configurations and times *)

\* What Accepted and the deployment say of the configuration in force.
LEMMA ConfigFacts ==
  ASSUME TypeOK
  PROVE  /\ cfg.scheduled \in BOOLEAN /\ cfg.globalLock \in BOOLEAN
         /\ cfg.benchmarkGuard \in BOOLEAN /\ cfg.external \in BOOLEAN
         /\ {cfg.runTimeout, cfg.deleteTimeout, cfg.lockTTL, cfg.windowStart, cfg.windowEnd}
              \subseteq Nat
         /\ BudgetOf(cfg) = cfg.runTimeout + cfg.deleteTimeout + Grace
         /\ BudgetOf(cfg) \in Nat /\ cfg.runTimeout > 0 /\ cfg.deleteTimeout > 0
         /\ Setup <= cfg.runTimeout
         /\ cfg.windowEnd <= Day /\ MaxLockTTL + cfg.windowEnd <= Day + cfg.windowStart
         /\ cfg.backend # "none" => BudgetOf(cfg) <= cfg.lockTTL /\ cfg.lockTTL <= MaxLockTTL
         /\ cfg.scheduled => cfg.backend = "gcs"
         /\ cfg.benchmarkGuard \/ cfg.globalLock => cfg.backend = "gcs"
<1>1. cfg \in Configs /\ cfg \in Config /\ Accepted(cfg) /\ Grace \in Nat /\ MaxLockTTL \in Nat
  BY LoadGuardAssumption DEF TypeOK
<1>2. cfg.windowEnd <= Day /\ Setup <= cfg.runTimeout
      /\ MaxLockTTL + cfg.windowEnd <= Day + cfg.windowStart
  BY <1>1, LoadGuardAssumption
<1> QED
  BY <1>1, <1>2 DEF Accepted, Config, BudgetOf

\* The constants are times, in the order that the deployment gives them.
LEMMA TimeFacts ==
  /\ MaxLockTTL \in Nat /\ Grace \in Nat /\ Preflight \in Nat /\ ReleaseTimeout \in Nat
  /\ Setup \in Nat /\ BenchTTL \in Nat /\ BenchBound \in Nat /\ Day \in Nat
  /\ MaxTime \in Nat /\ MaxManualTime \in Nat
  /\ MaxManualTime <= MaxTime /\ Preflight + Setup + ReleaseTimeout < Grace
  /\ BenchBound < BenchTTL /\ Day > 0 /\ Never \in Nat
  BY LoadGuardAssumption DEF Never

\* The day of a time is the one whose span it is in.
LEMMA DayFacts ==
  ASSUME TypeOK, NEW t \in Nat
  PROVE  /\ DayOf(t) \in Nat /\ DayOf(t) * Day \in Nat
         /\ DayOf(t) * Day <= t /\ t < DayOf(t) * Day + Day
         /\ StartOf(t) = DayOf(t) * Day + cfg.windowStart
         /\ EndOf(t) = DayOf(t) * Day + cfg.windowEnd
         /\ StartOf(t) \in Nat /\ EndOf(t) \in Nat
<1>1. Day \in Nat /\ Day > 0
  BY LoadGuardAssumption
<1>2. t \div Day \in Nat /\ t = Day * (t \div Day) + (t % Day) /\ t % Day \in 0..(Day - 1)
  BY <1>1
<1>3. (t \div Day) * Day = Day * (t \div Day) /\ (t \div Day) * Day \in Nat
  BY <1>1, <1>2
<1> QED
  BY <1>1, <1>2, <1>3, ConfigFacts DEF DayOf, StartOf, EndOf

\* A day more is a day later.
LEMMA LaterDay ==
  ASSUME NEW m \in Nat, NEW n \in Nat, m < n, NEW d \in Nat
  PROVE  m * d + d <= n * d
<1>1. PICK r \in Nat : n = m + 1 + r
  <2>1. n - m - 1 \in Nat /\ n = m + 1 + (n - m - 1)
    OBVIOUS
  <2> QED
    BY <2>1
<1>2. n * d = m * d + d + r * d
  BY <1>1
<1>3. r * d \in Nat /\ m * d \in Nat
  OBVIOUS
<1> QED
  BY <1>2, <1>3

-----------------------------------------------------------------------------
(* Locks *)

\* The locks of a load test and of a canary exist, and are no daily marker.
LEMMA LocksOfLoad ==
  ASSUME TypeOK, NEW j \in Load, NEW i \in Load
  PROVE  /\ Locks(j) \subseteq Lock /\ Marker(j) \in Lock /\ Marker(j) \notin File
         /\ Marker(i) \notin Locks(j)
         /\ Marker(i) = Marker(j) <=> TargetOf[i] = TargetOf[j]
<1>1. Keys(j) \subseteq Key /\ Marker(j) \in Key
  <2>1. TargetOf[j] \in Target /\ Benchmark \subseteq Kind
    BY DEF Target, Job, Benchmark
  <2>2. \A l \in Kind \cup {"loadtest", "loadtest-daily"} : <<TargetOf[j], l>> \in Key
    BY <2>1 DEF Key
  <2>3. Global \in Key
    BY DEF Key
  <2> QED
    BY <2>1, <2>2, <2>3 DEF Keys, Marker
<1>2. /\ <<"file", "loadtest">> \in File
      /\ \A k \in Keys(j) : LockOf(j, k) \in {k, <<"file", "loadtest">>}
  BY LoadGuardAssumption DEF File, LockOf
<1>3. Marker(j) \notin File /\ Marker(i) # <<"file", "loadtest">>
  BY LoadGuardAssumption DEF Marker, File
<1>4. Marker(i) \notin Keys(j)
  BY LoadGuardAssumption DEF Keys, Marker, Global, Benchmark
<1> QED
  BY <1>1, <1>2, <1>3, <1>4 DEF Locks, Lock, Marker

\* A canary's lease is no daily marker.
LEMMA LocksOfBench ==
  ASSUME TypeOK, NEW b \in Bench
  PROVE  BenchLock(b) \in Lock /\ \A i \in Load : Marker(i) # BenchLock(b)
<1>1. KindOf[b] \in Kind /\ KindOf[b] # "loadtest-daily"
  BY LoadGuardAssumption
<1>2. BenchKey(b) \in Key /\ BenchLock(b) \in {BenchKey(b), <<"file", TargetOf[b]>>}
  BY <1>1, LoadGuardAssumption DEF BenchLock, LockOf, BenchKey, Key, Target, Job
<1>3. <<"file", TargetOf[b]>> \in File
  BY DEF File, Target, Job
<1>4. \A i \in Load : Marker(i) # BenchKey(b) /\ Marker(i) # <<"file", TargetOf[b]>>
  BY <1>1, LoadGuardAssumption DEF Marker, BenchKey
<1> QED
  BY <1>2, <1>3, <1>4 DEF Lock

State == {"idle"} \cup Preflighting \cup Working \cup Releasing \cup Over
Leases == [Lock -> [holder : Job \cup {NoHolder}, until : Nat]]

\* A step of job j keeps the time and the configuration, and the other jobs ...
Frame(j) ==
  /\ now' = now /\ cfg' = cfg
  /\ \A i \in Job \ {j} : pc'[i] = pc[i] /\ since'[i] = since[i] /\ leases'[i] = leases[i]
                          /\ lost'[i] = lost[i]
  /\ \A i \in Load \ {j} : windowEnd'[i] = windowEnd[i] /\ outcome'[i] = outcome[i]

\* ... takes only leases nobody has, and gives back only its own.
LeaseStep(j) ==
  \A k \in Lock : \/ lease'[k] = lease[k]
                  \/ Available(k) /\ lease'[k].holder = j
                  \/ lease[k].holder = j /\ lease'[k] = Free

\* A lease that is granted was free or expired, and only it changes.
LEMMA GrantStep ==
  ASSUME TypeOK, NEW j \in Job, NEW k \in Lock, NEW ends \in SUBSET Nat,
         Available(k), Grants(j, k, ends)
  PROVE  /\ lease' \in Leases /\ LeaseStep(j)
         /\ \A l \in Lock \ {k} : lease'[l] = lease[l]
         /\ lease'[k].holder = j
         /\ lease'[k].until \in IF k \in File THEN {Never} ELSE ends
<1>1. PICK end \in IF k \in File THEN {Never} ELSE ends :
        lease' = [lease EXCEPT ![k] = [holder |-> j, until |-> end]]
  BY DEF Grants
<1>2. end \in Nat
  BY <1>1, TimeFacts
<1>3. lease \in Leases
  BY DEF TypeOK, Leases
<1>4. [holder |-> j, until |-> end] \in [holder : Job \cup {NoHolder}, until : Nat]
  BY <1>2
<1>5. lease' \in Leases
  BY <1>1, <1>3, <1>4 DEF Leases
<1>6. /\ \A l \in Lock \ {k} : lease'[l] = lease[l]
      /\ lease'[k] = [holder |-> j, until |-> end]
  BY <1>1, <1>3 DEF Leases
<1>7. lease'[k].holder = j /\ lease'[k].until = end
  BY <1>6
<1> QED
  BY <1>1, <1>5, <1>6, <1>7 DEF LeaseStep

\* A lease is removed only if it is the job's, and only it changes.
LEMMA FreeStep ==
  ASSUME TypeOK, NEW j \in Job, NEW k \in Lock, Removes(j, k)
  PROVE  /\ lease' \in Leases /\ LeaseStep(j)
         /\ \A l \in Lock \ {k} : lease'[l] = lease[l]
         /\ lease[k].holder = j => lease'[k] = Free
<1>1. lease \in Leases /\ Free \in [holder : Job \cup {NoHolder}, until : Nat]
  BY DEF TypeOK, Leases, Free
<1> QED
  BY <1>1 DEF Removes, LeaseStep, Leases

-----------------------------------------------------------------------------
(* Types, and what a step leaves alone *)

\* A step of job j moves it, and no other job, to another phase.
Moves(j) == /\ pc' \in [Job -> State] /\ since' \in [Job -> Time]
            /\ \A i \in Job \ {j} : pc'[i] = pc[i] /\ since'[i] = since[i]

Judges(j) == /\ outcome' \in [Load -> {"none", "admitted"} \cup Reason]
             /\ \A i \in Load \ {j} : outcome'[i] = outcome[i]

Keeps(j) == /\ DOMAIN leases' = Job /\ \A i \in Job : leases'[i] \in Seq(Lock)
            /\ \A i \in Job \ {j} : leases'[i] = leases[i]

Loses(j) == lost' \in [Job -> BOOLEAN] /\ \A i \in Job \ {j} : lost'[i] = lost[i]

\* The ways of getting on move nobody else.
LEMMA Movements ==
  ASSUME TypeOK, NEW j \in Job, NEW l \in State
  PROVE  /\ Goto(j, l) /\ since' = since => Moves(j) /\ pc'[j] = l /\ since'[j] = since[j]
         /\ Enter(j, l) => Moves(j) /\ pc'[j] = l /\ since'[j] = now
         /\ Exit(j, l) => Moves(j) /\ pc'[j] = l /\ since'[j] = 0
<1>1. pc \in [Job -> State] /\ since \in [Job -> Time] /\ now \in Time /\ 0 \in Time
  BY TimeFacts DEF TypeOK, State, Time
<1> QED
  BY <1>1 DEF Goto, Enter, Exit, Moves

\* What a job leaves alone is as it was for every job.
LEMMA Stays ==
  ASSUME TypeOK, NEW j \in Job
  PROVE  /\ UNCHANGED <<pc, since>> => Moves(j) /\ pc'[j] = pc[j] /\ since'[j] = since[j]
         /\ UNCHANGED leases => Keeps(j) /\ leases'[j] = leases[j]
         /\ UNCHANGED lost => Loses(j) /\ lost'[j] = lost[j]
         /\ UNCHANGED outcome => Judges(j)
         /\ UNCHANGED lease => lease' \in Leases /\ LeaseStep(j)
         /\ lost' = [lost EXCEPT ![j] = TRUE] => Loses(j) /\ lost'[j] = TRUE
  BY DEF TypeOK, State, Moves, Keeps, Loses, Judges, Leases, LeaseStep

\* A verdict is the job's own.
LEMMA Judgements ==
  ASSUME TypeOK, NEW j \in Load, NEW why \in {"admitted"} \cup Reason,
         outcome' = [outcome EXCEPT ![j] = why]
  PROVE  Judges(j) /\ outcome'[j] = why
  BY DEF TypeOK, Judges

\* A blocked test goes on to release what it has.
LEMMA Blocks ==
  ASSUME TypeOK, NEW j \in Load, NEW why \in Reason, Block(j, why)
  PROVE  /\ Moves(j) /\ Judges(j) /\ outcome'[j] = why
         /\ IF leases[j] = <<>> THEN pc'[j] = "blocked" /\ since'[j] = 0
                                ELSE pc'[j] = "blocked_release" /\ since'[j] = now
<1>1. j \in Job /\ {"blocked", "blocked_release"} \subseteq State
  BY DEF Job, State, Over, Releasing
<1>2. Judges(j) /\ outcome'[j] = why
  BY Judgements DEF Block
<1> QED
  BY <1>1, <1>2, Movements DEF Block

\* A key that is remembered is the job's own.
LEMMA Pushes ==
  ASSUME TypeOK, NEW j \in Job, NEW k \in Lock, leases' = [leases EXCEPT ![j] = <<k>> \o @]
  PROVE  Keeps(j) /\ leases'[j] = <<k>> \o leases[j]
<1>1. leases[j] \in Seq(Lock) /\ DOMAIN leases = Job
  BY DEF TypeOK
<1>2. leases'[j] = <<k>> \o leases[j] /\ DOMAIN leases' = Job
      /\ \A i \in Job \ {j} : leases'[i] = leases[i]
  BY <1>1
<1> QED
  BY <1>1, <1>2, PushElement DEF Keeps, TypeOK

\* A key that is forgotten is the job's own.
LEMMA Pops ==
  ASSUME TypeOK, NEW j \in Job, leases[j] # <<>>, leases' = [leases EXCEPT ![j] = Tail(@)]
  PROVE  Keeps(j) /\ leases'[j] = Tail(leases[j])
<1>1. leases[j] \in Seq(Lock) /\ DOMAIN leases = Job
  BY DEF TypeOK
<1>2. leases'[j] = Tail(leases[j]) /\ DOMAIN leases' = Job
      /\ \A i \in Job \ {j} : leases'[i] = leases[i]
  BY <1>1
<1> QED
  BY <1>1, <1>2, PopElement DEF Keeps, TypeOK

\* A step made of such changes is typed, and leaves the other jobs alone.
LEMMA Changes ==
  ASSUME TypeOK, NEW j \in Job, Moves(j), Keeps(j), Loses(j), Judges(j),
         lease' \in Leases, UNCHANGED <<now, cfg>>,
         windowEnd' \in [Load -> Nat], \A i \in Load \ {j} : windowEnd'[i] = windowEnd[i]
  PROVE  TypeOK' /\ Frame(j)
<1>1. TypeOK'
  BY DEF TypeOK, Accepted, BudgetOf, Moves, Keeps, Loses, Judges, State, Leases
<1>2. Frame(j)
  BY DEF Frame, Moves, Keeps, Loses, Judges
<1> QED
  BY <1>1, <1>2

-----------------------------------------------------------------------------
(* Acquiring and releasing *)

\* What becomes of a job's lease k, and of its memory, when it acquires it ...
LEMMA Acquisition ==
  ASSUME TypeOK, NEW j \in Job, NEW k \in Lock, NEW ends \in SUBSET Nat, Acquires(j, k, ends)
  PROVE  /\ Keeps(j) /\ leases'[j] = <<k>> \o leases[j]
         /\ lease' \in Leases /\ LeaseStep(j)
         /\ \A l \in Lock \ {k} : lease'[l] = lease[l]
         /\ Available(k) /\ lease'[k].holder = j
         /\ lease'[k].until \in IF k \in File THEN {Never} ELSE ends
<1>1. Available(k) /\ Grants(j, k, ends) /\ leases' = [leases EXCEPT ![j] = <<k>> \o @]
  BY DEF Acquires
<1> QED
  BY <1>1, GrantStep, Pushes

\* ... when it fails to, with or without effect ...
LEMMA Failure ==
  ASSUME TypeOK, NEW j \in Job, NEW k \in Lock, NEW ends \in SUBSET Nat,
         AcquireFails(j, k, ends)
  PROVE  /\ Loses(j) /\ lost'[j] \in {lost[j], TRUE}
         /\ lease' \in Leases /\ LeaseStep(j)
         /\ \A l \in Lock \ {k} : lease'[l] = lease[l]
         /\ \/ lease' = lease
            \/ /\ lost'[j] /\ Available(k) /\ k \notin File /\ lease'[k].holder = j
               /\ lease'[k].until \in ends
<1>1. CASE UNCHANGED lease /\ (UNCHANGED lost \/ lost' = [lost EXCEPT ![j] = TRUE])
  BY <1>1, Stays
<1>2. CASE k \notin File /\ Available(k) /\ Grants(j, k, ends) /\ lost' = [lost EXCEPT ![j] = TRUE]
  <2>1. /\ lease' \in Leases /\ LeaseStep(j) /\ \A l \in Lock \ {k} : lease'[l] = lease[l]
        /\ lease'[k].holder = j /\ lease'[k].until \in ends
    BY <1>2, GrantStep
  <2>2. Loses(j) /\ lost'[j] = TRUE
    BY <1>2, Stays
  <2> QED
    BY <1>2, <2>1, <2>2
<1> QED
  BY <1>1, <1>2 DEF AcquireFails

\* ... and when it releases the last one.
LEMMA Releasement ==
  ASSUME TypeOK, NEW j \in Job, NEW over \in Over, ReleaseNext(j, over)
  PROVE  /\ leases[j] # <<>> /\ Keeps(j) /\ leases'[j] = Tail(leases[j])
         /\ Head(leases[j]) \in Lock
         /\ Loses(j) /\ lost'[j] \in {lost[j], TRUE}
         /\ lease' \in Leases /\ LeaseStep(j)
         /\ \A l \in Lock \ {Head(leases[j])} : lease'[l] = lease[l]
         /\ lost'[j] \/ (lease[Head(leases[j])].holder = j => lease'[Head(leases[j])] = Free)
         /\ Moves(j)
         /\ IF Tail(leases[j]) = <<>> THEN pc'[j] = over /\ since'[j] = 0
                                      ELSE pc'[j] = pc[j] /\ since'[j] = since[j]
         /\ UNCHANGED <<now, cfg, windowEnd, outcome>>
<1> DEFINE k == Head(leases[j])
<1>1. leases[j] # <<>> /\ leases[j] \in Seq(Lock) /\ k \in Lock /\ over \in State
  BY PopElement DEF ReleaseNext, TypeOK, State
<1>2. Keeps(j) /\ leases'[j] = Tail(leases[j])
  BY <1>1, Pops DEF ReleaseNext
<1>3. Moves(j) /\ IF Tail(leases[j]) = <<>> THEN pc'[j] = over /\ since'[j] = 0
                                            ELSE pc'[j] = pc[j] /\ since'[j] = since[j]
  BY <1>1, Movements, Stays DEF ReleaseNext
<1>4. (Removes(j, k) \/ UNCHANGED lease) /\ (UNCHANGED lost \/ lost' = [lost EXCEPT ![j] = TRUE])
  BY DEF ReleaseNext
<1>5. UNCHANGED lost => Removes(j, k) \/ lost'[j]
  BY DEF ReleaseNext, TypeOK
<1>6. Loses(j) /\ lost'[j] \in {lost[j], TRUE} /\ lease' \in Leases /\ LeaseStep(j)
      /\ \A l \in Lock \ {k} : lease'[l] = lease[l]
  BY <1>1, <1>4, Stays, FreeStep
<1>7. lost'[j] \/ (lease[k].holder = j => lease'[k] = Free)
  BY <1>1, <1>4, <1>5, Stays, FreeStep
<1> QED
  BY <1>1, <1>2, <1>3, <1>6, <1>7 DEF ReleaseNext

-----------------------------------------------------------------------------
(* Every step of a job is of this kind *)

\* The ends of leases are times.
LEMMA EndsAreTimes ==
  ASSUME TypeOK
  PROVE  /\ \A j \in Load : LockEnds(j) \in SUBSET Nat /\ MarkerEnds(j) \in SUBSET Nat
         /\ \A b \in Bench : BenchEnds(b) \in SUBSET Nat
<1>1. now \in Nat /\ \A j \in Job : Starts(j) \subseteq Nat
  BY TimeFacts DEF TypeOK, Starts, Time
<1>2. cfg.lockTTL \in Nat /\ Grace \in Nat /\ BenchTTL \in Nat
  BY ConfigFacts, TimeFacts
<1>3. ASSUME NEW j \in Load, NEW end \in MarkerEnds(j)
      PROVE  end \in Nat
  <2>0. PICK t \in Starts(j) : \E u \in since[j]..t : end = t + MarkerTTL(j, u)
    BY <1>3 DEF MarkerEnds
  <2>1. PICK u \in since[j]..t : end = t + MarkerTTL(j, u)
    BY <2>0
  <2>2. t \in Nat /\ since[j] \in Nat /\ windowEnd[j] \in Nat
    BY <1>1, <2>1, TimeFacts DEF TypeOK, Time, Job
  <2>3. u \in Nat /\ u <= t
    BY <2>1, <2>2
  <2> QED
    BY <1>2, <2>1, <2>2, <2>3 DEF MarkerTTL
<1>4. \A j \in Load : LockEnds(j) \in SUBSET Nat
  BY <1>1, <1>2 DEF LockEnds, Job
<1>5. \A b \in Bench : BenchEnds(b) \in SUBSET Nat
  BY <1>1, <1>2 DEF BenchEnds, Job
<1> QED
  BY <1>3, <1>4, <1>5

\* A step of taking the next lease touches one lease and the job.
LEMMA TakeLeaseEffect ==
  ASSUME TypeOK, NEW j \in Load, TakeLease(j)
  PROVE  TypeOK' /\ Frame(j) /\ LeaseStep(j)
<1>1. j \in Job /\ UNCHANGED <<now, cfg, windowEnd>> /\ windowEnd' \in [Load -> Nat]
  BY DEF TakeLease, TypeOK, Job
<1>2. "recheck" \in State /\ {"loadtest", "benchmark", "error"} \subseteq Reason
  BY DEF State, Preflighting, Reason
<1>3. LockEnds(j) \in SUBSET Nat
  BY EndsAreTimes
<1>4. CASE Goto(j, "recheck") /\ UNCHANGED <<lease, since, leases, outcome, lost>>
  BY <1>1, <1>2, <1>4, Movements, Stays, Changes
<1>5. ASSUME NEW k \in Keys(j), Acquires(j, LockOf(j, k), LockEnds(j)),
             Goto(j, "recheck") \/ UNCHANGED pc, UNCHANGED <<since, outcome, lost>>
      PROVE  TypeOK' /\ Frame(j) /\ LeaseStep(j)
  <2>1. LockOf(j, k) \in Lock
    BY LocksOfLoad DEF Locks
  <2>2. Keeps(j) /\ lease' \in Leases /\ LeaseStep(j)
    BY <1>1, <1>3, <1>5, <2>1, Acquisition
  <2>3. Moves(j) /\ Judges(j) /\ Loses(j)
    BY <1>1, <1>2, <1>5, Movements, Stays
  <2> QED
    BY <1>1, <2>2, <2>3, Changes
<1>6. ASSUME NEW k \in Keys(j), Block(j, HolderKind(LockOf(j, k))),
             UNCHANGED <<lease, leases, lost>>
      PROVE  TypeOK' /\ Frame(j) /\ LeaseStep(j)
  <2>1. HolderKind(LockOf(j, k)) \in Reason
    BY <1>2 DEF HolderKind
  <2> QED
    BY <1>1, <1>6, <2>1, Blocks, Stays, Changes
<1>7. ASSUME NEW k \in Keys(j), AcquireFails(j, LockOf(j, k), LockEnds(j)),
             Block(j, "error"), UNCHANGED leases
      PROVE  TypeOK' /\ Frame(j) /\ LeaseStep(j)
  <2>1. LockOf(j, k) \in Lock
    BY LocksOfLoad DEF Locks
  <2>2. Loses(j) /\ lease' \in Leases /\ LeaseStep(j)
    BY <1>1, <1>3, <1>7, <2>1, Failure
  <2>3. Moves(j) /\ Judges(j) /\ Keeps(j)
    BY <1>1, <1>2, <1>7, Blocks, Stays
  <2> QED
    BY <1>1, <2>2, <2>3, Changes
<1> QED
  BY <1>4, <1>5, <1>6, <1>7 DEF TakeLease

\* So does a step of taking the daily marker.
LEMMA AdmitOnceEffect ==
  ASSUME TypeOK, NEW j \in Load, AdmitOnce(j)
  PROVE  TypeOK' /\ Frame(j) /\ LeaseStep(j)
<1>1. j \in Job /\ UNCHANGED <<now, cfg, windowEnd>> /\ windowEnd' \in [Load -> Nat]
  BY DEF AdmitOnce, TypeOK, Job
<1>2. "final_check" \in State /\ {"daily", "error"} \subseteq Reason
  BY DEF State, Preflighting, Reason
<1>3. MarkerEnds(j) \in SUBSET Nat /\ Marker(j) \in Lock
  BY EndsAreTimes, LocksOfLoad
<1>4. CASE Acquires(j, Marker(j), MarkerEnds(j)) /\ Goto(j, "final_check")
           /\ UNCHANGED <<since, outcome, lost>>
  <2>1. Keeps(j) /\ lease' \in Leases /\ LeaseStep(j)
    BY <1>1, <1>3, <1>4, Acquisition
  <2> QED
    BY <1>1, <1>2, <1>4, <2>1, Movements, Stays, Changes
<1>5. CASE Block(j, "daily") /\ UNCHANGED <<lease, leases, lost>>
  BY <1>1, <1>2, <1>5, Blocks, Stays, Changes
<1>6. CASE AcquireFails(j, Marker(j), MarkerEnds(j)) /\ Block(j, "error") /\ UNCHANGED leases
  <2>1. Loses(j) /\ lease' \in Leases /\ LeaseStep(j)
    BY <1>1, <1>3, <1>6, Failure
  <2> QED
    BY <1>1, <1>2, <1>6, <2>1, Blocks, Stays, Changes
<1> QED
  BY <1>4, <1>5, <1>6 DEF AdmitOnce

\* So does any step of a load test.
LEMMA LoadEffect ==
  ASSUME TypeOK, NEW j \in Load, LoadStep(j),
         pc[j] = "final_check" => leases[j] # <<>>
  PROVE  TypeOK' /\ Frame(j) /\ LeaseStep(j)
<1>1. /\ j \in Job /\ windowEnd \in [Load -> Nat] /\ Reason \subseteq {"admitted"} \cup Reason
      /\ {"time", "config", "error"} \subseteq Reason
      /\ {"check", "external", "lease", "marker", "admitted", "work", "cleanup",
          "done", "release"} \subseteq State
  BY DEF TypeOK, Job, Reason, State, Preflighting, Working, Over, Releasing
<1>2. CASE Begin(j)
  BY <1>1, <1>2, Movements, Stays, Changes DEF Begin
<1>3. CASE Check(j)
  <2>1. EndOf(now) \in Nat
    <3>1. TypeOK /\ now \in Nat
      BY TimeFacts DEF TypeOK, Time
    <3> QED
      BY <3>1, DayFacts
  <2>2. windowEnd' \in [Load -> Nat] /\ \A i \in Load \ {j} : windowEnd'[i] = windowEnd[i]
    BY <1>1, <1>3, <2>1 DEF Check
  <2> QED
    BY <1>1, <1>3, <2>2, Movements, Blocks, Stays, Changes DEF Check
<1>4. CASE CheckExternal(j)
  <2>1. CASE \E why \in Reason : Block(j, why)
    BY <1>1, <1>4, <2>1, Blocks, Stays, Changes DEF CheckExternal
  <2>2. CASE Goto(j, "lease") /\ UNCHANGED <<since, outcome>>
    BY <1>1, <1>4, <2>2, Movements, Stays, Changes DEF CheckExternal
  <2> QED
    BY <1>1, <1>4, <2>1, <2>2 DEF CheckExternal
<1>5. CASE Recheck(j)
  BY <1>1, <1>5, Movements, Blocks, Judgements, Stays, Changes DEF Recheck, Admit
<1>6. CASE FinalCheck(j)
  <2>1. CASE Admit(j) /\ leases' = [leases EXCEPT ![j] = Tail(@)]
    <3>1. leases[j] # <<>>
      BY <1>6 DEF FinalCheck
    <3> QED
      BY <1>1, <1>6, <2>1, <3>1, Movements, Judgements, Pops, Stays, Changes
         DEF FinalCheck, Admit
  <2>2. CASE Block(j, "time") /\ UNCHANGED leases
    BY <1>1, <1>6, <2>2, Blocks, Stays, Changes DEF FinalCheck
  <2> QED
    BY <1>6, <2>1, <2>2 DEF FinalCheck
<1>7. CASE Start(j) \/ Work(j)
  BY <1>1, <1>7, Movements, Stays, Changes DEF Start, Work
<1>8. CASE Cleanup(j)
  BY <1>1, <1>8, Movements, Stays, Changes DEF Cleanup
<1>9. ASSUME NEW over \in {"done", "blocked"}, ReleaseNext(j, over)
      PROVE  TypeOK' /\ Frame(j) /\ LeaseStep(j)
  <2>1. over \in Over
    BY DEF Over
  <2> QED
    BY <1>1, <1>9, <2>1, Releasement, Stays, Changes
<1> QED
  BY <1>2, <1>3, <1>4, <1>5, <1>6, <1>7, <1>8, <1>9, TakeLeaseEffect, AdmitOnceEffect
     DEF LoadStep, AcquireGuard, Release

\* So does any step of a canary.
LEMMA BenchEffect ==
  ASSUME TypeOK, NEW b \in Bench, BenchStep(b)
  PROVE  TypeOK' /\ Frame(b) /\ LeaseStep(b)
<1>1. /\ b \in Job /\ b \notin Load /\ windowEnd \in [Load -> Nat]
      /\ {"lease", "work", "release", "skipped", "done"} \subseteq State /\ "done" \in Over
      /\ BenchLock(b) \in Lock /\ BenchEnds(b) \in SUBSET Nat
  BY LoadGuardAssumption, LocksOfBench, EndsAreTimes
     DEF TypeOK, Job, State, Preflighting, Working, Over, Releasing
<1>2. CASE BenchBegin(b) \/ BenchWork(b)
  BY <1>1, <1>2, Movements, Stays, Changes DEF BenchBegin, BenchWork
<1>3. CASE BenchAcquire(b)
  <2>1. CASE Acquires(b, BenchLock(b), BenchEnds(b)) /\ Goto(b, "work") /\ UNCHANGED <<since, lost>>
    <3>1. Keeps(b) /\ lease' \in Leases /\ LeaseStep(b)
      BY <1>1, <2>1, Acquisition
    <3> QED
      BY <1>1, <1>3, <2>1, <3>1, Movements, Stays, Changes DEF BenchAcquire
  <2>2. CASE Exit(b, "skipped") /\ UNCHANGED <<lease, leases, lost>>
    BY <1>1, <1>3, <2>2, Movements, Stays, Changes DEF BenchAcquire
  <2>3. CASE AcquireFails(b, BenchLock(b), BenchEnds(b)) /\ Exit(b, "done") /\ UNCHANGED leases
    <3>1. Loses(b) /\ lease' \in Leases /\ LeaseStep(b)
      BY <1>1, <2>3, Failure
    <3> QED
      BY <1>1, <1>3, <2>3, <3>1, Movements, Stays, Changes DEF BenchAcquire
  <2> QED
    BY <1>3, <2>1, <2>2, <2>3 DEF BenchAcquire
<1>4. CASE ReleaseNext(b, "done")
  BY <1>1, <1>4, Releasement, Stays, Changes
<1> QED
  BY <1>2, <1>3, <1>4 DEF BenchStep

\* A killed process forgets its leases; on Cloud Storage they stay until they expire.
LEMMA KillEffect ==
  ASSUME TypeOK, NEW j \in Job, Kill(j)
  PROVE  /\ TypeOK' /\ Frame(j) /\ LeaseStep(j)
         /\ pc'[j] = "killed" /\ since'[j] = 0 /\ leases'[j] = <<>>
         /\ UNCHANGED <<windowEnd, outcome, lost>>
         /\ \A k \in Lock \ File : lease'[k] = lease[k]
<1>1. "killed" \in State /\ windowEnd \in [Load -> Nat] /\ lease \in Leases
      /\ Free \in [holder : Job \cup {NoHolder}, until : Nat]
  BY DEF TypeOK, State, Over, Leases, Free
<1>2. Moves(j) /\ pc'[j] = "killed" /\ since'[j] = 0
  BY <1>1, Movements DEF Kill
<1>3. Keeps(j) /\ leases'[j] = <<>>
  BY DEF Kill, Keeps, TypeOK
<1>4. lease' \in Leases /\ LeaseStep(j) /\ \A k \in Lock \ File : lease'[k] = lease[k]
  BY <1>1 DEF Kill, Leases, LeaseStep
<1> QED
  BY <1>1, <1>2, <1>3, <1>4, Stays, Changes DEF Kill

-----------------------------------------------------------------------------
(* The other jobs *)

\* Whatever a job still has to do, it does before its leases expire.
LEMMA HeldIsTaken ==
  ASSUME GuardInv, NEW j \in Job, NEW k \in Held(j)
  PROVE  k \in Lock /\ lease[k].holder = j /\ ~Available(k)
<1>1. TypeOK /\ now \in Nat /\ since[j] \in Nat /\ j # NoHolder
  BY LoadGuardAssumption, TimeFacts DEF GuardInv, TypeOK, Time, Job
<1>2. k \in Lock /\ lease[k].holder = j
  BY DEF GuardInv, Owns, TypeOK, Held, Elements
<1>3. lease[k].until \in Nat
  BY <1>1, <1>2 DEF TypeOK
<1>4. SUFFICES now < lease[k].until
  BY <1>1, <1>2, <1>3 DEF Available
<1>5. CASE j \in Load
  <2>1. InTime(j) /\ HoldsKeys(j)
    BY <1>5 DEF GuardInv
  <2>2. pc[j] \in {"lease", "recheck", "marker", "final_check"} \cup Working \cup Releasing
    <3>1. leases[j] # <<>>
      BY EmptyElements DEF Held
    <3> QED
      BY <1>1, <2>1, <3>1 DEF HoldsKeys, TypeOK, Preflighting, Over
  <2>3. cfg.backend # "none"
    <3>1. Locks(j) # {} \/ cfg.scheduled
      BY <2>1 DEF HoldsKeys
    <3> QED
      BY <1>1, <3>1, ConfigFacts DEF Locks, Keys
  <2>4. /\ Spent(j) \in Nat /\ PhaseEnd(j) \in Int
        /\ PhaseEnd(j) + Spent(j) < since[j] + BudgetOf(cfg)
    <3>1. CASE pc[j] \in {"lease", "recheck", "marker", "final_check"}
      BY <1>1, <3>1, ConfigFacts, TimeFacts DEF Spent, PhaseEnd, Preflighting
    <3>2. CASE pc[j] = "work"
      <4>1. windowEnd[j] \in Nat
        BY <1>1, <1>5 DEF TypeOK
      <4>2. Deadline(j) \in Int
        BY <1>1, <4>1, ConfigFacts, TimeFacts DEF Deadline
      <4> QED
        BY <1>1, <3>2, <4>2, ConfigFacts, TimeFacts DEF Spent, PhaseEnd, Preflighting
    <3>3. CASE pc[j] \in {"admitted", "cleanup"} \cup Releasing
      BY <1>1, <3>3, ConfigFacts, TimeFacts DEF Spent, PhaseEnd, Preflighting, Releasing
    <3> QED
      BY <2>2, <3>1, <3>2, <3>3 DEF Working
  <2>5. lease[k].until >= since[j] + cfg.lockTTL - Spent(j) /\ cfg.lockTTL >= BudgetOf(cfg)
    BY <1>1, <2>1, <2>3, ConfigFacts DEF HoldsKeys
  <2>6. now <= PhaseEnd(j)
    BY <2>1 DEF InTime
  <2> QED
    BY <1>1, <1>3, <2>4, <2>5, <2>6, ConfigFacts
<1>6. CASE j \in Bench
  <2>1. HoldsLease(j)
    BY <1>6 DEF GuardInv
  <2>2. pc[j] \in {"work", "release"}
    BY <2>1, EmptyElements DEF HoldsLease, Held, Over
  <2>3. now <= since[j] + BenchBound /\ lease[k].until >= since[j] + BenchTTL
    BY <2>1, <2>2 DEF HoldsLease, BenchEnd
  <2> QED
    BY <1>1, <1>3, <2>3, TimeFacts
<1> QED
  BY <1>5, <1>6 DEF Job

\* So nobody else's step touches them.
LEMMA HeldIsKept ==
  ASSUME GuardInv, NEW j \in Job, LeaseStep(j), NEW i \in Job \ {j}, NEW k \in Held(i)
  PROVE  lease'[k] = lease[k]
  BY HeldIsTaken DEF LeaseStep

\* What is true of another load test stays true.
LEMMA OtherLoads ==
  ASSUME GuardInv, NEW j \in Job, Frame(j), LeaseStep(j), NEW i \in Load \ {j}
  PROVE  InTime(i)' /\ InOrder(i)' /\ HoldsKeys(i)' /\ Recalls(i)'
<1>1. /\ now' = now /\ cfg' = cfg /\ pc'[i] = pc[i] /\ since'[i] = since[i]
      /\ leases'[i] = leases[i] /\ lost'[i] = lost[i] /\ windowEnd'[i] = windowEnd[i]
      /\ outcome'[i] = outcome[i]
  BY DEF Frame, Job
<1>2. InTime(i) /\ InOrder(i) /\ HoldsKeys(i) /\ Recalls(i)
  BY DEF GuardInv
<1>3. InTime(i)'
  BY <1>1, <1>2 DEF InTime, PhaseEnd, InWindow, StartOf, EndOf, Deadline, BudgetOf, Left
<1>4. InOrder(i)'
  BY <1>1, <1>2 DEF InOrder
<1>5. /\ Held(i)' = Held(i) /\ Locks(i)' = Locks(i) /\ Marker(i)' = Marker(i)
      /\ Distinct(leases[i])' = Distinct(leases[i]) /\ Spent(i)' = Spent(i)
  BY <1>1 DEF Held, Locks, LockOf, Keys, Marker, Distinct, Spent, Elements
<1>6. \A k \in Held(i) : lease'[k] = lease[k]
  BY HeldIsKept DEF Job
<1>7. HoldsKeys(i)'
  <2>1. pc[i] = "final_check" => Marker(i) \in Held(i)
    <3>1. leases[i] \in Seq(Lock)
      BY DEF GuardInv, TypeOK, Job
    <3> QED
      BY <1>2, <3>1, PopElement DEF HoldsKeys, Held
  <2> QED
    BY <1>1, <1>2, <1>5, <1>6, <2>1 DEF HoldsKeys
<1>8. Recalls(i)'
  <2>1. i # NoHolder
    BY LoadGuardAssumption
  <2>2. \A k \in Lock : lease'[k].holder = i => lease[k].holder = i
    BY <2>1 DEF LeaseStep, Free
  <2> QED
    BY <1>1, <1>2, <1>5, <2>2 DEF Recalls
<1> QED
  BY <1>3, <1>4, <1>7, <1>8

\* What is true of another canary stays true.
LEMMA OtherBenches ==
  ASSUME GuardInv, NEW j \in Job, Frame(j), LeaseStep(j), NEW i \in Bench \ {j}
  PROVE  HoldsLease(i)'
<1>1. /\ now' = now /\ cfg' = cfg /\ pc'[i] = pc[i] /\ since'[i] = since[i]
      /\ leases'[i] = leases[i]
  BY DEF Frame, Job
<1>2. HoldsLease(i)
  BY DEF GuardInv
<1>3. /\ Held(i)' = Held(i) /\ BenchLock(i)' = BenchLock(i) /\ BenchEnd(i)' = BenchEnd(i)
      /\ Distinct(leases[i])' = Distinct(leases[i])
  BY <1>1 DEF Held, BenchLock, LockOf, BenchKey, BenchEnd, Distinct, Elements
<1>4. \A k \in Held(i) : lease'[k] = lease[k]
  BY HeldIsKept DEF Job
<1> QED
  BY <1>1, <1>2, <1>3, <1>4 DEF HoldsLease

\* What another job remembers stays its own.
LEMMA OtherOwners ==
  ASSUME GuardInv, NEW j \in Job, Frame(j), LeaseStep(j), NEW i \in Job \ {j}
  PROVE  Owns(i)'
<1>1. Held(i)' = Held(i) /\ Owns(i)
  BY DEF Frame, Held, Elements, GuardInv
<1> QED
  BY <1>1, HeldIsKept DEF Owns

-----------------------------------------------------------------------------
(* The job itself: time *)

\* A load test keeps to its phases and its window.
LEMMA InTimeStep ==
  ASSUME GuardInv, NEW j \in Load, LoadStep(j)
  PROVE  InTime(j)'
<1>1. /\ TypeOK /\ InTime(j) /\ InOrder(j) /\ HoldsKeys(j) /\ j \in Job
      /\ now \in Nat /\ now <= MaxTime /\ since[j] \in Nat /\ windowEnd[j] \in Nat
  BY TimeFacts DEF GuardInv, TypeOK, Time, Job
<1>2. Frame(j) /\ cfg' = cfg /\ now' = now
  <2>1. Frame(j)
    BY <1>1, LoadEffect DEF HoldsKeys
  <2> QED
    BY <2>1 DEF Frame
<1>3. /\ {"check", "external", "lease", "recheck", "marker", "final_check",
          "admitted", "work", "cleanup", "done", "blocked", "release"} \subseteq State
      /\ {"time", "config", "error", "daily", "loadtest", "benchmark"} \subseteq Reason
  BY DEF State, Preflighting, Working, Over, Releasing, Reason
\* Before admission, the time of the window and of the preflight goes on.
<1>4. ASSUME pc[j] \in Preflighting \ {"check"}, pc'[j] \in Preflighting \ {"check"},
             since'[j] = since[j], windowEnd'[j] = windowEnd[j]
      PROVE  InTime(j)'
  BY <1>1, <1>2, <1>4
     DEF InTime, PhaseEnd, Preflighting, Releasing, Working, InWindow, StartOf, EndOf, BudgetOf
\* Blocked or over, a job has a time of its own.
<1>5. ASSUME pc'[j] \in Releasing, since'[j] = now \/ (pc[j] = pc'[j] /\ since'[j] = since[j]),
             windowEnd'[j] = windowEnd[j]
      PROVE  InTime(j)'
  <2>1. since'[j] <= now /\ now <= since'[j] + ReleaseTimeout
    BY <1>1, <1>5, TimeFacts DEF InTime, PhaseEnd, Preflighting, Working, Releasing
  <2> QED
    BY <1>1, <1>2, <1>5, <2>1 DEF InTime, PhaseEnd, Preflighting, Working, Releasing, EndOf
<1>6. ASSUME pc'[j] \in Over, since'[j] = 0, windowEnd'[j] = windowEnd[j]
      PROVE  InTime(j)'
  BY <1>1, <1>2, <1>6 DEF InTime, PhaseEnd, Preflighting, Working, Releasing, Over, EndOf
<1>7. ASSUME NEW why \in Reason, Block(j, why), windowEnd'[j] = windowEnd[j]
      PROVE  InTime(j)'
  <2>1. \/ pc'[j] = "blocked" /\ since'[j] = 0
        \/ pc'[j] = "blocked_release" /\ since'[j] = now
    BY <1>1, <1>7, Blocks
  <2> QED
    BY <1>5, <1>6, <1>7, <2>1 DEF Over, Releasing
<1>8. CASE Begin(j)
  <2>1. pc'[j] = "check" /\ since'[j] = now /\ windowEnd'[j] = windowEnd[j]
    BY <1>1, <1>3, <1>8, Movements DEF Begin
  <2> QED
    BY <1>1, <1>2, <2>1, TimeFacts DEF InTime, PhaseEnd, Preflighting, Releasing, Working,
       EndOf
<1>9. CASE Check(j)
  <2>1. CASE ~TimeOK(j)
    BY <1>1, <1>3, <1>7, <1>9, <2>1 DEF Check
  <2>2. CASE TimeOK(j)
    <3>1. /\ pc[j] = "check" /\ pc'[j] = "external" /\ since'[j] = since[j]
          /\ windowEnd'[j] = IF cfg.scheduled THEN EndOf(now) ELSE 0
      BY <1>1, <1>3, <1>9, <2>2, Movements DEF Check, TypeOK
    <3>2. cfg.scheduled => InWindow(now)
      BY <2>2 DEF TimeOK
    <3>3. now \in since[j]..now /\ now \in 0..now
      BY <1>1 DEF InTime
    <3> QED
      BY <1>1, <1>2, <3>1, <3>2, <3>3
         DEF InTime, PhaseEnd, Preflighting, Releasing, Working, InWindow, StartOf, EndOf, BudgetOf
  <2> QED
    BY <2>1, <2>2
<1>10. CASE CheckExternal(j)
  <2>1. pc[j] = "external" /\ windowEnd'[j] = windowEnd[j]
    BY <1>10 DEF CheckExternal
  <2>2. CASE \E why \in Reason : Block(j, why)
    BY <1>7, <2>1, <2>2
  <2>3. CASE Goto(j, "lease") /\ UNCHANGED since
    BY <1>1, <1>3, <1>4, <2>1, <2>3, Movements DEF Preflighting
  <2> QED
    BY <1>3, <1>10, <2>2, <2>3 DEF CheckExternal
<1>11. CASE TakeLease(j)
  <2>1. pc[j] = "lease" /\ windowEnd'[j] = windowEnd[j]
    BY <1>11 DEF TakeLease
  <2>2. CASE \E why \in Reason : Block(j, why)
    BY <1>7, <2>1, <2>2
  <2>3. CASE (Goto(j, "recheck") \/ UNCHANGED pc) /\ UNCHANGED since
    BY <1>1, <1>3, <1>4, <2>1, <2>3, Movements DEF Preflighting
  <2> QED
    BY <1>3, <1>11, <2>2, <2>3 DEF TakeLease, HolderKind
<1>12. CASE Recheck(j)
  <2>1. pc[j] = "recheck" /\ windowEnd'[j] = windowEnd[j]
    BY <1>12 DEF Recheck
  <2>2. CASE Block(j, "time")
    BY <1>3, <1>7, <2>1, <2>2
  <2>3. CASE Goto(j, "marker") /\ UNCHANGED since
    BY <1>1, <1>3, <1>4, <2>1, <2>3, Movements DEF Preflighting
  <2>4. CASE TimeOK(j) /\ ~cfg.scheduled /\ Admit(j)
    <3>1. pc'[j] = "admitted" /\ since'[j] = now
      BY <1>1, <1>3, <2>4, Movements DEF Admit
    <3>2. cfg.benchmarkGuard \/ cfg.external =>
            \A h \in Heavy : now >= h[2] \/ now + BudgetOf(cfg) <= h[1]
      BY <1>1, <2>4, LoadGuardAssumption, ConfigFacts DEF TimeOK, OverlapsKnownHeavyWindow
    <3> QED
      BY <1>1, <1>2, <2>1, <2>4, <3>1, <3>2, TimeFacts
         DEF InTime, PhaseEnd, Preflighting, Releasing, Working, EndOf, BudgetOf, Left
  <2> QED
    BY <1>12, <2>2, <2>3, <2>4 DEF Recheck
<1>13. CASE AdmitOnce(j)
  <2>1. pc[j] = "marker" /\ windowEnd'[j] = windowEnd[j]
    BY <1>13 DEF AdmitOnce
  <2>2. CASE \E why \in Reason : Block(j, why)
    BY <1>7, <2>1, <2>2
  <2>3. CASE Goto(j, "final_check") /\ UNCHANGED since
    BY <1>1, <1>3, <1>4, <2>1, <2>3, Movements DEF Preflighting
  <2> QED
    BY <1>3, <1>13, <2>2, <2>3 DEF AdmitOnce
<1>14. CASE FinalCheck(j)
  <2>1. pc[j] = "final_check" /\ windowEnd'[j] = windowEnd[j] /\ cfg.scheduled
    BY <1>1, <1>14 DEF FinalCheck, InOrder
  <2>2. CASE Block(j, "time")
    BY <1>3, <1>7, <2>1, <2>2
  <2>3. CASE TimeOK(j) /\ Admit(j)
    <3>1. pc'[j] = "admitted" /\ since'[j] = now
      BY <1>1, <1>3, <2>3, Movements DEF Admit
    <3>2. windowEnd[j] # 0
      <4>1. PICK t \in since[j]..now : InWindow(t) /\ windowEnd[j] = EndOf(t)
        BY <1>1, <2>1 DEF InTime, Preflighting
      <4>2. t \in Nat /\ EndOf(t) \in Nat
        BY <1>1, <4>1, DayFacts
      <4> QED
        BY <1>1, <4>1, <4>2, ConfigFacts, TimeFacts DEF InWindow
    <3>3. now + BudgetOf(cfg) <= windowEnd[j]
      BY <1>1, <2>1, <2>3, <3>2 DEF TimeOK, InWindow
    <3> QED
      BY <1>1, <1>2, <2>1, <3>1, <3>3, TimeFacts
         DEF InTime, PhaseEnd, Preflighting, Releasing, Working, EndOf, BudgetOf, Left
  <2> QED
    BY <1>14, <2>2, <2>3 DEF FinalCheck
<1>15. CASE Start(j)
  <2>1. /\ pc[j] = "admitted" /\ pc'[j] = "work" /\ since'[j] = now
        /\ windowEnd'[j] = windowEnd[j]
    BY <1>1, <1>3, <1>15, Movements DEF Start
  <2>2. since[j] <= now /\ now <= since[j] + Setup
    BY <1>1, <2>1 DEF InTime, PhaseEnd, Preflighting, Releasing
  <2>3. cfg.scheduled => now <= Deadline(j)
    BY <1>1, <2>1, <2>2, ConfigFacts, TimeFacts DEF InTime, Deadline
  <2>4. ~cfg.scheduled /\ (cfg.benchmarkGuard \/ cfg.external) =>
          \A h \in Heavy : now >= h[2] \/ now + (cfg.runTimeout + cfg.deleteTimeout) <= h[1]
    <3>1. ASSUME ~cfg.scheduled, cfg.benchmarkGuard \/ cfg.external, NEW h \in Heavy
          PROVE  since[j] >= h[2] \/ since[j] + BudgetOf(cfg) <= h[1]
      BY <1>1, <2>1, <3>1 DEF InTime, Left, Working
    <3>2. \A h \in Heavy : h[1] \in Nat /\ h[2] \in Nat
      BY LoadGuardAssumption
    <3> QED
      BY <1>1, <2>2, <3>1, <3>2, ConfigFacts, TimeFacts
  <2>5. now <= PhaseEnd(j)'
    BY <1>1, <1>2, <2>1, <2>3, ConfigFacts, TimeFacts DEF PhaseEnd, Preflighting,
       Releasing, Deadline
  <2> QED
    BY <1>1, <1>2, <2>1, <2>4, <2>5 DEF InTime, Preflighting, EndOf, Left
<1>16. CASE Work(j)
  <2>1. /\ pc[j] = "work" /\ pc'[j] = "cleanup" /\ since'[j] = now
        /\ windowEnd'[j] = windowEnd[j]
    BY <1>1, <1>3, <1>16, Movements DEF Work
  <2>2. /\ since[j] <= now /\ now <= since[j] + cfg.runTimeout
        /\ cfg.scheduled => now <= Deadline(j)
    <3>1. Deadline(j) \in Int
      BY <1>1, ConfigFacts, TimeFacts DEF Deadline
    <3> QED
      BY <1>1, <2>1, <3>1, ConfigFacts DEF InTime, PhaseEnd, Preflighting, Releasing
  <2>3. ~cfg.scheduled /\ (cfg.benchmarkGuard \/ cfg.external) =>
          \A h \in Heavy : now >= h[2] \/ now + cfg.deleteTimeout <= h[1]
    <3>1. ASSUME ~cfg.scheduled, cfg.benchmarkGuard \/ cfg.external, NEW h \in Heavy
          PROVE  since[j] >= h[2] \/ since[j] + (cfg.runTimeout + cfg.deleteTimeout) <= h[1]
      BY <1>1, <2>1, <3>1 DEF InTime, Left, Working
    <3>2. \A h \in Heavy : h[1] \in Nat /\ h[2] \in Nat
      BY LoadGuardAssumption
    <3> QED
      BY <1>1, <2>2, <3>1, <3>2, ConfigFacts
  <2>4. now <= PhaseEnd(j)'
    BY <1>1, <1>2, <2>1, ConfigFacts DEF PhaseEnd, Preflighting, Releasing
  <2> QED
    BY <1>1, <1>2, <2>1, <2>2, <2>3, <2>4 DEF InTime, Preflighting, EndOf, Left, Deadline
<1>17. CASE Cleanup(j)
  BY <1>1, <1>3, <1>5, <1>6, <1>17, Movements DEF Cleanup, Over, Releasing
<1>18. ASSUME NEW over \in {"done", "blocked"}, ReleaseNext(j, over), pc[j] \in Releasing
       PROVE  InTime(j)'
  BY <1>1, <1>5, <1>6, <1>18, Releasement DEF Over
<1> QED
  BY <1>8, <1>9, <1>10, <1>11, <1>12, <1>13, <1>14, <1>15, <1>16, <1>17, <1>18
     DEF LoadStep, AcquireGuard, Release, Releasing

-----------------------------------------------------------------------------
(* The job itself: order *)

\* AcquireGuard finds nothing wrong with a configuration that Load accepted.
LEMMA NeverMisconfigured == TypeOK => ~Misconfigured
  BY ConfigFacts DEF Misconfigured

\* How far a step takes a load test, and what it decides: it goes on, is admitted,
\* is blocked for some reason but its configuration, or is over.
LEMMA OutcomeStep ==
  ASSUME GuardInv, NEW j \in Load, LoadStep(j)
  PROVE  \/ /\ outcome'[j] = outcome[j]
            /\ \/ pc[j] = "idle" /\ pc'[j] = "check"
               \/ pc[j] \in Preflighting /\ pc'[j] \in Preflighting \ {"check"}
                  /\ since'[j] = since[j]
                  /\ (pc'[j] \in {"marker", "final_check"} => cfg.scheduled)
                  /\ pc[j] \in Unmarked
               \/ pc[j] = "admitted" /\ pc'[j] = "work"
               \/ pc[j] = "work" /\ pc'[j] = "cleanup"
               \/ pc[j] = "cleanup" /\ pc'[j] = "release"
               \/ pc[j] = "cleanup" /\ pc'[j] = "done" /\ leases'[j] = <<>>
               \/ pc[j] \in Releasing /\ pc'[j] = pc[j] /\ since'[j] = since[j]
               \/ pc[j] = "release" /\ pc'[j] = "done" /\ leases'[j] = <<>>
               \/ pc[j] = "blocked_release" /\ pc'[j] = "blocked" /\ leases'[j] = <<>>
         \/ /\ pc[j] = "final_check" \/ (pc[j] = "recheck" /\ ~cfg.scheduled)
            /\ pc'[j] = "admitted"
            /\ outcome'[j] = "admitted"
         \/ /\ pc[j] \in Preflighting /\ pc'[j] \in {"blocked", "blocked_release"}
            /\ outcome'[j] \in Reason \ {"config"}
            /\ leases'[j] = leases[j] /\ (pc'[j] = "blocked" <=> leases[j] = <<>>)
            /\ outcome'[j] = "daily" => pc[j] = "marker" /\ ~Available(Marker(j))
<1>1. /\ TypeOK /\ InOrder(j) /\ j \in Job
      /\ {"check", "external", "lease", "recheck", "marker", "final_check",
          "admitted", "work", "cleanup", "done", "blocked", "release"} \subseteq State
      /\ {"time", "config", "error", "daily", "loadtest", "benchmark"} \subseteq Reason
  BY DEF GuardInv, Job, State, Preflighting, Working, Over, Releasing, Reason
<1>2. ASSUME NEW why \in Reason, Block(j, why), UNCHANGED leases
      PROVE  /\ pc'[j] \in {"blocked", "blocked_release"} /\ outcome'[j] = why
             /\ leases'[j] = leases[j] /\ (pc'[j] = "blocked" <=> leases[j] = <<>>)
  BY <1>1, <1>2, Blocks
<1>3. CASE Begin(j)
  BY <1>1, <1>3, Movements DEF Begin
<1>4. CASE Check(j)
  <2>1. CASE Block(j, "time") /\ UNCHANGED leases
    BY <1>1, <1>2, <1>4, <2>1 DEF Check, Preflighting
  <2>2. CASE Goto(j, "external") /\ UNCHANGED <<since, outcome>>
    BY <1>1, <1>4, <2>2, Movements DEF Check, Preflighting, Unmarked
  <2> QED
    BY <1>4, <2>1, <2>2 DEF Check
<1>5. CASE CheckExternal(j)
  <2>1. \/ \E why \in {"time", "error"} : Block(j, why) /\ UNCHANGED leases
        \/ Goto(j, "lease") /\ UNCHANGED <<since, outcome>>
    BY <1>1, <1>5, NeverMisconfigured DEF CheckExternal
  <2>2. pc[j] = "external"
    BY <1>5 DEF CheckExternal
  <2>3. CASE \E why \in {"time", "error"} : Block(j, why) /\ UNCHANGED leases
    BY <1>1, <1>2, <2>2, <2>3 DEF Preflighting
  <2>4. CASE Goto(j, "lease") /\ UNCHANGED <<since, outcome>>
    BY <1>1, <2>2, <2>4, Movements DEF Preflighting, Unmarked
  <2> QED
    BY <2>1, <2>3, <2>4
<1>6. CASE TakeLease(j)
  <2>1. \/ \E why \in {"benchmark", "loadtest", "error"} : Block(j, why) /\ UNCHANGED leases
        \/ (Goto(j, "recheck") \/ UNCHANGED pc) /\ UNCHANGED <<since, outcome>>
    BY <1>6 DEF TakeLease, HolderKind
  <2>2. pc[j] = "lease"
    BY <1>6 DEF TakeLease
  <2>3. CASE \E why \in {"benchmark", "loadtest", "error"} : Block(j, why) /\ UNCHANGED leases
    BY <1>1, <1>2, <2>2, <2>3 DEF Preflighting
  <2>4. CASE (Goto(j, "recheck") \/ UNCHANGED pc) /\ UNCHANGED <<since, outcome>>
    BY <1>1, <2>2, <2>4, Movements DEF Preflighting, Unmarked
  <2> QED
    BY <2>1, <2>3, <2>4
<1>7. CASE Recheck(j)
  <2>1. pc[j] = "recheck"
    BY <1>7 DEF Recheck
  <2>2. CASE Block(j, "time") /\ UNCHANGED leases
    BY <1>1, <1>2, <2>1, <2>2 DEF Preflighting
  <2>3. CASE cfg.scheduled /\ Goto(j, "marker") /\ UNCHANGED <<since, outcome>>
    BY <1>1, <2>1, <2>3, Movements DEF Preflighting, Unmarked
  <2>4. CASE ~cfg.scheduled /\ Admit(j)
    BY <1>1, <2>1, <2>4, Movements, Judgements DEF Admit
  <2> QED
    BY <1>7, <2>2, <2>3, <2>4 DEF Recheck
<1>8. CASE AdmitOnce(j)
  <2>1. pc[j] = "marker" /\ cfg.scheduled
    BY <1>1, <1>8 DEF AdmitOnce, InOrder
  <2>2. CASE ~Available(Marker(j)) /\ Block(j, "daily") /\ UNCHANGED leases
    BY <1>1, <1>2, <2>1, <2>2 DEF Preflighting
  <2>3. CASE Block(j, "error") /\ UNCHANGED leases
    BY <1>1, <1>2, <2>1, <2>3 DEF Preflighting
  <2>4. CASE Goto(j, "final_check") /\ UNCHANGED <<since, outcome>>
    BY <1>1, <2>1, <2>4, Movements DEF Preflighting, Unmarked
  <2> QED
    BY <1>8, <2>2, <2>3, <2>4 DEF AdmitOnce
<1>9. CASE FinalCheck(j)
  <2>1. pc[j] = "final_check"
    BY <1>9 DEF FinalCheck
  <2>2. CASE Block(j, "time") /\ UNCHANGED leases
    BY <1>1, <1>2, <2>1, <2>2 DEF Preflighting
  <2>3. CASE Admit(j)
    BY <1>1, <2>1, <2>3, Movements, Judgements DEF Admit
  <2> QED
    BY <1>9, <2>2, <2>3 DEF FinalCheck
<1>10. CASE Start(j) \/ Work(j)
  BY <1>1, <1>10, Movements DEF Start, Work
<1>11. CASE Cleanup(j)
  BY <1>1, <1>11, Movements DEF Cleanup
<1>12. CASE pc[j] = "release" /\ ReleaseNext(j, "done")
  <2>1. /\ \/ pc'[j] = pc[j] /\ since'[j] = since[j]
           \/ pc'[j] = "done" /\ leases'[j] = <<>>
        /\ outcome' = outcome
    BY <1>1, <1>12, Releasement DEF Over
  <2> QED
    BY <1>12, <2>1 DEF Releasing
<1>13. CASE pc[j] = "blocked_release" /\ ReleaseNext(j, "blocked")
  <2>1. /\ \/ pc'[j] = pc[j] /\ since'[j] = since[j]
           \/ pc'[j] = "blocked" /\ leases'[j] = <<>>
        /\ outcome' = outcome
    BY <1>1, <1>13, Releasement DEF Over
  <2> QED
    BY <1>13, <2>1 DEF Releasing
<1> QED
  BY <1>3, <1>4, <1>5, <1>6, <1>7, <1>8, <1>9, <1>10, <1>11, <1>12, <1>13
     DEF LoadStep, AcquireGuard, Release

\* A load test's verdict and what it has read fit the place it is at.
LEMMA InOrderStep ==
  ASSUME GuardInv, NEW j \in Load, LoadStep(j)
  PROVE  InOrder(j)'
<1>1. InOrder(j) /\ cfg' = cfg /\ "admitted" \notin Reason /\ outcome'[j] \in {"none", "admitted"} \cup Reason
  <2>1. TypeOK' /\ Frame(j)
    BY LoadEffect DEF GuardInv, HoldsKeys
  <2> QED
    BY <2>1 DEF GuardInv, Frame, TypeOK, Reason
<1> QED
  BY <1>1, OutcomeStep DEF InOrder, Preflighting, Working, Releasing

-----------------------------------------------------------------------------
(* The job itself: leases *)

\* A phase that begins accounts for the time the last one took.
LEMMA SpentStep ==
  ASSUME GuardInv, NEW j \in Load, LoadStep(j), leases[j] # <<>>, leases'[j] # <<>>
  PROVE  /\ since'[j] \in Nat /\ Spent(j)' \in Nat /\ since[j] \in Nat /\ Spent(j) \in Nat
         /\ since'[j] - Spent(j)' <= since[j] - Spent(j)
<1>1. TypeOK /\ TypeOK' /\ Frame(j) /\ j \in Job
  BY LoadEffect DEF GuardInv, HoldsKeys, Job
<1>2. /\ now' = now /\ cfg' = cfg /\ now \in Nat /\ since[j] \in Nat /\ since'[j] \in Nat
      /\ windowEnd[j] \in Nat
  BY <1>1, TimeFacts DEF TypeOK, Frame, Time
<1>3. cfg.runTimeout \in Nat /\ cfg.deleteTimeout \in Nat /\ Preflight \in Nat /\ Setup \in Nat
  BY <1>1, ConfigFacts, TimeFacts
<1>4. since'[j] <= now /\ now <= PhaseEnd(j)
  BY <1>2, InTimeStep DEF InTime, GuardInv
<1>5. Spent(j) \in Nat /\ Spent(j)' \in Nat
  <2>1. /\ 0 \in Nat /\ Preflight + Setup \in Nat
        /\ Preflight + Setup + cfg.runTimeout \in Nat
        /\ Preflight + Setup + cfg.runTimeout + cfg.deleteTimeout \in Nat
    BY <1>3
  <2>2. Spent(j) \in Nat
    BY <1>3, <2>1 DEF Spent
  <2>3. Spent(j)' \in Nat
    BY <1>2, <1>3, <2>1 DEF Spent
  <2> QED
    BY <2>2, <2>3
<1>6. CASE pc[j] \in Preflighting /\ pc'[j] \in Preflighting /\ since'[j] = since[j]
  BY <1>2, <1>5, <1>6 DEF Spent, Preflighting
<1>7. CASE pc[j] \in Preflighting /\ pc'[j] \in {"admitted", "blocked_release"}
  <2>1. Spent(j) = 0 /\ Spent(j)' = Preflight /\ now <= since[j] + Preflight
    BY <1>4, <1>7 DEF Spent, Preflighting, PhaseEnd, Releasing
  <2> QED
    BY <1>2, <1>3, <1>4, <2>1
<1>8. CASE pc[j] = "admitted" /\ pc'[j] = "work"
  <2>1. Spent(j) = Preflight /\ Spent(j)' = Preflight + Setup /\ now <= since[j] + Setup
    BY <1>4, <1>8 DEF Spent, Preflighting, PhaseEnd, Releasing
  <2> QED
    BY <1>2, <1>3, <1>4, <2>1
<1>9. CASE pc[j] = "work" /\ pc'[j] = "cleanup"
  <2>1. Deadline(j) \in Int
    <3>1. cfg.deleteTimeout \in Nat /\ cfg.runTimeout \in Nat
      BY <1>3
    <3>2. Grace \in Nat
      BY TimeFacts
    <3> QED
      BY <1>2, <3>1, <3>2 DEF Deadline
  <2>2. now <= since[j] + cfg.runTimeout
    BY <1>2, <1>3, <1>4, <1>9, <2>1 DEF PhaseEnd, Preflighting, Releasing
  <2>3. Spent(j) = Preflight + Setup /\ Spent(j)' = Preflight + Setup + cfg.runTimeout
    BY <1>2, <1>9 DEF Spent
  <2> QED
    BY <1>2, <1>3, <1>4, <2>2, <2>3
<1>10. CASE pc[j] = "cleanup" /\ pc'[j] = "release"
  <2>1. /\ Spent(j) = Preflight + Setup + cfg.runTimeout
        /\ Spent(j)' = Preflight + Setup + cfg.runTimeout + cfg.deleteTimeout
        /\ now <= since[j] + cfg.deleteTimeout
    BY <1>2, <1>4, <1>10 DEF Spent, Preflighting, PhaseEnd, Releasing
  <2>2. since'[j] <= since[j] + cfg.deleteTimeout
    BY <1>2, <1>3, <1>4, <2>1
  <2>3. Spent(j)' = Spent(j) + cfg.deleteTimeout
    BY <1>3, <2>1
  <2> QED
    BY <1>2, <1>3, <1>5, <2>2, <2>3
<1>11. CASE pc[j] \in Releasing /\ pc'[j] = pc[j] /\ since'[j] = since[j]
  BY <1>2, <1>5, <1>11 DEF Spent, Releasing
<1>12. pc[j] # "idle"
  BY DEF GuardInv, HoldsKeys
<1> QED
  BY <1>6, <1>7, <1>8, <1>9, <1>10, <1>11, <1>12, OutcomeStep DEF Preflighting

\* What a step of a load test leaves alone, and where it may be.
LEMMA LoadFrame ==
  ASSUME GuardInv, NEW j \in Load, LoadStep(j)
  PROVE  /\ j \in Job /\ TypeOK /\ TypeOK' /\ Frame(j) /\ LeaseStep(j)
         /\ now' = now /\ cfg' = cfg /\ Locks(j)' = Locks(j) /\ Marker(j)' = Marker(j)
         /\ leases[j] \in Seq(Lock) /\ Held(j) \subseteq Lock /\ lost'[j] \in BOOLEAN
         /\ pc[j] # "killed" /\ pc'[j] \notin {"idle", "killed"}
         /\ outcome[j] = "admitted" => outcome'[j] = "admitted"
         /\ since'[j] \in Nat /\ cfg.lockTTL \in Nat
<1>1. j \in Job /\ TypeOK /\ TypeOK' /\ Frame(j) /\ LeaseStep(j) /\ InOrder(j)
  BY LoadEffect DEF GuardInv, HoldsKeys, Job
<1>2. cfg' = cfg /\ now' = now
  BY <1>1 DEF Frame
<1>3. Locks(j)' = Locks(j) /\ Marker(j)' = Marker(j)
  BY <1>2 DEF Locks, LockOf, Keys, Marker
<1>4. leases[j] \in Seq(Lock) /\ lost'[j] \in BOOLEAN
  BY <1>1 DEF TypeOK
<1>5. Held(j) \subseteq Lock
  BY <1>4 DEF Held, Elements
<1>6. pc[j] # "killed" /\ pc'[j] \notin {"idle", "killed"}
  BY OutcomeStep DEF Preflighting, Releasing
<1>7. outcome[j] = "admitted" => outcome'[j] = "admitted"
  BY <1>1, OutcomeStep DEF InOrder, Preflighting
<1>8. since'[j] \in Nat /\ cfg.lockTTL \in Nat
  <2>1. since'[j] \in Time
    BY <1>1 DEF TypeOK
  <2> QED
    BY <1>1, <2>1, TimeFacts, ConfigFacts DEF Time
<1> QED
  BY <1>1, <1>2, <1>3, <1>4, <1>5, <1>6, <1>7, <1>8

\* A step that leaves the keys alone keeps what they promise.
LEMMA KeepsKeys ==
  ASSUME GuardInv, NEW j \in Load, LoadStep(j),
         leases'[j] = leases[j], \A k \in Held(j) : lease'[k] = lease[k],
         pc'[j] # "final_check",
         pc'[j] \in {"check", "external"} \cup Over => leases[j] = <<>>,
         Marker(j) \in Held(j) => pc'[j] = "blocked_release",
         pc'[j] \in {"recheck", "marker"} \cup Working => Locks(j) \subseteq Held(j)
  PROVE  HoldsKeys(j)' /\ Owns(j)'
<1>1. HoldsKeys(j) /\ Owns(j) /\ j \in Job
  BY DEF GuardInv, Job
<1>2. Held(j)' = Held(j) /\ Distinct(leases[j])' = Distinct(leases[j])
  BY DEF Held, Elements, Distinct
<1>3. Owns(j)'
  BY <1>1, <1>2 DEF Owns
<1>4. \A k \in Held(j) : lease'[k].until >= since'[j] + cfg'.lockTTL - Spent(j)'
  <2> SUFFICES ASSUME NEW k \in Held(j)
               PROVE  lease'[k].until >= since'[j] + cfg'.lockTTL - Spent(j)'
    OBVIOUS
  <2>1. leases[j] # <<>>
    BY EmptyElements DEF Held
  <2>2. lease'[k] = lease[k] /\ lease[k].until >= since[j] + cfg.lockTTL - Spent(j)
    BY <1>1 DEF HoldsKeys
  <2>3. lease[k].until \in Nat /\ cfg' = cfg /\ cfg.lockTTL \in Nat
    BY LoadFrame, ConfigFacts DEF TypeOK
  <2> QED
    BY <2>1, <2>2, <2>3, SpentStep
<1> QED
  BY <1>1, <1>2, <1>3, <1>4, LoadFrame DEF HoldsKeys

\* A step that gives the job no lease leaves its memory complete.
LEMMA KeepsRecall ==
  ASSUME GuardInv, NEW j \in Load, LoadStep(j), leases'[j] = leases[j],
         lost'[j] \in {lost[j], TRUE},
         lost'[j] \/ \A k \in Lock : lease'[k].holder = j => lease[k].holder = j
  PROVE  Recalls(j)'
<1>1. Recalls(j) /\ Held(j)' = Held(j)
  BY DEF GuardInv, Held, Elements
<1> QED
  BY <1>1, LoadFrame DEF Recalls

\* A key that is taken covers what is left to do.
LEMMA GainsKey ==
  ASSUME GuardInv, NEW j \in Load, LoadStep(j), NEW k \in Lock,
         leases'[j] = <<k>> \o leases[j], k \notin Held(j), lost'[j] = lost[j],
         \A l \in Lock \ {k} : lease'[l] = lease[l], lease'[k].holder = j,
         pc'[j] \in {"lease", "recheck", "final_check"},
         pc'[j] # "final_check" => k \in Locks(j) /\ Marker(j) \notin Held(j),
         pc'[j] = "recheck" => Locks(j) \subseteq {k} \cup Held(j),
         pc'[j] = "final_check" =>
           /\ k = Marker(j) /\ cfg.scheduled /\ Locks(j) \subseteq Held(j)
           /\ lease'[k].until >= windowEnd'[j] + Grace,
         lease'[k].until >= since'[j] + cfg.lockTTL
  PROVE  HoldsKeys(j)' /\ Owns(j)' /\ Recalls(j)'
<1>1. HoldsKeys(j) /\ Owns(j) /\ Recalls(j)
  BY DEF GuardInv, Job
<1>2. /\ j \in Job /\ TypeOK /\ TypeOK' /\ cfg' = cfg /\ Locks(j)' = Locks(j)
      /\ Marker(j)' = Marker(j) /\ leases[j] \in Seq(Lock) /\ Held(j) \subseteq Lock
      /\ pc[j] # "killed" /\ (outcome[j] = "admitted" => outcome'[j] = "admitted")
  BY LoadFrame
<1>3. /\ leases'[j] # <<>> /\ Head(leases'[j]) = k
      /\ Held(j)' = {k} \cup Held(j) /\ Distinct(leases[j])'
  BY <1>1, <1>2, PushElement DEF HoldsKeys, Held
<1>4. Owns(j)'
  BY <1>1, <1>2, <1>3 DEF Owns
<1>5. Recalls(j)'
  BY <1>1, <1>2, <1>3 DEF Recalls
<1>6. Spent(j)' = 0 /\ since'[j] \in Nat /\ cfg.lockTTL \in Nat
  <2>1. Spent(j)' = 0
    BY DEF Spent
  <2> QED
    BY <2>1, LoadFrame
<1>7. \A l \in Held(j)' : lease'[l].until >= since'[j] + cfg'.lockTTL - Spent(j)'
  <2> SUFFICES ASSUME NEW l \in Held(j), l # k
               PROVE  lease'[l].until >= since'[j] + cfg'.lockTTL - Spent(j)'
    BY <1>2, <1>3, <1>6
  <2>1. leases[j] # <<>>
    BY EmptyElements DEF Held
  <2>2. lease'[l] = lease[l] /\ lease[l].until >= since[j] + cfg.lockTTL - Spent(j)
    BY <1>1, <1>2 DEF HoldsKeys
  <2>3. lease[l].until \in Nat
    BY <1>2 DEF TypeOK
  <2>4. /\ since[j] \in Nat /\ Spent(j) \in Nat
        /\ since'[j] - Spent(j)' <= since[j] - Spent(j)
    BY <1>3, <2>1, SpentStep
  <2> QED
    BY <1>2, <1>6, <2>2, <2>3, <2>4
<1>8. Marker(j) \notin Locks(j)
  BY <1>2, LocksOfLoad
<1> QED
  BY <1>1, <1>2, <1>3, <1>4, <1>5, <1>7, <1>8 DEF HoldsKeys, Working, Over

\* A key that is released is one that nothing depends on any longer.
LEMMA DropsKey ==
  ASSUME GuardInv, NEW j \in Load, LoadStep(j), leases[j] # <<>>,
         leases'[j] = Tail(leases[j]), lost'[j] \in {lost[j], TRUE},
         \A l \in Lock \ {Head(leases[j])} : lease'[l] = lease[l],
         \/ lost'[j] \/ lease'[Head(leases[j])].holder # j
         \/ Head(leases[j]) = Marker(j) /\ outcome'[j] = "admitted",
         pc'[j] \in Releasing \cup Over \cup {"admitted"},
         pc'[j] \in Over => leases'[j] = <<>>,
         pc'[j] \in {"release", "admitted"} =>
            (Marker(j) \in Held(j) => Head(leases[j]) = Marker(j)),
         pc'[j] = "admitted" => Locks(j) \subseteq Held(j) \ {Head(leases[j])}
  PROVE  HoldsKeys(j)' /\ Owns(j)' /\ Recalls(j)'
<1> DEFINE k == Head(leases[j])
<1>1. HoldsKeys(j) /\ Owns(j) /\ Recalls(j)
  BY DEF GuardInv, Job
<1>2. /\ j \in Job /\ TypeOK /\ TypeOK' /\ cfg' = cfg /\ Locks(j)' = Locks(j)
      /\ Marker(j)' = Marker(j) /\ leases[j] \in Seq(Lock) /\ Held(j) \subseteq Lock
      /\ pc[j] # "killed" /\ (outcome[j] = "admitted" => outcome'[j] = "admitted")
  BY LoadFrame
<1>3. /\ k \notin Held(j)' /\ Held(j) = {k} \cup Held(j)' /\ Distinct(leases[j])'
      /\ k \in Lock
  BY <1>1, <1>2, PopElement DEF HoldsKeys, Held
<1>4. Owns(j)'
  BY <1>1, <1>2, <1>3 DEF Owns
<1>5. Recalls(j)'
  BY <1>1, <1>2, <1>3 DEF Recalls
<1>6. \A l \in Held(j)' : lease'[l].until >= since'[j] + cfg'.lockTTL - Spent(j)'
  <2> SUFFICES ASSUME NEW l \in Held(j), l # k, leases'[j] # <<>>
               PROVE  lease'[l].until >= since'[j] + cfg'.lockTTL - Spent(j)'
    BY <1>3, EmptyElements DEF Held
  <2>1. lease'[l] = lease[l] /\ lease[l].until >= since[j] + cfg.lockTTL - Spent(j)
    BY <1>1, <1>2 DEF HoldsKeys
  <2>2. lease[l].until \in Nat /\ cfg.lockTTL \in Nat
    BY <1>2, ConfigFacts DEF TypeOK
  <2>3. /\ since'[j] \in Nat /\ Spent(j)' \in Nat /\ since[j] \in Nat /\ Spent(j) \in Nat
        /\ since'[j] - Spent(j)' <= since[j] - Spent(j)
    BY SpentStep
  <2>4. lease'[l].until = lease[l].until /\ cfg'.lockTTL = cfg.lockTTL
    BY <1>2, <2>1
  <2> QED
    BY <2>1, <2>2, <2>3, <2>4
<1> HIDE DEF k
<1>7. Marker(j) \in Held(j)' => cfg.scheduled /\ pc'[j] = "blocked_release"
  <2>1. leases'[j] = <<>> => Held(j)' = {}
    BY EmptyElements DEF Held
  <2> QED
    BY <1>1, <1>3, <2>1 DEF HoldsKeys, Over, Releasing, k
<1> QED
  BY <1>1, <1>2, <1>3, <1>4, <1>5, <1>6, <1>7
     DEF HoldsKeys, Working, Over, Releasing, k

\* Every lease a load test acquires lasts for the accepted TTL from the start of
\* the acquisition at least, and a marker until its window is over.
LEMMA LoadEnds ==
  ASSUME GuardInv, NEW j \in Load
  PROVE  /\ \A k \in Keys(j) :
               \A end \in (IF LockOf(j, k) \in File THEN {Never} ELSE LockEnds(j)) :
                  end >= since[j] + cfg.lockTTL
         /\ \A end \in MarkerEnds(j) :
               end >= since[j] + cfg.lockTTL /\ end >= windowEnd[j] + Grace
<1>1. TypeOK /\ j \in Job
  BY DEF GuardInv, Job
<1>2. /\ now \in Nat /\ since[j] \in Nat /\ since[j] <= MaxTime /\ windowEnd[j] \in Nat
      /\ cfg.lockTTL \in Nat /\ Grace \in Nat
  <2>1. now \in Nat /\ since[j] \in Nat /\ windowEnd[j] \in Nat
    BY <1>1, TimeFacts DEF TypeOK, Time
  <2>2. since[j] <= MaxTime
    BY <1>1, TimeFacts DEF TypeOK, Time
  <2>3. cfg.lockTTL \in Nat /\ Grace \in Nat
    BY <1>1, TimeFacts, ConfigFacts
  <2> QED
    BY <2>1, <2>2, <2>3
<1>3. \A end \in LockEnds(j) : end >= since[j] + cfg.lockTTL
  BY <1>2 DEF LockEnds, Starts
<1>4. ASSUME NEW k \in Keys(j)
      PROVE  Never >= since[j] + cfg.lockTTL
  <2>1. cfg.lockTTL <= MaxLockTTL
    BY <1>1, <1>4, ConfigFacts DEF Keys
  <2> QED
    BY <1>2, <2>1, TimeFacts DEF Never
<1>5. ASSUME NEW t \in Starts(j), NEW u \in since[j]..t
      PROVE  /\ t + MarkerTTL(j, u) >= since[j] + cfg.lockTTL
             /\ t + MarkerTTL(j, u) >= windowEnd[j] + Grace
  BY <1>2 DEF Starts, MarkerTTL
<1> QED
  BY <1>3, <1>4, <1>5 DEF MarkerEnds

\* A failed acquisition touches none of the leases held.
LEMMA FailureKeeps ==
  ASSUME GuardInv, NEW j \in Load, NEW k \in Lock, NEW ends \in SUBSET Nat,
         AcquireFails(j, k, ends)
  PROVE  /\ \A l \in Held(j) : lease'[l] = lease[l]
         /\ lost'[j] \in {lost[j], TRUE}
         /\ lost'[j] \/ \A l \in Lock : lease'[l].holder = j => lease[l].holder = j
<1>1. TypeOK /\ j \in Job
  BY DEF GuardInv, Job
<1>2. /\ lost'[j] \in {lost[j], TRUE} /\ \A l \in Lock \ {k} : lease'[l] = lease[l]
      /\ lease' = lease \/ (lost'[j] /\ Available(k))
  BY <1>1, Failure
<1>3. \A l \in Held(j) : l \in Lock /\ ~Available(l)
  BY <1>1, HeldIsTaken
<1> QED
  BY <1>2, <1>3

\* Taking the next lease.
LEMMA TakeLeaseKeys ==
  ASSUME GuardInv, NEW j \in Load, TakeLease(j)
  PROVE  HoldsKeys(j)' /\ Owns(j)' /\ Recalls(j)'
<1>1. /\ TypeOK /\ j \in Job /\ LoadStep(j) /\ HoldsKeys(j) /\ pc[j] = "lease"
      /\ UNCHANGED <<now, cfg, windowEnd>> /\ LockEnds(j) \in SUBSET Nat /\ "recheck" \in State
      /\ "error" \in Reason
  BY EndsAreTimes
     DEF GuardInv, Job, LoadStep, AcquireGuard, TakeLease, State, Preflighting, Reason
<1>2. Marker(j) \notin Held(j) /\ \A k \in Keys(j) : LockOf(j, k) \in Locks(j) /\ LockOf(j, k) \in Lock
  BY <1>1, LocksOfLoad DEF HoldsKeys, Locks
<1>3. ASSUME NEW why \in Reason, Block(j, why), UNCHANGED leases,
             \A k \in Held(j) : lease'[k] = lease[k],
             lost'[j] \in {lost[j], TRUE},
             lost'[j] \/ \A k \in Lock : lease'[k].holder = j => lease[k].holder = j
      PROVE  HoldsKeys(j)' /\ Owns(j)' /\ Recalls(j)'
  <2>1. /\ pc'[j] \in {"blocked", "blocked_release"} /\ (pc'[j] = "blocked" => leases[j] = <<>>)
    BY <1>1, <1>3, Blocks
  <2> QED
    BY <1>1, <1>2, <1>3, <2>1, KeepsKeys, KeepsRecall DEF Over, Working
<1>4. CASE /\ \A k \in Keys(j) : LockOf(j, k) \in Held(j)
           /\ Goto(j, "recheck") /\ UNCHANGED <<lease, since, leases, outcome, lost>>
  <2>1. pc'[j] = "recheck" /\ Locks(j) \subseteq Held(j)
    BY <1>1, <1>4, Movements DEF Locks
  <2> QED
    BY <1>1, <1>2, <1>4, <2>1, KeepsKeys, KeepsRecall DEF Over
<1>5. ASSUME NEW k \in Keys(j), LockOf(j, k) \notin Held(j),
             Acquires(j, LockOf(j, k), LockEnds(j)), UNCHANGED <<since, outcome, lost>>,
             \/ UNCHANGED pc
             \/ /\ Goto(j, "recheck")
                /\ \A l \in Keys(j) : LockOf(j, l) \notin Held(j) => l = k
      PROVE  HoldsKeys(j)' /\ Owns(j)' /\ Recalls(j)'
  <2>1. /\ leases'[j] = <<LockOf(j, k)>> \o leases[j]
        /\ \A l \in Lock \ {LockOf(j, k)} : lease'[l] = lease[l]
        /\ lease'[LockOf(j, k)].holder = j
        /\ lease'[LockOf(j, k)].until \in IF LockOf(j, k) \in File THEN {Never} ELSE LockEnds(j)
    BY <1>1, <1>2, <1>5, Acquisition
  <2>2. lease'[LockOf(j, k)].until >= since'[j] + cfg.lockTTL
    BY <1>5, <2>1, LoadEnds
  <2>3. \/ pc'[j] = "lease"
        \/ pc'[j] = "recheck" /\ Locks(j) \subseteq {LockOf(j, k)} \cup Held(j)
    BY <1>1, <1>5, Movements DEF Locks
  <2> QED
    BY <1>1, <1>2, <1>5, <2>1, <2>2, <2>3, GainsKey
<1>6. ASSUME NEW k \in Keys(j), Block(j, HolderKind(LockOf(j, k))),
             UNCHANGED <<lease, leases, lost>>
      PROVE  HoldsKeys(j)' /\ Owns(j)' /\ Recalls(j)'
  <2>1. HolderKind(LockOf(j, k)) \in Reason
    BY DEF HolderKind, Reason
  <2> QED
    BY <1>3, <1>6, <2>1
<1>7. ASSUME NEW k \in Keys(j), AcquireFails(j, LockOf(j, k), LockEnds(j)),
             Block(j, "error"), UNCHANGED leases
      PROVE  HoldsKeys(j)' /\ Owns(j)' /\ Recalls(j)'
  BY <1>1, <1>2, <1>3, <1>7, FailureKeeps
<1> DEFINE missing == {k \in Keys(j) : LockOf(j, k) \notin Held(j)}
<1>8. CASE /\ missing = {}
           /\ Goto(j, "recheck") /\ UNCHANGED <<lease, since, leases, outcome, lost>>
  BY <1>4, <1>8
<1>9. ASSUME NEW k \in missing, Acquires(j, LockOf(j, k), LockEnds(j)),
             IF missing = {k} THEN Goto(j, "recheck") ELSE UNCHANGED pc,
             UNCHANGED <<since, outcome, lost>>
      PROVE  HoldsKeys(j)' /\ Owns(j)' /\ Recalls(j)'
  BY <1>5, <1>9
<1> QED
  BY <1>6, <1>7, <1>8, <1>9 DEF TakeLease

\* Taking the daily marker.
LEMMA AdmitOnceKeys ==
  ASSUME GuardInv, NEW j \in Load, AdmitOnce(j)
  PROVE  HoldsKeys(j)' /\ Owns(j)' /\ Recalls(j)'
<1>1. /\ TypeOK /\ j \in Job /\ LoadStep(j) /\ HoldsKeys(j) /\ pc[j] = "marker"
      /\ UNCHANGED <<now, cfg, windowEnd>> /\ MarkerEnds(j) \in SUBSET Nat
      /\ "final_check" \in State /\ {"daily", "error"} \subseteq Reason /\ cfg.scheduled
  BY EndsAreTimes DEF GuardInv, Job, LoadStep, AcquireGuard, AdmitOnce, InOrder,
                      State, Preflighting, Reason
<1>2. /\ Marker(j) \notin Held(j) /\ Locks(j) \subseteq Held(j)
      /\ Marker(j) \in Lock /\ Marker(j) \notin File
  BY <1>1, LocksOfLoad DEF HoldsKeys
<1>3. ASSUME NEW why \in Reason, Block(j, why), UNCHANGED leases,
             \A k \in Held(j) : lease'[k] = lease[k],
             lost'[j] \in {lost[j], TRUE},
             lost'[j] \/ \A k \in Lock : lease'[k].holder = j => lease[k].holder = j
      PROVE  HoldsKeys(j)' /\ Owns(j)' /\ Recalls(j)'
  <2>1. /\ pc'[j] \in {"blocked", "blocked_release"} /\ (pc'[j] = "blocked" => leases[j] = <<>>)
    BY <1>1, <1>3, Blocks
  <2> QED
    BY <1>1, <1>2, <1>3, <2>1, KeepsKeys, KeepsRecall DEF Over, Working
<1>4. CASE Acquires(j, Marker(j), MarkerEnds(j)) /\ Goto(j, "final_check")
           /\ UNCHANGED <<since, outcome, lost>>
  <2>1. /\ leases'[j] = <<Marker(j)>> \o leases[j]
        /\ \A l \in Lock \ {Marker(j)} : lease'[l] = lease[l]
        /\ lease'[Marker(j)].holder = j
        /\ lease'[Marker(j)].until \in MarkerEnds(j)
    BY <1>1, <1>2, <1>4, Acquisition
  <2>2. /\ lease'[Marker(j)].until >= since'[j] + cfg.lockTTL
        /\ lease'[Marker(j)].until >= windowEnd'[j] + Grace
    BY <1>1, <1>4, <2>1, LoadEnds
  <2>3. pc'[j] = "final_check"
    BY <1>1, <1>4, Movements
  <2> QED
    BY <1>1, <1>2, <1>4, <2>1, <2>2, <2>3, GainsKey
<1>5. CASE Block(j, "daily") /\ UNCHANGED <<lease, leases, lost>>
  BY <1>1, <1>3, <1>5
<1>6. CASE AcquireFails(j, Marker(j), MarkerEnds(j)) /\ Block(j, "error") /\ UNCHANGED leases
  BY <1>1, <1>2, <1>3, <1>6, FailureKeeps
<1> QED
  BY <1>4, <1>5, <1>6 DEF AdmitOnce

\* Any step of a load test.
LEMMA KeysStep ==
  ASSUME GuardInv, NEW j \in Load, LoadStep(j)
  PROVE  HoldsKeys(j)' /\ Owns(j)' /\ Recalls(j)'
<1>1. /\ TypeOK /\ j \in Job /\ HoldsKeys(j) /\ InOrder(j) /\ Owns(j) /\ j # NoHolder
      /\ {"check", "external", "lease", "recheck", "marker", "admitted", "work", "cleanup",
          "done", "release"} \subseteq State
      /\ {"time", "config", "error"} \subseteq Reason
  BY LoadGuardAssumption
     DEF GuardInv, Job, State, Preflighting, Working, Over, Releasing, Reason
<1>2. UNCHANGED <<lease, leases, lost>> => Recalls(j)'
  BY KeepsRecall
<1>3. ASSUME NEW why \in Reason, Block(j, why), UNCHANGED <<lease, leases, lost>>
      PROVE  HoldsKeys(j)' /\ Owns(j)' /\ Recalls(j)'
  <2>1. /\ pc'[j] \in {"blocked", "blocked_release"} /\ (pc'[j] = "blocked" => leases[j] = <<>>)
        /\ Marker(j) \in Held(j) => pc'[j] = "blocked_release"
    BY <1>1, <1>3, Blocks, EmptyElements DEF Held
  <2> QED
    BY <1>1, <1>2, <1>3, <2>1, KeepsKeys DEF Over, Working
<1>4. ASSUME NEW l \in {"check", "external", "lease"}, pc'[j] = l, leases[j] = <<>>,
             UNCHANGED <<lease, leases, lost>>
      PROVE  HoldsKeys(j)' /\ Owns(j)' /\ Recalls(j)'
  BY <1>1, <1>2, <1>4, KeepsKeys, EmptyElements DEF Over, Working, Held
<1>5. ASSUME NEW l \in {"marker"} \cup Working, pc'[j] = l,
             pc[j] \in {"recheck"} \cup Working, UNCHANGED <<lease, leases, lost>>
      PROVE  HoldsKeys(j)' /\ Owns(j)' /\ Recalls(j)'
  <2>1. Marker(j) \notin Held(j) /\ Locks(j) \subseteq Held(j)
    BY <1>1, <1>5 DEF HoldsKeys, Working
  <2> QED
    BY <1>1, <1>2, <1>5, <2>1, KeepsKeys DEF Over, Working
<1>6. CASE Begin(j)
  BY <1>1, <1>4, <1>6, Movements DEF Begin, HoldsKeys
<1>7. CASE Check(j)
  <2>1. CASE Block(j, "time")
    BY <1>1, <1>3, <1>7, <2>1 DEF Check
  <2>2. CASE Goto(j, "external") /\ UNCHANGED since
    BY <1>1, <1>4, <1>7, <2>2, Movements DEF Check, HoldsKeys
  <2> QED
    BY <1>7, <2>1, <2>2 DEF Check
<1>8. CASE CheckExternal(j)
  <2>1. CASE \E why \in Reason : Block(j, why)
    BY <1>3, <1>8, <2>1 DEF CheckExternal
  <2>2. CASE Goto(j, "lease") /\ UNCHANGED since
    BY <1>1, <1>4, <1>8, <2>2, Movements DEF CheckExternal, HoldsKeys
  <2> QED
    BY <1>1, <1>8, <2>1, <2>2 DEF CheckExternal
<1>9. CASE Recheck(j)
  <2>1. CASE Block(j, "time")
    BY <1>1, <1>3, <1>9, <2>1 DEF Recheck
  <2>2. CASE Goto(j, "marker") /\ UNCHANGED since
    BY <1>1, <1>5, <1>9, <2>2, Movements DEF Recheck
  <2>3. CASE Admit(j)
    BY <1>1, <1>5, <1>9, <2>3, Movements DEF Recheck, Admit, Working
  <2> QED
    BY <1>9, <2>1, <2>2, <2>3 DEF Recheck
<1>10. CASE FinalCheck(j)
  <2>1. pc[j] = "final_check" /\ UNCHANGED <<now, cfg, lease, windowEnd, lost>>
    BY <1>10 DEF FinalCheck
  <2>2. CASE Block(j, "time") /\ UNCHANGED leases
    BY <1>1, <1>3, <2>1, <2>2
  <2>3. CASE Admit(j) /\ leases' = [leases EXCEPT ![j] = Tail(@)]
    <3>1. /\ leases[j] # <<>> /\ Head(leases[j]) = Marker(j) /\ Locks(j) \subseteq Held(j)
          /\ Marker(j) \notin Locks(j)
      BY <1>1, <2>1, LocksOfLoad DEF HoldsKeys
    <3>2. pc'[j] = "admitted" /\ outcome'[j] = "admitted" /\ leases'[j] = Tail(leases[j])
      BY <1>1, <2>3, <3>1, Movements, Judgements, Pops DEF Admit
    <3> QED
      BY <2>1, <3>1, <3>2, DropsKey DEF Releasing, Over
  <2> QED
    BY <1>10, <2>2, <2>3 DEF FinalCheck
<1>11. CASE Start(j) \/ Work(j)
  BY <1>1, <1>5, <1>11, Movements DEF Start, Work, Working
<1>12. CASE Cleanup(j)
  <2>1. /\ pc[j] = "cleanup" /\ UNCHANGED <<lease, leases, lost>>
        /\ \/ pc'[j] = "done" /\ leases[j] = <<>>
           \/ pc'[j] = "release"
    BY <1>1, <1>12, Movements DEF Cleanup
  <2>2. Marker(j) \notin Held(j)
    BY <1>1, <2>1 DEF HoldsKeys
  <2> QED
    BY <1>2, <2>1, <2>2, KeepsKeys DEF Over, Working
<1>13. ASSUME NEW over \in {"done", "blocked"}, ReleaseNext(j, over),
              pc[j] = IF over = "done" THEN "release" ELSE "blocked_release"
       PROVE  HoldsKeys(j)' /\ Owns(j)' /\ Recalls(j)'
  <2>1. /\ leases[j] # <<>> /\ leases'[j] = Tail(leases[j]) /\ lost'[j] \in {lost[j], TRUE}
        /\ Head(leases[j]) \in Lock
        /\ \A l \in Lock \ {Head(leases[j])} : lease'[l] = lease[l]
        /\ lost'[j] \/ (lease[Head(leases[j])].holder = j => lease'[Head(leases[j])] = Free)
        /\ IF Tail(leases[j]) = <<>> THEN pc'[j] = over ELSE pc'[j] = pc[j]
    BY <1>1, <1>13, Releasement DEF Over
  <2>2. lease[Head(leases[j])].holder = j
    <3>1. Head(leases[j]) \in Held(j)
      BY <1>1, <2>1, PopElement DEF Held, TypeOK
    <3> QED
      BY <1>1, <3>1 DEF Owns
  <2>3. lost'[j] \/ lease'[Head(leases[j])].holder # j
    BY <1>1, <2>1, <2>2 DEF Free
  <2>4. pc[j] = "release" => Marker(j) \notin Held(j)
    BY <1>1 DEF HoldsKeys
  <2> QED
    BY <1>13, <2>1, <2>3, <2>4, DropsKey DEF Releasing, Over
<1> QED
  BY <1>6, <1>7, <1>8, <1>9, <1>10, <1>11, <1>12, <1>13, TakeLeaseKeys, AdmitOnceKeys
     DEF LoadStep, AcquireGuard, Release

-----------------------------------------------------------------------------
(* Canaries *)

\* A canary at work has a lease that outlasts its task timeout.
LEMMA BenchStepKeeps ==
  ASSUME GuardInv, NEW b \in Bench, BenchStep(b)
  PROVE  HoldsLease(b)' /\ Owns(b)'
<1>1. /\ TypeOK /\ b \in Job /\ HoldsLease(b) /\ Owns(b) /\ Frame(b)
      /\ {"lease", "work", "release", "skipped", "done"} \subseteq State /\ "done" \in Over
      /\ BenchLock(b) \in Lock /\ BenchEnds(b) \in SUBSET Nat
  BY LocksOfBench, EndsAreTimes, BenchEffect
     DEF GuardInv, Job, State, Preflighting, Working, Over, Releasing
<1>2. now' = now /\ cfg' = cfg /\ BenchLock(b)' = BenchLock(b)
  BY <1>1 DEF Frame, BenchLock, LockOf, BenchKey
<1>3. now \in Nat /\ now <= MaxTime /\ since[b] \in Nat /\ since[b] <= MaxTime
  BY <1>1, TimeFacts DEF TypeOK, Time
<1>4. \A l \in Held(b) : l \in Lock /\ ~Available(l)
  BY <1>1, HeldIsTaken
<1>5. ASSUME leases'[b] = leases[b], \A k \in Held(b) : lease'[k] = lease[k]
      PROVE  /\ Owns(b)' /\ Distinct(leases[b])' /\ Held(b)' = Held(b)
             /\ Held(b)' \subseteq {BenchLock(b)'}
  <2>1. Distinct(leases[b])' = Distinct(leases[b]) /\ Held(b)' = Held(b)
    BY <1>5 DEF Held, Elements, Distinct
  <2> QED
    BY <1>1, <1>2, <1>5, <2>1 DEF Owns, HoldsLease
<1>6. CASE BenchBegin(b)
  <2>1. /\ pc[b] = "idle" /\ pc'[b] = "lease" /\ since'[b] = now
        /\ UNCHANGED <<lease, leases>> /\ leases[b] = <<>>
    BY <1>1, <1>6, Movements DEF BenchBegin, HoldsLease
  <2>2. Held(b) = {}
    BY <2>1, EmptyElements DEF Held
  <2> QED
    BY <1>2, <1>3, <1>5, <2>1, <2>2, TimeFacts DEF HoldsLease, BenchEnd, Over
<1>7. CASE BenchAcquire(b)
  <2>1. pc[b] = "lease" /\ leases[b] = <<>> /\ Held(b) = {}
    BY <1>1, <1>7, EmptyElements DEF BenchAcquire, HoldsLease, Held
  <2>2. CASE Acquires(b, BenchLock(b), BenchEnds(b)) /\ Goto(b, "work") /\ UNCHANGED <<since, lost>>
    <3>1. /\ leases'[b] = <<BenchLock(b)>> \o leases[b] /\ lease'[BenchLock(b)].holder = b
          /\ lease'[BenchLock(b)].until \in
               IF BenchLock(b) \in File THEN {Never} ELSE BenchEnds(b)
      BY <1>1, <2>2, Acquisition
    <3>2. pc'[b] = "work" /\ since'[b] = since[b]
      BY <1>1, <2>2, Movements
    <3>3. lease'[BenchLock(b)].until >= since[b] + BenchTTL
      <4>1. \A end \in BenchEnds(b) : end >= since[b] + BenchTTL
        BY <1>3, TimeFacts DEF BenchEnds, Starts
      <4>2. Never >= since[b] + BenchTTL
        BY <1>3, TimeFacts DEF Never
      <4> QED
        BY <3>1, <4>1, <4>2
    <3>4. Held(b)' = {BenchLock(b)} /\ Distinct(leases[b])' /\ leases'[b] # <<>>
      <4>1. leases'[b] = <<BenchLock(b)>> \o <<>>
        BY <2>1, <3>1
      <4>2. Held(b)' = Elements(leases'[b]) /\ Distinct(leases[b])' = Distinct(leases'[b])
        BY DEF Held, Elements, Distinct
      <4> QED
        BY <4>1, <4>2, SingleElement
    <3>5. since[b] <= now /\ now <= since[b] + BenchBound
      BY <1>1, <2>1 DEF HoldsLease, BenchEnd
    <3>6. Owns(b)'
      BY <3>1, <3>4 DEF Owns
    <3> QED
      BY <1>2, <3>1, <3>2, <3>3, <3>4, <3>5, <3>6 DEF HoldsLease, BenchEnd, Over
  <2>3. CASE Exit(b, "skipped") /\ UNCHANGED leases
    <3>1. pc'[b] = "skipped" /\ since'[b] = 0
      BY <1>1, <2>3, Movements
    <3> QED
      BY <1>2, <1>3, <1>5, <2>1, <2>3, <3>1 DEF HoldsLease, BenchEnd, Over
  <2>4. CASE Exit(b, "done") /\ UNCHANGED leases
    <3>1. pc'[b] = "done" /\ since'[b] = 0
      BY <1>1, <2>4, Movements
    <3> QED
      BY <1>2, <1>3, <1>5, <2>1, <2>4, <3>1 DEF HoldsLease, BenchEnd, Over
  <2> QED
    BY <1>7, <2>2, <2>3, <2>4 DEF BenchAcquire
<1>8. CASE BenchWork(b)
  <2>1. /\ pc[b] = "work" /\ pc'[b] = "release" /\ since'[b] = since[b]
        /\ UNCHANGED <<lease, leases>>
    BY <1>1, <1>8, Movements DEF BenchWork
  <2> QED
    BY <1>1, <1>2, <1>3, <1>5, <2>1 DEF HoldsLease, BenchEnd, Over
<1>9. CASE pc[b] = "release" /\ ReleaseNext(b, "done")
  <2>1. /\ leases[b] # <<>> /\ leases'[b] = Tail(leases[b])
        /\ \A l \in Lock \ {Head(leases[b])} : lease'[l] = lease[l]
        /\ IF Tail(leases[b]) = <<>> THEN pc'[b] = "done" /\ since'[b] = 0
                                     ELSE pc'[b] = pc[b] /\ since'[b] = since[b]
    BY <1>1, <1>9, Releasement
  <2>2. /\ Head(leases[b]) \notin Held(b)' /\ Held(b)' \subseteq Held(b)
        /\ Distinct(leases[b])'
    BY <1>1, <2>1, PopElement DEF HoldsLease, Held, TypeOK
  <2>3. \A l \in Held(b)' : lease'[l] = lease[l] /\ l \in Held(b)
    BY <1>4, <2>1, <2>2
  <2>4. Owns(b)'
    BY <1>1, <2>3 DEF Owns
  <2>5. leases'[b] = <<>> => Held(b)' = {}
    BY EmptyElements DEF Held
  <2> QED
    BY <1>1, <1>2, <1>3, <1>9, <2>1, <2>2, <2>3, <2>4, <2>5 DEF HoldsLease, BenchEnd, Over
<1> QED
  BY <1>6, <1>7, <1>8, <1>9 DEF BenchStep

-----------------------------------------------------------------------------
(* Killed processes *)

\* A killed process has nothing left to keep.
LEMMA KillKeeps ==
  ASSUME GuardInv, NEW j \in Job, Kill(j)
  PROVE  /\ Owns(j)'
         /\ j \in Load => InTime(j)' /\ InOrder(j)' /\ HoldsKeys(j)' /\ Recalls(j)'
         /\ j \in Bench => HoldsLease(j)'
<1>1. /\ TypeOK /\ TypeOK' /\ Frame(j) /\ cfg' = cfg /\ now' = now
      /\ pc'[j] = "killed" /\ since'[j] = 0 /\ leases'[j] = <<>>
      /\ UNCHANGED <<windowEnd, outcome, lost>>
      /\ now \in Nat /\ now <= MaxTime
  <2>1. TypeOK
    BY DEF GuardInv
  <2>2. now \in Nat /\ now <= MaxTime
    BY <2>1, TimeFacts DEF TypeOK, Time
  <2> QED
    BY <2>1, <2>2, KillEffect DEF Frame
<1>2. Held(j)' = {} /\ Distinct(leases[j])'
  <2>1. Held(j)' = Elements(leases'[j]) /\ Distinct(leases[j])' = Distinct(leases'[j])
    BY DEF Held, Elements, Distinct
  <2> QED
    BY <1>1, <2>1, EmptyElements
<1>3. Owns(j)'
  BY <1>2 DEF Owns
<1>4. ASSUME j \in Load
      PROVE  InTime(j)' /\ InOrder(j)' /\ HoldsKeys(j)' /\ Recalls(j)'
  <2>1. InTime(j) /\ InOrder(j)
    BY <1>4 DEF GuardInv
  <2>2. InTime(j)'
    BY <1>1, <2>1 DEF InTime, PhaseEnd, Preflighting, Working, Releasing, EndOf
  <2>3. InOrder(j)'
    BY <1>1, <2>1 DEF InOrder, Preflighting, Working
  <2>4. HoldsKeys(j)'
    BY <1>1, <1>2 DEF HoldsKeys, Working
  <2>5. Recalls(j)'
    BY <1>1 DEF Recalls
  <2> QED
    BY <2>2, <2>3, <2>4, <2>5
<1>5. ASSUME j \in Bench
      PROVE  HoldsLease(j)'
  BY <1>1, <1>2 DEF HoldsLease, BenchEnd
<1> QED
  BY <1>3, <1>4, <1>5

-----------------------------------------------------------------------------
(* Daily markers *)

Step(j) == (j \in Load /\ LoadStep(j)) \/ (j \in Bench /\ BenchStep(j)) \/ Kill(j)

\* Every step leaves the other jobs alone.
LEMMA StepFrame ==
  ASSUME GuardInv, NEW j \in Job, Step(j)
  PROVE  TypeOK' /\ Frame(j) /\ LeaseStep(j)
<1>1. TypeOK /\ \A i \in Load : HoldsKeys(i)
  BY DEF GuardInv
<1>2. CASE j \in Load /\ LoadStep(j)
  BY <1>1, <1>2, LoadEffect DEF HoldsKeys
<1> QED
  BY <1>1, <1>2, BenchEffect, KillEffect DEF Step

\* A load test that has a window keeps it, and its place.
LEMMA Advances ==
  ASSUME GuardInv, NEW j \in Job, Step(j), NEW i \in Load
  PROVE  /\ pc[i] \notin Unmarked => pc'[i] \notin Unmarked
         /\ pc[i] \notin {"idle", "check"} =>
              pc'[i] \notin {"idle", "check"} /\ windowEnd'[i] = windowEnd[i]
<1>1. CASE i # j
  BY <1>1, StepFrame DEF Frame, Job
<1>2. CASE i = j /\ Kill(j)
  <2>1. pc'[i] = "killed" /\ windowEnd' = windowEnd
    BY <1>2, KillEffect DEF GuardInv
  <2> QED
    BY <2>1 DEF Unmarked
<1>3. CASE i = j /\ LoadStep(j)
  <2>1. /\ pc[i] \notin Unmarked => pc'[i] \notin Unmarked
        /\ pc[i] \notin {"idle", "check"} => pc'[i] \notin {"idle", "check"}
    BY <1>3, OutcomeStep DEF Unmarked, Preflighting, Releasing
  <2>2. pc[i] \notin {"idle", "check"} => windowEnd'[i] = windowEnd[i]
    BY <1>3 DEF LoadStep, AcquireGuard, Begin, Check, CheckExternal, TakeLease, Recheck,
                AdmitOnce, FinalCheck, Start, Work, Cleanup, Release, ReleaseNext
  <2> QED
    BY <2>1, <2>2
<1> QED
  BY <1>1, <1>2, <1>3, LoadGuardAssumption DEF Step

\* The window of a load test about to mark it opened in its preflight, and is the
\* only one in which the marker it finds may have been left.
LEMMA WindowOfMarker ==
  ASSUME GuardInv, NEW j \in Load, pc[j] = "marker"
  PROVE  /\ cfg.scheduled /\ windowEnd[j] # 0 /\ now + Grace <= windowEnd[j] + Preflight
         /\ \E t \in Nat : /\ windowEnd[j] = EndOf(t) /\ StartOf(t) <= now
                           /\ now < EndOf(t)
<1>1. /\ TypeOK /\ InTime(j) /\ cfg.scheduled /\ j \in Job
  BY DEF GuardInv, InOrder, Job
<1>2. now \in Nat /\ since[j] \in Nat
  BY <1>1, TimeFacts DEF TypeOK, Time
<1>3. PICK t \in since[j]..now : InWindow(t) /\ windowEnd[j] = EndOf(t)
  BY <1>1 DEF InTime, Preflighting
<1>4. since[j] <= now /\ now <= since[j] + Preflight
  BY <1>1 DEF InTime, PhaseEnd, Preflighting, Working, Releasing
<1>5. t \in Nat /\ StartOf(t) \in Nat /\ EndOf(t) \in Nat
  BY <1>1, <1>2, <1>3, DayFacts
<1>6. StartOf(t) <= t /\ t + BudgetOf(cfg) <= EndOf(t)
  BY <1>3 DEF InWindow
<1> QED
  BY <1>1, <1>2, <1>3, <1>4, <1>5, <1>6, ConfigFacts, TimeFacts

\* A marker in the way is that of another execution of the same window: those of other
\* days have expired.
LEMMA SameWindow ==
  ASSUME GuardInv, NEW j \in Load, pc[j] = "marker", ~Available(Marker(j))
  PROVE  \E i \in Load \ {j} : /\ TargetOf[i] = TargetOf[j] /\ windowEnd[i] = windowEnd[j]
                               /\ pc[i] \notin {"idle", "check"}
<1> DEFINE m == lease[Marker(j)]
           i == m.holder
<1>1. TypeOK /\ now \in Nat
  <2>1. TypeOK
    BY DEF GuardInv
  <2> QED
    BY <2>1, TimeFacts DEF TypeOK, Time
<1>2. i # NoHolder /\ m.until > now /\ m.until \in Nat
  BY <1>1, LocksOfLoad DEF Available, TypeOK
<1>3. /\ i \in Load /\ TargetOf[i] = TargetOf[j] /\ pc[i] \notin Unmarked
      /\ windowEnd[i] # 0 /\ m.until <= windowEnd[i] + MaxLockTTL
  BY <1>2 DEF GuardInv, MarkedBy
<1>4. PICK t \in Nat : windowEnd[j] = EndOf(t) /\ StartOf(t) <= now /\ now < EndOf(t)
  BY WindowOfMarker
<1>5. PICK u \in 0..now : windowEnd[i] = EndOf(u)
  BY <1>3 DEF GuardInv, InTime
<1> HIDE DEF m, i
<1>6. /\ DayOf(t) \in Nat /\ DayOf(t) * Day \in Nat
      /\ StartOf(t) = DayOf(t) * Day + cfg.windowStart
      /\ EndOf(t) = DayOf(t) * Day + cfg.windowEnd
  BY <1>1, DayFacts
<1>7. /\ u \in Nat /\ DayOf(u) \in Nat /\ DayOf(u) * Day \in Nat /\ DayOf(u) * Day <= u
      /\ EndOf(u) = DayOf(u) * Day + cfg.windowEnd
  BY <1>1, <1>5, DayFacts
<1>8. /\ cfg.windowEnd \in Nat /\ cfg.windowStart \in Nat /\ cfg.windowEnd <= Day
      /\ MaxLockTTL + cfg.windowEnd <= Day + cfg.windowStart
      /\ MaxLockTTL \in Nat /\ Day \in Nat
  BY <1>1, ConfigFacts, TimeFacts
<1>9. ~(DayOf(u) < DayOf(t))
  <2> SUFFICES ASSUME DayOf(u) < DayOf(t)
               PROVE  FALSE
    OBVIOUS
  <2>1. DayOf(u) * Day + Day <= DayOf(t) * Day
    BY <1>6, <1>7, <1>8, LaterDay
  <2> QED
    BY <1>1, <1>2, <1>3, <1>4, <1>5, <1>6, <1>7, <1>8, <2>1
<1>10. ~(DayOf(t) < DayOf(u))
  <2> SUFFICES ASSUME DayOf(t) < DayOf(u)
               PROVE  FALSE
    OBVIOUS
  <2>1. DayOf(t) * Day + Day <= DayOf(u) * Day
    BY <1>6, <1>7, <1>8, LaterDay
  <2> QED
    BY <1>1, <1>4, <1>5, <1>6, <1>7, <1>8, <2>1
<1>11. DayOf(t) = DayOf(u)
  BY <1>6, <1>7, <1>9, <1>10
<1>12. windowEnd[i] = windowEnd[j]
  BY <1>4, <1>5, <1>6, <1>7, <1>11
<1> QED
  BY <1>3, <1>12 DEF Unmarked

\* An attempt at a lock that is no file, with or without effect, and at others.
LEMMA Attempt ==
  ASSUME TypeOK, NEW j \in Job, NEW k \in Lock, NEW ends \in SUBSET Nat,
         Acquires(j, k, ends) \/ AcquireFails(j, k, ends)
  PROVE  /\ \A l \in Lock : l = k \/ lease'[l] = lease[l]
         /\ k \notin File =>
              \/ lease'[k] = lease[k]
              \/ Available(k) /\ lease'[k].holder = j /\ lease'[k].until \in ends
<1>1. CASE Acquires(j, k, ends)
  <2>1. /\ \A l \in Lock \ {k} : lease'[l] = lease[l]
        /\ Available(k) /\ lease'[k].holder = j
        /\ lease'[k].until \in IF k \in File THEN {Never} ELSE ends
    BY <1>1, Acquisition
  <2> QED
    BY <2>1
<1>2. CASE AcquireFails(j, k, ends)
  <2>1. /\ \A l \in Lock \ {k} : lease'[l] = lease[l]
        /\ \/ lease' = lease
           \/ Available(k) /\ lease'[k].holder = j /\ lease'[k].until \in ends
    BY <1>2, Failure
  <2> QED
    BY <2>1
<1> QED
  BY <1>1, <1>2

\* What a step may do to a marker.
LEMMA MarkerStep ==
  ASSUME GuardInv, NEW j \in Job, Step(j), NEW i \in Load
  PROVE  \/ lease'[Marker(i)] = lease[Marker(i)]
         \/ /\ lease[Marker(i)].holder = j /\ lease'[Marker(i)] = Free
            /\ j \in Load /\ pc[j] = "blocked_release"
         \/ /\ j \in Load /\ Marker(i) = Marker(j) /\ Available(Marker(i))
            /\ pc[j] = "marker" /\ pc'[j] \notin Unmarked
            /\ lease'[Marker(i)].holder = j /\ lease'[Marker(i)].until \in MarkerEnds(j)
<1>1. TypeOK /\ Marker(i) \in Lock /\ Marker(i) \notin File /\ LeaseStep(j)
  BY LocksOfLoad, StepFrame DEF GuardInv
<1>2. CASE Kill(j)
  BY <1>1, <1>2, KillEffect
<1>3. ASSUME NEW over \in Over, ReleaseNext(j, over), Marker(i) \notin Held(j)
      PROVE  lease'[Marker(i)] = lease[Marker(i)]
  <2>1. Head(leases[j]) \in Held(j)
    BY <1>1, <1>3, PopElement DEF ReleaseNext, Held, TypeOK
  <2> QED
    BY <1>1, <1>3, <2>1, Releasement
<1>4. CASE j \in Bench /\ BenchStep(j)
  <2>1. /\ Marker(i) # BenchLock(j) /\ BenchLock(j) \in Lock /\ BenchEnds(j) \in SUBSET Nat
        /\ "done" \in Over
    BY <1>1, <1>4, LocksOfBench, EndsAreTimes DEF Over
  <2>2. Acquires(j, BenchLock(j), BenchEnds(j)) => lease'[Marker(i)] = lease[Marker(i)]
    BY <1>1, <2>1, Attempt
  <2>3. AcquireFails(j, BenchLock(j), BenchEnds(j)) => lease'[Marker(i)] = lease[Marker(i)]
    BY <1>1, <2>1, Attempt
  <2>4. CASE ReleaseNext(j, "done")
    <3>1. Marker(i) \notin Held(j)
      BY <1>4, <2>1 DEF GuardInv, HoldsLease
    <3> QED
      BY <1>3, <2>1, <2>4, <3>1
  <2>5. CASE UNCHANGED lease
    BY <2>5
  <2> QED
    BY <1>4, <2>2, <2>3, <2>4, <2>5 DEF BenchStep, BenchBegin, BenchAcquire, BenchWork
<1>5. CASE j \in Load /\ LoadStep(j)
  <2>1. /\ HoldsKeys(j) /\ Marker(i) \notin Locks(j) /\ Marker(j) \in Lock
        /\ LockEnds(j) \in SUBSET Nat /\ MarkerEnds(j) \in SUBSET Nat
        /\ Marker(j) \notin File
    BY <1>1, <1>5, LocksOfLoad, EndsAreTimes DEF GuardInv
  <2>2. CASE UNCHANGED lease
    BY <2>2
  <2>3. CASE TakeLease(j)
    <3>1. \A k \in Keys(j) : LockOf(j, k) \in Lock /\ LockOf(j, k) # Marker(i)
      BY <1>1, <1>5, <2>1, LocksOfLoad DEF Locks
    <3>2. ASSUME NEW k \in Keys(j),
                 \/ Acquires(j, LockOf(j, k), LockEnds(j))
                 \/ AcquireFails(j, LockOf(j, k), LockEnds(j))
          PROVE  lease'[Marker(i)] = lease[Marker(i)]
      BY <1>1, <2>1, <3>1, <3>2, Attempt
    <3> QED
      BY <2>2, <2>3, <3>2 DEF TakeLease
  <2>4. CASE AdmitOnce(j)
    <3>1. pc[j] = "marker" /\ (pc'[j] = "final_check" \/ pc'[j] \notin Unmarked \/ UNCHANGED lease)
      <4>1. \A why \in Reason : Block(j, why) => pc'[j] \notin Unmarked
        BY <1>1, <1>5, Blocks DEF Unmarked
      <4>2. Goto(j, "final_check") /\ UNCHANGED since => pc'[j] = "final_check"
        BY <1>1, Movements DEF State, Preflighting
      <4> QED
        BY <2>4, <4>1, <4>2 DEF AdmitOnce, Reason
    <3>2. (pc[j] = "marker" /\ pc'[j] \notin Unmarked) \/ UNCHANGED lease
      BY <2>4, <3>1 DEF Unmarked
    <3>3. CASE Acquires(j, Marker(j), MarkerEnds(j)) \/ AcquireFails(j, Marker(j), MarkerEnds(j))
      <4>1. \/ lease'[Marker(j)] = lease[Marker(j)]
            \/ /\ Available(Marker(j)) /\ lease'[Marker(j)].holder = j
               /\ lease'[Marker(j)].until \in MarkerEnds(j)
        BY <1>1, <2>1, <3>3, Attempt
      <4>2. Marker(i) # Marker(j) => lease'[Marker(i)] = lease[Marker(i)]
        BY <1>1, <2>1, <3>3, Attempt
      <4> QED
        BY <1>5, <2>2, <3>2, <4>1, <4>2
    <3> QED
      BY <2>2, <2>4, <3>3 DEF AdmitOnce
  <2>5. CASE pc[j] = "release" /\ ReleaseNext(j, "done")
    <3>1. Marker(i) \notin Held(j)
      BY <2>1, <2>5 DEF HoldsKeys
    <3> QED
      BY <1>3, <2>5, <3>1 DEF Over
  <2>6. CASE pc[j] = "blocked_release" /\ ReleaseNext(j, "blocked")
    <3>1. lease'[Marker(i)] = lease[Marker(i)] \/ Head(leases[j]) = Marker(i)
      BY <1>1, <2>6, Releasement DEF Over
    <3>2. Removes(j, Head(leases[j])) \/ UNCHANGED lease
      BY <2>6 DEF ReleaseNext
    <3>3. Removes(j, Marker(i)) =>
            \/ lease'[Marker(i)] = lease[Marker(i)]
            \/ lease[Marker(i)].holder = j /\ lease'[Marker(i)] = Free
      BY <1>1, FreeStep DEF Removes
    <3> QED
      BY <1>5, <2>2, <2>6, <3>1, <3>2, <3>3
  <2> QED
    BY <1>5, <2>2, <2>3, <2>4, <2>5, <2>6
       DEF LoadStep, AcquireGuard, Begin, Check, CheckExternal, Recheck, FinalCheck,
           Start, Work, Cleanup, Release
<1> QED
  BY <1>2, <1>4, <1>5 DEF Step

\* The holder of a marker is an execution of its window.
LEMMA MarkedByStep ==
  ASSUME GuardInv, NEW j \in Job, Step(j), NEW i \in Load
  PROVE  MarkedBy(i)'
<1> DEFINE m == Marker(i)
<1>1. TypeOK /\ MarkedBy(i) /\ cfg' = cfg
  BY StepFrame DEF GuardInv, Frame
<1>2. CASE lease'[m] = lease[m]
  <2> SUFFICES ASSUME lease'[m].holder # NoHolder
               PROVE  /\ lease'[m].holder \in Load /\ TargetOf[lease'[m].holder] = TargetOf[i]
                      /\ pc'[lease'[m].holder] \notin Unmarked
                      /\ windowEnd'[lease'[m].holder] # 0
                      /\ lease'[m].until <= windowEnd'[lease'[m].holder] + MaxLockTTL
    BY DEF MarkedBy, Marker
  <2>1. /\ lease[m].holder \in Load /\ TargetOf[lease[m].holder] = TargetOf[i]
        /\ pc[lease[m].holder] \notin Unmarked
        /\ windowEnd[lease[m].holder] # 0
        /\ lease[m].until <= windowEnd[lease[m].holder] + MaxLockTTL
    BY <1>1, <1>2 DEF MarkedBy
  <2>2. /\ pc'[lease[m].holder] \notin Unmarked
        /\ windowEnd'[lease[m].holder] = windowEnd[lease[m].holder]
    BY <2>1, Advances DEF Unmarked
  <2> QED
    BY <1>2, <2>1, <2>2
<1>3. CASE lease'[m] = Free
  BY <1>3 DEF MarkedBy, Marker, Free
<1>4. CASE /\ j \in Load /\ Marker(i) = Marker(j) /\ pc[j] = "marker" /\ pc'[j] \notin Unmarked
           /\ lease'[m].holder = j /\ lease'[m].until \in MarkerEnds(j)
  <2>1. TargetOf[j] = TargetOf[i]
    BY <1>4 DEF Marker
  <2>2. windowEnd'[j] = windowEnd[j] /\ windowEnd[j] # 0 /\ now + Grace <= windowEnd[j] + Preflight
    BY <1>4, Advances, WindowOfMarker
  <2>3. lease'[m].until <= windowEnd[j] + MaxLockTTL
    <3>0. PICK t \in Starts(j) :
             \E u \in since[j]..t : lease'[m].until = t + MarkerTTL(j, u)
      BY <1>4 DEF MarkerEnds
    <3>1. PICK u \in since[j]..t : lease'[m].until = t + MarkerTTL(j, u)
      BY <3>0
    <3>2. now \in Nat /\ since[j] \in Nat /\ windowEnd[j] \in Nat
      BY <1>1, <1>4, TimeFacts DEF TypeOK, Time, Job
    <3>3. t \in Nat /\ t <= now /\ u \in Nat /\ since[j] <= u /\ u <= t
      BY <3>1, <3>2 DEF Starts
    <3>6. now <= since[j] + Preflight
      BY <1>4 DEF GuardInv, InTime, PhaseEnd, Preflighting, Working, Releasing
    <3>4. cfg.scheduled
      BY <1>4, WindowOfMarker
    <3>5. /\ cfg.lockTTL <= MaxLockTTL /\ Grace <= cfg.lockTTL /\ cfg.lockTTL \in Nat
          /\ MaxLockTTL \in Nat /\ Grace \in Nat /\ Preflight \in Nat /\ Preflight < Grace
      BY <1>1, <3>4, ConfigFacts, TimeFacts
    <3>7. Preflight + Grace <= MaxLockTTL
      BY LoadGuardAssumption
    <3> QED
      BY <2>2, <3>7, <3>1, <3>2, <3>3, <3>5, <3>6 DEF MarkerTTL
  <2> QED
    BY <1>4, <2>1, <2>2, <2>3 DEF MarkedBy, Marker
<1> QED
  BY <1>2, <1>3, <1>4, MarkerStep

\* The marker of an admitted test outlasts its window: its own job does not give
\* it back, and nobody else can have it.
LEMMA MarkerLastsStep ==
  ASSUME GuardInv, NEW j \in Job, Step(j), NEW i \in Load
  PROVE  MarkerLasts(i)'
<1> DEFINE m == Marker(i)
<1>1. /\ TypeOK /\ MarkerLasts(i) /\ InOrder(i) /\ HoldsKeys(i) /\ Frame(j)
      /\ cfg' = cfg /\ now' = now /\ i # NoHolder /\ i \in Job /\ m \in Lock
  BY StepFrame, LocksOfLoad, LoadGuardAssumption DEF GuardInv, Frame, Job
<1>2. now \in Nat /\ windowEnd[i] \in Nat /\ lease[m].until \in Nat /\ Grace \in Nat
  BY <1>1, TimeFacts DEF TypeOK, Time
<1> SUFFICES ASSUME cfg.scheduled, outcome'[i] = "admitted", now < windowEnd'[i] + Grace
             PROVE  lease'[m].holder = i /\ lease'[m].until >= windowEnd'[i] + Grace
  BY <1>1 DEF MarkerLasts, Marker
<1>3. CASE outcome[i] = "admitted"
  <2>1. windowEnd'[i] = windowEnd[i]
    BY <1>1, <1>3, Advances DEF InOrder, Preflighting
  <2>2. lease[m].holder = i /\ lease[m].until >= windowEnd[i] + Grace
    BY <1>1, <1>3, <2>1 DEF MarkerLasts
  <2>3. ~Available(m)
    BY <1>1, <1>2, <2>1, <2>2 DEF Available
  <2>4. ~(j = i /\ pc[j] = "blocked_release")
    BY <1>1, <1>3 DEF InOrder
  <2> QED
    BY <2>1, <2>2, <2>3, <2>4, MarkerStep
<1>4. CASE outcome[i] # "admitted"
  <2>1. j = i /\ LoadStep(i)
    <3>1. outcome'[i] # outcome[i]
      BY <1>4
    <3>2. j = i
      BY <1>1, <3>1 DEF Frame
    <3> QED
      BY <1>1, <3>1, <3>2, KillEffect, LoadGuardAssumption DEF Step
  <2>2. pc[i] = "final_check"
    BY <1>4, <2>1, OutcomeStep DEF Reason
  <2>3. /\ Marker(i) \in Held(i) /\ lease[m].until >= windowEnd[i] + Grace
    <3>1. leases[i] \in Seq(Lock)
      BY <1>1 DEF TypeOK
    <3> QED
      BY <1>1, <2>2, <3>1, PopElement DEF HoldsKeys, Held
  <2>4. lease[m].holder = i
    BY <1>1, <2>3 DEF GuardInv, Owns
  <2>5. windowEnd'[i] = windowEnd[i]
    BY <2>2, Advances
  <2>6. lease'[m] = lease[m]
    BY <2>1, <2>2, MarkerStep
  <2> QED
    BY <2>3, <2>4, <2>5, <2>6
<1> QED
  BY <1>3, <1>4

\* A test that found a marker taken found that of its window.
LEMMA MarkerFoundStep ==
  ASSUME GuardInv, NEW j \in Job, Step(j), NEW i \in Load
  PROVE  MarkerFound(i)'
<1> SUFFICES ASSUME outcome'[i] = "daily"
             PROVE  \E h \in Load \ {i} : /\ TargetOf[h] = TargetOf[i]
                                          /\ windowEnd'[h] = windowEnd'[i]
                                          /\ pc'[h] \notin {"idle", "check"}
  BY DEF MarkerFound
<1>1. TypeOK /\ MarkerFound(i) /\ InOrder(i) /\ Frame(j) /\ i \in Job
  BY StepFrame DEF GuardInv, Job
<1>2. PICK h \in Load \ {i} : /\ TargetOf[h] = TargetOf[i] /\ windowEnd[h] = windowEnd[i]
                              /\ pc[h] \notin {"idle", "check"}
  <2>1. CASE outcome[i] = "daily"
    BY <1>1, <2>1 DEF MarkerFound
  <2>2. CASE outcome[i] # "daily"
    <3>1. j = i /\ LoadStep(i)
      <4>1. outcome'[i] # outcome[i]
        BY <2>2
      <4>2. j = i
        BY <1>1, <4>1 DEF Frame
      <4> QED
        BY <1>1, <4>1, <4>2, KillEffect, LoadGuardAssumption DEF Step
    <3>2. pc[i] = "marker" /\ ~Available(Marker(i))
      BY <2>2, <3>1, OutcomeStep
    <3> QED
      BY <3>2, SameWindow
  <2> QED
    BY <2>1, <2>2
<1>3. pc[i] \notin {"idle", "check"}
  <2>1. CASE outcome[i] # "none"
    BY <1>1, <2>1 DEF InOrder, Preflighting
  <2>2. CASE outcome[i] = "none"
    <3>1. j = i /\ LoadStep(i)
      <4>1. outcome'[i] # outcome[i]
        BY <2>2
      <4>2. j = i
        BY <1>1, <4>1 DEF Frame
      <4> QED
        BY <1>1, <4>1, <4>2, KillEffect, LoadGuardAssumption DEF Step
    <3> QED
      BY <2>2, <3>1, OutcomeStep
  <2> QED
    BY <2>1, <2>2
<1>4. windowEnd'[i] = windowEnd[i] /\ windowEnd'[h] = windowEnd[h]
      /\ pc'[h] \notin {"idle", "check"}
  BY <1>2, <1>3, Advances
<1> QED
  BY <1>2, <1>4

-----------------------------------------------------------------------------
(* The invariant *)

\* Time passes: no phase overruns, and what expires was no longer needed.
LEMMA TickKeeps == GuardInv /\ Tick => GuardInv'
<1> SUFFICES ASSUME GuardInv, Tick
             PROVE  GuardInv'
  OBVIOUS
<1>1. TypeOK
  BY DEF GuardInv
<1>2. /\ now' = now + 1 /\ UNCHANGED <<cfg, lease, pc, since, leases, windowEnd, outcome, lost>>
      /\ \A j \in Load : now < PhaseEnd(j)
      /\ \A b \in Bench : now < BenchEnd(b)
  BY DEF Tick, jobs
<1>3. now \in Nat /\ now' \in Time /\ now + 1 \in Nat
  BY <1>1, TimeFacts DEF TypeOK, Time, Tick
<1>4. TypeOK'
  BY <1>1, <1>2, <1>3 DEF TypeOK, Accepted, BudgetOf
<1>5. /\ Job' = Job /\ \A j \in Job : Held(j)' = Held(j) /\ Owns(j)' = Owns(j)
  BY <1>2 DEF Job, Held, Elements, Owns
<1>6. ASSUME NEW j \in Load
      PROVE  InTime(j)'
  <2>1. InTime(j) /\ since[j] \in Nat
    BY <1>1, TimeFacts DEF GuardInv, TypeOK, Job, Time
  <2>2. PhaseEnd(j) \in Int /\ PhaseEnd(j)' = PhaseEnd(j)
    <3>1. windowEnd[j] \in Nat
      BY <1>1 DEF TypeOK
    <3>2. Deadline(j) \in Int
      BY <1>1, <3>1, ConfigFacts, TimeFacts DEF Deadline
    <3>3. PhaseEnd(j) \in Int
      BY <1>1, <2>1, <3>2, ConfigFacts, TimeFacts DEF PhaseEnd
    <3> QED
      BY <1>2, <3>3 DEF PhaseEnd, Deadline
  <2>3. now < PhaseEnd(j)
    BY <1>2
  <2>4. since'[j] <= now' /\ now' <= PhaseEnd(j)'
    BY <1>2, <1>3, <2>1, <2>2, <2>3 DEF InTime
  <2>5. 0..now \subseteq 0..now' /\ since[j]..now \subseteq since[j]..now'
    BY <1>2, <1>3, <2>1
  <2>6. windowEnd'[j] # 0 => \E t \in 0..now' : windowEnd'[j] = EndOf(t)'
    BY <1>2, <2>1, <2>5 DEF InTime, EndOf
  <2>7. cfg.scheduled /\ pc[j] \in Preflighting \ {"check"} =>
          \E t \in since'[j]..now' : InWindow(t)' /\ windowEnd'[j] = EndOf(t)'
    BY <1>2, <2>1, <2>5 DEF InTime, EndOf, StartOf, InWindow, BudgetOf
  <2> QED
    BY <1>2, <2>1, <2>4, <2>6, <2>7 DEF InTime, Deadline, BudgetOf, Left
<1>7. ASSUME NEW j \in Load
      PROVE  InOrder(j)' /\ HoldsKeys(j)' /\ Recalls(j)'
  <2>1. /\ Held(j)' = Held(j) /\ Locks(j)' = Locks(j) /\ Marker(j)' = Marker(j)
        /\ Distinct(leases[j])' = Distinct(leases[j]) /\ Spent(j)' = Spent(j)
    BY <1>2 DEF Held, Elements, Locks, LockOf, Keys, Marker, Distinct, Spent
  <2> QED
    BY <1>2, <2>1 DEF GuardInv, InOrder, HoldsKeys, Recalls
<1>8. ASSUME NEW j \in Load
      PROVE  MarkedBy(j)' /\ MarkerLasts(j)' /\ MarkerFound(j)'
  <2>1. windowEnd[j] \in Nat /\ Grace \in Nat
    BY <1>1, TimeFacts DEF TypeOK
  <2>2. MarkerLasts(j)'
    BY <1>2, <1>3, <2>1 DEF GuardInv, MarkerLasts, Marker
  <2> QED
    BY <1>2, <2>2 DEF GuardInv, MarkedBy, MarkerFound, Marker
<1>9. ASSUME NEW b \in Bench
      PROVE  HoldsLease(b)'
  <2>1. HoldsLease(b) /\ since[b] \in Nat
    BY <1>1, TimeFacts DEF GuardInv, TypeOK, Job, Time
  <2>2. /\ Held(b)' = Held(b) /\ BenchLock(b)' = BenchLock(b)
        /\ Distinct(leases[b])' = Distinct(leases[b]) /\ BenchEnd(b)' = BenchEnd(b)
    BY <1>2 DEF Held, Elements, BenchLock, LockOf, BenchKey, Distinct, BenchEnd
  <2>3. BenchEnd(b) \in Int /\ now < BenchEnd(b)
    BY <1>2, <2>1, TimeFacts DEF BenchEnd
  <2>4. since[b] <= now' /\ now' <= BenchEnd(b)
    BY <1>2, <1>3, <2>1, <2>3 DEF HoldsLease
  <2> QED
    BY <1>2, <2>1, <2>2, <2>4 DEF HoldsLease
<1> QED
  BY <1>4, <1>5, <1>6, <1>7, <1>8, <1>9 DEF GuardInv

\* Nobody has begun.
LEMMA InitGuard == Init => GuardInv
<1> SUFFICES ASSUME Init
             PROVE  GuardInv
  OBVIOUS
<1>1. /\ now = 0 /\ cfg \in Configs /\ Accepted(cfg)
      /\ lease = [k \in Lock |-> Free] /\ since = [j \in Job |-> 0]
      /\ leases = [j \in Job |-> <<>>] /\ windowEnd = [j \in Load |-> 0]
      /\ outcome = [j \in Load |-> "none"] /\ lost = [j \in Job |-> FALSE]
  BY DEF Init
<1>2. pc \in [Job -> {"idle", "absent"}]
  BY DEF Init
<1>3. 0 \in Time /\ Free \in [holder : Job \cup {NoHolder}, until : Nat] /\ <<>> \in Seq(Lock)
      /\ Free.holder = NoHolder
  BY TimeFacts DEF Time, Free
<1>4. TypeOK
  <2>1. pc \in [Job -> State]
    BY <1>2 DEF State, Over
  <2>2. lease \in [Lock -> [holder : Job \cup {NoHolder}, until : Nat]]
    BY <1>1, <1>3
  <2> QED
    BY <1>1, <1>3, <2>1, <2>2 DEF TypeOK, State
<1>5. \A j \in Job : leases[j] = <<>> /\ Held(j) = {} /\ Distinct(leases[j]) /\ since[j] = 0
                     /\ pc[j] \in {"idle", "absent"}
  BY <1>1, <1>2, EmptyElements DEF Held
<1>6. ASSUME NEW j \in Load
      PROVE  InTime(j) /\ InOrder(j) /\ HoldsKeys(j)
  <2>1. windowEnd[j] = 0 /\ outcome[j] = "none" /\ j \in Job
    BY <1>1 DEF Job
  <2>2. PhaseEnd(j) = MaxTime
    BY <1>5, <2>1 DEF PhaseEnd, Preflighting, Releasing
  <2>3. InTime(j)
    <3>1. since[j] <= now /\ now <= PhaseEnd(j)
      BY <1>1, <1>5, <2>1, <2>2, TimeFacts
    <3>2. pc[j] \notin Preflighting /\ pc[j] \notin {"admitted", "cleanup"}
          /\ pc[j] \notin Working
      BY <1>5, <2>1 DEF Preflighting, Working
    <3> QED
      BY <2>1, <3>1, <3>2 DEF InTime
  <2>4. InOrder(j)
    BY <1>5, <2>1 DEF InOrder, Working
  <2> QED
    BY <1>5, <2>1, <2>3, <2>4 DEF HoldsKeys, Working
<1>7. ASSUME NEW b \in Bench
      PROVE  HoldsLease(b)
  BY <1>1, <1>5, TimeFacts DEF HoldsLease, BenchEnd, Job
<1>8. \A j \in Job : Owns(j)
  BY <1>5 DEF Owns
<1>9. ASSUME NEW j \in Load
      PROVE  Recalls(j) /\ MarkedBy(j) /\ MarkerLasts(j) /\ MarkerFound(j)
  <2>1. outcome[j] = "none" /\ j # NoHolder /\ Marker(j) \in Lock
    BY <1>1, <1>4, LocksOfLoad, LoadGuardAssumption
  <2>2. \A k \in Lock : lease[k].holder = NoHolder
    BY <1>1, <1>3
  <2> QED
    BY <2>1, <2>2 DEF Recalls, MarkedBy, MarkerLasts, MarkerFound
<1> QED
  BY <1>4, <1>6, <1>7, <1>8, <1>9 DEF GuardInv

\* A step of any job keeps the invariant of all jobs.
LEMMA StepKeeps ==
  ASSUME GuardInv, NEW j \in Job, Step(j)
  PROVE  GuardInv'
<1>1. TypeOK' /\ Frame(j) /\ LeaseStep(j)
  BY StepFrame
<1>2. ASSUME NEW i \in Load
      PROVE  InTime(i)' /\ InOrder(i)' /\ HoldsKeys(i)' /\ Recalls(i)'
  <2>1. CASE i # j
    BY <1>1, <2>1, OtherLoads
  <2>2. CASE i = j /\ LoadStep(i)
    BY <2>2, InTimeStep, InOrderStep, KeysStep
  <2>3. CASE i = j /\ Kill(i)
    BY <2>3, KillKeeps
  <2> QED
    BY <2>1, <2>2, <2>3, LoadGuardAssumption DEF Step
<1>3. ASSUME NEW b \in Bench
      PROVE  HoldsLease(b)'
  <2>1. CASE b # j
    BY <1>1, <2>1, OtherBenches
  <2>2. CASE b = j
    BY <2>2, BenchStepKeeps, KillKeeps, LoadGuardAssumption DEF Step
  <2> QED
    BY <2>1, <2>2
<1>4. ASSUME NEW i \in Job
      PROVE  Owns(i)'
  <2>1. CASE i # j
    BY <1>1, <2>1, OtherOwners
  <2>2. CASE i = j
    BY <2>2, KeysStep, BenchStepKeeps, KillKeeps DEF Step
  <2> QED
    BY <2>1, <2>2
<1>5. ASSUME NEW i \in Load
      PROVE  MarkedBy(i)' /\ MarkerLasts(i)' /\ MarkerFound(i)'
  BY <1>5, MarkedByStep, MarkerLastsStep, MarkerFoundStep
<1> QED
  BY <1>1, <1>2, <1>3, <1>4, <1>5 DEF GuardInv

\* Nothing happens.
LEMMA StutterKeeps == GuardInv /\ UNCHANGED vars => GuardInv'
<1> SUFFICES ASSUME GuardInv, UNCHANGED vars
             PROVE  GuardInv'
  OBVIOUS
<1>1. UNCHANGED <<now, cfg, lease, pc, since, leases, windowEnd, outcome, lost>>
  BY DEF vars, jobs
<1>2. TypeOK'
  BY <1>1 DEF GuardInv, TypeOK, Accepted, BudgetOf
<1>3. /\ \A j \in Job : Held(j)' = Held(j) /\ Distinct(leases[j])' = Distinct(leases[j])
      /\ \A j \in Load : Locks(j)' = Locks(j) /\ Spent(j)' = Spent(j)
  BY <1>1 DEF Held, Elements, Distinct, Locks, LockOf, Keys, Spent
<1>4. ASSUME NEW j \in Load
      PROVE  InTime(j)' /\ InOrder(j)' /\ HoldsKeys(j)'
  <2>1. InTime(j)'
    BY <1>1 DEF GuardInv, InTime, PhaseEnd, Deadline, InWindow, StartOf, EndOf, BudgetOf, Left
  <2> QED
    BY <1>1, <1>3, <2>1 DEF GuardInv, InOrder, HoldsKeys, Marker, Job
<1>5. ASSUME NEW b \in Bench
      PROVE  HoldsLease(b)'
  BY <1>1, <1>3 DEF GuardInv, HoldsLease, BenchLock, LockOf, BenchKey, BenchEnd, Job
<1>6. \A j \in Job : Owns(j)'
  BY <1>1, <1>3 DEF GuardInv, Owns
<1>7. ASSUME NEW j \in Load
      PROVE  Recalls(j)' /\ MarkedBy(j)' /\ MarkerLasts(j)' /\ MarkerFound(j)'
  BY <1>1, <1>3 DEF GuardInv, Recalls, MarkedBy, MarkerLasts, MarkerFound, Marker, Job
<1> QED
  BY <1>2, <1>4, <1>5, <1>6, <1>7 DEF GuardInv

\* Every step keeps the invariant.
LEMMA NextKeeps == GuardInv /\ [Next]_vars => GuardInv'
<1>1. ASSUME GuardInv, Next
      PROVE  Tick \/ \E j \in Job : Step(j)
  BY <1>1 DEF Next, Step, Job
<1> QED
  BY <1>1, TickKeeps, StepKeeps, StutterKeeps

\* The invariant of admission: no load test overruns its phases or its window, and
\* each holds all of its keys, which outlast what remains of its budget, and no
\* marker of a day outlives it (AcquireGuard and what follows it).
THEOREM GuardInvariant == Spec => []GuardInv
  BY InitGuard, NextKeeps, PTL DEF Spec

-----------------------------------------------------------------------------
(* What follows from it *)

\* Two jobs never have one lease in mind.
LEMMA OneHolder ==
  ASSUME GuardInv, NEW i \in Job, NEW j \in Job, NEW k \in Held(i), k \in Held(j)
  PROVE  i = j
  BY DEF GuardInv, Owns

\* Load tests of one target, and any two under the global lock, exclude each other
\* from admission to the end of the cleanup (AcquireGuard).
THEOREM LoadTestsExcludeHolds == Spec => []LoadTestsExclude
<1>1. GuardInv => LoadTestsExclude
  <2> SUFFICES ASSUME GuardInv, cfg.backend # "none", NEW i \in Load, NEW j \in Load,
                      AtWork(i), AtWork(j), cfg.globalLock \/ TargetOf[i] = TargetOf[j]
               PROVE  i = j
    BY DEF LoadTestsExclude
  <2>1. i \in Job /\ j \in Job /\ Locks(i) \subseteq Held(i) /\ Locks(j) \subseteq Held(j)
    BY DEF GuardInv, HoldsKeys, AtWork, Job
  <2>2. \E k \in Locks(i) : k \in Locks(j)
    <3>1. CASE TargetOf[i] = TargetOf[j]
      <4> DEFINE k == <<TargetOf[i], "loadtest">>
      <4>1. k \in Keys(i) /\ k \in Keys(j)
        BY <3>1 DEF Keys
      <4>2. LockOf(i, k) = LockOf(j, k)
        BY LoadGuardAssumption DEF LockOf
      <4> QED
        BY <4>1, <4>2 DEF Locks
    <3>2. CASE cfg.globalLock
      <4>1. Global \in Keys(i) /\ Global \in Keys(j)
        BY <3>2 DEF Keys
      <4>2. LockOf(i, Global) = LockOf(j, Global)
        BY LoadGuardAssumption DEF LockOf
      <4> QED
        BY <4>1, <4>2 DEF Locks
    <3> QED
      BY <3>1, <3>2
  <2> QED
    BY <2>1, <2>2, OneHolder
<1> QED
  BY <1>1, GuardInvariant, PTL

\* No benchmark is at work next to a load test that guards against it, when both
\* keep their leases in the bucket (guardLockKeys and the canaries' lockKey).
THEOREM BenchmarksExcludeHolds == Spec => []BenchmarksExclude
<1>1. GuardInv => BenchmarksExclude
  <2> SUFFICES ASSUME GuardInv, cfg.benchmarkGuard, cfg.canaries = "gcs",
                      NEW j \in Load, NEW b \in Bench, AtWork(j), AtWork(b),
                      KindOf[b] \in Benchmark, TargetOf[j] = TargetOf[b]
               PROVE  FALSE
    BY DEF BenchmarksExclude
  <2>1. TypeOK /\ cfg.backend = "gcs" /\ j \in Job /\ b \in Job /\ j # b
    BY ConfigFacts, LoadGuardAssumption DEF GuardInv, Job
  <2>2. Locks(j) \subseteq Held(j)
    BY DEF GuardInv, HoldsKeys, AtWork
  <2>3. BenchLock(b) \in Held(b)
    BY DEF GuardInv, HoldsLease, AtWork, Working
  <2>4. BenchKey(b) \in Keys(j)
    BY <2>1 DEF BenchKey, Keys
  <2>5. LockOf(j, BenchKey(b)) = BenchKey(b) /\ BenchLock(b) = BenchKey(b)
    BY <2>1, LoadGuardAssumption DEF LockOf, BenchLock
  <2> QED
    BY <2>1, <2>2, <2>3, <2>4, <2>5, OneHolder DEF Locks
<1> QED
  BY <1>1, GuardInvariant, PTL

\* At most one execution of a window is admitted, however often the scheduler
\* delivers (the daily marker, which outlives the window).
THEOREM OncePerWindowHolds == Spec => []OncePerWindow
<1>1. Init => OncePerWindow
  BY DEF Init, OncePerWindow
<1>2. ASSUME GuardInv, OncePerWindow, NEW i \in Load, NEW j \in Load, i # j,
             LoadStep(i), cfg.scheduled, TargetOf[i] = TargetOf[j],
             outcome[i] # "admitted", outcome'[i] = "admitted", outcome[j] = "admitted"
      PROVE  windowEnd[i] # windowEnd[j]
  <2>1. TypeOK /\ pc[i] = "final_check" /\ HoldsKeys(i) /\ i \in Job /\ j \in Job
    BY <1>2, OutcomeStep DEF GuardInv, Reason, Job
  <2>2. Marker(i) \in Held(i)
    <3>1. leases[i] \in Seq(Lock)
      BY <2>1 DEF TypeOK
    <3> QED
      BY <2>1, <3>1, PopElement DEF HoldsKeys, Held
  <2>3. lease[Marker(i)].holder = i
    BY <1>2, <2>1, <2>2 DEF GuardInv, Owns
  <2>4. now < windowEnd[i] + Grace
    <3>1. InTime(i)' /\ pc'[i] = "admitted" /\ cfg' = cfg /\ now' = now
      BY <1>2, <2>1, InTimeStep, OutcomeStep, LoadFrame DEF Reason, Preflighting
    <3>2. TypeOK' /\ windowEnd'[i] = windowEnd[i] /\ since'[i] \in Nat
      BY <1>2, <2>1, Advances, LoadFrame DEF Step
    <3>3. since'[i] + BudgetOf(cfg) <= windowEnd[i] /\ now <= since'[i] + Setup
      BY <1>2, <3>1, <3>2 DEF InTime, PhaseEnd, Preflighting, Releasing, BudgetOf
    <3>4. now \in Nat /\ windowEnd[i] \in Nat
      BY <2>1, TimeFacts DEF TypeOK, Time
    <3> QED
      BY <2>1, <3>2, <3>3, <3>4, ConfigFacts, TimeFacts
  <2>5. Marker(i) = Marker(j)
    BY <1>2 DEF Marker
  <2> QED
    BY <1>2, <2>3, <2>4, <2>5 DEF GuardInv, MarkerLasts
<1>3. GuardInv /\ OncePerWindow /\ [Next]_vars => OncePerWindow'
  <2> SUFFICES ASSUME GuardInv, OncePerWindow, [Next]_vars, cfg'.scheduled,
                      NEW i \in Load, NEW j \in Load, i # j, TargetOf[i] = TargetOf[j],
                      outcome'[i] = "admitted", outcome'[j] = "admitted"
               PROVE  windowEnd'[i] # windowEnd'[j]
    BY DEF OncePerWindow
  <2>1. CASE UNCHANGED <<cfg, outcome, windowEnd>>
    BY <2>1 DEF OncePerWindow
  <2>2. ASSUME NEW h \in Job, Step(h)
        PROVE  windowEnd'[i] # windowEnd'[j]
    <3>1. Frame(h) /\ cfg.scheduled
      BY <2>2, StepFrame DEF Frame
    <3>2. \A l \in Load : outcome'[l] = "admitted" =>
             /\ windowEnd'[l] = windowEnd[l]
             /\ outcome[l] = "admitted" \/ (l = h /\ LoadStep(l))
      <4> SUFFICES ASSUME NEW l \in Load, outcome'[l] = "admitted"
                   PROVE  /\ windowEnd'[l] = windowEnd[l]
                          /\ outcome[l] = "admitted" \/ (l = h /\ LoadStep(l))
        OBVIOUS
      <4>1. outcome[l] = "admitted" \/ (l = h /\ LoadStep(l))
        <5>1. CASE l # h
          BY <3>1, <5>1 DEF Frame
        <5>2. CASE l = h /\ Kill(h)
          BY <5>2, KillEffect DEF GuardInv
        <5> QED
          BY <2>2, <5>1, <5>2, LoadGuardAssumption DEF Step
      <4>2. outcome[l] = "admitted" => pc[l] \notin {"idle", "check"}
        BY DEF GuardInv, InOrder, Preflighting
      <4>3. outcome[l] # "admitted" => pc[l] \notin {"idle", "check"}
        BY <4>1, OutcomeStep DEF Reason
      <4> QED
        BY <2>2, <4>1, <4>2, <4>3, Advances
    <3> QED
      BY <1>2, <3>1, <3>2 DEF OncePerWindow
  <2> QED
    BY <2>1, <2>2 DEF Next, Step, Tick, vars, jobs, Job
<1> QED
  BY <1>1, <1>3, GuardInvariant, PTL DEF Spec

\* Who finds the marker taken was preceded in the same window: no marker reaches
\* into the next day (markerTTL against the deployment's windows).
THEOREM MarkerOfTodayHolds == Spec => []MarkerOfToday
<1>1. GuardInv => MarkerOfToday
  BY DEF GuardInv, MarkerFound, MarkerOfToday
<1> QED
  BY <1>1, GuardInvariant, PTL

\* Work and cleanup end a grace period before the window does (runConfigured's
\* deadline and the budget that checkTime requires).
THEOREM EndsInWindowHolds == Spec => []EndsInWindow
<1>1. GuardInv => EndsInWindow
  <2> SUFFICES ASSUME GuardInv, cfg.scheduled, NEW j \in Load, AtWork(j)
               PROVE  now <= windowEnd[j] - Grace
    BY DEF EndsInWindow
  <2>1. TypeOK /\ InTime(j) /\ j \in Job
    BY DEF GuardInv, Job
  <2>2. now \in Nat /\ since[j] \in Nat /\ windowEnd[j] \in Nat
    BY <2>1, TimeFacts DEF TypeOK, Time
  <2>3. now <= PhaseEnd(j)
    BY <2>1 DEF InTime
  <2>4. CASE pc[j] = "admitted"
    <3>1. since[j] + BudgetOf(cfg) <= windowEnd[j] /\ now <= since[j] + Setup
      BY <2>1, <2>3, <2>4 DEF InTime, PhaseEnd, Preflighting, Releasing
    <3> QED
      BY <2>1, <2>2, <3>1, ConfigFacts, TimeFacts
  <2>5. CASE pc[j] = "work"
    <3>1. Deadline(j) \in Int
      BY <2>1, <2>2, ConfigFacts, TimeFacts DEF Deadline
    <3>2. now <= Deadline(j)
      BY <2>1, <2>2, <2>3, <2>5, <3>1, ConfigFacts DEF PhaseEnd, Preflighting, Releasing
    <3> QED
      BY <2>1, <2>2, <3>2, ConfigFacts, TimeFacts DEF Deadline
  <2>6. CASE pc[j] = "cleanup"
    <3>1. since[j] <= Deadline(j) /\ now <= since[j] + cfg.deleteTimeout
      BY <2>1, <2>3, <2>6 DEF InTime, PhaseEnd, Preflighting, Releasing
    <3> QED
      BY <2>1, <2>2, <3>1, ConfigFacts, TimeFacts DEF Deadline
  <2> QED
    BY <2>4, <2>5, <2>6 DEF AtWork, Working
<1> QED
  BY <1>1, GuardInvariant, PTL

\* A guarded manual run, from admission to the end of its cleanup, never reaches
\* into a known heavy window (OverlapsKnownHeavyWindow over the whole budget).
THEOREM AvoidsHeavyWindowsHolds == Spec => []AvoidsHeavyWindows
<1>1. GuardInv => AvoidsHeavyWindows
  <2> SUFFICES ASSUME GuardInv, ~cfg.scheduled, cfg.benchmarkGuard \/ cfg.external,
                      NEW j \in Load, AtWork(j), NEW h \in Heavy
               PROVE  ~(h[1] < now /\ now < h[2])
    BY DEF AvoidsHeavyWindows
  <2>1. TypeOK /\ InTime(j) /\ j \in Job
    BY DEF GuardInv, Job
  <2>2. now \in Nat /\ since[j] \in Nat
    BY <2>1, TimeFacts DEF TypeOK, Time
  <2>3. h[1] \in Nat /\ h[2] \in Nat
    BY LoadGuardAssumption
  <2>4. since[j] <= now /\ (h[2] <= since[j] \/ since[j] + Left(j) <= h[1])
    BY <2>1, <2>2, <2>3 DEF InTime, AtWork
  <2>5. now <= since[j] + Left(j)
    <3>1. now <= PhaseEnd(j)
      BY <2>1 DEF InTime
    <3>2. CASE pc[j] = "admitted"
      BY <2>1, <2>2, <3>1, <3>2, ConfigFacts, TimeFacts
         DEF PhaseEnd, Preflighting, Releasing, Left
    <3>3. CASE pc[j] = "work"
      BY <2>1, <2>2, <3>1, <3>3, ConfigFacts, TimeFacts
         DEF PhaseEnd, Preflighting, Releasing, Left
    <3>4. CASE pc[j] = "cleanup"
      BY <2>1, <2>2, <3>1, <3>4, ConfigFacts, TimeFacts
         DEF PhaseEnd, Preflighting, Releasing, Left
    <3> QED
      BY <3>2, <3>3, <3>4 DEF AtWork, Working
  <2>6. Left(j) \in Nat
    BY <2>1, ConfigFacts DEF Left
  <2> QED
    BY <2>2, <2>3, <2>4, <2>5, <2>6
<1> QED
  BY <1>1, GuardInvariant, PTL

\* A load test that is over has given back every lease but, once admitted, its
\* marker, unless a call failed or it was killed (Release and blocked).
THEOREM ReleasesAllHolds == Spec => []ReleasesAll
<1>1. GuardInv => ReleasesAll
  <2> SUFFICES ASSUME GuardInv, NEW j \in Load, pc[j] \in {"blocked", "done"}, ~lost[j],
                      NEW k \in Lock, lease[k].holder = j
               PROVE  k = Marker(j) /\ outcome[j] = "admitted"
    BY DEF ReleasesAll
  <2>1. Held(j) = {}
    BY EmptyElements DEF GuardInv, HoldsKeys, Over, Held
  <2> QED
    BY <2>1 DEF GuardInv, Recalls
<1> QED
  BY <1>1, GuardInvariant, PTL

-----------------------------------------------------------------------------
(* Contention *)

\* The locks that load tests contend for, and where one has yet to get them all.
Contended == UNION {Locks(j) : j \in Load}
Undecided == {"idle", "absent", "check", "external", "lease"}

\* Load test i is not blocked by another and stays ahead of h: it has got past the
\* leases, or it holds one that sorts after all those that h still has.
Ahead(i, h) ==
  \/ outcome[i] # "loadtest" /\ pc[i] \notin Undecided
  \/ /\ pc[i] = "lease"
     /\ \E k \in Held(i) : \A l \in Contended : lease[l].holder = h => Before(l, k)

\* The leases that a load test has sort before those that it has yet to take.
KeysInOrder(j) ==
  pc[j] = "lease" => \A k \in Held(j) : \A l \in Locks(j) \ Held(j) : Before(k, l)

SomeoneAhead ==
  (\A j \in Job : ~lost[j]) =>
    \A h \in Load : outcome[h] = "loadtest" => \E i \in Load : Ahead(i, h)

ContendInv == (\A j \in Load : KeysInOrder(j)) /\ SomeoneAhead

\* The keys sort by their names.
LEMMA BeforeOrders ==
  ASSUME TypeOK, NEW k \in Contended, NEW l \in Contended, NEW m \in Contended
  PROVE  /\ Before(k, l) /\ Before(l, m) => Before(k, m)
         /\ ~(Before(k, l) /\ Before(l, k))
<1> DEFINE Named == {"burst", "dax", "loadtest", "soak", "global"}
<1>1. \A j \in Load : \A n \in Keys(j) : n[2] \in Named
  BY DEF Keys, Global, Benchmark
<1>2. \A j \in Load : \A n \in Keys(j) : LockOf(j, n)[2] \in Named
  <2>1. \A j \in Load : \A n \in Keys(j) : LockOf(j, n) \in {n, <<"file", "loadtest">>}
    BY LoadGuardAssumption DEF LockOf
  <2>2. <<"file", "loadtest">>[2] = "loadtest"
    OBVIOUS
  <2> QED
    BY <1>1, <2>1, <2>2
<1>3. \A n \in Contended : n[2] \in Named
  BY <1>2 DEF Contended, Locks
<1> DEFINE rank == [burst |-> 1, dax |-> 2, loadtest |-> 3, soak |-> 4,
                    global |-> IF GlobalFirst THEN 0 ELSE 5]
<1>4. \A n \in Named : rank[n] \in Int
  OBVIOUS
<1>5. rank[k[2]] \in Int /\ rank[l[2]] \in Int /\ rank[m[2]] \in Int
  BY <1>3, <1>4
<1>6. \A x, y : Before(x, y) <=> rank[x[2]] < rank[y[2]]
  BY DEF Before
<1> HIDE DEF rank
<1> QED
  BY <1>5, <1>6

\* The locks of a load test sort as its keys do.
LEMMA LocksSort ==
  ASSUME TypeOK, NEW j \in Load, NEW k \in Keys(j), NEW l \in Keys(j),
         LockOf(j, k) # LockOf(j, l), Before(k, l)
  PROVE  Before(LockOf(j, k), LockOf(j, l))
<1>1. LockOf(j, k) = k /\ LockOf(j, l) = l
  BY LoadGuardAssumption DEF LockOf
<1> QED
  BY <1>1

\* A failure is never forgotten, and nobody comes back to the leases.
LEMMA LostStays ==
  ASSUME GuardInv, NEW j \in Job, Step(j), NEW i \in Job, lost[i]
  PROVE  lost'[i]
<1>1. lost \in [Job -> BOOLEAN]
  BY DEF GuardInv, TypeOK
<1>2. lost' = lost \/ lost' = [lost EXCEPT ![j] = TRUE]
  <2>1. CASE j \in Load /\ LoadStep(j)
    BY <2>1 DEF LoadStep, AcquireGuard, Begin, Check, CheckExternal, TakeLease, Recheck,
                AdmitOnce, FinalCheck, Start, Work, Cleanup, Release, ReleaseNext,
                AcquireFails
  <2>2. CASE j \in Bench /\ BenchStep(j)
    BY <2>2 DEF BenchStep, BenchBegin, BenchAcquire, BenchWork, ReleaseNext, AcquireFails
  <2>3. CASE Kill(j)
    BY <2>3 DEF Kill
  <2> QED
    BY <2>1, <2>2, <2>3 DEF Step
<1> QED
  BY <1>1, <1>2

\* What is left of a blocked load test only gives leases back.
LEMMA BlockedFrees ==
  ASSUME GuardInv, NEW j \in Job, Step(j), NEW h \in Load, outcome[h] = "loadtest"
  PROVE  /\ outcome'[h] = "loadtest"
         /\ \A l \in Lock : lease'[l].holder = h => lease[l].holder = h
<1>1. /\ TypeOK /\ InOrder(h) /\ Frame(j) /\ LeaseStep(j) /\ h \in Job /\ h # NoHolder
  BY StepFrame, LoadGuardAssumption DEF GuardInv, Job
<1>2. CASE h # j
  BY <1>1, <1>2 DEF Frame, LeaseStep, Free
<1>3. CASE h = j /\ Kill(j)
  BY <1>1, <1>3, KillEffect DEF Kill, Free, TypeOK
<1>4. CASE h = j /\ LoadStep(j)
  <2>1. pc[j] = "blocked_release"
    BY <1>1, <1>4, OutcomeStep DEF InOrder, Preflighting, Working, Releasing
  <2>2. ReleaseNext(j, "blocked")
    BY <1>4, <2>1 DEF LoadStep, AcquireGuard, Begin, Check, CheckExternal, TakeLease,
                      Recheck, AdmitOnce, FinalCheck, Start, Work, Cleanup, Release
  <2>3. UNCHANGED lease \/ Removes(j, Head(leases[j]))
    BY <2>2 DEF ReleaseNext
  <2>4. outcome' = outcome
    BY <2>2 DEF ReleaseNext
  <2> QED
    BY <1>1, <1>4, <2>3, <2>4 DEF Removes, Free, TypeOK
<1> QED
  BY <1>1, <1>2, <1>3, <1>4, LoadGuardAssumption DEF Step

\* A load test is blocked by another at the first lease that it has yet to take.
LEMMA BlockedStep ==
  ASSUME GuardInv, NEW j \in Load, Step(j), outcome[j] # "loadtest", outcome'[j] = "loadtest"
  PROVE  /\ pc[j] = "lease" /\ UNCHANGED <<lease, leases, lost>>
         /\ \E k \in Locks(j) \ Held(j) :
              /\ lease[k].holder \in Load
              /\ \A l \in Locks(j) \ Held(j) : l = k \/ Before(k, l)
<1>1. TypeOK /\ j \in Job /\ InOrder(j)
      /\ {"time", "config", "error", "daily", "benchmark"} \subseteq Reason
  BY DEF GuardInv, Job, Reason
<1>2. LoadStep(j)
  <2>1. ~Kill(j)
    BY <1>1, KillEffect
  <2> QED
    BY <2>1, LoadGuardAssumption DEF Step
<1>3. ~UNCHANGED outcome
  OBVIOUS
<1>4. \A why \in Reason : Block(j, why) => why = "loadtest"
  BY <1>1, Blocks
<1>5. ~Admit(j)
  <2>1. Admit(j) => outcome'[j] = "admitted"
    BY <1>1, Judgements DEF Admit
  <2> QED
    BY <2>1
<1>6. ~Block(j, "time") /\ ~Block(j, "config") /\ ~Block(j, "error") /\ ~Block(j, "daily")
      /\ ~Block(j, "benchmark")
  BY <1>1, <1>4
<1>7. TakeLease(j)
  <2>1. ~CheckExternal(j)
    BY <1>3, <1>6 DEF CheckExternal
  <2>2. ~Check(j) /\ ~Recheck(j) /\ ~AdmitOnce(j) /\ ~FinalCheck(j)
    BY <1>3, <1>5, <1>6 DEF Check, Recheck, AdmitOnce, FinalCheck
  <2>3. ~Begin(j) /\ ~Start(j) /\ ~Work(j) /\ ~Cleanup(j) /\ ~Release(j)
    BY <1>3 DEF Begin, Start, Work, Cleanup, Release, ReleaseNext
  <2> QED
    BY <1>2, <2>1, <2>2, <2>3 DEF LoadStep, AcquireGuard
<1> DEFINE missing == {k \in Keys(j) : LockOf(j, k) \notin Held(j)}
<1>8. PICK k \in missing :
        /\ \A l \in missing : k = l \/ Before(k, l)
        /\ ~Available(LockOf(j, k)) /\ Block(j, HolderKind(LockOf(j, k)))
        /\ UNCHANGED <<lease, leases, lost>>
  BY <1>3, <1>6, <1>7 DEF TakeLease
<1>9. lease[LockOf(j, k)].holder \in Load
  <2>1. LockOf(j, k) \in Lock
    BY <1>1, LocksOfLoad DEF Locks
  <2>2. lease[LockOf(j, k)].holder \in Job \cup {NoHolder}
    BY <1>1, <2>1 DEF TypeOK
  <2>3. lease[LockOf(j, k)].holder \notin Bench
    BY <1>6, <1>8 DEF HolderKind
  <2> QED
    BY <1>8, <2>2, <2>3 DEF Available, Job
<1>10. \A l \in Locks(j) \ Held(j) : l = LockOf(j, k) \/ Before(LockOf(j, k), l)
  <2> SUFFICES ASSUME NEW l \in Locks(j) \ Held(j), l # LockOf(j, k)
               PROVE  Before(LockOf(j, k), l)
    OBVIOUS
  <2>1. PICK m \in missing : l = LockOf(j, m)
    BY DEF Locks
  <2> QED
    BY <1>1, <1>8, <2>1, LocksSort
<1>11. LockOf(j, k) \in Locks(j) \ Held(j) /\ pc[j] = "lease"
  BY <1>7, <1>8 DEF Locks, TakeLease
<1> QED
  BY <1>8, <1>9, <1>10, <1>11

\* A load test takes its locks in their order.
LEMMA KeysInOrderStep ==
  ASSUME GuardInv, NEW j \in Job, Step(j), NEW i \in Load, KeysInOrder(i)
  PROVE  KeysInOrder(i)'
<1>1. TypeOK /\ HoldsKeys(i) /\ i \in Job /\ Frame(j) /\ cfg' = cfg
  BY StepFrame DEF GuardInv, Job, Frame
<1>2. Locks(i)' = Locks(i)
  BY <1>1 DEF Locks, LockOf, Keys
<1>3. CASE pc'[i] = pc[i] /\ leases'[i] = leases[i]
  BY <1>2, <1>3 DEF KeysInOrder, Held, Elements
<1>4. CASE i = j /\ Kill(j)
  BY <1>1, <1>4, KillEffect DEF KeysInOrder
<1>5. CASE i = j /\ LoadStep(j) /\ pc'[i] = "lease"
  <2>1. CASE pc[i] = "external"
    <3>1. leases'[i] = <<>>
      BY <1>1, <1>5, <2>1 DEF HoldsKeys, LoadStep, AcquireGuard, Begin, Check, CheckExternal,
         TakeLease, Recheck, AdmitOnce, FinalCheck, Start, Work, Cleanup, Release
    <3> QED
      BY <3>1, EmptyElements DEF KeysInOrder, Held
  <2>2. CASE TakeLease(j)
    <3> DEFINE missing == {k \in Keys(j) : LockOf(j, k) \notin Held(j)}
    <3>1. \A why \in Reason : ~Block(j, why)
      BY <1>1, <1>5, Blocks
    <3>2. ~Goto(j, "recheck")
      BY <1>1, <1>5 DEF Goto, TypeOK
    <3>3. PICK k \in missing : /\ \A l \in missing : k = l \/ Before(k, l)
                               /\ Acquires(j, LockOf(j, k), LockEnds(j))
      BY <2>2, <3>1, <3>2 DEF TakeLease, HolderKind, Reason
    <3>4. LockOf(j, k) \in Lock /\ LockEnds(j) \in SUBSET Nat
      BY <1>1, <1>5, LocksOfLoad, EndsAreTimes DEF Locks
    <3>5. leases'[j] = <<LockOf(j, k)>> \o leases[j]
      BY <1>1, <1>5, <3>3, <3>4, Acquisition
    <3>6. Held(j)' = {LockOf(j, k)} \cup Held(j)
      BY <1>1, <1>5, <3>4, <3>5, PushElement DEF Held, TypeOK
    <3>7. \A l \in Locks(j) \ Held(j) : l = LockOf(j, k) \/ Before(LockOf(j, k), l)
      <4> SUFFICES ASSUME NEW l \in Locks(j) \ Held(j), l # LockOf(j, k)
                   PROVE  Before(LockOf(j, k), l)
        OBVIOUS
      <4>1. PICK m \in missing : l = LockOf(j, m)
        BY DEF Locks
      <4> QED
        BY <1>1, <1>5, <3>3, <4>1, LocksSort
    <3> QED
      BY <1>2, <1>5, <2>2, <3>6, <3>7 DEF KeysInOrder, TakeLease
  <2>3. pc[i] \in {"external", "lease"} \/ TakeLease(j)
    <3>1. "external" \in State /\ "check" \in State /\ "recheck" \in State
          /\ "marker" \in State /\ "final_check" \in State
      BY DEF State, Preflighting
    <3>2. pc[i] \in {"check", "external", "lease", "recheck", "marker"}
      BY <1>5, OutcomeStep DEF Preflighting, Unmarked
    <3>3. \A why \in Reason : ~Block(j, why)
      BY <1>1, <1>5, Blocks
    <3>4. ~Goto(j, "external") /\ ~Goto(j, "marker") /\ ~Goto(j, "final_check") /\ ~Enter(j, "admitted")
      BY <1>1, <1>5, <3>1, Movements DEF Goto, Enter, TypeOK
    <3>5. pc[i] # "check" /\ pc[i] # "recheck" /\ pc[i] # "marker"
      BY <1>5, <3>3, <3>4 DEF LoadStep, AcquireGuard, Begin, Check, CheckExternal,
         TakeLease, Recheck, AdmitOnce, FinalCheck, Start, Work, Cleanup, Release, Admit, Reason
    <3> QED
      BY <3>2, <3>5
  <2>4. pc[i] = "lease" => TakeLease(j)
    BY <1>5 DEF LoadStep, AcquireGuard, Begin, Check, CheckExternal,
         TakeLease, Recheck, AdmitOnce, FinalCheck, Start, Work, Cleanup, Release
  <2> QED
    BY <2>1, <2>2, <2>3, <2>4
<1>6. i # j => pc'[i] = pc[i] /\ leases'[i] = leases[i]
  BY <1>1 DEF Frame
<1> QED
  BY <1>3, <1>4, <1>5, <1>6, LoadGuardAssumption DEF Step, KeysInOrder

\* A load test that is ahead of a blocked one stays ahead, unless it is blocked now.
LEMMA AheadKept ==
  ASSUME GuardInv, NEW j \in Job, Step(j), NEW h \in Load, outcome[h] = "loadtest",
         NEW i \in Load, Ahead(i, h),
         outcome[i] # "loadtest" => outcome'[i] # "loadtest"
  PROVE  Ahead(i, h)'
<1>1. /\ TypeOK /\ TypeOK' /\ InOrder(i) /\ HoldsKeys(i) /\ i \in Job /\ Frame(j) /\ cfg' = cfg
  BY StepFrame DEF GuardInv, Job, Frame
<1>2. Contended' = Contended /\ Contended \subseteq Lock
  <2>1. Contended' = Contended
    BY <1>1 DEF Contended, Locks, LockOf, Keys
  <2>2. Contended \subseteq Lock
    BY <1>1, LocksOfLoad DEF Contended
  <2> QED
    BY <2>1, <2>2
<1>3. \A l \in Contended : lease'[l].holder = h => lease[l].holder = h
  BY <1>2, BlockedFrees
<1>4. outcome'[i] # "loadtest"
  BY <1>1 DEF Ahead, InOrder, Preflighting
<1>5. CASE pc'[i] = pc[i] /\ Held(i) \subseteq Held(i)'
  BY <1>2, <1>3, <1>4, <1>5 DEF Ahead
<1>6. CASE i # j
  <2>1. Held(i)' = Held(i) /\ pc'[i] = pc[i]
    BY <1>1, <1>6 DEF Frame, Held, Elements
  <2> QED
    BY <1>5, <2>1
<1>7. CASE pc'[i] \notin Undecided
  BY <1>4, <1>7 DEF Ahead
<1>8. CASE i = j /\ Kill(j)
  BY <1>1, <1>7, <1>8, KillEffect DEF Undecided
<1>9. CASE i = j /\ LoadStep(j)
  <2>1. \A why \in Reason : Block(j, why) => pc'[i] \notin Undecided
    BY <1>1, <1>9, Blocks DEF Undecided
  <2>2. CASE TakeLease(j)
    <3> DEFINE missing == {k \in Keys(j) : LockOf(j, k) \notin Held(j)}
    <3>1. Goto(j, "recheck") => pc'[i] \notin Undecided
      BY <1>1, <1>9 DEF Goto, TypeOK, Undecided
    <3>2. ASSUME NEW k \in missing, Acquires(j, LockOf(j, k), LockEnds(j)), UNCHANGED pc
          PROVE  Ahead(i, h)'
      <4>1. LockOf(j, k) \in Lock /\ LockEnds(j) \in SUBSET Nat
        BY <1>1, <1>9, LocksOfLoad, EndsAreTimes DEF Locks
      <4>2. leases'[j] = <<LockOf(j, k)>> \o leases[j]
        BY <1>1, <1>9, <3>2, <4>1, Acquisition
      <4>3. Held(j)' = {LockOf(j, k)} \cup Held(j)
        BY <1>1, <1>9, <4>1, <4>2, PushElement DEF Held, TypeOK
      <4> QED
        BY <1>5, <1>9, <3>2, <4>3
    <3>3. \/ pc'[i] \notin Undecided
          \/ \E k \in missing : Acquires(j, LockOf(j, k), LockEnds(j)) /\ UNCHANGED pc
      BY <2>1, <2>2, <3>1 DEF TakeLease, HolderKind, Reason
    <3> QED
      BY <1>7, <3>2, <3>3
  <2>3. pc[i] = "lease" => TakeLease(j)
    BY <1>9 DEF LoadStep, AcquireGuard, Begin, Check, CheckExternal,
         TakeLease, Recheck, AdmitOnce, FinalCheck, Start, Work, Cleanup, Release
  <2>4. CASE pc[i] \in {"recheck", "marker", "final_check"}
    <3>1. Recheck(j) \/ AdmitOnce(j) \/ FinalCheck(j)
      BY <1>9, <2>4 DEF LoadStep, AcquireGuard, Begin, Check, CheckExternal,
         TakeLease, Start, Work, Cleanup, Release
    <3>2. \/ \E why \in Reason : Block(j, why)
          \/ \E l \in {"marker", "final_check", "admitted"} : pc' = [pc EXCEPT ![j] = l]
      BY <3>1 DEF Recheck, AdmitOnce, FinalCheck, Admit, Enter, Goto, Reason
    <3>3. pc'[i] \notin Undecided
      BY <1>1, <1>9, <2>1, <3>2 DEF TypeOK, Undecided
    <3> QED
      BY <1>7, <3>3
  <2>5. CASE pc[i] \notin Undecided /\ pc[i] \notin {"recheck", "marker", "final_check"}
    <3>1. pc[i] \notin Preflighting
      BY <2>5 DEF Preflighting, Undecided
    <3>2. pc'[i] \notin Undecided
      BY <1>9, <2>5, <3>1, OutcomeStep DEF Undecided, Releasing
    <3> QED
      BY <1>7, <3>2
  <2> QED
    BY <2>2, <2>3, <2>4, <2>5 DEF Ahead
<1> QED
  BY <1>6, <1>8, <1>9, LoadGuardAssumption DEF Step

\* When a load test is blocked by another, somebody else is past that lease: its
\* holder, or who is ahead of the holder.
LEMMA SomeoneBeyond ==
  ASSUME GuardInv, ContendInv, NEW j \in Load, \A i \in Job : ~lost[i],
         pc[j] = "lease", NEW k \in Locks(j) \ Held(j), lease[k].holder \in Load
  PROVE  \E i \in Load \ {j} :
           \/ outcome[i] # "loadtest" /\ pc[i] \notin Undecided
           \/ pc[i] = "lease" /\ \E m \in Held(i) \cap Contended : m = k \/ Before(k, m)
<1> DEFINE h == lease[k].holder
<1>1. /\ TypeOK /\ j \in Job /\ h \in Load /\ h \in Job /\ k \in Contended /\ k \in Lock
      /\ \A i \in Load : HoldsKeys(i) /\ InOrder(i) /\ Recalls(i)
  BY LocksOfLoad DEF GuardInv, Job, Contended
<1>2. \A i \in Load : pc[i] = "lease" => Held(i) \subseteq Locks(i) /\ Locks(i) \subseteq Contended
  BY <1>1 DEF HoldsKeys, Contended
<1>3. h # j
  <2>1. outcome[j] # "admitted"
    BY <1>1 DEF InOrder, Preflighting
  <2> QED
    BY <1>1, <2>1 DEF Recalls
<1>4. CASE outcome[h] = "loadtest"
  <2>1. PICK i \in Load : Ahead(i, h)
    BY <1>1, <1>4 DEF ContendInv, SomeoneAhead
  <2>2. CASE outcome[i] # "loadtest" /\ pc[i] \notin Undecided
    BY <2>2 DEF Undecided
  <2>3. CASE pc[i] = "lease" /\ \E m \in Held(i) : \A l \in Contended : lease[l].holder = h => Before(l, m)
    <3>1. PICK m \in Held(i) : Before(k, m)
      BY <1>1, <2>3
    <3>2. m \in Contended
      BY <1>2, <2>3
    <3>3. i # j
      <4> SUFFICES ASSUME i = j
                   PROVE  FALSE
        OBVIOUS
      <4>1. Before(m, k)
        BY <3>1 DEF ContendInv, KeysInOrder
      <4> QED
        BY <1>1, <3>1, <3>2, <4>1, BeforeOrders
    <3> QED
      BY <2>3, <3>1, <3>2, <3>3
  <2> QED
    BY <2>1, <2>2, <2>3 DEF Ahead
<1>5. CASE outcome[h] # "loadtest" /\ pc[h] \notin Undecided
  BY <1>1, <1>3, <1>5
<1>6. CASE pc[h] \in Undecided
  <2>1. k \in Held(h)
    <3>1. k # Marker(h)
      BY <1>1, LocksOfLoad
    <3> QED
      BY <1>1, <1>6, <3>1 DEF Recalls, Undecided
  <2>2. pc[h] = "lease"
    <3>1. leases[h] # <<>>
      BY <2>1, EmptyElements DEF Held
    <3> QED
      BY <1>1, <1>6, <3>1 DEF HoldsKeys, Undecided, Over
  <2> QED
    BY <1>1, <1>3, <2>1, <2>2
<1> QED
  BY <1>4, <1>5, <1>6

\* Whatever a job does, somebody is ahead of those that were blocked.
LEMMA SomeoneAheadStep ==
  ASSUME GuardInv, ContendInv, NEW j \in Job, Step(j)
  PROVE  SomeoneAhead'
<1> SUFFICES ASSUME \A i \in Job : ~lost'[i], NEW h \in Load, outcome'[h] = "loadtest"
             PROVE  \E i \in Load : Ahead(i, h)'
  BY DEF SomeoneAhead
<1>1. /\ TypeOK /\ Frame(j) /\ h \in Job /\ cfg' = cfg
      /\ \A i \in Load : HoldsKeys(i) /\ InOrder(i) /\ Recalls(i)
  BY StepFrame DEF GuardInv, Job, Frame
<1>2. \A i \in Job : ~lost[i]
  BY LostStays
<1>3. \A i \in Load \ {j} : outcome'[i] = outcome[i]
  BY <1>1 DEF Frame
<1>4. CASE j \in Load /\ outcome[j] # "loadtest" /\ outcome'[j] = "loadtest"
  <2>1. /\ pc[j] = "lease" /\ UNCHANGED <<lease, leases, lost>>
        /\ \E k \in Locks(j) \ Held(j) :
             /\ lease[k].holder \in Load
             /\ \A l \in Locks(j) \ Held(j) : l = k \/ Before(k, l)
    BY <1>4, BlockedStep
  <2>2. PICK k \in Locks(j) \ Held(j) : lease[k].holder \in Load
    BY <2>1
  <2>3. PICK i \in Load \ {j} :
          \/ outcome[i] # "loadtest" /\ pc[i] \notin Undecided
          \/ pc[i] = "lease" /\ \E m \in Held(i) \cap Contended : m = k \/ Before(k, m)
    BY <1>2, <1>4, <2>1, <2>2, SomeoneBeyond
  <2>4. /\ pc'[i] = pc[i] /\ outcome'[i] = outcome[i] /\ Held(i)' = Held(i)
        /\ Contended' = Contended /\ i \in Job
    BY <1>1, <2>1 DEF Frame, Held, Elements, Job, Contended, Locks, LockOf, Keys
  <2>5. Held(j) \subseteq Contended /\ k \in Contended
        /\ \A l \in Held(j) : Before(l, k)
    <3>1. Held(j) \subseteq Locks(j) /\ Locks(j) \subseteq Contended
      BY <1>1, <1>4, <2>1 DEF HoldsKeys, Contended
    <3> QED
      BY <1>4, <2>1, <3>1 DEF ContendInv, KeysInOrder
  <2>6. CASE outcome[i] # "loadtest" /\ pc[i] \notin Undecided
    BY <2>4, <2>6 DEF Ahead
  <2>7. CASE pc[i] = "lease" /\ \E m \in Held(i) \cap Contended : m = k \/ Before(k, m)
    <3>1. PICK m \in Held(i) \cap Contended : m = k \/ Before(k, m)
      BY <2>7
    <3>2. \A l \in Contended : Before(l, k) => Before(l, m)
      BY <1>1, <2>5, <3>1, BeforeOrders
    <3>3. CASE h = j
      <4>1. \A l \in Contended : lease[l].holder = j => l \in Held(j)
        <5>1. outcome[j] # "admitted" /\ pc[j] # "killed" /\ j \in Job
          BY <1>1, <1>4, <2>1 DEF InOrder, Preflighting
        <5>2. Contended \subseteq Lock
          BY <1>1, LocksOfLoad DEF Contended
        <5> QED
          BY <1>1, <1>2, <1>4, <5>1, <5>2 DEF Recalls
      <4> QED
        BY <2>1, <2>4, <2>5, <2>7, <3>1, <3>2, <3>3, <4>1 DEF Ahead
    <3>4. CASE h # j
      <4>1. outcome[h] = "loadtest"
        BY <1>3, <3>4
      <4>2. PICK g \in Load : Ahead(g, h)
        BY <1>2, <4>1 DEF ContendInv, SomeoneAhead
      <4>3. CASE g # j
        BY <1>3, <4>1, <4>2, <4>3, AheadKept
      <4>4. CASE g = j
        <5>1. PICK n \in Held(j) : \A l \in Contended : lease[l].holder = h => Before(l, n)
          BY <2>1, <4>2, <4>4 DEF Ahead, Undecided
        <5>2. \A l \in Contended : lease[l].holder = h => Before(l, k)
          BY <1>1, <2>5, <5>1, BeforeOrders
        <5> QED
          BY <2>1, <2>4, <2>7, <3>1, <3>2, <5>2 DEF Ahead
      <4> QED
        BY <4>3, <4>4
    <3> QED
      BY <3>3, <3>4
  <2> QED
    BY <2>3, <2>6, <2>7
<1>5. CASE ~(j \in Load /\ outcome[j] # "loadtest" /\ outcome'[j] = "loadtest")
  <2>1. \A i \in Load : outcome[i] # "loadtest" => outcome'[i] # "loadtest"
    BY <1>3, <1>5
  <2>2. PICK i \in Load : Ahead(i, h)
    BY <1>2, <2>1 DEF ContendInv, SomeoneAhead
  <2> QED
    BY <2>1, <2>2, AheadKept
<1> QED
  BY <1>4, <1>5

\* Load tests do not all block each other, however many contend: the first that is
\* blocked leaves somebody ahead, and so does everyone after it (AcquireGuard's sorted
\* keys).  There has to be a load test.
THEOREM NotAllContendedHolds == ASSUME Load # {} PROVE Spec => []NotAllContended
<1>1. Init => ContendInv
  BY DEF Init, ContendInv, KeysInOrder, SomeoneAhead, Job
<1>2. GuardInv /\ ContendInv /\ [Next]_vars => ContendInv'
  <2> SUFFICES ASSUME GuardInv, ContendInv, [Next]_vars
               PROVE  ContendInv'
    OBVIOUS
  <2>1. ASSUME NEW j \in Job, Step(j)
        PROVE  ContendInv'
    BY <2>1, KeysInOrderStep, SomeoneAheadStep DEF ContendInv
  <2>2. CASE UNCHANGED <<cfg, lease, jobs>>
    <3>1. /\ pc' = pc /\ outcome' = outcome /\ lease' = lease /\ lost' = lost
          /\ Contended' = Contended
          /\ \A j \in Load : Locks(j)' = Locks(j) /\ Held(j)' = Held(j)
      BY <2>2 DEF Contended, Locks, LockOf, Keys, Held, Elements, jobs
    <3>2. \A j \in Load : KeysInOrder(j)'
      BY <3>1 DEF ContendInv, KeysInOrder
    <3>3. \A i, h \in Load : Ahead(i, h) => Ahead(i, h)'
      BY <3>1 DEF Ahead
    <3>4. SomeoneAhead'
      BY <3>1, <3>3 DEF ContendInv, SomeoneAhead
    <3> QED
      BY <3>2, <3>4 DEF ContendInv
  <2> QED
    BY <2>1, <2>2 DEF Next, Step, Tick, vars, Job
<1>3. GuardInv /\ ContendInv => NotAllContended
  <2> SUFFICES ASSUME GuardInv, ContendInv, \A j \in Job : ~lost[j],
                      \A j \in Load : outcome[j] = "loadtest"
               PROVE  FALSE
    BY DEF NotAllContended
  <2>1. PICK i \in Load : \E h \in Load : Ahead(i, h)
    BY DEF ContendInv, SomeoneAhead
  <2> QED
    BY <2>1 DEF Ahead, GuardInv, InOrder, Preflighting
<1> QED
  BY <1>1, <1>2, <1>3, GuardInvariant, PTL DEF Spec
=============================================================================
