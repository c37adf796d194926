---------------------------- MODULE BurstProofs ----------------------------
(***************************************************************************)
(* Proofs about the burst canary for bursts of any size, any latencies and  *)
(* any faults: what a burst leaves behind, what its success means, and that *)
(* its statistics are those of the benchmark.                               *)
(***************************************************************************)
EXTENDS Burst, FiniteSetTheorems, SequenceTheorems, WellFoundedInduction, TLAPS

-----------------------------------------------------------------------------
(* Counting samples *)

\* There are finitely many samples, and more latencies have more of them.
LEMMA Counting ==
  ASSUME TypeOK, NEW S \in SUBSET Latency, NEW T \in SUBSET S
  PROVE  /\ IsFiniteSet(SamplesOf(S)) /\ HowMany(S) \in Nat
         /\ SamplesOf(T) \subseteq SamplesOf(S) /\ HowMany(T) <= HowMany(S)
<1>1. size \in Nat
  BY BurstAssumption DEF TypeOK
<1>2. IsFiniteSet(Latency \X (1..size))
  <2>1. IsFiniteSet(1..size)
    BY <1>1, FS_Interval
  <2>2. IsFiniteSet(Latency)
    BY BurstAssumption
  <2> QED
    BY <2>1, <2>2, FS_Product, Zenon
<1>3. \A l \in Latency : ttis[l] \in 0..size
  BY DEF TypeOK
<1>4. SamplesOf(S) \subseteq Latency \X (1..size)
  BY <1>1, <1>3 DEF SamplesOf
<1>5. IsFiniteSet(SamplesOf(S))
  BY <1>2, <1>4, FS_Subset
<1>6. SamplesOf(T) \subseteq SamplesOf(S)
  BY DEF SamplesOf
<1> QED
  BY <1>5, <1>6, FS_Subset, FS_CardinalityType DEF HowMany

\* A latency is that of no more samples than there are.
LEMMA FewEach ==
  ASSUME TypeOK, NEW l \in Latency
  PROVE  ttis[l] <= Succeeded
<1>1. ttis[l] \in Nat
  BY BurstAssumption DEF TypeOK
<1>2. SamplesOf({l}) = {l} \X (1..ttis[l])
  BY DEF SamplesOf
<1>3. IsFiniteSet(1..ttis[l]) /\ Cardinality(1..ttis[l]) = ttis[l]
  BY <1>1, FS_Interval
<1>4. IsFiniteSet({l}) /\ Cardinality({l}) = 1
  BY FS_Singleton
<1>5. Cardinality({l} \X (1..ttis[l])) = ttis[l]
  <2>1. Cardinality({l} \X (1..ttis[l])) = Cardinality({l}) * Cardinality(1..ttis[l])
    BY <1>3, <1>4, FS_Product, Zenon
  <2> QED
    BY <1>1, <1>3, <1>4, <2>1
<1>6. HowMany({l}) = ttis[l]
  BY <1>2, <1>5, Zenon DEF HowMany
<1>7. HowMany({l}) <= HowMany(Latency)
  BY Counting
<1> QED
  BY <1>6, <1>7 DEF Succeeded

\* The samples change with nothing but ttis.
LEMMA SameSamples ==
  ASSUME UNCHANGED ttis
  PROVE  Succeeded' = Succeeded
BY DEF Succeeded, HowMany, SamplesOf

\* One sample more is counted once.
LEMMA OneMore ==
  ASSUME TypeOK, NEW tti \in Latency, ttis' = [ttis EXCEPT ![tti] = @ + 1]
  PROVE  Succeeded' = Succeeded + 1
<1> DEFINE new == <<tti, ttis[tti] + 1>>
<1>1. \A l \in Latency : ttis[l] \in Nat
  BY BurstAssumption DEF TypeOK
<1>2. \A l \in Latency : ttis'[l] = IF l = tti THEN ttis[l] + 1 ELSE ttis[l]
  BY DEF TypeOK
<1>3. \A l \in Latency :
        {l} \X (1..ttis'[l]) = ({l} \X (1..ttis[l])) \cup (IF l = tti THEN {new} ELSE {})
  <2> SUFFICES ASSUME NEW l \in Latency
               PROVE  {l} \X (1..ttis'[l])
                        = ({l} \X (1..ttis[l])) \cup (IF l = tti THEN {new} ELSE {})
    OBVIOUS
  <2>1. CASE l = tti
    <3>1. 1..ttis'[l] = (1..ttis[l]) \cup {ttis[l] + 1}
      BY <1>1, <1>2, <2>1
    <3> QED
      BY <2>1, <3>1
  <2>2. CASE l # tti
    BY <1>2, <2>2
  <2> QED
    BY <2>1, <2>2
<1>4. SamplesOf(Latency)' = SamplesOf(Latency) \cup {new}
  <2>1. SamplesOf(Latency)' = UNION {{l} \X (1..ttis'[l]) : l \in Latency}
    BY DEF SamplesOf
  <2> HIDE DEF new
  <2> QED
    BY <1>3, <2>1 DEF SamplesOf
<1>5. new \notin SamplesOf(Latency)
  BY <1>1 DEF SamplesOf
<1>6. IsFiniteSet(SamplesOf(Latency)) /\ Cardinality(SamplesOf(Latency)) \in Nat
  BY Counting DEF HowMany
<1> HIDE DEF new
<1>7. Cardinality(SamplesOf(Latency)') = Cardinality(SamplesOf(Latency)) + 1
  BY <1>4, <1>5, <1>6, FS_AddElement
<1> QED
  BY <1>7 DEF Succeeded, HowMany

-----------------------------------------------------------------------------
(* The burst *)

\* No goroutine has begun.
LEMMA InitHolds == Init => BurstInv
<1> SUFFICES ASSUME Init
             PROVE  BurstInv
  OBVIOUS
<1> USE BurstAssumption DEF Init
<1>1. TypeOK
  BY DEF TypeOK
<1>2. SamplesOf(Latency) = {}
  BY DEF SamplesOf
<1>3. Succeeded = 0
  BY <1>2, FS_EmptySet DEF Succeeded, HowMany
<1> QED
  BY <1>1, <1>3 DEF BurstInv, Placed, Boxes, Times, Verdict

\* Before the verdict nothing is said of it.
LEMMA StillRunning ==
  ASSUME BurstInv, creating > 0 \/ running > 0 \/ deleting > 0, outcome' = outcome
  PROVE  Verdict'
BY DEF BurstInv, Verdict, TypeOK

\* The sizes and counts are numbers, also the number of samples.
LEMMA Numbers ==
  ASSUME TypeOK
  PROVE  /\ size \in Nat /\ creating \in Nat /\ running \in Nat /\ deleting \in Nat
         /\ failed \in Nat /\ undeleted \in Nat /\ lost \in Nat /\ boxes \in Nat
         /\ Succeeded \in Nat
         /\ \A l \in Latency : l \in Nat /\ l > 0 /\ ttis[l] \in Nat
<1>1. Succeeded \in Nat
  BY Counting DEF Succeeded
<1> QED
  BY <1>1, BurstAssumption DEF TypeOK

\* A sandbox is created, or is not known to have been.
LEMMA CreateKeeps ==
  ASSUME BurstInv, Create
  PROVE  BurstInv'
<1> USE BurstAssumption, Numbers DEF BurstInv, Create
<1>1. Succeeded' = Succeeded
  BY SameSamples
<1>2. Placed' /\ Boxes'
  BY <1>1 DEF Placed, Boxes
<1>3. TypeOK'
  BY DEF TypeOK, Placed, Boxes
<1>4. Times' /\ Verdict'
  BY StillRunning DEF Times
<1> QED
  BY <1>2, <1>3, <1>4

\* A command succeeds: one sample more.
LEMMA ExecKeeps ==
  ASSUME BurstInv, Exec
  PROVE  BurstInv'
<1> USE BurstAssumption, Numbers DEF BurstInv
<1>1. PICK tti \in Latency, delay \in Delay :
        /\ ttis' = [ttis EXCEPT ![tti] = @ + 1]
        /\ wallClock' = IF tti + delay > wallClock THEN tti + delay ELSE wallClock
        /\ firstReady' = IF firstReady = 0 \/ tti + delay < firstReady
                         THEN tti + delay ELSE firstReady
  BY DEF Exec
<1>2. Succeeded' = Succeeded + 1
  BY <1>1, OneMore
<1>3. Placed' /\ Boxes'
  BY <1>2 DEF Exec, Placed, Boxes
<1>4. ttis[tti] < size
  BY FewEach DEF Exec, Placed
<1>5. TypeOK'
  <2>1. tti + delay \in Nat
    OBVIOUS
  <2>2. {wallClock', firstReady'} \subseteq Nat
    BY <1>1, <2>1 DEF TypeOK
  <2>3. ttis' \in [Latency -> 0..size]
    BY <1>1, <1>4 DEF TypeOK
  <2> QED
    BY <1>3, <2>2, <2>3 DEF Exec, TypeOK, Boxes, Placed
<1>6. Times'
  <2>1. tti > 0 /\ tti \in Nat /\ delay \in Nat /\ wallClock \in Nat /\ firstReady \in Nat
    BY DEF TypeOK
  <2>2. \A l \in Latency : ttis'[l] > 0 => ttis[l] > 0 \/ l = tti
    BY <1>1 DEF TypeOK
  <2> QED
    BY <1>1, <2>1, <2>2 DEF Times
<1>7. Verdict'
  BY StillRunning DEF Exec
<1> QED
  BY <1>3, <1>5, <1>6, <1>7

\* A command fails: its sandbox is deleted all the same.
LEMMA ExecFailsKeeps ==
  ASSUME BurstInv, ExecFails
  PROVE  BurstInv'
<1> USE BurstAssumption, Numbers DEF BurstInv, ExecFails
<1>1. Succeeded' = Succeeded
  BY SameSamples
<1>2. Placed' /\ Boxes'
  BY <1>1 DEF Placed, Boxes
<1>3. TypeOK'
  BY DEF TypeOK, Placed, Boxes
<1>4. Times' /\ Verdict'
  BY StillRunning DEF Times
<1> QED
  BY <1>2, <1>3, <1>4

\* A sandbox is deleted, or is not known to have been.
LEMMA DeleteKeeps ==
  ASSUME BurstInv, Delete
  PROVE  BurstInv'
<1> USE BurstAssumption, Numbers DEF BurstInv, Delete, samples
<1>1. Succeeded' = Succeeded
  BY SameSamples
<1>2. Placed' /\ Boxes'
  BY <1>1 DEF Placed, Boxes
<1>3. TypeOK'
  BY DEF TypeOK, Placed, Boxes
<1>4. Times' /\ Verdict'
  BY StillRunning DEF Times
<1> QED
  BY <1>2, <1>3, <1>4

\* The verdict is given when all goroutines have ended.
LEMMA SummarizeKeeps ==
  ASSUME BurstInv, Summarize
  PROVE  BurstInv'
<1> USE BurstAssumption, Numbers DEF BurstInv, Summarize, samples
<1>1. Succeeded' = Succeeded
  BY SameSamples
<1>2. Placed' /\ Boxes' /\ Times'
  BY <1>1 DEF Placed, Boxes, Times
<1>3. TypeOK'
  BY DEF TypeOK
<1>4. Verdict'
  BY <1>1 DEF Placed, Verdict
<1> QED
  BY <1>2, <1>3, <1>4

\* Nothing happens.
LEMMA StutterKeeps ==
  ASSUME BurstInv, UNCHANGED vars
  PROVE  BurstInv'
BY SameSamples DEF vars, samples, BurstInv, TypeOK, Placed, Boxes, Times, Verdict

\* Whatever fails, a burst that has ended leaves no sandbox but those it could not know
\* of or failed to delete, and it succeeds just if every sandbox was ready (runBurst and
\* burstOne).
THEOREM BurstInvariant == Spec => []BurstInv
<1>1. BurstInv /\ [Next]_vars => BurstInv'
  BY CreateKeeps, ExecKeeps, ExecFailsKeeps, DeleteKeeps, SummarizeKeeps, StutterKeeps
     DEF Next
<1> QED
  BY <1>1, InitHolds, PTL DEF Spec

-----------------------------------------------------------------------------
(* The samples in order *)

\* Among some latencies there are a least and a greatest.
LEMMA Extremes ==
  ASSUME NEW S \in SUBSET Latency, S # {}
  PROVE  /\ \E l \in S : \A k \in S : l <= k
         /\ \E l \in S : \A k \in S : k <= l
<1> DEFINE Above(l) == {k \in Latency : l < k}
           R == StrictSubsetOrdering(Latency)
<1>1. IsWellFoundedOn(R, SUBSET Latency)
  BY BurstAssumption, FS_StrictSubsetOrderingWellFounded, FS_FiniteSubsetsOfFinite
<1>2. \A l \in Latency : l \in Nat
  BY BurstAssumption
<1>3. \E l \in S : \A k \in S : l <= k
  <2> DEFINE T == {Below(l) : l \in S}
  <2>1. T \subseteq SUBSET Latency /\ T # {}
    BY DEF Below
  <2> HIDE DEF R
  <2>2. \E x \in T : \A y \in T : <<y, x>> \notin R
    <3> HIDE DEF T
    <3> QED
      BY <1>1, <2>1, WFMin, Zenon
  <2>3. PICK l \in S : \A k \in S : <<Below(k), Below(l)>> \notin R
    BY <2>2
  <2>4. ASSUME NEW k \in S, k < l
        PROVE  FALSE
    <3>1. k \in Below(l) /\ k \notin Below(k) /\ Below(k) \subseteq Below(l)
      BY <1>2, <2>4 DEF Below
    <3>2. <<Below(k), Below(l)>> \in R
      BY <3>1 DEF R, StrictSubsetOrdering, Below
    <3> QED
      BY <2>3, <3>2
  <2> QED
    BY <1>2, <2>4
<1>4. \E l \in S : \A k \in S : k <= l
  <2> DEFINE T == {Above(l) : l \in S}
  <2>1. T \subseteq SUBSET Latency /\ T # {}
    OBVIOUS
  <2> HIDE DEF R
  <2>2. \E x \in T : \A y \in T : <<y, x>> \notin R
    <3> HIDE DEF T
    <3> QED
      BY <1>1, <2>1, WFMin, Zenon
  <2>3. PICK l \in S : \A k \in S : <<Above(k), Above(l)>> \notin R
    BY <2>2
  <2>4. ASSUME NEW k \in S, l < k
        PROVE  FALSE
    <3>1. k \in Above(l) /\ k \notin Above(k) /\ Above(k) \subseteq Above(l)
      BY <1>2, <2>4
    <3>2. <<Above(k), Above(l)>> \in R
      BY <3>1 DEF R, StrictSubsetOrdering
    <3> QED
      BY <2>3, <3>2
  <2> QED
    BY <1>2, <2>4
<1> QED
  BY <1>3, <1>4

\* The i-th sample in order has a TTI that i samples do not exceed, and no smaller one.
LEMMA SortedSample ==
  ASSUME TypeOK, NEW i \in 1..Succeeded
  PROVE  /\ Sorted[i] \in Latency
         /\ HowMany(Below(Sorted[i])) < i /\ i <= HowMany(UpTo(Sorted[i]))
<1> DEFINE S == {l \in Latency : i <= HowMany(UpTo(l))}
<1>0. Succeeded \in Nat
  BY Numbers
<1>1. Latency # {}
  <2>1. SUFFICES ASSUME Latency = {}
                 PROVE  Succeeded = 0
    BY <1>0
  <2>2. SamplesOf(Latency) = {}
    BY <2>1 DEF SamplesOf
  <2> QED
    BY <2>2, FS_EmptySet DEF Succeeded, HowMany
<1>2. \A l \in Latency : l \in Nat
  BY BurstAssumption
<1>3. S # {}
  <2>1. PICK l \in Latency : \A k \in Latency : k <= l
    BY <1>1, Extremes
  <2>2. UpTo(l) = Latency
    BY <1>2, <2>1 DEF UpTo, Below
  <2> QED
    BY <1>0, <2>2 DEF Succeeded
<1>4. PICK l \in S : \A k \in S : l <= k
  BY <1>3, Extremes
<1>5. HowMany(Below(l)) < i
  <2>1. CASE Below(l) = {}
    <3>1. SamplesOf(Below(l)) = {}
      BY <2>1 DEF SamplesOf
    <3>2. HowMany(Below(l)) = 0
      BY <3>1, FS_EmptySet DEF HowMany
    <3> QED
      BY <1>0, <3>2
  <2>2. CASE Below(l) # {}
    <3>1. PICK k \in Below(l) : \A j \in Below(l) : j <= k
      BY <2>2, Extremes DEF Below
    <3>2. UpTo(k) = Below(l)
      BY <1>2, <3>1 DEF UpTo, Below
    <3>3. k \in Latency /\ k \notin S
      BY <1>2, <1>4, <3>1 DEF Below
    <3>4. HowMany(Below(l)) \in Nat
      BY Counting DEF Below
    <3> QED
      BY <1>0, <3>2, <3>3, <3>4
  <2> QED
    BY <2>1, <2>2
<1>6. \E k \in Latency : HowMany(Below(k)) < i /\ i <= HowMany(UpTo(k))
  BY <1>4, <1>5
<1>7. Sorted[i] = CHOOSE k \in Latency : HowMany(Below(k)) < i /\ i <= HowMany(UpTo(k))
  BY DEF Sorted
<1> QED
  BY <1>6, <1>7, Zenon

\* A set with the smaller latencies of each of its own.
Closed(D) == \A l \in D : Below(l) \subseteq D

\* The samples with a TTI of such a set come first.
LEMMA SortedAmong ==
  ASSUME TypeOK, NEW i \in 1..Succeeded, NEW D \in SUBSET Latency, Closed(D)
  PROVE  i <= HowMany(D) <=> Sorted[i] \in D
<1> DEFINE s == Sorted[i]
<1>0. /\ s \in Latency /\ i \in Nat
      /\ HowMany(Below(s)) < i /\ i <= HowMany(UpTo(s))
  BY SortedSample, Numbers
<1>1. \A l \in Latency : l \in Nat
  BY BurstAssumption
<1>2. Below(s) \subseteq Latency /\ UpTo(s) \subseteq Latency
  BY <1>0 DEF Below, UpTo
<1> HIDE DEF s
<1>3. /\ HowMany(D) \in Nat /\ HowMany(Below(s)) \in Nat /\ HowMany(UpTo(s)) \in Nat
  BY <1>2, Counting
<1>4. ASSUME s \in D
      PROVE  i <= HowMany(D)
  <2>1. UpTo(s) \subseteq D
    BY <1>4 DEF UpTo, Closed
  <2>2. HowMany(UpTo(s)) <= HowMany(D)
    BY <2>1, Counting
  <2> QED
    BY <1>0, <1>3, <2>2
<1>5. ASSUME s \notin D
      PROVE  ~(i <= HowMany(D))
  <2>1. D \subseteq Below(s)
    BY <1>0, <1>1, <1>5 DEF Closed, Below
  <2>2. HowMany(D) <= HowMany(Below(s))
    BY <1>2, <2>1, Counting
  <2> QED
    BY <1>0, <1>3, <2>2
<1> QED
  BY <1>4, <1>5 DEF s

\* The latencies below one, and those up to one, are closed.
LEMMA ClosedSets ==
  ASSUME NEW l \in Latency
  PROVE  /\ Below(l) \in SUBSET Latency /\ Closed(Below(l)) /\ l \notin Below(l)
         /\ UpTo(l) \in SUBSET Latency /\ Closed(UpTo(l)) /\ l \in UpTo(l)
<1>1. \A k \in Latency : k \in Nat
  BY BurstAssumption
<1> QED
  BY <1>1 DEF Closed, Below, UpTo

\* The samples are in ascending order.
LEMMA SortedAscends ==
  ASSUME TypeOK, NEW j \in 1..Succeeded, NEW i \in 1..j
  PROVE  Sorted[i] <= Sorted[j]
<1>1. Succeeded \in Nat /\ Sorted[j] \in Latency
  BY SortedSample, Numbers
<1>2. HowMany(UpTo(Sorted[j])) \in Nat /\ j <= HowMany(UpTo(Sorted[j]))
  BY <1>1, SortedAmong, ClosedSets, Counting
<1>3. Sorted[i] \in UpTo(Sorted[j])
  BY <1>1, <1>2, SortedAmong, ClosedSets
<1>4. \A k \in Latency : k \in Nat
  BY BurstAssumption
<1> QED
  BY <1>1, <1>3, <1>4 DEF UpTo, Below

-----------------------------------------------------------------------------
(* The statistics *)

\* What is left of the samples.
Rest == Trimmed(Sorted)

\* Something is left, and it is what the definition by counting keeps.
LEMMA Trimming ==
  ASSUME TypeOK, Succeeded > 0
  PROVE  /\ Trim \in Nat /\ Kept \in Nat /\ Kept > 0 /\ Kept = Succeeded - 2 * Trim
         /\ Len(Rest) = Kept
         /\ \A j \in 1..Kept : Rest[j] = Sorted[j + Trim] /\ j + Trim \in 1..Succeeded
<1> DEFINE n == Succeeded
           trim == (n * 5) \div 100
<1>1. n \in Nat
  BY Numbers
<1>2. Len(Sorted) = n
  <2>1. \A i \in 1..n : Sorted[i] \in Latency
    BY SortedSample
  <2>2. Sorted = [i \in 1..n |-> Sorted[i]]
    BY DEF Sorted
  <2>3. Sorted \in [1..n -> Latency]
    BY <2>1, <2>2
  <2> QED
    BY <1>1, <2>3
<1> HIDE DEF n
<1>3. trim \in 0..n /\ 100 * trim <= 5 * n /\ 100 * (trim + 1) > 5 * n /\ n - 2 * trim > 0
  BY <1>1, Succeeded > 0 DEF n
<1>4. Trim = trim
  <2>1. Trim \in 0..n /\ 100 * Trim <= 5 * n /\ 100 * (Trim + 1) > 5 * n
    BY <1>3 DEF Trim, n
  <2> QED
    BY <1>1, <1>3, <2>1
<1>5. Rest = SubSeq(Sorted, trim + 1, n - trim)
  BY <1>2, <1>3 DEF Rest, Trimmed
<1> HIDE DEF trim
<1>6. \A i \in (trim + 1)..(n - trim) : Sorted[i] \in Latency
  BY <1>1, <1>3, SortedSample DEF n
<1>7. /\ Len(Rest) = n - 2 * trim
      /\ \A j \in 1..(n - 2 * trim) : Rest[j] = Sorted[trim + 1 + j - 1]
  <2>1. trim + 1 \in Int /\ n - trim \in Int
    BY <1>1, <1>3
  <2>2. /\ Len(Rest) = IF trim + 1 <= n - trim THEN (n - trim) - (trim + 1) + 1 ELSE 0
        /\ \A j \in 1..((n - trim) - (trim + 1) + 1) : Rest[j] = Sorted[trim + 1 + j - 1]
    BY <1>5, <1>6, <2>1, SubSeqProperties
  <2> QED
    BY <1>1, <1>3, <2>2
<1>8. Kept = n - 2 * trim
  BY <1>4 DEF Kept, n
<1> QED
  BY <1>1, <1>3, <1>4, <1>7, <1>8 DEF n

\* The first of what is kept are those with a TTI of a closed set.
LEMMA KeptAmong ==
  ASSUME TypeOK, Succeeded > 0, NEW D \in SUBSET Latency, Closed(D)
  PROVE  /\ KeptOf(HowMany(D)) \in 0..Kept
         /\ \A j \in 1..Kept : j <= KeptOf(HowMany(D)) <=> Rest[j] \in D
<1>1. HowMany(D) \in Nat
  BY Counting
<1>2. /\ Trim \in Nat /\ Kept \in Nat
      /\ \A j \in 1..Kept : Rest[j] = Sorted[j + Trim] /\ j + Trim \in 1..Succeeded
  BY Trimming
<1>3. KeptOf(HowMany(D)) \in 0..Kept
  BY <1>1, <1>2 DEF KeptOf
<1>4. ASSUME NEW j \in 1..Kept
      PROVE  j <= KeptOf(HowMany(D)) <=> Rest[j] \in D
  <2>1. j + Trim <= HowMany(D) <=> Rest[j] \in D
    BY <1>2, SortedAmong
  <2>2. j <= KeptOf(HowMany(D)) <=> j + Trim <= HowMany(D)
    BY <1>1, <1>2 DEF KeptOf
  <2> QED
    BY <2>1, <2>2
<1> QED
  BY <1>3, <1>4

\* What is kept ascends, and is a TTI of some sample.
LEMMA KeptSamples ==
  ASSUME TypeOK, Times, Succeeded > 0
  PROVE  /\ \A j \in 1..Kept : Rest[j] \in Latency /\ Rest[j] <= wallClock
         /\ \A j \in 1..Kept : \A i \in 1..j : Rest[i] <= Rest[j]
<1>1. /\ Trim \in Nat /\ Kept \in Nat
      /\ \A j \in 1..Kept : Rest[j] = Sorted[j + Trim] /\ j + Trim \in 1..Succeeded
  BY Trimming
<1>2. ASSUME NEW j \in 1..Kept
      PROVE  Rest[j] \in Latency /\ Rest[j] <= wallClock
  <2> DEFINE s == Rest[j]
  <2>1. /\ s \in Latency /\ HowMany(Below(s)) < j + Trim /\ j + Trim <= HowMany(UpTo(s))
    BY <1>1, SortedSample
  <2> HIDE DEF s
  <2>2. HowMany(Below(s)) \in Nat /\ HowMany(UpTo(s)) \in Nat
    BY <2>1, ClosedSets, Counting
  <2>3. ttis[s] > 0
    <3>1. SUFFICES ASSUME ttis[s] = 0
                   PROVE  FALSE
      BY <2>1, Numbers
    <3>2. {s} \X (1..ttis[s]) = {}
      BY <3>1
    <3>3. SamplesOf(UpTo(s)) = SamplesOf(Below(s))
      BY <3>2 DEF SamplesOf, UpTo
    <3> QED
      BY <1>1, <2>1, <2>2, <3>3 DEF HowMany
  <2>4. s <= wallClock
    BY <2>1, <2>3 DEF Times
  <2> QED
    BY <2>1, <2>4 DEF s
<1>3. ASSUME NEW j \in 1..Kept, NEW i \in 1..j
      PROVE  Rest[i] <= Rest[j]
  <2>1. i \in 1..Kept /\ i + Trim \in 1..(j + Trim) /\ j + Trim \in 1..Succeeded
    BY <1>1
  <2>2. Sorted[i + Trim] <= Sorted[j + Trim]
    BY <2>1, SortedAscends
  <2> QED
    BY <1>1, <2>1, <2>2
<1> QED
  BY <1>2, <1>3

\* The nearest rank of a percentile, and the two formulas for it.
LEMMA Ranks ==
  ASSUME NEW n \in Nat, n > 0, NEW p \in {95, 99}
  PROVE  /\ Ceil(p * n, 100) \in 1..n /\ (n \div 2) + 1 <= Ceil(p * n, 100)
         /\ 100 * Ceil(p * n, 100) >= p * n /\ 100 * (Ceil(p * n, 100) - 1) < p * n
         /\ Ceil(p * n, 100) = (n * p + 99) \div 100
<1>1. CASE p = 95
  BY <1>1 DEF Ceil
<1>2. CASE p = 99
  BY <1>2 DEF Ceil
<1> QED
  BY <1>1, <1>2

\* A higher percentile has no lower rank.
LEMMA RanksInOrder ==
  ASSUME NEW n \in Nat
  PROVE  Ceil(95 * n, 100) <= Ceil(99 * n, 100)
BY DEF Ceil

\* A percentile is the sample of that rank; as many samples as its percentage asks for
\* do not exceed it, and not as many are smaller.
LEMMA PercentileHolds ==
  ASSUME TypeOK, Times, Succeeded > 0, NEW p \in {95, 99}
  PROVE  /\ Percentile(Rest, p) = Rest[Ceil(p * Kept, 100)]
         /\ IsPercentile(Percentile(Rest, p), p)
         /\ Percentile(Rest, p) = NearestRank(Rest, p)
<1> DEFINE r == Ceil(p * Kept, 100)
           v == Rest[r]
<1>1. Kept \in Nat /\ Kept > 0 /\ Len(Rest) = Kept
  BY Trimming
<1>2. /\ r \in 1..Kept /\ 100 * r >= p * Kept /\ 100 * (r - 1) < p * Kept
      /\ r = (Kept * p + 99) \div 100
  <2>1. CASE p = 95
    BY <1>1, <2>1, Ranks
  <2>2. CASE p = 99
    BY <1>1, <2>2, Ranks
  <2> QED
    BY <2>1, <2>2
<1> HIDE DEF r
<1>3. Percentile(Rest, p) = v
  BY <1>1, <1>2 DEF Percentile, r
<1>4. NearestRank(Rest, p) = v
  BY <1>1, <1>2 DEF NearestRank
<1>5. v \in Latency
  BY <1>2, KeptSamples
<1> HIDE DEF v
<1>6. /\ KeptOf(HowMany(UpTo(v))) \in 0..Kept /\ r <= KeptOf(HowMany(UpTo(v)))
      /\ KeptOf(HowMany(Below(v))) \in 0..Kept /\ ~(r <= KeptOf(HowMany(Below(v))))
  BY <1>2, <1>5, ClosedSets, KeptAmong DEF v
<1>7. IsPercentile(v, p)
  <2> DEFINE up == KeptOf(HowMany(UpTo(v)))
             low == KeptOf(HowMany(Below(v)))
  <2>1. up \in Nat /\ low \in Nat /\ r \in Nat /\ r <= up /\ low <= r - 1
    BY <1>1, <1>2, <1>6
  <2> DEFINE asked == p * Kept
  <2>2. asked \in Nat /\ 100 * r >= asked /\ 100 * (r - 1) < asked
    BY <1>1, <1>2
  <2> HIDE DEF up, low, asked
  <2>3. 100 * up >= asked /\ 100 * low < asked
    BY <2>1, <2>2
  <2> QED
    BY <2>3 DEF IsPercentile, up, low, asked
<1> QED
  BY <1>3, <1>4, <1>7 DEF r, v

\* Half of what is kept is on either side of the median, which the percentiles reach.
LEMMA MedianHolds ==
  ASSUME TypeOK, Times, Succeeded > 0
  PROVE  /\ 2 * KeptOf(HowMany({l \in Latency : 2 * l < Median2(Rest)})) <= Kept
         /\ 2 * KeptOf(HowMany({l \in Latency : 2 * l <= Median2(Rest)})) >= Kept
         /\ \A j \in 1..Kept : (Kept \div 2) + 1 <= j => Median2(Rest) <= 2 * Rest[j]
<1> DEFINE mid  == Kept \div 2
           m2   == Median2(Rest)
           less == {l \in Latency : 2 * l < m2}
           most == {l \in Latency : 2 * l <= m2}
<1>1. Kept \in Nat /\ Kept > 0 /\ Len(Rest) = Kept
  BY Trimming
<1>2. /\ mid \in Nat /\ mid + 1 \in 1..Kept
      /\ Kept % 2 = 0 => mid \in 1..Kept /\ Kept = 2 * mid
      /\ Kept % 2 # 0 => Kept = 2 * mid + 1
  BY <1>1
<1>3. m2 = IF Kept % 2 = 0 THEN Rest[mid] + Rest[mid + 1] ELSE 2 * Rest[mid + 1]
  BY <1>1 DEF Median2
<1> HIDE DEF mid, m2
<1>4. \A l \in Latency : l \in Nat
  BY BurstAssumption
<1>5. /\ \A j \in 1..Kept : Rest[j] \in Latency
      /\ \A j \in 1..Kept : \A i \in 1..j : Rest[i] <= Rest[j]
  BY KeptSamples
<1>6. /\ m2 \in Nat /\ m2 <= 2 * Rest[mid + 1]
      /\ 2 * Rest[IF Kept % 2 = 0 THEN mid ELSE mid + 1] <= m2
  BY <1>2, <1>3, <1>4, <1>5
<1>7. Closed(less) /\ Closed(most)
  BY <1>4, <1>6 DEF Closed, Below
<1>8. KeptOf(HowMany(less)) \in 0..Kept /\ ~(mid + 1 <= KeptOf(HowMany(less)))
  <2>1. Rest[mid + 1] \notin less
    BY <1>2, <1>4, <1>5, <1>6
  <2> HIDE DEF less
  <2> QED
    BY <1>2, <1>7, <2>1, KeptAmong DEF less
<1>9. /\ KeptOf(HowMany(most)) \in 0..Kept
      /\ (IF Kept % 2 = 0 THEN mid ELSE mid + 1) <= KeptOf(HowMany(most))
  <2>1. Rest[IF Kept % 2 = 0 THEN mid ELSE mid + 1] \in most
    BY <1>2, <1>4, <1>5, <1>6
  <2>2. (IF Kept % 2 = 0 THEN mid ELSE mid + 1) \in 1..Kept
    BY <1>2
  <2> QED
    BY <1>7, <2>1, <2>2, KeptAmong
<1> HIDE DEF less, most
<1>10. 2 * KeptOf(HowMany(less)) <= Kept /\ 2 * KeptOf(HowMany(most)) >= Kept
  BY <1>1, <1>2, <1>8, <1>9
<1>11. ASSUME NEW j \in 1..Kept, mid + 1 <= j
       PROVE  m2 <= 2 * Rest[j]
  <2>1. Rest[mid + 1] <= Rest[j] /\ Rest[mid + 1] \in Nat /\ Rest[j] \in Nat
    BY <1>2, <1>4, <1>5, <1>11
  <2> QED
    BY <1>6, <2>1
<1> QED
  BY <1>10, <1>11 DEF less, most, m2, mid

\* For bursts of any size and samples of any latencies, the report has the benchmark's
\* statistics: the trimmed median and percentiles are what a definition by counting
\* says, the formulas of the burst and of the load test's report agree, and no
\* statistic exceeds the time the burst took (summarizeBurst, trimmedStats, percentile).
THEOREM StatsRightHolds == Spec => []StatsRight
<1>1. BurstInv => StatsRight
  <2> SUFFICES ASSUME BurstInv, outcome # "none", Succeeded > 0
               PROVE  /\ Len(Rest) = Kept
                      /\ 2 * KeptOf(HowMany({l \in Latency : 2 * l < Median2(Rest)})) <= Kept
                      /\ 2 * KeptOf(HowMany({l \in Latency : 2 * l <= Median2(Rest)})) >= Kept
                      /\ \A p \in {95, 99} : /\ IsPercentile(Percentile(Rest, p), p)
                                             /\ Percentile(Rest, p) = NearestRank(Rest, p)
                      /\ Median2(Rest) <= 2 * Percentile(Rest, 95)
                      /\ Percentile(Rest, 95) <= Percentile(Rest, 99)
                      /\ Percentile(Rest, 99) <= wallClock
                      /\ 0 < firstReady /\ firstReady <= wallClock
    BY DEF StatsRight, Rest
  <2>1. TypeOK /\ Times
    BY DEF BurstInv
  <2>2. Kept \in Nat /\ Kept > 0 /\ Len(Rest) = Kept
    BY <2>1, Trimming
  <2>3. \A p \in {95, 99} : /\ Percentile(Rest, p) = Rest[Ceil(p * Kept, 100)]
                            /\ IsPercentile(Percentile(Rest, p), p)
                            /\ Percentile(Rest, p) = NearestRank(Rest, p)
    BY <2>1, PercentileHolds
  <2> DEFINE r95 == Ceil(95 * Kept, 100)
             r99 == Ceil(99 * Kept, 100)
  <2>4. r95 \in 1..Kept /\ r99 \in 1..Kept /\ (Kept \div 2) + 1 <= r95 /\ r95 <= r99
    BY <2>2, Ranks, RanksInOrder
  <2>5. Percentile(Rest, 95) = Rest[r95] /\ Percentile(Rest, 99) = Rest[r99]
    BY <2>3
  <2> HIDE DEF r95, r99
  <2>6. Rest[r95] <= Rest[r99] /\ Rest[r99] <= wallClock
    BY <2>1, <2>4, KeptSamples
  <2>7. Median2(Rest) <= 2 * Rest[r95]
    BY <2>1, <2>4, MedianHolds
  <2>8. 0 < firstReady /\ firstReady <= wallClock
    <3>1. Rest[r99] \in Latency
      BY <2>1, <2>4, KeptSamples
    <3>2. Rest[r99] \in Nat /\ Rest[r99] > 0
      BY <2>1, <3>1, Numbers
    <3>3. wallClock \in Nat /\ firstReady \in Nat
      BY <2>1 DEF TypeOK
    <3> QED
      BY <2>1, <2>6, <3>2, <3>3 DEF Times
  <2> QED
    BY <2>1, <2>2, <2>3, <2>5, <2>6, <2>7, <2>8, MedianHolds
<1> QED
  BY <1>1, BurstInvariant, PTL
=============================================================================
