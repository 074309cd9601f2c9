------------------------- MODULE EmissionStatsProofs -------------------------
(***************************************************************************)
(* Lemmas on EmissionStats for the modules that prove something of a       *)
(* handler built on it.                                                    *)
(***************************************************************************)
EXTENDS EmissionStats, FiniteSetTheorems, SequenceTheorems, WellFoundedInduction,
        TLAPS

-----------------------------------------------------------------------------
(***************************************************************************)
(* The purge.                                                              *)
(***************************************************************************)
\* Every set of naturals that has a member has a least one.
LEMMA LeastNatural ==
    ASSUME NEW S \in SUBSET Nat, S # {}
    PROVE  \E n \in S : \A i \in S : n <= i
<1> DEFINE Less == {ss \in Nat \X Nat : ss[1] < ss[2]}
<1>1. Less = OpToRel(<, Nat)
  BY Zenon DEF OpToRel
<1>2. IsWellFoundedOn(Less, Nat)
  BY <1>1, NatLessThanWellFounded, Zenon
<1>3. PICK n \in S : \A i \in S : ~ (<<i, n>> \in Less)
  <2> HIDE DEF Less
  <2> QED BY <1>2, WFMin
<1>4. ASSUME NEW i \in S PROVE n <= i
  <2>1. ~ (i < n)
    BY <1>3
  <2> QED BY <2>1
<1> QED
  BY <1>4

\* The purge keeps the timings from FirstKept on; those it drops are all older
\* than minTime.
LEMMA FirstKeptProperties ==
    ASSUME NEW times \in Seq(Emissions), NEW minTime \in Int,
           stamp \in [Emissions -> Nat]
    PROVE  /\ FirstKept(times, minTime) \in 1 .. Len(times) + 1
           /\ \A i \in 1 .. FirstKept(times, minTime) - 1 :
                 stamp[times[i]] < minTime
<1> DEFINE Kept(k) == k <= Len(times) => stamp[times[k]] >= minTime
           S == {k \in 1 .. Len(times) + 1 : Kept(k)}
<1>1. Len(times) + 1 \in S /\ S \in SUBSET Nat
  OBVIOUS
<1>2. PICK k \in S : \A i \in S : k <= i
  <2> HIDE DEF S
  <2> QED BY <1>1, LeastNatural
<1>3. \A i \in 1 .. k - 1 : stamp[times[i]] < minTime
  <2>1. SUFFICES ASSUME NEW i \in 1 .. k - 1
                 PROVE  stamp[times[i]] < minTime
    OBVIOUS
  <2>2. i \in 1 .. Len(times) /\ i \notin S
    BY <1>2
  <2>3. stamp[times[i]] \in Nat
    BY <2>2
  <2> QED
    BY <2>2, <2>3
<1> DEFINE First(j) == /\ \A i \in 1 .. j - 1 : stamp[times[i]] < minTime
                       /\ Kept(j)
<1>4. k \in 1 .. Len(times) + 1 /\ First(k)
  BY <1>2, <1>3
<1>5. FirstKept(times, minTime) = CHOOSE j \in 1 .. Len(times) + 1 : First(j)
  BY DEF FirstKept
<1> HIDE DEF First
<1>6. /\ FirstKept(times, minTime) \in 1 .. Len(times) + 1
      /\ First(FirstKept(times, minTime))
  BY <1>4, <1>5
<1> QED
  BY <1>6 DEF First

\* A purged list is a suffix of the list: position i of it is position
\* i + FirstKept - 1 of the list.
LEMMA PurgeProperties ==
    ASSUME NEW times \in Seq(Emissions), NEW minTime \in Int,
           stamp \in [Emissions -> Nat]
    PROVE  LET k == FirstKept(times, minTime)
               kept == Purge(times, minTime)
           IN  /\ kept \in Seq(Emissions)
               /\ Len(kept) = Len(times) - k + 1
               /\ \A i \in 1 .. Len(kept) : kept[i] = times[i + k - 1]
<1> DEFINE k == FirstKept(times, minTime)
<1>1. k \in 1 .. Len(times) + 1
  BY FirstKeptProperties
<1>2. \A i \in k .. Len(times) : times[i] \in Emissions
  BY <1>1
<1> HIDE DEF k
<1>3. /\ SubSeq(times, k, Len(times)) \in Seq(Emissions)
      /\ Len(SubSeq(times, k, Len(times))) = Len(times) - k + 1
      /\ \A i \in 1 .. Len(times) - k + 1 :
            SubSeq(times, k, Len(times))[i] = times[k + i - 1]
  BY <1>1, <1>2, SubSeqProperties
<1>4. Purge(times, minTime) = SubSeq(times, k, Len(times))
  BY DEF Purge, k
<1>5. \A i \in 1 .. Len(times) - k + 1 : times[k + i - 1] = times[i + k - 1]
  BY <1>1
<1>6. /\ Purge(times, minTime) \in Seq(Emissions)
      /\ Len(Purge(times, minTime)) = Len(times) - k + 1
      /\ \A i \in 1 .. Len(Purge(times, minTime)) :
            Purge(times, minTime)[i] = times[i + k - 1]
  BY <1>3, <1>4, <1>5
<1> QED
  BY <1>6 DEF k
-----------------------------------------------------------------------------
(***************************************************************************)
(* Types.                                                                  *)
(***************************************************************************)
LEMMA StatsTypeInit == StatsInit => StatsTypeOK
  BY DEF StatsInit, StatsTypeOK, Phases, RecorderSteps, SnapshotSteps

LEMMA StartEmissionType ==
    ASSUME StatsTypeOK, NEW g \in Emissions, NEW group \in SUBSET Metrics,
           StartEmission(g, group)
    PROVE  StatsTypeOK'
  BY DEF StartEmission, StatsTypeOK, Phases, counterVars

LEMMA StatsTypeStep == StatsTypeOK /\ StatsNext => StatsTypeOK'
<1> SUFFICES ASSUME StatsTypeOK, StatsNext PROVE StatsTypeOK'
  OBVIOUS
<1> USE DEF goroutineVars, counterVars, Phases, RecorderSteps, SnapshotSteps
<1>1. ASSUME NEW g \in Emissions, EmissionStep(g) PROVE StatsTypeOK'
  <2>1. ASSUME NEW ok \in BOOLEAN, EmitReturns(g, ok) PROVE StatsTypeOK'
    BY <2>1 DEF EmitReturns, StatsTypeOK
  <2>2. CASE HandTiming(g)
    BY <2>2 DEF HandTiming, StatsTypeOK
  <2>3. CASE CountMetrics(g)
    <3>1. Cardinality(batch[g]) \in Nat
      BY StatsAssumption, FS_Subset, FS_CardinalityType DEF StatsTypeOK
    <3>2. metricsSent' \in Nat /\ metricsDropped' \in Nat
      BY <2>3, <3>1 DEF CountMetrics, StatsTypeOK
    <3>3. phase' \in [Emissions -> Phases]
      BY <2>3 DEF CountMetrics, StatsTypeOK
    <3> QED
      BY <2>3, <3>2, <3>3 DEF CountMetrics, StatsTypeOK
  <2> QED
    BY <1>1, <2>1, <2>2, <2>3 DEF EmissionStep
<1>2. CASE CountEmission
  <2>1. clock - Interval \in Int /\ totalEmissions + 1 \in Nat
    BY StatsAssumption DEF StatsTypeOK
  <2>2. /\ recorder' \in [step : RecorderSteps,
                          timing : Emissions \cup {Nobody}, minTime : Int]
        /\ recorder'.step = "locking" /\ recorder'.timing = recorder.timing
    BY <1>2, <2>1 DEF CountEmission, StatsTypeOK
  <2> QED
    BY <1>2, <2>1, <2>2 DEF CountEmission, StatsTypeOK
<1>3. CASE RecordTiming
  <2> DEFINE longer == Append(emissionTimes, recorder.timing)
  <2>1. longer \in Seq(Emissions) /\ recorder.minTime \in Int
    BY <1>3 DEF RecordTiming, StatsTypeOK
  <2>2. stamp \in [Emissions -> Nat]
    BY DEF StatsTypeOK
  <2>3. emissionTimes' \in Seq(Emissions)
    <3> HIDE DEF longer
    <3>1. Purge(longer, recorder.minTime) \in Seq(Emissions)
      BY <2>1, <2>2, PurgeProperties
    <3> QED
      BY <1>3, <3>1 DEF RecordTiming, longer
  <2>4. /\ recorder' \in [step : RecorderSteps,
                          timing : Emissions \cup {Nobody}, minTime : Int]
        /\ recorder'.step = "receiving"
    BY <1>3 DEF RecordTiming, StatsTypeOK
  <2> QED
    BY <1>3, <2>3, <2>4 DEF RecordTiming, StatsTypeOK
<1>4. CASE SnapshotStep
  <2>1. Len(emissionTimes) \in Nat
    BY DEF StatsTypeOK
  <2>2. snapshot' \in [step : SnapshotSteps, calls : Nat, total : Nat,
                       dropped : Nat, sent : Nat, inWindow : Nat]
    <3>1. CASE ReadTotal
      <4>1. snapshot.calls + 1 \in Nat /\ totalEmissions \in Nat
        BY DEF StatsTypeOK
      <4> QED
        BY <3>1, <4>1 DEF ReadTotal, StatsTypeOK
    <3>2. CASE ReadDropped
      BY <3>2 DEF ReadDropped, StatsTypeOK
    <3>3. CASE ReadSent
      BY <3>3 DEF ReadSent, StatsTypeOK
    <3>4. CASE ReadWindow
      BY <2>1, <3>4 DEF ReadWindow, StatsTypeOK
    <3> QED
      BY <1>4, <3>1, <3>2, <3>3, <3>4 DEF SnapshotStep
  <2>3. UNCHANGED <<clock, goroutineVars, recorder, emissionTimes, counterVars>>
    BY <1>4 DEF SnapshotStep, ReadTotal, ReadDropped, ReadSent, ReadWindow
  <2> QED
    BY <2>2, <2>3 DEF StatsTypeOK
<1>5. CASE Advance
  BY <1>5 DEF Advance, StatsTypeOK
<1> QED
  BY <1>1, <1>2, <1>3, <1>4, <1>5 DEF StatsNext, RecorderStep

\* No other step starts an emission or changes a batch.
LEMMA StatsKeepsBatches ==
    ASSUME StatsTypeOK, StatsNext
    PROVE  /\ UNCHANGED batch
           /\ \A g \in Emissions : phase[g] = "unused" <=> phase'[g] = "unused"
<1>1. ASSUME NEW g \in Emissions, EmissionStep(g)
      PROVE  /\ UNCHANGED batch
             /\ \A h \in Emissions : phase[h] = "unused" <=> phase'[h] = "unused"
  BY <1>1 DEF EmissionStep, EmitReturns, HandTiming, CountMetrics, StatsTypeOK
<1>2. CASE RecorderStep \/ SnapshotStep \/ Advance
  BY <1>2 DEF RecorderStep, CountEmission, RecordTiming, SnapshotStep, ReadTotal,
              ReadDropped, ReadSent, ReadWindow, Advance, goroutineVars
<1> QED
  BY <1>1, <1>2 DEF StatsNext
=============================================================================
