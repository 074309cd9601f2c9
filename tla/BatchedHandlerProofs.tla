------------------------ MODULE BatchedHandlerProofs ------------------------
(***************************************************************************)
(* Dividing a buffer loses, repeats and mixes nothing, and the handler     *)
(* keeps HandlerPromise, for any metrics, dimension, tokens and buffers.   *)
(***************************************************************************)
EXTENDS BatchedHandler, EmissionStatsProofs

\* The parts left of a buffer are of that buffer, apart, and each of one value.
OneValue(part) == \A m, n \in part : DimensionOf[m] = DimensionOf[n]

PartsOfBuffers ==
    /\ \A f \in Flushes : UNION toStart[f] \subseteq flushed[f]
    /\ \A e, f \in Flushes : e # f => flushed[e] \cap flushed[f] = {}
    /\ \A f \in Flushes : \A p, q \in toStart[f] : p # q => p \cap q = {}
    /\ \A f \in Flushes : \A p \in toStart[f] : OneValue(p)

\* An emission has metrics, of one value, when it was started, and none before.
Started ==
    \A g \in Emissions : /\ phase[g] = "unused" <=> batch[g] = {}
                         /\ OneValue(batch[g])

\* What was reported as sent had a token.
SentHadToken ==
    \A g \in Emissions :
        phase[g] \in {"timed", "handed", "counted"} /\ result[g] => HasToken(batch[g])

Inv ==
    /\ BatchTypeOK /\ PartsOfBuffers /\ Started /\ SentHadToken /\ EachMetricInOnePart

-----------------------------------------------------------------------------
\* makeBatches divides: the parts cover the buffer, are not empty, are apart and
\* have one value each.
LEMMA BatchesDivide ==
    ASSUME NEW S \in SUBSET Metrics
    PROVE  /\ Batches(S) \in SUBSET ((SUBSET Metrics) \ {{}})
           /\ UNION Batches(S) = S
           /\ \A p, q \in Batches(S) : p # q => p \cap q = {}
           /\ \A p \in Batches(S) : OneValue(p)
  BY DEF Batches, OneValue

\* What a step of the emissions or of the recorder changes.
LEMMA ReportStep ==
    ASSUME Inv, UNCHANGED <<flushed, toStart>>,
           \/ \E g \in Emissions : BatchReturns(g) \/ HandTiming(g) \/ CountMetrics(g)
           \/ RecorderStep
    PROVE  StatsNext
<1>1. ASSUME NEW g \in Emissions, BatchReturns(g) PROVE EmissionStep(g)
  BY <1>1 DEF BatchReturns, EmissionStep
<1> QED
  BY <1>1 DEF StatsNext, EmissionStep

LEMMA InvInit == BatchInit => Inv
<1> SUFFICES ASSUME BatchInit PROVE Inv
  OBVIOUS
<1>1. BatchTypeOK
  BY StatsTypeInit DEF BatchInit, BatchTypeOK
<1>2. EachMetricInOnePart
  BY DEF BatchInit, StatsInit, EachMetricInOnePart, Handed, InParts, InEmissions
<1> QED
  BY <1>1, <1>2
     DEF Inv, BatchInit, StatsInit, PartsOfBuffers, Started, SentHadToken, OneValue

\* A buffer is given to the emit function.
LEMMA EmitStep ==
    ASSUME Inv, NEW f \in Flushes, NEW group \in SUBSET Metrics, EmitMetrics(f, group)
    PROVE  /\ Inv'
           /\ InParts' = InParts \cup group
           /\ group \cap (InParts \cup InEmissions) = {}
           /\ UNCHANGED statsVars
<1>1. /\ flushed[f] = {} /\ toStart[f] = {}
      /\ group \cap Handed = {} /\ group # {}
      /\ UNCHANGED statsVars
  BY DEF EmitMetrics, Inv, PartsOfBuffers, BatchTypeOK
<1>2. /\ \A e \in Flushes : flushed'[e] = IF e = f THEN group ELSE flushed[e]
      /\ \A e \in Flushes : toStart'[e] = IF e = f THEN Batches(group) ELSE toStart[e]
  BY DEF EmitMetrics, Inv, BatchTypeOK
<1>3. /\ Batches(group) \in SUBSET ((SUBSET Metrics) \ {{}})
      /\ UNION Batches(group) = group
      /\ \A p, q \in Batches(group) : p # q => p \cap q = {}
      /\ \A p \in Batches(group) : OneValue(p)
  BY BatchesDivide
<1> HIDE DEF Batches
<1>4. BatchTypeOK'
  BY <1>1, <1>3 DEF EmitMetrics, Inv, BatchTypeOK, StatsTypeOK, statsVars, goroutineVars,
                    counterVars
<1>5. \A e \in Flushes : flushed[e] \cap group = {}
  BY <1>1 DEF Handed
<1>6. PartsOfBuffers'
  BY <1>2, <1>3, <1>5 DEF Inv, PartsOfBuffers, OneValue
<1>7. Started' /\ SentHadToken'
  BY <1>1 DEF Inv, Started, SentHadToken, OneValue, HasToken, statsVars, goroutineVars
<1>8. Handed' = Handed \cup group
  BY <1>1, <1>2 DEF Handed
<1>9. InParts' = InParts \cup group
  BY <1>1, <1>2, <1>3 DEF InParts
<1>10. InEmissions' = InEmissions /\ batch' = batch
  BY <1>1 DEF InEmissions, statsVars, goroutineVars
<1>11. group \cap (InParts \cup InEmissions) = {}
  BY <1>1 DEF Inv, EachMetricInOnePart
<1>12. EachMetricInOnePart'
  BY <1>8, <1>9, <1>10, <1>11 DEF Inv, EachMetricInOnePart
<1> QED
  BY <1>1, <1>4, <1>6, <1>7, <1>9, <1>11, <1>12 DEF Inv

\* A part is started: it goes from the parts that wait to the emissions.
LEMMA StartStep ==
    ASSUME Inv, NEW f \in Flushes, NEW part \in toStart[f], StartBatch(f, part)
    PROVE  /\ Inv'
           /\ \E g \in Emissions :
                 /\ phase[g] = "unused" /\ part \subseteq InParts
                 /\ \A h \in Emissions :
                       /\ phase'[h] = IF h = g THEN "emitting" ELSE phase[h]
                       /\ batch'[h] = IF h = g THEN part ELSE batch[h]
           /\ InParts' = InParts \ part
           /\ UNCHANGED <<result, metricsSent, metricsDropped>>
<1>0. /\ BatchTypeOK /\ StatsTypeOK /\ part \in (SUBSET Metrics) \ {{}}
      /\ OneValue(part) /\ part \subseteq InParts
  BY DEF Inv, BatchTypeOK, PartsOfBuffers, InParts
<1>1. PICK g \in Emissions : StartEmission(g, part)
  BY DEF StartBatch
<1>2. /\ phase[g] = "unused" /\ batch[g] = {}
      /\ \A h \in Emissions : phase'[h] = IF h = g THEN "emitting" ELSE phase[h]
      /\ \A h \in Emissions : batch'[h] = IF h = g THEN part ELSE batch[h]
      /\ UNCHANGED <<result, metricsSent, metricsDropped>>
  BY <1>0, <1>1 DEF StartEmission, NextUnused, StatsTypeOK, Inv, Started, counterVars
<1>3. /\ flushed' = flushed
      /\ \A e \in Flushes : toStart'[e] = IF e = f THEN toStart[f] \ {part} ELSE toStart[e]
  BY <1>0 DEF StartBatch, BatchTypeOK
<1>4. BatchTypeOK'
  <2>1. StatsTypeOK'
    BY <1>0, <1>1, StartEmissionType
  <2> QED
    BY <1>0, <2>1 DEF StartBatch, BatchTypeOK
<1>5. PartsOfBuffers'
  BY <1>3 DEF Inv, PartsOfBuffers, OneValue
<1>6. Started' /\ SentHadToken'
  BY <1>0, <1>2 DEF Inv, Started, SentHadToken, OneValue, HasToken
<1>7. InParts' = InParts \ part
  <2>1. \A e \in Flushes \ {f} : (UNION toStart[e]) \cap part = {}
    BY DEF Inv, PartsOfBuffers
  <2>2. \A p \in toStart[f] \ {part} : p \cap part = {}
    BY DEF Inv, PartsOfBuffers
  <2> QED
    BY <1>3, <2>1, <2>2 DEF InParts
<1>8. InEmissions' = InEmissions \cup part
  BY <1>2 DEF InEmissions
<1>9. Handed' = Handed
  BY <1>3 DEF Handed
<1>10. part \cap InEmissions = {}
  BY <1>0 DEF Inv, EachMetricInOnePart
<1>11. \A h \in Emissions \ {g} : batch[h] \cap part = {}
  BY <1>10 DEF InEmissions
<1>12. EachMetricInOnePart'
  BY <1>0, <1>2, <1>7, <1>8, <1>9, <1>10, <1>11 DEF Inv, EachMetricInOnePart
<1> QED
  BY <1>0, <1>2, <1>4, <1>5, <1>6, <1>7, <1>12 DEF Inv

\* A part that is reported stays where it is, and is only sent with a token.
LEMMA ReportKeepsInv ==
    ASSUME Inv, UNCHANGED <<flushed, toStart>>,
           \/ \E g \in Emissions : BatchReturns(g) \/ HandTiming(g) \/ CountMetrics(g)
           \/ RecorderStep
    PROVE  Inv' /\ UNCHANGED batch
<1>0. StatsTypeOK
  BY DEF Inv, BatchTypeOK
<1>1. StatsNext
  BY ReportStep
<1>2. StatsTypeOK'
  BY <1>0, <1>1, StatsTypeStep
<1>3. UNCHANGED batch /\ \A g \in Emissions : phase[g] = "unused" <=> phase'[g] = "unused"
  BY <1>0, <1>1, StatsKeepsBatches
<1>4. SentHadToken'
  <2>1. ASSUME NEW g \in Emissions, BatchReturns(g) PROVE SentHadToken'
    <3>1. PICK ok \in BOOLEAN : (ok => HasToken(batch[g])) /\ EmitReturns(g, ok)
      BY <2>1 DEF BatchReturns
    <3>2. \A h \in Emissions : /\ phase'[h] = IF h = g THEN "timed" ELSE phase[h]
                               /\ result'[h] = IF h = g THEN ok ELSE result[h]
      BY <1>0, <3>1 DEF EmitReturns, StatsTypeOK
    <3> QED
      BY <1>3, <3>1, <3>2 DEF Inv, SentHadToken, HasToken
  <2>2. ASSUME NEW g \in Emissions, HandTiming(g) \/ CountMetrics(g) PROVE SentHadToken'
    <3>1. /\ phase[g] \in {"timed", "handed"} /\ result' = result
          /\ \A h \in Emissions : h # g => phase'[h] = phase[h]
      BY <1>0, <2>2 DEF HandTiming, CountMetrics, StatsTypeOK
    <3> QED
      BY <1>3, <3>1 DEF Inv, SentHadToken, HasToken
  <2>3. CASE RecorderStep
    BY <1>3, <2>3 DEF RecorderStep, CountEmission, RecordTiming, goroutineVars, Inv,
                      SentHadToken, HasToken
  <2> QED
    BY <2>1, <2>2, <2>3
<1>5. BatchTypeOK' /\ PartsOfBuffers' /\ Started'
  BY <1>2, <1>3 DEF Inv, BatchTypeOK, PartsOfBuffers, Started, OneValue
<1>6. EachMetricInOnePart'
  BY <1>3 DEF Inv, EachMetricInOnePart, Handed, InParts, InEmissions
<1> QED
  BY <1>3, <1>4, <1>5, <1>6 DEF Inv

LEMMA InvStep == Inv /\ [BatchNext]_batchVars => Inv'
<1> SUFFICES ASSUME Inv, [BatchNext]_batchVars PROVE Inv'
  OBVIOUS
<1>1. CASE UNCHANGED batchVars
  <2>1. BatchTypeOK'
    BY <1>1 DEF batchVars, statsVars, goroutineVars, counterVars, Inv, BatchTypeOK,
                StatsTypeOK
  <2>2. PartsOfBuffers' /\ Started' /\ SentHadToken'
    BY <1>1 DEF batchVars, statsVars, goroutineVars, Inv, PartsOfBuffers, Started,
                SentHadToken, OneValue, HasToken
  <2>3. EachMetricInOnePart'
    BY <1>1 DEF batchVars, statsVars, goroutineVars, Inv, EachMetricInOnePart, Handed,
                InParts, InEmissions
  <2> QED
    BY <2>1, <2>2, <2>3 DEF Inv
<1> QED
  BY <1>1, EmitStep, StartStep, ReportKeepsInv DEF BatchNext

LEMMA InvAlways == BatchSpec => []Inv
  BY InvInit, InvStep, PTL DEF BatchSpec

-----------------------------------------------------------------------------
\* Every variable of a batching handler keeps its type; no part is empty.
THEOREM BatchTypes == BatchSpec => []BatchTypeOK
<1>1. Inv => BatchTypeOK
  BY DEF Inv
<1> QED
  BY <1>1, InvAlways, PTL

\* Dividing buffers by a dimension and emitting the parts side by side neither
\* loses nor repeats a metric.
THEOREM OnePart == BatchSpec => []EachMetricInOnePart
<1>1. Inv => EachMetricInOnePart
  BY DEF Inv
<1> QED
  BY <1>1, InvAlways, PTL

\* No emission mixes values, and what is reported as sent had a token of its own.
THEOREM OwnToken == BatchSpec => []SentWithOwnToken
<1>1. Inv => SentWithOwnToken
  BY DEF Inv, Started, SentHadToken, OneValue, HasToken, SentWithOwnToken, BatchOutcome,
         ResultOf
<1> QED
  BY <1>1, InvAlways, PTL

-----------------------------------------------------------------------------
(***************************************************************************)
(* The refinement.                                                         *)
(***************************************************************************)
Waiting == UNION {batch[g] : g \in {h \in Emissions : phase[h] # "counted"}}

LEMMA SameCardinality == \A S : BatchPromise!Cardinality(S) = Cardinality(S)
  BY Zenon DEF BatchPromise!Cardinality, Cardinality

LEMMA OutcomesInEmissions ==
    ASSUME Inv
    PROVE  /\ InEmissions = Waiting \cup BatchOutcome(TRUE) \cup BatchOutcome(FALSE)
           /\ \A ok \in BOOLEAN : BatchOutcome(ok) \subseteq InEmissions
  BY DEF InEmissions, Waiting, BatchOutcome, ResultOf, Inv, BatchTypeOK, StatsTypeOK

LEMMA EmitMapping ==
    ASSUME Inv, NEW f \in Flushes, NEW group \in SUBSET Metrics, EmitMetrics(f, group)
    PROVE  BatchPromise!PromiseNext
<1>1. /\ InParts' = InParts \cup group /\ group \cap (InParts \cup InEmissions) = {}
      /\ UNCHANGED <<phase, batch, result, metricsSent, metricsDropped>>
  BY EmitStep DEF statsVars, goroutineVars, counterVars
<1>2. /\ Waiting' = Waiting
      /\ BatchOutcome(TRUE)' = BatchOutcome(TRUE)
      /\ BatchOutcome(FALSE)' = BatchOutcome(FALSE)
  BY <1>1 DEF Waiting, BatchOutcome, ResultOf
<1>3. group \cap (InParts \cup Waiting \cup BatchOutcome(TRUE) \cup BatchOutcome(FALSE)) = {}
  BY <1>1, OutcomesInEmissions
<1>4. BatchPromise!PromiseAccept(group)
  BY <1>1, <1>2, <1>3 DEF BatchPromise!PromiseAccept, Waiting
<1>5. group \in (SUBSET Metrics) \ {{}}
  BY DEF EmitMetrics
<1> QED
  BY <1>4, <1>5 DEF BatchPromise!PromiseNext

LEMMA StartMapping ==
    ASSUME Inv, NEW f \in Flushes, NEW part \in toStart[f], StartBatch(f, part)
    PROVE  UNCHANGED BatchPromise!promiseVars
<1>1. PICK g \in Emissions :
         /\ phase[g] = "unused" /\ part \subseteq InParts
         /\ \A h \in Emissions :
               /\ phase'[h] = IF h = g THEN "emitting" ELSE phase[h]
               /\ batch'[h] = IF h = g THEN part ELSE batch[h]
  BY StartStep
<1>2. InParts' = InParts \ part /\ UNCHANGED <<result, metricsSent, metricsDropped>>
  BY StartStep
<1>3. batch[g] = {}
  BY <1>1 DEF Inv, Started
<1>4. Waiting' = Waiting \cup part
  BY <1>1, <1>3 DEF Waiting
<1>5. /\ BatchOutcome(TRUE)' = BatchOutcome(TRUE)
      /\ BatchOutcome(FALSE)' = BatchOutcome(FALSE)
  BY <1>1, <1>2 DEF BatchOutcome, ResultOf
<1>6. (InParts \cup Waiting)' = InParts \cup Waiting
  BY <1>1, <1>2, <1>4
<1> QED
  BY <1>2, <1>5, <1>6 DEF BatchPromise!promiseVars, Waiting

LEMMA CountMapping ==
    ASSUME Inv, NEW g \in Emissions, CountMetrics(g), UNCHANGED <<flushed, toStart>>
    PROVE  BatchPromise!PromiseNext
<1>0. PICK group \in (SUBSET Metrics) \ {{}} : group = batch[g]
  BY DEF CountMetrics, Inv, BatchTypeOK, StatsTypeOK, Started
<1>1. /\ phase[g] = "handed" /\ result[g] \in BOOLEAN
      /\ \A h \in Emissions : phase'[h] = IF h = g THEN "counted" ELSE phase[h]
      /\ batch' = batch /\ result' = result /\ InParts' = InParts
  BY DEF CountMetrics, Inv, BatchTypeOK, StatsTypeOK, InParts
<1>2. batch[g] \in (SUBSET Metrics) \ {{}} /\ batch[g] \subseteq Waiting
  <2>1. batch[g] \in SUBSET Metrics
    BY DEF Inv, BatchTypeOK, StatsTypeOK
  <2>2. batch[g] # {}
    BY <1>1 DEF Inv, Started
  <2>3. batch[g] \subseteq Waiting
    BY <1>1 DEF Waiting
  <2> QED
    BY <2>1, <2>2, <2>3
<1>3. Waiting' = Waiting \ batch[g]
  <2>1. \A h \in Emissions : h # g => batch[h] \cap batch[g] = {}
    BY DEF Inv, EachMetricInOnePart
  <2>2. Waiting' = UNION {batch[h] : h \in {h \in Emissions : h # g /\ phase[h] # "counted"}}
    BY <1>1 DEF Waiting
  <2> QED
    BY <1>1, <2>1, <2>2 DEF Waiting
<1>4. InParts \cap batch[g] = {}
  BY <1>2, OutcomesInEmissions DEF Inv, EachMetricInOnePart
<1>5. (InParts \cup Waiting)' = (InParts \cup Waiting) \ batch[g]
  BY <1>1, <1>3, <1>4
<1>6. ASSUME NEW ok \in BOOLEAN
      PROVE  BatchOutcome(ok)' = IF result[g] = ok
                                 THEN BatchOutcome(ok) \cup batch[g] ELSE BatchOutcome(ok)
  BY <1>1 DEF BatchOutcome, ResultOf
<1>7. CASE result[g] = TRUE
  <2>1. BatchPromise!PromiseSent(group)
    BY <1>0, <1>2, <1>5, <1>6, <1>7, SameCardinality
       DEF BatchPromise!PromiseSent, CountMetrics, Waiting
  <2> QED
    BY <2>1 DEF BatchPromise!PromiseNext
<1>8. CASE result[g] = FALSE
  <2>1. BatchPromise!PromiseDropped(group)
    BY <1>0, <1>2, <1>5, <1>6, <1>8, SameCardinality
       DEF BatchPromise!PromiseDropped, CountMetrics, Waiting
  <2> QED
    BY <2>1 DEF BatchPromise!PromiseNext
<1> QED
  BY <1>1, <1>7, <1>8

LEMMA PromiseStep ==
    Inv /\ [BatchNext]_batchVars
        => [BatchPromise!PromiseNext]_(BatchPromise!promiseVars)
<1> SUFFICES ASSUME Inv, [BatchNext]_batchVars
             PROVE  [BatchPromise!PromiseNext]_(BatchPromise!promiseVars)
  OBVIOUS
<1>1. ASSUME /\ UNCHANGED <<batch, toStart, metricsSent, metricsDropped>>
             /\ \A g \in Emissions : phase'[g] = "counted" <=> phase[g] = "counted"
             /\ \A g \in Emissions : phase[g] = "counted" => result'[g] = result[g]
      PROVE  UNCHANGED BatchPromise!promiseVars
  BY <1>1 DEF BatchPromise!promiseVars, InParts, BatchOutcome, ResultOf
<1>2. ASSUME NEW g \in Emissions, BatchReturns(g), UNCHANGED <<flushed, toStart>>
      PROVE  UNCHANGED BatchPromise!promiseVars
  <2>1. PICK ok \in BOOLEAN : EmitReturns(g, ok)
    BY <1>2 DEF BatchReturns
  <2> QED
    BY <1>1, <1>2, <2>1 DEF EmitReturns, counterVars, Inv, BatchTypeOK, StatsTypeOK
<1>3. ASSUME NEW g \in Emissions, HandTiming(g), UNCHANGED <<flushed, toStart>>
      PROVE  UNCHANGED BatchPromise!promiseVars
  BY <1>1, <1>3 DEF HandTiming, counterVars, Inv, BatchTypeOK, StatsTypeOK
<1>4. CASE RecorderStep /\ UNCHANGED <<flushed, toStart>>
  BY <1>1, <1>4 DEF RecorderStep, CountEmission, RecordTiming, goroutineVars, counterVars
<1>5. CASE UNCHANGED batchVars
  BY <1>1, <1>5 DEF batchVars, statsVars, goroutineVars, counterVars
<1> QED
  BY <1>2, <1>3, <1>4, <1>5, EmitMapping, StartMapping, CountMapping DEF BatchNext

\* A batching handler keeps HandlerPromise: a part is counted once, by its own
\* result, although the emission of the buffer has long returned.
THEOREM BatchingKeepsPromise == BatchSpec => BatchPromiseKept
<1>1. BatchInit => BatchPromise!PromiseInit
  BY DEF BatchInit, StatsInit, BatchPromise!PromiseInit, InParts, BatchOutcome, ResultOf
<1> QED
  BY <1>1, PromiseStep, InvAlways, PTL
     DEF BatchSpec, BatchPromiseKept, BatchPromise!PromiseSpec
=============================================================================
