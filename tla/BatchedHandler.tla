--------------------------- MODULE BatchedHandler ---------------------------
(***************************************************************************)
(* The SignalFx and Wavefront handlers when `batchByDimension' is set: the *)
(* emit function divides the buffer it is given by the value of one        *)
(* dimension and starts a goroutine for each part.  The parts report       *)
(* themselves (OverrideBaseEmissionMetricsReporter), the emission of the   *)
(* whole buffer does not.  SignalFx has a token for some of the values.    *)
(*                                                                         *)
(* Actors: the emissions of whole buffers (Flushes), started by a listener *)
(* of BaseHandler; the emissions of their parts, which are the Emissions   *)
(* of EmissionStats; the recorder and the requests of EmissionStats.       *)
(***************************************************************************)
EXTENDS EmissionStats

CONSTANTS
    Flushes,       \* identities of the goroutines that emit a whole buffer
    Values,        \* the values of the dimension batched by
    DimensionOf,   \* DimensionOf[m]: its value in metric m
    WithToken      \* the values that some auth token serves

ASSUME BatchAssumption ==
    /\ DimensionOf \in [Metrics -> Values]
    /\ WithToken \subseteq Values

VARIABLES
    flushed,       \* flushed[f]: the buffer goroutine f was given
    toStart        \* toStart[f]: the parts of it not started yet

batchVars == <<statsVars, flushed, toStart>>

BatchTypeOK ==
    /\ StatsTypeOK
    /\ flushed \in [Flushes -> SUBSET Metrics]
    /\ toStart \in [Flushes -> SUBSET ((SUBSET Metrics) \ {{}})]

BatchInit ==
    /\ StatsInit
    /\ flushed = [f \in Flushes |-> {}]
    /\ toStart = [f \in Flushes |-> {}]

Handed == UNION {flushed[f] : f \in Flushes}

\* Mutant of Batches: the first metric of a part only.
BatchesOfFirsts(metrics) ==
    {{CHOOSE m \in metrics : DimensionOf[m] = v} :
        v \in {DimensionOf[m] : m \in metrics}}

\* Mutant of Batches: the whole buffer in every part.
BatchesOfAll(metrics) ==
    {metrics}

\* Mutant of Batches: a part for each value that is known.
BatchesOfEveryValue(metrics) ==
    {{m \in metrics : DimensionOf[m] = v} : v \in Values}

\* makeBatches: a map from dimension values to the metrics that have them.
Batches(metrics) ==
    {{m \in metrics : DimensionOf[m] = v} :
        v \in {DimensionOf[m] : m \in metrics}}

\* Base emitAndTime calls emitMetrics with a listener's buffer, which is never
\* empty and shares no metric with another one (BaseHandler).
EmitMetrics(f, metrics) ==
    /\ flushed[f] = {}
    /\ metrics # {}
    /\ metrics \cap Handed = {}
    /\ flushed' = [flushed EXCEPT ![f] = metrics]
    /\ toStart' = [toStart EXCEPT ![f] = Batches(metrics)]
    /\ UNCHANGED statsVars

\* Mutant of StartBatch: the part stays in the map and is started again.
StartBatchAgain(f, part) ==
    /\ part \in toStart[f]
    /\ \E g \in Emissions : StartEmission(g, part)
    /\ UNCHANGED <<flushed, toStart>>

\* One turn of the loop over the map, whose order Go leaves open.  After the
\* last, emitMetrics returns true and nobody reports that.
StartBatch(f, part) ==
    /\ part \in toStart[f]
    /\ \E g \in Emissions : StartEmission(g, part)
    /\ toStart' = [toStart EXCEPT ![f] = @ \ {part}]
    /\ UNCHANGED flushed

\* getAuthTokenForBatch finds a token for the value of the part.
HasToken(part) == \E v \in WithToken : \A m \in part : DimensionOf[m] = v

\* emitBatch fails at once without a token, and may fail with one.
BatchReturns(g) ==
    \E ok \in BOOLEAN : (ok => HasToken(batch[g])) /\ EmitReturns(g, ok)

BatchNext ==
    \/ \E f \in Flushes, metrics \in SUBSET Metrics : EmitMetrics(f, metrics)
    \/ \E f \in Flushes : \E part \in toStart[f] : StartBatch(f, part)
    \/ /\ \/ \E g \in Emissions : BatchReturns(g) \/ HandTiming(g) \/ CountMetrics(g)
          \/ RecorderStep
       /\ UNCHANGED <<flushed, toStart>>

BatchSpec == BatchInit /\ [][BatchNext]_batchVars

(***************************************************************************)
(* Fairness.  The loop over the map and the goroutines of EmissionStats go *)
(* on.  The emit functions owe nothing: the HTTP client has a timeout for  *)
(* dialling only, and a destination that accepts and never answers keeps   *)
(* its goroutine for ever.                                                 *)
(***************************************************************************)
Framed(A) == A /\ UNCHANGED <<flushed, toStart>>

BatchFairness ==
    /\ \A f \in Flushes :
          WF_batchVars(\E part \in toStart[f] : StartBatch(f, part))
    /\ \A g \in Emissions : /\ SF_batchVars(Framed(HandTiming(g)))
                            /\ WF_batchVars(Framed(CountMetrics(g)))
    /\ WF_batchVars(Framed(RecorderStep))

FairBatchSpec == BatchSpec /\ BatchFairness

(***************************************************************************)
(* Properties.                                                             *)
(***************************************************************************)
InParts == UNION {UNION toStart[f] : f \in Flushes}
InEmissions == UNION {batch[g] : g \in Emissions}

\* Splitting a buffer neither loses nor repeats a metric: each is in one part
\* that waits or in one emission.
EachMetricInOnePart ==
    /\ Handed = InParts \cup InEmissions
    /\ InParts \cap InEmissions = {}
    /\ \A g, h \in Emissions : g # h => batch[g] \cap batch[h] = {}

\* An emission carries metrics of one value of the dimension, so that the token
\* of that value serves all of it: of a buffer with several values, a metric
\* whose value has no token is never reported as sent.
ResultOf(ok) == {g \in Emissions : phase[g] = "counted" /\ result[g] = ok}
BatchOutcome(ok) == UNION {batch[g] : g \in ResultOf(ok)}
SentWithOwnToken ==
    /\ \A g \in Emissions :
          \A m, n \in batch[g] : DimensionOf[m] = DimensionOf[n]
    /\ \A m \in BatchOutcome(TRUE) : DimensionOf[m] \in WithToken

\* A batching handler keeps the same promise as one that sends buffers whole,
\* although emitMetrics answers true before any part is sent: a part is
\* counted once, by its own result, and the buffer as a whole never is.
BatchPromise == INSTANCE HandlerPromise WITH
    pending <- InParts \cup
                 UNION {batch[g] : g \in {h \in Emissions : phase[h] # "counted"}},
    sent <- BatchOutcome(TRUE),
    dropped <- BatchOutcome(FALSE),
    lost <- {}
BatchPromiseKept == BatchPromise!PromiseSpec

\* A part is started although another part, or another buffer's, is stuck in
\* its request.
PartsHoldNoneUp == \A m \in Metrics : m \in Handed ~> m \in InEmissions
=============================================================================
