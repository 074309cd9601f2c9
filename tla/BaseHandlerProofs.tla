------------------------- MODULE BaseHandlerProofs -------------------------
(***************************************************************************)
(* What TLAPS proves of BaseHandler for every set of metrics, endpoints    *)
(* and emissions, every limit, interval and bound.                         *)
(***************************************************************************)
EXTENDS BaseHandler, EmissionStatsProofs

-----------------------------------------------------------------------------
(***************************************************************************)
(* Types.                                                                  *)
(***************************************************************************)
LEMMA TypeInit == Init => TypeOK
  BY DEF Init, StatsInit, TypeOK, StatsTypeOK, Phases, RecorderSteps,
         SnapshotSteps

\* The listener's steps, whatever the channel the metric came from.
LEMMA TakeType ==
    ASSUME TypeOK, NEW e \in Endpoints, NEW x \in Items, Take(e, x)
    PROVE  /\ StatsTypeOK'
           /\ metrics' \in [Endpoints -> SUBSET Metrics]
           /\ currentBufferSize' \in [Endpoints -> Nat]
           /\ running' \in [Endpoints -> BOOLEAN]
<1>1. CASE TakeZero(e)
  BY <1>1 DEF TakeZero, TypeOK, StatsTypeOK, statsVars, goroutineVars,
              counterVars
<1>2. ASSUME NEW full \in SUBSET Metrics, Flush(e, full)
      PROVE  /\ StatsTypeOK'
             /\ metrics' \in [Endpoints -> SUBSET Metrics]
             /\ currentBufferSize' \in [Endpoints -> Nat]
             /\ running' \in [Endpoints -> BOOLEAN]
  BY <1>2 DEF Flush, StartEmission, TypeOK, StatsTypeOK, Phases, counterVars
<1>3. CASE TakeSentinel(e)
  <2>1. CASE Flush(e, metrics[e])
    BY <2>1, <1>2 DEF TypeOK
  <2>2. CASE UNCHANGED <<statsVars, listenerVars>>
    BY <2>2 DEF TypeOK, StatsTypeOK, statsVars, goroutineVars, counterVars,
                listenerVars
  <2> QED
    BY <1>3, <2>1, <2>2 DEF TakeSentinel
<1>4. CASE x \in Metrics /\ TakeMetric(e, x)
  <2>1. CASE Flush(e, metrics[e] \cup {x})
    BY <1>4, <2>1, <1>2 DEF TypeOK
  <2>2. CASE /\ metrics' = [metrics EXCEPT ![e] = metrics[e] \cup {x}]
             /\ currentBufferSize' = [currentBufferSize EXCEPT
                                        ![e] = currentBufferSize[e] + 1]
             /\ UNCHANGED <<statsVars, running>>
    BY <1>4, <2>2 DEF TypeOK, StatsTypeOK, statsVars, goroutineVars,
                      counterVars
  <2> QED
    BY <1>4, <2>1, <2>2 DEF TakeMetric
<1> QED
  BY <1>1, <1>3, <1>4 DEF Take

LEMMA HandlerTypeStep == TypeOK /\ HandlerStep => TypeOK'
<1> SUFFICES ASSUME TypeOK, HandlerStep PROVE TypeOK'
  OBVIOUS
<1>1. ASSUME NEW e \in CollectorEndpoints, NEW x \in Items, Send(e, x)
      PROVE  TypeOK'
  BY <1>1 DEF Send, Accept, TypeOK, StatsTypeOK, statsVars, goroutineVars,
              counterVars, listenerVars
<1>2. ASSUME NEW e \in CollectorEndpoints, Receive(e)
      PROVE  TypeOK'
  <2>1. channel[e] \in Items /\ e \in Endpoints
    BY <1>2 DEF Receive, TypeOK, Endpoints
  <2>2. channel' \in [CollectorEndpoints -> Items \cup {Empty}]
        /\ accepted' \subseteq Metrics
    BY <1>2 DEF Receive, TypeOK
  <2> QED
    BY <1>2, <2>1, <2>2, TakeType DEF Receive, TypeOK
<1>3. ASSUME NEW x \in Items, Rendezvous(x)
      PROVE  TypeOK'
  <2>1. Default \in Endpoints
    BY DEF Endpoints
  <2>2. channel' \in [CollectorEndpoints -> Items \cup {Empty}]
        /\ accepted' \subseteq Metrics
    BY <1>3 DEF Rendezvous, Accept, TypeOK
  <2> QED
    BY <1>3, <2>1, <2>2, TakeType DEF Rendezvous, TypeOK
<1>4. ASSUME NEW e \in Endpoints, TickerFlush(e)
      PROVE  TypeOK'
  BY <1>4 DEF TickerFlush, Flush, StartEmission, TypeOK, StatsTypeOK, Phases,
              counterVars
<1> QED
  BY <1>1, <1>2, <1>3, <1>4 DEF HandlerStep

LEMMA TypeStep == TypeOK /\ [Next]_vars => TypeOK'
<1>1. CASE UNCHANGED vars
  BY <1>1 DEF vars, statsVars, goroutineVars, counterVars, listenerVars,
              TypeOK, StatsTypeOK
<1>2. CASE StatsNext /\ UNCHANGED <<channel, listenerVars, accepted>>
  BY <1>2, StatsTypeStep DEF TypeOK, listenerVars
<1> QED
  BY <1>1, <1>2, HandlerTypeStep DEF Next

\* Every variable keeps its type: in particular a sentinel or a zero metric is
\* never buffered or emitted, and the recorder holds a timing whenever it is
\* past its receive.
THEOREM TypeCorrect == Spec => []TypeOK
<1> QED
  BY TypeInit, TypeStep, PTL DEF Spec
-----------------------------------------------------------------------------
(***************************************************************************)
(* Each metric is in one place.  The invariant needs one fact more: an     *)
(* emission that was not started has no metrics.                           *)
(***************************************************************************)
UnusedIsEmpty == \A g \in Emissions : phase[g] = "unused" => batch[g] = {}

\* The part of EachMetricInOnePlace that the listeners' steps can disturb.
BuffersApart ==
    /\ Buffered \cap Emitted = {}
    /\ \A d, e \in Endpoints : d # e => metrics[d] \cap metrics[e] = {}
    /\ \A g, h \in Emissions : g # h => batch[g] \cap batch[h] = {}

\* What a listener may do to the buffers and the batches with new metrics that
\* are in none of them: nothing, put them in its buffer, or give its buffer and
\* them to an unused emission.
LEMMA FlushKeepsApart ==
    ASSUME TypeOK, BuffersApart, UnusedIsEmpty,
           NEW e \in Endpoints, NEW new \in SUBSET Metrics,
           new \cap (Buffered \cup Emitted) = {},
           Flush(e, metrics[e] \cup new)
    PROVE  /\ BuffersApart' /\ UnusedIsEmpty'
           /\ (Buffered \cup Emitted)' = Buffered \cup Emitted \cup new
<1>1. PICK g \in Emissions : StartEmission(g, metrics[e] \cup new)
  BY DEF Flush
<1>2. /\ batch' = [batch EXCEPT ![g] = metrics[e] \cup new]
      /\ metrics' = [metrics EXCEPT ![e] = {}]
      /\ phase' = [phase EXCEPT ![g] = "emitting"]
      /\ batch[g] = {}
  BY <1>1 DEF Flush, StartEmission, NextUnused, UnusedIsEmpty
<1>3. /\ \A d \in Endpoints : metrics'[d] = IF d = e THEN {} ELSE metrics[d]
      /\ \A h \in Emissions :
            batch'[h] = IF h = g THEN metrics[e] \cup new ELSE batch[h]
  BY <1>2 DEF TypeOK, StatsTypeOK
<1>4. /\ Buffered' = Buffered \ metrics[e]
      /\ Emitted' = Emitted \cup metrics[e] \cup new
  BY <1>2, <1>3 DEF Buffered, Emitted, BuffersApart
<1>5. metrics[e] \subseteq Buffered
  BY DEF Buffered
<1>6. UnusedIsEmpty'
  BY <1>2, <1>3 DEF UnusedIsEmpty, TypeOK, StatsTypeOK
<1>7. \A h \in Emissions \ {g} : batch[h] \cap (metrics[e] \cup new) = {}
  BY <1>5 DEF Emitted, BuffersApart
<1> QED
  BY <1>3, <1>4, <1>5, <1>6, <1>7 DEF BuffersApart

LEMMA TakeKeepsApart ==
    ASSUME TypeOK, BuffersApart, UnusedIsEmpty,
           NEW e \in Endpoints, NEW x \in Items, Take(e, x),
           x \notin Buffered \cup Emitted
    PROVE  /\ BuffersApart' /\ UnusedIsEmpty'
           /\ (Buffered \cup Emitted)'
                 = Buffered \cup Emitted \cup ({x} \cap Metrics)
<1> DEFINE new == {x} \cap Metrics
<1>1. x = ZeroMetric \/ x = Sentinel => new = {}
  BY HandlerAssumption
<1>2. CASE UNCHANGED <<metrics, batch, phase>> /\ new = {}
  BY <1>2 DEF BuffersApart, UnusedIsEmpty, Buffered, Emitted
<1>3. CASE Flush(e, metrics[e] \cup new)
  <2>1. new \in SUBSET Metrics /\ new \cap (Buffered \cup Emitted) = {}
    OBVIOUS
  <2> HIDE DEF new
  <2>2. /\ BuffersApart' /\ UnusedIsEmpty'
        /\ (Buffered \cup Emitted)' = Buffered \cup Emitted \cup new
    BY <1>3, <2>1, FlushKeepsApart
  <2> QED
    BY <2>2 DEF new
<1>4. CASE /\ new = {x}
           /\ metrics' = [metrics EXCEPT ![e] = metrics[e] \cup {x}]
           /\ UNCHANGED <<batch, phase>>
  <2>1. \A d \in Endpoints :
           metrics'[d] = IF d = e THEN metrics[e] \cup {x} ELSE metrics[d]
    BY <1>4 DEF TypeOK
  <2>2. Buffered' = Buffered \cup {x} /\ Emitted' = Emitted
    BY <1>4, <2>1 DEF Buffered, Emitted
  <2>3. \A d \in Endpoints : x \notin metrics[d]
    BY DEF Buffered
  <2> QED
    BY <1>4, <2>1, <2>2, <2>3 DEF BuffersApart, UnusedIsEmpty
<1>5. CASE x = ZeroMetric /\ TakeZero(e)
  BY <1>1, <1>2, <1>5 DEF TakeZero, statsVars, goroutineVars
<1>6. CASE x = Sentinel /\ TakeSentinel(e)
  <2>1. metrics[e] \cup new = metrics[e]
    BY <1>1, <1>6
  <2> QED
    BY <1>1, <1>2, <1>3, <1>6, <2>1
       DEF TakeSentinel, statsVars, goroutineVars, listenerVars
<1>7. CASE x \in Metrics /\ TakeMetric(e, x)
  BY <1>3, <1>4, <1>7 DEF TakeMetric, statsVars, goroutineVars
<1> QED
  BY <1>5, <1>6, <1>7 DEF Take
LEMMA OnePlaceHandlerStep ==
    TypeOK /\ EachMetricInOnePlace /\ UnusedIsEmpty /\ HandlerStep
        => EachMetricInOnePlace' /\ UnusedIsEmpty'
<1> SUFFICES ASSUME TypeOK, EachMetricInOnePlace, UnusedIsEmpty, HandlerStep
             PROVE  EachMetricInOnePlace' /\ UnusedIsEmpty'
  OBVIOUS
<1>0. BuffersApart
  BY DEF EachMetricInOnePlace, BuffersApart
<1>1. ASSUME NEW e \in CollectorEndpoints, NEW x \in Items, Send(e, x)
      PROVE  EachMetricInOnePlace' /\ UnusedIsEmpty'
  <2>1. /\ UNCHANGED <<metrics, batch, phase>>
        /\ \A d \in CollectorEndpoints :
              channel'[d] = IF d = e THEN x ELSE channel[d]
        /\ channel[e] = Empty /\ x \notin accepted
        /\ accepted' = accepted \cup ({x} \cap Metrics)
    BY <1>1 DEF Send, Fresh, Accept, TypeOK, statsVars, goroutineVars,
                listenerVars
  <2>2. Buffered' = Buffered /\ Emitted' = Emitted
    BY <2>1 DEF Buffered, Emitted
  <2>3. Queued' = Queued \cup ({x} \cap Metrics)
    BY <2>1, HandlerAssumption DEF Queued
  <2>4. \A d \in CollectorEndpoints : channel[d] \in Metrics => channel[d] # x
    BY <2>1 DEF EachMetricInOnePlace, Queued
  <2> QED
    BY <2>1, <2>2, <2>3, <2>4 DEF EachMetricInOnePlace, UnusedIsEmpty
<1>2. ASSUME NEW e \in CollectorEndpoints, Receive(e)
      PROVE  EachMetricInOnePlace' /\ UnusedIsEmpty'
  <2> DEFINE x == channel[e]
  <2>1. /\ e \in Endpoints /\ x \in Items /\ Take(e, x)
        /\ UNCHANGED accepted
        /\ \A d \in CollectorEndpoints :
              channel'[d] = IF d = e THEN Empty ELSE channel[d]
    BY <1>2 DEF Receive, TypeOK, Endpoints
  <2>2. x \notin Buffered \cup Emitted
    <3>1. CASE x \in Metrics
      BY <3>1 DEF EachMetricInOnePlace, Queued
    <3>2. CASE x \notin Metrics
      BY <3>2 DEF Buffered, Emitted, TypeOK, StatsTypeOK
    <3> QED
      BY <3>1, <3>2
  <2>3. /\ BuffersApart' /\ UnusedIsEmpty'
        /\ (Buffered \cup Emitted)'
              = Buffered \cup Emitted \cup ({x} \cap Metrics)
    BY <1>0, <2>1, <2>2, TakeKeepsApart
  <2>4. Queued' = Queued \ {x}
    BY <2>1, HandlerAssumption DEF EachMetricInOnePlace, Queued
  <2>5. {x} \cap Metrics \subseteq Queued
    BY DEF Queued
  <2>6. \A d, c \in CollectorEndpoints :
           channel'[d] \in Metrics /\ channel'[d] = channel'[c] => d = c
    BY <2>1, HandlerAssumption DEF EachMetricInOnePlace
  <2> HIDE DEF x
  <2>7. accepted' = Queued' \cup Buffered' \cup Emitted'
    BY <2>1, <2>3, <2>4, <2>5 DEF EachMetricInOnePlace, Queued
  <2>8. Queued' \cap Buffered' = {} /\ Queued' \cap Emitted' = {}
    BY <2>3, <2>4 DEF EachMetricInOnePlace
  <2> QED
    BY <2>3, <2>6, <2>7, <2>8 DEF EachMetricInOnePlace, BuffersApart
<1>3. ASSUME NEW x \in Items, Rendezvous(x)
      PROVE  EachMetricInOnePlace' /\ UnusedIsEmpty'
  <2>1. /\ Default \in Endpoints /\ Take(Default, x)
        /\ x \notin accepted /\ UNCHANGED channel
        /\ accepted' = accepted \cup ({x} \cap Metrics)
    BY <1>3 DEF Rendezvous, Fresh, Accept, Endpoints
  <2>2. x \notin Buffered \cup Emitted /\ x \notin Queued
    BY <2>1 DEF EachMetricInOnePlace
  <2>3. /\ BuffersApart' /\ UnusedIsEmpty'
        /\ (Buffered \cup Emitted)'
              = Buffered \cup Emitted \cup ({x} \cap Metrics)
    BY <1>0, <2>1, <2>2, TakeKeepsApart
  <2>4. Queued' = Queued
    BY <2>1 DEF Queued
  <2> QED
    BY <2>1, <2>2, <2>3, <2>4 DEF EachMetricInOnePlace, BuffersApart
<1>4. ASSUME NEW e \in Endpoints, TickerFlush(e)
      PROVE  EachMetricInOnePlace' /\ UnusedIsEmpty'
  <2>1. Flush(e, metrics[e] \cup {}) /\ UNCHANGED <<channel, accepted>>
    BY <1>4 DEF TickerFlush
  <2>2. /\ BuffersApart' /\ UnusedIsEmpty'
        /\ (Buffered \cup Emitted)' = Buffered \cup Emitted \cup {}
    BY <1>0, <2>1, FlushKeepsApart
  <2>3. Queued' = Queued
    BY <2>1 DEF Queued
  <2> QED
    BY <2>1, <2>2, <2>3 DEF EachMetricInOnePlace, BuffersApart
<1> QED
  BY <1>1, <1>2, <1>3, <1>4 DEF HandlerStep

LEMMA OnePlaceStep ==
    TypeOK /\ EachMetricInOnePlace /\ UnusedIsEmpty /\ [Next]_vars
        => EachMetricInOnePlace' /\ UnusedIsEmpty'
<1> SUFFICES ASSUME TypeOK, EachMetricInOnePlace, UnusedIsEmpty, [Next]_vars
             PROVE  EachMetricInOnePlace' /\ UnusedIsEmpty'
  OBVIOUS
<1>0. StatsTypeOK
  BY DEF TypeOK
<1>1. CASE StatsNext /\ UNCHANGED <<channel, listenerVars, accepted>>
  BY <1>0, <1>1, StatsKeepsBatches
     DEF EachMetricInOnePlace, UnusedIsEmpty, Queued, Buffered, Emitted,
         listenerVars
<1>2. CASE UNCHANGED vars
  BY <1>2 DEF EachMetricInOnePlace, UnusedIsEmpty, Queued, Buffered, Emitted,
              vars, statsVars, goroutineVars, listenerVars
<1> QED
  BY <1>1, <1>2, OnePlaceHandlerStep DEF Next

\* No metric a channel has taken is ever lost or in two places, whatever the
\* order in which metrics, sentinels, zero metrics and ticks reach the
\* listeners and the emit functions come back.
THEOREM OnePlace == Spec => []EachMetricInOnePlace
<1>1. Init => EachMetricInOnePlace /\ UnusedIsEmpty
  BY HandlerAssumption
     DEF Init, StatsInit, EachMetricInOnePlace, UnusedIsEmpty, Queued, Buffered,
         Emitted
<1> QED
  BY <1>1, OnePlaceStep, TypeCorrect, PTL DEF Spec
-----------------------------------------------------------------------------
(***************************************************************************)
(* Counters and sizes: the numbers BaseHandler keeps and publishes, the sizes *)
(* of buffers and batches, and what a request for the internal metrics sees. *)
(***************************************************************************)
\* A step of the listeners or senders leaves every emission that was started,
\* the recorder and the counters alone.
LEMMA HandlerKeepsStarted ==
    ASSUME TypeOK, HandlerStep
    PROVE  /\ \A g \in Emissions :
                 /\ phase[g] # "unused" => phase'[g] = phase[g]
                 /\ phase[g] # "unused" => batch'[g] = batch[g]
                 /\ phase[g] = "unused" => phase'[g] \in {"unused", "emitting"}
           /\ UNCHANGED <<clock, result, stamp, recorder, emissionTimes,
                          counterVars, snapshot>>
<1> DEFINE Kept ==
             /\ \A g \in Emissions :
                   /\ phase[g] # "unused" => phase'[g] = phase[g]
                   /\ phase[g] # "unused" => batch'[g] = batch[g]
                   /\ phase[g] = "unused" => phase'[g] \in {"unused", "emitting"}
             /\ UNCHANGED <<clock, result, stamp, recorder, emissionTimes,
                            counterVars, snapshot>>
<1>1. ASSUME NEW g \in Emissions, NEW full, StartEmission(g, full) PROVE Kept
  BY <1>1 DEF StartEmission, NextUnused, TypeOK, StatsTypeOK
<1>2. ASSUME UNCHANGED statsVars PROVE Kept
  BY <1>2 DEF statsVars, goroutineVars, counterVars
<1>3. ASSUME NEW e \in Endpoints, NEW x, Take(e, x) PROVE Kept
  BY <1>1, <1>2, <1>3 DEF Take, TakeZero, TakeSentinel, TakeMetric, Flush
<1>4. ASSUME NEW e \in Endpoints, TickerFlush(e) PROVE Kept
  BY <1>1, <1>4 DEF TickerFlush, Flush
<1> HIDE DEF Kept
<1>5. Kept
  BY <1>2, <1>3, <1>4 DEF HandlerStep, Send, Receive, Rendezvous, Endpoints
<1> QED
  BY <1>5 DEF Kept

-----------------------------------------------------------------------------
(***************************************************************************)
(* metricsSent and metricsDropped.                                         *)
(***************************************************************************)
LEMMA CountersStep ==
    TypeOK /\ EachMetricInOnePlace /\ CountersExact /\ [Next]_vars
        => CountersExact'
<1> SUFFICES ASSUME TypeOK, EachMetricInOnePlace, CountersExact, [Next]_vars
             PROVE  CountersExact'
  OBVIOUS
<1>1. ASSUME /\ \A g \in Emissions :
                   phase'[g] = "counted" <=> phase[g] = "counted"
             /\ \A g \in Emissions :
                   phase[g] = "counted" =>
                       batch'[g] = batch[g] /\ result'[g] = result[g]
             /\ UNCHANGED <<metricsSent, metricsDropped>>
      PROVE  CountersExact'
  <2>1. Outcome(TRUE)' = Outcome(TRUE) /\ Outcome(FALSE)' = Outcome(FALSE)
    BY <1>1 DEF Outcome
  <2> QED
    BY <1>1, <2>1 DEF CountersExact
<1>2. CASE HandlerStep
  BY <1>1, <1>2, HandlerKeepsStarted DEF counterVars
<1>3. ASSUME NEW g \in Emissions, CountMetrics(g)
      PROVE  CountersExact'
  <2>1. /\ phase[g] = "handed"
        /\ \A h \in Emissions :
              phase'[h] = IF h = g THEN "counted" ELSE phase[h]
        /\ batch' = batch /\ result' = result
    BY <1>3 DEF CountMetrics, TypeOK, StatsTypeOK
  <2>2. ASSUME NEW ok \in BOOLEAN
        PROVE  Outcome(ok)' = IF result[g] = ok
                              THEN Outcome(ok) \cup batch[g] ELSE Outcome(ok)
    BY <2>1 DEF Outcome
  <2>3. ASSUME NEW ok \in BOOLEAN
        PROVE  /\ Outcome(ok) \cap batch[g] = {}
               /\ Outcome(ok) \in SUBSET Metrics
    <3>1. \A h \in Emissions :
             phase[h] = "counted" =>
                 batch[h] \cap batch[g] = {} /\ batch[h] \subseteq Metrics
      BY <2>1 DEF EachMetricInOnePlace, TypeOK, StatsTypeOK
    <3> QED
      BY <3>1 DEF Outcome
  <2>4. ASSUME NEW ok \in BOOLEAN
        PROVE  Cardinality(Outcome(ok) \cup batch[g])
                  = Cardinality(Outcome(ok)) + Cardinality(batch[g])
    <3>1. /\ IsFiniteSet(Outcome(ok)) /\ IsFiniteSet(batch[g])
      BY <2>3, StatsAssumption, FS_Subset DEF TypeOK, StatsTypeOK
    <3>2. Cardinality(Outcome(ok) \cap batch[g]) = 0
      BY <2>3, FS_EmptySet
    <3>3. Cardinality(Outcome(ok)) \in Nat /\ Cardinality(batch[g]) \in Nat
      BY <3>1, FS_CardinalityType
    <3>4. Cardinality(Outcome(ok) \cup batch[g])
             = Cardinality(Outcome(ok)) + Cardinality(batch[g])
                  - Cardinality(Outcome(ok) \cap batch[g])
      BY <3>1, FS_Union, Zenon
    <3> QED
      BY <3>2, <3>3, <3>4
  <2>5. CASE result[g] = TRUE
    <3>1. /\ metricsSent' = metricsSent + Cardinality(batch[g])
          /\ metricsDropped' = metricsDropped
      BY <1>3, <2>5 DEF CountMetrics
    <3>2. /\ Outcome(TRUE)' = Outcome(TRUE) \cup batch[g]
          /\ Outcome(FALSE)' = Outcome(FALSE)
      BY <2>2, <2>5
    <3> QED
      BY <2>4, <3>1, <3>2 DEF CountersExact
  <2>6. CASE result[g] = FALSE
    <3>1. /\ metricsDropped' = metricsDropped + Cardinality(batch[g])
          /\ metricsSent' = metricsSent
      BY <1>3, <2>6 DEF CountMetrics
    <3>2. /\ Outcome(FALSE)' = Outcome(FALSE) \cup batch[g]
          /\ Outcome(TRUE)' = Outcome(TRUE)
      BY <2>2, <2>6
    <3> QED
      BY <2>4, <3>1, <3>2 DEF CountersExact
  <2> QED
    BY <2>5, <2>6 DEF TypeOK, StatsTypeOK
<1>4. ASSUME NEW g \in Emissions,
             HandTiming(g) \/ \E ok \in BOOLEAN : EmitReturns(g, ok)
      PROVE  CountersExact'
  BY <1>1, <1>4 DEF HandTiming, EmitReturns, TypeOK, StatsTypeOK, counterVars
<1>5. CASE RecorderStep \/ SnapshotStep \/ Advance \/ UNCHANGED vars
  BY <1>1, <1>5
     DEF RecorderStep, CountEmission, RecordTiming, SnapshotStep, ReadTotal,
         ReadDropped, ReadSent, ReadWindow, Advance, vars, statsVars,
         goroutineVars, counterVars
<1> QED
  BY <1>2, <1>3, <1>4, <1>5 DEF Next, StatsNext, EmissionStep

\* metricsSent and metricsDropped are, at every moment, the numbers of metrics
\* whose emission was counted as sent and as dropped: no metric is counted in
\* both, or twice, however the emission goroutines interleave.
THEOREM Counters == Spec => []CountersExact
<1>1. Init => CountersExact
  <2>1. ASSUME Init, NEW ok \in BOOLEAN PROVE Outcome(ok) = {}
    BY <2>1 DEF Init, StatsInit, Outcome
  <2> QED
    BY <2>1, FS_EmptySet DEF Init, StatsInit, CountersExact
<1> QED
  BY <1>1, CountersStep, TypeCorrect, OnePlace, PTL DEF Spec
-----------------------------------------------------------------------------
(***************************************************************************)
(* What a request for the internal metrics sees.  SnapshotConsistent is    *)
(* not inductive: it rests on the order of the recorder's two updates (the *)
(* counter first) and on the list standing still while the lock is held.   *)
(***************************************************************************)
WindowWithinTotal ==
    /\ Len(emissionTimes) <= totalEmissions
    /\ recorder.step = "locking" => Len(emissionTimes) < totalEmissions
    /\ snapshot.step \in {"total", "dropped", "sent"} =>
          Len(emissionTimes) <= snapshot.total
    /\ SnapshotConsistent

\* A purge does not make a list longer.
LEMMA PurgeLength ==
    ASSUME NEW times \in Seq(Emissions), NEW minTime \in Int,
           stamp \in [Emissions -> Nat]
    PROVE  Len(Purge(times, minTime)) <= Len(times)
<1>1. Len(Purge(times, minTime))
         = Len(times) - FirstKept(times, minTime) + 1
  BY PurgeProperties
<1>2. FirstKept(times, minTime) \in 1 .. Len(times) + 1
  BY FirstKeptProperties
<1>3. Len(times) \in Nat
  BY LenProperties
<1> QED
  BY <1>1, <1>2, <1>3

LEMMA SnapshotRecorderStep ==
    TypeOK /\ WindowWithinTotal /\ RecorderStep => WindowWithinTotal'
<1> SUFFICES ASSUME TypeOK, WindowWithinTotal, RecorderStep
             PROVE  WindowWithinTotal'
  OBVIOUS
<1>1. /\ Len(emissionTimes) \in Nat /\ totalEmissions \in Nat
      /\ recorder.step \in RecorderSteps
  BY DEF TypeOK, StatsTypeOK
<1>2. CASE CountEmission
  <2>1. /\ totalEmissions' = totalEmissions + 1
        /\ UNCHANGED <<emissionTimes, snapshot>>
    BY <1>2 DEF CountEmission
  <2> QED
    BY <1>1, <2>1 DEF WindowWithinTotal, SnapshotConsistent
<1>3. CASE RecordTiming
  <2>1. /\ recorder.step = "locking" /\ MuFree
        /\ emissionTimes' = Purge(Append(emissionTimes, recorder.timing),
                                  recorder.minTime)
        /\ recorder'.step = "receiving"
        /\ UNCHANGED <<totalEmissions, snapshot>>
    BY <1>3 DEF RecordTiming, counterVars, TypeOK, StatsTypeOK
  <2>2. /\ Append(emissionTimes, recorder.timing) \in Seq(Emissions)
        /\ Len(Append(emissionTimes, recorder.timing)) = Len(emissionTimes) + 1
        /\ recorder.minTime \in Int /\ stamp \in [Emissions -> Nat]
    BY <2>1 DEF TypeOK, StatsTypeOK
  <2>3. Len(emissionTimes') <= Len(emissionTimes) + 1
    BY <2>1, <2>2, PurgeLength
  <2>4. emissionTimes' \in Seq(Emissions)
    BY <2>1, <2>2, PurgeProperties
  <2>5. Len(emissionTimes') \in Nat
    BY <2>4
  <2> QED
    BY <1>1, <2>1, <2>3, <2>5 DEF WindowWithinTotal, SnapshotConsistent, MuFree
<1> QED
  BY <1>2, <1>3 DEF RecorderStep

LEMMA SnapshotReadStep ==
    TypeOK /\ WindowWithinTotal /\ SnapshotStep => WindowWithinTotal'
<1> SUFFICES ASSUME TypeOK, WindowWithinTotal, SnapshotStep
             PROVE  WindowWithinTotal'
  OBVIOUS
<1>1. UNCHANGED <<recorder, emissionTimes, totalEmissions>>
  BY DEF SnapshotStep, ReadTotal, ReadDropped, ReadSent, ReadWindow, counterVars
<1>2. /\ snapshot'.step \in {"total", "dropped", "sent"} =>
            Len(emissionTimes) <= snapshot'.total
      /\ snapshot'.step = "done" => snapshot'.inWindow <= snapshot'.total
  <2>1. CASE ReadTotal
    <3>1. snapshot'.step = "total" /\ snapshot'.total = totalEmissions
      BY <2>1 DEF ReadTotal, TypeOK, StatsTypeOK
    <3> QED
      BY <3>1 DEF WindowWithinTotal
  <2>2. CASE ReadDropped
    <3>1. snapshot'.step = "dropped" /\ snapshot'.total = snapshot.total
      BY <2>2 DEF ReadDropped, TypeOK, StatsTypeOK
    <3> QED
      BY <2>2, <3>1 DEF ReadDropped, WindowWithinTotal
  <2>3. CASE ReadSent
    <3>1. snapshot'.step = "sent" /\ snapshot'.total = snapshot.total
      BY <2>3 DEF ReadSent, TypeOK, StatsTypeOK
    <3> QED
      BY <2>3, <3>1 DEF ReadSent, WindowWithinTotal
  <2>4. CASE ReadWindow
    <3>1. /\ snapshot'.step = "done" /\ snapshot'.total = snapshot.total
          /\ snapshot'.inWindow = Len(emissionTimes)
      BY <2>4 DEF ReadWindow, TypeOK, StatsTypeOK
    <3> QED
      BY <2>4, <3>1 DEF ReadWindow, WindowWithinTotal
  <2> QED
    BY <2>1, <2>2, <2>3, <2>4 DEF SnapshotStep
<1> QED
  BY <1>1, <1>2 DEF WindowWithinTotal, SnapshotConsistent

LEMMA WindowWithinTotalStep ==
    TypeOK /\ WindowWithinTotal /\ [Next]_vars => WindowWithinTotal'
<1> SUFFICES ASSUME TypeOK, WindowWithinTotal, [Next]_vars
             PROVE  WindowWithinTotal'
  OBVIOUS
<1>1. CASE UNCHANGED <<emissionTimes, totalEmissions, snapshot, recorder>>
  BY <1>1 DEF WindowWithinTotal, SnapshotConsistent
<1>2. CASE HandlerStep
  BY <1>1, <1>2, HandlerKeepsStarted DEF counterVars
<1>3. ASSUME NEW g \in Emissions, EmissionStep(g)
      PROVE  WindowWithinTotal'
  <2>1. CASE HandTiming(g)
    <3>1. /\ UNCHANGED <<emissionTimes, totalEmissions, snapshot>>
          /\ recorder'.step = "counting"
      BY <2>1 DEF HandTiming, counterVars, TypeOK, StatsTypeOK
    <3> QED
      BY <3>1 DEF WindowWithinTotal, SnapshotConsistent
  <2> QED
    BY <1>1, <1>3, <2>1 DEF EmissionStep, EmitReturns, CountMetrics, counterVars
<1>4. CASE Advance \/ UNCHANGED vars
  BY <1>1, <1>4 DEF Advance, vars, statsVars, counterVars
<1> QED
  BY <1>2, <1>3, <1>4, SnapshotRecorderStep, SnapshotReadStep
     DEF Next, StatsNext

\* A request for the internal metrics never reports more emissions in the
\* window than emissions in total, although the counter is read before the
\* list and the recorder adds to it without the lock.
THEOREM Snapshots == Spec => []SnapshotConsistent
<1>1. Init => WindowWithinTotal
  BY DEF Init, StatsInit, WindowWithinTotal, SnapshotConsistent
<1>2. WindowWithinTotal => SnapshotConsistent
  BY DEF WindowWithinTotal
<1> QED
  BY <1>1, <1>2, WindowWithinTotalStep, TypeCorrect, PTL DEF Spec
-----------------------------------------------------------------------------
(***************************************************************************)
(* The two sides of the timing channel.                                    *)
(***************************************************************************)
\* Every emission whose timing was handed over is in totalEmissions, but for
\* the one the recorder has received and not yet counted.
RecorderCounts ==
    /\ IsFiniteSet(Reported)
    /\ Cardinality(Reported)
          = totalEmissions + IF recorder.step = "counting" THEN 1 ELSE 0

LEMMA RecorderCountsStep ==
    TypeOK /\ RecorderCounts /\ [Next]_vars => RecorderCounts'
<1> SUFFICES ASSUME TypeOK, RecorderCounts, [Next]_vars
             PROVE  RecorderCounts'
  OBVIOUS
<1>1. ASSUME /\ \A g \in Emissions : (phase'[g] \in {"handed", "counted"})
                                        <=> (phase[g] \in {"handed", "counted"})
             /\ totalEmissions' = totalEmissions
             /\ recorder'.step = "counting" <=> recorder.step = "counting"
      PROVE  RecorderCounts'
  <2>1. Reported' = Reported
    BY <1>1 DEF Reported
  <2> QED
    BY <1>1, <2>1 DEF RecorderCounts
<1>2. CASE HandlerStep
  <2>1. \A g \in Emissions : phase'[g] = phase[g] \/ (/\ phase[g] = "unused"
                                /\ phase'[g] \in {"unused", "emitting"})
    BY <1>2, HandlerKeepsStarted
  <2>2. recorder' = recorder /\ totalEmissions' = totalEmissions
    BY <1>2, HandlerKeepsStarted DEF counterVars
  <2> QED
    BY <1>1, <2>1, <2>2
<1>3. ASSUME NEW g \in Emissions, HandTiming(g)
      PROVE  RecorderCounts'
  <2>1. /\ Reported' = Reported \cup {g} /\ g \notin Reported
        /\ recorder.step = "receiving" /\ recorder'.step = "counting"
        /\ totalEmissions' = totalEmissions
    BY <1>3 DEF HandTiming, Reported, counterVars, TypeOK, StatsTypeOK
  <2>2. /\ IsFiniteSet(Reported \cup {g})
        /\ Cardinality(Reported \cup {g}) = Cardinality(Reported) + 1
    BY <2>1, FS_AddElement DEF RecorderCounts
  <2> QED
    BY <2>1, <2>2 DEF RecorderCounts, TypeOK, StatsTypeOK
<1>4. ASSUME NEW g \in Emissions,
             CountMetrics(g) \/ \E ok \in BOOLEAN : EmitReturns(g, ok)
      PROVE  RecorderCounts'
  BY <1>1, <1>4 DEF CountMetrics, EmitReturns, TypeOK, StatsTypeOK, counterVars
<1>5. CASE CountEmission
  <2>1. /\ recorder.step = "counting" /\ recorder'.step = "locking"
        /\ totalEmissions' = totalEmissions + 1 /\ Reported' = Reported
    BY <1>5 DEF CountEmission, goroutineVars, Reported, TypeOK, StatsTypeOK
  <2> QED
    BY <2>1 DEF RecorderCounts, TypeOK, StatsTypeOK
<1>6. CASE RecordTiming
  <2>1. /\ recorder.step = "locking" /\ recorder'.step = "receiving"
        /\ totalEmissions' = totalEmissions /\ phase' = phase
    BY <1>6 DEF RecordTiming, goroutineVars, counterVars, TypeOK, StatsTypeOK
  <2> QED
    BY <1>1, <2>1
<1>7. CASE SnapshotStep \/ Advance \/ UNCHANGED vars
  BY <1>1, <1>7
     DEF SnapshotStep, ReadTotal, ReadDropped, ReadSent, ReadWindow, Advance,
         vars, statsVars, goroutineVars, counterVars
<1> QED
  BY <1>2, <1>3, <1>4, <1>5, <1>6, <1>7
     DEF Next, StatsNext, EmissionStep, RecorderStep

\* The goroutines of the emissions, which add to metricsSent and
\* metricsDropped, are at most one emission ahead of the recorder, which adds
\* to totalEmissions: the channel between them has no buffer.
THEOREM RecorderLag == Spec => []RecorderLagsByOne
<1>1. Init => RecorderCounts
  <2>1. Init => Reported = {}
    BY DEF Init, StatsInit, Reported
  <2>2. IsFiniteSet({}) /\ Cardinality({}) = 0
    BY FS_EmptySet
  <2>3. Init => totalEmissions = 0 /\ recorder.step = "receiving"
    BY DEF Init, StatsInit
  <2> QED
    BY <2>1, <2>2, <2>3 DEF RecorderCounts
<1>2. TypeOK /\ RecorderCounts => RecorderLagsByOne
  <2> SUFFICES ASSUME TypeOK, RecorderCounts PROVE RecorderLagsByOne
    OBVIOUS
  <2> DEFINE Counted == {g \in Emissions : phase[g] = "counted"}
  <2>1. Counted \in SUBSET Reported
    BY DEF Reported
  <2>2. Cardinality(Counted) <= Cardinality(Reported)
    BY <2>1, FS_Subset DEF RecorderCounts
  <2>3. Cardinality(Counted) \in Nat
    BY <2>1, FS_Subset, FS_CardinalityType DEF RecorderCounts
  <2>4. totalEmissions \in Nat
    BY DEF TypeOK, StatsTypeOK
  <2> QED
    BY <2>2, <2>3, <2>4 DEF RecorderLagsByOne, RecorderCounts
<1> QED
  BY <1>1, <1>2, RecorderCountsStep, TypeCorrect, PTL DEF Spec

-----------------------------------------------------------------------------
(***************************************************************************)
(* Batches.                                                                *)
(***************************************************************************)
\* The sizes of one listener's buffer and of the emissions.
BufferWithinLimit(e) ==
    /\ currentBufferSize[e] = Cardinality(metrics[e])
    /\ currentBufferSize[e] < AtLeastOne(BufferSize[e])

BatchWithinLimit(g) ==
    phase[g] # "unused" =>
        /\ batch[g] # {}
        /\ \E e \in Endpoints :
              Cardinality(batch[g]) <= AtLeastOne(BufferSize[e])

LEMMA FlushWithinLimits ==
    ASSUME TypeOK, BatchesWithinLimits, NEW e \in Endpoints,
           NEW full \in SUBSET Metrics, full # {},
           Cardinality(full) <= AtLeastOne(BufferSize[e]), Flush(e, full)
    PROVE  BatchesWithinLimits'
<1>1. PICK g \in Emissions : StartEmission(g, full)
  BY DEF Flush
<1>2. /\ \A h \in Emissions : batch'[h] = IF h = g THEN full ELSE batch[h]
      /\ \A h \in Emissions : h # g => phase'[h] = phase[h]
      /\ \A d \in Endpoints : metrics'[d] = IF d = e THEN {} ELSE metrics[d]
      /\ \A d \in Endpoints :
            currentBufferSize'[d] = IF d = e THEN 0 ELSE currentBufferSize[d]
  BY <1>1 DEF Flush, StartEmission, TypeOK, StatsTypeOK
<1>3. \A d \in Endpoints : BufferWithinLimit(d)'
  <2>1. Cardinality({}) = 0 /\ 0 < AtLeastOne(BufferSize[e])
    BY HandlerAssumption, FS_EmptySet DEF AtLeastOne
  <2> QED
    BY <1>2, <2>1 DEF BatchesWithinLimits, BufferWithinLimit
<1>4. \A h \in Emissions : BatchWithinLimit(h)'
  BY <1>2 DEF BatchesWithinLimits, BatchWithinLimit
<1> QED
  BY <1>3, <1>4 DEF BatchesWithinLimits, BufferWithinLimit, BatchWithinLimit

\* A listener flushes what it has only if it has something.
LEMMA FlushBuffer ==
    ASSUME TypeOK, BatchesWithinLimits, NEW e \in Endpoints,
           currentBufferSize[e] > 0, Flush(e, metrics[e])
    PROVE  BatchesWithinLimits'
<1>1. metrics[e] # {}
  <2>1. Cardinality({}) = 0
    BY FS_EmptySet
  <2>2. Cardinality(metrics[e]) > 0
    BY DEF BatchesWithinLimits
  <2> QED
    BY <2>1, <2>2
<1>2. Cardinality(metrics[e]) <= AtLeastOne(BufferSize[e])
  BY HandlerAssumption DEF BatchesWithinLimits, AtLeastOne, TypeOK
<1> QED
  BY <1>1, <1>2, FlushWithinLimits DEF TypeOK

LEMMA TakeWithinLimits ==
    ASSUME TypeOK, BatchesWithinLimits, NEW e \in Endpoints, NEW x \in Items,
           x \notin metrics[e], Take(e, x)
    PROVE  BatchesWithinLimits'
<1>1. CASE UNCHANGED <<metrics, currentBufferSize, batch, phase>>
  BY <1>1 DEF BatchesWithinLimits
<1>2. CASE x \in Metrics /\ TakeMetric(e, x)
  <2> DEFINE grown == metrics[e] \cup {x}
             size == currentBufferSize[e] + 1
  <2>1. Cardinality(grown) = size /\ grown \in SUBSET Metrics /\ grown # {}
    <3>1. IsFiniteSet(metrics[e])
      BY StatsAssumption, FS_Subset DEF TypeOK
    <3>2. Cardinality(metrics[e] \cup {x}) = Cardinality(metrics[e]) + 1
      BY <3>1, FS_AddElement
    <3> QED
      BY <1>2, <3>2 DEF BatchesWithinLimits, TypeOK
  <2>2. size <= AtLeastOne(BufferSize[e])
    BY HandlerAssumption DEF BatchesWithinLimits, AtLeastOne, TypeOK
  <2>3. CASE Flush(e, grown)
    BY <2>1, <2>2, <2>3, FlushWithinLimits
  <2>4. CASE /\ size < BufferSize[e]
             /\ metrics' = [metrics EXCEPT ![e] = grown]
             /\ currentBufferSize' = [currentBufferSize EXCEPT ![e] = size]
             /\ UNCHANGED <<statsVars, running>>
    <3>1. /\ \A d \in Endpoints :
                metrics'[d] = IF d = e THEN grown ELSE metrics[d]
          /\ \A d \in Endpoints :
                currentBufferSize'[d] =
                    IF d = e THEN size ELSE currentBufferSize[d]
          /\ UNCHANGED <<batch, phase>>
      BY <2>4 DEF TypeOK, statsVars, goroutineVars
    <3>2. size < AtLeastOne(BufferSize[e])
      BY <2>4, HandlerAssumption DEF AtLeastOne, TypeOK
    <3>3. \A d \in Endpoints : BufferWithinLimit(d)'
      <4> HIDE DEF grown, size
      <4> QED BY <2>1, <3>1, <3>2 DEF BatchesWithinLimits, BufferWithinLimit
    <3>4. \A g \in Emissions : BatchWithinLimit(g)'
      BY <3>1 DEF BatchesWithinLimits, BatchWithinLimit
    <3> QED
      BY <3>3, <3>4
         DEF BatchesWithinLimits, BufferWithinLimit, BatchWithinLimit
  <2> QED
    BY <1>2, <2>3, <2>4 DEF TakeMetric
<1>3. CASE TakeSentinel(e)
  BY <1>1, <1>3, FlushBuffer
     DEF TakeSentinel, statsVars, goroutineVars, listenerVars
<1> QED
  BY <1>1, <1>2, <1>3 DEF Take, TakeZero, statsVars, goroutineVars

LEMMA WithinLimitsStep ==
    TypeOK /\ EachMetricInOnePlace /\ BatchesWithinLimits /\ [Next]_vars
        => BatchesWithinLimits'
<1> SUFFICES ASSUME TypeOK, EachMetricInOnePlace, BatchesWithinLimits,
                    [Next]_vars
             PROVE  BatchesWithinLimits'
  OBVIOUS
<1>1. CASE UNCHANGED <<metrics, currentBufferSize, batch, phase>>
  BY <1>1 DEF BatchesWithinLimits
<1>2. ASSUME NEW e \in CollectorEndpoints, Receive(e)
      PROVE  BatchesWithinLimits'
  <2>1. channel[e] \in Items /\ e \in Endpoints /\ Take(e, channel[e])
    BY <1>2 DEF Receive, TypeOK, Endpoints
  <2>2. channel[e] \notin metrics[e]
    BY <2>1 DEF EachMetricInOnePlace, Queued, Buffered, TypeOK
  <2> QED
    BY <2>1, <2>2, TakeWithinLimits
<1>3. ASSUME NEW x \in Items, Rendezvous(x)
      PROVE  BatchesWithinLimits'
  <2>1. Default \in Endpoints /\ Take(Default, x) /\ x \notin accepted
    BY <1>3 DEF Rendezvous, Fresh, Endpoints
  <2>2. x \notin metrics[Default]
    BY <2>1 DEF EachMetricInOnePlace, Buffered
  <2> QED
    BY <2>1, <2>2, TakeWithinLimits
<1>4. ASSUME NEW e \in Endpoints, TickerFlush(e)
      PROVE  BatchesWithinLimits'
  BY <1>4, FlushBuffer DEF TickerFlush
<1>5. CASE HandlerStep
  BY <1>1, <1>2, <1>3, <1>4, <1>5
     DEF HandlerStep, Send, statsVars, goroutineVars, listenerVars
<1>6. CASE StatsNext /\ UNCHANGED <<channel, listenerVars, accepted>>
  <2>1. StatsTypeOK
    BY DEF TypeOK
  <2> QED
    BY <1>6, <2>1, StatsKeepsBatches DEF BatchesWithinLimits, listenerVars
<1>7. CASE UNCHANGED vars
  BY <1>1, <1>7 DEF vars, statsVars, goroutineVars, listenerVars
<1> QED
  BY <1>5, <1>6, <1>7 DEF Next

\* No emission is empty or above the limit of every listener, and the length a
\* listener keeps is that of its buffer, which never stays at its limit.
THEOREM WithinLimits == Spec => []BatchesWithinLimits
<1>1. Init => BatchesWithinLimits
  <2>1. \A e \in Endpoints : 0 < AtLeastOne(BufferSize[e])
    BY HandlerAssumption DEF AtLeastOne
  <2> QED
    BY <2>1, FS_EmptySet DEF Init, StatsInit, BatchesWithinLimits
<1> QED
  BY <1>1, WithinLimitsStep, TypeCorrect, OnePlace, PTL DEF Spec
-----------------------------------------------------------------------------
(***************************************************************************)
(* The recorder's list of timings: it holds no emission twice, and none    *)
(* leaves it while it is inside the interval.                              *)
(***************************************************************************)
\* Any step but the recorder's push leaves the list alone.
LEMMA OnlyRecordTimingWrites ==
    ASSUME TypeOK, [Next]_vars, ~RecordTiming
    PROVE  UNCHANGED emissionTimes
<1>1. CASE HandlerStep
  BY <1>1, HandlerKeepsStarted
<1>2. CASE StatsNext
  BY <1>2 DEF StatsNext, EmissionStep, EmitReturns, HandTiming, CountMetrics,
              RecorderStep, CountEmission, SnapshotStep, ReadTotal, ReadDropped,
              ReadSent, ReadWindow, Advance
<1>3. CASE UNCHANGED vars
  BY <1>3 DEF vars, statsVars
<1> QED
  BY <1>1, <1>2, <1>3 DEF Next

\* The list after a push: each place of it is a place of the longer list.
LEMMA PushedList ==
    ASSUME TypeOK, RecordTiming
    PROVE  LET longer == Append(emissionTimes, recorder.timing)
               k == FirstKept(longer, recorder.minTime)
           IN  /\ longer \in Seq(Emissions) /\ recorder.minTime \in Int
               /\ Len(longer) = Len(emissionTimes) + 1
               /\ \A i \in 1 .. Len(emissionTimes) : longer[i] = emissionTimes[i]
               /\ longer[Len(emissionTimes) + 1] = recorder.timing
               /\ k \in 1 .. Len(longer) + 1
               /\ \A i \in 1 .. k - 1 : stamp[longer[i]] < recorder.minTime
               /\ Len(emissionTimes') = Len(longer) - k + 1
               /\ \A i \in 1 .. Len(emissionTimes') :
                     emissionTimes'[i] = longer[i + k - 1]
<1> DEFINE longer == Append(emissionTimes, recorder.timing)
<1>1. /\ longer \in Seq(Emissions) /\ recorder.minTime \in Int
      /\ Len(longer) = Len(emissionTimes) + 1
      /\ \A i \in 1 .. Len(emissionTimes) : longer[i] = emissionTimes[i]
      /\ longer[Len(emissionTimes) + 1] = recorder.timing
      /\ stamp \in [Emissions -> Nat]
  BY DEF RecordTiming, TypeOK, StatsTypeOK
<1>2. emissionTimes' = Purge(longer, recorder.minTime)
  BY DEF RecordTiming
<1> HIDE DEF longer
<1> QED
  BY <1>1, <1>2, FirstKeptProperties, PurgeProperties DEF longer

-----------------------------------------------------------------------------
\* The cut-off is never in the future of the clock.
CutOffBehindClock ==
    recorder.step = "locking" => recorder.minTime <= clock - Interval

LEMMA CutOffStep == TypeOK /\ CutOffBehindClock /\ [Next]_vars => CutOffBehindClock'
<1> SUFFICES ASSUME TypeOK, CutOffBehindClock, [Next]_vars
             PROVE  CutOffBehindClock'
  OBVIOUS
<1>1. CASE UNCHANGED <<clock, recorder>>
  BY <1>1 DEF CutOffBehindClock
<1>2. CASE CountEmission
  <2>1. clock' = clock /\ recorder'.minTime = clock - Interval
    BY <1>2 DEF CountEmission, TypeOK, StatsTypeOK
  <2>2. clock - Interval <= clock - Interval
    BY StatsAssumption DEF TypeOK, StatsTypeOK
  <2> QED
    BY <2>1, <2>2 DEF CutOffBehindClock
<1>3. CASE RecordTiming
  <2>1. recorder'.step = "receiving"
    BY <1>3 DEF RecordTiming, TypeOK, StatsTypeOK
  <2> QED
    BY <2>1 DEF CutOffBehindClock
<1>4. CASE Advance
  <2>1. clock' = clock + 1 /\ recorder' = recorder /\ clock \in Nat
        /\ Interval \in Nat /\ recorder.minTime \in Int
    BY <1>4, StatsAssumption DEF Advance, TypeOK, StatsTypeOK
  <2> QED
    BY <2>1 DEF CutOffBehindClock
<1>5. ASSUME NEW g \in Emissions, HandTiming(g) PROVE CutOffBehindClock'
  BY <1>5 DEF HandTiming, CutOffBehindClock, TypeOK, StatsTypeOK
<1>6. CASE HandlerStep
  BY <1>1, <1>6, HandlerKeepsStarted
<1> QED
  BY <1>1, <1>2, <1>3, <1>4, <1>5, <1>6
     DEF Next, StatsNext, EmissionStep, EmitReturns, CountMetrics, RecorderStep,
         SnapshotStep, ReadTotal, ReadDropped, ReadSent, ReadWindow, vars,
         statsVars

\* Any step but the push leaves a timing with the recorder that has it.
LEMMA RecorderHolds ==
    ASSUME TypeOK, [Next]_vars, ~RecordTiming, recorder.step # "receiving"
    PROVE  recorder'.step # "receiving" /\ recorder'.timing = recorder.timing
<1>1. CASE UNCHANGED recorder
  BY <1>1
<1>2. CASE CountEmission
  BY <1>2 DEF CountEmission, TypeOK, StatsTypeOK
<1>3. CASE HandlerStep
  BY <1>1, <1>3, HandlerKeepsStarted
<1> QED
  BY <1>1, <1>2, <1>3
     DEF Next, StatsNext, EmissionStep, EmitReturns, HandTiming, CountMetrics,
         RecorderStep, SnapshotStep, ReadTotal, ReadDropped, ReadSent, ReadWindow,
         Advance, vars, statsVars

\* No push drops a timing that is inside the interval when it happens, the one
\* that is pushed included, in whatever order the timings were recorded.
THEOREM FreshStay == Spec => FreshTimingsStay
<1>1. Init => CutOffBehindClock
  BY DEF Init, StatsInit, CutOffBehindClock
<1>2. TypeOK /\ CutOffBehindClock /\ [Next]_vars =>
         [\A g \in Emissions :
             Recorded(g) /\ stamp[g] >= clock - Interval => Recorded(g)']_vars
  <2> SUFFICES ASSUME TypeOK, CutOffBehindClock, [Next]_vars,
                      NEW g \in Emissions, Recorded(g),
                      stamp[g] >= clock - Interval
               PROVE  Recorded(g)'
    OBVIOUS
  <2>1. CASE ~RecordTiming
    <3>1. CASE InList(g)
      BY <2>1, <3>1, OnlyRecordTimingWrites DEF InList, Recorded
    <3>2. CASE recorder.step # "receiving" /\ recorder.timing = g
      BY <2>1, <3>2, RecorderHolds DEF Recorded
    <3> QED
      BY <3>1, <3>2 DEF Recorded
  <2>2. CASE RecordTiming
    <3> DEFINE longer == Append(emissionTimes, recorder.timing)
               k == FirstKept(longer, recorder.minTime)
    <3>1. Len(emissionTimes) \in Nat
      BY DEF TypeOK, StatsTypeOK
    <3>2. /\ Len(longer) = Len(emissionTimes) + 1
          /\ \A j \in 1 .. Len(emissionTimes) : longer[j] = emissionTimes[j]
          /\ longer[Len(emissionTimes) + 1] = recorder.timing
      BY <2>2, PushedList
    <3>3. PICK i \in 1 .. Len(longer) : longer[i] = g
      <4> HIDE DEF longer
      <4>1. CASE InList(g)
        BY <3>1, <3>2, <4>1 DEF InList
      <4>2. CASE recorder.timing = g
        BY <3>1, <3>2, <4>2
      <4> QED
        BY <4>1, <4>2 DEF Recorded
    <3>4. /\ recorder.minTime <= clock - Interval /\ recorder.minTime \in Int
          /\ stamp[g] \in Nat /\ clock \in Nat /\ Interval \in Nat
      BY <2>2, StatsAssumption DEF RecordTiming, CutOffBehindClock, TypeOK,
                                   StatsTypeOK
    <3>5. /\ k \in 1 .. Len(longer) + 1
          /\ \A j \in 1 .. k - 1 : stamp[longer[j]] < recorder.minTime
          /\ Len(emissionTimes') = Len(longer) - k + 1
          /\ \A j \in 1 .. Len(emissionTimes') :
                emissionTimes'[j] = longer[j + k - 1]
      BY <2>2, PushedList
    <3> HIDE DEF longer, k
    <3>6. Len(longer) \in Nat /\ k <= i
      BY <3>1, <3>2, <3>3, <3>4, <3>5
    <3>7. i - k + 1 \in 1 .. Len(emissionTimes')
      BY <3>3, <3>5, <3>6
    <3>8. emissionTimes'[i - k + 1] = longer[(i - k + 1) + k - 1]
      BY <3>5, <3>7
    <3>9. (i - k + 1) + k - 1 = i
      BY <3>3, <3>5, <3>6
    <3> QED
      BY <3>3, <3>7, <3>8, <3>9 DEF InList, Recorded
  <2> QED
    BY <2>1, <2>2
<1> QED
  BY <1>1, <1>2, CutOffStep, TypeCorrect, PTL DEF Spec, FreshTimingsStay

-----------------------------------------------------------------------------
\* TimingsRecordedOnce with what makes it inductive: the timing the recorder
\* holds was handed over and is not in the list yet.
RecordedOnce ==
    /\ TimingsRecordedOnce
    /\ recorder.step # "receiving" =>
          recorder.timing \in Reported /\ ~InList(recorder.timing)

LEMMA RecordedOnceStep == TypeOK /\ RecordedOnce /\ [Next]_vars => RecordedOnce'
<1> SUFFICES ASSUME TypeOK, RecordedOnce, [Next]_vars
             PROVE  RecordedOnce'
  OBVIOUS
<1>1. ASSUME UNCHANGED emissionTimes, Reported \subseteq Reported',
             recorder'.step # "receiving" =>
                 /\ recorder.step # "receiving"
                 /\ recorder'.timing = recorder.timing
      PROVE  RecordedOnce'
  BY <1>1 DEF RecordedOnce, TimingsRecordedOnce, InList
<1>2. CASE HandlerStep
  <2>1. Reported \subseteq Reported' /\ recorder' = recorder
        /\ UNCHANGED emissionTimes
    BY <1>2, HandlerKeepsStarted DEF Reported
  <2> QED
    BY <1>1, <2>1
<1>3. ASSUME NEW g \in Emissions, HandTiming(g) PROVE RecordedOnce'
  <2>1. /\ UNCHANGED emissionTimes /\ Reported' = Reported \cup {g}
        /\ recorder'.timing = g /\ g \notin Reported
    BY <1>3 DEF HandTiming, Reported, TypeOK, StatsTypeOK
  <2>2. ~InList(g)'
    BY <2>1 DEF RecordedOnce, TimingsRecordedOnce, InList
  <2> QED
    BY <2>1, <2>2 DEF RecordedOnce, TimingsRecordedOnce, InList
<1>4. ASSUME NEW g \in Emissions,
             CountMetrics(g) \/ \E ok \in BOOLEAN : EmitReturns(g, ok)
      PROVE  RecordedOnce'
  <2>1. UNCHANGED <<emissionTimes, recorder>> /\ Reported \subseteq Reported'
    BY <1>4 DEF CountMetrics, EmitReturns, Reported, TypeOK, StatsTypeOK
  <2> QED
    BY <1>1, <2>1
<1>5. CASE CountEmission
  <2>1. /\ UNCHANGED <<emissionTimes, phase>>
        /\ recorder.step = "counting" /\ recorder'.timing = recorder.timing
    BY <1>5 DEF CountEmission, goroutineVars, TypeOK, StatsTypeOK
  <2>2. Reported' = Reported
    BY <2>1 DEF Reported
  <2> QED
    BY <1>1, <2>1, <2>2
<1>6. CASE RecordTiming
  <2> DEFINE longer == Append(emissionTimes, recorder.timing)
             k == FirstKept(longer, recorder.minTime)
             n == Len(emissionTimes)
  <2>1. n \in Nat
    BY DEF TypeOK, StatsTypeOK
  <2>2. /\ Len(longer) = n + 1
        /\ \A i \in 1 .. n : longer[i] = emissionTimes[i]
        /\ longer[n + 1] = recorder.timing
        /\ k \in 1 .. Len(longer) + 1
        /\ Len(emissionTimes') = Len(longer) - k + 1
        /\ \A i \in 1 .. Len(emissionTimes') :
              emissionTimes'[i] = longer[i + k - 1]
    BY <1>6, PushedList
  <2>3. /\ n \in Nat /\ Len(longer) = n + 1
        /\ \A i \in 1 .. n : longer[i] = emissionTimes[i]
        /\ longer[n + 1] = recorder.timing
        /\ k \in 1 .. n + 2 /\ Len(emissionTimes') = n + 1 - k + 1
        /\ \A i \in 1 .. Len(emissionTimes') :
              emissionTimes'[i] = longer[i + k - 1]
    <3> HIDE DEF longer, k, n
    <3> QED BY <2>1, <2>2
  <2>4. /\ recorder.timing \in Reported /\ ~InList(recorder.timing)
        /\ recorder'.step = "receiving" /\ phase' = phase
    BY <1>6 DEF RecordTiming, RecordedOnce, goroutineVars, TypeOK, StatsTypeOK
  <2>5. \A i, j \in 1 .. n + 1 :
           longer[i] \in Reported /\ (longer[i] = longer[j] => i = j)
    <3> HIDE DEF longer, k
    <3>1. \A i \in 1 .. n + 1 : i \in 1 .. n \/ i = n + 1
      BY <2>3
    <3> QED
      BY <2>3, <2>4, <3>1 DEF RecordedOnce, TimingsRecordedOnce, InList
  <2>6. Reported' = Reported
    BY <2>4 DEF Reported
  <2> HIDE DEF longer, k, n
  <2>7. ASSUME NEW i \in 1 .. Len(emissionTimes'),
               NEW j \in 1 .. Len(emissionTimes')
        PROVE  /\ emissionTimes'[i] \in Reported
               /\ emissionTimes'[i] = emissionTimes'[j] => i = j
    <3>1. i + k - 1 \in 1 .. n + 1 /\ j + k - 1 \in 1 .. n + 1
      BY <2>3
    <3>2. /\ emissionTimes'[i] = longer[i + k - 1]
          /\ emissionTimes'[j] = longer[j + k - 1]
      BY <2>3
    <3>3. i + k - 1 = j + k - 1 => i = j
      BY <2>3
    <3> QED
      BY <2>5, <3>1, <3>2, <3>3
  <2> QED
    BY <2>4, <2>6, <2>7 DEF RecordedOnce, TimingsRecordedOnce
<1>7. CASE SnapshotStep \/ Advance \/ UNCHANGED vars
  <2>1. UNCHANGED <<emissionTimes, recorder, phase>>
    BY <1>7 DEF SnapshotStep, ReadTotal, ReadDropped, ReadSent, ReadWindow,
                Advance, vars, statsVars, goroutineVars
  <2>2. Reported' = Reported
    BY <2>1 DEF Reported
  <2> QED
    BY <1>1, <2>1, <2>2
<1> QED
  BY <1>2, <1>3, <1>4, <1>5, <1>6, <1>7
     DEF Next, StatsNext, EmissionStep, RecorderStep

\* The averages over the window count each emission at most once.
THEOREM RecordedOnceAlways == Spec => []TimingsRecordedOnce
<1>1. Init => RecordedOnce
  BY DEF Init, StatsInit, RecordedOnce, TimingsRecordedOnce
<1>2. RecordedOnce => TimingsRecordedOnce
  BY DEF RecordedOnce
<1> QED
  BY <1>1, <1>2, RecordedOnceStep, TypeCorrect, PTL DEF Spec

-----------------------------------------------------------------------------
(***************************************************************************)
(* BaseHandler implements HandlerPromise: every step of the handler is a   *)
(* step of the promise or leaves its variables alone.                      *)
(***************************************************************************)
\* What was proved of the handler, as one invariant.
HandlerInv ==
    /\ TypeOK /\ EachMetricInOnePlace /\ UnusedIsEmpty
    /\ CountersExact /\ BatchesWithinLimits

LEMMA HandlerInvariant == Spec => []HandlerInv
<1>1. Init => UnusedIsEmpty
  BY DEF Init, StatsInit, UnusedIsEmpty
<1>2. Spec => []UnusedIsEmpty
  BY <1>1, OnePlaceStep, TypeCorrect, OnePlace, PTL DEF Spec
<1> QED
  BY <1>2, TypeCorrect, OnePlace, Counters, WithinLimits, PTL DEF HandlerInv

Pending == Queued \cup InBuffers \cup InFlight

\* Where the metrics are, said once for each buffer and batch.
LEMMA Places ==
    ASSUME TypeOK
    PROVE  /\ Buffered = InBuffers \cup LeftBehind
           /\ Emitted = InFlight \cup Outcome(TRUE) \cup Outcome(FALSE)
  BY DEF Buffered, InBuffers, LeftBehind, Emitted, InFlight, Outcome, TypeOK,
         StatsTypeOK

\* A metric is pending, sent, dropped or lost, and only one of these.
LEMMA PlacesApart ==
    ASSUME HandlerInv
    PROVE  /\ accepted = Pending \cup Outcome(TRUE) \cup Outcome(FALSE)
                            \cup LeftBehind
           /\ accepted \subseteq Metrics
<1> QED
  BY Places DEF HandlerInv, EachMetricInOnePlace, Pending, TypeOK

-----------------------------------------------------------------------------
\* Nothing the listeners do is a result.
LEMMA HandlerKeepsOutcome ==
    ASSUME TypeOK, HandlerStep
    PROVE  /\ Outcome(TRUE)' = Outcome(TRUE)
           /\ Outcome(FALSE)' = Outcome(FALSE)
           /\ UNCHANGED <<metricsSent, metricsDropped>>
<1>1. /\ \A g \in Emissions : phase'[g] = "counted" <=> phase[g] = "counted"
      /\ \A g \in Emissions : phase[g] = "counted" => batch'[g] = batch[g]
      /\ result' = result /\ UNCHANGED <<metricsSent, metricsDropped>>
  BY HandlerKeepsStarted DEF counterVars
<1> QED
  BY <1>1 DEF Outcome

LEMMA FlushMapping ==
    ASSUME TypeOK, UnusedIsEmpty, NEW e \in Endpoints, running[e],
           NEW new \in SUBSET Metrics, EachMetricInOnePlace,
           Flush(e, metrics[e] \cup new)
    PROVE  /\ (InBuffers \cup InFlight)' = InBuffers \cup InFlight \cup new
           /\ LeftBehind' = LeftBehind
<1>1. PICK g \in Emissions : StartEmission(g, metrics[e] \cup new)
  BY DEF Flush
<1>2. /\ running' = running /\ batch[g] = {}
      /\ \A d \in Endpoints : metrics'[d] = IF d = e THEN {} ELSE metrics[d]
      /\ \A h \in Emissions :
            batch'[h] = IF h = g THEN metrics[e] \cup new ELSE batch[h]
      /\ \A h \in Emissions :
            phase'[h] # "counted" <=> phase[h] # "counted"
      /\ phase[g] # "counted"
  BY <1>1 DEF Flush, StartEmission, NextUnused, UnusedIsEmpty, TypeOK,
              StatsTypeOK
<1>3. InBuffers' = InBuffers \ metrics[e]
  BY <1>2 DEF InBuffers, EachMetricInOnePlace
<1>4. InFlight' = InFlight \cup metrics[e] \cup new
  BY <1>2 DEF InFlight
<1>5. LeftBehind' = LeftBehind
  BY <1>2 DEF LeftBehind
<1>6. metrics[e] \subseteq InBuffers
  BY DEF InBuffers
<1> QED
  BY <1>3, <1>4, <1>5, <1>6

\* A listener keeps what it takes pending, but for a zero metric, which leaves
\* its buffer behind.
LEMMA TakeMapping ==
    ASSUME TypeOK, UnusedIsEmpty, EachMetricInOnePlace,
           NEW e \in Endpoints, NEW x \in Items, Take(e, x)
    PROVE  \/ /\ (InBuffers \cup InFlight)'
                    = InBuffers \cup InFlight \cup ({x} \cap Metrics)
              /\ LeftBehind' = LeftBehind
           \/ /\ {x} \cap Metrics = {}
              /\ InBuffers' = InBuffers \ metrics[e]
              /\ InFlight' = InFlight
              /\ LeftBehind' = LeftBehind \cup metrics[e]
<1> DEFINE new == {x} \cap Metrics
<1>1. /\ x = ZeroMetric \/ x = Sentinel => new = {}
      /\ running[e]
  BY HandlerAssumption DEF Take
<1>2. CASE UNCHANGED <<metrics, batch, phase, running>> /\ new = {}
  BY <1>2 DEF InBuffers, InFlight, LeftBehind
<1>3. CASE Flush(e, metrics[e] \cup new)
  <2>1. new \in SUBSET Metrics
    OBVIOUS
  <2> HIDE DEF new
  <2>2. /\ (InBuffers \cup InFlight)' = InBuffers \cup InFlight \cup new
        /\ LeftBehind' = LeftBehind
    BY <1>1, <1>3, <2>1, FlushMapping
  <2> QED
    BY <2>2 DEF new
<1>4. CASE x = ZeroMetric /\ TakeZero(e)
  <2>1. /\ \A d \in Endpoints : running'[d] = IF d = e THEN FALSE ELSE running[d]
        /\ UNCHANGED <<metrics, batch, phase>>
    BY <1>4 DEF TakeZero, TypeOK, statsVars, goroutineVars
  <2>2. InBuffers' = InBuffers \ metrics[e]
    BY <2>1 DEF InBuffers, EachMetricInOnePlace
  <2>3. LeftBehind' = LeftBehind \cup metrics[e]
    BY <2>1, <1>1 DEF LeftBehind
  <2>4. InFlight' = InFlight
    BY <2>1 DEF InFlight
  <2> QED
    BY <1>1, <1>4, <2>2, <2>3, <2>4
<1>5. CASE x = Sentinel /\ TakeSentinel(e)
  <2>1. metrics[e] \cup new = metrics[e]
    BY <1>1, <1>5
  <2> QED
    BY <1>1, <1>2, <1>3, <1>5, <2>1
       DEF TakeSentinel, statsVars, goroutineVars, listenerVars
<1>6. CASE x \in Metrics /\ TakeMetric(e, x)
  <2>1. CASE /\ metrics' = [metrics EXCEPT ![e] = metrics[e] \cup new]
             /\ UNCHANGED <<batch, phase, running>>
    <3>1. \A d \in Endpoints :
             metrics'[d] = IF d = e THEN metrics[e] \cup new ELSE metrics[d]
      BY <2>1 DEF TypeOK
    <3>2. /\ InBuffers' = InBuffers \cup new /\ LeftBehind' = LeftBehind
          /\ InFlight' = InFlight
      BY <1>1, <2>1, <3>1 DEF InBuffers, LeftBehind, InFlight
    <3> QED
      BY <3>2
  <2>2. new = {x}
    BY <1>6
  <2> QED
    BY <1>3, <1>6, <2>1, <2>2 DEF TakeMetric, statsVars, goroutineVars
<1> QED
  BY <1>4, <1>5, <1>6 DEF Take
-----------------------------------------------------------------------------
(***************************************************************************)
(* The steps of the promise, said of the handler's state.                  *)
(***************************************************************************)
\* A new metric may become pending.
LEMMA AcceptMapping ==
    ASSUME HandlerInv, HandlerStep, NEW x \in Items,
           x \notin accepted, Pending' = Pending \cup ({x} \cap Metrics),
           LeftBehind' = LeftBehind
    PROVE  [Promise!PromiseNext]_(Promise!promiseVars)
<1>1. /\ Outcome(TRUE)' = Outcome(TRUE) /\ Outcome(FALSE)' = Outcome(FALSE)
      /\ UNCHANGED <<metricsSent, metricsDropped>>
  BY HandlerKeepsOutcome DEF HandlerInv
<1>2. CASE x \in Metrics
  <2>1. x \notin Pending \cup Outcome(TRUE) \cup Outcome(FALSE) \cup LeftBehind
    BY PlacesApart
  <2>2. Promise!PromiseAccept({x})
    BY <1>1, <1>2, <2>1 DEF Promise!PromiseAccept, Pending
  <2>3. {x} \in (SUBSET Metrics) \ {{}}
    BY <1>2
  <2> QED
    BY <2>2, <2>3 DEF Promise!PromiseNext
<1>3. CASE x \notin Metrics
  <2>1. Pending' = Pending
    BY <1>3
  <2> QED
    BY <1>1, <2>1 DEF Promise!promiseVars, Pending
<1> QED
  BY <1>2, <1>3

\* A listener's buffer may be left behind.
LEMMA LostMapping ==
    ASSUME HandlerInv, HandlerStep, NEW e \in Endpoints, running[e],
           Pending' = Pending \ metrics[e],
           LeftBehind' = LeftBehind \cup metrics[e]
    PROVE  [Promise!PromiseNext]_(Promise!promiseVars)
<1>1. /\ Outcome(TRUE)' = Outcome(TRUE) /\ Outcome(FALSE)' = Outcome(FALSE)
      /\ UNCHANGED <<metricsSent, metricsDropped>>
  BY HandlerKeepsOutcome DEF HandlerInv
<1>2. metrics[e] \subseteq Pending /\ metrics[e] \in SUBSET Metrics
  BY DEF Pending, InBuffers, HandlerInv, TypeOK
<1>3. CASE metrics[e] # {}
  <2>1. Promise!PromiseLost(metrics[e])
    BY <1>1, <1>2 DEF Promise!PromiseLost, Pending
  <2> QED
    BY <1>2, <1>3, <2>1 DEF Promise!PromiseNext
<1>4. CASE metrics[e] = {}
  <2>1. Pending' = Pending /\ LeftBehind' = LeftBehind
    BY <1>4
  <2> QED
    BY <1>1, <2>1 DEF Promise!promiseVars, Pending
<1> QED
  BY <1>3, <1>4

LEMMA HandlerStepMapping ==
    HandlerInv /\ HandlerStep => [Promise!PromiseNext]_(Promise!promiseVars)
<1> SUFFICES ASSUME HandlerInv, HandlerStep
             PROVE  [Promise!PromiseNext]_(Promise!promiseVars)
  OBVIOUS
<1>0. TypeOK /\ UnusedIsEmpty /\ EachMetricInOnePlace
  BY DEF HandlerInv
<1>1. ASSUME NEW e \in CollectorEndpoints, NEW x \in Items, Send(e, x)
      PROVE  [Promise!PromiseNext]_(Promise!promiseVars)
  <2>1. /\ UNCHANGED <<metrics, batch, phase, running>>
        /\ \A d \in CollectorEndpoints :
              channel'[d] = IF d = e THEN x ELSE channel[d]
        /\ channel[e] = Empty /\ x \notin accepted
    BY <1>0, <1>1 DEF Send, Fresh, TypeOK, statsVars, goroutineVars, listenerVars
  <2>2. Queued' = Queued \cup ({x} \cap Metrics)
    BY <2>1, HandlerAssumption DEF Queued
  <2>3. Pending' = Pending \cup ({x} \cap Metrics) /\ LeftBehind' = LeftBehind
    BY <2>1, <2>2 DEF Pending, InBuffers, InFlight, LeftBehind
  <2> QED
    BY <2>1, <2>3, AcceptMapping
<1>2. ASSUME NEW e \in CollectorEndpoints, Receive(e)
      PROVE  [Promise!PromiseNext]_(Promise!promiseVars)
  <2> DEFINE x == channel[e]
  <2>1. /\ e \in Endpoints /\ x \in Items /\ Take(e, x) /\ running[e]
        /\ \A d \in CollectorEndpoints :
              channel'[d] = IF d = e THEN Empty ELSE channel[d]
    BY <1>0, <1>2 DEF Receive, TypeOK, Endpoints, Take
  <2>2. Queued' = Queued \ ({x} \cap Metrics)
    BY <1>0, <2>1, HandlerAssumption DEF EachMetricInOnePlace, Queued
  <2>3. {x} \cap Metrics \subseteq Queued
    BY DEF Queued
  <2>4. Queued \cap metrics[e] = {} /\ InFlight \cap metrics[e] = {}
    <3>1. metrics[e] \subseteq Buffered
      BY <2>1 DEF Buffered
    <3>2. Queued \cap Buffered = {} /\ Buffered \cap Emitted = {}
      BY <1>0 DEF EachMetricInOnePlace
    <3>3. InFlight \subseteq Emitted
      BY <1>0, Places
    <3> QED
      BY <3>1, <3>2, <3>3
  <2> HIDE DEF x
  <2>5. CASE /\ (InBuffers \cup InFlight)'
                   = InBuffers \cup InFlight \cup ({x} \cap Metrics)
             /\ LeftBehind' = LeftBehind
    <3>1. Pending' = Pending
      BY <2>2, <2>3, <2>5 DEF Pending
    <3>2. /\ Outcome(TRUE)' = Outcome(TRUE)
          /\ Outcome(FALSE)' = Outcome(FALSE)
          /\ UNCHANGED <<metricsSent, metricsDropped>>
      BY <1>0, HandlerKeepsOutcome
    <3> QED
      BY <2>5, <3>1, <3>2 DEF Promise!promiseVars, Pending
  <2>6. CASE /\ {x} \cap Metrics = {}
             /\ InBuffers' = InBuffers \ metrics[e]
             /\ InFlight' = InFlight
             /\ LeftBehind' = LeftBehind \cup metrics[e]
    <3>1. Pending' = Pending \ metrics[e]
      BY <2>2, <2>4, <2>6 DEF Pending
    <3> QED
      BY <2>1, <2>6, <3>1, LostMapping
  <2> QED
    BY <1>0, <2>1, <2>5, <2>6, TakeMapping
<1>3. ASSUME NEW x \in Items, Rendezvous(x)
      PROVE  [Promise!PromiseNext]_(Promise!promiseVars)
  <2>1. /\ Default \in Endpoints /\ Take(Default, x) /\ running[Default]
        /\ x \notin accepted /\ UNCHANGED channel
    BY <1>3 DEF Rendezvous, Fresh, Endpoints, Take
  <2>2. Queued' = Queued
    BY <2>1 DEF Queued
  <2>3. Queued \cap metrics[Default] = {} /\ InFlight \cap metrics[Default] = {}
    BY <1>0, <2>1, Places DEF EachMetricInOnePlace, Buffered
  <2>4. CASE /\ (InBuffers \cup InFlight)'
                   = InBuffers \cup InFlight \cup ({x} \cap Metrics)
             /\ LeftBehind' = LeftBehind
    <3>1. Pending' = Pending \cup ({x} \cap Metrics)
      BY <2>2, <2>4 DEF Pending
    <3> QED
      BY <2>1, <2>4, <3>1, AcceptMapping
  <2>5. CASE /\ InBuffers' = InBuffers \ metrics[Default]
             /\ InFlight' = InFlight
             /\ LeftBehind' = LeftBehind \cup metrics[Default]
    <3>1. Pending' = Pending \ metrics[Default]
      BY <2>2, <2>3, <2>5 DEF Pending
    <3> QED
      BY <2>1, <2>5, <3>1, LostMapping
  <2> QED
    BY <1>0, <2>1, <2>4, <2>5, TakeMapping
<1>4. ASSUME NEW e \in Endpoints, TickerFlush(e)
      PROVE  [Promise!PromiseNext]_(Promise!promiseVars)
  <2> DEFINE new == {}
  <2>1. /\ Flush(e, metrics[e] \cup new) /\ running[e] /\ UNCHANGED channel
        /\ new \in SUBSET Metrics
    BY <1>4 DEF TickerFlush
  <2> HIDE DEF new
  <2>2. /\ (InBuffers \cup InFlight)' = InBuffers \cup InFlight \cup new
        /\ LeftBehind' = LeftBehind
    BY <1>0, <2>1, FlushMapping
  <2>3. Pending' = Pending
    BY <2>1, <2>2 DEF Pending, Queued, new
  <2>4. /\ Outcome(TRUE)' = Outcome(TRUE)
        /\ Outcome(FALSE)' = Outcome(FALSE)
        /\ UNCHANGED <<metricsSent, metricsDropped>>
    BY <1>0, HandlerKeepsOutcome
  <2> QED
    BY <2>2, <2>3, <2>4 DEF Promise!promiseVars, Pending
<1> QED
  BY <1>1, <1>2, <1>3, <1>4 DEF HandlerStep

LEMMA SameCardinality == \A S : Promise!Cardinality(S) = Cardinality(S)
  BY Zenon DEF Promise!Cardinality, Cardinality

LEMMA CountMapping ==
    ASSUME HandlerInv, NEW g \in Emissions, CountMetrics(g),
           UNCHANGED <<channel, listenerVars, accepted>>
    PROVE  Promise!PromiseNext
<1>0. TypeOK /\ EachMetricInOnePlace /\ BatchesWithinLimits
  BY DEF HandlerInv
<1>1. /\ phase[g] = "handed"
      /\ \A h \in Emissions :
            phase'[h] = IF h = g THEN "counted" ELSE phase[h]
      /\ batch' = batch /\ result' = result
      /\ UNCHANGED <<channel, metrics, running>>
  BY <1>0 DEF CountMetrics, TypeOK, StatsTypeOK, listenerVars
<1>2. batch[g] \in (SUBSET Metrics) \ {{}} /\ batch[g] \subseteq InFlight
  BY <1>0, <1>1 DEF BatchesWithinLimits, TypeOK, StatsTypeOK, InFlight
<1>3. /\ Queued' = Queued /\ InBuffers' = InBuffers /\ LeftBehind' = LeftBehind
  BY <1>1 DEF Queued, InBuffers, LeftBehind
<1>4. InFlight' = InFlight \ batch[g]
  BY <1>0, <1>1 DEF InFlight, EachMetricInOnePlace
<1>5. Queued \cap batch[g] = {} /\ InBuffers \cap batch[g] = {}
  BY <1>0, <1>2, Places DEF EachMetricInOnePlace
<1>6. Pending' = Pending \ batch[g] /\ batch[g] \subseteq Pending
  BY <1>2, <1>3, <1>4, <1>5 DEF Pending
<1>7. ASSUME NEW ok \in BOOLEAN
      PROVE  Outcome(ok)' = IF result[g] = ok
                            THEN Outcome(ok) \cup batch[g] ELSE Outcome(ok)
  BY <1>1 DEF Outcome
<1>8. CASE result[g] = TRUE
  <2>1. Promise!PromiseSent(batch[g])
    BY <1>3, <1>6, <1>7, <1>8, SameCardinality
       DEF Promise!PromiseSent, CountMetrics, Pending
  <2> QED
    BY <1>2, <2>1 DEF Promise!PromiseNext
<1>9. CASE result[g] = FALSE
  <2>1. Promise!PromiseDropped(batch[g])
    BY <1>3, <1>6, <1>7, <1>9, SameCardinality
       DEF Promise!PromiseDropped, CountMetrics, Pending
  <2> QED
    BY <1>2, <2>1 DEF Promise!PromiseNext
<1> QED
  BY <1>0, <1>8, <1>9 DEF TypeOK, StatsTypeOK

LEMMA StepMapping ==
    HandlerInv /\ [Next]_vars => [Promise!PromiseNext]_(Promise!promiseVars)
<1> SUFFICES ASSUME HandlerInv, [Next]_vars
             PROVE  [Promise!PromiseNext]_(Promise!promiseVars)
  OBVIOUS
<1>1. ASSUME /\ UNCHANGED <<batch, result, metricsSent, metricsDropped,
                            channel, metrics, running>>
             /\ \A g \in Emissions :
                   phase'[g] = "counted" <=> phase[g] = "counted"
      PROVE  UNCHANGED Promise!promiseVars
  BY <1>1 DEF Promise!promiseVars, Queued, InBuffers, InFlight, LeftBehind,
              Outcome
<1>2. ASSUME NEW g \in Emissions,
             HandTiming(g) \/ \E ok \in BOOLEAN : EmitReturns(g, ok),
             UNCHANGED <<channel, listenerVars, accepted>>
      PROVE  UNCHANGED Promise!promiseVars
  <2>1. CASE HandTiming(g)
    BY <1>1, <1>2, <2>1 DEF HandTiming, counterVars, listenerVars, HandlerInv,
                            TypeOK, StatsTypeOK
  <2>2. ASSUME NEW ok \in BOOLEAN, EmitReturns(g, ok)
        PROVE  UNCHANGED Promise!promiseVars
    <3>1. \A h \in Emissions \ {g} : result'[h] = result[h]
      BY <2>2 DEF EmitReturns, HandlerInv, TypeOK, StatsTypeOK
    <3>2. /\ \A h \in Emissions : phase'[h] = "counted" <=> phase[h] = "counted"
          /\ phase[g] # "counted" /\ batch' = batch
          /\ UNCHANGED <<metricsSent, metricsDropped, channel, metrics, running>>
      BY <1>2, <2>2 DEF EmitReturns, counterVars, listenerVars, HandlerInv,
                        TypeOK, StatsTypeOK
    <3> QED
      BY <3>1, <3>2 DEF Promise!promiseVars, Queued, InBuffers, InFlight,
                        LeftBehind, Outcome
  <2> QED
    BY <1>2, <2>1, <2>2
<1>3. CASE /\ RecorderStep \/ SnapshotStep \/ Advance
           /\ UNCHANGED <<channel, listenerVars, accepted>>
  BY <1>1, <1>3
     DEF RecorderStep, CountEmission, RecordTiming, SnapshotStep, ReadTotal,
         ReadDropped, ReadSent, ReadWindow, Advance, goroutineVars, counterVars,
         listenerVars
<1>4. CASE UNCHANGED vars
  BY <1>1, <1>4 DEF vars, statsVars, goroutineVars, counterVars, listenerVars
<1> QED
  BY <1>2, <1>3, <1>4, HandlerStepMapping, CountMapping
     DEF Next, StatsNext, EmissionStep

\* The handler, with its channels, buffers, goroutines and lock, implements
\* HandlerPromise: each metric it takes is reported once, sent or dropped, and
\* added to the right counter, or is in the buffer of a stopped listener.
THEOREM HandlerKeepsPromise == Spec => PromiseKept
<1>1. Init => Promise!PromiseInit
  BY HandlerAssumption
     DEF Init, StatsInit, Promise!PromiseInit, Queued, InBuffers, InFlight,
         LeftBehind, Outcome
<1> QED
  BY <1>1, StepMapping, HandlerInvariant, PTL
     DEF Spec, PromiseKept, Promise!PromiseSpec
=============================================================================
