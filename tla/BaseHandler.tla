---------------------------- MODULE BaseHandler ----------------------------
(***************************************************************************)
(* One running handler.  BaseHandler.run starts a listener goroutine for   *)
(* the handler's own channel and one for each collector endpoint; each     *)
(* listener (listenForMetrics) buffers what it receives and hands full or  *)
(* old buffers to a new emission goroutine.  What becomes of an emission   *)
(* is EmissionStats.                                                       *)
(*                                                                         *)
(* Actors: the senders (one goroutine per collector, and whoever writes    *)
(* to the handler's own channel), the listeners, their tickers, and those  *)
(* of EmissionStats.                                                       *)
(***************************************************************************)
EXTENDS EmissionStats

CONSTANTS
    CollectorEndpoints, \* names of the collectors the handler accepts
    Default,            \* the listener of the handler's own channel
    BufferSize,         \* CollectorEnd.BufferSize of each listener
    Sentinel,           \* the metric that asks for a flush
    ZeroMetric,         \* the zero metric.Metric{}
    Empty               \* no metric in the one place of an endpoint's channel

Endpoints == CollectorEndpoints \cup {Default}

ASSUME HandlerAssumption ==
    /\ IsFiniteSet(CollectorEndpoints)
    /\ Default \notin CollectorEndpoints
    /\ BufferSize \in [Endpoints -> Nat]
    /\ Sentinel \notin Metrics
    /\ ZeroMetric \notin Metrics \cup {Sentinel}
    /\ Empty \notin Metrics \cup {Sentinel, ZeroMetric}

Items == Metrics \cup {Sentinel, ZeroMetric}

VARIABLES
    channel,            \* the content of each collector endpoint's channel
    metrics,            \* metrics[e]: the buffer of listener e
    currentBufferSize,  \* its separately kept length
    running,            \* running[e]: the listener is in its loop
    accepted            \* history: the metrics some channel has taken

listenerVars == <<metrics, currentBufferSize, running>>
vars == <<statsVars, channel, listenerVars, accepted>>

TypeOK ==
    /\ StatsTypeOK
    /\ channel \in [CollectorEndpoints -> Items \cup {Empty}]
    /\ metrics \in [Endpoints -> SUBSET Metrics]
    /\ currentBufferSize \in [Endpoints -> Nat]
    /\ running \in [Endpoints -> BOOLEAN]
    /\ accepted \subseteq Metrics

Init ==
    /\ StatsInit
    /\ channel = [e \in CollectorEndpoints |-> Empty]
    /\ metrics = [e \in Endpoints |-> {}]
    /\ currentBufferSize = [e \in Endpoints |-> 0]
    /\ running = [e \in Endpoints |-> TRUE]
    /\ accepted = {}

(***************************************************************************)
(* The senders.                                                            *)
(***************************************************************************)
\* A metric goes to one channel once; sentinels and zero metrics may repeat.
Fresh(x) == x \notin accepted

Accept(x) == accepted' = accepted \cup ({x} \cap Metrics)

\* The channel of a collector endpoint has room for one metric.
Send(e, x) ==
    /\ channel[e] = Empty
    /\ Fresh(x)
    /\ channel' = [channel EXCEPT ![e] = x]
    /\ Accept(x)
    /\ UNCHANGED <<statsVars, listenerVars>>

(***************************************************************************)
(* The listener: one case for each branch of its select.                   *)
(***************************************************************************)
\* Mutant of Flush: the listener goes on with the buffer it handed over.
FlushKeepingBuffer(e, full) ==
    /\ \E g \in Emissions : StartEmission(g, full)
    /\ metrics' = [metrics EXCEPT ![e] = full]
    /\ currentBufferSize' = [currentBufferSize EXCEPT ![e] = 0]
    /\ UNCHANGED running

\* flushFunction: the buffer given to a new goroutine, and a fresh one made.
Flush(e, full) ==
    /\ \E g \in Emissions : StartEmission(g, full)
    /\ metrics' = [metrics EXCEPT ![e] = {}]
    /\ currentBufferSize' = [currentBufferSize EXCEPT ![e] = 0]
    /\ UNCHANGED running

TakeZero(e) ==
    /\ running' = [running EXCEPT ![e] = FALSE]
    /\ UNCHANGED <<statsVars, metrics, currentBufferSize>>

\* Mutant of TakeSentinel: the buffer is emptied and nothing emitted.
TakeSentinelDiscarding(e) ==
    /\ metrics' = [metrics EXCEPT ![e] = {}]
    /\ currentBufferSize' = [currentBufferSize EXCEPT ![e] = 0]
    /\ UNCHANGED <<statsVars, running>>

\* Mutant of TakeSentinel: without its `continue' the sentinel is buffered.
TakeSentinelAsMetric(e) ==
    /\ metrics' = [metrics EXCEPT ![e] = @ \cup {Sentinel}]
    /\ currentBufferSize' = [currentBufferSize EXCEPT ![e] = @ + 1]
    /\ UNCHANGED <<statsVars, running>>

TakeSentinel(e) ==
    \/ currentBufferSize[e] > 0 /\ Flush(e, metrics[e])
    \/ currentBufferSize[e] = 0 /\ UNCHANGED <<statsVars, listenerVars>>

\* Mutant of TakeMetric: > for >=.
TakeMetricLate(e, m) ==
    LET grown == metrics[e] \cup {m}
        size == currentBufferSize[e] + 1
    IN \/ size > BufferSize[e] /\ Flush(e, grown)
       \/ /\ size <= BufferSize[e]
          /\ metrics' = [metrics EXCEPT ![e] = grown]
          /\ currentBufferSize' = [currentBufferSize EXCEPT ![e] = size]
          /\ UNCHANGED <<statsVars, running>>

TakeMetric(e, m) ==
    LET grown == metrics[e] \cup {m}
        size == currentBufferSize[e] + 1
    IN \/ size >= BufferSize[e] /\ Flush(e, grown)
       \/ /\ size < BufferSize[e]
          /\ metrics' = [metrics EXCEPT ![e] = grown]
          /\ currentBufferSize' = [currentBufferSize EXCEPT ![e] = size]
          /\ UNCHANGED <<statsVars, running>>

Take(e, x) ==
    /\ running[e]
    /\ \/ x = ZeroMetric /\ TakeZero(e)
       \/ x = Sentinel /\ TakeSentinel(e)
       \/ x \in Metrics /\ TakeMetric(e, x)

\* A collector endpoint's listener receives from its channel.
Receive(e) ==
    /\ channel[e] # Empty
    /\ Take(e, channel[e])
    /\ channel' = [channel EXCEPT ![e] = Empty]
    /\ UNCHANGED accepted

\* The handler's own channel is unbuffered: sender and listener step together.
Rendezvous(x) ==
    /\ Fresh(x)
    /\ Take(Default, x)
    /\ Accept(x)
    /\ UNCHANGED channel

\* The flusher; a tick that finds an empty buffer does nothing.
TickerFlush(e) ==
    /\ running[e]
    /\ currentBufferSize[e] > 0
    /\ Flush(e, metrics[e])
    /\ UNCHANGED <<channel, accepted>>

HandlerStep ==
    \/ \E e \in CollectorEndpoints, x \in Items : Send(e, x)
    \/ \E e \in CollectorEndpoints : Receive(e)
    \/ \E x \in Items : Rendezvous(x)
    \/ \E e \in Endpoints : TickerFlush(e)

Next ==
    \/ HandlerStep
    \/ StatsNext /\ UNCHANGED <<channel, listenerVars, accepted>>

Spec == Init /\ [][Next]_vars

(***************************************************************************)
(* Fairness.  A select that finds a case ready again and again takes it,   *)
(* and the ticker fires for ever, so each listener gets weak fairness on   *)
(* both its cases; the senders, the emit functions, the requests for the   *)
(* internal metrics and the clock owe nothing.  The recorder's loop, the   *)
(* sends on its channel (served in the order they queued) and the reads    *)
(* under the lock go on; RecordTiming must get a lock that is free again   *)
(* and again.                                                              *)
(***************************************************************************)
Framed(A) == A /\ UNCHANGED <<channel, listenerVars, accepted>>

Fairness ==
    /\ \A e \in CollectorEndpoints : WF_vars(Receive(e))
    /\ \A e \in Endpoints : WF_vars(TickerFlush(e))
    /\ \A g \in Emissions : /\ SF_vars(Framed(HandTiming(g)))
                            /\ WF_vars(Framed(CountMetrics(g)))
    /\ WF_vars(Framed(CountEmission))
    /\ SF_vars(Framed(RecordTiming))
    /\ WF_vars(Framed(ReadDropped \/ ReadSent \/ ReadWindow))

FairSpec == Spec /\ Fairness
(***************************************************************************)
(* Properties.                                                             *)
(***************************************************************************)
Queued == {channel[e] : e \in CollectorEndpoints} \cap Metrics
Buffered == UNION {metrics[e] : e \in Endpoints}
Emitted == UNION {batch[g] : g \in Emissions}

\* Every metric a channel has taken is in exactly one place: the channel of one
\* endpoint, the buffer of one listener, or the batch of one emission.  This is
\* what the single select loop and the new slice of flushFunction are for (that
\* an emission's array is left alone is MetricSlices).
EachMetricInOnePlace ==
    /\ accepted = Queued \cup Buffered \cup Emitted
    /\ Queued \cap Buffered = {} /\ Queued \cap Emitted = {}
    /\ Buffered \cap Emitted = {}
    /\ \A d, e \in CollectorEndpoints :
          channel[d] \in Metrics /\ channel[d] = channel[e] => d = e
    /\ \A d, e \in Endpoints : d # e => metrics[d] \cap metrics[e] = {}
    /\ \A g, h \in Emissions : g # h => batch[g] \cap batch[h] = {}

\* A listener's separately kept length is that of its buffer and stays under
\* its limit, and no emission is empty or larger than the limit of a listener
\* (a limit of 0 works as 1: a listener flushes after it has appended).
AtLeastOne(n) == IF n = 0 THEN 1 ELSE n
BatchesWithinLimits ==
    /\ \A e \in Endpoints :
          /\ currentBufferSize[e] = Cardinality(metrics[e])
          /\ currentBufferSize[e] < AtLeastOne(BufferSize[e])
    /\ \A g \in Emissions :
          phase[g] # "unused" =>
              /\ batch[g] # {}
              /\ \E e \in Endpoints :
                    Cardinality(batch[g]) <= AtLeastOne(BufferSize[e])

\* metricsSent and metricsDropped, which goroutines of different emissions
\* add to, are the numbers of metrics in the emissions that were counted,
\* each by its own result.
Outcome(ok) ==
    UNION {batch[g] : g \in {h \in Emissions :
                                phase[h] = "counted" /\ result[h] = ok}}
CountersExact ==
    /\ metricsSent = Cardinality(Outcome(TRUE))
    /\ metricsDropped = Cardinality(Outcome(FALSE))

\* Emissions are counted on two sides of a channel: the recorder adds to
\* totalEmissions, the emission's goroutine to metricsSent or metricsDropped.
\* The second may be ahead of the first by one emission and never by two.
Reported == {g \in Emissions : phase[g] \in {"handed", "counted"}}
RecorderLagsByOne ==
    /\ totalEmissions <= Cardinality(Reported)
    /\ Cardinality({g \in Emissions : phase[g] = "counted"})
          <= totalEmissions + 1

\* The internal metrics a request gets never show more emissions in the window
\* than emissions in total: recordEmissions counts before it pushes, and the
\* request holds the lock from its first read to its last.
SnapshotConsistent ==
    snapshot.step = "done" => snapshot.inWindow <= snapshot.total

\* The list of timings holds each emission once, and only emissions whose
\* timing was handed over.
TimingsRecordedOnce ==
    \A i, j \in 1 .. Len(emissionTimes) :
        /\ emissionTimes[i] \in Reported
        /\ emissionTimes[i] = emissionTimes[j] => i = j

\* The purge only drops timings older than the interval: an emission inside the
\* window whose timing the recorder has or has pushed stays visible to
\* InternalMetrics, in whatever order the timings came.
InList(g) == \E i \in 1 .. Len(emissionTimes) : emissionTimes[i] = g
Recorded(g) == InList(g) \/ (recorder.step # "receiving" /\ recorder.timing = g)
FreshTimingsStay ==
    [][\A g \in Emissions :
          Recorded(g) /\ stamp[g] >= clock - Interval => Recorded(g)']_vars

\* A metric that a listener can take is handed to an emission although no emit
\* function ever returns, unless that listener is stopped: a slow or dead
\* destination does not hold up the listener loop.
SlowEmissionsHoldNothingUp ==
    \A m \in Metrics, e \in Endpoints :
        (e \in CollectorEndpoints /\ channel[e] = m) \/ m \in metrics[e]
            ~> (m \in Emitted \/ ~running[e])

\* An emission whose emit function came back is eventually counted, although
\* it must get past the single recorder and the recorder past the lock.
ReturnedIsCounted ==
    \A g \in Emissions : phase[g] = "timed" ~> phase[g] = "counted"

\* The handler implements HandlerPromise: a metric is pending in a channel, in
\* the buffer of a running listener and in an emission not yet counted.
InBuffers == UNION {metrics[e] : e \in {d \in Endpoints : running[d]}}
InFlight == UNION {batch[g] : g \in {h \in Emissions : phase[h] # "counted"}}
LeftBehind == UNION {metrics[e] : e \in {d \in Endpoints : ~running[d]}}

Promise == INSTANCE HandlerPromise WITH
    pending <- Queued \cup InBuffers \cup InFlight,
    sent <- Outcome(TRUE),
    dropped <- Outcome(FALSE),
    lost <- LeftBehind
PromiseKept == Promise!PromiseSpec
=============================================================================
