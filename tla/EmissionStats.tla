--------------------------- MODULE EmissionStats ---------------------------
(***************************************************************************)
(* What happens to one emission of a handler once its goroutine runs:      *)
(* emitAndTime calls the handler's emit function, stamps the result,       *)
(* passes the timing to the handler's single recordEmissions goroutine     *)
(* over an unbuffered channel and then adds the size of the batch to       *)
(* metricsSent or metricsDropped.  The recorder counts the emission and    *)
(* keeps the list of recent timings; InternalMetrics reads both while it   *)
(* holds the package mutex `mu'.                                           *)
(*                                                                         *)
(* Actors: the emission goroutines (one per member of Emissions), the      *)
(* recorder, and the HTTP request that asks for the internal metrics.      *)
(***************************************************************************)
EXTENDS Integers, Sequences, FiniteSets

CONSTANTS
    Metrics,        \* the metrics a run can be given, each one distinct
    Emissions,      \* identities of emission goroutines, taken in order
    Interval,       \* base.interval: the length of the window of timings
    MaxClock,       \* bound: the last instant the clock reaches
    MaxSnapshots    \* bound: how many times InternalMetrics is called

ASSUME StatsAssumption ==
    /\ IsFiniteSet(Metrics)
    /\ Emissions \subseteq Nat
    /\ Interval \in Nat
    /\ MaxClock \in Nat
    /\ MaxSnapshots \in Nat

Nobody == -1       \* the recorder holds no timing

ASSUME NobodyAssumption == Nobody \notin Emissions

VARIABLES
    clock,            \* time.Now(), in ticks
    phase,            \* phase[g]: how far the goroutine of emission g has come
    batch,            \* batch[g]: the metrics emission g was given
    result,           \* result[g]: what its emit function returned
    stamp,            \* stamp[g]: the timestamp of its emissionTiming
    recorder,         \* the recorder's step, timing and cut-off time
    emissionTimes,    \* the list of recent timings, front first
    totalEmissions,
    metricsSent,
    metricsDropped,
    snapshot          \* the InternalMetrics call in progress, or the last one

goroutineVars == <<phase, batch, result, stamp>>
counterVars == <<totalEmissions, metricsSent, metricsDropped>>
statsVars == <<clock, goroutineVars, recorder, emissionTimes, counterVars,
               snapshot>>

Phases == {"unused", "emitting", "timed", "handed", "counted"}

RecorderSteps == {"receiving", "counting", "locking"}

SnapshotSteps == {"idle", "total", "dropped", "sent", "done"}

StatsTypeOK ==
    /\ clock \in Nat
    /\ phase \in [Emissions -> Phases]
    /\ batch \in [Emissions -> SUBSET Metrics]
    /\ result \in [Emissions -> BOOLEAN]
    /\ stamp \in [Emissions -> Nat]
    /\ recorder \in [step : RecorderSteps, timing : Emissions \cup {Nobody},
                     minTime : Int]
    /\ recorder.step # "receiving" => recorder.timing \in Emissions
    /\ emissionTimes \in Seq(Emissions)
    /\ totalEmissions \in Nat
    /\ metricsSent \in Nat
    /\ metricsDropped \in Nat
    /\ snapshot \in [step : SnapshotSteps, calls : Nat, total : Nat,
                     dropped : Nat, sent : Nat, inWindow : Nat]

StatsInit ==
    /\ clock = 0
    /\ phase = [g \in Emissions |-> "unused"]
    /\ batch = [g \in Emissions |-> {}]
    /\ result = [g \in Emissions |-> FALSE]
    /\ stamp = [g \in Emissions |-> 0]
    /\ recorder = [step |-> "receiving", timing |-> Nobody, minTime |-> 0]
    /\ emissionTimes = <<>>
    /\ totalEmissions = 0
    /\ metricsSent = 0
    /\ metricsDropped = 0
    /\ snapshot = [step |-> "idle", calls |-> 0, total |-> 0, dropped |-> 0,
                   sent |-> 0, inWindow |-> 0]

(***************************************************************************)
(* The emission goroutine.                                                 *)
(***************************************************************************)
NextUnused(g) ==
    /\ phase[g] = "unused"
    /\ \A h \in Emissions : h < g => phase[h] # "unused"

\* Mutant of StartEmission: emitAndTime is called without `go'.
StartWhenNoneEmits(g, metrics) ==
    /\ \A h \in Emissions : phase[h] # "emitting"
    /\ NextUnused(g)
    /\ phase' = [phase EXCEPT ![g] = "emitting"]
    /\ batch' = [batch EXCEPT ![g] = metrics]
    /\ UNCHANGED <<clock, result, stamp, recorder, emissionTimes, counterVars,
                   snapshot>>

\* `go base.emitAndTime(metrics, emitFunc)': the arguments are evaluated now.
StartEmission(g, metrics) ==
    /\ NextUnused(g)
    /\ phase' = [phase EXCEPT ![g] = "emitting"]
    /\ batch' = [batch EXCEPT ![g] = metrics]
    /\ UNCHANGED <<clock, result, stamp, recorder, emissionTimes, counterVars,
                   snapshot>>

\* emitFunc comes back, with either answer; it may also never come back.
EmitReturns(g, ok) ==
    /\ phase[g] = "emitting"
    /\ phase' = [phase EXCEPT ![g] = "timed"]
    /\ result' = [result EXCEPT ![g] = ok]
    /\ stamp' = [stamp EXCEPT ![g] = clock]
    /\ UNCHANGED <<clock, batch, recorder, emissionTimes, counterVars, snapshot>>

\* The rendezvous on emissionTimingChannel: any goroutine waiting to send may
\* be the one the recorder receives from.
HandTiming(g) ==
    /\ phase[g] = "timed"
    /\ recorder.step = "receiving"
    /\ phase' = [phase EXCEPT ![g] = "handed"]
    /\ recorder' = [recorder EXCEPT !.step = "counting", !.timing = g]
    /\ UNCHANGED <<clock, batch, result, stamp, emissionTimes, counterVars,
                   snapshot>>

\* Mutant of CountMetrics: the counters are added to before the timing is sent.
CountBeforeHanding(g) ==
    /\ phase[g] = "timed"
    /\ phase' = [phase EXCEPT ![g] = "counted"]
    /\ IF result[g]
       THEN /\ metricsSent' = metricsSent + Cardinality(batch[g])
            /\ UNCHANGED metricsDropped
       ELSE /\ metricsDropped' = metricsDropped + Cardinality(batch[g])
            /\ UNCHANGED metricsSent
    /\ UNCHANGED <<clock, batch, result, stamp, recorder, emissionTimes,
                   totalEmissions, snapshot>>

\* Mutant of CountMetrics: a failed emission is added to metricsSent as well.
CountAlwaysSent(g) ==
    /\ phase[g] = "handed"
    /\ phase' = [phase EXCEPT ![g] = "counted"]
    /\ metricsSent' = metricsSent + Cardinality(batch[g])
    /\ metricsDropped' = IF result[g] THEN metricsDropped
                         ELSE metricsDropped + Cardinality(batch[g])
    /\ UNCHANGED <<clock, batch, result, stamp, recorder, emissionTimes,
                   totalEmissions, snapshot>>

\* The atomic add that ends reportEmissionMetrics; timing.metricsSent is the
\* length of the batch whatever the result.
CountMetrics(g) ==
    /\ phase[g] = "handed"
    /\ phase' = [phase EXCEPT ![g] = "counted"]
    /\ IF result[g]
       THEN /\ metricsSent' = metricsSent + Cardinality(batch[g])
            /\ UNCHANGED metricsDropped
       ELSE /\ metricsDropped' = metricsDropped + Cardinality(batch[g])
            /\ UNCHANGED metricsSent
    /\ UNCHANGED <<clock, batch, result, stamp, recorder, emissionTimes,
                   totalEmissions, snapshot>>

(***************************************************************************)
(* The recorder.                                                           *)
(***************************************************************************)
\* Mutants of MuFree: the recorder does not take the lock; a request for the
\* internal metrics does not release it.
MuIgnored == TRUE
MuKept == snapshot.step = "idle"

\* The lock `mu' is held by the snapshot from its first read to its last; the
\* recorder takes it for one step, RecordTiming.
MuFree == snapshot.step \in {"idle", "done"}

\* Outside the lock: count the emission, then read the clock.
CountEmission ==
    /\ recorder.step = "counting"
    /\ totalEmissions' = totalEmissions + 1
    /\ recorder' = [recorder EXCEPT !.step = "locking",
                                    !.minTime = clock - Interval]
    /\ UNCHANGED <<clock, goroutineVars, emissionTimes, metricsSent,
                   metricsDropped, snapshot>>

\* The front of the list is dropped up to the first timing that is not older
\* than minTime; what stands behind that one is not looked at.
FirstKept(times, minTime) ==
    CHOOSE k \in 1 .. Len(times) + 1 :
        /\ \A i \in 1 .. k - 1 : stamp[times[i]] < minTime
        /\ k <= Len(times) => stamp[times[k]] >= minTime

\* Mutant of Purge: the first timing to keep is dropped too.
PurgeOneMore(times, minTime) ==
    SubSeq(times, FirstKept(times, minTime) + 1, Len(times))

Purge(times, minTime) ==
    SubSeq(times, FirstKept(times, minTime), Len(times))

RecordTiming ==
    /\ recorder.step = "locking"
    /\ MuFree
    /\ emissionTimes' = Purge(Append(emissionTimes, recorder.timing),
                              recorder.minTime)
    /\ recorder' = [recorder EXCEPT !.step = "receiving", !.timing = Nobody]
    /\ UNCHANGED <<clock, goroutineVars, counterVars, snapshot>>

(***************************************************************************)
(* InternalMetrics: four reads under the lock, of counters whose writers   *)
(* do not take it.                                                         *)
(***************************************************************************)
ReadTotal ==
    /\ MuFree
    /\ snapshot.calls < MaxSnapshots
    /\ snapshot' = [snapshot EXCEPT !.step = "total", !.calls = @ + 1,
                                    !.total = totalEmissions]
    /\ UNCHANGED <<clock, goroutineVars, recorder, emissionTimes, counterVars>>

ReadDropped ==
    /\ snapshot.step = "total"
    /\ snapshot' = [snapshot EXCEPT !.step = "dropped",
                                    !.dropped = metricsDropped]
    /\ UNCHANGED <<clock, goroutineVars, recorder, emissionTimes, counterVars>>

ReadSent ==
    /\ snapshot.step = "dropped"
    /\ snapshot' = [snapshot EXCEPT !.step = "sent", !.sent = metricsSent]
    /\ UNCHANGED <<clock, goroutineVars, recorder, emissionTimes, counterVars>>

ReadWindow ==
    /\ snapshot.step = "sent"
    /\ snapshot' = [snapshot EXCEPT !.step = "done",
                                    !.inWindow = Len(emissionTimes)]
    /\ UNCHANGED <<clock, goroutineVars, recorder, emissionTimes, counterVars>>

Advance ==
    /\ clock < MaxClock
    /\ clock' = clock + 1
    /\ UNCHANGED <<goroutineVars, recorder, emissionTimes, counterVars, snapshot>>

EmissionStep(g) ==
    \/ \E ok \in BOOLEAN : EmitReturns(g, ok)
    \/ HandTiming(g)
    \/ CountMetrics(g)

RecorderStep == CountEmission \/ RecordTiming

SnapshotStep == ReadTotal \/ ReadDropped \/ ReadSent \/ ReadWindow

\* Everything but the start of an emission, which a listener decides.
StatsNext ==
    \/ \E g \in Emissions : EmissionStep(g)
    \/ RecorderStep
    \/ SnapshotStep
    \/ Advance
=============================================================================
