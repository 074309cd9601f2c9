--------------------------- MODULE HandlerPromise ---------------------------
(***************************************************************************)
(* What a handler promises about the metrics it is given, without its      *)
(* channels, buffers and goroutines: a metric is taken once; it stays      *)
(* pending until a group of pending metrics it belongs to is reported as   *)
(* sent or as dropped, and the size of the group is then added to exactly  *)
(* one of the two counters the handler publishes; a metric whose listener  *)
(* is told to stop may be lost, and is then in neither counter.            *)
(***************************************************************************)
EXTENDS Integers, FiniteSets

CONSTANT Metrics

VARIABLES
    pending,         \* taken, and nothing reported of them yet
    sent, dropped,   \* the metrics reported either way
    lost,            \* in the buffer of a listener that was stopped
    metricsSent, metricsDropped

promiseVars == <<pending, sent, dropped, lost, metricsSent, metricsDropped>>

PromiseInit ==
    /\ pending = {} /\ sent = {} /\ dropped = {} /\ lost = {}
    /\ metricsSent = 0 /\ metricsDropped = 0

PromiseAccept(group) ==
    /\ group \cap (pending \cup sent \cup dropped \cup lost) = {}
    /\ pending' = pending \cup group
    /\ UNCHANGED <<sent, dropped, lost, metricsSent, metricsDropped>>

PromiseSent(group) ==
    /\ group \subseteq pending
    /\ pending' = pending \ group
    /\ sent' = sent \cup group
    /\ metricsSent' = metricsSent + Cardinality(group)
    /\ UNCHANGED <<dropped, lost, metricsDropped>>

PromiseDropped(group) ==
    /\ group \subseteq pending
    /\ pending' = pending \ group
    /\ dropped' = dropped \cup group
    /\ metricsDropped' = metricsDropped + Cardinality(group)
    /\ UNCHANGED <<sent, lost, metricsSent>>

PromiseLost(group) ==
    /\ group \subseteq pending
    /\ pending' = pending \ group
    /\ lost' = lost \cup group
    /\ UNCHANGED <<sent, dropped, metricsSent, metricsDropped>>

PromiseNext ==
    \E group \in (SUBSET Metrics) \ {{}} :
        \/ PromiseAccept(group)
        \/ PromiseSent(group)
        \/ PromiseDropped(group)
        \/ PromiseLost(group)

PromiseSpec == PromiseInit /\ [][PromiseNext]_promiseVars
=============================================================================
