------------------------- MODULE CollectorPipeline -------------------------
(***************************************************************************)
(* From the collectors to the handlers.  Each collector has a goroutine    *)
(* that calls Collect at every tick (runCollector), a timer that reports a *)
(* round which takes too long, and a goroutine that reads its unbuffered   *)
(* channel (readFromCollector): it drops blacklisted metrics, counts the   *)
(* others by canonical name, now and then publishes the counts, prepends   *)
(* the prefix, and sends the metric to one handler after another.  The     *)
(* hook on the log sends a metric per error to every handler in turn.      *)
(*                                                                         *)
(* Actors: per collector the Collect goroutine, the goroutines it leaves   *)
(* behind, the timers and the reader; the goroutine that stores published   *)
(* counts; the listeners of the handlers (Drain, which BaseHandler shows   *)
(* in full); one goroutine per logged error.                               *)
(***************************************************************************)
EXTENDS Integers, Sequences, FiniteSets

CONSTANTS
    Collectors,
    Listeners,       \* collectors of type "listener": no timer
    Spawners,        \* collectors whose Collect leaves goroutines behind
    Silent,          \* those whose blacklist matches the incident metric
    Names,           \* canonical names
    CanonicalName,   \* CanonicalName[c]: that of a metric that brings none
    Configured,      \* config.Collectors and config.DiamondCollectors
    Scripts,         \* Scripts[c]: the items a round of c may produce, in order
    HandlerCount,    \* the handlers are 1 .. HandlerCount, in list order
    Unknown,         \* the positions of names that may be unknown
    WhiteList, BlackList,   \* per handler, sets of canonical names
    None,            \* no item
    MaxRounds,       \* bound: MaxRounds[c] rounds of collector c
    MaxErrors        \* bound: errors logged

Handlers == 1 .. HandlerCount
Rounds == UNION {1 .. MaxRounds[c] : c \in Collectors}
Errors == 1 .. MaxErrors

Kinds == {"plain", "unwanted", "incident"}
Items == [kind : Kinds, name : Names]

ASSUME PipelineAssumption ==
    /\ Listeners \subseteq Collectors
    /\ Spawners \subseteq Collectors
    /\ Silent \subseteq Collectors
    /\ CanonicalName \in [Collectors -> Names]
    /\ Configured \subseteq Names
    /\ Scripts \in [Collectors -> SUBSET Seq(Items)]
    /\ HandlerCount \in Nat \ {0}
    /\ Unknown \subseteq Handlers
    /\ WhiteList \in [Handlers -> SUBSET Names]
    /\ BlackList \in [Handlers -> SUBSET Names]
    /\ None \notin Items
    /\ MaxRounds \in [Collectors -> Nat]
    /\ MaxErrors \in Nat

\* The names a collector's metrics can have; collectors share none, as each
\* is configured once and Diamond's metrics bear the names of python ones.
NamesOf(c) ==
    {CanonicalName[c]} \cup
        {n \in Names : \E s \in Scripts[c] : \E i \in 1 .. Len(s) : s[i].name = n}

ASSUME NamesAssumption ==
    \A c, d \in Collectors : c # d => NamesOf(c) \cap NamesOf(d) = {}

VARIABLES
    round,               \* round[c]: how many rounds were started
    runner,              \* runner[c]: where the loop of runCollector is
    armed,               \* armed[c]: the rounds whose timer runs
    reporting,           \* reporting[c]: goroutines with an incident to send
    left,                \* left[c][r]: what round r has still to send
    reader,              \* reader[c]: the state of readFromCollector
    emissionCounter,     \* emissionCounter[c]: its map
    collectorMetrics,    \* the map readCollectorStat fills
    channel,             \* channel[h][n]: the endpoint of name n of handler h
    errorAt,             \* errorAt[k]: the handler error k is sent to next
    nilHandlers,         \* the positions that createHandler left nil
    crashed,             \* the process died of a panic
    raised,              \* history: the rounds each collector's timers
                         \* reported, in order
    owed, delivered      \* history: per collector and handler, the items that
                         \* the reader took for it, and those it sent to it

collectVars == <<round, runner, armed, reporting, left, raised>>
readerVars == <<reader, emissionCounter, owed>>
sendVars == <<channel, delivered>>
vars == <<collectVars, readerVars, collectorMetrics, sendVars, errorAt, nilHandlers,
          crashed>>

RunnerSteps == {"waiting", "collecting", "stopping"}
ReaderSteps == {"receiving", "publishing", "sending"}

TypeOK ==
    /\ round \in [Collectors -> Nat]
    /\ runner \in [Collectors -> RunnerSteps]
    /\ armed \in [Collectors -> SUBSET Rounds]
    /\ reporting \in [Collectors -> Nat]
    /\ left \in [Collectors -> [Rounds -> Seq(Items)]]
    /\ reader \in [Collectors -> [step : ReaderSteps, item : Items \cup {None},
                                  next : Handlers, unpublished : SUBSET Names]]
    /\ \A c \in Collectors :
          reader[c].step # "receiving" => reader[c].item \in Items
    /\ emissionCounter \in [Collectors -> [Names -> Nat]]
    /\ collectorMetrics \in [Names -> Nat]
    /\ channel \in [Handlers -> [Names -> Items \cup {None}]]
    /\ errorAt \in [Errors -> 0 .. HandlerCount + 1]
    /\ nilHandlers \subseteq Unknown
    /\ crashed \in BOOLEAN
    /\ raised \in [Collectors -> Seq(Rounds)]
    /\ owed \in [Collectors -> [Handlers -> Seq(Items)]]
    /\ delivered \in [Collectors -> [Handlers -> Seq(Items)]]

Receiving == [step |-> "receiving", item |-> None, next |-> 1, unpublished |-> {}]

Init ==
    /\ round = [c \in Collectors |-> 0]
    /\ runner = [c \in Collectors |-> "waiting"]
    /\ armed = [c \in Collectors |-> {}]
    /\ reporting = [c \in Collectors |-> 0]
    /\ left = [c \in Collectors |-> [r \in Rounds |-> <<>>]]
    /\ reader = [c \in Collectors |-> Receiving]
    /\ emissionCounter = [c \in Collectors |-> [n \in Names |-> 0]]
    /\ collectorMetrics = [n \in Names |-> 0]
    /\ channel = [h \in Handlers |-> [n \in Names |-> None]]
    /\ errorAt = [k \in Errors |-> 0]
    /\ nilHandlers \in SUBSET Unknown
    /\ crashed = FALSE
    /\ raised = [c \in Collectors |-> <<>>]
    /\ owed = [c \in Collectors |-> [h \in Handlers |-> <<>>]]
    /\ delivered = [c \in Collectors |-> [h \in Handlers |-> <<>>]]

\* Mutant of Routes: a whitelisted name is accepted although blacklisted.
RoutesWhiteListOnly(h) ==
    {n \in Configured : IF WhiteList[h] # {} THEN n \in WhiteList[h]
                        ELSE n \notin BlackList[h]}

\* InitListeners: the names a handler has an endpoint for.
Routes(h) ==
    {n \in Configured : /\ WhiteList[h] # {} => n \in WhiteList[h]
                        /\ n \notin BlackList[h]}

(***************************************************************************)
(* runCollector and its timers.                                            *)
(***************************************************************************)
Tick(c) ==
    /\ runner[c] = "waiting"
    /\ round[c] < MaxRounds[c]
    /\ round' = [round EXCEPT ![c] = @ + 1]
    /\ runner' = [runner EXCEPT ![c] = "collecting"]
    /\ armed' = [armed EXCEPT ![c] = IF c \in Listeners THEN @
                                     ELSE @ \cup {round[c] + 1}]
    /\ \E script \in Scripts[c] :
          left' = [left EXCEPT ![c][round[c] + 1] = script]
    /\ UNCHANGED <<reporting, raised, readerVars, collectorMetrics, sendVars,
                   errorAt, crashed>>

\* Collect returns once it has sent what it had, or, if goroutines do that
\* for it, at any time.  A listener has no timer to stop.
CollectReturns(c) ==
    /\ runner[c] = "collecting"
    /\ c \in Spawners \/ left[c][round[c]] = <<>>
    /\ runner' = [runner EXCEPT
                     ![c] = IF c \in Listeners THEN "waiting" ELSE "stopping"]
    /\ UNCHANGED <<round, armed, reporting, left, raised, readerVars,
                   collectorMetrics, sendVars, errorAt, crashed>>

\* Mutant of StopTimer: the timer is left to run.
StopTimerForgotten(c) ==
    /\ runner[c] = "stopping"
    /\ runner' = [runner EXCEPT ![c] = "waiting"]
    /\ UNCHANGED <<round, armed, reporting, left, raised, readerVars,
                   collectorMetrics, sendVars, errorAt, crashed>>

\* countdownTimer.Stop(), which does nothing if the timer has fired.
StopTimer(c) ==
    /\ runner[c] = "stopping"
    /\ runner' = [runner EXCEPT ![c] = "waiting"]
    /\ armed' = [armed EXCEPT ![c] = @ \ {round[c]}]
    /\ UNCHANGED <<round, reporting, left, raised, readerVars, collectorMetrics,
                   sendVars, errorAt, crashed>>

\* The deadline of round r passes: AfterFunc runs reportCollector in a
\* goroutine, whatever the loop does meanwhile.
TimerFires(c, r) ==
    /\ r \in armed[c]
    /\ armed' = [armed EXCEPT ![c] = @ \ {r}]
    /\ reporting' = [reporting EXCEPT ![c] = @ + 1]
    /\ raised' = [raised EXCEPT ![c] = Append(@, r)]
    /\ UNCHANGED <<round, runner, left, readerVars, collectorMetrics, sendVars,
                   errorAt, crashed>>

(***************************************************************************)
(* readFromCollector.                                                      *)
(***************************************************************************)
\* Mutant of Accept: the counter is stepped before the blacklist is looked at.
AcceptCountingAll(c, item) ==
    /\ emissionCounter' = [emissionCounter EXCEPT ![c][item.name] = @ + 1]
    /\ \/ item.kind = "unwanted" /\ UNCHANGED <<reader, owed>>
       \/ /\ item.kind # "unwanted"
          /\ \E due \in BOOLEAN :
                reader' = [reader EXCEPT ![c] =
                    [step |-> IF due THEN "publishing" ELSE "sending", item |-> item,
                     next |-> 1,
                     unpublished |->
                        IF due THEN {n \in Names : emissionCounter'[c][n] > 0} ELSE {}]]
          /\ owed' = [owed EXCEPT ![c] =
                [h \in Handlers |-> IF item.name \in Routes(h)
                                    THEN Append(@[h], item) ELSE @[h]]]

\* One item received.  Whether the counts are due depends on the clock only.
Accept(c, item) ==
    \/ item.kind = "unwanted" /\ UNCHANGED readerVars
    \/ /\ item.kind # "unwanted"
       /\ emissionCounter' = [emissionCounter EXCEPT ![c][item.name] = @ + 1]
       /\ \E due \in BOOLEAN :
             reader' = [reader EXCEPT ![c] =
                 [step |-> IF due THEN "publishing" ELSE "sending", item |-> item,
                  next |-> 1,
                  unpublished |->
                     IF due THEN {n \in Names : emissionCounter'[c][n] > 0} ELSE {}]]
       /\ owed' = [owed EXCEPT ![c] =
             [h \in Handlers |-> IF item.name \in Routes(h)
                                 THEN Append(@[h], item) ELSE @[h]]]

\* The rendezvous of the reader with a goroutine of round r ...
Read(c, r) ==
    /\ reader[c].step = "receiving"
    /\ left[c][r] # <<>>
    /\ left' = [left EXCEPT ![c][r] = Tail(@)]
    /\ Accept(c, Head(left[c][r]))
    /\ UNCHANGED <<round, runner, armed, reporting, raised, collectorMetrics,
                   sendVars, errorAt, crashed>>

\* ... or with one that reports an incident, a metric under the collector's name
\* that its blacklist may match.
Incident(c) == [kind |-> IF c \in Silent THEN "unwanted" ELSE "incident",
                name |-> CanonicalName[c]]

ReadIncident(c) ==
    /\ reader[c].step = "receiving"
    /\ reporting[c] > 0
    /\ reporting' = [reporting EXCEPT ![c] = @ - 1]
    /\ Accept(c, Incident(c))
    /\ UNCHANGED <<round, runner, armed, left, raised, collectorMetrics,
                   sendVars, errorAt, crashed>>

\* Mutant of Publish: the count starts again once it was published.
PublishAndReset(c, n) ==
    /\ reader[c].step = "publishing"
    /\ n \in reader[c].unpublished
    /\ collectorMetrics' = [collectorMetrics EXCEPT ![n] = emissionCounter[c][n]]
    /\ emissionCounter' = [emissionCounter EXCEPT ![c][n] = 0]
    /\ LET rest == reader[c].unpublished \ {n}
       IN reader' = [reader EXCEPT ![c].unpublished = rest,
                                   ![c].step = IF rest = {} THEN "sending" ELSE @]
    /\ UNCHANGED <<collectVars, owed, sendVars, errorAt, crashed>>

\* emitCollectorStats: one turn of its loop over the map, in any order; the
\* goroutine of readCollectorStat stores the count.
Publish(c, n) ==
    /\ reader[c].step = "publishing"
    /\ n \in reader[c].unpublished
    /\ collectorMetrics' = [collectorMetrics EXCEPT ![n] = emissionCounter[c][n]]
    /\ LET rest == reader[c].unpublished \ {n}
       IN reader' = [reader EXCEPT ![c].unpublished = rest,
                                   ![c].step = IF rest = {} THEN "sending" ELSE @]
    /\ UNCHANGED <<collectVars, emissionCounter, owed, sendVars, errorAt, crashed>>

\* Mutant of AfterHandler: <= for < in the loop over the handlers.
AfterHandlerOneMore(r) ==
    IF r.next > HandlerCount THEN Receiving ELSE [r EXCEPT !.next = @ + 1]

AfterHandler(r) ==
    IF r.next = HandlerCount THEN Receiving ELSE [r EXCEPT !.next = @ + 1]

\* Mutant of Skip: the send on the nil channel of a missing endpoint blocks.
SkipNever(c) ==
    /\ reader[c].step = "skipping"
    /\ UNCHANGED vars

\* The loop over the handlers: one has no endpoint for the name ...
Skip(c) ==
    /\ reader[c].step = "sending"
    /\ reader[c].next \notin nilHandlers
    /\ reader[c].item.name \notin Routes(reader[c].next)
    /\ reader' = [reader EXCEPT ![c] = AfterHandler(@)]
    /\ UNCHANGED <<collectVars, emissionCounter, owed, collectorMetrics, sendVars,
                   errorAt, crashed>>

\* Mutant of Deliver: a metric for a full channel is thrown away.
DeliverOrDrop(c) ==
    LET h == reader[c].next
        item == reader[c].item
    IN /\ reader[c].step = "sending"
       /\ h \notin nilHandlers
       /\ item.name \in Routes(h)
       /\ IF channel[h][item.name] = None
          THEN /\ channel' = [channel EXCEPT ![h][item.name] = item]
               /\ delivered' = [delivered EXCEPT ![c][h] = Append(@, item)]
          ELSE UNCHANGED sendVars
       /\ reader' = [reader EXCEPT ![c] = AfterHandler(@)]
       /\ UNCHANGED <<collectVars, emissionCounter, owed, collectorMetrics,
                      errorAt, crashed>>

\* ... has one, whose channel takes a metric at a time ...
Deliver(c) ==
    LET h == reader[c].next
        item == reader[c].item
    IN /\ reader[c].step = "sending"
       /\ h \notin nilHandlers
       /\ item.name \in Routes(h)
       /\ channel[h][item.name] = None
       /\ channel' = [channel EXCEPT ![h][item.name] = item]
       /\ delivered' = [delivered EXCEPT ![c][h] = Append(@, item)]
       /\ reader' = [reader EXCEPT ![c] = AfterHandler(@)]
       /\ UNCHANGED <<collectVars, emissionCounter, owed, collectorMetrics,
                      errorAt, crashed>>

\* ... or is nil: the call of CollectorEndpoints panics.
ReaderPanics(c) ==
    /\ reader[c].step = "sending"
    /\ reader[c].next \in nilHandlers
    /\ crashed' = TRUE
    /\ UNCHANGED <<collectVars, readerVars, collectorMetrics, sendVars, errorAt>>

\* The listener of an endpoint receives (BaseHandler!Receive).
Drain(h, n) ==
    /\ channel[h][n] # None
    /\ channel' = [channel EXCEPT ![h][n] = None]
    /\ UNCHANGED <<collectVars, readerVars, collectorMetrics, delivered, errorAt,
                   crashed>>

(***************************************************************************)
(* LogErrorHook: Fire starts a goroutine, which sends to each handler's    *)
(* own channel (BaseHandler!Rendezvous).                                   *)
(***************************************************************************)
Fire(k) ==
    /\ errorAt[k] = 0
    /\ errorAt' = [errorAt EXCEPT ![k] = 1]
    /\ UNCHANGED <<collectVars, readerVars, collectorMetrics, sendVars, crashed>>

ReportError(k) ==
    /\ errorAt[k] \in Handlers \ nilHandlers
    /\ errorAt' = [errorAt EXCEPT ![k] = @ + 1]
    /\ UNCHANGED <<collectVars, readerVars, collectorMetrics, sendVars, crashed>>

HookPanics(k) ==
    /\ errorAt[k] \in nilHandlers
    /\ crashed' = TRUE
    /\ UNCHANGED <<collectVars, readerVars, collectorMetrics, sendVars, errorAt>>

CollectStep(c) ==
    \/ Tick(c)
    \/ CollectReturns(c)
    \/ StopTimer(c)
    \/ \E r \in Rounds : TimerFires(c, r)

ReaderStep(c) ==
    \/ \E n \in Names : Publish(c, n)
    \/ Skip(c)
    \/ Deliver(c)
    \/ ReaderPanics(c)

Next ==
    /\ ~crashed
    /\ UNCHANGED nilHandlers
    /\ \/ \E c \in Collectors :
             \/ CollectStep(c)
             \/ \E r \in Rounds : Read(c, r)
             \/ ReadIncident(c)
             \/ ReaderStep(c)
       \/ \E h \in Handlers, n \in Names : Drain(h, n)
       \/ \E k \in Errors : Fire(k) \/ ReportError(k) \/ HookPanics(k)

Spec == Init /\ [][Next]_vars

(***************************************************************************)
(* Fairness.  A reader's goroutine goes on, taking whichever sender waits  *)
(* on its channel, and so do the handlers' listeners, which never wait for *)
(* their destination (SlowEmissionsHoldNothingUp), and the goroutine of a  *)
(* logged error.  Nothing is assumed of the collectors: a Collect need not *)
(* return, and its timer need not fire.                                    *)
(***************************************************************************)
Running(A) == ~crashed /\ A /\ UNCHANGED nilHandlers

Fairness ==
    /\ \A c \in Collectors :
          WF_vars(Running(\/ \E r \in Rounds : Read(c, r)
                          \/ ReadIncident(c)
                          \/ ReaderStep(c)))
    /\ \A h \in Handlers : \A n \in Routes(h) : WF_vars(Running(Drain(h, n)))
    /\ \A k \in Errors : WF_vars(Running(ReportError(k) \/ HookPanics(k)))

FairSpec == Spec /\ Fairness

(***************************************************************************)
(* Properties.                                                             *)
(***************************************************************************)
\* The item its reader still has to send to handler h.
InHand(c, h) ==
    IF /\ reader[c].step # "receiving"
       /\ reader[c].next <= h
       /\ reader[c].item.name \in Routes(h)
    THEN <<reader[c].item>> ELSE <<>>

\* Every handler with an endpoint for a metric gets it, once and in the order
\* in which the reader took the collector's metrics, whatever the order in
\* which rounds, incidents, other collectors and the handlers run: what it was
\* sent is what it is owed, but for the one item the reader has in hand.
InOrderToEach ==
    \A c \in Collectors, h \in Handlers :
        owed[c][h] = delivered[c][h] \o InHand(c, h)

\* A collector's count of a name is the number of metrics of that name each
\* handler with an endpoint for it got, but for the item in hand: blacklisted
\* metrics are in neither, incidents in both unless they are blacklisted too.
CountsMatchDeliveries ==
    \A c \in Collectors, h \in Handlers : \A n \in Routes(h) :
        emissionCounter[c][n] =
            Cardinality({i \in 1 .. Len(delivered[c][h]) :
                            delivered[c][h][i].name = n})
            + Cardinality({i \in 1 .. Len(InHand(c, h)) : InHand(c, h)[i].name = n})

\* No handler is sent a metric of a collector on its blacklist, even one on
\* its whitelist, or of one not on a whitelist it has, and a channel only ever
\* holds metrics of the one collector that its listener was made for.
Wanted(h, item) ==
    /\ item.kind # "unwanted"
    /\ item.name \notin BlackList[h]
    /\ WhiteList[h] = {} \/ item.name \in WhiteList[h]
OnlyWantedDelivered ==
    /\ \A c \in Collectors, h \in Handlers : \A i \in 1 .. Len(delivered[c][h]) :
          Wanted(h, delivered[c][h][i])
    /\ \A h \in Handlers, n \in Names :
          channel[h][n] # None =>
              /\ Wanted(h, channel[h][n])
              /\ channel[h][n].name = n
              /\ n \in Configured

\* The published count of a collector never goes back and never runs ahead of
\* the reader's.
CountsNeverGoBack ==
    [][\A n \in Names :
          /\ collectorMetrics'[n] >= collectorMetrics[n]
          /\ \E c \in Collectors : collectorMetrics'[n] <= emissionCounter'[c][n]]_vars

\* A round is reported at most once, and only until its timer was stopped: a
\* timer that fires in the moment between the end of Collect and Stop still
\* reports the round that has ended, but never one before it, and after Stop
\* none fires, although the next round's timer may run already.
LateRoundsReportedOnce ==
    [][\A c \in Collectors :
          raised'[c] # raised[c] =>
              /\ c \notin Listeners /\ runner[c] # "waiting"
              /\ raised'[c] = Append(raised[c], round[c])
              /\ \A i \in 1 .. Len(raised[c]) : raised[c][i] < round[c]]_vars

\* Whatever was offered on a collector's channel is read and handed to all its
\* handlers, and an error that was logged gets to all of them, although a
\* Collect (this collector's or another's) never returns; unless the process
\* died of a handler that was not created.
Unread(c) ==
    \/ \E r \in Rounds : left[c][r] # <<>>
    \/ reporting[c] > 0
    \/ reader[c].step # "receiving"
PipelineDrains ==
    /\ \A c \in Collectors : Unread(c) ~> ~Unread(c) \/ crashed
    /\ \A k \in Errors : errorAt[k] = 1 ~> errorAt[k] = HandlerCount + 1 \/ crashed

\* What startHandlers' test for nil, and the test of an unknown handler, say:
\* a handler that could not be created leaves the others working.
UnknownHandlerHarmless == ~crashed
=============================================================================
