--------------------------- MODULE DiamondStream ---------------------------
(***************************************************************************)
(* One python collector and its way into fullerite.  The process sleeps,   *)
(* collects under an alarm (collector_process, Collector._run), gathers    *)
(* metrics in a payload and writes it as one line to a TCP socket, with    *)
(* retries (publish_metric, flush); the Go Diamond collector reads lines   *)
(* from each connection and parses them.  Signals are exceptions, raised   *)
(* between any two steps of the process.                                   *)
(*                                                                         *)
(* Actors: the python process, its alarm and whoever sends it SIGHUP, the  *)
(* network, and one Go goroutine per connection.                           *)
(***************************************************************************)
EXTENDS Integers, Sequences, FiniteSets

CONSTANTS
    RetryCount,     \* FULLERITE_RETRY_COUNT
    MaxBuffer,      \* max_buffer_size
    Connections,    \* identities of connections, taken in order
    MaxMetrics,     \* bound: metrics that Collect publishes
    MaxRounds,      \* bound: rounds of collection
    MaxBreaks,      \* bound: connections that break
    MaxHups         \* bound: SIGHUPs

\* A flush whose attempts all fail leaves an error metric of each attempt in
\* the payload; with a limit above that (300 and 3) they start no other flush.
ASSUME StreamAssumption ==
    /\ RetryCount \in Nat \ {0}
    /\ MaxBuffer \in Nat /\ MaxBuffer > RetryCount
    /\ Connections \subseteq Nat \ {0}
    /\ MaxMetrics \in Nat /\ MaxRounds \in Nat
    /\ MaxBreaks \in Nat /\ MaxHups \in Nat

VARIABLES
    pc,            \* where the process is
    after,         \* where the flush in progress was called
    exc,           \* the exception that is under way
    alarm,         \* the alarm is set
    payload,       \* self.payload: metrics, by the number they were made with
    made,          \* how many metrics were made
    ofCollect,     \* how many of them by Collect
    flush,         \* the line of the flush, its attempt, whether it was begun
    conn,          \* self._socket: its connection, 0 if None
    reconnect,     \* self._reconnect
    opened,        \* the last connection opened
    rounds, breaks, hups,
    wire,          \* wire[k]: pieces of lines written and not read yet
    begun,         \* begun[k]: beginnings read since the last newline
    broken,        \* broken[k]: the connection is down
    delivered,     \* delivered[k]: metrics parsed from connection k, in order
    acked,         \* history: lines that flush took for sent over k
    cuts,          \* history: lines of k that an exception cut
    parsed, garbled   \* history: lines of k that did and did not parse

bufferVars == <<payload, made>>
processVars == <<pc, after, exc, flush, bufferVars>>
socketVars == <<conn, reconnect, opened>>
boundVars == <<ofCollect, rounds, breaks, hups>>
writeVars == <<wire, acked, cuts>>
readVars == <<begun, delivered, parsed, garbled>>
vars == <<processVars, alarm, socketVars, boundVars, writeVars, broken, readVars>>

Line == Seq(Nat)
Pieces == [line : Line, part : {"begin", "rest", "whole"}]
Callers == {"collecting", "failing", "ending", "handling"}

TypeOK ==
    /\ pc \in {"sleeping", "collecting", "flushing", "returned", "ended"}
    /\ after \in Callers
    /\ exc \in {"none", "alarm", "error", "hup", "exit"}
    /\ alarm \in BOOLEAN
    /\ payload \in Line /\ Len(payload) <= MaxBuffer
    /\ Len(payload) = MaxBuffer => pc = "collecting"
    /\ made \in Nat
    /\ flush \in [line : Line, attempt : 0 .. RetryCount, begun : BOOLEAN]
    /\ conn \in Connections \cup {0} /\ opened \in Connections \cup {0}
    /\ reconnect \in BOOLEAN
    /\ ofCollect \in Nat /\ rounds \in Nat /\ breaks \in Nat /\ hups \in Nat
    /\ wire \in [Connections -> Seq(Pieces)]
    /\ broken \in [Connections -> BOOLEAN]
    /\ delivered \in [Connections -> Line]
    /\ \A history \in {begun, acked, cuts, parsed, garbled} :
          history \in [Connections -> Nat]

NoFlush == [line |-> <<>>, attempt |-> 0, begun |-> FALSE]
None == [k \in Connections |-> 0]

Init ==
    /\ pc = "sleeping" /\ after = "ending" /\ exc = "none" /\ alarm = FALSE
    /\ payload = <<>> /\ made = 0 /\ ofCollect = 0 /\ flush = NoFlush
    /\ conn = 0 /\ opened = 0 /\ reconnect = FALSE
    /\ rounds = 0 /\ breaks = 0 /\ hups = 0
    /\ wire = [k \in Connections |-> <<>>]
    /\ broken = [k \in Connections |-> FALSE]
    /\ delivered = [k \in Connections |-> <<>>]
    /\ acked = None /\ cuts = None
    /\ begun = None /\ parsed = None /\ garbled = None

(***************************************************************************)
(* The steps that flush and publish are made of.                           *)
(***************************************************************************)
\* Mutant of Flush: the payload is emptied when the line is sent, not before.
FlushKeepingPayload(caller, metrics) ==
    /\ pc' = "flushing" /\ after' = caller
    /\ flush' = [NoFlush EXCEPT !.line = metrics]
    /\ payload' = IF caller = "ending" THEN <<>> ELSE metrics

\* The first lines of flush: the payload becomes a line, and is empty.
Flush(caller, metrics) ==
    /\ pc' = "flushing" /\ after' = caller
    /\ flush' = [NoFlush EXCEPT !.line = metrics]
    /\ payload' = <<>>

\* The process goes on outside flush.
GoTo(place) == pc' = place /\ flush' = NoFlush /\ UNCHANGED after

\* The payload with one more metric.
Grown == Append(payload, made + 1)

\* Mutant of IsFull: > for >=.
IsOverfull(metrics) == Len(metrics) > MaxBuffer

IsFull(metrics) == Len(metrics) >= MaxBuffer

\* publish_metric in the handler of SIGALRM: a full payload is flushed before the
\* process goes on.  Whatever strikes between the two ends it, as in that flush.
PublishAndGoTo(caller, place) ==
    /\ made' = made + 1
    /\ \/ IsFull(Grown) /\ Flush(caller, Grown)
       \/ ~IsFull(Grown) /\ payload' = Grown /\ GoTo(place)

\* can_publish_metric: errors are only reported over a connection.
CanPublish == conn # 0 /\ ~reconnect

\* _run's `except' and `finally': the error is published, if it can be, which
\* may flush; and then what there is is flushed.  (A SIGHUP between the append and
\* the flush it makes due is taken to come before the append.)
FailRun ==
    \/ /\ CanPublish
       /\ made' = made + 1
       /\ Flush(IF IsFull(Grown) THEN "failing" ELSE "ending", Grown)
    \/ /\ ~CanPublish
       /\ Flush("ending", payload)
       /\ UNCHANGED made

\* An exception that gets to collector_process.  SIGALRM's handler publishes
\* the incident; SIGHUP's calls load_config without its argument, which raises
\* where nothing catches it; after others the loop is left.
Handle(e) ==
    \/ e = "alarm" /\ PublishAndGoTo("handling", "sleeping") /\ exc' = "none"
    \/ e # "alarm" /\ GoTo("ended") /\ exc' = e /\ UNCHANGED bufferVars

\* An exception strikes.  In collect, and in a flush it called, `except' and
\* `finally' follow; in `except', and for sys.exit, `finally'; elsewhere in
\* _run and the loop, the handler; and in a handler, the end.
Raise(e) ==
    \/ /\ \/ pc = "collecting"
          \/ pc = "flushing" /\ after = "collecting" /\ e # "exit"
       /\ exc' = e
       /\ FailRun
    \/ /\ pc = "flushing"
       /\ after = "failing" \/ (after = "collecting" /\ e = "exit")
       /\ exc' = e
       /\ Flush("ending", payload)
       /\ UNCHANGED made
    \/ /\ pc \in {"sleeping", "returned"} \/ (pc = "flushing" /\ after = "ending")
       /\ Handle(e)
    \/ /\ pc = "flushing" /\ after = "handling"
       /\ exc' = e
       /\ GoTo("ended")
       /\ UNCHANGED bufferVars

\* flush returns to where it was called.
FlushReturns ==
    \/ /\ after = "collecting" \/ after = "handling" \/ exc = "none"
       /\ GoTo(CASE after = "collecting" -> "collecting"
                 [] after = "handling" -> "sleeping"
                 [] OTHER -> "returned")
       /\ UNCHANGED <<exc, bufferVars>>
    \/ /\ after = "failing" /\ exc # "none"
       /\ Flush("ending", payload)
       /\ UNCHANGED <<exc, made>>
    \/ /\ after = "ending" /\ exc # "none"
       /\ Handle(exc)

(***************************************************************************)
(* The scheduler and _run.                                                 *)
(***************************************************************************)
\* Mutant of Wake: the alarm is not set.
WakeUntimed ==
    /\ pc = "sleeping" /\ rounds < MaxRounds
    /\ rounds' = rounds + 1
    /\ GoTo("collecting")
    /\ UNCHANGED <<exc, bufferVars, alarm, socketVars, ofCollect, breaks, hups,
                   writeVars, broken, readVars>>

Wake ==
    /\ pc = "sleeping" /\ rounds < MaxRounds
    /\ rounds' = rounds + 1
    /\ alarm' = TRUE
    /\ GoTo("collecting")
    /\ UNCHANGED <<exc, bufferVars, socketVars, ofCollect, breaks, hups, writeVars,
                   broken, readVars>>

\* The collector's own code runs, and not publish_metric.
Collecting == pc = "collecting" /\ ~IsFull(payload)

\* publish_metric appends, ...
Publish ==
    /\ Collecting /\ ofCollect < MaxMetrics
    /\ ofCollect' = ofCollect + 1
    /\ payload' = Grown /\ made' = made + 1
    /\ GoTo("collecting")
    /\ UNCHANGED <<exc, alarm, socketVars, rounds, breaks, hups, writeVars, broken,
                   readVars>>

\* ... and flushes when that made the payload full, unless an exception strikes first.
FlushFull ==
    /\ pc = "collecting" /\ IsFull(payload)
    /\ Flush("collecting", payload)
    /\ UNCHANGED <<exc, made, alarm, socketVars, boundVars, writeVars, broken,
                   readVars>>

\* collect returns: the `finally' of _run flushes.
CollectReturns ==
    /\ Collecting
    /\ Flush("ending", payload)
    /\ UNCHANGED <<exc, made, alarm, socketVars, boundVars, writeVars, broken,
                   readVars>>

\* The collector's own code fails.
CollectFails ==
    /\ Collecting
    /\ Raise("error")
    /\ UNCHANGED <<alarm, socketVars, boundVars, writeVars, broken, readVars>>

\* signal.alarm(0)
Success ==
    /\ pc = "returned"
    /\ alarm' = FALSE
    /\ GoTo("sleeping")
    /\ UNCHANGED <<exc, bufferVars, socketVars, boundVars, writeVars, broken,
                   readVars>>

\* An exception in flush: a line that was begun stays as it is.
Cut ==
    /\ cuts' = IF flush.begun THEN [cuts EXCEPT ![conn] = @ + 1] ELSE cuts
    /\ UNCHANGED <<wire, acked>>

AlarmFires ==
    /\ alarm /\ pc # "ended"
    /\ alarm' = FALSE
    /\ Raise("alarm")
    /\ Cut
    /\ UNCHANGED <<socketVars, boundVars, broken, readVars>>

Hup ==
    /\ hups < MaxHups /\ pc # "ended"
    /\ hups' = hups + 1
    /\ Raise("hup")
    /\ Cut
    /\ UNCHANGED <<alarm, socketVars, ofCollect, rounds, breaks, broken, readVars>>

\* DiamondServer starts another process.
Restart ==
    /\ pc = "ended"
    /\ GoTo("sleeping")
    /\ exc' = "none" /\ alarm' = FALSE /\ payload' = <<>>
    /\ conn' = 0 /\ reconnect' = FALSE
    /\ UNCHANGED <<made, opened, boundVars, writeVars, broken, readVars>>

(***************************************************************************)
(* flush and the socket.                                                   *)
(***************************************************************************)
Attempting == pc = "flushing" /\ flush.attempt < RetryCount
NeedsSocket == conn = 0 \/ reconnect

\* _connect; a socket that is dropped is closed, and what it took arrives.
Connect ==
    /\ Attempting /\ NeedsSocket
    /\ \E k \in Connections :
          /\ k > opened /\ \A j \in Connections : j < k => j <= opened
          /\ conn' = k /\ opened' = k
    /\ reconnect' = FALSE
    /\ UNCHANGED <<processVars, alarm, boundVars, writeVars, broken, readVars>>

\* No connection: sys.exit, which `except Exception' does not catch.
ConnectFails ==
    /\ Attempting /\ NeedsSocket
    /\ Raise("exit")
    /\ UNCHANGED <<alarm, socketVars, boundVars, writeVars, broken, readVars>>

\* sendall writes the beginning of the line ...
SendBegin ==
    /\ Attempting /\ ~NeedsSocket /\ ~flush.begun /\ ~broken[conn]
    /\ flush' = [flush EXCEPT !.begun = TRUE]
    /\ wire' = [wire EXCEPT ![conn] =
                  Append(@, [line |-> <<>>, part |-> "begin"])]
    /\ UNCHANGED <<pc, after, exc, bufferVars, alarm, socketVars, boundVars, acked,
                   cuts, broken, readVars>>

\* ... and the rest, or all at once, with the newline.  What is written to a
\* connection that just broke may seem to be sent.
SendEnd ==
    /\ Attempting /\ ~NeedsSocket
    /\ wire' = IF broken[conn] THEN wire
               ELSE [wire EXCEPT ![conn] =
                       Append(@, [line |-> flush.line,
                                  part |-> IF flush.begun THEN "rest" ELSE "whole"])]
    /\ acked' = [acked EXCEPT ![conn] = @ + 1]
    /\ FlushReturns
    /\ UNCHANGED <<alarm, socketVars, boundVars, cuts, broken, readVars>>

\* Mutant of SendFails: the metrics of the line are queued again, too.
SendFailsQueueing ==
    /\ Attempting /\ ~NeedsSocket /\ broken[conn]
    /\ made' = made + 1 /\ payload' = flush.line \o Grown
    /\ reconnect' = TRUE
    /\ flush' = [flush EXCEPT !.attempt = @ + 1, !.begun = FALSE]
    /\ UNCHANGED <<pc, after, exc, alarm, conn, opened, boundVars, writeVars, broken,
                   readVars>>

\* socket.error: it is logged, which publishes an error metric (the socket is
\* not marked yet), and the next attempt is to reconnect.
SendFails ==
    /\ Attempting /\ ~NeedsSocket /\ broken[conn]
    /\ made' = made + 1 /\ payload' = Grown
    /\ reconnect' = TRUE
    /\ flush' = [flush EXCEPT !.attempt = @ + 1, !.begun = FALSE]
    /\ UNCHANGED <<pc, after, exc, alarm, conn, opened, boundVars, writeVars, broken,
                   readVars>>

\* All attempts failed: the line is given up.
GiveUp ==
    /\ pc = "flushing" /\ flush.attempt = RetryCount
    /\ FlushReturns
    /\ UNCHANGED <<alarm, socketVars, boundVars, writeVars, broken, readVars>>

\* A connection breaks; of what was not read, a beginning still arrives.
Break(k) ==
    /\ breaks < MaxBreaks
    /\ k <= opened /\ ~broken[k]
    /\ breaks' = breaks + 1
    /\ broken' = [broken EXCEPT ![k] = TRUE]
    /\ \E n \in 0 .. Len(wire[k]) : wire' = [wire EXCEPT ![k] = SubSeq(@, 1, n)]
    /\ UNCHANGED <<processVars, alarm, socketVars, ofCollect, rounds, hups, acked,
                   cuts, readVars>>

(***************************************************************************)
(* The Go side: readDiamondMetrics, one goroutine per connection, and      *)
(* Collect, which parses a line at a time.                                 *)
(***************************************************************************)
\* A line with the beginning of an earlier one in it does not parse.
Parses(piece, beginnings) ==
    beginnings = IF piece.part = "rest" THEN 1 ELSE 0

\* Mutant of Read: what did not parse stays in the reader's buffer.
ReadKeepingRest(k) ==
    /\ wire[k] # <<>>
    /\ wire' = [wire EXCEPT ![k] = Tail(@)]
    /\ LET piece == Head(wire[k])
       IN \/ /\ piece.part = "begin"
             /\ begun' = [begun EXCEPT ![k] = @ + 1]
             /\ UNCHANGED <<delivered, parsed, garbled>>
          \/ /\ piece.part # "begin" /\ Parses(piece, begun[k])
             /\ begun' = [begun EXCEPT ![k] = 0]
             /\ delivered' = [delivered EXCEPT ![k] = @ \o piece.line]
             /\ parsed' = [parsed EXCEPT ![k] = @ + 1]
             /\ UNCHANGED garbled
          \/ /\ piece.part # "begin" /\ ~Parses(piece, begun[k])
             /\ begun' = [begun EXCEPT ![k] = @ + 1]
             /\ garbled' = [garbled EXCEPT ![k] = @ + 1]
             /\ UNCHANGED <<delivered, parsed>>
    /\ UNCHANGED <<processVars, alarm, socketVars, boundVars, acked, cuts, broken>>

Read(k) ==
    /\ wire[k] # <<>>
    /\ wire' = [wire EXCEPT ![k] = Tail(@)]
    /\ LET piece == Head(wire[k])
       IN \/ /\ piece.part = "begin"
             /\ begun' = [begun EXCEPT ![k] = @ + 1]
             /\ UNCHANGED <<delivered, parsed, garbled>>
          \/ /\ piece.part # "begin"
             /\ begun' = [begun EXCEPT ![k] = 0]
             /\ \/ /\ Parses(piece, begun[k])
                   /\ delivered' = [delivered EXCEPT ![k] = @ \o piece.line]
                   /\ parsed' = [parsed EXCEPT ![k] = @ + 1]
                   /\ UNCHANGED garbled
                \/ /\ ~Parses(piece, begun[k])
                   /\ garbled' = [garbled EXCEPT ![k] = @ + 1]
                   /\ UNCHANGED <<delivered, parsed>>
    /\ UNCHANGED <<processVars, alarm, socketVars, boundVars, acked, cuts, broken>>

FlushStep == FlushFull \/ Connect \/ ConnectFails \/ SendEnd \/ SendFails \/ GiveUp

Next ==
    \/ Wake \/ Publish \/ CollectReturns \/ CollectFails \/ Success
    \/ AlarmFires \/ Hup \/ Restart
    \/ FlushStep \/ SendBegin
    \/ \E k \in Connections : Break(k) \/ Read(k)

Spec == Init /\ [][Next]_vars

(***************************************************************************)
(* Fairness.  Collect owes nothing; the alarm comes, and flush goes on (a  *)
(* send waits for the Go side, which reads on: PipelineDrains).            *)
(***************************************************************************)
FairSpec ==
    /\ Spec
    /\ WF_vars(AlarmFires) /\ WF_vars(FlushStep) /\ WF_vars(Success)

(***************************************************************************)
(* Properties.                                                             *)
(***************************************************************************)
\* No metric is delivered twice, whatever is retried, cut or started again,
\* and those of one connection are delivered in the order they were made.
AtMostOnceInOrder ==
    /\ \A k \in Connections : \A i, j \in 1 .. Len(delivered[k]) :
          i < j => delivered[k][i] < delivered[k][j]
    /\ \A k, l \in Connections : k # l =>
          \A i \in 1 .. Len(delivered[k]), j \in 1 .. Len(delivered[l]) :
              delivered[k][i] # delivered[l][j]

\* A line that flush took for sent is parsed, unless its connection breaks; of
\* the others, one is lost for each line that an exception cut: the next one
\* on that connection, which is joined to the rest of the cut one.
Waiting(k) ==
    Cardinality({i \in 1 .. Len(wire[k]) : wire[k][i].part # "begin"})
CutsCostOneLine ==
    \A k \in Connections :
        /\ garbled[k] <= cuts[k]
        /\ ~broken[k] => acked[k] = parsed[k] + garbled[k] + Waiting(k)

\* The stream implements StreamPromise: a metric is held in the payload or in the
\* line of the flush, underway in the pieces on a wire, arrived when it is parsed.
Members(s) == {s[i] : i \in 1 .. Len(s)}
OnWire(w) == UNION {Members(w[i].line) : i \in 1 .. Len(w)}

Promise == INSTANCE StreamPromise WITH
    held <- Members(flush.line) \cup Members(payload),
    underway <- [k \in Connections |-> OnWire(wire[k])],
    arrived <- [k \in Connections |-> Members(delivered[k])]
PromiseKept == Promise!PromiseSpec

\* A Collect that hangs is cut off and the process sleeps again, or ends and
\* is started anew.
HungCollectIsCut == pc = "collecting" ~> pc \in {"sleeping", "ended"}

\* The comment on SIGHUP: "Reload the config if requested".
ReloadKeepsRunning == pc = "ended" => exc # "hup"
=============================================================================
