-------------------------- MODULE CollectorRounds ---------------------------
(***************************************************************************)
(* The rounds of one python collector: collector_process sets the alarm,   *)
(* Collector._run calls collect, whose program is executed here a          *)
(* statement at a time.  Every source may answer, fail or keep silent; the *)
(* alarm is an exception that strikes between any two statements.          *)
(*                                                                         *)
(* What is left to do is a sequence of statements, the innermost first.    *)
(* Markers in it say where a call, a try or a turn of a loop ends, so that *)
(* return, continue, break and an exception drop what is before a marker.  *)
(***************************************************************************)
EXTENDS Naturals, SequencesExt, CollectorProgram

CONSTANTS
    Program,        \* function from collectors to the programs of their collect
    Straight,       \* their statements that are in no loop of their function,
    Looped,         \* and those that are in one
    CodeOf,         \* function from collectors to all blocks of their code
    Exits,          \* function from those blocks to the ways they may be left early
    HidingFailures, \* collectors that are expected to hide a failure of a source,
    HidingAlarms,   \* or an alarm,
    Isolating,      \* to go on with the other instances when one fails,
    Sharing,        \* or to use for one instance what they remember of another
    Instances,      \* how many instances (hosts, urls, ports) are configured or found
    KeyOf,          \* what an instance has for a key of an attribute's dictionary
    MaxTurns,       \* bound: turns of a loop over data
    MaxRounds       \* bound: rounds

ASSUME RoundsAssumption ==
    /\ Instances \in Nat \ {0}
    /\ MaxTurns \in Nat /\ MaxRounds \in Nat \ {0}
    /\ DOMAIN KeyOf = Keys /\ \A by \in Keys : 0 .. Instances \subseteq DOMAIN KeyOf[by]

Members(block) == {block[i] : i \in DOMAIN block}
StatementsOf(c) == UNION {Members(block) : block \in CodeOf[c]}

\* What the python compiler makes sure of: a function has its body, and break and
\* continue are in a loop.
ASSUME CodeAssumption ==
    /\ \A c \in DOMAIN Program : Program[c] \in Seq(Straight)
    /\ \A s \in Straight \cup Looped :
          /\ s.op \notin {"end", "again"}
          /\ s.op \in {"call", "loop"} =>
                s.body \in Seq(IF s.op = "call" THEN Straight ELSE Looped)
          /\ s.op \in {"ask", "parse", "publish"} => s.excs \subseteq Every
          /\ s.op = "raise" => s.exc \in Every
          /\ s.op = "dims" => s.to \in {"none", "own"}
          /\ s.op \in {"keep", "forget", "use", "if"} => s.by \in Keys
    /\ \A s \in Straight :
          s.op \notin {"continue", "break"} /\ Blocks(s) \subseteq Seq(Straight)
    /\ \A s \in Looped : Blocks(s) \subseteq Seq(Looped)
    /\ \A c \in DOMAIN Program :
          /\ Call(Program[c]) \in CodeOf[c]
          /\ \A block \in CodeOf[c] : block \in Seq(Members(block))
          /\ \A s \in StatementsOf(c) :
                /\ s.op \notin {"end", "again"}
                /\ Blocks(s) \subseteq CodeOf[c]
                /\ s.op \in {"call", "loop"} => s.body \in CodeOf[c]
                /\ s.op = "try" => DOMAIN s.clauses \subseteq Every

\* Exits leaves out no way in which a statement of a block may be left.
ASSUME ExitsAssumption ==
    \A c \in DOMAIN Program : \A block \in CodeOf[c] : \A i \in DOMAIN block :
        WaysOut(block[i], Exits) \subseteq Exits[block]

VARIABLES
    collector,      \* which collector this process runs
    todo,           \* what is left of the round, innermost first
    outcome,        \* "none" while the round runs, then how it ended
    alarm,          \* "idle", "set" or "rung"
    dims,           \* self.dimensions: none, a metric's own, or an error's
    noted, kept,    \* local facts, and attributes with the instance they are about
    connected,      \* can_publish_metric()
    rounds,         \* rounds begun
    reached,        \* instances whose turn came in this round
    failed,         \* instances in whose turn a source failed (0: outside)
    noticed         \* an error was logged in this round

roundVars == <<reached, failed, noticed>>
vars == <<collector, todo, outcome, alarm, dims, noted, kept, connected, rounds, roundVars>>

-----------------------------------------------------------------------------
\* Markers.
End(what) == << [op |-> "end", what |-> what, clauses |-> <<>>] >>
EndTry(clauses) == << [op |-> "end", what |-> "try", clauses |-> clauses] >>
Again(loop, turn) == << [op |-> "again", loop |-> loop, turn |-> turn] >>

Running == outcome = "none"
At(op) == Running /\ todo # <<>> /\ todo[1].op = op
Rest == Tail(todo)
From(n) == SubSeq(todo, n, Len(todo))

\* The instance whose turn it is; 0 outside of the loop over instances.
Turns == { i \in DOMAIN todo : todo[i].op = "again" /\ todo[i].loop.kind = "instances" }
Here == IF Turns = {} THEN 0 ELSE todo[Min(Turns)].turn

\* An exception goes to the innermost try that has a clause for it, or ends the round.
Throw(exc) ==
    LET handler == SelectInSeq(todo, LAMBDA s : /\ s.op = "end" /\ s.what = "try"
                                                /\ exc \in DOMAIN s.clauses)
    IN  IF handler = 0
        THEN /\ outcome' = exc /\ todo' = <<>>
        ELSE /\ todo' = todo[handler].clauses[exc] \o From(handler + 1)
             /\ UNCHANGED outcome

Goto(program) == todo' = program /\ UNCHANGED outcome

-----------------------------------------------------------------------------
Init ==
    /\ collector \in DOMAIN Program
    /\ todo = <<>> /\ outcome = "returned" /\ alarm = "idle"
    /\ dims = "none" /\ noted = {} /\ kept = <<>> /\ connected = FALSE
    /\ rounds = 0
    /\ reached = {} /\ failed = {} /\ noticed = FALSE

\* Mutant of StartRound: no alarm is set.
StartRoundUntimed ==
    /\ ~Running /\ rounds < MaxRounds
    /\ rounds' = rounds + 1
    /\ todo' = Call(Program[collector]) /\ outcome' = "none" /\ alarm' = "idle"
    /\ dims' = IF outcome = "returned" THEN dims ELSE "none"
    /\ kept' = IF outcome \in Errors THEN <<>> ELSE kept
    /\ connected' = (rounds > 0 /\ outcome \notin Errors)
    /\ noted' = {} /\ reached' = {} /\ failed' = {} /\ noticed' = FALSE
    /\ UNCHANGED collector

\* The next round.  The last one may have raised: then _run has reported that,
\* and of SIGALRM the scheduler has published collection_time_exceeded; after
\* any other exception the server has started a new process.
StartRound ==
    /\ ~Running /\ rounds < MaxRounds
    /\ rounds' = rounds + 1
    /\ todo' = Call(Program[collector]) /\ outcome' = "none" /\ alarm' = "set"
    /\ dims' = IF outcome = "returned" THEN dims ELSE "none"
    /\ kept' = IF outcome \in Errors THEN <<>> ELSE kept
    /\ connected' = (rounds > 0 /\ outcome \notin Errors)
    /\ noted' = {} /\ reached' = {} /\ failed' = {} /\ noticed' = FALSE
    /\ UNCHANGED collector

\* collect returned; the alarm is switched off.
EndRound ==
    /\ Running /\ todo = <<>>
    /\ outcome' = "returned"
    /\ alarm' = IF alarm = "set" THEN "idle" ELSE alarm
    /\ UNCHANGED <<collector, todo, dims, noted, kept, connected, rounds, roundVars>>

\* SIGALRM: once in a round, wherever the process is.
AlarmRings ==
    /\ Running /\ alarm = "set"
    /\ alarm' = "rung"
    /\ Throw(Alarm)
    /\ UNCHANGED <<collector, dims, noted, kept, connected, rounds, roundVars>>

-----------------------------------------------------------------------------
\* What most statements leave alone.
Still == UNCHANGED <<collector, alarm, connected, rounds>>
Facts == UNCHANGED <<noted, kept>>

\* A source answers, or what it does or says raises an exception.
Answer ==
    /\ At("ask") \/ At("parse")
    /\ Goto(Rest)
    /\ Still /\ Facts /\ UNCHANGED <<dims, roundVars>>

Fail ==
    /\ At("ask") \/ At("parse")
    /\ \E exc \in todo[1].excs : Throw(exc)
    /\ failed' = IF At("ask") THEN failed \cup {Here} ELSE failed
    /\ Still /\ Facts /\ UNCHANGED <<dims, reached, noticed>>

SetDims ==
    /\ At("dims")
    /\ dims' = todo[1].to
    /\ Goto(Rest) /\ Still /\ Facts /\ UNCHANGED roundVars

\* Mutant of PublishMetric: the dimensions are left for the next metric.
PublishMetricLeavingDims ==
    /\ At("publish")
    /\ Goto(Rest) /\ Still /\ Facts /\ UNCHANGED <<dims, roundVars>>

\* publish takes self.dimensions, whoever set them.
PublishMetric ==
    /\ At("publish")
    /\ dims' = "none"
    /\ Goto(Rest) /\ Still /\ Facts /\ UNCHANGED roundVars

\* Metric refuses the value: the error is logged, with an exception, and raised.
PublishFails ==
    /\ At("publish")
    /\ \E exc \in todo[1].excs : Throw(exc)
    /\ noticed' = TRUE
    /\ dims' = IF connected THEN "none" ELSE "error"
    /\ Still /\ Facts /\ UNCHANGED <<reached, failed>>

\* The error handler of the logger calls report_error, which sets dimensions of
\* its own when there is an exception and publishes a metric when it can.
LogAnError ==
    /\ At("log")
    /\ noticed' = TRUE
    /\ dims' = CASE connected -> "none"
                 [] ~connected /\ todo[1].inExcept -> "error"
                 [] OTHER -> dims
    /\ Goto(Rest) /\ Still /\ Facts /\ UNCHANGED <<reached, failed>>

\* Mutant of CallFunction: return would leave more than the call.
CallFunctionUnmarked ==
    /\ At("call")
    /\ Goto(todo[1].body \o Rest)
    /\ Still /\ Facts /\ UNCHANGED <<dims, roundVars>>

CallFunction ==
    /\ At("call")
    /\ Goto(todo[1].body \o End("call") \o Rest)
    /\ Still /\ Facts /\ UNCHANGED <<dims, roundVars>>

ReturnFromCall ==
    /\ At("return")
    /\ Goto(From(1 + SelectInSeq(todo, LAMBDA s : s.op = "end" /\ s.what = "call")))
    /\ Still /\ Facts /\ UNCHANGED <<dims, roundVars>>

EnterTry ==
    /\ At("try")
    /\ Goto(todo[1].body \o EndTry(todo[1].clauses) \o Rest)
    /\ Still /\ Facts /\ UNCHANGED <<dims, roundVars>>

LeaveBlock ==
    /\ At("end")
    /\ Goto(Rest)
    /\ Still /\ Facts /\ UNCHANGED <<dims, roundVars>>

RaiseException ==
    /\ At("raise")
    /\ Throw(todo[1].exc)
    /\ Still /\ Facts /\ UNCHANGED <<dims, roundVars>>

\* A loop takes its first or its next turn, or ends: over instances after the
\* last one, over data after any number of turns.
Turn ==
    /\ At("loop") \/ At("again")
    /\ LET loop == IF At("loop") THEN todo[1] ELSE todo[1].loop
           turn == IF At("loop") THEN 1 ELSE todo[1].turn + 1
       IN  /\ loop.kind = "instances" => turn <= Instances
           /\ loop.kind = "data" => turn <= MaxTurns
           /\ Goto(loop.body \o Again(loop, IF loop.kind = "forever" THEN 1 ELSE turn) \o Rest)
           /\ reached' = IF loop.kind = "instances" THEN reached \cup {turn} ELSE reached
    /\ Still /\ Facts /\ UNCHANGED <<dims, failed, noticed>>

EndLoop ==
    /\ At("loop") \/ At("again")
    /\ At("loop") => todo[1].kind = "data"
    /\ At("again") => \/ todo[1].loop.kind = "data"
                      \/ todo[1].loop.kind = "instances" /\ todo[1].turn = Instances
    /\ Goto(Rest)
    /\ Still /\ Facts /\ UNCHANGED <<dims, roundVars>>

ContinueOrBreak ==
    /\ At("continue") \/ At("break")
    /\ LET loop == SelectInSeq(todo, LAMBDA s : s.op = "again")
       IN  Goto(From(IF At("break") THEN loop + 1 ELSE loop))
    /\ Still /\ Facts /\ UNCHANGED <<dims, roundVars>>

Choose ==
    /\ At("either")
    /\ Goto(todo[1].this \o Rest) \/ Goto(todo[1].that \o Rest)
    /\ Still /\ Facts /\ UNCHANGED <<dims, roundVars>>

\* Facts.
NoteFact ==
    /\ At("note") \/ At("drop")
    /\ noted' = IF At("note") THEN noted \cup {todo[1].fact} ELSE noted \ {todo[1].fact}
    /\ Goto(Rest) /\ Still /\ UNCHANGED <<kept, dims, roundVars>>

\* Of an attribute the entry that the instance whose turn it is has, or shares.
Entry == [fact |-> todo[1].fact, of |-> KeyOf[todo[1].by][Here]]

KeepFact ==
    /\ At("keep")
    /\ kept' = [e \in DOMAIN kept \cup {Entry} |-> IF e = Entry THEN Here ELSE kept[e]]
    /\ Goto(Rest) /\ Still /\ UNCHANGED <<noted, dims, roundVars>>

ForgetFact ==
    /\ At("forget")
    /\ kept' = [e \in DOMAIN kept \ {Entry} |-> kept[e]]
    /\ Goto(Rest) /\ Still /\ UNCHANGED <<noted, dims, roundVars>>

UseFact ==
    /\ At("use")
    /\ Goto(Rest) /\ Still /\ Facts /\ UNCHANGED <<dims, roundVars>>

TestFact ==
    /\ At("if")
    /\ LET known == todo[1].fact \in noted \/ Entry \in DOMAIN kept
       IN  Goto((IF known THEN todo[1].yes ELSE todo[1].no) \o Rest)
    /\ Still /\ Facts /\ UNCHANGED <<dims, roundVars>>

Step ==
    \/ Answer \/ Fail \/ SetDims \/ PublishMetric \/ PublishFails \/ LogAnError
    \/ CallFunction \/ ReturnFromCall \/ EnterTry \/ LeaveBlock \/ RaiseException
    \/ Turn \/ EndLoop \/ ContinueOrBreak \/ Choose
    \/ NoteFact \/ KeepFact \/ ForgetFact \/ UseFact \/ TestFact

Next == StartRound \/ EndRound \/ AlarmRings \/ Step

Spec == Init /\ [][Next]_vars

(***************************************************************************)
(* Fairness.  The process executes statements as long as it waits for      *)
(* nothing, and an alarm that is set rings.  Nothing is assumed of what a  *)
(* collector asks: it may wait for an answer for ever.                     *)
(***************************************************************************)
Fairness ==
    /\ WF_vars((Step /\ ~At("ask")) \/ EndRound)
    /\ WF_vars(AlarmRings)

FairSpec == Spec /\ Fairness

-----------------------------------------------------------------------------
\* The type invariant: return, continue and break have what they refer to in the
\* innermost call, and between rounds nothing is left to do.
InCall(op) ==
    LET call == SelectInSeq(todo, LAMBDA s : s.op = "end" /\ s.what = "call")
    IN  \E i \in DOMAIN todo : todo[i].op = op /\ i <= call

TypeOK ==
    /\ collector \in DOMAIN Program
    /\ outcome \in {"none", "returned"} \cup Every
    /\ alarm \in {"idle", "set", "rung"}
    /\ dims \in {"none", "own", "error"}
    /\ connected \in BOOLEAN /\ noticed \in BOOLEAN
    /\ rounds \in 0 .. MaxRounds
    /\ failed \cup reached \subseteq 0 .. Instances
    /\ \A e \in DOMAIN kept :
          kept[e] \in 0 .. Instances /\ \E by \in Keys : e.of = KeyOf[by][kept[e]]
    /\ ~Running => todo = <<>>
    /\ At("return") => InCall("end")
    /\ At("continue") \/ At("break") => InCall("again")

(***************************************************************************)
(* What a program can be seen to keep to, and what follows of its rounds.  *)
(***************************************************************************)
\* What a source, a raise statement or the alarm may throw.
Thrown(c) ==
    {Alarm} \cup {s.exc : s \in {t \in StatementsOf(c) : t.op = "raise"}}
            \cup UNION {s.excs : s \in {t \in StatementsOf(c) : t.op = "ask"}}

\* Collectors whose except clauses log, or raise again, before anything else.
LogsFirst ==
    {c \in DOMAIN Program :
        \A s \in StatementsOf(c) : s.op = "try" =>
            \A exc \in DOMAIN s.clauses \cap Thrown(c) :
                s.clauses[exc] # <<>> /\ s.clauses[exc][1].op \in {"log", "raise"}}

\* A round that returns although a source failed, or although it was cut off,
\* has logged an error; any other round ends with the exception.
FailuresNoticed ==
    outcome = "returned" =>
        /\ failed # {} /\ (collector \in LogsFirst \/ collector \notin HidingFailures)
           => noticed
        /\ alarm = "rung" /\ (collector \in LogsFirst \/ collector \notin HidingAlarms)
           => noticed

\* Collectors that set dimensions for the very next statement, which publishes, and
\* if they do, log the alarm where they catch it.
SetsOwn(s) == s.op = "dims"
PublishesOwn(s) == s.op = "publish" /\ s.own
DimsAtOnce ==
    {c \in DOMAIN Program :
        /\ \A block \in CodeOf[c] : \A i \in DOMAIN block :
              /\ SetsOwn(block[i]) =>
                    i + 1 \in DOMAIN block /\ PublishesOwn(block[i + 1]) /\ block[i].to = "own"
              /\ PublishesOwn(block[i]) => i > 1 /\ SetsOwn(block[i - 1])
        /\ (\E s \in StatementsOf(c) : SetsOwn(s)) =>
              \A s \in StatementsOf(c) : s.op = "try" /\ Alarm \in DOMAIN s.clauses =>
                  /\ s.clauses[Alarm] # <<>> /\ s.clauses[Alarm][1].op = "log"
                  /\ s.clauses[Alarm][1].inExcept}

\* A metric has the dimensions the collector set for it, and none set for another
\* one, except that the first metric after an error that was logged when there was
\* no connection yet has the error's.
OwnDimensions ==
    At("publish") => dims = "error" \/ (dims = "own" <=> todo[1].own)

\* A key by which no two instances have the same entry.
TellsApart(by) ==
    \A i, j \in 0 .. Instances : KeyOf[by][i] = KeyOf[by][j] => i = j

\* Collectors that have no instances, or that use attributes only by keys that tell
\* these apart, and by the same key wherever they are used and kept.
KeepsApart ==
    {c \in DOMAIN Program :
        \/ \A s \in StatementsOf(c) : s.op = "loop" => s.kind # "instances"
        \/ \A use \in {s \in StatementsOf(c) : s.op = "use"} :
              /\ TellsApart(use.by)
              /\ \A s \in StatementsOf(c) : s.op = "keep" /\ s.fact = use.fact => s.by = use.by}

\* What is remembered of an instance is only used for that instance.
OwnMemory ==
    /\ collector \in KeepsApart \/ collector \notin Sharing
    /\ At("use") /\ Entry \in DOMAIN kept
    => kept[Entry] = Here

\* Collectors that leave the turn of an instance at its end only, unless the alarm
\* rings.
Isolates ==
    {c \in DOMAIN Program :
        \A s \in StatementsOf(c) : s.op = "loop" /\ s.kind = "instances" => Exits[s.body] = {}}

\* One instance that fails, or answers nonsense, does not take their turn from the
\* others: in a round that is not cut off all have theirs, or none has.
OthersGoOn ==
    /\ collector \in Isolates \/ collector \in Isolating
    /\ ~Running /\ alarm # "rung" /\ reached # {}
    => reached = 1 .. Instances
=============================================================================
