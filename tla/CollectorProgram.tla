-------------------------- MODULE CollectorProgram --------------------------
(***************************************************************************)
(* The control structure of a python collector as a value: a program is a  *)
(* sequence of statements, so that programs are joined by \o, a method is  *)
(* an operator, and a call of it stands for its body.  CollectorRounds     *)
(* executes programs.                                                      *)
(*                                                                         *)
(* Of what a collector computes, a program keeps what decides where        *)
(* control goes: where the outside is asked and which classes of           *)
(* exceptions that may raise, what is caught and by whom, where metrics    *)
(* are published and errors logged, and which facts are remembered.  A     *)
(* condition on data is a choice (Either, When), a loop over data takes    *)
(* any number of turns (Many), a loop over configured instances takes all  *)
(* of them (EachInstance).                                                 *)
(***************************************************************************)
EXTENDS Sequences, TLC

(***************************************************************************)
(* Classes of exceptions.  "Io" is what a source raises that is away or    *)
(* refuses: OSError, IOError, socket.error, HTTPError, a client library's  *)
(* error; where the code tells the two apart, "Away" is of the source that *)
(* is not there (OSError of Popen, URLError) and "Io" of the one that      *)
(* refuses (CalledProcessError, HTTPError).  "Value" (ValueError,          *)
(* TypeError, an assertion) and "Key" (KeyError, IndexError,               *)
(* AttributeError, an unbound name) come of an answer, or a configuration, *)
(* that is not as expected.  "Metric" is DiamondException, which Metric    *)
(* raises for a value that is None or text and no number.  "Alarm" is      *)
(* SIGALRMException, which derives from Exception like all of these.       *)
(***************************************************************************)
Alarm  == "Alarm"
Errors == {"Io", "Away", "Value", "Key", "Metric"}
Every  == Errors \cup {Alarm}

\* Ask a source outside of the process and wait: it answers, raises one of
\* excs, or never does either.
Ask(source, excs) == << [op |-> "ask", source |-> source, excs |-> excs] >>

\* A computation on an answer that may raise one of excs.
Parse(excs) == << [op |-> "parse", excs |-> excs] >>

\* self.dimensions = ...; and the publication of a metric without or with them,
\* of a number or of a value the collector has not made one.
Dims == << [op |-> "dims", to |-> "own"] >>
NoDims == << [op |-> "dims", to |-> "none"] >>
Publish == << [op |-> "publish", own |-> FALSE, excs |-> {}] >>
PublishOwn == << [op |-> "publish", own |-> TRUE, excs |-> {}] >>
PublishText == << [op |-> "publish", own |-> FALSE, excs |-> {"Metric"}] >>
PublishTextOwn == << [op |-> "publish", own |-> TRUE, excs |-> {"Metric"}] >>

\* An error message: without an exception, and inside an except clause or
\* after one, where sys.exc_info() still names it.
LogError == << [op |-> "log", inExcept |-> FALSE] >>
LogException == << [op |-> "log", inExcept |-> TRUE] >>

\* Control: the call of a function and its return, loops, exceptions.
Call(body) == << [op |-> "call", body |-> body] >>
Return == << [op |-> "return"] >>
Continue == << [op |-> "continue"] >>
Break == << [op |-> "break"] >>
Raise(exc) == << [op |-> "raise", exc |-> exc] >>
EachInstance(body) == << [op |-> "loop", kind |-> "instances", body |-> body] >>
Many(body) == << [op |-> "loop", kind |-> "data", body |-> body] >>
Forever(body) == << [op |-> "loop", kind |-> "forever", body |-> body] >>

\* try with its except clauses: a function from classes of exceptions to the
\* programs that handle them.  Clauses are joined by @@: the first one wins.
Catch(classes, handler) == [e \in classes |-> handler]
Try(body, clauses) == << [op |-> "try", body |-> body, clauses |-> clauses] >>

\* Conditions on data.
Either(this, that) == << [op |-> "either", this |-> this, that |-> that] >>
When(body) == Either(body, <<>>)

\* Facts: a local variable is noted and is gone with the round; an attribute of
\* the collector is kept for the rounds to come, with the instance it is about.
\* An attribute that is a dictionary has an entry by what the code makes the key
\* of, so that two instances with the same key share the entry: "nickname", the
\* text after the last / of a connection string, "hostname", the host without its
\* port, or "instance", a name no other instance has.  By "none" there is only one.
Keys == {"none", "nickname", "hostname", "instance"}

Note(fact) == << [op |-> "note", fact |-> fact] >>
Drop(fact) == << [op |-> "drop", fact |-> fact] >>
KeepBy(by, fact) == << [op |-> "keep", fact |-> fact, by |-> by] >>
ForgetBy(by, fact) == << [op |-> "forget", fact |-> fact, by |-> by] >>
UseBy(by, fact) == << [op |-> "use", fact |-> fact, by |-> by] >>
IfKnownBy(by, fact, yes, no) == << [op |-> "if", fact |-> fact, by |-> by, yes |-> yes, no |-> no] >>
Keep(fact) == KeepBy("none", fact)
Use(fact) == UseBy("none", fact)
IfKnown(fact, yes, no) == IfKnownBy("none", fact, yes, no)

\* Collector.derivative takes the value before from last_values, by the path of the
\* metric, and leaves the new one there; publish_counter publishes what it returns.
Derivative(by) == UseBy(by, "last_values") \o KeepBy(by, "last_values")
PublishCounter(by) == Derivative(by) \o Publish

\* The blocks of a statement that run in the function and the loop it is in.
Blocks(s) ==
    CASE s.op = "try"    -> {s.body} \cup {s.clauses[exc] : exc \in DOMAIN s.clauses}
      [] s.op = "either" -> {s.this, s.that}
      [] s.op = "if"     -> {s.yes, s.no}
      [] OTHER           -> {}

\* The ways a statement may be left other than at its end, given those of its blocks:
\* an exception but the alarm, return or break.
WaysOut(s, exits) ==
    CASE s.op \in {"ask", "parse", "publish"} -> s.excs
      [] s.op = "raise" -> {s.exc}
      [] s.op \in {"return", "break"} -> {s.op}
      [] s.op = "call" -> exits[s.body] \ {"return"}
      [] s.op = "loop" -> exits[s.body] \ {"break"}
      [] s.op = "try" -> (exits[s.body] \ DOMAIN s.clauses)
                         \cup UNION {exits[s.clauses[exc]] : exc \in DOMAIN s.clauses}
      [] s.op \in {"either", "if"} -> UNION {exits[block] : block \in Blocks(s)}
      [] OTHER -> {}
=============================================================================
