--------------------------- MODULE DiamondServer ---------------------------
(***************************************************************************)
(* fullerite_diamond_server: the loop of Server.run, which compares the    *)
(* processes it knows with the collectors its configuration names,         *)
(* terminates those it should not have and starts those it lacks.  SIGHUP  *)
(* is an exception that can leave the loop between any two steps.          *)
(*                                                                         *)
(* Actors: the server, the processes it starts, and the operator, who      *)
(* edits the configuration file and sends SIGHUP.                          *)
(***************************************************************************)
EXTENDS Integers, FiniteSets

CONSTANTS
    Names,        \* names of diamond collectors
    Startable,    \* names with a class that can be loaded and initialised
    WithoutConf,  \* names whose own configuration file cannot be read
    FirstConfig,  \* diamondCollectors when the server starts
    Processes,    \* identities of processes, taken in order
    None,         \* no name
    MaxEdits,     \* bound: edits of the configuration file
    MaxHups       \* bound: SIGHUPs

ASSUME ServerAssumption ==
    /\ Startable \subseteq Names
    /\ WithoutConf \subseteq Names
    /\ FirstConfig \subseteq Names
    /\ Processes \subseteq Nat
    /\ None \notin Names
    /\ MaxEdits \in Nat
    /\ MaxHups \in Nat

VARIABLES
    file,        \* the names in the configuration file, or None if malformed
    edits, hups,
    config,      \* self.config['diamondCollectors']
    step,        \* where the server is
    observed,    \* active_children
    toStop,      \* names left of running_processes - running_collectors
    toStart,     \* names left of running_collectors - running_processes
    starting,    \* the process that start() has forked and not yet recorded
    state,       \* state[p]: what became of process p
    name,        \* name[p]
    told         \* told[p]: p was sent SIGTERM

serverVars == <<config, step, observed, toStop, toStart, starting>>
processVars == <<state, name, told>>
vars == <<file, edits, hups, serverVars, processVars>>

Steps == {"observing", "stopping", "starting", "forking", "reloading", "dead"}

\* A process is forked, and becomes a child when start() has recorded it.
States == {"unused", "forked", "child", "ended"}

TypeOK ==
    /\ file \in (SUBSET Names) \cup {None}
    /\ edits \in 0 .. MaxEdits
    /\ hups \in 0 .. MaxHups
    /\ config \subseteq Names
    /\ step \in Steps
    /\ observed \subseteq Processes
    /\ toStop \subseteq Names \ config
    /\ toStart \subseteq config
    /\ starting \subseteq Processes
    /\ state \in [Processes -> States]
    /\ name \in [Processes -> Names \cup {None}]
    /\ told \in [Processes -> BOOLEAN]

Init ==
    /\ file = FirstConfig /\ edits = 0 /\ hups = 0
    /\ config = FirstConfig
    /\ step = "observing"
    /\ observed = {} /\ toStop = {} /\ toStart = {} /\ starting = {}
    /\ state = [p \in Processes |-> "unused"]
    /\ name = [p \in Processes |-> None]
    /\ told = [p \in Processes |-> FALSE]

Children == {p \in Processes : state[p] = "child"}
Alive == {p \in Processes : state[p] \in {"forked", "child"}}
NamesOf(ps) == {name[p] : p \in ps}


\* Mutant of Observe: processes that should not run are not looked for.
ObserveOnlyMissing ==
    /\ step = "observing"
    /\ observed' = Children
    /\ toStop' = {}
    /\ toStart' = config \ NamesOf(Children)
    /\ step' = "stopping"
    /\ UNCHANGED <<file, edits, hups, config, starting, processVars>>

\* active_children reaps the processes that ended.
Observe ==
    /\ step = "observing"
    /\ observed' = Children
    /\ toStop' = NamesOf(Children) \ config
    /\ toStart' = config \ NamesOf(Children)
    /\ step' = "stopping"
    /\ UNCHANGED <<file, edits, hups, config, starting, processVars>>

\* One name of the first loop; terminate() does not wait for the process.
Stop(n) ==
    /\ step = "stopping"
    /\ n \in toStop
    /\ told' = [p \in Processes |-> told[p] \/ (p \in observed /\ name[p] = n)]
    /\ toStop' = toStop \ {n}
    /\ UNCHANGED <<file, edits, hups, config, step, observed, toStart, starting,
                   state, name>>

AllStopped ==
    /\ step = "stopping"
    /\ toStop = {}
    /\ step' = "starting"
    /\ UNCHANGED <<file, edits, hups, config, observed, toStop, toStart, starting,
                   processVars>>

\* An exception nothing catches: multiprocessing ends the children it knows.
Die ==
    /\ step' = "dead"
    /\ state' = [p \in Processes |-> IF p \in Children THEN "ended" ELSE state[p]]
    /\ UNCHANGED <<file, edits, config, observed, toStop, toStart, starting, name,
                   told>>

\* One name of the second loop.  No class, or none that can be made: an error
\* is logged ...
StartNothing(n) ==
    /\ step = "starting"
    /\ n \in toStart \ Startable
    /\ toStart' = toStart \ {n}
    /\ UNCHANGED <<file, edits, hups, config, step, observed, toStop, starting,
                   processVars>>

\* ... the file <name>.conf cannot be read: load_config raises ...
MissConf(n) ==
    /\ step = "starting"
    /\ n \in toStart \cap WithoutConf
    /\ Die
    /\ UNCHANGED hups

\* Mutant of Fork: the name stays in the set.
ForkAgain(n) ==
    /\ step = "starting"
    /\ n \in (toStart \cap Startable) \ WithoutConf
    /\ \E p \in Processes :
          /\ state[p] = "unused"
          /\ \A q \in Processes : q < p => state[q] # "unused"
          /\ state' = [state EXCEPT ![p] = "forked"]
          /\ name' = [name EXCEPT ![p] = n]
          /\ starting' = {p}
    /\ step' = "forking"
    /\ UNCHANGED <<file, edits, hups, config, observed, toStop, toStart, told>>

\* ... or start() forks a process ...
Fork(n) ==
    /\ step = "starting"
    /\ n \in (toStart \cap Startable) \ WithoutConf
    /\ \E p \in Processes :
          /\ state[p] = "unused"
          /\ \A q \in Processes : q < p => state[q] # "unused"
          /\ state' = [state EXCEPT ![p] = "forked"]
          /\ name' = [name EXCEPT ![p] = n]
          /\ starting' = {p}
    /\ toStart' = toStart \ {n}
    /\ step' = "forking"
    /\ UNCHANGED <<file, edits, hups, config, observed, toStop, told>>

\* ... and records it as a child.
Record ==
    /\ step = "forking"
    /\ state' = [p \in Processes |->
                   IF p \in starting /\ state[p] = "forked" THEN "child" ELSE state[p]]
    /\ starting' = {}
    /\ step' = "starting"
    /\ UNCHANGED <<file, edits, hups, config, observed, toStop, toStart, name, told>>

AllStarted ==
    /\ step = "starting"
    /\ toStart = {}
    /\ step' = "observing"
    /\ UNCHANGED <<file, edits, hups, config, observed, toStop, toStart, starting,
                   processVars>>

\* Mutant of Hup: the signal is caught inside the loop, which goes on.
HupInPlace ==
    /\ hups < MaxHups
    /\ hups' = hups + 1
    /\ file # None
    /\ config' = file
    /\ step # "dead"
    /\ UNCHANGED <<file, edits, step, observed, toStop, toStart, starting,
                   processVars>>

\* Mutant of Hup: the rest of the loop is resumed after the reload.
HupKeepingLists ==
    /\ hups < MaxHups
    /\ hups' = hups + 1
    /\ step \notin {"reloading", "dead"}
    /\ step' = "reloading"
    /\ UNCHANGED <<file, edits, config, observed, toStop, toStart, starting,
                   processVars>>

\* SIGHUPException leaves the loop; a process that was being started is not
\* recorded any more.  While the first is handled a second one kills.
Hup ==
    /\ hups < MaxHups
    /\ hups' = hups + 1
    /\ \/ /\ step \notin {"reloading", "dead"}
          /\ step' = "reloading"
          /\ toStop' = {} /\ toStart' = {} /\ starting' = {}
          /\ UNCHANGED <<file, edits, config, observed, processVars>>
       \/ step = "reloading" /\ Die

\* initialize_collector catches every exception, SIGHUPException as well: the
\* collector is skipped and nothing reloaded.
HupSwallowed(n) ==
    /\ hups < MaxHups
    /\ hups' = hups + 1
    /\ step = "starting"
    /\ n \in (toStart \cap Startable) \ WithoutConf
    /\ toStart' = toStart \ {n}
    /\ UNCHANGED <<file, edits, config, step, observed, toStop, starting,
                   processVars>>

\* A file that cannot be read raises where nothing catches.
Reload ==
    /\ step = "reloading"
    /\ \/ /\ file # None
          /\ config' = file
          /\ step' = "observing"
          /\ UNCHANGED <<file, edits, hups, observed, toStop, toStart, starting,
                         processVars>>
       \/ file = None /\ Die /\ UNCHANGED hups

Edit ==
    /\ edits < MaxEdits
    /\ edits' = edits + 1
    /\ file' \in ((SUBSET Names) \cup {None}) \ {file}
    /\ UNCHANGED <<hups, serverVars, processVars>>

\* A process ends by itself or of SIGTERM.
End(p) ==
    /\ p \in Alive
    /\ state' = [state EXCEPT ![p] = "ended"]
    /\ UNCHANGED <<file, edits, hups, serverVars, name, told>>

ServerStep ==
    \/ Observe
    \/ \E n \in Names : Stop(n) \/ StartNothing(n) \/ MissConf(n) \/ Fork(n)
    \/ AllStopped
    \/ Record
    \/ AllStarted
    \/ Reload

Next ==
    \/ ServerStep
    \/ Hup
    \/ \E n \in Names : HupSwallowed(n)
    \/ Edit
    \/ \E p \in Processes : End(p)

Spec == Init /\ [][Next]_vars

(***************************************************************************)
(* Fairness.  The loop goes on, and a process that was sent SIGTERM, whose *)
(* action it leaves at the default, ends.                                  *)
(***************************************************************************)
Fairness ==
    /\ WF_vars(ServerStep)
    /\ \A p \in Processes : WF_vars(told[p] /\ End(p))

FairSpec == Spec /\ Fairness

(***************************************************************************)
(* Properties.                                                             *)
(***************************************************************************)
\* Processes the server has lost: a SIGHUP came between the fork and the
\* record.  They live on, also after the server.
Orphans == {p \in Alive : state[p] = "forked" /\ p \notin starting}

\* The server starts no second process for a collector that has one, whatever
\* ends, is edited or reloaded meanwhile, except beside an orphan; and there
\* is at most one orphan for a SIGHUP.
OneProcessPerCollector ==
    /\ \A p, q \in Alive :
          p # q /\ name[p] = name[q] => p \in Orphans \/ q \in Orphans
    /\ Cardinality(Orphans) <= hups

\* Nobody is told to stop whose name the configuration has: the sets of one
\* turn of the loop are never used with the configuration of another.
StopsOnlyUnwanted ==
    [][\A p \in Processes : told'[p] # told[p] => name[p] \notin config']_vars

\* A configured collector that is not running is started (again), unless the
\* server dies, drops it from the configuration, or has it only as a name; the
\* identities of processes may be used up.
UsedUp == \A p \in Processes : state[p] # "unused"
Running(n) == \E p \in Children : name[p] = n

\* A process whose collector was dropped from the configuration ends.
UnwantedEnds ==
    \A p \in Processes :
        p \in Children /\ name[p] \notin config
            ~> p \notin Children \/ name[p] \in config
=============================================================================
