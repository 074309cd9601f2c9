---------------------------- MODULE DockerStats -----------------------------
(***************************************************************************)
(* The Docker collector.  Collect lists the containers and starts a        *)
(* goroutine for each, which waits for Docker's statistics, compares them  *)
(* with the last ones under a lock, and publishes.  A goroutine waits as   *)
(* long as the interval, so those of two rounds may overlap.               *)
(*                                                                         *)
(* Collect adds to the map of last values without the lock; Go may end the *)
(* process when a goroutine reads the map meanwhile.  After that nothing   *)
(* is published, so the model leaves that outcome out.                     *)
(***************************************************************************)
EXTENDS Naturals, TLC

CONSTANTS
    Containers,      \* the IDs of containers
    Word,            \* 2^64: counters are unsigned
    MaxRounds,       \* bound: rounds of Collect
    MaxTime,         \* bound: units of CPU time of the host, fewer than Word
    MaxRestarts      \* bound: restarts of containers

Rounds == 1 .. MaxRounds

VARIABLES
    systemUsage,         \* the host's CPU time
    totalUsage,          \* totalUsage[c]: that of container c since its start
    restarts,
    round,               \* rounds of Collect begun
    listed,              \* containers the round has still to inspect
    previousCPUValues,   \* the map: per container seen, the last values
    info,                \* info[c][r]: getDockerContainerInfo for c in round r
    published            \* history: changes that a percentage was made of

hostVars == <<systemUsage, totalUsage, restarts>>
vars == <<hostVars, round, listed, previousCPUValues, info, published>>

NoValues == [totCPU |-> 0, systemCPU |-> 0]
Waiting(step) == [step |-> step, stats |-> NoValues]

Init ==
    /\ systemUsage = 0
    /\ totalUsage = [c \in Containers |-> 0]
    /\ restarts = 0
    /\ round = 0
    /\ listed = {}
    /\ previousCPUValues = <<>>
    /\ info = [c \in Containers |-> [r \in Rounds |-> Waiting("none")]]
    /\ published = {}

\* The host works, for some of the containers.
Work ==
    /\ systemUsage < MaxTime
    /\ systemUsage' = systemUsage + 1
    /\ \E busy \in SUBSET Containers :
          totalUsage' = [c \in Containers |->
                            IF c \in busy THEN totalUsage[c] + 1 ELSE totalUsage[c]]
    /\ UNCHANGED <<restarts, round, listed, previousCPUValues, info, published>>

\* A container is restarted: it keeps its ID and counts from 0 again.
Restart(c) ==
    /\ restarts < MaxRestarts
    /\ restarts' = restarts + 1
    /\ totalUsage' = [totalUsage EXCEPT ![c] = 0]
    /\ UNCHANGED <<systemUsage, round, listed, previousCPUValues, info, published>>

\* Collect lists the containers that run; none, if that fails.
Collect ==
    /\ listed = {}
    /\ round < MaxRounds
    /\ round' = round + 1
    /\ listed' \in SUBSET Containers
    /\ UNCHANGED <<hostVars, previousCPUValues, info, published>>

\* One turn of its loop: the container cannot be inspected or is to be skipped ...
Skip(c) ==
    /\ c \in listed
    /\ listed' = listed \ {c}
    /\ UNCHANGED <<hostVars, round, previousCPUValues, info, published>>

\* ... or gets its goroutine.
Inspect(c) ==
    /\ c \in listed
    /\ listed' = listed \ {c}
    /\ previousCPUValues' = previousCPUValues @@ (c :> NoValues)
    /\ info' = [info EXCEPT ![c][round] = Waiting("asked")]
    /\ UNCHANGED <<hostVars, round, published>>

\* Docker reads the counters and answers ...
StatsArrive(c, r) ==
    /\ info[c][r].step = "asked"
    /\ info' = [info EXCEPT ![c][r] =
          [step |-> "answered",
           stats |-> [totCPU |-> totalUsage[c], systemCPU |-> systemUsage]]]
    /\ UNCHANGED <<hostVars, round, listed, previousCPUValues, published>>

\* ... or fails, or takes longer than the timeout.
StatsFail(c, r) ==
    /\ info[c][r].step = "asked"
    /\ info' = [info EXCEPT ![c][r] = Waiting("ended")]
    /\ UNCHANGED <<hostVars, round, listed, previousCPUValues, published>>

\* The difference of two unsigned counters.
Difference(new, old) == (new + Word - old) % Word

\* calculateCPUPercent: what the percentage is made of; 0 of 0 is no percentage.
Change(previous, stats) ==
    LET cpuDelta == Difference(stats.totCPU, previous.totCPU)
        systemDelta == Difference(stats.systemCPU, previous.systemCPU)
    IN  IF systemDelta > 0 /\ cpuDelta > 0
        THEN [cpu |-> cpuDelta, system |-> systemDelta]
        ELSE [cpu |-> 0, system |-> 0]

\* extractMetrics, under the lock, and sendMetrics.
ExtractMetrics(c, r) ==
    LET stats == info[c][r].stats
    IN  /\ info[c][r].step = "answered"
        /\ published' = published \cup {Change(previousCPUValues[c], stats)}
        /\ previousCPUValues' = [previousCPUValues EXCEPT ![c] = stats]
        /\ info' = [info EXCEPT ![c][r] = Waiting("ended")]
        /\ UNCHANGED <<hostVars, round, listed>>

Next ==
    \/ Work
    \/ Collect
    \/ \E c \in Containers :
          \/ Restart(c) \/ Skip(c) \/ Inspect(c)
          \/ \E r \in Rounds : StatsArrive(c, r) \/ StatsFail(c, r) \/ ExtractMetrics(c, r)

Spec == Init /\ [][Next]_vars

\* The comments in calculateCPUPercent, that its deltas are "the change for the cpu
\* usage of the container in between readings" and that of the entire system, which
\* its test for > 0.0 is to ensure: a container changes by no more than the host,
\* and the host by no more than it worked.
ChangesBetweenReadings ==
    \A change \in published : change.cpu <= change.system /\ change.system <= systemUsage
=============================================================================
