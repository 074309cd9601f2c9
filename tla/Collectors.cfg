\* Each collector with two instances, loops over data of up to two turns, and two
\* rounds: one before the first connection and one after it, in the same process
\* or in a new one.
SPECIFICATION FairSpec
CONSTANTS
    Program <- Programs
    Straight <- StraightCode
    Looped <- LoopedCode
    CodeOf <- CodeOfAll
    Exits <- ExitsOfAll
    HidingFailures <- FailureHiders
    HidingAlarms <- AlarmHiders
    Isolating <- Isolators
    Sharing <- Sharers
    KeyOf <- KeysOfInstances
    Instances = 2
    MaxTurns = 2
    MaxRounds = 2
CHECK_DEADLOCK FALSE
INVARIANTS TypeOK FailuresNoticed OthersGoOn OwnDimensions OwnMemory
PROPERTIES RoundsEnd
