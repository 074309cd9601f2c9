\* Two rounds of up to three metrics over two connections, either of which may
\* break; a Collect may hang.
SPECIFICATION FairSpec
CONSTANTS
    RetryCount = 2
    MaxBuffer = 3
    Connections <- TwoConnections
    MaxMetrics = 3
    MaxRounds = 2
    MaxBreaks = 2
    MaxHups = 1
CHECK_DEADLOCK FALSE
INVARIANTS TypeOK AtMostOnceInOrder CutsCostOneLine
PROPERTIES PromiseKept HungCollectIsCut
