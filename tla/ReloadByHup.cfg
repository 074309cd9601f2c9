\* One SIGHUP.
SPECIFICATION Spec
CONSTANTS
    RetryCount = 2
    MaxBuffer = 3
    Connections <- TwoConnections
    MaxMetrics = 1
    MaxRounds = 1
    MaxBreaks = 0
    MaxHups = 1
CHECK_DEADLOCK FALSE
INVARIANTS ReloadKeepsRunning
