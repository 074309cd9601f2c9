\* One container, whose goroutines of two rounds may overlap, or which is restarted.
SPECIFICATION Spec
CONSTANTS
    Containers = {web}
    Word = 16
    MaxRounds = 2
    MaxTime = 3
    MaxRestarts = 1
CHECK_DEADLOCK FALSE
INVARIANTS ChangesBetweenReadings
