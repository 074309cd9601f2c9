\* Three metrics of two values of the dimension, in up to two buffers: every
\* division of them into buffers, and every order in which the parts start.
SPECIFICATION FairBatchSpec
CONSTANTS
    m1 = m1
    m2 = m2
    m3 = m3
    teamA = teamA
    teamB = teamB
    f1 = f1
    f2 = f2
    Metrics = {m1, m2, m3}
    Emissions <- ThreeEmissions
    Interval = 1
    MaxClock = 0
    MaxSnapshots = 0
    Flushes = {f1, f2}
    Values = {teamA, teamB}
    DimensionOf <- MCDimensionOf
    WithToken = {teamA}
CHECK_DEADLOCK FALSE
INVARIANTS BatchTypeOK EachMetricInOnePart SentWithOwnToken
PROPERTIES BatchPromiseKept PartsHoldNoneUp
