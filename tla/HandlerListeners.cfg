\* Fair runs: listeners with limits 0 (own) and 2 (disk), two metrics, every flush
\* by size, sentinel or ticker, and a request for the internal metrics that
\* competes for the lock.
SPECIFICATION FairSpec
CONSTANTS
    m1 = m1
    m2 = m2
    m3 = m3
    cpu = cpu
    disk = disk
    own = own
    Metrics = {m1, m2}
    Emissions <- TwoEmissions
    Interval = 1
    MaxClock = 0
    MaxSnapshots = 1
    CollectorEndpoints = {disk}
    Default = own
    BufferSize <- MCBufferSize
    Sentinel = sentinel
    ZeroMetric = zero
    Empty = empty
CHECK_DEADLOCK FALSE
INVARIANTS TypeOK EachMetricInOnePlace BatchesWithinLimits CountersExact
PROPERTIES PromiseKept SlowEmissionsHoldNothingUp ReturnedIsCounted
