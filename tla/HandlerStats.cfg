\* Three emissions that may overlap, a window of one tick in a clock of two,
\* and a request for the internal metrics; no collector endpoint, so every
\* metric comes over the handler's own channel and is an emission of its own.
SPECIFICATION Spec
CONSTANTS
    m1 = m1
    m2 = m2
    m3 = m3
    cpu = cpu
    disk = disk
    own = own
    Metrics = {m1, m2, m3}
    Emissions <- ThreeEmissions
    Interval = 1
    MaxClock = 2
    MaxSnapshots = 1
    CollectorEndpoints = {}
    Default = own
    BufferSize <- SingleBufferSize
    Sentinel = sentinel
    ZeroMetric = zero
    Empty = empty
CHECK_DEADLOCK FALSE
SYMMETRY MetricSymmetry
INVARIANTS RecorderLagsByOne SnapshotConsistent
PROPERTIES FreshTimingsStay
