\* Two listeners, limits 0 and 2, four metrics: an emission of one and of two
\* metrics is read while the listener fills and flushes its next buffers.
SPECIFICATION Spec
CONSTANTS
    ListenerCount = 2
    BufferSize <- MCBufferSize
    MaxMetrics = 4
    MaxRoom = 2
CHECK_DEADLOCK FALSE
INVARIANTS SlicesTypeOK ReadAsHanded
