\* Only Valkey fails, as in the outage ARCHITECTURE.md describes: no trimming
\* (the stream is long enough), no crash, no failing insert, no lost answer.
CONSTANTS
    BatchMax = 2
    QueueMax = 2
    MaxRetries = 2
    MaxSubmits = 2
    Handlers = {h1, h2}
    RequestIds = {1, 2}
    Stitched = {}
    Unkeyed = {}
    MaxEvents = 2
    StreamMax = 4
    Faults = {"valkey"}
    ReadMax = 2
    Garbled = {}
    DlqMax = 4
    DlqSlack = 0
    NoConn = NoConn
SPECIFICATION PipelineSpec
INVARIANT ExactlyOnce
CHECK_DEADLOCK FALSE
