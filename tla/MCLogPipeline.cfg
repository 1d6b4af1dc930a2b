CONSTANTS
    BatchMax = 3
    QueueMax = 3
    MaxRetries = 2
    MaxSubmits = 3
    Handlers = {h1, h2}
    RequestIds = {1, 2, 3}
    Stitched = {}
    Unkeyed = {2}
    MaxEvents = 2
    StreamMax = 1
    Faults = {"network", "valkey", "ingestion", "clickhouse", "consumer"}
    ReadMax = 2
    Garbled = {3}
    DlqMax = 1
    DlqSlack = 0
    NoConn = NoConn
SYMMETRY HandlerSymmetry
SPECIFICATION PipelineSpec
INVARIANTS PublishedOnce FlushedIsPublished AckedIsDurable ReadIsAccounted
CHECK_DEADLOCK FALSE
