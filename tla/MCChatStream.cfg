CONSTANTS
    Streams = {s1, s2}
    Plains = {p1}
    Cancels = {c1}
    NoTask = NoTask
    MaxChunks = 1
    ChatFaults = {"disconnect", "error"}
SPECIFICATION ChatFairSpec
INVARIANTS RegistryExact OneAnswer CancelledIsPartial
PROPERTY RequestsEnd
CHECK_DEADLOCK FALSE
