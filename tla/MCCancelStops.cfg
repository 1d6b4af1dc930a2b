\* Nothing fails, and the client reads to the end.
CONSTANTS
    Streams = {s1}
    Plains = {}
    Cancels = {c1}
    NoTask = NoTask
    MaxChunks = 1
    ChatFaults = {}
SPECIFICATION ChatSpec
INVARIANT CancelStops
CHECK_DEADLOCK FALSE
