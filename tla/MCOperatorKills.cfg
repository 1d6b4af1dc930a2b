CONSTANTS
    v1 = v1
    v2 = v2
    v3 = v3
    Polls = {p1}
    NoPoll = NoPoll
    PollMax = 2
    MaxCommands = 2
    ChannelFaults = {}
    MinAnchorBytes = 4
    AnchorMaxBytes = 4
    PreviewMax = 3
    Convs = {v1, v2, v3}
    BodyOf <- MCBodyOf
    Calls = {c1, c2}
    NoTarget = NoTarget
    MaxRequests = 2
    ApiFaults = {"timeout", "refused", "insert"}
SPECIFICATION KillSpec
SYMMETRY MCSymmetry
INVARIANTS ToldIsIssued LastWordStands AgentIdExact AgentRecognises
CHECK_DEADLOCK FALSE
