CONSTANTS
    Polls = {p1, p2}
    NoPoll = NoPoll
    PollMax = 2
    MaxCommands = 4
    ChannelFaults = {"network", "valkey", "agent", "expiry"}
SPECIFICATION ChannelFairSpec
INVARIANTS NothingVanishes
PROPERTIES Settled ImplementsLossy
