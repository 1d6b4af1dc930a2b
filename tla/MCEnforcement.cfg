CONSTANTS
    v1 = v1
    v2 = v2
    v3 = v3
    f1 = f1
    f2 = f2
    a1 = a1
    Convs = {v1, v2, v3}
    Fingerprints = {f1, f2}
    FpOf <- MCFpOf
    Anchors = {a1}
    NoAnchor = NoAnchor
    AnchorOf <- MCAnchorOf
    Text <- MCText
    Ctxs = {c1, c2}
    NoConv = NoConv
    NoCtx = NoCtx
    MaxSlots = 2
    MaxSsl = 1
    RingMax = 1
    Disturbances = {"expiry", "eviction", "restart", "update"}
    MaxCommands = 2
SPECIFICATION EnforceSpec
SYMMETRY MCSymmetry
INVARIANTS KillTakesHold
PROPERTIES OnlyTargetsMarked
