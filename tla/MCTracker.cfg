CONSTANTS
    text = text
    a = a
    b = b
    p1 = p1
    p2 = p2
    s1 = s1
    s2 = s2
    s3 = s3
    Contents = {text, a, b}
    Bodies <- MCBodies
    Conns <- MCConns
    Pids = {p1, p2}
    SslCtxs = {s1, s2, s3}
    MaxConversations = 2
    MaxTime = 5
SYMMETRY Symmetric
SPECIFICATION TrackerSpec
INVARIANTS IndexConsistent OneChainPerId IndexBounded
PROPERTIES LosesOnlyToEqual
CHECK_DEADLOCK FALSE
