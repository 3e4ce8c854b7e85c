SPECIFICATION FairSpec
CONSTANTS
    v1 = v1
    v2 = v2
    global = global
    a = a
    b = b
    g1 = g1
    g2 = g2
    a1 = a1
    a2 = a2
    b0 = b0
    p1 = p1
    p2 = p2
    p3 = p3
    w1 = w1
    w2 = w2
    c1 = c1
    h1 = h1
    h2 = h2
    None = None
    Versions = {v1, v2}
    Paths = {global, a, b}
    Contents = {g1, g2, a1, a2, b0}
    Content <- TwoVersions
    Pushers = {p1, p2, p3}
    Pushes <- Push
    Jvms = {w1, w2, c1}
    Commands = {c1}
    Dirs = {h1, h2}
    DirOf <- Places
    Global = global
    Listed <- Lists
    Order <- GlobalLast
    Starts <- Crews
INVARIANTS TypeOK StoreClosed DirHasVersion AllUpdatesLoaded
PROPERTIES EveryUpdateArrives DomainsSettle
CHECK_DEADLOCK FALSE
