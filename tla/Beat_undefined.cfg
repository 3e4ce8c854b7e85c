SPECIFICATION Spec
CONSTANTS
    w1 = w1
    w2 = w2
    h1 = h1
    h2 = h2
    m1 = m1
    m2 = m2
    m3 = m3
    Workers = {w1, w2}
    Hosts = {h1, h2}
    HostOf <- TwoHosts
    Messages = {m1}
    NoMessage = NoMessage
    Undefined = {}
    Template <- Backwards
    Crew <- BothWorkers
    Shaky = {}
    Timely = TRUE
    LockDuration = 1
    MaxTime = 2
    MaxAborts = 0
    MayVanish = FALSE
    MaxRuns = 2
INVARIANTS NothingAssumed
