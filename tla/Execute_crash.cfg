SPECIFICATION FairSpec
CONSTANTS
    w1 = w1
    w2 = w2
    h1 = h1
    h2 = h2
    m1 = m1
    m2 = m2
    Workers = {w1, w2}
    Hosts = {h1, h2}
    HostOf <- TwoHosts
    Messages = {m1}
    Template <- OneStage
    LockDuration = 1
    MaxTime = 0
    MaxAborts = 1
    MayVanish = FALSE
    MaxRuns = 3
PROPERTIES FinishedIsCollected
