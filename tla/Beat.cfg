SPECIFICATION FairSpec
CONSTANTS
    w1 = w1
    w2 = w2
    h1 = h1
    h2 = h2
    m1 = m1
    m2 = m2
    m3 = m3
    Workers = {w1, w2}
    Hosts = {h1, h2}
    HostOf <- TwoHosts
    Messages = {m1, m2, m3}
    NoMessage = NoMessage
    Undefined = {}
    Template <- Three
    Crew <- ThreeCrews
    Shaky = {m3}
    Timely = TRUE
    LockDuration = 1
    MaxTime = 3
    MaxAborts = 1
    MayVanish = TRUE
    MaxRuns = 4
INVARIANTS TypeOK SuccessIsReal RunsAfterDependencies
PROPERTIES EveryMessageFinishes FollowsObjectStates
