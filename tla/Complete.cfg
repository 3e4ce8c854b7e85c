SPECIFICATION FairSpec
CONSTANTS
    w1 = w1
    w2 = w2
    m1 = m1
    m2 = m2
    m3 = m3
    m4 = m4
    m5 = m5
    m6 = m6
    Workers = {w1, w2}
    Messages = {m1, m2, m3, m4, m5, m6}
    Template <- Shapes
    LockDuration = 1
    MaxTime = 0
    MaxAborts = 1
    Undefined = {m4}
    Twice = {m5}
    Together <- Groups
INVARIANTS DependenciesFirst JobVerdictsHold MessageVerdictsHold
PROPERTIES ClosedStaysClosed EveryMessageCloses
