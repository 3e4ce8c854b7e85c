SPECIFICATION RoundsSpec
CONSTANTS
    w1 = w1
    w2 = w2
    m1 = m1
    m2 = m2
    Workers = {w1, w2}
    Messages = {m1, m2}
    Template <- RichAndPlain
    LockDuration = 1
    MaxTime = 3
    MaxAborts = 1
    NoMessage = NoMessage
    Undefined = {m2}
    Timely = FALSE
INVARIANTS TypeOK OneHolder CommittedIsComplete ExpandedOnce
PROPERTIES LockAdvances NeverReemitted EveryMessageExpanded
