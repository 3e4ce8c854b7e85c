SPECIFICATION Spec
CONSTANTS
    j1 = j1
    j2 = j2
    t1 = t1
    t2 = t2
    t3 = t3
    JVMs <- MCJVMs
    Threads <- MCThreads
    JvmOf <- MCJvmOf
    Tables = {"NN_JOB"}
    NoThread = NoThread
    GRAB = 2
    MaxCounter = 4
INVARIANTS TypeOK RangesDisjoint CounterAhead
PROPERTY NeverReissued
