SPECIFICATION FairSpec
CONSTANTS
    a1 = a1
    a2 = a2
    a3 = a3
    b1 = b1
    h1 = h1
    h2 = h2
    None = None
    Jvms = {a1, a2, b1}
    Starts = {{a1, a2}, {a1, b1}}
    Hosts = {h1, h2}
    HostOf <- TwoHosts
    MaxTries = 2
    MaxFaults = 1
    MinFireInterval = 1
    MaxFireInterval = 1
    RandomizationInterval = 3
    MinValueRest = 2
    Busy = {a1}
INVARIANTS TypeOK OneWorkerPerHost OneActiveRowPerHost CountsItself ScheduleBounded
PROPERTIES LeavesForASuccessor RefusedDuringAStart StartSucceeds BeatsGoOn
