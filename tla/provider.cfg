SPECIFICATION Spec
CONSTANTS
    w1 = w1
    w2 = w2
    s1 = s1
    s2 = s2
    NoThread = NoThread
    Workers <- TwoWorkers
    Sessions <- OneSession
    MaxFd = 4
    MaxVersion = 2
INVARIANTS
    SerialContract
    WorkersLoseNothing
