SPECIFICATION Spec
CONSTANTS
    w1 = w1
    w2 = w2
    c1 = c1
    c2 = c2
    c3 = c3
    Workers = {w1, w2}
    Clients = {c1, c3}
    WorkerOf <- MCWorkerOfEach
    Configured = {w1}
    TTL = 1
    Loops = {l1, l2}
INVARIANTS
    TypeOK
PROPERTIES
    OnTimeIsKept
    DeadAreDropped
    StopEndsLoops
