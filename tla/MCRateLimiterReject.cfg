SPECIFICATION Spec
CONSTANTS
    Requests = {q1, q2, q3}
    Replicas = {main}
    ReplicaOf <- AllOnOne
    Costs = {2}
    Limit <- MCLimit
    Window = 2
    MaxTime = 4
    MaxDelay = 2
SYMMETRY Symmetry
INVARIANTS
    RejectedIsFree
CHECK_DEADLOCK FALSE
