SPECIFICATION GatewaySpec
CONSTANTS
    Requests = {plain, stream}
    Replicas = {main}
    ReplicaOf <- AllOnOne
    Streams = {stream}
    Keys = {held, static}
    Fallback = {static}
    NoKey = none
    MaxEdits = 1
    Costs = {1, 2}
    Limit <- One
    Window = 1
    MaxTime = 2
    MaxDelay = 1
INVARIANTS
    TypeOK
    AdmittedWithinLimit
    GatewayTypeOK
    RequestsWithinQuota
PROPERTIES
    SlidingAdmission
    EveryStepCounts
    RevokedIsRefused
    EveryRequestIsAnswered
CHECK_DEADLOCK FALSE
