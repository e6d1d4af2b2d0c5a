SPECIFICATION Spec
CONSTANTS
    Engines = {e1, e2}
    Requests = {q1}
    Interval = 2
    MaxSkew = 1
    MaxClock = 4
SYMMETRY Symmetry
INVARIANTS
    TypeOK
    DecayAccounted
    EvaporationRate
CHECK_DEADLOCK FALSE
