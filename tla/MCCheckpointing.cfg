SPECIFICATION Spec
CONSTANTS
    Deposits = {d1, d2}
    Faults = {"crash", "disk", "redis", "decay", "snapshot"}
    None = None
    Torn = Torn
INVARIANTS
    TypeOK
    ExitSaved
PROPERTIES
    ServedIsStored
    ShutdownEnds
