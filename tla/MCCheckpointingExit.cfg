SPECIFICATION Spec
CONSTANTS
    Deposits = {d1, d2}
    Faults = {"decay"}
    None = None
    Torn = Torn
INVARIANTS
    ExitIsCheckpointed
