SPECIFICATION Spec
CONSTANTS
    Unit = 2
    BaseLatency = 1
    DecaySuccess = TRUE
    DecayCapability = FALSE
    n1 = n1
    n2 = n2
    n3 = n3
    Nodes = {n1, n2, n3}
    InitIds <- MCInitIds
    InitTraces <- MCInitTraces
    Observations <- MCObservations
    Rates <- MCRates
    Snapshots <- MCSnapshots
INVARIANTS
    TypeOK
    IndexAligned
PROPERTIES
    ImplementsField
