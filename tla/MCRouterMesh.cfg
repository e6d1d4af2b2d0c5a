SPECIFICATION Spec
CONSTANTS
    Unit = 2
    BaseLatency = 1
    DecaySuccess = FALSE
    DecayCapability = FALSE
    n1 = n1
    n2 = n2
    p1 = p1
    s1 = s1
    Nodes = {n1, n2}
    Plain = {p1}
    Streams = {s1}
    PromptOf <- MCPromptOf
    TagsOf <- MCTagsOf
    Latencies = {1, 2}
    MaxChunks = 2
    Rate = 1
    Alpha = 2
    Beta = 4
    Gamma = 3
    Delta = 3
    Eps = 1
INVARIANTS
    TypeOK
    LoadConserved
    NoFalseBlame
    CapabilityEarned
PROPERTIES
    SlowFailureRepels
    MeshQuiesces
