SPECIFICATION Spec
CONSTANTS
    Unit = 1000
    BaseLatency = 100
    DecaySuccess = TRUE
    DecayCapability = TRUE
    n1 = n1
    n2 = n2
    p1 = p1
    s1 = s1
    Nodes = {n1, n2}
    Plain = {p1}
    Streams = {s1}
    PromptOf <- MCPromptOf
    TagsOf <- MCTagsOf
    Latencies = {200, 300}
    MaxChunks = 2
    Rate = 1
    Alpha = 2
    Beta = 4
    Gamma = 3
    Delta = 3
    Eps = 1
PROPERTIES
    FailureRepels
