SPECIFICATION Spec
CONSTANTS
    r1 = r1
    r2 = r2
    engine = engine
    worker = worker
    other = other
    n1 = n1
    n2 = n2
    retired = retired
    d1 = d1
    d2 = d2
    Replicas = {r1, r2}
    Tasks = {engine, worker, other}
    Nodes = {n1, n2}
    Deposits = {d1, d2}
    Warm = {r1, r2}
    Mortal = {}
    ReplicaOf <- MCReplicaOf
    Calls <- MCCallsSteady
    InitIds <- MCInitIds
INVARIANTS
    AckedDepositsKept
