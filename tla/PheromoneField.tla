--------------------------- MODULE PheromoneField ---------------------------
(***************************************************************************)
(* What a pheromone memory field promises its callers (the contract of     *)
(* BasePheromoneMemoryField): every node the field tracks has one trace of *)
(* its own, and each operation changes the traces it names in one step.    *)
(***************************************************************************)
EXTENDS Traces

CONSTANTS
    Nodes,          \* every node id a caller may name
    InitNodes,      \* the node ids the field is constructed with
    InitTraces,     \* the rows the constructor may be given (initial_state)
    Observations,   \* what callers deposit
    Rates,          \* the decay rates callers pass, legal or not
    Snapshots       \* the snapshots callers hydrate from

VARIABLE trace      \* the trace of each tracked node

Init == trace \in [InitNodes -> InitTraces]

AddNode(n) ==
    /\ n \notin DOMAIN trace
    /\ trace' = [m \in DOMAIN trace \cup {n} |->
                    IF m = n THEN DefaultTrace ELSE trace[m]]

RemoveNode(n) ==
    /\ n \in DOMAIN trace
    /\ trace' = [m \in DOMAIN trace \ {n} |-> trace[m]]

Deposit(n, o) ==
    /\ n \in DOMAIN trace
    /\ trace' = [trace EXCEPT ![n] = Deposited(@, o)]

Evaporate(rate) ==
    /\ rate \in LegalRate
    /\ trace' = [m \in DOMAIN trace |-> Evaporated(trace[m], rate)]

Hydrate(snapshot) ==
    trace' = [m \in DOMAIN trace |->
                 IF m \in DOMAIN snapshot THEN Overlaid(trace[m], snapshot[m])
                                          ELSE trace[m]]

Next ==
    \/ \E n \in Nodes : AddNode(n) \/ RemoveNode(n)
    \/ \E n \in Nodes, o \in Observations : Deposit(n, o)
    \/ \E rate \in Rates : Evaporate(rate)
    \/ \E snapshot \in Snapshots : Hydrate(snapshot)

Spec == Init /\ [][Next]_trace
=============================================================================
