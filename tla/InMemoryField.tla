---------------------------- MODULE InMemoryField ----------------------------
(***************************************************************************)
(* InMemoryPheromoneMemoryField: an ordered list of node ids, a dictionary *)
(* from node id to row number, and a matrix with one row of traces per     *)
(* node.  Every method runs under one asyncio.Lock and awaits nothing      *)
(* while it holds it, so each is one action.  Rows are numbered from 1.    *)
(***************************************************************************)
EXTENDS Traces, NodeIndex

CONSTANTS
    Nodes,          \* every node id a caller may name
    InitIds,        \* the ordered node ids given to the constructor
    InitTraces,     \* the rows the constructor may be given (initial_state)
    Observations,   \* what callers deposit
    Rates,          \* the decay rates callers pass, legal or not
    Snapshots       \* the snapshots callers hydrate from

ASSUME InMemoryAssumption ==
    /\ InitIds \in Seq(Nodes)
    /\ \A i, j \in DOMAIN InitIds : InitIds[i] = InitIds[j] => i = j
    /\ InitTraces \subseteq Trace
    /\ Observations \subseteq Observation
    /\ \A snapshot \in Snapshots, n \in Nodes :
          n \in DOMAIN snapshot => IsPartialTrace(snapshot[n])

VARIABLES
    nodeIds,    \* self.node_ids
    nodeIndex,  \* self._node_index
    rows        \* self._state

vars == <<nodeIds, nodeIndex, rows>>

Known == DOMAIN nodeIndex

Init ==
    /\ nodeIds = InitIds
    /\ nodeIndex = IndexOfIds(InitIds)
    /\ rows \in [DOMAIN InitIds -> InitTraces]

AddNode(n) ==
    /\ n \notin Known
    /\ nodeIndex' = [m \in Known \cup {n} |->
                        IF m = n THEN Len(nodeIds) + 1 ELSE nodeIndex[m]]
    /\ nodeIds' = Append(nodeIds, n)
    /\ rows' = Append(rows, DefaultTrace)

(* Mutant: the dictionary only forgets the node, other row numbers stay. *)
RemoveNodeStaleIndex(n) ==
    /\ n \in Known
    /\ nodeIds' = RemoveAt(nodeIds, nodeIndex[n])
    /\ nodeIndex' = [m \in Known \ {n} |-> nodeIndex[m]]
    /\ rows' = RemoveAt(rows, nodeIndex[n])

(* Mutant: the last row is dropped instead of the node's own. *)
RemoveNodeLastRow(n) ==
    /\ n \in Known
    /\ nodeIds' = RemoveAt(nodeIds, nodeIndex[n])
    /\ nodeIndex' = IndexOfIds(nodeIds')
    /\ rows' = RemoveAt(rows, Len(rows))

RemoveNode(n) ==
    /\ n \in Known
    /\ nodeIds' = RemoveAt(nodeIds, nodeIndex[n])
    /\ nodeIndex' = IndexOfIds(nodeIds')
    /\ rows' = RemoveAt(rows, nodeIndex[n])

(* An unknown node raises KeyError and changes nothing. *)
Deposit(n, o) ==
    /\ n \in Known
    /\ rows' = [rows EXCEPT ![nodeIndex[n]] = Deposited(@, o)]
    /\ UNCHANGED <<nodeIds, nodeIndex>>

Evaporate(rate) ==
    /\ rate \in LegalRate
    /\ rows' = [i \in DOMAIN rows |-> Evaporated(rows[i], rate)]
    /\ UNCHANGED <<nodeIds, nodeIndex>>

(* Nodes of the snapshot the field does not track are skipped. *)
Hydrate(snapshot) ==
    LET touched == Known \cap DOMAIN snapshot IN
    /\ rows' = [i \in DOMAIN rows |->
                   IF \E n \in touched : nodeIndex[n] = i
                   THEN Overlaid(rows[i],
                                 snapshot[CHOOSE n \in touched : nodeIndex[n] = i])
                   ELSE rows[i]]
    /\ UNCHANGED <<nodeIds, nodeIndex>>

Next ==
    \/ \E n \in Nodes : AddNode(n)
    \/ \E n \in Nodes : RemoveNode(n)
    \/ \E n \in Nodes, o \in Observations : Deposit(n, o)
    \/ \E rate \in Rates : Evaporate(rate)
    \/ \E snapshot \in Snapshots : Hydrate(snapshot)

Spec == Init /\ [][Next]_vars

(* What export_state_dict returns: row i of the matrix under the i-th id. *)
Exported ==
    LET at == IndexOfIds(nodeIds) IN [n \in DOMAIN at |-> rows[at[n]]]

-----------------------------------------------------------------------------
(* Every variable has the shape the class declares, and the V and C columns *)
(* stay in [0, 1] whatever callers report.                                  *)
TypeOK ==
    /\ nodeIds \in Seq(Nodes)
    /\ nodeIndex \in [ToSet(nodeIds) -> DOMAIN nodeIds]
    /\ rows \in [DOMAIN nodeIds -> Trace]

(* The list of ids and the dictionary of row numbers are inverses of each    *)
(* other, across every sequence of add_node and remove_node: the position at *)
(* which a router reads a node is the row to which it deposits.              *)
IndexAligned == \A i \in DOMAIN nodeIds : nodeIndex[nodeIds[i]] = i

Field == INSTANCE PheromoneField WITH
            InitNodes <- ToSet(InitIds), trace <- Exported

(* The matrix implements one independent trace per node: whatever nodes come *)
(* and go, an operation reaches the traces of exactly the nodes it names.    *)
ImplementsField == Field!Spec
=============================================================================
