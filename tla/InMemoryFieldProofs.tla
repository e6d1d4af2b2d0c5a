------------------------- MODULE InMemoryFieldProofs -------------------------
(***************************************************************************)
(* The in-memory field for any nodes, traces and observations: its shape,  *)
(* the alignment of ids, row numbers and rows, and the implementation of   *)
(* PheromoneField.                                                         *)
(***************************************************************************)
EXTENDS InMemoryField, FieldLemmas, TLAPS

-----------------------------------------------------------------------------
(* The inductive invariant: shape and alignment need each other, because    *)
(* remove_node deletes the list entry and the row at the number the         *)
(* dictionary holds.                                                        *)
IInv == TypeOK /\ IndexAligned

(* Two positions of the id list never hold the same node.                   *)
LEMMA AlignedIsInjective == IInv => Injective(nodeIds)
BY DEF IInv, IndexAligned, Injective, TypeOK

(* What the invariant says of each part of the state.                       *)
LEMMA IInvFacts ==
    ASSUME IInv
    PROVE  /\ Len(nodeIds) \in Nat
           /\ nodeIds \in Seq(Nodes) /\ DOMAIN nodeIds = 1 .. Len(nodeIds)
           /\ rows \in Seq(Trace) /\ DOMAIN rows = 1 .. Len(nodeIds)
           /\ Len(rows) = Len(nodeIds)
           /\ Known = ToSet(nodeIds) /\ Known \subseteq Nodes
           /\ \A i \in DOMAIN nodeIds : nodeIds[i] \in Known
           /\ \A n \in Known : /\ nodeIndex[n] \in DOMAIN nodeIds
                               /\ nodeIds[nodeIndex[n]] = n
<1>1. /\ nodeIds \in Seq(Nodes) /\ Len(nodeIds) \in Nat
      /\ DOMAIN nodeIds = 1 .. Len(nodeIds)
  BY DEF IInv, TypeOK
<1>2. rows \in [1 .. Len(nodeIds) -> Trace]
  BY <1>1 DEF IInv, TypeOK
<1>3. rows \in Seq(Trace) /\ Len(rows) = Len(nodeIds)
  BY <1>1, <1>2
<1>4. Known = ToSet(nodeIds) /\ \A n \in Known : nodeIndex[n] \in DOMAIN nodeIds
  BY DEF IInv, TypeOK, Known
<1>5. \A i \in DOMAIN nodeIds : nodeIds[i] \in Nodes /\ nodeIds[i] \in Known
  BY <1>1, <1>4 DEF ToSet
<1>6. \A n \in Known : \E i \in DOMAIN nodeIds : n = nodeIds[i]
  BY <1>4 DEF ToSet
<1>7. \A n \in Known : nodeIds[nodeIndex[n]] = n
  BY <1>6 DEF IInv, IndexAligned
<1> QED BY <1>1, <1>2, <1>3, <1>4, <1>5, <1>6, <1>7

(* add_node appends to the list, the dictionary and the matrix together.    *)
LEMMA AddNodeKeepsIInv ==
    ASSUME IInv, NEW n \in Nodes, AddNode(n)
    PROVE  IInv'
<1>1. /\ nodeIds' = Append(nodeIds, n) /\ nodeIds' \in Seq(Nodes)
      /\ DOMAIN nodeIds' = 1 .. Len(nodeIds) + 1
      /\ DOMAIN nodeIds = 1 .. Len(nodeIds) /\ Len(nodeIds) \in Nat
  BY DEF AddNode, IInv, TypeOK
<1>2. ToSet(nodeIds') = ToSet(nodeIds) \cup {n} /\ Known = ToSet(nodeIds)
  <2>1. \A i \in DOMAIN nodeIds : nodeIds'[i] = nodeIds[i]
    BY <1>1
  <2>2. nodeIds'[Len(nodeIds) + 1] = n
    BY <1>1
  <2>3. DOMAIN nodeIds' = DOMAIN nodeIds \cup {Len(nodeIds) + 1}
    BY <1>1
  <2> QED BY <2>1, <2>2, <2>3, IInvFacts DEF ToSet
<1>3. nodeIndex' \in [ToSet(nodeIds') -> DOMAIN nodeIds']
  BY <1>1, <1>2 DEF AddNode, IInv, TypeOK
<1>4. rows' \in [DOMAIN nodeIds' -> Trace]
  <2>1. /\ rows' = Append(rows, DefaultTrace) /\ rows \in Seq(Trace)
        /\ Len(rows) = Len(nodeIds)
    BY IInvFacts DEF AddNode
  <2>2. rows' \in Seq(Trace) /\ Len(rows') = Len(nodeIds) + 1
    BY <2>1, DefaultIsTrace
  <2>3. DOMAIN rows' = 1 .. Len(nodeIds) + 1
    BY <2>2
  <2> QED BY <2>2, <2>3, <1>1
<1>5. IndexAligned'
  <2> SUFFICES ASSUME NEW i \in DOMAIN nodeIds' PROVE nodeIndex'[nodeIds'[i]] = i
    BY DEF IndexAligned
  <2>1. CASE i = Len(nodeIds) + 1
    BY <2>1, <1>1, <1>2 DEF AddNode
  <2>2. CASE i \in DOMAIN nodeIds
    <3>1. nodeIds'[i] = nodeIds[i] /\ nodeIds[i] \in Known /\ n \notin Known
      BY <2>2, <1>1, <1>2 DEF AddNode, ToSet
    <3> QED BY <3>1, <2>2, <1>2 DEF AddNode, IInv, IndexAligned
  <2> QED BY <2>1, <2>2, <1>1
<1> QED BY <1>1, <1>3, <1>4, <1>5 DEF IInv, TypeOK

(* remove_node rebuilds the dictionary from the shortened list.             *)
LEMMA RemoveNodeKeepsIInv ==
    ASSUME IInv, NEW n \in Nodes, RemoveNode(n)
    PROVE  IInv'
<1> DEFINE at == nodeIndex[n]
<1>1. /\ at \in DOMAIN nodeIds /\ nodeIds \in Seq(Nodes) /\ Len(nodeIds) \in Nat
      /\ rows \in Seq(Trace) /\ Len(rows) = Len(nodeIds)
      /\ DOMAIN nodeIds = 1 .. Len(nodeIds) /\ DOMAIN rows = DOMAIN nodeIds
  BY IInvFacts DEF RemoveNode
<1>2. /\ nodeIds' \in Seq(Nodes) /\ DOMAIN nodeIds' = 1 .. Len(nodeIds) - 1
      /\ \A j \in 1 .. Len(nodeIds) - 1 :
            nodeIds'[j] = IF j < at THEN nodeIds[j] ELSE nodeIds[j + 1]
  BY <1>1, RemoveAtElements DEF RemoveNode
<1>3. rows' \in Seq(Trace) /\ DOMAIN rows' = 1 .. Len(nodeIds) - 1
  BY <1>1, RemoveAtElements DEF RemoveNode
<1>4. Injective(nodeIds')
  <2> SUFFICES ASSUME NEW i \in DOMAIN nodeIds', NEW j \in DOMAIN nodeIds',
                      nodeIds'[i] = nodeIds'[j]
               PROVE  i = j
    BY DEF Injective
  <2> DEFINE old(k) == IF k < at THEN k ELSE k + 1
  <2>1. \A k \in DOMAIN nodeIds' : /\ old(k) \in DOMAIN nodeIds
                                   /\ nodeIds'[k] = nodeIds[old(k)]
    BY <1>1, <1>2
  <2>2. old(i) = old(j)
    BY <2>1, AlignedIsInjective DEF Injective
  <2>3. i \in Int /\ j \in Int /\ at \in Int
    BY <1>1, <1>2
  <2> QED BY <2>2, <2>3
<1>5. nodeIndex' = IndexOfIds(nodeIds')
  BY DEF RemoveNode
<1>6. /\ nodeIndex' \in [ToSet(nodeIds') -> DOMAIN nodeIds']
      /\ \A i \in DOMAIN nodeIds' : nodeIndex'[nodeIds'[i]] = i
  BY <1>2, <1>4, <1>5, IndexOfIdsInverts
<1>7. rows' \in [DOMAIN nodeIds' -> Trace]
  BY <1>2, <1>3
<1> QED BY <1>2, <1>6, <1>7 DEF IInv, TypeOK, IndexAligned

(* deposit_trace, apply_evaporation and hydrate_from_snapshot rewrite rows  *)
(* in place.                                                                *)
LEMMA RowUpdateKeepsIInv ==
    ASSUME IInv, rows' \in [DOMAIN rows -> Trace], UNCHANGED <<nodeIds, nodeIndex>>
    PROVE  IInv'
BY DEF IInv, TypeOK, IndexAligned

(* The constructor numbers the configured ids in their order.               *)
LEMMA InitIInv == Init => IInv
<1> SUFFICES ASSUME Init PROVE IInv
  OBVIOUS
<1>1. nodeIds \in Seq(Nodes) /\ Injective(nodeIds)
  BY InMemoryAssumption DEF Init, Injective
<1>2. /\ nodeIndex \in [ToSet(nodeIds) -> DOMAIN nodeIds]
      /\ \A i \in DOMAIN nodeIds : nodeIndex[nodeIds[i]] = i
  BY <1>1, IndexOfIdsInverts DEF Init
<1>3. rows \in [DOMAIN nodeIds -> Trace]
  BY InMemoryAssumption DEF Init
<1> QED BY <1>1, <1>2, <1>3 DEF IInv, TypeOK, IndexAligned

(* Every operation keeps the invariant.                                     *)
LEMMA NextKeepsIInv == IInv /\ [Next]_vars => IInv'
<1> SUFFICES ASSUME IInv, [Next]_vars PROVE IInv'
  OBVIOUS
<1>0. rows \in [DOMAIN rows -> Trace]
  BY DEF IInv, TypeOK
<1>1. CASE \E n \in Nodes : AddNode(n)
  BY <1>1, AddNodeKeepsIInv
<1>2. CASE \E n \in Nodes : RemoveNode(n)
  BY <1>2, RemoveNodeKeepsIInv
<1>3. CASE \E n \in Nodes, o \in Observations : Deposit(n, o)
  <2>1. PICK n \in Nodes, o \in Observations : Deposit(n, o)
    BY <1>3
  <2>2. nodeIndex[n] \in DOMAIN rows /\ o \in Observation
    BY <2>1, InMemoryAssumption, IInvFacts DEF Deposit
  <2>3. Deposited(rows[nodeIndex[n]], o) \in Trace
    BY <2>2, <1>0, DepositedIsTrace
  <2>4. rows' \in [DOMAIN rows -> Trace]
    BY <2>1, <2>2, <2>3, <1>0 DEF Deposit
  <2> QED BY <2>1, <2>4, RowUpdateKeepsIInv DEF Deposit
<1>4. CASE \E rate \in Rates : Evaporate(rate)
  <2>1. PICK rate \in Rates : Evaporate(rate)
    BY <1>4
  <2>2. rows' \in [DOMAIN rows -> Trace]
    BY <2>1, <1>0, EvaporatedIsTrace DEF Evaporate
  <2> QED BY <2>1, <2>2, RowUpdateKeepsIInv DEF Evaporate
<1>5. CASE \E snapshot \in Snapshots : Hydrate(snapshot)
  <2>1. PICK snapshot \in Snapshots : Hydrate(snapshot)
    BY <1>5
  <2>2. \A n \in Known : n \in Nodes
    BY IInvFacts
  <2>3. ASSUME NEW i \in DOMAIN rows, NEW n \in Known \cap DOMAIN snapshot
        PROVE  Overlaid(rows[i], snapshot[n]) \in Trace
    BY <2>2, <1>0, OverlaidIsTrace, InMemoryAssumption
  <2>4. rows' \in [DOMAIN rows -> Trace]
    <3> DEFINE touched == Known \cap DOMAIN snapshot
    <3>1. ASSUME NEW i \in DOMAIN rows, \E n \in touched : nodeIndex[n] = i
          PROVE  (CHOOSE n \in touched : nodeIndex[n] = i) \in touched
      BY <3>1
    <3> QED BY <3>1, <2>1, <2>3, <1>0 DEF Hydrate
  <2> QED BY <2>1, <2>4, RowUpdateKeepsIInv DEF Hydrate
<1>6. CASE UNCHANGED vars
  BY <1>6 DEF vars, IInv, TypeOK, IndexAligned
<1> QED BY <1>1, <1>2, <1>3, <1>4, <1>5, <1>6 DEF Next

(* Type correctness of the in-memory field, for any nodes and observations. *)
THEOREM TypeCorrect == Spec => []TypeOK
<1>1. IInv => TypeOK
  BY DEF IInv
<1> QED BY <1>1, InitIInv, NextKeepsIInv, PTL DEF Spec

(* Ids and row numbers stay inverses of each other forever.                 *)
THEOREM AlwaysAligned == Spec => []IndexAligned
<1>1. IInv => IndexAligned
  BY DEF IInv
<1> QED BY <1>1, InitIInv, NextKeepsIInv, PTL DEF Spec

-----------------------------------------------------------------------------
(* The refinement: what export_state_dict returns is the abstract field.    *)
(* A node's exported row is found at the number the dictionary holds.       *)
ByIndex == [n \in Known |-> rows[nodeIndex[n]]]

Invertible ==
    /\ Known = ToSet(nodeIds)
    /\ \A m \in Known : nodeIndex[m] \in DOMAIN nodeIds /\ nodeIds[nodeIndex[m]] = m

(* Looking a node up in the dictionary, then in the list, returns the node. *)
LEMMA IndexInverse == IInv => Invertible
BY IInvFacts DEF Invertible

(* The row export_state_dict reads under an id is the row the id deposits to. *)
LEMMA ExportedByIndex == IInv => Exported = ByIndex
<1> SUFFICES ASSUME IInv PROVE Exported = ByIndex
  OBVIOUS
<1>1. /\ IndexOfIds(nodeIds) \in [ToSet(nodeIds) -> DOMAIN nodeIds]
      /\ \A i \in DOMAIN nodeIds : IndexOfIds(nodeIds)[nodeIds[i]] = i
  BY IndexOfIdsInverts, AlignedIsInjective, IInvFacts
<1>2. \A n \in Known : IndexOfIds(nodeIds)[n] = nodeIndex[n]
  BY <1>1, IInvFacts
<1>3. DOMAIN IndexOfIds(nodeIds) = Known
  BY <1>1, IInvFacts
<1> QED BY <1>2, <1>3 DEF Exported, ByIndex

(* The constructor's rows are the abstract initial traces.                  *)
LEMMA InitImplements == Init => Field!Init
<1> SUFFICES ASSUME Init PROVE Field!Init
  OBVIOUS
<1>1. Exported = ByIndex /\ Known = ToSet(InitIds)
  BY InitIInv, ExportedByIndex, IInvFacts DEF Init
<1>2. \A n \in Known : nodeIndex[n] \in DOMAIN rows
  BY InitIInv, IInvFacts
<1>3. \A i \in DOMAIN rows : rows[i] \in InitTraces
  BY DEF Init
<1> QED BY <1>1, <1>2, <1>3 DEF ByIndex, Field!Init

(* add_node gives the new node the baseline and leaves every other trace.   *)
LEMMA AddNodeImplements ==
    ASSUME IInv, Exported = ByIndex, (Exported = ByIndex)',
           NEW n \in Nodes, AddNode(n)
    PROVE  Field!AddNode(n)
<1>1. /\ Known' = Known \cup {n} /\ n \notin Known
      /\ nodeIndex'[n] = Len(nodeIds) + 1
      /\ \A m \in Known : nodeIndex'[m] = nodeIndex[m]
  BY DEF AddNode, Known
<1>2. /\ rows'[Len(nodeIds) + 1] = DefaultTrace
      /\ \A i \in DOMAIN nodeIds : rows'[i] = rows[i]
  BY IInvFacts, DefaultIsTrace DEF AddNode
<1>3. \A m \in Known : rows'[nodeIndex'[m]] = rows[nodeIndex[m]]
  BY <1>1, <1>2, IInvFacts
<1>4. DOMAIN Exported = Known
  BY DEF ByIndex
<1>5. ByIndex' = [m \in Known \cup {n} |->
                    IF m = n THEN DefaultTrace ELSE ByIndex[m]]
  BY <1>1, <1>2, <1>3 DEF ByIndex
<1> QED BY <1>1, <1>4, <1>5 DEF Field!AddNode, Field!DefaultTrace, Field!Columns,
                               DefaultTrace, Columns

(* remove_node moves rows, but every other node keeps its trace.            *)
LEMMA RemoveNodeImplements ==
    ASSUME IInv, IInv', Exported = ByIndex, (Exported = ByIndex)',
           NEW n \in Nodes, RemoveNode(n)
    PROVE  Field!RemoveNode(n)
<1> DEFINE at == nodeIndex[n]
           old(k) == IF k < at THEN k ELSE k + 1
<1>1. /\ n \in Known /\ at \in DOMAIN nodeIds /\ nodeIds[at] = n
      /\ nodeIds \in Seq(Nodes) /\ rows \in Seq(Trace)
      /\ Len(nodeIds) \in Nat /\ Len(rows) = Len(nodeIds)
      /\ DOMAIN nodeIds = 1 .. Len(nodeIds) /\ DOMAIN rows = DOMAIN nodeIds
  BY IInvFacts DEF RemoveNode
<1>2. /\ DOMAIN nodeIds' = 1 .. Len(nodeIds) - 1
      /\ \A k \in DOMAIN nodeIds' : /\ nodeIds'[k] = nodeIds[old(k)]
                                    /\ rows'[k] = rows[old(k)]
                                    /\ old(k) \in DOMAIN nodeIds \ {at}
  <2>1. /\ nodeIds' = RemoveAt(nodeIds, at) /\ rows' = RemoveAt(rows, at)
    BY DEF RemoveNode
  <2>2. /\ DOMAIN nodeIds' = 1 .. Len(nodeIds) - 1
        /\ \A k \in 1 .. Len(nodeIds) - 1 : nodeIds'[k] = nodeIds[old(k)]
    BY <1>1, <2>1, RemoveAtElements
  <2>3. \A k \in 1 .. Len(nodeIds) - 1 : rows'[k] = rows[old(k)]
    BY <1>1, <2>1, RemoveAtElements
  <2>4. \A k \in 1 .. Len(nodeIds) - 1 : old(k) \in DOMAIN nodeIds \ {at}
    BY <1>1
  <2> QED BY <2>2, <2>3, <2>4
<1> HIDE DEF at, old
<1>3. /\ Known' = ToSet(nodeIds')
      /\ \A m \in Known' : /\ nodeIndex'[m] \in DOMAIN nodeIds'
                           /\ nodeIds'[nodeIndex'[m]] = m
  <2>1. Invertible'
    BY IndexInverse, PTL
  <2> QED BY <2>1 DEF Invertible
<1>4. ASSUME NEW m \in Known'
      PROVE  m \in Known /\ m # n /\ rows'[nodeIndex'[m]] = rows[nodeIndex[m]]
  <2> DEFINE k == nodeIndex'[m]
  <2>1. k \in DOMAIN nodeIds' /\ nodeIds[old(k)] = m /\ old(k) \in DOMAIN nodeIds \ {at}
    BY <1>2, <1>3
  <2>2. m \in Known /\ nodeIndex[m] = old(k)
    BY <2>1, IInvFacts DEF IInv, IndexAligned
  <2>3. m # n
    BY <2>1, <2>2 DEF at
  <2> QED BY <1>2, <2>1, <2>2, <2>3
<1>5. ASSUME NEW m \in Known, m # n
      PROVE  m \in Known'
  <2>1. nodeIndex[m] \in DOMAIN nodeIds \ {at} /\ nodeIds[nodeIndex[m]] = m
    BY <1>1, <1>5, IInvFacts
  <2>2. PICK k \in DOMAIN nodeIds' : old(k) = nodeIndex[m]
    <3> DEFINE j == nodeIndex[m]
               k0 == IF j < at THEN j ELSE j - 1
    <3>1. /\ j \in 1 .. Len(nodeIds) /\ at \in 1 .. Len(nodeIds) /\ j # at
          /\ Len(nodeIds) \in Nat
      BY <1>1, <2>1
    <3> HIDE DEF j
    <3>2. k0 \in 1 .. Len(nodeIds) - 1 /\ old(k0) = j
      BY <3>1 DEF old
    <3> QED BY <3>2, <1>2 DEF j
  <2>3. nodeIds'[k] = m
    BY <1>2, <2>1, <2>2
  <2> QED BY <1>3, <2>2, <2>3 DEF ToSet
<1>6. Known' = Known \ {n}
  BY <1>4, <1>5
<1>7. ByIndex' = [m \in Known \ {n} |-> ByIndex[m]]
  BY <1>4, <1>6 DEF ByIndex
<1>8. DOMAIN Exported = Known
  BY DEF ByIndex
<1> QED BY <1>1, <1>7, <1>8 DEF Field!RemoveNode

(* deposit_trace changes the named node's trace only.                       *)
LEMMA DepositImplements ==
    ASSUME IInv, Exported = ByIndex, (Exported = ByIndex)',
           NEW n \in Nodes, NEW o \in Observations, Deposit(n, o)
    PROVE  Field!Deposit(n, o)
<1>1. /\ n \in Known /\ Known' = Known /\ DOMAIN Exported = Known
      /\ \A m \in Known : nodeIndex[m] \in DOMAIN rows
      /\ \A m \in Known : m # n => nodeIndex[m] # nodeIndex[n]
  BY IInvFacts DEF Deposit, ByIndex, Known
<1>2. rows'[nodeIndex[n]] = Deposited(rows[nodeIndex[n]], o)
  BY <1>1 DEF Deposit
<1>3. \A m \in Known : m # n => rows'[nodeIndex[m]] = rows[nodeIndex[m]]
  BY <1>1 DEF Deposit
<1>4. ByIndex' = [ByIndex EXCEPT ![n] = Deposited(ByIndex[n], o)]
  BY <1>1, <1>2, <1>3 DEF ByIndex, Deposit
<1> QED BY <1>1, <1>4 DEF Field!Deposit, Field!Deposited, Field!Ewma,
             Field!ClampedMatch, Deposited, Ewma, ClampedMatch

(* apply_evaporation changes every trace alike.                             *)
LEMMA EvaporateImplements ==
    ASSUME IInv, Exported = ByIndex, (Exported = ByIndex)',
           NEW rate \in Rates, Evaporate(rate)
    PROVE  Field!Evaporate(rate)
<1>1. /\ Known' = Known /\ DOMAIN Exported = Known
      /\ \A m \in Known : nodeIndex[m] \in DOMAIN rows
  BY IInvFacts DEF Evaporate, ByIndex, Known
<1>2. ByIndex' = [m \in Known |-> Evaporated(ByIndex[m], rate)]
  BY <1>1 DEF ByIndex, Evaporate
<1> QED BY <1>1, <1>2 DEF Evaporate, Field!Evaporate, Field!Evaporated, Field!LegalRate,
             Field!Columns, Field!Lasting, Evaporated, LegalRate, Columns, Lasting

(* hydrate_from_snapshot overlays each known node with its own entry.       *)
LEMMA HydrateImplements ==
    ASSUME IInv, Exported = ByIndex, (Exported = ByIndex)',
           NEW snapshot \in Snapshots, Hydrate(snapshot)
    PROVE  Field!Hydrate(snapshot)
<1> DEFINE touched == Known \cap DOMAIN snapshot
<1>1. /\ Known' = Known /\ DOMAIN Exported = Known
      /\ \A m \in Known : nodeIndex[m] \in DOMAIN rows
      /\ \A m, k \in Known : nodeIndex[m] = nodeIndex[k] => m = k
  BY IInvFacts DEF Hydrate, ByIndex, Known
<1>2. ASSUME NEW m \in Known
      PROVE  rows'[nodeIndex[m]] = IF m \in DOMAIN snapshot
                                   THEN Overlaid(rows[nodeIndex[m]], snapshot[m])
                                   ELSE rows[nodeIndex[m]]
  <2>1. CASE m \in DOMAIN snapshot
    <3>1. (CHOOSE k \in touched : nodeIndex[k] = nodeIndex[m]) = m
      BY <1>1, <2>1
    <3> QED BY <3>1, <2>1, <1>1 DEF Hydrate
  <2>2. CASE m \notin DOMAIN snapshot
    <3>1. ~ \E k \in touched : nodeIndex[k] = nodeIndex[m]
      BY <1>1, <2>2
    <3> QED BY <3>1, <2>2, <1>1 DEF Hydrate
  <2> QED BY <2>1, <2>2
<1>3. ByIndex' = [m \in Known |-> IF m \in DOMAIN snapshot
                                 THEN Overlaid(ByIndex[m], snapshot[m])
                                 ELSE ByIndex[m]]
  BY <1>1, <1>2 DEF ByIndex, Hydrate
<1> QED BY <1>1, <1>3 DEF Field!Hydrate, Field!Overlaid, Field!Columns, Overlaid, Columns

(* The matrix implements the contract: one independent trace per node.      *)
THEOREM InMemoryImplementsField == Spec => ImplementsField
<1>1. IInv /\ IInv' /\ [Next]_vars => [Field!Next]_Exported
  <2> SUFFICES ASSUME IInv, IInv', [Next]_vars PROVE [Field!Next]_Exported
    OBVIOUS
  <2>1. Exported = ByIndex
    BY ExportedByIndex
  <2>2. (Exported = ByIndex)'
    BY ExportedByIndex, PTL
  <2>3. CASE \E n \in Nodes : AddNode(n)
    BY <2>1, <2>2, <2>3, AddNodeImplements DEF Field!Next
  <2>4. CASE \E n \in Nodes : RemoveNode(n)
    BY <2>1, <2>2, <2>4, RemoveNodeImplements DEF Field!Next
  <2>5. CASE \E n \in Nodes, o \in Observations : Deposit(n, o)
    BY <2>1, <2>2, <2>5, DepositImplements DEF Field!Next
  <2>6. CASE \E rate \in Rates : Evaporate(rate)
    BY <2>1, <2>2, <2>6, EvaporateImplements DEF Field!Next
  <2>7. CASE \E snapshot \in Snapshots : Hydrate(snapshot)
    BY <2>1, <2>2, <2>7, HydrateImplements DEF Field!Next
  <2>8. CASE UNCHANGED vars
    BY <2>8 DEF vars, Exported, IndexOfIds, ToSet
  <2> QED BY <2>3, <2>4, <2>5, <2>6, <2>7, <2>8 DEF Next
<1> QED BY <1>1, InitIInv, NextKeepsIInv, InitImplements, PTL
        DEF Spec, ImplementsField, Field!Spec
=============================================================================
