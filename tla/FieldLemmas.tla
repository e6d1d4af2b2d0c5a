---------------------------- MODULE FieldLemmas ----------------------------
(***************************************************************************)
(* Lemmas about what the memory fields are built from: the ways a trace is *)
(* rewritten keep it a trace, with V and C in [0, 1], and the ways the     *)
(* list of nodes is rewritten.                                             *)
(***************************************************************************)
EXTENDS Traces, NodeIndex, SequenceTheorems, TLAPS

(* deposit_trace's EWMA keeps V and C in [0, 1] for any reported outcome.   *)
LEMMA DepositedIsTrace ==
    ASSUME NEW t \in Trace, NEW o \in Observation
    PROVE  Deposited(t, o) \in Trace
<1>1. ClampedMatch(o.capability) \in 0 .. Unit
  BY TracesAssumption DEF ClampedMatch, Observation
<1>2. /\ t["V"] \in 0 .. Unit /\ t["C"] \in 0 .. Unit
      /\ t["L"] \in Nat /\ t["S"] \in Nat
  BY TracesAssumption DEF Trace, Columns
<1>3. \A x, y \in 0 .. Unit : Ewma(x, y) \in 0 .. Unit
  BY TracesAssumption DEF Ewma
<1>4. \A x, y \in Nat : Ewma(x, y) \in Nat
  BY DEF Ewma
<1> DEFINE d == Deposited(t, o)
<1>5. /\ DOMAIN d = Columns
      /\ d["V"] = Ewma(IF o.success THEN Unit ELSE 0, t["V"])
      /\ d["L"] = Ewma(o.latency, t["L"])
      /\ d["S"] = o.load
      /\ d["C"] = Ewma(ClampedMatch(o.capability), t["C"])
  BY DEF Deposited, Trace, Columns
<1>6. d["V"] \in 0 .. Unit /\ d["C"] \in 0 .. Unit
  <2>1. (IF o.success THEN Unit ELSE 0) \in 0 .. Unit
    BY TracesAssumption
  <2>2. Ewma(IF o.success THEN Unit ELSE 0, t["V"]) \in 0 .. Unit
    BY <2>1, <1>2, <1>3
  <2>3. Ewma(ClampedMatch(o.capability), t["C"]) \in 0 .. Unit
    BY <1>1, <1>2, <1>3
  <2> QED BY <2>2, <2>3, <1>5
<1>7. d["L"] \in Nat /\ d["S"] \in Nat
  BY <1>2, <1>4, <1>5 DEF Observation
<1>8. d = [k \in Columns |-> d[k]]
  BY <1>5 DEF Deposited, Trace
<1> HIDE DEF d
<1>9. d \in Trace
  BY <1>6, <1>7, <1>8, TracesAssumption DEF Trace, Columns
<1> QED BY <1>9 DEF d

(* Evaporation at a legal rate never raises a trace.                        *)
LEMMA EvaporatedIsTrace ==
    ASSUME NEW t \in Trace, NEW rate \in LegalRate
    PROVE  Evaporated(t, rate) \in Trace
<1>1. \A x \in Nat : (x * (Unit - rate)) \div Unit \in 0 .. x
  <2> SUFFICES ASSUME NEW x \in Nat PROVE (x * (Unit - rate)) \div Unit \in 0 .. x
    OBVIOUS
  <2> DEFINE k == Unit - rate
  <2>1. k \in 0 .. Unit /\ Unit \in Nat \ {0}
    BY TracesAssumption DEF LegalRate
  <2>2. x * k \in Nat /\ x * k <= x * Unit
    BY <2>1
  <2> HIDE DEF k
  <2>3. (x * k) \div Unit <= x
    BY <2>1, <2>2
  <2>4. (x * k) \div Unit \in Nat
    BY <2>1, <2>2
  <2> QED BY <2>3, <2>4 DEF k
<1>2. \A k \in Columns : t[k] \in Nat /\ Evaporated(t, rate)[k] \in 0 .. t[k]
  BY <1>1 DEF Evaporated, Trace
<1> QED BY <1>2, TracesAssumption DEF Trace, Evaporated, Columns

(* Hydration copies values that were V and C values of a trace before.      *)
LEMMA OverlaidIsTrace ==
    ASSUME NEW t \in Trace, NEW p, IsPartialTrace(p)
    PROVE  Overlaid(t, p) \in Trace
BY TracesAssumption DEF Overlaid, IsPartialTrace, Trace, Columns

(* A new node's baseline row is a trace.                                    *)
LEMMA DefaultIsTrace == DefaultTrace \in Trace
BY TracesAssumption DEF DefaultTrace, Trace, Columns

-----------------------------------------------------------------------------
(* The list and the dictionary. *)
Injective(ids) == \A i, j \in DOMAIN ids : ids[i] = ids[j] => i = j

(* _index_of's dictionary, rebuilt by enumerate: the inverse of the list.   *)
LEMMA IndexOfIdsInverts ==
    ASSUME NEW S, NEW ids \in Seq(S), Injective(ids)
    PROVE  /\ IndexOfIds(ids) \in [ToSet(ids) -> DOMAIN ids]
           /\ \A i \in DOMAIN ids : IndexOfIds(ids)[ids[i]] = i
BY DEF IndexOfIds, ToSet, Injective

(* list.pop and numpy.delete: the elements after position i move up by one. *)
LEMMA RemoveAtElements ==
    ASSUME NEW S, NEW s \in Seq(S), NEW i \in DOMAIN s
    PROVE  /\ RemoveAt(s, i) \in Seq(S)
           /\ DOMAIN RemoveAt(s, i) = 1 .. Len(s) - 1
           /\ \A j \in 1 .. Len(s) - 1 :
                 RemoveAt(s, i)[j] = IF j < i THEN s[j] ELSE s[j + 1]
<1> DEFINE front == SubSeq(s, 1, i - 1)
           back  == SubSeq(s, i + 1, Len(s))
<1>0. RemoveAt(s, i) = front \o back
  BY DEF RemoveAt
<1>1. /\ Len(s) \in Nat /\ i \in 1 .. Len(s)
      /\ \A j \in 1 .. Len(s) : s[j] \in S
  OBVIOUS
<1>2. /\ front \in Seq(S) /\ Len(front) = i - 1
      /\ \A j \in 1 .. i - 1 : front[j] = s[j]
  BY <1>1
<1>3. /\ back \in Seq(S) /\ Len(back) = Len(s) - i
      /\ \A j \in 1 .. Len(s) - i : back[j] = s[i + j]
  BY <1>1
<1> HIDE DEF front, back
<1>4. /\ front \o back \in Seq(S) /\ Len(front \o back) = Len(s) - 1
      /\ \A j \in 1 .. Len(s) - 1 : (front \o back)[j] =
            IF j <= i - 1 THEN front[j] ELSE back[j - (i - 1)]
  BY <1>1, <1>2, <1>3, ConcatProperties
<1>5. ASSUME NEW j \in 1 .. Len(s) - 1
      PROVE  (front \o back)[j] = IF j < i THEN s[j] ELSE s[j + 1]
  <2>1. CASE j < i
    <3>1. j \in 1 .. i - 1 /\ j <= i - 1
      BY <2>1, <1>1
    <3>2. (front \o back)[j] = front[j] /\ front[j] = s[j]
      BY <3>1, <1>2, <1>4
    <3> QED BY <2>1, <3>2
  <2>2. CASE j >= i
    <3>1. /\ j - (i - 1) \in 1 .. Len(s) - i
          /\ i + (j - (i - 1)) = j + 1
          /\ ~(j <= i - 1) /\ ~(j < i)
      BY <2>2, <1>1
    <3>2. back[j - (i - 1)] = s[j + 1]
      BY <3>1, <1>3
    <3>3. (front \o back)[j] = back[j - (i - 1)]
      BY <3>1, <1>4
    <3> QED BY <3>1, <3>2, <3>3
  <2>3. j < i \/ j >= i
    BY <1>1
  <2> QED BY <2>1, <2>2, <2>3
<1>6. DOMAIN (front \o back) = 1 .. Len(s) - 1
  BY <1>1, <1>4
<1> QED BY <1>0, <1>4, <1>5, <1>6
=============================================================================
