------------------------------- MODULE Traces -------------------------------
(***************************************************************************)
(* The four pheromone traces a node carries (core/memory_field.py), in     *)
(* fixed point: Unit stands for the float 1.0 of the V and C columns.  L   *)
(* is measured in the same unit and S in multiples of saturation_scale.    *)
(* Float rounding is replaced by rounding down.                            *)
(***************************************************************************)
EXTENDS Integers

CONSTANTS
    Unit,             \* the fixed-point value of 1.0
    BaseLatency,      \* the fixed-point value of the baseline latency, 0.1
    DecaySuccess,     \* configuration flag decay_success
    DecayCapability   \* configuration flag decay_capability

ASSUME TracesAssumption ==
    /\ Unit \in Nat \ {0}
    /\ BaseLatency \in Nat
    /\ DecaySuccess \in BOOLEAN
    /\ DecayCapability \in BOOLEAN

Columns == {"V", "L", "S", "C"}

Trace == {t \in [Columns -> Nat] : t["V"] <= Unit /\ t["C"] <= Unit}

(* What a caller reports of one finished inference. *)
Observation == [success : BOOLEAN, latency : Nat, load : Nat, capability : Int]

(* A node's entry in a snapshot: any subset of the columns, with values that *)
(* a field had when it was exported.  Hydration checks none of this.         *)
IsPartialTrace(p) ==
    /\ DOMAIN p \subseteq Columns
    /\ \A k \in DOMAIN p : p[k] \in IF k \in {"V", "C"} THEN 0 .. Unit ELSE Nat

DefaultTrace ==
    [k \in Columns |-> IF k = "L" THEN BaseLatency ELSE IF k = "S" THEN 0 ELSE Unit]

(* The moving average with alpha = 1/2. *)
Ewma(sample, old) == (sample + old) \div 2

UnclampedMatch(c) == c

ClampedMatch(c) == IF c < 0 THEN 0 ELSE IF c > Unit THEN Unit ELSE c

(* Mutant: the latency and the load of an observation are swapped. *)
DepositedSwapped(t, o) ==
    [t EXCEPT !["V"] = Ewma(IF o.success THEN Unit ELSE 0, @),
              !["L"] = Ewma(o.load, @),
              !["S"] = o.latency,
              !["C"] = Ewma(ClampedMatch(o.capability), @)]

Deposited(t, o) ==
    [t EXCEPT !["V"] = Ewma(IF o.success THEN Unit ELSE 0, @),
              !["L"] = Ewma(o.latency, @),
              !["S"] = o.load,
              !["C"] = Ewma(ClampedMatch(o.capability), @)]

(* The columns evaporation leaves alone. *)
Lasting == (IF DecaySuccess THEN {} ELSE {"V"})
           \cup (IF DecayCapability THEN {} ELSE {"C"})

(* A decay rate is legal in [0, 1): any other raises before touching a row. *)
LegalRate == 0 .. Unit - 1

(* Rounding down lets L and S (V and C, when they decay) reach 0 in finitely *)
(* many steps; the code's floats come as close to 0 as one likes.           *)
Evaporated(t, rate) ==
    [k \in Columns |-> IF k \in Lasting THEN t[k] ELSE (t[k] * (Unit - rate)) \div Unit]

Overlaid(t, partial) ==
    [k \in Columns |-> IF k \in DOMAIN partial THEN partial[k] ELSE t[k]]
=============================================================================
