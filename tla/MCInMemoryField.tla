-------------------------- MODULE MCInMemoryField --------------------------
(* Three nodes, two of them configured at start; V and C take three values. *)
EXTENDS InMemoryField

CONSTANTS n1, n2, n3

MCInitIds == <<n1, n2>>
MCInitTraces == {DefaultTrace}

Outcome(success, latency, load, capability) ==
    [success |-> success, latency |-> latency, load |-> load, capability |-> capability]

(* A good answer, a failure on a loaded node, a match outside [0, 1]. *)
MCObservations ==
    {Outcome(TRUE, 0, 0, Unit), Outcome(FALSE, 2, 1, 0), Outcome(TRUE, 2, 0, 3 * Unit)}

(* Rate Unit is the illegal rate 1.0. *)
MCRates == {1, Unit}

(* A full entry with a node that was removed, and an entry that lacks columns. *)
MCSnapshots ==
    { n1 :> [DefaultTrace EXCEPT !["V"] = 0] @@ n3 :> [DefaultTrace EXCEPT !["S"] = 1],
      n2 :> ("C" :> 0) }
=============================================================================
