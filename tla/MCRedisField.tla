---------------------------- MODULE MCRedisField ----------------------------
(* Two replicas over one Redis.  In r1, one coroutine is the decay engine or  *)
(* removes a node, and another adds one or serves a request; r2 serves       *)
(* requests, evaporates and hydrates.                                       *)
EXTENDS RedisField

CONSTANTS r1, r2, engine, worker, other, n1, n2, retired, d1, d2

DepositCall(d, n) == [op |-> "deposit", dep |-> d, node |-> n]
NodeCall(op, n) == [op |-> op, node |-> n]
EvaporateCall == [op |-> "evaporate"]
HydrateCall(nodes) == [op |-> "hydrate", nodes |-> nodes]

MCReplicaOf == (engine :> r1) @@ (worker :> r1) @@ (other :> r2)

MCCalls ==
    (engine :> {EvaporateCall, NodeCall("remove", n1)})
    @@ (worker :> {NodeCall("add", n2), DepositCall(d1, n1)})
    @@ (other :> {DepositCall(d2, n1), HydrateCall({n1, retired, n2}), EvaporateCall})

(* The decay engine of one replica against the deposits of both. *)
MCCallsSteady ==
    (engine :> {EvaporateCall}) @@ (worker :> {DepositCall(d1, n1)})
    @@ (other :> {DepositCall(d2, n1)})

MCMortal == {r1, r2, "redis"}

MCInitIds == <<n1>>
=============================================================================
