-------------------------- MODULE MCWorkerRegistry --------------------------
(* Two workers, one of which the field has from the start, and two prune     *)
(* loops: one that a failed stop left running and the next one started.  With *)
(* MCWorkerOf two clients speak for the same worker, c1 and c2.             *)
EXTENDS WorkerRegistry, TLC

CONSTANTS w1, w2, c1, c2, c3

MCWorkerOf == c1 :> w1 @@ c2 :> w1 @@ c3 :> w2

MCWorkerOfEach == c1 :> w1 @@ c3 :> w2
=============================================================================
