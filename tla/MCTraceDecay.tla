---------------------------- MODULE MCTraceDecay ----------------------------
(* The engines of two replicas and a request over two intervals. *)
EXTENDS TraceDecay, TLC

Symmetry == Permutations(Engines) \cup Permutations(Requests)
=============================================================================
