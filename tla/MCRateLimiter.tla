--------------------------- MODULE MCRateLimiter ---------------------------
(* Three requests of two tokens against quotas of two requests and three     *)
(* tokens per window of two seconds: either dimension rejects some.          *)
EXTENDS RateLimiter, TLC

MCLimit == [d \in Dims |-> IF d = "rpm" THEN 2 ELSE 3]

AllOnOne == [q \in Requests |-> CHOOSE r \in Replicas : TRUE]

Symmetry == Permutations(Requests)
=============================================================================
