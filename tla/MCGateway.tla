----------------------------- MODULE MCGateway -----------------------------
(* Two requests of one or two tokens, one of them a stream, against quotas of *)
(* one request and one token per window of one second, so that either        *)
(* dimension rejects some; one key is in Redis only, the other also in the   *)
(* map.                                                                      *)
EXTENDS Gateway

One == [d \in Dims |-> 1]

AllOnOne == [q \in Requests |-> CHOOSE r \in Replicas : TRUE]
=============================================================================
