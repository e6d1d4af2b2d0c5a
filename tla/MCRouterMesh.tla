---------------------------- MODULE MCRouterMesh ----------------------------
(* Two workers with the tags of the first two of config.yaml; V and C take   *)
(* three values.  The weights are those of config.yaml, doubled.  The plain  *)
(* request thinks, so that one worker fits it fully and the other not at all. *)
EXTENDS RouterMesh, TLC

CONSTANTS n1, n2, p1, s1

MCPromptOf ==
    (p1 :> [thinking |-> TRUE, length |-> "short"])
    @@ (s1 :> [thinking |-> FALSE, length |-> "short"])

MCTagsOf == (n1 :> {"llm", "reasoning"}) @@ (n2 :> {"slm", "fast", "low-latency"})
=============================================================================
