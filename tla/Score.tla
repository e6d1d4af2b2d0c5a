-------------------------------- MODULE Score --------------------------------
(***************************************************************************)
(* The arithmetic that turns a trace into the attraction of a node: the    *)
(* score of core/router_agent.py, the weights a tenant's tier gives it     *)
(* (api/governance.py) and the match between a prompt and the tags of a    *)
(* worker (api/server.py, core/router_agent.py).  A score is kept as its   *)
(* numerator and denominator; tier multipliers are in tenths, capability   *)
(* weights in hundredths.                                                  *)
(***************************************************************************)
EXTENDS Traces

CONSTANTS
    Alpha, Beta, Gamma, Delta,  \* the configured weights of V, L, S and C
    Eps                         \* StigmergicRouterAgent._EPS

ASSUME ScoreAssumption ==
    /\ {Alpha, Beta, Gamma, Delta} \subseteq Nat
    /\ Eps \in Nat \ {0}

(* _tier_multipliers; a weight that is not named is left as it is. *)
Multipliers ==
    [enterprise |-> [alpha |-> 12, beta |-> 15, gamma |-> 10, delta |-> 10],
     free       |-> [alpha |-> 10, beta |-> 10, gamma |-> 20, delta |-> 20],
     pro        |-> [alpha |-> 10, beta |-> 10, gamma |-> 10, delta |-> 10]]

Tiers == DOMAIN Multipliers

NormalizedTier(tier) == IF tier \in Tiers THEN tier ELSE "pro"

(* apply_governance_bias to the router's weights, and the epsilon in the     *)
(* same unit.                                                               *)
GovernedWeights(tier) ==
    LET m == Multipliers[NormalizedTier(tier)] IN
    [alpha |-> Alpha * m.alpha, beta |-> Beta * m.beta,
     gamma |-> Gamma * m.gamma, delta |-> Delta * m.delta, eps |-> 10 * Eps]

(* compute_scores *)
Attraction(t, w) == w.alpha * t["V"] + w.delta * t["C"] + w.eps

Repulsion(t, w) == w.beta * t["L"] + w.gamma * t["S"] + w.eps

(* Trace u attracts requests at most as much as trace t. *)
NoMoreAttractive(u, t, w) ==
    Attraction(u, w) * Repulsion(t, w) <= Attraction(t, w) * Repulsion(u, w)

-----------------------------------------------------------------------------
CapabilityTags == {"llm", "reasoning", "slm", "fast", "low-latency", "balanced"}

(* A prompt, as far as analyze_prompt looks at it: below 100 characters,     *)
(* above 500 or between, with or without one of the thinking patterns.      *)
Prompt == [thinking : BOOLEAN, length : {"short", "medium", "long"}]

(* analyze_prompt: the weight of each tag, 0 for a tag it does not name. *)
ContextOf(p) ==
    LET long == p.length = "long"
        brief == p.length = "short" /\ ~ p.thinking
    IN [tag \in CapabilityTags |->
          CASE tag = "llm" /\ p.thinking /\ long -> 225
            [] tag = "llm" /\ p.thinking # long -> 150
            [] tag = "reasoning" /\ p.thinking -> 150
            [] tag = "balanced" /\ long -> 120
            [] tag = "slm" /\ brief -> 150
            [] tag = "fast" /\ brief -> 130
            [] tag = "low-latency" /\ brief -> 120
            [] OTHER -> 0]

(* The weight the tags of a set have in a context. *)
WeightIn(ctx, tags) ==
    LET w(tag) == IF tag \in tags THEN ctx[tag] ELSE 0 IN
    w("llm") + w("reasoning") + w("slm") + w("fast") + w("low-latency") + w("balanced")

(* No capability context, or a worker without tags: the match is neutral. *)
Neutral == Unit \div 2

(* compute_capability_match; an empty context weighs nothing. *)
CapabilityMatch(tags, ctx) ==
    LET total == WeightIn(ctx, CapabilityTags) IN
    IF tags = {} \/ total = 0 THEN Neutral
    ELSE (Unit * WeightIn(ctx, tags)) \div total
=============================================================================
