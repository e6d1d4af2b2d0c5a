---------------------------- MODULE RateLimiter ----------------------------
(***************************************************************************)
(* RedisRateLimiter: two quotas (requests and tokens per minute) of one    *)
(* tenant, checked one after the other by every request of every replica   *)
(* with the same Lua script.  The script runs atomically in Redis; around  *)
(* it a call may fail before or after it has run, and is then retried once *)
(* with EVAL.  The first calls of a replica load the script before that,   *)
(* where a failure is not retried.  Keys of different tenants are disjoint. *)
(***************************************************************************)
EXTENDS Integers

CONSTANTS
    Requests,   \* requests of the tenant, each checked once
    Replicas,   \* gateway processes, each with a RedisRateLimiter of its own
    ReplicaOf,  \* the replica a request reaches
    Costs,      \* what a request may cost in tokens
    Limit,      \* rpm_limit and tpm_limit
    Window,     \* WINDOW_SECONDS
    MaxTime,    \* bound: the clock stops here
    MaxDelay    \* bound: seconds from reading the clock to an answer

Dims == {"rpm", "tpm"}

ASSUME RateLimiterAssumption ==
    /\ Window \in Nat \ {0}
    /\ MaxTime \in Nat
    /\ MaxDelay \in Nat
    /\ MaxDelay <= Window
    /\ Costs \subseteq Nat
    /\ Limit \in [Dims -> Nat]
    /\ ReplicaOf \in [Requests -> Replicas]

VARIABLES
    clock,      \* seconds
    usage,      \* the Redis hash of each dimension: cost by bucket
    expires,    \* when Redis drops the hash of each dimension
    loaded,     \* the replicas that hold the script's SHA (_script_sha)
    req,        \* the progress of each request
    admitted    \* by dimension and bucket: the cost of the checks that passed

vars == <<clock, usage, expires, loaded, req, admitted>>

Bucket(now) == now \div Window

Buckets == -1 .. (MaxTime \div Window)

Empty == [b \in {} |-> 0]

UsageIn(d, b) == IF b \in DOMAIN usage[d] THEN usage[d][b] ELSE 0

(* The sliding usage, times Window. *)
Weighted(d, now) ==
    UsageIn(d, Bucket(now) - 1) * (Window - (now % Window))
        + UsageIn(d, Bucket(now)) * Window

(* Mutant: the request's own cost is not added before the comparison. *)
FitsBefore(d, now, cost) == Weighted(d, now) <= Limit[d] * Window

Fits(d, now, cost) == Weighted(d, now) + cost * Window <= Limit[d] * Window

(* Mutant: the key lives one window only. *)
ExpiryShort == Window

Expiry == 2 * Window

(* Mutant: a request that does not fit is refunded what was never charged. *)
ScriptRefunds(d, now, cost) ==
    /\ usage' = [usage EXCEPT ![d] =
                    [b \in DOMAIN usage[d] \cup {Bucket(now)} |->
                        UsageIn(d, b) + IF b # Bucket(now) THEN 0
                                        ELSE IF Fits(d, now, cost) THEN cost ELSE -cost]]
    /\ expires' = [expires EXCEPT ![d] = clock + Expiry]

(* SLIDING_WINDOW_LUA: a request that fits is recorded, another is not. *)
Script(d, now, cost) ==
    IF Fits(d, now, cost)
    THEN /\ usage' = [usage EXCEPT ![d] =
                        [b \in DOMAIN usage[d] \cup {Bucket(now)} |->
                            UsageIn(d, b) + IF b = Bucket(now) THEN cost ELSE 0]]
         /\ expires' = [expires EXCEPT ![d] = clock + Expiry]
    ELSE UNCHANGED <<usage, expires>>

Request ==
    [pc : {"new", "load", "evalsha", "eval", "done", "error"}, dim : Dims,
     now : 0 .. MaxTime, cost : Costs \cup {0},
     passed : [Dims -> BOOLEAN], charged : SUBSET Dims]

New == [pc |-> "new", dim |-> "rpm", now |-> 0, cost |-> 0,
        passed |-> [d \in Dims |-> FALSE], charged |-> {}]

Init ==
    /\ clock = 0
    /\ usage = [d \in Dims |-> Empty]
    /\ expires = [d \in Dims |-> 0]
    /\ loaded = {}
    /\ req = [q \in Requests |-> New]
    /\ admitted = [d \in Dims |-> [b \in Buckets |-> 0]]

Pending(q) == req[q].pc \in {"load", "evalsha", "eval"}

(* A request costs 1 in the rpm dimension and its tokens in the other. *)
CostOf(q) == IF req[q].dim = "rpm" THEN 1 ELSE req[q].cost

(* check_rate_limits reads the clock once for both dimensions; what awaits   *)
(* it first is the script, unless its replica has loaded it.                *)
Arrive(q, cost) ==
    /\ req[q].pc = "new"
    /\ req' = [req EXCEPT ![q].pc = IF ReplicaOf[q] \in loaded THEN "evalsha" ELSE "load",
                          ![q].now = clock, ![q].cost = cost]
    /\ UNCHANGED <<clock, usage, expires, loaded, admitted>>

(* _ensure_script: several requests of a replica may load the script at once. *)
Load(q) ==
    /\ req[q].pc = "load"
    /\ req' = [req EXCEPT ![q].pc = "evalsha"]
    /\ loaded' = loaded \cup {ReplicaOf[q]}
    /\ UNCHANGED <<clock, usage, expires, admitted>>

(* SCRIPT LOAD raises, outside the try: nothing is repeated with EVAL. *)
LoadFails(q) ==
    /\ req[q].pc = "load"
    /\ req' = [req EXCEPT ![q].pc = "error"]
    /\ UNCHANGED <<clock, usage, expires, loaded, admitted>>

(* The dimensions in which the request is charged once the script has run. *)
ChargedBy(q) ==
    req[q].charged \cup
        IF Fits(req[q].dim, req[q].now, CostOf(q)) THEN {req[q].dim} ELSE {}

(* The script runs and its answer is taken; the rpm check is followed by    *)
(* the tpm check whatever it answered.                                      *)
Answer(q) ==
    LET r == req[q]  d == r.dim  fits == Fits(d, r.now, CostOf(q)) IN
    /\ Script(d, r.now, CostOf(q))
    /\ req' = [req EXCEPT ![q] = [r EXCEPT
                  !.pc = IF d = "rpm" THEN "evalsha" ELSE "done",
                  !.dim = "tpm",
                  !.passed[d] = fits,
                  !.charged = ChargedBy(q)]]
    /\ admitted' = IF fits THEN [admitted EXCEPT ![d][Bucket(r.now)] = @ + CostOf(q)]
                           ELSE admitted
    /\ UNCHANGED <<clock, loaded>>

EvalSha(q) == req[q].pc = "evalsha" /\ Answer(q)

(* EVALSHA raises before the script ran (NOSCRIPT, connection refused). *)
EvalShaFails(q) ==
    /\ req[q].pc = "evalsha"
    /\ req' = [req EXCEPT ![q].pc = "eval"]
    /\ UNCHANGED <<clock, usage, expires, loaded, admitted>>

(* EVALSHA raises after the script ran: its answer is lost. *)
EvalShaAnswerLost(q) ==
    /\ req[q].pc = "evalsha"
    /\ Script(req[q].dim, req[q].now, CostOf(q))
    /\ req' = [req EXCEPT ![q].pc = "eval", ![q].charged = ChargedBy(q)]
    /\ UNCHANGED <<clock, loaded, admitted>>

Eval(q) == req[q].pc = "eval" /\ Answer(q)

(* Mutant: the call is tried again from the start, for as long as it takes. *)
EvalFailsRetried(q) ==
    /\ req[q].pc = "eval"
    /\ req' = [req EXCEPT ![q].pc = "evalsha"]
    /\ UNCHANGED <<clock, usage, expires, loaded, admitted>>

(* EVAL raises as well and the exception reaches the client. *)
EvalFails(q) ==
    /\ req[q].pc = "eval"
    /\ req' = [req EXCEPT ![q].pc = "error"]
    /\ UNCHANGED <<clock, usage, expires, loaded, admitted>>

EvalAnswerLost(q) ==
    /\ req[q].pc = "eval"
    /\ Script(req[q].dim, req[q].now, CostOf(q))
    /\ req' = [req EXCEPT ![q].pc = "error", ![q].charged = ChargedBy(q)]
    /\ UNCHANGED <<clock, loaded, admitted>>

(* Time passes; Redis drops a hash when its time has come. *)
Tick ==
    /\ clock < MaxTime
    /\ \A q \in Requests : Pending(q) => clock < req[q].now + MaxDelay
    /\ clock' = clock + 1
    /\ usage' = [d \in Dims |-> IF expires[d] <= clock' THEN Empty ELSE usage[d]]
    /\ UNCHANGED <<expires, loaded, req, admitted>>

Next ==
    \/ \E q \in Requests, cost \in Costs : Arrive(q, cost)
    \/ \E q \in Requests : Load(q)
    \/ \E q \in Requests : LoadFails(q)
    \/ \E q \in Requests : EvalSha(q)
    \/ \E q \in Requests : EvalShaFails(q)
    \/ \E q \in Requests : EvalShaAnswerLost(q)
    \/ \E q \in Requests : Eval(q)
    \/ \E q \in Requests : EvalFails(q)
    \/ \E q \in Requests : EvalAnswerLost(q)
    \/ Tick

Spec == Init /\ [][Next]_vars

-----------------------------------------------------------------------------
(* Every variable has the shape the code gives it; no hash counts below zero. *)
TypeOK ==
    /\ clock \in 0 .. MaxTime
    /\ DOMAIN usage = Dims
    /\ \A d \in Dims :
          /\ DOMAIN usage[d] \subseteq Buckets
          /\ \A b \in DOMAIN usage[d] : usage[d][b] \in Nat
    /\ expires \in [Dims -> Nat]
    /\ loaded \subseteq Replicas
    /\ req \in [Requests -> Request]
    /\ admitted \in [Dims -> [Buckets -> Nat]]

(* In no bucket do the checks that passed cost more than the quota, though   *)
(* answers are lost and calls repeated, requests of all replicas interleave, *)
(* a check reaches Redis late and Redis drops the hash of an idle tenant.    *)
AdmittedWithinLimit ==
    \A d \in Dims, b \in Buckets : admitted[d][b] <= Limit[d]

(* A check that passes in the current bucket leaves the sliding sum of what  *)
(* was admitted within the quota: the previous bucket counts in proportion   *)
(* to the part of it the window still covers.                                *)
SlidingAdmission ==
    [][\A d \in Dims :
          LET b == Bucket(clock) IN
          admitted'[d][b] > admitted[d][b] =>
              admitted'[d][b] * Window + admitted[d][b - 1] * (Window - (clock % Window))
                  <= Limit[d] * Window]_vars

(* What the module promises (refuted): a request that is rejected has not    *)
(* been charged in either dimension.                                         *)
RejectedIsFree ==
    \A q \in Requests :
        (req[q].pc = "done" /\ \E d \in Dims : ~ req[q].passed[d])
            => req[q].charged = {}
=============================================================================
