------------------------------ MODULE Gateway ------------------------------
(***************************************************************************)
(* The way of a request from its header to its answer: get_current_tenant  *)
(* resolves the API key in Redis or in the static fallback map, the        *)
(* endpoint checks both quotas of the tenant (RateLimiter, whose variables *)
(* and steps this module composes), and what passes is routed.  Operators  *)
(* edit the key store meanwhile.  Security is enabled; all keys belong to  *)
(* the tenant of RateLimiter, with the same limits wherever they are held. *)
(***************************************************************************)
EXTENDS RateLimiter, FiniteSets

CONSTANTS
    Keys,       \* the API keys of the tenant
    Fallback,   \* those in security.defaultTenantKeys
    NoKey,      \* the header is absent or malformed
    Streams,    \* requests with stream = true
    MaxEdits    \* bound: edits of the key store

ASSUME GatewayAssumption ==
    /\ IsFiniteSet(Requests)
    /\ Fallback \subseteq Keys /\ NoKey \notin Keys
    /\ Streams \subseteq Requests
    /\ MaxEdits \in Nat

VARIABLES
    store,      \* the keys with a readable record tenant:key:<hash> in Redis
    edits,      \* edits of the store so far
    http        \* the progress and the answer of each request

limiterVars == vars
gatewayVars == <<clock, usage, expires, loaded, req, admitted, store, edits, http>>

GatewayInit ==
    /\ Init
    /\ store = Keys
    /\ edits = 0
    /\ http = [q \in Requests |-> [pc |-> "new", key |-> NoKey, status |-> 0]]

Goto(q, pc, key, status) ==
    http' = [http EXCEPT ![q] = [pc |-> pc, key |-> key, status |-> status]]

(* Mutant: the answer is sent and its status not recorded. *)
RespondUnmarked(q, status) == Goto(q, "done", http[q].key, http[q].status)

Respond(q, status) == Goto(q, "done", http[q].key, status)

-----------------------------------------------------------------------------
(* get_current_tenant parses the header. *)
Receive(q, key) ==
    /\ http[q].pc = "new"
    /\ IF key = NoKey
       THEN Respond(q, 401)
       ELSE Goto(q, "lookup", key, 0)
    /\ UNCHANGED <<limiterVars, store, edits>>

(* A key that is resolved goes on to the quotas without another await. *)
Admit(q, cost) ==
    /\ Goto(q, "limited", http[q].key, 0)
    /\ Arrive(q, cost)
    /\ UNCHANGED <<store, edits>>

(* Mutant: a key is remembered once it has been resolved. *)
LookupCached(q, cost) ==
    /\ http[q].pc = "lookup"
    /\ IF \/ http[q].key \in store \cup Fallback
          \/ \E p \in Requests : http[p].key = http[q].key /\ req[p].pc # "new"
       THEN Admit(q, cost)
       ELSE Respond(q, 401) /\ UNCHANGED <<limiterVars, store, edits>>

(* validate_api_key: the record in Redis, else the fallback map. *)
Lookup(q, cost) ==
    /\ http[q].pc = "lookup"
    /\ IF http[q].key \in store \cup Fallback
       THEN Admit(q, cost)
       ELSE Respond(q, 401) /\ UNCHANGED <<limiterVars, store, edits>>

(* The lookup raises: only the fallback map is left. *)
LookupFails(q, cost) ==
    /\ http[q].pc = "lookup"
    /\ IF http[q].key \in Fallback
       THEN Admit(q, cost)
       ELSE Respond(q, 401) /\ UNCHANGED <<limiterVars, store, edits>>

(* Mutant: a limiter that cannot be asked lets everybody in. *)
VerdictOpen(q, r) ==
    CASE r.pc = "error" \/ (r.pc = "done" /\ \A d \in Dims : r.passed[d]) ->
            Goto(q, "running", http[q].key, 0)
      [] r.pc = "done" /\ (\E d \in Dims : ~ r.passed[d]) -> Respond(q, 429)
      [] OTHER -> UNCHANGED http

(* What check_rate_limits leaves of the check r decides: it raised, passed,  *)
(* rejected or goes on.  The status of a stream precedes its first chunk.   *)
Verdict(q, r) ==
    CASE r.pc = "error" -> Respond(q, 500)
      [] r.pc = "done" /\ (\A d \in Dims : r.passed[d]) ->
            Goto(q, "running", http[q].key, IF q \in Streams THEN 200 ELSE 0)
      [] r.pc = "done" /\ (\E d \in Dims : ~ r.passed[d]) -> Respond(q, 429)
      [] OTHER -> UNCHANGED http

(* A step of check_rate_limits for q, and what the endpoint makes of it. *)
Check(q) ==
    /\ Load(q) \/ LoadFails(q) \/ EvalSha(q) \/ EvalShaFails(q) \/ EvalShaAnswerLost(q)
       \/ Eval(q) \/ EvalFails(q) \/ EvalAnswerLost(q)
    /\ Verdict(q, req'[q])
    /\ UNCHANGED <<store, edits>>

(* route returns or raises; a stream keeps the status it began with. *)
Complete(q, raised) ==
    /\ http[q].pc = "running"
    /\ Respond(q, IF raised /\ q \notin Streams THEN 500 ELSE 200)
    /\ UNCHANGED <<limiterVars, store, edits>>

(* Operators write or delete the record of a key. *)
Edit(k) ==
    /\ edits < MaxEdits
    /\ edits' = edits + 1
    /\ store' = IF k \in store THEN store \ {k} ELSE store \cup {k}
    /\ UNCHANGED <<limiterVars, http>>

GatewayTick == Tick /\ UNCHANGED <<store, edits, http>>

Serve(q) ==
    \/ \E cost \in Costs : Lookup(q, cost) \/ LookupFails(q, cost)
    \/ Check(q)
    \/ \E raised \in BOOLEAN : Complete(q, raised)

GatewayNext ==
    \/ \E q \in Requests : Serve(q) \/ \E key \in Keys \cup {NoKey} : Receive(q, key)
    \/ \E k \in Keys : Edit(k)
    \/ GatewayTick

(* Redis answers every command or the client raises, workers answer or time  *)
(* out, and the event loop schedules every request.                         *)
GatewayFairness == \A q \in Requests : WF_gatewayVars(Serve(q))

GatewaySpec == GatewayInit /\ [][GatewayNext]_gatewayVars /\ GatewayFairness

-----------------------------------------------------------------------------
(* Every variable has its shape; an answer of 401 is one that never reached  *)
(* the quotas, any other is one whose check is over.                         *)
GatewayTypeOK ==
    /\ store \subseteq Keys
    /\ edits \in 0 .. MaxEdits
    /\ http \in [Requests -> [pc : {"new", "lookup", "limited", "running", "done"},
                              key : Keys \cup {NoKey}, status : {0, 200, 401, 429, 500}]]
    /\ \A q \in Requests :
          /\ http[q].pc = "done" => http[q].status # 0
          /\ (http[q].pc \in {"new", "lookup"} \/ http[q].status = 401) <=> req[q].pc = "new"
          /\ http[q].pc = "limited" <=> Pending(q)

(* The requests of bucket b that reached a worker. *)
WorkIn(b) ==
    {q \in Requests : /\ \/ http[q].pc = "running"
                         \/ http[q].status \in {200, 500} /\ req[q].pc = "done"
                      /\ Bucket(req[q].now) = b}

(* In no bucket do more requests of a tenant reach a worker than its rpm     *)
(* quota, whichever keys they carry and wherever these were resolved, and    *)
(* though Redis fails at any of the commands of a request.                   *)
RequestsWithinQuota ==
    \A b \in Buckets : Cardinality(WorkIn(b)) <= Limit["rpm"]

(* The tokens the requests of S ask for, each of them a member. *)
TokensOf(S) == UNION {{q} \X (1 .. req[q].cost) : q \in S}

(* Nor do several of them together ask the workers for more tokens than its   *)
(* tpm quota, whose check comes an await or two after the rpm check.         *)
TokensWithinQuota ==
    \A b \in Buckets : Cardinality(TokensOf(WorkIn(b))) <= Limit["tpm"]

(* A key that is in no fallback map and whose record is gone for good is     *)
(* refused from then on, and refused for free: nothing remembers it, also    *)
(* not while other requests are still served under it.                       *)
RevokedIsRefused ==
    \A q \in Requests, k \in Keys \ Fallback :
        []((http[q].pc = "new" /\ [](k \notin store))
               => [](http[q].key = k => req[q].pc = "new"))

(* The commands a dimension may still await: loading the script, which only   *)
(* the first dimension does, the script by its SHA, the script by its text.  *)
CommandsLeft == [load |-> 3, evalsha |-> 2, eval |-> 1]

(* What a request has at most before it: its header, its lookup, loading the *)
(* script, two scripts with one repetition each, and its worker.             *)
StepsLeft(q) ==
    CASE http[q].pc = "new" -> 8
      [] http[q].pc = "lookup" -> 7
      [] http[q].pc = "limited" -> (IF req[q].dim = "rpm" THEN 3 ELSE 1)
                                       + CommandsLeft[req[q].pc]
      [] http[q].pc = "running" -> 1
      [] http[q].pc = "done" -> 0

(* Whatever fails in whatever order, a request asks Redis no more than six    *)
(* times, and its answer is final: each step of its own brings it nearer to  *)
(* it, and no step of another request or of an operator touches it.          *)
EveryStepCounts ==
    [][\A q \in Requests :
          UNCHANGED <<http[q], req[q]>> \/ StepsLeft(q)' < StepsLeft(q)]_gatewayVars

(* Every request is answered, for a request comes once: a failing key        *)
(* lookup, limiter or worker ends in a status and not in a request that      *)
(* hangs.                                                                    *)
EveryRequestIsAnswered ==
    []<>(\A q \in Requests : http[q].pc \in {"new", "done"})
=============================================================================
