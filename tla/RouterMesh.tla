----------------------------- MODULE RouterMesh -----------------------------
(***************************************************************************)
(* The path of a request through the mesh: StigmergicRouterAgent samples a *)
(* worker, the worker executes or streams, its telemetry is deposited in   *)
(* the memory field and steers later samples, and the decay engine         *)
(* evaporates the field meanwhile.  The field is used through its contract *)
(* (PheromoneField); the nodes are the configured workers.                 *)
(*                                                                         *)
(* A deposit is an await of its own: with a Redis field other requests run *)
(* between the end of an execution and its deposit.  The softmax gives     *)
(* every node a positive weight: the model lets any node be sampled, of    *)
(* which the code draws a subset when a weight underflows.                 *)
(***************************************************************************)
EXTENDS Score, Sequences, FiniteSets

CONSTANTS
    Nodes,                      \* the workers
    Plain, Streams,             \* requests without and with stream = true
    PromptOf,                   \* the prompt of each request
    TagsOf,                     \* capability_tags of each worker
    Latencies,                  \* durations an execution may be measured at
    MaxChunks,                  \* bound: chunks of a stream before the closing one
    Rate                        \* decay_rate

ASSUME RouterAssumption ==
    /\ Nodes # {}
    /\ IsFiniteSet(Plain) /\ IsFiniteSet(Streams) /\ Plain \cap Streams = {}
    /\ PromptOf \in [Plain \cup Streams -> Prompt]
    /\ TagsOf \in [Nodes -> SUBSET CapabilityTags]
    /\ Latencies \subseteq Nat \ {0}
    /\ MaxChunks \in Nat
    /\ Rate \in LegalRate

VARIABLES
    trace,      \* the memory field
    load,       \* _active_load of each worker
    req         \* the progress of each request

vars == <<trace, load, req>>

Requests == Plain \cup Streams

Field == INSTANCE PheromoneField WITH
            InitNodes <- Nodes, InitTraces <- {DefaultTrace},
            Observations <- Observation, Rates <- {Rate}, Snapshots <- {}

New == [pc |-> "new", node |-> CHOOSE n \in Nodes : TRUE,
        todo |-> <<>>, chunks |-> 0, last |-> FALSE, failed |-> FALSE]

Init ==
    /\ Field!Init
    /\ load = [n \in Nodes |-> 0]
    /\ req = [q \in Requests |-> New]

Outcome(success, latency, active, match) ==
    [success |-> success, latency |-> latency, load |-> active, capability |-> match]

(* Mutant: the prompt's context is not passed on. *)
MatchOfNone(q) == Neutral

(* route measures the worker it sampled against the prompt; the endpoints    *)
(* hand a stream the neutral match.                                         *)
MatchOf(q) ==
    IF q \in Plain THEN CapabilityMatch(TagsOf[req[q].node], ContextOf(PromptOf[q])) ELSE Neutral

Goto(q, pc) == req' = [req EXCEPT ![q].pc = pc]

Enter(n) == load' = [load EXCEPT ![n] = @ + 1]

Leave(n) == load' = [load EXCEPT ![n] = @ - 1]

-----------------------------------------------------------------------------
(* sample_worker, and the worker enters the request under its lock. *)
Route(q, n) ==
    /\ req[q].pc = "new"
    /\ req' = [req EXCEPT ![q].node = n,
                          ![q].pc = IF q \in Plain THEN "running" ELSE "streaming"]
    /\ Enter(n)
    /\ UNCHANGED trace

(* execute_inference returns, with the load that is left. *)
Finish(q, success, latency) ==
    LET n == req[q].node IN
    /\ req[q].pc = "running"
    /\ req' = [req EXCEPT ![q].pc = "deposit", ![q].failed = ~ success,
                          ![q].todo = <<Outcome(success, latency, load[n] - 1, MatchOf(q))>>]
    /\ Leave(n)
    /\ UNCHANGED trace

(* The worker raises, as the mock does for fewer than ten tokens.  route     *)
(* makes up an outcome; a stream reports the error and deposits nothing.    *)
Raise(q) ==
    /\ \/ req[q].pc = "running"
       \/ req[q].pc = "streaming" /\ req[q].chunks = 0
    /\ req' = [req EXCEPT ![q].failed = TRUE,
                          ![q].pc = IF q \in Plain THEN "deposit" ELSE "done",
                          ![q].todo = IF q \in Plain THEN <<Outcome(FALSE, 0, 0, MatchOf(q))>> ELSE <<>>]
    /\ Leave(req[q].node)
    /\ UNCHANGED trace

(* What a chunk of q reports of itself. *)
Observed(q, success, latency) == Outcome(success, latency, load[req[q].node] - 1, MatchOf(q))

(* The time to the first token: deposited for the first chunk of a stream. *)
FirstToken(q, success, latency) ==
    IF req[q].chunks = 0 THEN <<Observed(q, success, latency)>> ELSE <<>>

(* Mutant: a token that takes long counts as a failure. *)
VelocityJudged(q, latency, carries) ==
    IF carries THEN <<Observed(q, latency < 2, latency)>> ELSE <<>>

(* The velocity of a chunk that carries tokens, booked as a success. *)
Velocity(q, latency, carries) == IF carries THEN <<Observed(q, TRUE, latency)>> ELSE <<>>

(* A chunk that does not close its stream, with tokens or, from Ollama,      *)
(* without any.                                                             *)
Chunk(q, success, latency, carries) ==
    /\ req[q].pc = "streaming" /\ req[q].chunks < MaxChunks
    /\ req' = [req EXCEPT
          ![q].pc = "sending", ![q].chunks = @ + 1, ![q].failed = @ \/ ~ success,
          ![q].todo = FirstToken(q, success, latency) \o Velocity(q, latency, carries)]
    /\ UNCHANGED <<trace, load>>

(* The closing chunk carries no token.  That of a worker whose server failed *)
(* is deposited if no chunk came before it, and so is Ollama's regular one;  *)
(* vLLM's regular one (first = FALSE) never calls itself the first.         *)
LastChunk(q, success, latency, first) ==
    /\ req[q].pc = "streaming"
    /\ ~ success => first
    /\ req' = [req EXCEPT
          ![q].pc = "sending", ![q].last = TRUE, ![q].failed = @ \/ ~ success,
          ![q].todo = IF first THEN FirstToken(q, success, latency) ELSE <<>>]
    /\ UNCHANGED <<trace, load>>

(* What comes after the deposits of a request are made. *)
AfterDeposits(q) ==
    IF q \in Plain THEN "done" ELSE IF req[q].last THEN "closing" ELSE "streaming"

(* The client has taken the chunk. *)
Sent(q) ==
    /\ req[q].pc = "sending"
    /\ Goto(q, IF req[q].todo = <<>> THEN AfterDeposits(q) ELSE "deposit")
    /\ UNCHANGED <<trace, load>>

Deposit(q) ==
    LET rest == Tail(req[q].todo) IN
    /\ req[q].pc = "deposit"
    /\ Field!Deposit(req[q].node, Head(req[q].todo))
    /\ req' = [req EXCEPT ![q].todo = rest,
                          ![q].pc = IF rest = <<>> THEN AfterDeposits(q) ELSE @]
    /\ UNCHANGED load

(* The field raises: the request is answered with an error, and the worker's *)
(* stream is left to be collected.                                          *)
DepositFails(q) ==
    /\ req[q].pc = "deposit"
    /\ Goto(q, IF q \in Plain THEN "done" ELSE "orphan")
    /\ UNCHANGED <<trace, load>>

(* Mutant: the worker's stream ends without its finally. *)
CloseForgets(q) ==
    /\ req[q].pc \in {"streaming", "closing"}
    /\ Goto(q, "done")
    /\ UNCHANGED <<trace, load>>

(* The worker's stream ends, after a closing chunk or, when Ollama's server  *)
(* sends none, without.                                                     *)
Close(q) ==
    /\ req[q].pc \in {"streaming", "closing"}
    /\ Goto(q, "done")
    /\ Leave(req[q].node)
    /\ UNCHANGED trace

(* Mutant: the slot is given back at once, and again by the collection. *)
DisconnectLeaves(q) ==
    /\ q \in Streams
    /\ req[q].pc \in {"streaming", "sending", "deposit"}
    /\ Goto(q, "orphan")
    /\ Leave(req[q].node)
    /\ UNCHANGED trace

(* The client goes away; the worker's stream is abandoned where it stands. *)
Disconnect(q) ==
    /\ q \in Streams
    /\ req[q].pc \in {"streaming", "sending", "deposit"}
    /\ Goto(q, "orphan")
    /\ UNCHANGED <<trace, load>>

(* Mutant: an abandoned stream is never finalised. *)
CollectForgets(q) ==
    /\ req[q].pc = "orphan"
    /\ Goto(q, "done")
    /\ UNCHANGED <<trace, load>>

(* The event loop closes an abandoned stream, which runs its finally. *)
Collect(q) ==
    /\ req[q].pc = "orphan"
    /\ Goto(q, "done")
    /\ Leave(req[q].node)
    /\ UNCHANGED trace

Decay ==
    /\ Field!Evaporate(Rate)
    /\ UNCHANGED <<load, req>>

Step(q) ==
    \/ \E success \in BOOLEAN, latency \in Latencies :
          \/ Finish(q, success, latency)
          \/ \E carries \in BOOLEAN : Chunk(q, success, latency, carries)
          \/ \E first \in BOOLEAN : LastChunk(q, success, latency, first)
    \/ Raise(q)
    \/ Sent(q)
    \/ Deposit(q) \/ DepositFails(q)
    \/ Close(q) \/ Collect(q)

Next ==
    \/ \E q \in Requests : (\E n \in Nodes : Route(q, n)) \/ Step(q) \/ Disconnect(q)
    \/ Decay

(* Workers answer or time out, clients take their chunks or disconnect, the  *)
(* event loop closes abandoned streams, and the decay engine runs.          *)
Fairness ==
    /\ \A q \in Requests : WF_vars(Step(q))
    /\ WF_vars(Decay)

Spec == Init /\ [][Next]_vars /\ Fairness

-----------------------------------------------------------------------------
(* Every variable has its shape: no load is negative and V and C stay in     *)
(* [0, 1], whatever is reported.                                             *)
TypeOK ==
    /\ trace \in [Nodes -> Trace]
    /\ load \in [Nodes -> Nat]
    /\ req \in [Requests -> [pc : {"new", "running", "streaming", "sending", "deposit",
                                   "closing", "orphan", "done"},
                             node : Nodes, todo : Seq(Observation), chunks : Nat,
                             last : BOOLEAN, failed : BOOLEAN]]
    /\ \A q \in Requests : req[q].pc = "deposit" => req[q].todo # <<>>

(* The requests a worker is executing or streaming, or has yet to close. *)
At(n) ==
    {q \in Requests : /\ req[q].node = n
                      /\ \/ req[q].pc \in {"running", "streaming", "sending", "closing", "orphan"}
                         \/ req[q].pc = "deposit" /\ q \in Streams}

(* A worker's load is the number of requests it holds: an exception, a       *)
(* failed deposit or a client that leaves in the middle of a stream neither  *)
(* leaks a slot nor frees one twice.                                         *)
LoadConserved == \A n \in Nodes : load[n] = Cardinality(At(n))

(* With decay_success off, a node whose V is below 1 had a request that      *)
(* failed: no interleaving of requests blames a node for another's failure.  *)
NoFalseBlame ==
    \A n \in Nodes : (~ DecaySuccess /\ trace[n]["V"] < Unit) =>
        \E q \in Requests : req[q].node = n /\ req[q].failed

(* The tags of a worker cover everything the prompt of q asks for. *)
FitsFully(q, n) ==
    LET asked == {tag \in CapabilityTags : ContextOf(PromptOf[q])[tag] > 0} IN
    asked # {} /\ asked \subseteq TagsOf[n]

(* With decay_capability off, a node whose C is below 1 has served a stream,  *)
(* whose match is not measured, or a prompt that its tags do not cover: a    *)
(* node that fits what it is asked, failing or not, keeps its full C.        *)
CapabilityEarned ==
    \A n \in Nodes : (~ DecayCapability /\ trace[n]["C"] < Unit) =>
        \E q \in Requests :
            /\ req[q].node = n /\ req[q].pc # "new"
            /\ q \in Plain => ~ FitsFully(q, n)

(* The deposit of q reports a failure of its node. *)
FailureOf(q) ==
    /\ req[q].pc = "deposit" /\ ~ Head(req[q].todo).success
    /\ trace' # trace /\ req'[q] # req[q]

(* A failure that is no faster than the node's average, under no lighter     *)
(* load and of no better match, never makes the node more attractive to a    *)
(* tenant of any tier, whatever its trace went through before.              *)
SlowFailureRepels ==
    [][\A q \in Requests, tier \in Tiers :
          LET t == trace[req[q].node]  o == Head(req[q].todo) IN
          (FailureOf(q) /\ o.latency >= t["L"] /\ o.load >= t["S"] /\ o.capability <= t["C"])
              => NoMoreAttractive(trace'[req[q].node], t, GovernedWeights(tier))]_vars

(* When requests stop coming, every worker gets its load back and the field  *)
(* forgets every saturation reported, also one that was deposited late, after *)
(* the load it speaks of was gone.  Rounding down lets S reach 0, which      *)
(* stands for any value below the resolution of the model: the code's floats *)
(* come as close to 0 as one likes.                                         *)
MeshQuiesces == <>[](\A n \in Nodes : load[n] = 0 /\ trace[n]["S"] = 0)

(* What failover through pheromones needs (refuted): a failure never makes   *)
(* its node more attractive.                                                 *)
FailureRepels ==
    [][\A q \in Requests :
          FailureOf(q) => NoMoreAttractive(trace'[req[q].node], trace[req[q].node],
                                           GovernedWeights("pro"))]_vars
=============================================================================
