# A verification project for the stigmergic mesh router

The router sends every inference request to a worker that it samples from a
*pheromone field*: four numbers per worker (velocity `V`, latency `L`,
saturation `S`, capability `C`) which every finished request deposits into and
a background task evaporates. This directory holds TLA+ models of the parts of
the repository that keep state, TLC configurations that check them on small
instances, and TLAPS proofs of theorems about all of them for every value of
the constants.

Paths below are relative to `src/`.

## 1. Inventory

| Component | State | Operations | Called by / calls |
|---|---|---|---|
| In-memory field, `core/memory_field.py` | `node_ids`, `_node_index`, the matrix `_state`; one `asyncio.Lock` | `add_node`, `remove_node`, `deposit_trace`, `apply_evaporation`, `hydrate_state`; reads `get_state_vector`, `export_state_dict` | router agent, streaming, decay engine, registry, checkpoints |
| Redis field, same file | per replica: `node_ids`, `_node_index`, `_initialized`, `_init_lock`; shared: one hash per node with its `ts`, the cached deposit script | the same operations, each one or more awaited Redis commands; lazy initialisation at the first use | the same callers, in every replica |
| Decay engine, `core/decay_engine.py` | none but its task | one evaporation per period, for ever; an exception ends it | field |
| Router agent, `core/router_agent.py` | weights, workers by node id | `compute_scores`, `sample_worker`, `route` | field, workers; called by the HTTP endpoints |
| Worker nodes, `core/worker_node.py` | `_active_load` under a lock | `execute_inference`, `execute_streaming` (mock, vLLM, OpenAI-compatible) | external servers |
| SSE streaming, `api/streaming.py` | the position in a stream | one event per chunk, deposits per chunk | router agent, field |
| Rate limiter, `api/rate_limiter.py` | in Redis: one hash of window buckets per tenant and dimension | `check_rate_limits` (two Lua scripts, EVALSHA then EVAL) | HTTP endpoints |
| Worker registry, `core/worker_registry.py` | `_known_nodes`, two tasks; in Redis: a key with TTL per worker | `register_worker`, `send_heartbeat`, `prune_unhealthy_workers`, start and stop of the tasks, discovery listener | field |
| Checkpoint manager, `core/checkpointing.py` | a local file, a Redis key | `create_snapshot`, `save_checkpoint`, `load_latest_checkpoint`, periodic loop | field; called by the lifespan and the CLI |
| Server lifecycle, `api/server.py` (`lifespan`) | the tasks and the managers | boot, warm-up, shutdown | all of the above |
| HTTP endpoints, `api/server.py` | none of their own | validation, prompt analysis, rate check, `route`, formatting | authentication, governance, rate limiter, router agent |
| Authentication, `api/auth.py` | the fallback map; in Redis: a record per key | `get_current_tenant`, `validate_api_key` | HTTP endpoints |
| Governance, `api/governance.py` | none | the weights of a tier | HTTP endpoints, for the router agent |
| Metrics, `api/metrics.py` | counters | increments | everything |
| Checkpoint CLI, simulation, dashboard, benchmarks, deployment | - | drivers of the components above | - |

What is hard here, and what makes each part correct:

- **Fields.** A node is found by its row number, and a removal moves every later
  row: each operation must still reach exactly the traces of the nodes it names.
  The Redis field spreads an operation over several awaited commands, and other
  coroutines and replicas run at each of them: local bookkeeping must survive
  interleaved additions and removals, initialisation must happen once, no call
  may hang on the lock, and a deposit must not be lost. Commands fail or lose their replies, Redis
  and replicas restart: the script must be loaded before it is called. Several decay engines and the
  deposit script scale the same trace, by the clocks of several hosts: how far it fades must be
  accounted for.
- **Router, workers, streaming.** Exceptions, timeouts, failed deposits, clients
  that leave and streams closed late must neither leak nor double-free a load
  slot; an outcome and a capability match must be booked to their own node; failing
  must not make a node more attractive; and when traffic ends, the mesh must come to rest.
- **Rate limiter.** Requests of all replicas interleave at the script; answers are
  lost and calls repeated; hashes expire: what is admitted must stay within the
  quota, per bucket and across the sliding window.
- **Gateway.** A request awaits Redis in its key lookup and twice in its rate check, and
  each may fail: none may slip past a quota or hang, and a revoked key must be refused.
- **Registry.** A key is checked before an await and the worker dropped after it;
  exceptions end passes, and failed stops leave loops behind: only dead workers
  may be dropped, dead ones must be, and loops must end.
- **Checkpoints and lifecycle.** Writes run in threads that outlive their
  coroutines; stores fail; the process crashes between truncating and writing a
  file: a boot must never restore garbage, a clean exit must store everything,
  and a shutdown must end.

`PROJECT.json` lists the hazards line by line with the properties that cover
them, and for the others the reason none does yet.

## 2. Modules

```
Traces ── PheromoneField ── InMemoryField ── InMemoryFieldProofs
  │              └────────────┐   (NodeIndex, FieldLemmas)
  └── Score ───────────── RouterMesh ── RouterMeshProofs      (uses the field's contract)
NodeIndex ── RedisField ── RedisFieldProofs (FieldLemmas)     TraceDecay ── TraceDecayProofs
RateLimiter ── Gateway ── GatewayProofs                       (proofs of both)
Checkpointing ── CheckpointingProofs          WorkerRegistry ── WorkerRegistryProofs (FieldLemmas)
```

Every `MC*` module extends the module of its name and gives values to the
constants that a `.cfg` cannot write. Definitions marked *Mutant* are the same
operation with a plausible bug; the runs are expected to refute them, and
nothing else uses them.

**`Traces`** - the arithmetic of one trace: deposit (`Deposited`), evaporation
(`Evaporated`), hydration (`Overlaid`). Floats become fixed point: `Unit` stands
for 1.0 of `V` and `C`, rounding is downwards, the moving average has the default
alpha of 1/2. `decay_success` and `decay_capability` are constants.

**`PheromoneField`** - the abstract specification: a field is a function from the
tracked nodes to their traces, and each operation of
`BasePheromoneMemoryField` changes in one step the traces it names.

**`NodeIndex`** - the list of ids and the dictionary both fields keep, and how the one
is rebuilt from the other.

**`InMemoryField`** - the list, the dictionary and the matrix as they are in the
code. Every method holds the lock and awaits nothing inside it, so a method is one
action. `Exported` (what `export_state_dict` returns) is the refinement mapping
to `PheromoneField`.

**`RedisField`** - several replicas over one Redis. An action is one awaited
command together with the code up to the next await: `Start` is a call up to
its first command; `GetLock`, `WriteDefaults` and `LoadScript` are
`_ensure_initialized`; `EvalDeposit`, `EvaporateRead`/`EvaporateWrite`, `AddWrite`,
`RemoveWrite`, `HydrateWrite` are the commands; `NoScript` is an EVALSHA of a script Redis
does not hold, `Fail` a command that raises, `ReplyLost` one that took effect and raises all the
same (a DELETE after which the local list keeps the node, for example). `RedisRestarts` loses the scripts and
perhaps the hashes, `ReplicaRestarts` a process with its coroutines.
A trace is abstracted to the set of deposits it contains, which is what the
properties are about; evaporation keeps the set, a baseline has none.

**`TraceDecay`** - how far one observation fades in Redis: a clock, the `ts` of the hash, the
engines of all replicas (`Wake` takes the time, `Read` the values, `Write` scales and stamps
them) and deposits (`Send` takes the time, `Eval` decays by what has passed since `ts`). Each of
them takes the time from the clock of its own host, which is `ahead` of the true one (`Now`). The
factor is kept as its exponent. `runs`, `total` and `setBack` are ghosts.

**`Score`** - pure operators: `analyze_prompt`, `compute_capability_match`, the tier's weights and
the score of a node, as numerator and denominator so that scores are compared exactly.

**`RouterMesh`** - the life of a request: `Route`, then `Finish` or `Raise` and a
`Deposit` for a plain request; `Chunk`, `Sent`, `Deposit` in turn and then `LastChunk` and `Close`
for a stream (or `Close` alone, when a server ends its stream without a closing chunk); a chunk
deposits the time to the first token if it is the first (`FirstToken`) and a velocity if it carries
tokens (`Velocity`), so one of Ollama's without text deposits one outcome or none, and the regular
closing chunk of vLLM none; `Disconnect` and `Collect` when the client
leaves; `DepositFails` when the field raises; `Decay` from the engine. A deposit is a step
of its own because with a Redis field other requests run before it. `MatchOf` is the
capability match a deposit carries: that of the prompt and the worker's tags for `route`, the
neutral one for a stream. Two abstractions: the softmax gives every node
positive weight, so any node may be sampled; and the three worker classes share one
set of outcomes and chunks (success or not, a duration, tokens or none, an exception). The field
is an instance of `PheromoneField`, which is what `InMemoryFieldProofs` shows
the in-memory field to implement.

**`RateLimiter`** - one tenant. The script is atomic (`Script`); around it a call is
read-the-clock (`Arrive`), the script loaded at the first use of a replica (`Load`, or `LoadFails`,
which is not retried), run with an answer (`EvalSha`, `Eval`), run without one
(`EvalShaAnswerLost`, `EvalAnswerLost`), or not run (`EvalShaFails`, `EvalFails`).
`Tick` moves the clock and lets Redis drop expired hashes. `admitted` is a ghost:
the cost of the checks that were answered with "allowed".

**`Gateway`** - extends `RateLimiter` with the way of a request to it and from it: `Receive` (the
header), `Lookup` and `LookupFails` (the record in Redis, else the fallback map), `Check` (a step
of the limiter together with what the endpoint makes of its outcome, `Verdict`), `Complete`
(`route` returned or raised; a stream has its status before its first chunk), and `Edit`
(an operator writes or deletes the record of a key).

**`WorkerRegistry`** - the calls for workers as steps between awaits (`Clients` are the coroutines
that make them, any number of them for one worker: `WorkerOf`), keys that age with
`Tick`, prune loops as processes with the rest of their pass, start and stop of the
tasks. `late` is a ghost: the workers whose key has ever run out. The
listener only listens or dies: it discards every message it can receive (finding).

**`Checkpointing`** - one router process over its lives. `Boot`, `Warmup`, `Serve`,
`DecayFails`, `Shutdown`, `Exit`, `Crash` are the lifespan; a save (periodic or final)
is `TakeSnapshot`, then a thread with `OpenFile` (truncation) and `WriteFile`,
then `SaveToRedis`, each with its failure. The field is again a set of deposits.
`exit` is a ghost that describes the last shutdown.

## 3. Runs

| Run | Instance | What it shows |
|---|---|---|
| `in_memory_field` | 3 nodes, 2 at start, 3 outcomes, a legal and an illegal rate, 2 snapshots | `TypeOK`, `IndexAligned`, and `ImplementsField`: the matrix implements one independent trace per node |
| `redis_field` | 2 replicas, 3 coroutines, 2 nodes and a retired one, 2 deposits, lost replies, restarts of Redis and of both replicas | `LocalAligned` across interleaved additions and removals; `InitExclusive`; `ScriptBeforeUse`; `CallsReturn`; `TracesStayHome`: evaporation and a growing list do not mix up nodes; `SettledDepositsStay`: a deposit that no evaporation had read past stays, whatever deposits and evaporations follow |
| `trace_decay` | 2 engines, a deposit at a time, 2 intervals of 2 ticks, clocks that differ by up to a tick | `DecayAccounted`: an observation fades by no more than time, the difference of clocks, set-back stamps and evaporations explain; `EvaporationRate` |
| `router_mesh` | a plain and a streamed request of up to 2 chunks besides the closing one, 2 nodes with different tags, `decay_success` and `decay_capability` off | `LoadConserved`, `NoFalseBlame`, `CapabilityEarned`, `SlowFailureRepels` under the weights of every tier, `MeshQuiesces` |
| `gateway` | a plain and a streamed request, 2 keys (one also in the fallback map), quotas of one request and one token, window 1, clock to 2, one edit | the limiter's `AdmittedWithinLimit`; `RequestsWithinQuota`: what reaches a worker stays within the quota; `SlidingAdmission`: the sliding sum; `RevokedIsRefused`; `EveryStepCounts`: no failure or repetition sends a request back; `EveryRequestIsAnswered`; `GatewayTypeOK` relates every answer to the state of its check |
| `worker_registry` | 2 workers with a client each, TTL of one tick, 2 prune loops | `OnTimeIsKept`, `DeadAreDropped`, `StopEndsLoops` |
| `checkpointing` | 2 deposits, all faults, any number of lives | `ExitSaved`, `ServedIsStored`, `ShutdownEnds`; `TypeOK` includes that no boot restores a torn file |
| `redis_lost_deposit` | decay engine and one deposit per replica | refutes `AckedDepositsKept`: evaporation overwrites a deposit |
| `rate_limiter_reject` | 3 requests of 2 tokens, quotas of 2 requests and 3 tokens, window 2, clock to 4 | refutes `RejectedIsFree`: a rejected request is charged in the other dimension |
| `registry_prune_race` | as `worker_registry`, with a second client for one of the workers | refutes `LiveKeyIsKept`: a worker with a live key is dropped |
| `shutdown_without_checkpoint` | only the decay task fails | refutes `ExitIsCheckpointed`: shutdown skips the final snapshot |
| `failure_attracts` | the weights of `config.yaml`, fine fixed point, latencies of twice and three times the baseline | refutes `FailureRepels`: a worker that raises becomes more attractive, from 12.5 to 20 in the trace, though no worker answers fast |

The five last runs check one property each, a statement of the repository's
documentation or tests, and TLC finds the behaviour that breaks it; the findings in
`PROJECT.json` quote the statement and the line. Other findings came out of what a passing
property had to say to be true:

- `ScriptBeforeUse` cannot say that Redis still holds the script, because after a restart of Redis
  nothing loads it again; `TracesStayHome` needs that no node is removed,
  because a removal during an evaporation shifts the traces of the nodes behind it.
- `SettledDepositsStay` has to except the nodes whose baseline is written: a replica that is used for
  the first time erases what the others have deposited. `AckedDepositsKept` fails that way too.
- `DeadAreDropped` has to except the passes that a known worker without a row ends (`Stuck`): as long
  as it is dead, nobody behind it is dropped either.
- `DecayAccounted` has an interval for every evaporation of every replica on top of the time
  that has passed: a trace is decayed twice, once by its deposits and once by each engine.
- `EveryRequestIsAnswered` holds with an answer of 500 when Redis is down, also for the keys the
  fallback map resolves.

The remaining ones need no run: the discovery listener never processes a message, an old Redis
snapshot wins over a newer file, the rate limiter's script never deletes a bucket, the
enterprise tier flattens its choice instead of sharpening it, and a metric calls a method
that does not exist.

### Bounds

- *In-memory field.* Three nodes: a removal from the middle, from the end, and a
  node that comes back. `Unit = 2` gives `V` and `C` three values and lets a
  match leave `[0, 1]` before it is clamped. `L` stays below 3 because the mean does.
- *Redis field.* Each deposit happens once and is its own identity. The first replica has two
  coroutines, so that an addition during a removal or an evaporation, a deposit on a node that is being
  removed, and a wait for the lock occur; the second replica makes Redis shared, and evaporates too. Two
  removals of one node at a time are covered by the proofs only. Restarts are not counted: either
  process and Redis may restart at any time and any number of times. `Warm` says which replicas have
  initialised before the model starts.
- *Trace decay.* Two engines overlap at each of their steps, and an engine that was about
  to evaporate when the observation came does so twice within the observed time. One
  depositing coroutine repeats, so that its scripts meet every stamp. `MaxSkew` of one tick: a clock
  half an interval ahead. Hosts keep their difference: one that sets its clock while it runs is not
  modelled.
- *Mesh.* Two nodes and two requests: a deposit for one node overtaken by an outcome
  of the other, and two requests on one worker. Two chunks: the first deposits
  twice, later ones once, those without tokens once less. Latencies 1 and 2 are at and above the
  baseline. The plain request
  thinks, so that one node fits it fully and the other not at all.
- *Gateway.* Quotas of one make the second request of a bucket too many; a request of
  two tokens is rejected in the second dimension after it was charged in the first. One edit revokes
  either key at any moment. A bucket that several requests fill with tokens needs three of them, which
  TLC does not finish: that the tokens of the requests that reach a worker stay within the quota
  (`TokensWithinQuota`) is a theorem only.
- *Rate limiter.* In `gateway` a window is one tick and the clock covers three of them, so that a
  bucket goes from current to previous to forgotten and a hash expires; the refuted run has windows of
  two ticks, in which the previous bucket counts in part. The proofs cover every
  length. One replica loads the script once; two requests may do so at the same time. `MaxDelay` bounds
  the time a check spends between reading the clock and its answer: `MaxDelay <= Window`
  is the one assumption that the code does not enforce (it sets no timeout on Redis): a check
  that reaches Redis more than a minute after it read the clock is outside what is checked
  and proved, because its bucket may have been dropped.
- *Registry.* With a TTL of one tick, a key can run out between any two steps of a
  pass. One of the workers is not in the configured field, so that its `add_node` can
  fail. Two loops: one left by a failed stop and one that was started after it. A
  start that would need a third is disabled. The refuted run has a worker whose registrations and
  heartbeats overlap; the theorems cover any number of clients for a worker.
- *Checkpointing.* Two deposits tell "everything", "something" and "nothing" apart.
  The number of lives is not bounded, because each life starts from what is stored.

Deadlock is checked everywhere except in the rate limiter, the gateway and the trace decay,
which stop when every request is answered and the clock is at its bound.

### Fairness

Fairness is used by the liveness properties only, and follows what asyncio and
Redis do:

- *Redis field:* a started call goes on (an awaited command is
  answered or raises), and `asyncio.Lock` is first come first served: a coroutine that finds
  the lock free again and again gets it in the end (hence `SF` of `Step`). `Fail` and `ReplyLost`
  have no fairness: nothing relies on failures.
- *Gateway:* a request that was received goes on (`WF` of `Serve(q)`): a command is answered or
  raises, `route` returns or raises. No client is obliged to send, no operator to edit, and time may stop.
- *Mesh:* workers answer or time out (they have timeouts), clients take chunks or leave,
  abandoned streams are finalised by the event loop's generator hooks, and the decay
  engine runs (`WF` of `Step(q)` and `Decay`). No request is obliged to arrive and no
  client to disconnect. `MeshQuiesces` is about an engine that is alive: one that died of an
  exception is the subject of `Checkpointing`.
- *Registry:* a loop goes on (`WF`); Redis does not fail every time the same worker is
  looked at or dropped (`SF` of `CheckKey`, `Drop`) - without it a pass that always
  raises never gets anywhere, and nothing could be promised. No worker is obliged to
  beat, register or die, and time may stop.
- *Checkpointing:* the process boots and stops when it likes; once started, warm-up,
  saves and exit go on (`WF`), and a periodic snapshot and its Redis write do not fail for
  ever (`SF`).

## 4. Proofs

The theorems hold for every value of the constants that satisfies the modules'
named assumptions; the prover checks every leaf. Each argument uses an inductive invariant, and
has one lemma per action or group of actions that preserve it. TLC checked the invariants first.
`FieldLemmas` holds what the two fields share: appending to the list and removing from it, with the
index extended or rebuilt, keep list and dictionary inverses of each other.

**`InMemoryFieldProofs`.** `IInv == TypeOK /\ IndexAligned`. The type alone is not
inductive: a deposit writes the row the dictionary names, and a removal deletes it,
so both need the dictionary to be the inverse of the list, which also implies that no id occurs twice
(`AlignedIsInjective`). From it follow

- `TypeCorrect`: `Spec => []TypeOK`, with `V` and `C` in `[0, 1]`;
- `AlwaysAligned`: `Spec => []IndexAligned`;
- `InMemoryImplementsField`: `Spec => ImplementsField`, by one lemma per operation that
  maps a step of the matrix to the step of `PheromoneField` of the same name
  (`RemoveNodeImplements` is the one with the moving rows). `ExportedByIndex` turns the
  export's enumeration of the list into a lookup in the dictionary.

Assumptions: the configured ids are distinct and what callers pass has its type.

**`GatewayProofs`** is about the limiter and about the gateway around it. For the limiter, the
quota is a statement about what was admitted, the script only sees the hash; the two agree only as
long as the hash lives. `IInv` says how long:

- `HashWithinLimit`: no bucket in the hash exceeds the quota;
- `HashOutlivesBuckets`: the hash is not dropped before two windows after the start of
  its latest bucket;
- `AdmittedIsRecorded`: what was admitted in a bucket is in the hash, or the bucket
  started two windows ago;
- `ChecksAreRecent`: a waiting check is at most `MaxDelay` old, so that it never names a
  bucket that was dropped.

From it follow `TypeCorrect`, `QuotaHolds` (`Spec => []AdmittedWithinLimit`) and
`SlidingHolds` (`Spec => SlidingAdmission`), for any number of requests, costs, limits
and windows, under `MaxDelay <= Window`.

For the gateway, `GatewayImplementsLimiter` (`GatewaySpec => Spec`): every step of the gateway is a
step of `RateLimiter` or leaves its variables alone, so `QuotaHolds` and `SlidingHolds` carry over. For
the requests themselves the limiter's invariant is strengthened by `RpmComesFirst` and
`PassedIsCounted` (no more requests of a bucket have passed the rpm check than were admitted), by
`TpmComesLast` and `TokensAreCounted` (the same of tokens), and the gateway's by `AnsweredLate` and
`WorkHasPassed` (who works has passed both). The tokens of a set of requests are the set of pairs of
a request and one of its tokens, so that their number is a cardinality, which grows by the cost of a
request that passes: a sum over the set would need induction. From it follow `GatewayTypeCorrect`,
`RequestsHold`, `TokensHold` and `RevocationHolds`.

`StepsCount` (`GatewaySpec => EveryStepCounts`) is what of `EveryRequestIsAnswered` does not need
fairness: `StepsLeft`, at most eight, falls with every step of a request and is left alone by
every other step, so that a request that keeps going is answered. `IsFiniteSet(Requests)` is assumed.

**`TraceDecayProofs`.** `DecayAccounted` is not inductive: an engine holds a value it has read and a
time it has taken. `Ledger` and `Account` bound what each of them will have made of the trace when it
writes; a stamp is ahead of the true time by `MaxSkew` at most. `EvaporationIsPaced`
needs where in its sleep each engine is.

**`RouterMeshProofs`.** `IInv` is the type, the three safety properties, and for each request which
program counters its kind allows (`InKind`) and that the outcomes it has still to deposit are
honest (`Honest`): a failure among them is its own, and a match below one is that of a prompt the
node does not fit. `LoadIsConserved` is an argument about cardinalities of `At(n)`. Two more results
speak of steps:

- `SlowFailuresRepel` (`Spec => SlowFailureRepels`): scores are fractions, compared by
  cross-multiplying, and the weights are of any size. `SlowFailureIsWorse` shows that the moving
  average moves no column the wrong way, `WorseRepels` that such a trace has a lower score: `ProductsRise`
  and `SumsRise` are the two facts about products this takes.
- `MeshUsesField` (`Spec => Field!Spec`): whatever the mesh does to the traces, the contract allows.
  With `InMemoryImplementsField`, both sides of the contract are proved: the mesh relies on no more
  than it, and the in-memory field gives no less.

**`RedisFieldProofs`.** `IInv` has, for each replica, list and dictionary as inverses, and for each
coroutine that it holds a call from `Calls` (`Calling`), so that what it appends is a node. From it follow
`ListsStayAligned`, `FirstUseIsExclusive` and `ScriptIsLoaded`. The other three are about what the
hashes contain. The first two of them rest on `HashStaysWithin`: if the hashes stay within a family of sets, and
so does what coroutines carry between a read and a write (`Carried`), then they stay within it after any step.

- `TypeCorrect` takes all deposits as the family (`TInv`).
- `TracesHold` (`Spec => TracesStayHome`) takes the deposits made to each node. `HInv` says why an
  evaporation puts back what belongs there: the ids it has taken are a prefix of its replica's list while
  it waits for the reply, so that every reply is paired with its own node. That is the part that only holds while
  no node is removed (`NoRemoval`); lists then only grow (`ListsGrow`).
- `SettledHold` (`Spec => SettledDepositsStay`) follows one deposit: once it is in Redis with no
  evaporation between its read and its write, it stays in Redis (`StoredStays`), and every evaporation
  that reads afterwards carries it back (`CarriedBackStays`). It needs `HInv`, because a reply that is
  paired with the wrong node would carry it elsewhere, and temporal reasoning, because the removals and
  baselines it excepts are excepted from then on.

Assumed: what is deposited is a deposit, and a snapshot names finitely many nodes.

**`WorkerRegistryProofs`.** A pass acts on what it saw two awaits ago. `OnTimeHolds` (`Spec =>
OnTimeIsKept`) needs two invariants that remember what was true then: `CondemnedAreLate` (whom a loop
is about to drop had lost its key when the loop looked) and, for that, `MetKeysRunOut` (a worker the
dictionary or a pass has taken notice of once had a key, because registration sets the key before it
enters the worker, so that one without a key let it run out). `RemoveFirstElements` is what deleting from the
dictionary does, and needs that no worker is in it twice, which is part of `TypeCorrect`. `Loops # {}`
is assumed: there is room for the loop that `start_background_tasks` creates.

**`CheckpointingProofs`.** `ExitSaved` looks at a process that is down. `CInv` says why it holds then: who may
save in which phase and which thread outlives its saver (`Working`), that the final save is of the
field as it stays (`FinalIsWhole`), that its thread is the only one unless a periodic save overlaps
it (`Quiet`), and that a store keeps what it acknowledged (`Kept`). The type needs that whatever is
stored was served (`OnlyServed`). From it follow `TypeCorrect` and `ExitIsSaved`.

**Only model-checked:** the liveness properties (`CallsReturn`, `MeshQuiesces`, `DeadAreDropped`,
`StopEndsLoops`, `ServedIsStored`, `ShutdownEnds`, `EveryRequestIsAnswered`), because fairness is out of
the prover's reach. Every invariant and every action property of a passing run is a theorem.

## 5. Not modelled

- *Request validation and response formatting, the read-only endpoints, metrics*: no state that the
  router reads back.
- *Values in Redis and decay together*: `RedisField` speaks of the presence of deposits, `TraceDecay`
  of how far one of them fades; neither has the moving average with time. `get_state_vector` and
  `export_state_dict` read the hashes at face value, without the decay since `ts`, and write nothing.
- *A command that Redis executes after its caller has given up*: a reply may be lost, but a command
  takes effect before the call raises or not at all.
- *Snapshots that no field exported*: hydration takes any floats; the models hydrate values that a field
  had (`IsPartialTrace`), and a file edited by hand is outside them. In the same way the rate of an
  evaporation is legal in `RedisField`: an illegal one raises before anything else.
- *Floats*: fixed point rounds down, so that `L` and `S` reach 0 where the code's floats come as close
  as one likes; in `MeshQuiesces`, a saturation of 0 stands for one below the resolution.
- *Softmax probabilities*: TLA+ has no probabilities; the mesh allows every sample, and
  speaks of attraction by comparing scores.
- *Timestamped copies and the stream of checkpoints, the entropy metric*: written,
  never read at boot.
- *Nodes that come and go in the mesh*: the server never creates a `WorkerRegistry` and never calls
  `add_node` or `remove_node`; the field and registry models take these calls as the tests of
  these classes use them, and the mesh has the configured workers.
- *CLI, simulation, dashboard, benchmarks, deployment*: drivers of what is modelled.

## 6. Plan

Done: both fields, their contract and decay, the mesh with scores, tiers and capabilities, rate
limiter and gateway, registry, checkpoints; proofs of all of them. What is left, in this order:

1. The safety half of the other liveness properties, as `EveryStepCounts` is for the gateway: a
   measure that falls with every step of a call, a pass or a shutdown.
2. How long the 999 s of a dropped worker keep traffic away from it.
3. `Checkpointing`: the CLI's import as a saver that races a running replica; the snapshot restored
   is the latest that was stored (refuted by a Redis outage).
4. Composition of `WorkerRegistry` and `RouterMesh`, should the server come to create a registry: a
   node the field knows and the router has no worker for.
5. `RouterMesh` over the Redis field: `RedisField` does not implement `PheromoneField` (deposits are
   lost), so the contract would have to be weakened to what `SettledDepositsStay` promises.
