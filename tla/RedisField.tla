----------------------------- MODULE RedisField -----------------------------
(***************************************************************************)
(* RedisPheromoneMemoryField: several router replicas, each with its own   *)
(* list of nodes and several coroutines, over one Redis with a hash per    *)
(* node.  A coroutine runs alone until it awaits Redis; an action is one   *)
(* awaited command (a pipeline is one MULTI/EXEC, the deposit one Lua      *)
(* script) together with the code that runs until the next await.          *)
(*                                                                         *)
(* A trace is abstracted to the set of deposits folded into it: evaporation *)
(* scales a trace and keeps its deposits, a baseline has none.  L and S    *)
(* are always written by evaporation, so a deposit missing here is missing *)
(* from those columns under any setting of the decay flags.                *)
(***************************************************************************)
EXTENDS NodeIndex

CONSTANTS
    Replicas,     \* router processes
    Tasks,        \* their coroutines that use the field
    ReplicaOf,    \* the process of a coroutine
    Calls,        \* what each coroutine may ask of the field
    Nodes,
    InitIds,      \* the configured node ids, the same in every replica
    Deposits,     \* identities of deposits, each made once
    Warm,         \* replicas whose first command ran before the model starts
    Mortal        \* what may restart: replicas, and "redis"

ASSUME RedisAssumption ==
    /\ ReplicaOf \in [Tasks -> Replicas]
    /\ Warm \subseteq Replicas
    /\ Mortal \subseteq Replicas \cup {"redis"}
    /\ \A t \in Tasks : \A call \in Calls[t] :
          /\ call.op \in {"deposit", "evaporate", "add", "remove", "hydrate"}
          /\ call.op \in {"deposit", "add", "remove"} => call.node \in Nodes
          /\ call.op = "deposit" => call.dep \in Deposits
          /\ call.op = "hydrate" => IsFiniteSet(call.nodes)
    /\ InitIds \in Seq(Nodes)
    /\ \A i, j \in DOMAIN InitIds : InitIds[i] = InitIds[j] => i = j

VARIABLES
    hash,         \* Redis: the deposits in the trace of each existing key
    script,       \* Redis: the deposit script is "absent", "cached" or "lost"
    ids,          \* node_ids of each replica
    index,        \* _node_index of each replica
    initialized,  \* _initialized of each replica
    task,         \* what each coroutine is waiting for
    issued,       \* deposits some caller has started
    acked         \* deposits whose caller was told they are done

vars == <<hash, script, ids, index, initialized, task, issued, acked>>
local == <<ids, index>>

Idle == [pc |-> "idle", call |-> [op |-> "none"], keys |-> <<>>, raw |-> <<>>]

Waiting(pc, call, keys, raw) == [pc |-> pc, call |-> call, keys |-> keys, raw |-> raw]

Known(r) == DOMAIN index[r]

(* HSET of several keys at once. *)
HashesSet(values) ==
    [n \in DOMAIN hash \cup DOMAIN values |->
        IF n \in DOMAIN values THEN values[n] ELSE hash[n]]

(* What the writing commands do to Redis: HSET of baselines, the deposit      *)
(* script, HSET of what an evaporation has read and scaled, DELETE.          *)
SetBaselines(S) == hash' = HashesSet([n \in S |-> {}])

(* HGETALL of a missing key is empty and every field falls back to baseline. *)
HashOf(n) == IF n \in DOMAIN hash THEN hash[n] ELSE {}

StoreDeposit(c) == hash' = HashesSet([n \in {c.node} |-> HashOf(n) \cup {c.dep}])

WriteBack(keys, raw) ==
    LET paired == DOMAIN keys \cap DOMAIN raw IN
    hash' = HashesSet([n \in {keys[i] : i \in paired} |->
                          raw[CHOOSE i \in paired : keys[i] = n]])

DeleteKey(n) == hash' = [m \in DOMAIN hash \ {n} |-> hash[m]]

Finish(t) == task' = [task EXCEPT ![t] = Idle]

Await(t, pc, call, keys, raw) ==
    task' = [task EXCEPT ![t] = Waiting(pc, call, keys, raw)]

Init ==
    /\ hash = IF Warm = {} THEN << >> ELSE [n \in ToSet(InitIds) |-> {}]
    /\ script = IF Warm = {} THEN "absent" ELSE "cached"
    /\ ids = [r \in Replicas |-> InitIds]
    /\ index = [r \in Replicas |-> IndexOfIds(InitIds)]
    /\ initialized = [r \in Replicas |-> r \in Warm]
    /\ task = [t \in Tasks |-> Idle]
    /\ issued = {}
    /\ acked = {}

-----------------------------------------------------------------------------
(* The bodies of the methods, from the return of _ensure_initialized to     *)
(* the next await.                                                          *)

DepositBody(t, call) ==
    LET r == ReplicaOf[t] IN
    /\ call.op = "deposit"
    /\ IF call.node \in Known(r)
       THEN Await(t, "evalsha", call, <<>>, <<>>)
       ELSE Finish(t)                                  \* KeyError
    /\ UNCHANGED local

EvaporateBody(t, call) ==
    /\ call.op = "evaporate"
    /\ Await(t, "hgetall", call, ids[ReplicaOf[t]], <<>>)
    /\ UNCHANGED local

(* Mutant: a new node comes first in the list. *)
AddBodyFirst(t, call) ==
    LET r == ReplicaOf[t] IN
    /\ call.op = "add"
    /\ IF call.node \in Known(r)
       THEN Finish(t) /\ UNCHANGED local
       ELSE /\ ids' = [ids EXCEPT ![r] = <<call.node>> \o @]
            /\ index' = [index EXCEPT ![r] = IndexOfIds(ids'[r])]
            /\ Await(t, "hset", call, <<>>, <<>>)

AddBody(t, call) ==
    LET r == ReplicaOf[t] IN
    /\ call.op = "add"
    /\ IF call.node \in Known(r)
       THEN Finish(t) /\ UNCHANGED local
       ELSE /\ index' = [index EXCEPT ![r] =
                            [n \in Known(r) \cup {call.node} |->
                                IF n = call.node THEN Len(ids[r]) + 1 ELSE @[n]]]
            /\ ids' = [ids EXCEPT ![r] = Append(@, call.node)]
            /\ Await(t, "hset", call, <<>>, <<>>)

RemoveBody(t, call) ==
    /\ call.op = "remove"
    /\ Await(t, "delete", call, <<>>, <<>>)
    /\ UNCHANGED local

(* Mutant: every node of the snapshot is written. *)
HydrateBodyUnfiltered(t, call) ==
    /\ call.op = "hydrate"
    /\ Await(t, "hsetall", call, SetToSeq(call.nodes), <<>>)
    /\ UNCHANGED local

(* The snapshot was saved before any of the deposits: its traces hold none. *)
HydrateBody(t, call) ==
    LET known == call.nodes \cap Known(ReplicaOf[t]) IN
    /\ call.op = "hydrate"
    /\ IF known = {} THEN Finish(t) ELSE Await(t, "hsetall", call, SetToSeq(known), <<>>)
    /\ UNCHANGED local

Body(t, call) ==
    \/ DepositBody(t, call)
    \/ EvaporateBody(t, call)
    \/ AddBody(t, call)
    \/ RemoveBody(t, call)
    \/ HydrateBody(t, call)

-----------------------------------------------------------------------------
(* _ensure_initialized: a flag, and a lock around a second look at it.      *)
Locked(r) == \E t \in Tasks : ReplicaOf[t] = r /\ task[t].pc \in {"boot", "load"}

(* Mutant: whoever gets the lock writes the baselines. *)
InsideLockUnchecked(t, call) ==
    /\ Await(t, "boot", call, ids[ReplicaOf[t]], <<>>)
    /\ UNCHANGED local

InsideLock(t, call) ==
    IF initialized[ReplicaOf[t]]
    THEN Body(t, call)
    ELSE /\ Await(t, "boot", call, ids[ReplicaOf[t]], <<>>)
         /\ UNCHANGED local

EnsureInitialized(t, call) ==
    LET r == ReplicaOf[t] IN
    IF initialized[r] THEN Body(t, call)
    ELSE IF Locked(r) THEN Await(t, "lock", call, <<>>, <<>>) /\ UNCHANGED local
    ELSE InsideLock(t, call)

(* A coroutine calls a method.  remove_node looks at the index before it    *)
(* initialises; the others initialise first.  (apply_evaporation raises for  *)
(* a rate outside [0, 1) before anything else: such a call changes nothing.) *)
Start(t, call) ==
    /\ task[t].pc = "idle"
    /\ call.op = "deposit" => call.dep \notin issued
    /\ call.op = "remove" => call.node \in Known(ReplicaOf[t])
    /\ issued' = IF call.op = "deposit" THEN issued \cup {call.dep} ELSE issued
    /\ EnsureInitialized(t, call)
    /\ UNCHANGED <<hash, script, initialized, acked>>

(* Mutant: the waiters wait for the flag, which a failed first use never sets. *)
GetLockWhenInitialized(t) ==
    /\ task[t].pc = "lock"
    /\ initialized[ReplicaOf[t]]
    /\ InsideLock(t, task[t].call)
    /\ UNCHANGED <<hash, script, initialized, issued, acked>>

GetLock(t) ==
    /\ task[t].pc = "lock"
    /\ ~ Locked(ReplicaOf[t])
    /\ InsideLock(t, task[t].call)
    /\ UNCHANGED <<hash, script, initialized, issued, acked>>

(* Mutant: the flag is set before the script is loaded. *)
WriteDefaultsEarly(t) ==
    /\ task[t].pc = "boot"
    /\ SetBaselines(ToSet(task[t].keys))
    /\ initialized' = [initialized EXCEPT ![ReplicaOf[t]] = TRUE]
    /\ Await(t, "load", task[t].call, <<>>, <<>>)
    /\ UNCHANGED <<script, local, issued, acked>>

(* Every configured node gets the baseline, whatever Redis held before. *)
WriteDefaults(t) ==
    /\ task[t].pc = "boot"
    /\ SetBaselines(ToSet(task[t].keys))
    /\ Await(t, "load", task[t].call, <<>>, <<>>)
    /\ UNCHANGED <<script, local, initialized, issued, acked>>

LoadScript(t) ==
    /\ task[t].pc = "load"
    /\ script' = "cached"
    /\ initialized' = [initialized EXCEPT ![ReplicaOf[t]] = TRUE]
    /\ Body(t, task[t].call)
    /\ UNCHANGED <<hash, issued, acked>>

-----------------------------------------------------------------------------
(* The awaited commands.                                                    *)

(* Mutant: the reply of a deposit is computed from what its caller had read. *)
EvalDepositStale(t) ==
    LET c == task[t].call IN
    /\ task[t].pc = "evalsha" /\ script = "cached"
    /\ hash' = HashesSet([n \in {c.node} |-> {c.dep}])
    /\ acked' = acked \cup {c.dep}
    /\ Finish(t)
    /\ UNCHANGED <<script, local, initialized, issued>>

EvalDeposit(t) ==
    LET c == task[t].call IN
    /\ task[t].pc = "evalsha" /\ script = "cached"
    /\ StoreDeposit(c)
    /\ acked' = acked \cup {c.dep}
    /\ Finish(t)
    /\ UNCHANGED <<script, local, initialized, issued>>

(* EVALSHA of a script that Redis does not hold raises, and nothing loads it *)
(* again: the replica is initialised.                                       *)
NoScript(t) ==
    /\ task[t].pc = "evalsha" /\ script # "cached"
    /\ Finish(t)
    /\ UNCHANGED <<hash, script, local, initialized, issued, acked>>

(* The raw results come in the order of the ids the pipeline was built from, *)
(* and are paired with the ids of the moment they arrive.                    *)
EvaporateRead(t) ==
    LET raw == [i \in DOMAIN task[t].keys |-> HashOf(task[t].keys[i])] IN
    /\ task[t].pc = "hgetall"
    /\ Await(t, "hsetback", task[t].call, ids[ReplicaOf[t]], raw)
    /\ UNCHANGED <<hash, script, local, initialized, issued, acked>>

EvaporateWrite(t) ==
    /\ task[t].pc = "hsetback"
    /\ WriteBack(task[t].keys, task[t].raw)
    /\ Finish(t)
    /\ UNCHANGED <<script, local, initialized, issued, acked>>

AddWrite(t) ==
    /\ task[t].pc = "hset"
    /\ SetBaselines({task[t].call.node})
    /\ Finish(t)
    /\ UNCHANGED <<script, local, initialized, issued, acked>>

(* Mutant: the dictionary only forgets the node. *)
RemoveWriteStaleIndex(t) ==
    LET r == ReplicaOf[t]  n == task[t].call.node IN
    /\ task[t].pc = "delete"
    /\ DeleteKey(n)
    /\ IF n \in Known(r)
       THEN /\ ids' = [ids EXCEPT ![r] = RemoveAt(@, index[r][n])]
            /\ index' = [index EXCEPT ![r] = [m \in Known(r) \ {n} |-> @[m]]]
       ELSE UNCHANGED local
    /\ Finish(t)
    /\ UNCHANGED <<script, initialized, issued, acked>>

(* A second removal of the same node finds it gone: pop raises KeyError. *)
RemoveWrite(t) ==
    LET r == ReplicaOf[t]  n == task[t].call.node IN
    /\ task[t].pc = "delete"
    /\ DeleteKey(n)
    /\ IF n \in Known(r)
       THEN /\ ids' = [ids EXCEPT ![r] = RemoveAt(@, index[r][n])]
            /\ index' = [index EXCEPT ![r] = IndexOfIds(ids'[r])]
       ELSE UNCHANGED local
    /\ Finish(t)
    /\ UNCHANGED <<script, initialized, issued, acked>>

HydrateWrite(t) ==
    /\ task[t].pc = "hsetall"
    /\ SetBaselines(ToSet(task[t].keys))
    /\ Finish(t)
    /\ UNCHANGED <<script, local, initialized, issued, acked>>

(* An awaited command raises (connection lost) and the method with it; the  *)
(* lock, if held, is released.                                              *)
Fail(t) ==
    /\ task[t].pc \notin {"idle", "lock"}
    /\ Finish(t)
    /\ UNCHANGED <<hash, script, local, initialized, issued, acked>>

(* A command takes effect and its reply is lost: the method raises all the   *)
(* same, and what it would have done next is not done.                       *)
ReplyLost(t) ==
    LET pc == task[t].pc  c == task[t].call IN
    /\ \/ pc \in {"boot", "hsetall"} /\ SetBaselines(ToSet(task[t].keys)) /\ UNCHANGED script
       \/ pc = "load" /\ script' = "cached" /\ UNCHANGED hash
       \/ pc = "evalsha" /\ script = "cached" /\ StoreDeposit(c) /\ UNCHANGED script
       \/ pc = "hsetback" /\ WriteBack(task[t].keys, task[t].raw) /\ UNCHANGED script
       \/ pc = "hset" /\ SetBaselines({c.node}) /\ UNCHANGED script
       \/ pc = "delete" /\ DeleteKey(c.node) /\ UNCHANGED script
    /\ Finish(t)
    /\ UNCHANGED <<local, initialized, issued, acked>>

(* Redis restarts with its hashes or without them, and without its scripts. *)
RedisRestarts ==
    /\ "redis" \in Mortal
    /\ hash' \in {hash, << >>}
    /\ script' = IF script = "cached" THEN "lost" ELSE script
    /\ UNCHANGED <<local, initialized, task, issued, acked>>

(* A process dies with all its coroutines and starts again. *)
ReplicaRestarts(r) ==
    /\ ids' = [ids EXCEPT ![r] = InitIds]
    /\ index' = [index EXCEPT ![r] = IndexOfIds(InitIds)]
    /\ initialized' = [initialized EXCEPT ![r] = FALSE]
    /\ task' = [t \in Tasks |-> IF ReplicaOf[t] = r THEN Idle ELSE task[t]]
    /\ UNCHANGED <<hash, script, issued, acked>>

Step(t) ==
    \/ GetLock(t)
    \/ WriteDefaults(t)
    \/ LoadScript(t)
    \/ EvalDeposit(t) \/ NoScript(t)
    \/ EvaporateRead(t)
    \/ EvaporateWrite(t)
    \/ AddWrite(t)
    \/ RemoveWrite(t)
    \/ HydrateWrite(t)

Next ==
    \/ \E t \in Tasks : (\E call \in Calls[t] : Start(t, call)) \/ Step(t)
    \/ \E t \in Tasks : Fail(t) \/ ReplyLost(t)
    \/ RedisRestarts
    \/ \E r \in Replicas \cap Mortal : ReplicaRestarts(r)

(* A command is answered or fails in the end; asyncio.Lock wakes its        *)
(* waiters in turn.                                                         *)
Fairness ==
    \A t \in Tasks : SF_vars(Step(t))

Spec == Init /\ [][Next]_vars /\ Fairness

-----------------------------------------------------------------------------
(* Every variable has its shape; Redis holds no key of a node that no        *)
(* replica was ever told of, whatever a snapshot names.                      *)
TypeOK ==
    /\ DOMAIN hash \subseteq Nodes
    /\ \A n \in DOMAIN hash : hash[n] \subseteq Deposits
    /\ \A r \in Replicas : ids[r] \in Seq(Nodes)
    /\ initialized \in [Replicas -> BOOLEAN]
    /\ \A t \in Tasks : DOMAIN task[t] = {"pc", "call", "keys", "raw"}
    /\ acked \subseteq issued /\ issued \subseteq Deposits

(* However add_node and remove_node of one replica interleave at their       *)
(* awaits, its list and its dictionary describe the same nodes.              *)
LocalAligned ==
    \A r \in Replicas :
        /\ Known(r) = ToSet(ids[r])
        /\ \A i \in DOMAIN ids[r] : index[r][ids[r][i]] = i

(* A replica that has finished initialising never writes the baselines       *)
(* again, and never has two coroutines writing them.                         *)
InitExclusive ==
    \A t, u \in Tasks :
        task[t].pc \in {"boot", "load"} =>
            /\ ~ initialized[ReplicaOf[t]]
            /\ (u # t /\ ReplicaOf[u] = ReplicaOf[t]) => task[u].pc \notin {"boot", "load"}

(* A replica that takes itself for initialised has had its script cached: no *)
(* coroutine sends EVALSHA before, not one that found the lock taken, nor    *)
(* the first of a process that restarted.  (A restart of Redis loses the     *)
(* script for good: nothing but the first use by another process loads it.)  *)
ScriptBeforeUse ==
    \A t \in Tasks :
        (initialized[ReplicaOf[t]] \/ task[t].pc = "evalsha") => script # "absent"

NoRemoval == \A t \in Tasks : task[t].call.op # "remove"

(* The deposits some coroutine may make to node n. *)
MadeTo(n) ==
    {call.dep : call \in {c \in UNION {Calls[t] : t \in Tasks} : c.op = "deposit" /\ c.node = n}}

(* As long as no node is removed, no deposit gets into the trace of a node    *)
(* it was not made to: evaporation pairs what it read with a list that grew  *)
(* meanwhile, or that of a process that started again.  (With a removal it   *)
(* does not hold: the list shrinks under the replies.)                       *)
TracesStayHome ==
    []NoRemoval
        => [](\A n \in DOMAIN hash : hash[n] \subseteq MadeTo(n))

DepositCalls == {call \in UNION {Calls[t] : t \in Tasks} : call.op = "deposit"}

Stored(call) == call.dep \in HashOf(call.node)

(* In Redis, and no evaporation is between its read and its write. *)
Settled(call) == Stored(call) /\ \A t \in Tasks : task[t].pc # "hsetback"

(* Redis keeps the hash of n, and nobody writes a baseline over it. *)
Untouched(n) ==
    /\ n \in DOMAIN hash
    /\ \A t \in Tasks :
          /\ task[t].pc \in {"boot", "hsetall"} => n \notin ToSet(task[t].keys)
          /\ task[t].pc = "hset" => task[t].call.node # n

(* A deposit that is in Redis while no evaporation is between its read and    *)
(* its write is safe from then on: the deposits and evaporations of any      *)
(* replicas, interleaved, failing or repeated, keep it for good, as long as  *)
(* no node is removed and nobody writes its node's baseline.  An evaporation *)
(* costs no more than the deposits that land between its own two commands.   *)
SettledDepositsStay ==
    \A call \in DepositCalls :
        []NoRemoval => []((Settled(call) /\ []Untouched(call.node)) => []Stored(call))

(* Every call returns or raises: no coroutine waits forever for the          *)
(* initialisation lock, but is idle again and again.                         *)
CallsReturn == \A t \in Tasks : []<>(task[t].pc = "idle")

(* What the class promises of deposits (refuted): every acknowledged deposit *)
(* is part of its node's trace.                                              *)
AckedDepositsKept ==
    \A call \in DepositCalls : call.dep \in acked => Stored(call)
=============================================================================
