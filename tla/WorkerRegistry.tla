--------------------------- MODULE WorkerRegistry ---------------------------
(***************************************************************************)
(* WorkerRegistry: workers of one process announce themselves and refresh  *)
(* a key with a time to live; a background loop drops the workers whose    *)
(* key is gone.  An action is one awaited command and the code that runs   *)
(* until the next await.                                                   *)
(*                                                                         *)
(* The discovery listener subscribes with SUBSCRIBE and handles messages   *)
(* of type "pmessage" only, which PSUBSCRIBE alone delivers: it changes    *)
(* no state, and the only thing it can do is die with its connection.      *)
(***************************************************************************)
EXTENDS Integers, SequencesExt

CONSTANTS
    Workers,
    Clients,      \* coroutines that register a worker or send its heartbeats
    WorkerOf,     \* the worker each of them speaks for
    Configured,   \* workers the memory field has from the start
    TTL,          \* _heartbeat_ttl
    Loops         \* bound: prune loops that may exist at the same time

ASSUME RegistryAssumption ==
    /\ TTL \in Nat \ {0}
    /\ Configured \subseteq Workers
    /\ WorkerOf \in [Clients -> Workers]
    /\ Loops # {}

VARIABLES
    key,          \* seconds since the key of a worker was set; TTL: no key
    known,        \* _known_nodes, in the order of the dictionary
    field,        \* node_ids of the memory field
    client,       \* what the call of each client is waiting for
    running,      \* _running
    listener,     \* _discovery_task
    current,      \* _prune_task
    loop,         \* the prune loops and the rest of the pass they are in
    late          \* workers whose key has ever run out

vars == <<key, known, field, client, running, listener, current, loop, late>>
calls == <<key, known, field, client, late>>
tasks == <<running, listener, current, loop>>

Known == ToSet(known)

Absent(w) == key[w] = TTL

Init ==
    /\ key = [w \in Workers |-> TTL]
    /\ known = <<>>
    /\ field = Configured
    /\ client = [c \in Clients |-> "idle"]
    /\ running = FALSE
    /\ listener = "off"
    /\ current = CHOOSE l \in Loops : TRUE
    /\ loop = [l \in Loops |-> [pc |-> "off", todo |-> <<>>]]
    /\ late = {}

-----------------------------------------------------------------------------
(* register_worker and send_heartbeat, which any number of coroutines may    *)
(* call for the same worker.                                                *)
To(c, pc) == client' = [client EXCEPT ![c] = pc]

(* Mutant: the registry knows the worker before its key is set. *)
RegisterKnown(c) ==
    LET w == WorkerOf[c] IN
    /\ client[c] = "idle"
    /\ known' = IF w \in Known THEN known ELSE Append(known, w)
    /\ To(c, "setex")
    /\ UNCHANGED <<key, field, late, tasks>>

(* The announcement is published; nobody hears it.  A publish that fails     *)
(* leaves everything as it was.                                             *)
Register(c) ==
    /\ client[c] = "idle"
    /\ To(c, "setex")
    /\ UNCHANGED <<key, known, field, late, tasks>>

(* Mutant: a list instead of a dictionary. *)
SetKeyAppends(c) ==
    LET w == WorkerOf[c] IN
    /\ client[c] = "setex"
    /\ key' = [key EXCEPT ![w] = 0]
    /\ known' = Append(known, w)
    /\ To(c, IF w \in field THEN "idle" ELSE "add")
    /\ UNCHANGED <<field, late, tasks>>

SetKey(c) ==
    LET w == WorkerOf[c] IN
    /\ client[c] = "setex"
    /\ key' = [key EXCEPT ![w] = 0]
    /\ known' = IF w \in Known THEN known ELSE Append(known, w)
    /\ To(c, IF w \in field THEN "idle" ELSE "add")
    /\ UNCHANGED <<field, late, tasks>>

AddNode(c) ==
    LET w == WorkerOf[c] IN
    /\ client[c] = "add"
    /\ field' = field \cup {w}
    /\ To(c, "idle")
    /\ UNCHANGED <<key, known, late, tasks>>

(* add_node raises before or after it has entered the node. *)
AddNodeFails(c) ==
    LET w == WorkerOf[c] IN
    /\ client[c] = "add"
    /\ field' \in {field, field \cup {w}}
    /\ To(c, "idle")
    /\ UNCHANGED <<key, known, late, tasks>>

SendHeartbeat(c) ==
    LET w == WorkerOf[c] IN
    /\ client[c] = "idle"
    /\ w \in Known
    /\ To(c, "beat")
    /\ UNCHANGED <<key, known, field, late, tasks>>

(* The key is set even when the worker was dropped meanwhile (KeyError). *)
Beat(c) ==
    LET w == WorkerOf[c] IN
    /\ client[c] = "beat"
    /\ key' = [key EXCEPT ![w] = 0]
    /\ To(c, "idle")
    /\ UNCHANGED <<known, field, late, tasks>>

(* Redis raises, before or after SETEX took effect. *)
ClientFails(c) ==
    LET w == WorkerOf[c] IN
    /\ client[c] \in {"setex", "beat"}
    /\ key' \in {key, [key EXCEPT ![w] = 0]}
    /\ To(c, "idle")
    /\ UNCHANGED <<known, field, late, tasks>>

(* A second passes; Redis drops the keys whose time has come. *)
Tick ==
    /\ \E w \in Workers : ~ Absent(w)
    /\ key' = [w \in Workers |-> IF Absent(w) THEN TTL ELSE key[w] + 1]
    /\ late' = late \cup {w \in Workers : key[w] = TTL - 1}
    /\ UNCHANGED <<known, field, client, tasks>>

-----------------------------------------------------------------------------
(* start_background_tasks and stop_background_tasks.                        *)
StartTasks ==
    /\ ~ running
    /\ running' = TRUE
    /\ listener' = "on"
    /\ \E l \in Loops : loop[l].pc = "off"
    /\ current' = CHOOSE l \in Loops : loop[l].pc = "off"
    /\ loop' = [loop EXCEPT ![current'].pc = "sleep"]
    /\ UNCHANGED calls

ListenerFails ==
    /\ listener = "on"
    /\ listener' = "dead"
    /\ UNCHANGED <<running, current, loop, calls>>

(* Awaiting a dead listener raises before the prune loop is cancelled. *)
StopTasks ==
    /\ running
    /\ running' = FALSE
    /\ listener' = "off"
    /\ loop' = IF listener = "dead" THEN loop
               ELSE [loop EXCEPT ![current] = [pc |-> "off", todo |-> <<>>]]
    /\ UNCHANGED <<current, calls>>

-----------------------------------------------------------------------------
(* _prune_loop around prune_unhealthy_workers.                              *)

(* Mutant: the loop never looks at _running. *)
AfterPassForever(l) == loop' = [loop EXCEPT ![l] = [pc |-> "sleep", todo |-> <<>>]]

(* The pass is over, or an exception ended it. *)
AfterPass(l) ==
    loop' = [loop EXCEPT ![l] = [pc |-> IF running THEN "sleep" ELSE "off", todo |-> <<>>]]

Continue(l, rest) ==
    IF rest = <<>> THEN AfterPass(l)
    ELSE loop' = [loop EXCEPT ![l] = [pc |-> "exists", todo |-> rest]]

Wake(l) ==
    /\ loop[l].pc = "sleep"
    /\ Continue(l, known)
    /\ UNCHANGED <<running, listener, current, calls>>

(* Mutant: a healthy worker ends the pass. *)
CheckKeyStops(l, w) ==
    /\ loop[l].pc = "exists" /\ Head(loop[l].todo) = w
    /\ IF Absent(w) THEN loop' = [loop EXCEPT ![l].pc = "deposit"] ELSE AfterPass(l)
    /\ UNCHANGED <<running, listener, current, calls>>

CheckKey(l, w) ==
    /\ loop[l].pc = "exists" /\ Head(loop[l].todo) = w
    /\ IF Absent(w) THEN loop' = [loop EXCEPT ![l].pc = "deposit"]
                    ELSE Continue(l, Tail(loop[l].todo))
    /\ UNCHANGED <<running, listener, current, calls>>

(* The deposit of 999 s returns and the worker is deleted; a node the field *)
(* does not have, or a worker that is already gone, is a KeyError that ends *)
(* the pass.                                                                *)
Drop(l, w) ==
    /\ loop[l].pc = "deposit" /\ Head(loop[l].todo) = w
    /\ IF w \in field /\ w \in Known
       THEN known' = RemoveFirst(known, w) /\ Continue(l, Tail(loop[l].todo))
       ELSE UNCHANGED known /\ AfterPass(l)
    /\ UNCHANGED <<key, field, client, late, running, listener, current>>

PassFails(l) ==
    /\ loop[l].pc \in {"exists", "deposit"}
    /\ AfterPass(l)
    /\ UNCHANGED <<running, listener, current, calls>>

LoopStep(l) ==
    \/ Wake(l)
    \/ \E w \in Workers : CheckKey(l, w) \/ Drop(l, w)
    \/ PassFails(l)

Next ==
    \/ \E c \in Clients :
          \/ Register(c) \/ SetKey(c) \/ AddNode(c) \/ AddNodeFails(c)
          \/ SendHeartbeat(c) \/ Beat(c) \/ ClientFails(c)
    \/ Tick
    \/ StartTasks \/ ListenerFails \/ StopTasks
    \/ \E l \in Loops : LoopStep(l)

(* The event loop runs every prune loop; Redis answers or raises, and does   *)
(* not raise every time the same worker is looked at or dropped.            *)
Fairness ==
    /\ \A l \in Loops : WF_vars(LoopStep(l))
    /\ \A w \in Workers :
          /\ SF_vars(\E l \in Loops : CheckKey(l, w))
          /\ SF_vars(\E l \in Loops : Drop(l, w))

Spec == Init /\ [][Next]_vars /\ Fairness

-----------------------------------------------------------------------------
(* Every variable has its shape; the dictionary holds a worker once, and a   *)
(* loop that is waiting for Redis has a worker to wait for.                  *)
TypeOK ==
    /\ key \in [Workers -> 0 .. TTL]
    /\ known \in Seq(Workers) /\ IsInjective(known)
    /\ field \subseteq Workers
    /\ client \in [Clients -> {"idle", "setex", "add", "beat"}]
    /\ running \in BOOLEAN
    /\ listener \in {"off", "on", "dead"}
    /\ current \in Loops
    /\ loop \in [Loops -> [pc : {"off", "sleep", "exists", "deposit"}, todo : Seq(Workers)]]
    /\ \A l \in Loops : loop[l].pc \in {"exists", "deposit"} <=> loop[l].todo # <<>>
    /\ late \subseteq Workers

(* Only a worker that let its key run out at some time is ever dropped,      *)
(* whatever passes, registrations and heartbeats are under way.              *)
OnTimeIsKept == [][Known \ Known' \subseteq late]_vars

(* A known worker the field has no row for: its deposit raises and ends      *)
(* every pass that reaches it.                                               *)
Stuck == \E w \in Known : w \notin field

(* A worker whose key is gone is dropped in the end: it does not stay known   *)
(* for ever, unless it comes back, the tasks are stopped or a worker without *)
(* a row ends every pass.                                                   *)
DeadAreDropped ==
    \A w \in Workers : []<>(w \notin Known \/ ~ Absent(w) \/ ~ running \/ Stuck)

(* Once the tasks are stopped every loop ends, even when the stop itself     *)
(* failed on a dead listener, unless they are started again.                 *)
StopEndsLoops == []<>(running \/ \A l \in Loops : loop[l].pc = "off")

(* What the module promises of pruning (refuted): the worker that is dropped *)
(* has no key.                                                               *)
LiveKeyIsKept == [][\A w \in Known \ Known' : Absent(w)]_vars
=============================================================================
