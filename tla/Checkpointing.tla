---------------------------- MODULE Checkpointing ----------------------------
(***************************************************************************)
(* One router process over its lives: lifespan of the server, with         *)
(* CheckpointManager saving the field to a local file and to a Redis key,  *)
(* periodically and once more at shutdown, and restoring it at boot.       *)
(*                                                                         *)
(* The field is the set of deposits folded into it.  It starts every life  *)
(* at the baseline: the in-memory backend lives in the process, and the    *)
(* Redis backend writes the baselines at its first use.  A file write runs *)
(* in a thread of its own: it truncates the file, then fills it, and goes  *)
(* on when the coroutine that awaits it is cancelled.                      *)
(***************************************************************************)
EXTENDS FiniteSets

CONSTANTS
    Deposits,
    Faults,       \* what may fail: a subset of {"crash","disk","redis","decay","snapshot"}
    None, Torn    \* no snapshot, and a file that is not one

Savers == {"periodic", "final"}

(* MatrixSnapshot: the field it was served of. *)
Snapshot == [deps : SUBSET Deposits]

ASSUME CheckpointingAssumption ==
    /\ None \notin Snapshot /\ Torn \notin Snapshot
    /\ None # Torn

VARIABLES
    phase,        \* "down", "loading", "up", "final", "stopping"
    field,        \* the deposits in the field
    decay,        \* the decay task: "on", or "dead" of an exception
    saver,        \* the coroutines that save: what they do, with which snapshot
    thread,       \* the file write each of them has started
    disk,         \* snapshot_latest.json
    redis,        \* stigmergic:matrix:checkpoint:latest
    served,       \* the deposits of all lives, each made once
    restored,     \* what the last boot hydrated
    exit          \* of the last shutdown: whether it got to its final
                  \* snapshot, whether a periodic save overlapped it, and the
                  \* stores that acknowledged it

vars == <<phase, field, decay, saver, thread, disk, redis, served, restored, exit>>
stores == <<disk, redis>>
process == <<phase, decay, restored>>

NoSave == [pc |-> "off", snap |-> None]

NoWrite == [pc |-> "none", snap |-> None]

NoExit == [saved |-> FALSE, overlapped |-> FALSE, stores |-> {}]

Init ==
    /\ phase = "down"
    /\ field = {}
    /\ decay = "on"
    /\ saver = [t \in Savers |-> NoSave]
    /\ thread = [t \in Savers |-> NoWrite]
    /\ disk = None
    /\ redis = None
    /\ served = {}
    /\ restored = None
    /\ exit = NoExit

-----------------------------------------------------------------------------
(* Boot.                                                                    *)

(* Mutant: what a torn file holds, anything, is taken for a snapshot. *)
LoadDiskUnchecked == IF disk = Torn THEN [deps |-> Deposits] ELSE disk

LoadDisk == IF disk = Torn THEN None ELSE disk

(* load_latest_checkpoint: Redis when it answers and has one, else the file. *)
Load(reachable) == IF reachable /\ redis # None THEN redis ELSE LoadDisk

Boot ==
    /\ phase = "down"
    /\ phase' = "loading"
    /\ field' = {}
    /\ decay' = "on"
    /\ exit' = NoExit
    /\ UNCHANGED <<saver, thread, stores, served, restored>>

(* The snapshot, if there is one, overwrites the field; hydration itself may *)
(* raise with a Redis backend.  The periodic task starts either way.        *)
Warmup ==
    /\ phase = "loading"
    /\ \E reachable \in IF "redis" \in Faults THEN BOOLEAN ELSE {TRUE} :
          /\ restored' \in {Load(reachable)} \cup (IF "redis" \in Faults THEN {None} ELSE {})
          /\ field' = IF restored' = None THEN {} ELSE restored'.deps
    /\ phase' = "up"
    /\ saver' = [saver EXCEPT !["periodic"].pc = "snapshot"]
    /\ UNCHANGED <<decay, thread, stores, served, exit>>

(* Mutant: requests are still served while the final snapshot is saved. *)
ServeLate(d) ==
    /\ phase \in {"up", "final"}
    /\ d \notin served
    /\ served' = served \cup {d}
    /\ field' = field \cup {d}
    /\ UNCHANGED <<process, saver, thread, stores, exit>>

Serve(d) ==
    /\ phase = "up"
    /\ d \notin served
    /\ served' = served \cup {d}
    /\ field' = field \cup {d}
    /\ UNCHANGED <<process, saver, thread, stores, exit>>

(* apply_evaporation raises and nothing restarts the decay engine. *)
DecayFails ==
    /\ "decay" \in Faults
    /\ phase = "up" /\ decay = "on"
    /\ decay' = "dead"
    /\ UNCHANGED <<phase, field, saver, thread, stores, served, restored, exit>>

-----------------------------------------------------------------------------
(* A save: create_snapshot, _save_to_disk, _save_to_redis.                  *)

(* A periodic save that runs while the final one does.                      *)
Overlaps(s) == phase = "final" /\ s["periodic"].pc \notin {"off", "sleep"}

(* Mutant: the periodic task is left alone. *)
SavedUncancelled(t) ==
    IF t = "periodic"
    THEN /\ saver' = [saver EXCEPT ![t] = [pc |-> "sleep", snap |-> None]]
         /\ UNCHANGED phase
    ELSE /\ saver' = [saver EXCEPT ![t] = NoSave]
         /\ phase' = "stopping"

(* After its save the periodic task sleeps; shutdown cancels it and ends.   *)
Saved(t) ==
    IF t = "periodic"
    THEN /\ saver' = [saver EXCEPT ![t] = [pc |-> "sleep", snap |-> None]]
         /\ UNCHANGED phase
    ELSE /\ saver' = [u \in Savers |-> NoSave]
         /\ phase' = "stopping"

TakeSnapshot(t) ==
    LET s == [deps |-> field] IN
    /\ saver[t].pc = "snapshot"
    /\ saver' = [saver EXCEPT ![t] = [pc |-> "disk", snap |-> s]]
    /\ thread' = [thread EXCEPT ![t] = [pc |-> "start", snap |-> s]]
    /\ UNCHANGED <<process, field, stores, served, exit>>

(* Mutant: an exception ends the periodic task. *)
SnapshotFailsForGood(t) ==
    /\ "snapshot" \in Faults
    /\ saver[t].pc = "snapshot"
    /\ IF t = "periodic"
       THEN saver' = [saver EXCEPT ![t] = NoSave] /\ UNCHANGED phase
       ELSE Saved(t)
    /\ UNCHANGED <<field, decay, thread, stores, served, restored, exit>>

SnapshotFails(t) ==
    /\ "snapshot" \in Faults
    /\ saver[t].pc = "snapshot"
    /\ Saved(t)
    /\ UNCHANGED <<field, decay, thread, stores, served, restored, exit>>

OpenFile(t) ==
    /\ thread[t].pc = "start"
    /\ thread' = [thread EXCEPT ![t].pc = "open"]
    /\ disk' = Torn
    /\ UNCHANGED <<process, field, saver, redis, served, exit>>

ThreadEnds(t) == thread' = [thread EXCEPT ![t] = NoWrite]

(* Another thread that wrote since this one truncated the file may leave a  *)
(* longer tail behind the new text.                                         *)
WriteFile(t) ==
    /\ thread[t].pc = "open"
    /\ disk' \in {thread[t].snap} \cup (IF disk = Torn THEN {} ELSE {Torn})
    /\ ThreadEnds(t)
    /\ IF saver[t].pc = "disk"
       THEN saver' = [saver EXCEPT ![t].pc = "redis"]
       ELSE UNCHANGED saver
    /\ exit' = [exit EXCEPT !.stores = IF t = "final" THEN @ \cup {"disk"} ELSE @]
    /\ UNCHANGED <<process, field, redis, served>>

(* OSError before the file is opened or while it is written. *)
WriteFails(t) ==
    /\ "disk" \in Faults
    /\ thread[t].pc # "none"
    /\ ThreadEnds(t)
    /\ IF saver[t].pc = "disk"
       THEN saver' = [saver EXCEPT ![t].pc = "redis"]
       ELSE UNCHANGED saver
    /\ UNCHANGED <<process, field, stores, served, exit>>

SaveToRedis(t) ==
    /\ saver[t].pc = "redis"
    /\ redis' = saver[t].snap
    /\ exit' = [exit EXCEPT !.stores = IF t = "final" THEN @ \cup {"redis"} ELSE @]
    /\ Saved(t)
    /\ UNCHANGED <<field, decay, thread, disk, served, restored>>

(* SET raises, or its answer or that of XADD is lost. *)
SaveToRedisFails(t) ==
    /\ "redis" \in Faults
    /\ saver[t].pc = "redis"
    /\ redis' \in {redis, saver[t].snap}
    /\ Saved(t)
    /\ UNCHANGED <<field, decay, thread, disk, served, restored, exit>>

SleepEnds ==
    /\ saver["periodic"].pc = "sleep"
    /\ saver' = [saver EXCEPT !["periodic"].pc = "snapshot"]
    /\ exit' = [exit EXCEPT !.overlapped = @ \/ Overlaps(saver')]
    /\ UNCHANGED <<process, field, thread, stores, served>>

-----------------------------------------------------------------------------
(* Shutdown.                                                                *)

(* Awaiting a dead decay task raises: the final snapshot and everything      *)
(* after it are skipped, and closing the event loop cancels what is left.   *)
Shutdown ==
    /\ phase = "up"
    /\ IF decay = "dead"
       THEN /\ phase' = "stopping"
            /\ saver' = [t \in Savers |-> NoSave]
            /\ UNCHANGED exit
       ELSE /\ phase' = "final"
            /\ saver' = [saver EXCEPT !["final"].pc = "snapshot"]
            /\ exit' = [exit EXCEPT !.saved = TRUE,
                           !.overlapped = saver["periodic"].pc \notin {"off", "sleep"}]
    /\ UNCHANGED <<field, decay, thread, stores, served, restored>>

(* The interpreter waits for the threads that still write. *)
Exit ==
    /\ phase = "stopping"
    /\ \A t \in Savers : thread[t].pc = "none"
    /\ phase' = "down"
    /\ UNCHANGED <<field, decay, saver, thread, stores, served, restored, exit>>

Crash ==
    /\ "crash" \in Faults
    /\ phase # "down"
    /\ phase' = "down"
    /\ saver' = [t \in Savers |-> NoSave]
    /\ thread' = [t \in Savers |-> NoWrite]
    /\ exit' = NoExit
    /\ UNCHANGED <<field, decay, stores, served, restored>>

Save(t) ==
    \/ TakeSnapshot(t) \/ SnapshotFails(t)
    \/ OpenFile(t) \/ WriteFile(t) \/ WriteFails(t)
    \/ SaveToRedis(t) \/ SaveToRedisFails(t)

Next ==
    \/ Boot \/ Warmup
    \/ \E d \in Deposits : Serve(d)
    \/ DecayFails
    \/ \E t \in Savers : Save(t)
    \/ SleepEnds
    \/ Shutdown \/ Exit \/ Crash

(* The event loop and the thread pool run what is ready.  A periodic        *)
(* snapshot does not fail every time it is tried, nor does Redis refuse     *)
(* every one of them.                                                       *)
Fairness ==
    /\ WF_vars(Warmup) /\ WF_vars(SleepEnds) /\ WF_vars(Exit)
    /\ \A t \in Savers : WF_vars(Save(t))
    /\ SF_vars(TakeSnapshot("periodic")) /\ SF_vars(SaveToRedis("periodic"))

Spec == Init /\ [][Next]_vars /\ Fairness

-----------------------------------------------------------------------------
(* Every variable has its shape; what a boot restores is a snapshot, never   *)
(* what a crash or two threads left in the file.                             *)
TypeOK ==
    /\ phase \in {"down", "loading", "up", "final", "stopping"}
    /\ field \subseteq served /\ served \subseteq Deposits
    /\ decay \in {"on", "dead"}
    /\ \A t \in Savers :
          /\ saver[t].pc \in {"off", "snapshot", "disk", "redis", "sleep"}
          /\ saver[t].pc \in {"disk", "redis"} <=> saver[t].snap # None
          /\ thread[t].pc \in {"none", "start", "open"}
          /\ thread[t].snap \in Snapshot \cup {None}
    /\ disk \in Snapshot \cup {None, Torn}
    /\ redis \in Snapshot \cup {None}
    /\ restored \in Snapshot \cup {None}
    /\ exit.stores \subseteq {"disk", "redis"}

(* After a shutdown that got to its final snapshot, with no periodic save    *)
(* under way meanwhile, each store that acknowledged it holds everything    *)
(* the process had served or restored.                                      *)
ExitSaved ==
    (phase = "down" /\ exit.saved /\ ~ exit.overlapped) =>
        /\ "disk" \in exit.stores => disk = [deps |-> field]
        /\ "redis" \in exit.stores => redis = [deps |-> field]

Stored(d) == \E s \in {disk, redis} \ {None, Torn} : d \in s.deps

(* Whatever snapshots, file writes and Redis calls fail, what a running      *)
(* process has served is stored in the end, unless it stops first.          *)
ServedIsStored ==
    \A d \in Deposits : (phase = "up" /\ d \in field) ~> (phase # "up" \/ Stored(d))

(* A shutdown comes to its end. *)
ShutdownEnds == phase \in {"final", "stopping"} ~> phase = "down"

(* What the server promises of a shutdown (refuted where nothing crashes and *)
(* no store fails): it leaves a checkpoint of everything behind.            *)
ExitIsCheckpointed == phase = "down" => \A d \in field : Stored(d)
=============================================================================
