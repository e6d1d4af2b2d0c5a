------------------------- MODULE CheckpointingProofs -------------------------
(***************************************************************************)
(* TypeOK and ExitSaved are invariants of Checkpointing, for any deposits  *)
(* and any set of faults.                                                  *)
(*                                                                         *)
(* ExitSaved looks at a process that is down.  That the stores hold the    *)
(* whole field then is so because, from the moment the final snapshot is   *)
(* taken, nobody else writes: requests are over, the periodic saver sleeps *)
(* and has no file write left behind, and the final save's own thread is   *)
(* done before the save goes on to Redis.  CInv states each of these.      *)
(***************************************************************************)
EXTENDS Checkpointing, TLAPS

Phases == {"down", "loading", "up", "final", "stopping"}
SaverPcs == {"off", "snapshot", "disk", "redis", "sleep"}

(* The shape of the records, and which snapshot a saver holds. *)
ShapeOK ==
    /\ phase \in Phases
    /\ saver \in [Savers -> [pc : SaverPcs, snap : Snapshot \cup {None}]]
    /\ thread \in [Savers -> [pc : {"none", "start", "open"}, snap : Snapshot \cup {None}]]
    /\ exit \in [saved : BOOLEAN, overlapped : BOOLEAN, stores : SUBSET {"disk", "redis"}]
    /\ disk \in Snapshot \cup {None, Torn}
    /\ {redis, restored} \subseteq Snapshot \cup {None}
    /\ decay \in {"on", "dead"}
    /\ \A t \in Savers : saver[t].pc \in {"disk", "redis"} <=> saver[t].snap # None

(* Whatever was saved, or is about to be, was served. *)
OfServed(s) == s \in Snapshot => s.deps \subseteq served

OnlyServed ==
    /\ field \subseteq served /\ served \subseteq Deposits
    /\ OfServed(disk) /\ OfServed(redis)
    /\ \A t \in Savers : OfServed(saver[t].snap) /\ OfServed(thread[t].snap)

(* Who is at work in which phase; a write outlives its saver only when the   *)
(* process stops.                                                           *)
Working ==
    /\ phase \notin {"up", "final"} => \A t \in Savers : saver[t].pc = "off"
    /\ phase # "final" => saver["final"].pc = "off"
    /\ saver["final"].pc # "sleep"
    /\ phase \in {"down", "loading"} => \A t \in Savers : thread[t].pc = "none"
    /\ phase # "stopping" => \A t \in Savers : thread[t].pc # "none" <=> saver[t].pc = "disk"
    /\ thread["final"].pc # "none" => phase = "final" /\ saver["final"].pc = "disk"

(* The final save is of the field as it stays. *)
FinalIsWhole ==
    /\ saver["final"].pc \in {"disk", "redis"} => saver["final"].snap = [deps |-> field]
    /\ thread["final"].pc # "none" => thread["final"].snap = [deps |-> field]

(* A process that runs has no exit behind it. *)
ExitIsFresh == phase \in {"loading", "up"} => ~ exit.saved /\ exit.stores = {}

Alone == exit.saved /\ ~ exit.overlapped

(* When nothing overlaps the final save, its thread is the only one. *)
Quiet ==
    Alone =>
        /\ saver["periodic"].pc \in {"off", "sleep"}
        /\ thread["periodic"].pc = "none"
        /\ thread["final"].pc = "open" => disk = Torn

(* What a store has acknowledged, it keeps. *)
Kept ==
    /\ "disk" \in exit.stores =>
          /\ thread["final"].pc = "none"
          /\ saver["final"].pc \in {"off", "redis"}
          /\ Alone => disk = [deps |-> field]
    /\ "redis" \in exit.stores =>
          /\ phase \in {"stopping", "down"}
          /\ Alone => redis = [deps |-> field]

CInv ==
    /\ ShapeOK /\ OnlyServed /\ Working /\ FinalIsWhole
    /\ ExitIsFresh /\ Quiet /\ Kept

-----------------------------------------------------------------------------
LEMMA CInvInit == Init => CInv
  BY CheckpointingAssumption
  DEF Init, CInv, ShapeOK, OnlyServed, OfServed, Working, FinalIsWhole, ExitIsFresh, Alone,
      Quiet, Kept, NoSave, NoWrite, NoExit, Savers, Phases, SaverPcs, Snapshot

LEMMA BootKeeps ==
  ASSUME CInv, Boot PROVE CInv'
<1> USE DEF CInv, stores, Boot, NoExit
<1>1. ShapeOK'
  BY DEF ShapeOK, Phases
<1>2. OnlyServed'
  BY DEF OnlyServed, OfServed
<1>3. Working'
  BY DEF Working
<1>4. FinalIsWhole'
  BY DEF Working, FinalIsWhole
<1>5. ExitIsFresh'
  BY DEF ExitIsFresh
<1>6. Quiet'
  BY DEF Quiet, Alone
<1>7. Kept'
  BY DEF Kept
<1> QED  BY <1>1, <1>2, <1>3, <1>4, <1>5, <1>6, <1>7

LEMMA WarmupKeeps ==
  ASSUME CInv, Warmup PROVE CInv'
<1> USE DEF CInv, stores, Warmup, Load, LoadDisk
<1>1. ShapeOK'
  <2>1. restored' \in Snapshot \cup {None}  BY DEF ShapeOK
  <2>2. /\ saver' \in [Savers -> [pc : SaverPcs, snap : Snapshot \cup {None}]]
        /\ \A t \in Savers : saver'[t].pc \in {"disk", "redis"} <=> saver'[t].snap # None
    BY DEF ShapeOK, Working, Savers, SaverPcs
  <2> QED  BY <2>1, <2>2 DEF ShapeOK, Phases
<1>2. OnlyServed'
  BY DEF ShapeOK, OnlyServed, OfServed
<1>3. Working'
  BY DEF Working
<1>4. FinalIsWhole'
  BY DEF Working, FinalIsWhole
<1>5. ExitIsFresh'
  BY DEF ExitIsFresh
<1>6. Quiet'
  BY DEF ExitIsFresh, Quiet, Alone
<1>7. Kept'
  BY DEF ExitIsFresh, Kept
<1> QED  BY <1>1, <1>2, <1>3, <1>4, <1>5, <1>6, <1>7

LEMMA ServeKeeps ==
  ASSUME CInv, NEW d \in Deposits, Serve(d) PROVE CInv'
  BY DEF Serve, process, stores, Savers, Phases, Snapshot, CInv, ShapeOK,
    OnlyServed, OfServed, Working, FinalIsWhole, ExitIsFresh, Quiet, Alone, Kept

LEMMA DecayFailsKeeps ==
  ASSUME CInv, DecayFails PROVE CInv'
  BY DEF DecayFails, stores, CInv, ShapeOK, OnlyServed, OfServed, Working,
    FinalIsWhole, ExitIsFresh, Quiet, Alone, Kept

LEMMA TakeSnapshotKeeps ==
  ASSUME CInv, NEW t \in Savers, TakeSnapshot(t) PROVE CInv'
<1> USE DEF CInv, process, stores, TakeSnapshot
<1>1. ShapeOK'
  <2>1. [deps |-> field] \in Snapshot  BY DEF OnlyServed, Snapshot
  <2>2. [deps |-> field] # None  BY <2>1, CheckpointingAssumption
  <2> QED  BY <2>1, <2>2 DEF ShapeOK, Phases, SaverPcs
<1>2. OnlyServed'
  BY DEF OnlyServed, OfServed
<1>3. Working'
  BY DEF ShapeOK, Working
<1>4. FinalIsWhole'
  BY DEF FinalIsWhole
<1>5. ExitIsFresh'
  BY DEF ExitIsFresh
<1>6. Quiet'
  BY DEF Quiet, Alone
<1>7. Kept'
  BY DEF Alone, Kept
<1> QED  BY <1>1, <1>2, <1>3, <1>4, <1>5, <1>6, <1>7

LEMMA SnapshotFailsKeeps ==
  ASSUME CInv, NEW t \in Savers, SnapshotFails(t) PROVE CInv'
<1> USE DEF CInv, stores, SnapshotFails, Saved, NoSave
<1>1. ShapeOK'
  BY DEF ShapeOK, Phases, SaverPcs, Savers
<1>2. OnlyServed'
  BY DEF ShapeOK, OnlyServed, OfServed, Snapshot
<1>3. Working'
  BY DEF ShapeOK, Working, Savers
<1>4. FinalIsWhole'
  BY DEF ShapeOK, FinalIsWhole, Savers
<1>5. ExitIsFresh'
  BY DEF ExitIsFresh
<1>6. Quiet'
  BY DEF Quiet, Alone, Savers
<1>7. Kept'
  BY DEF ShapeOK, Alone, Kept, Savers
<1> QED  BY <1>1, <1>2, <1>3, <1>4, <1>5, <1>6, <1>7

LEMMA OpenFileKeeps ==
  ASSUME CInv, NEW t \in Savers, OpenFile(t) PROVE CInv'
<1> USE DEF CInv, process, OpenFile
<1>1. ShapeOK'
  BY DEF ShapeOK
<1>2. OnlyServed'
  BY CheckpointingAssumption DEF OnlyServed, OfServed, Savers
<1>3. Working'
  BY DEF Working
<1>4. FinalIsWhole'
  BY DEF FinalIsWhole
<1>5. ExitIsFresh'
  BY DEF ExitIsFresh
<1>6. Quiet'
  BY DEF Quiet, Alone
<1>7. Kept'
  BY DEF Quiet, Alone, Kept, Savers
<1> QED  BY <1>1, <1>2, <1>3, <1>4, <1>5, <1>6, <1>7

LEMMA WriteFileKeeps ==
  ASSUME CInv, NEW t \in Savers, WriteFile(t) PROVE CInv'
<1> USE DEF CInv, process, stores, WriteFile, ThreadEnds, NoWrite
<1>1. ShapeOK'
  BY DEF ShapeOK, SaverPcs, Savers
<1>2. OnlyServed'
  BY CheckpointingAssumption DEF ShapeOK, OnlyServed, OfServed, Savers
<1>3. Working'
  BY DEF ShapeOK, Working, Savers
<1>4. FinalIsWhole'
  BY DEF ShapeOK, FinalIsWhole, Savers
<1>5. ExitIsFresh'
  BY DEF Working, ExitIsFresh
<1>6. Quiet'
  BY DEF ShapeOK, Quiet, Alone, Savers
<1>7. Kept'
  BY DEF ShapeOK, Working, FinalIsWhole, Quiet, Alone, Kept, Savers
<1> QED  BY <1>1, <1>2, <1>3, <1>4, <1>5, <1>6, <1>7

LEMMA WriteFailsKeeps ==
  ASSUME CInv, NEW t \in Savers, WriteFails(t) PROVE CInv'
<1> USE DEF CInv, process, stores, WriteFails, ThreadEnds, NoWrite
<1>1. ShapeOK'
  BY DEF ShapeOK, SaverPcs, Savers
<1>2. OnlyServed'
  BY CheckpointingAssumption DEF ShapeOK, OnlyServed, OfServed
<1>3. Working'
  BY DEF ShapeOK, Working, Savers
<1>4. FinalIsWhole'
  BY DEF ShapeOK, FinalIsWhole, Savers
<1>5. ExitIsFresh'
  BY DEF ExitIsFresh
<1>6. Quiet'
  BY DEF ShapeOK, Quiet, Alone, Savers
<1>7. Kept'
  BY DEF ShapeOK, Alone, Kept, Savers
<1> QED  BY <1>1, <1>2, <1>3, <1>4, <1>5, <1>6, <1>7

LEMMA SaveToRedisKeeps ==
  ASSUME CInv, NEW t \in Savers, SaveToRedis(t) PROVE CInv'
<1> USE DEF CInv, stores, SaveToRedis, Saved, NoSave
<1>1. ShapeOK'
  BY DEF ShapeOK, Phases, SaverPcs, Savers
<1>2. OnlyServed'
  BY CheckpointingAssumption DEF ShapeOK, OnlyServed, OfServed, Savers
<1>3. Working'
  BY DEF ShapeOK, Working, Savers
<1>4. FinalIsWhole'
  BY DEF ShapeOK, FinalIsWhole, Savers
<1>5. ExitIsFresh'
  BY DEF ExitIsFresh
<1>6. Quiet'
  BY DEF Quiet, Alone, Savers
<1>7. Kept'
  BY DEF ShapeOK, FinalIsWhole, Quiet, Alone, Kept, Savers
<1> QED  BY <1>1, <1>2, <1>3, <1>4, <1>5, <1>6, <1>7

LEMMA SaveToRedisFailsKeeps ==
  ASSUME CInv, NEW t \in Savers, SaveToRedisFails(t) PROVE CInv'
<1> USE DEF CInv, SaveToRedisFails, Saved, NoSave
<1>1. ShapeOK'
  BY DEF ShapeOK, Phases, SaverPcs, Savers
<1>2. OnlyServed'
  BY CheckpointingAssumption DEF ShapeOK, OnlyServed, OfServed
<1>3. Working'
  BY DEF ShapeOK, Working, Savers
<1>4. FinalIsWhole'
  BY DEF ShapeOK, FinalIsWhole, Savers
<1>5. ExitIsFresh'
  BY DEF ExitIsFresh
<1>6. Quiet'
  BY DEF Quiet, Alone, Savers
<1>7. Kept'
  BY DEF ShapeOK, FinalIsWhole, Quiet, Alone, Kept, Savers
<1> QED  BY <1>1, <1>2, <1>3, <1>4, <1>5, <1>6, <1>7

LEMMA SleepEndsKeeps ==
  ASSUME CInv, SleepEnds PROVE CInv'
<1> USE DEF CInv, process, stores, SleepEnds, Overlaps
<1>1. ShapeOK'
  BY DEF ShapeOK, SaverPcs, Savers
<1>2. OnlyServed'
  BY DEF OnlyServed, OfServed
<1>3. Working'
  BY DEF Working
<1>4. FinalIsWhole'
  BY DEF FinalIsWhole
<1>5. ExitIsFresh'
  BY DEF ExitIsFresh
<1>6. Quiet'
  BY DEF ShapeOK, Working, ExitIsFresh, Quiet, Alone
<1>7. Kept'
  BY DEF ShapeOK, Alone, Kept
<1> QED  BY <1>1, <1>2, <1>3, <1>4, <1>5, <1>6, <1>7

LEMMA ShutdownKeeps ==
  ASSUME CInv, Shutdown PROVE CInv'
<1> USE DEF CInv, stores, Shutdown, NoSave
<1>1. ShapeOK'
  <2>1. exit' \in [saved : BOOLEAN, overlapped : BOOLEAN, stores : SUBSET {"disk", "redis"}]
    BY DEF ShapeOK
  <2>2. /\ saver' \in [Savers -> [pc : SaverPcs, snap : Snapshot \cup {None}]]
        /\ \A t \in Savers : saver'[t].pc \in {"disk", "redis"} <=> saver'[t].snap # None
    BY DEF ShapeOK, Working, Savers, SaverPcs
  <2> QED  BY <2>1, <2>2 DEF ShapeOK, Phases
<1>2. OnlyServed'
  BY CheckpointingAssumption DEF ShapeOK, OnlyServed, OfServed, Savers
<1>3. Working'
  BY DEF ShapeOK, Working, Savers
<1>4. FinalIsWhole'
  BY DEF ShapeOK, FinalIsWhole, Savers
<1>5. ExitIsFresh'
  BY DEF ExitIsFresh
<1>6. Quiet'
  BY DEF ShapeOK, Working, ExitIsFresh, Quiet, Alone, Savers
<1>7. Kept'
  BY DEF ShapeOK, ExitIsFresh, Kept
<1> QED  BY <1>1, <1>2, <1>3, <1>4, <1>5, <1>6, <1>7

LEMMA ExitKeeps ==
  ASSUME CInv, Exit PROVE CInv'
  BY DEF Exit, stores, Phases, CInv, ShapeOK, OnlyServed, OfServed, Working,
    FinalIsWhole, ExitIsFresh, Quiet, Alone, Kept

LEMMA CrashKeeps ==
  ASSUME CInv, Crash PROVE CInv'
<1> USE DEF CInv, stores, Crash, NoSave, NoWrite, NoExit
<1>1. ShapeOK'
  BY DEF ShapeOK, Phases, SaverPcs
<1>2. OnlyServed'
  BY CheckpointingAssumption DEF OnlyServed, OfServed
<1>3. Working'
  BY DEF Working, Savers
<1>4. FinalIsWhole'
  BY DEF FinalIsWhole, Savers
<1>5. ExitIsFresh'
  BY DEF ExitIsFresh
<1>6. Quiet'
  BY DEF Quiet, Alone
<1>7. Kept'
  BY DEF Kept
<1> QED  BY <1>1, <1>2, <1>3, <1>4, <1>5, <1>6, <1>7

LEMMA CInvInductive == CInv /\ [Next]_vars => CInv'
<1> SUFFICES ASSUME CInv, [Next]_vars PROVE CInv'
  OBVIOUS
<1>1. ASSUME NEW t \in Savers, Save(t) PROVE CInv'
  BY <1>1, TakeSnapshotKeeps, SnapshotFailsKeeps, OpenFileKeeps, WriteFileKeeps,
     WriteFailsKeeps, SaveToRedisKeeps, SaveToRedisFailsKeeps
  DEF Save
<1>2. CASE UNCHANGED vars
  BY <1>2
  DEF vars, CInv, ShapeOK, OnlyServed, OfServed, Working, FinalIsWhole, ExitIsFresh, Quiet,
      Alone, Kept
<1> QED
  BY <1>1, <1>2, BootKeeps, WarmupKeeps, ServeKeeps, DecayFailsKeeps, SleepEndsKeeps,
     ShutdownKeeps, ExitKeeps, CrashKeeps
  DEF Next

LEMMA CInvHolds == Spec => []CInv
  BY CInvInit, CInvInductive, PTL DEF Spec

(* Every variable has its shape, and no boot restores a torn file, whatever  *)
(* crashes and whichever stores fail.                                       *)
THEOREM TypeCorrect == Spec => []TypeOK
<1>1. CInv => TypeOK
  BY DEF CInv, ShapeOK, OnlyServed, TypeOK, Phases, SaverPcs
<1> QED  BY <1>1, CInvHolds, PTL

(* A store that acknowledged the final snapshot of a shutdown which no       *)
(* periodic save overlapped holds the whole field when the process is down.  *)
THEOREM ExitIsSaved == Spec => []ExitSaved
<1>1. CInv => ExitSaved
  BY DEF CInv, Kept, Alone, ExitSaved
<1> QED  BY <1>1, CInvHolds, PTL
=============================================================================
