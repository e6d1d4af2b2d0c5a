-------------------------- MODULE RedisFieldProofs --------------------------
(***************************************************************************)
(* The Redis field for any replicas, coroutines and calls: the list and    *)
(* the dictionary of a replica stay aligned, its first use is exclusive,   *)
(* and no script is called that was never loaded.  The constants that      *)
(* FieldLemmas takes from Traces play no part.                             *)
(***************************************************************************)
EXTENDS RedisField, FieldLemmas, FiniteSetTheorems

(* The list s and the dictionary x describe the same nodes. *)
Aligned(s, x) ==
    /\ s \in Seq(Nodes)
    /\ DOMAIN x = ToSet(s)
    /\ \A i \in DOMAIN s : x[s[i]] = i

AllAligned ==
    /\ ids \in [Replicas -> Seq(Nodes)]
    /\ index = [r \in Replicas |-> index[r]]
    /\ \A r \in Replicas : Aligned(ids[r], index[r])

Calling == \A t \in Tasks : task[t].pc # "idle" => task[t].call \in Calls[t]

IInv ==
    /\ AllAligned
    /\ initialized \in [Replicas -> BOOLEAN]
    /\ task = [t \in Tasks |-> task[t]]
    /\ Calling
    /\ InitExclusive
    /\ ScriptBeforeUse

-----------------------------------------------------------------------------
(* add_node appends to both. *)
LEMMA AppendAligned ==
    ASSUME NEW s, NEW x, Aligned(s, x), NEW n \in Nodes, n \notin DOMAIN x
    PROVE  Aligned(Append(s, n),
                   [m \in DOMAIN x \cup {n} |-> IF m = n THEN Len(s) + 1 ELSE x[m]])
<1> DEFINE u == Append(s, n)
           y == [m \in DOMAIN x \cup {n} |-> IF m = n THEN Len(s) + 1 ELSE x[m]]
<1>1. /\ s \in Seq(Nodes) /\ Len(s) \in Nat /\ DOMAIN s = 1 .. Len(s)
      /\ DOMAIN x = ToSet(s) /\ \A i \in DOMAIN s : x[s[i]] = i
  BY DEF Aligned
<1>2. /\ u \in Seq(Nodes) /\ DOMAIN u = DOMAIN s \cup {Len(s) + 1}
      /\ u[Len(s) + 1] = n /\ \A i \in DOMAIN s : u[i] = s[i]
  BY <1>1
<1> HIDE DEF u
<1>3. ToSet(u) = ToSet(s) \cup {n}
  BY <1>2 DEF ToSet
<1>4. ASSUME NEW i \in DOMAIN u PROVE y[u[i]] = i
  <2>1. CASE i = Len(s) + 1
    BY <2>1, <1>2
  <2>2. CASE i \in DOMAIN s
    <3>1. u[i] = s[i] /\ s[i] \in DOMAIN x
      BY <2>2, <1>1, <1>2 DEF ToSet
    <3>2. QED
      BY <3>1, <2>2, <1>1
  <2>3. QED
    BY <2>1, <2>2, <1>2
<1>5. QED
  BY <1>1, <1>2, <1>3, <1>4 DEF Aligned, u

(* remove_node shortens the list and numbers what is left. *)
LEMMA RemoveAligned ==
    ASSUME NEW s, NEW x, Aligned(s, x), NEW n \in DOMAIN x
    PROVE  Aligned(RemoveAt(s, x[n]), IndexOfIds(RemoveAt(s, x[n])))
<1> DEFINE at == x[n]
           u == RemoveAt(s, at)
           old(k) == IF k < at THEN k ELSE k + 1
<1>1. /\ s \in Seq(Nodes) /\ Len(s) \in Nat /\ DOMAIN s = 1 .. Len(s)
      /\ DOMAIN x = ToSet(s) /\ \A i \in DOMAIN s : x[s[i]] = i
  BY DEF Aligned
<1>2. at \in DOMAIN s
  <2>1. PICK i \in DOMAIN s : s[i] = n
    BY <1>1 DEF ToSet
  <2>2. QED
    BY <2>1, <1>1
<1>3. /\ u \in Seq(Nodes) /\ DOMAIN u = 1 .. Len(s) - 1
      /\ \A j \in 1 .. Len(s) - 1 : u[j] = IF j < at THEN s[j] ELSE s[j + 1]
  BY <1>1, <1>2, RemoveAtElements
<1> HIDE DEF u
<1>4. Injective(u)
  <2> SUFFICES ASSUME NEW i \in DOMAIN u, NEW j \in DOMAIN u, u[i] = u[j] PROVE i = j
    BY DEF Injective
  <2>1. \A k \in DOMAIN u : old(k) \in DOMAIN s /\ u[k] = s[old(k)]
    BY <1>1, <1>2, <1>3
  <2>2. old(i) = old(j)
    BY <2>1, <1>1
  <2>3. i \in Int /\ j \in Int /\ at \in Int
    BY <1>1, <1>2, <1>3
  <2>4. QED
    BY <2>2, <2>3
<1>5. /\ IndexOfIds(u) \in [ToSet(u) -> DOMAIN u]
      /\ \A i \in DOMAIN u : IndexOfIds(u)[u[i]] = i
  BY <1>3, <1>4, IndexOfIdsInverts
<1>6. QED
  BY <1>3, <1>5 DEF Aligned, u

(* The constructor numbers the configured nodes. *)
LEMMA InitAligned == Aligned(InitIds, IndexOfIds(InitIds))
<1>1. InitIds \in Seq(Nodes) /\ Injective(InitIds)
  BY RedisAssumption DEF Injective
<1>2. QED
  BY <1>1, IndexOfIdsInverts DEF Aligned

-----------------------------------------------------------------------------
(* A coroutine t comes to wait for x. *)
Moved(t, x) ==
    LET r == ReplicaOf[t] IN
    /\ task' = [task EXCEPT ![t] = x]
    /\ x.pc # "idle" => x.call \in Calls[t]
    /\ script' \in {script, "cached"}
    /\ \/ initialized' = initialized
       \/ /\ initialized' = [initialized EXCEPT ![r] = TRUE]
          /\ script' = "cached" /\ task[t].pc = "load" /\ x.pc \notin {"boot", "load"}
    /\ x.pc \in {"boot", "load"} =>
          ~ initialized[r] /\ (task[t].pc \in {"boot", "load"} \/ ~ Locked(r))
    /\ x.pc = "evalsha" => initialized'[r]

LEMMA MoveKeeps ==
  ASSUME IInv, NEW t \in Tasks, NEW x, Moved(t, x), AllAligned'
  PROVE  IInv'
<1> DEFINE r == ReplicaOf[t]
<1>1. /\ r \in Replicas /\ initialized \in [Replicas -> BOOLEAN]
      /\ task'[t] = x /\ \A u \in Tasks \ {t} : task'[u] = task[u]
      /\ task' = [u \in Tasks |-> task'[u]]
  BY RedisAssumption DEF IInv, Moved
<1>2. Calling'
  BY <1>1 DEF IInv, Calling, Moved
<1>3. initialized' \in [Replicas -> BOOLEAN]
  BY <1>1 DEF Moved
<1>4. \A u \in Tasks : ReplicaOf[u] \in Replicas
  BY RedisAssumption
<1>5. InitExclusive'
  <2> SUFFICES ASSUME NEW u \in Tasks, NEW v \in Tasks, task'[u].pc \in {"boot", "load"}
               PROVE  /\ ~ initialized'[ReplicaOf[u]]
                      /\ (v # u /\ ReplicaOf[v] = ReplicaOf[u]) =>
                            task'[v].pc \notin {"boot", "load"}
    BY DEF InitExclusive
  <2>1. \A p, q \in Tasks : task[p].pc \in {"boot", "load"} =>
            /\ ~ initialized[ReplicaOf[p]]
            /\ (q # p /\ ReplicaOf[q] = ReplicaOf[p]) => task[q].pc \notin {"boot", "load"}
    BY DEF IInv, InitExclusive
  <2>2. CASE u = t
    <3>1. /\ initialized' = initialized /\ ~ initialized[r]
          /\ task[t].pc \in {"boot", "load"} \/ ~ Locked(r)
      BY <2>2, <1>1 DEF Moved
    <3>2. \A q \in Tasks : (q # t /\ ReplicaOf[q] = r) => task[q].pc \notin {"boot", "load"}
      BY <3>1, <2>1 DEF Locked
    <3>3. QED
      BY <2>2, <3>1, <3>2, <1>1
  <2>3. CASE u # t
    <3>1. task[u].pc \in {"boot", "load"}
      BY <2>3, <1>1
    <3>2. ~ initialized'[ReplicaOf[u]]
      <4>1. CASE initialized' = initialized
        BY <4>1, <3>1, <2>1
      <4>2. CASE initialized' = [initialized EXCEPT ![r] = TRUE] /\ task[t].pc = "load"
        <5>1. ReplicaOf[u] # r
          BY <4>2, <2>1, <2>3, <3>1
        <5>2. initialized'[ReplicaOf[u]] = initialized[ReplicaOf[u]]
          BY <5>1, <4>2, <1>1, <1>4
        <5>3. QED
          BY <5>2, <3>1, <2>1
      <4>3. QED
        BY <4>1, <4>2 DEF Moved
    <3>3. ASSUME v # u, ReplicaOf[v] = ReplicaOf[u] PROVE task'[v].pc \notin {"boot", "load"}
      <4>1. CASE v = t
        <5>1. task[t].pc \notin {"boot", "load"} /\ Locked(r)
          BY <4>1, <3>1, <3>3, <2>1 DEF Locked
        <5>2. QED
          BY <5>1, <4>1, <1>1 DEF Moved
      <4>2. CASE v # t
        BY <4>2, <3>1, <3>3, <2>1, <1>1
      <4>3. QED
        BY <4>1, <4>2
    <3>4. QED
      BY <3>2, <3>3
  <2>4. QED
    BY <2>2, <2>3
<1>6. ScriptBeforeUse'
  <2> SUFFICES ASSUME NEW u \in Tasks,
                      initialized'[ReplicaOf[u]] \/ task'[u].pc = "evalsha"
               PROVE  script' # "absent"
    BY DEF ScriptBeforeUse
  <2>1. CASE script' = "cached"
    BY <2>1
  <2>2. CASE script' # "cached"
    <3>1. script' = script /\ initialized' = initialized
      BY <2>2 DEF Moved
    <3>2. initialized[ReplicaOf[u]] \/ task[u].pc = "evalsha"
      BY <3>1, <1>1 DEF Moved
    <3>3. QED
      BY <3>1, <3>2 DEF IInv, ScriptBeforeUse
  <2>3. QED
    BY <2>1, <2>2
<1>7. QED
  BY <1>1, <1>2, <1>3, <1>5, <1>6 DEF IInv

-----------------------------------------------------------------------------
LEMMA AlignedUnchanged == AllAligned /\ UNCHANGED local => AllAligned'
BY DEF AllAligned, local

(* Everything a coroutine that got past _ensure_initialized does next: it   *)
(* ends up waiting for a command of its call, or done.                      *)
Serves(t, call, x) ==
    /\ task' = [task EXCEPT ![t] = x]
    /\ x.pc \notin {"boot", "load"}
    /\ x.pc # "idle" => x.call = call

LEMMA FinishServes ==
  ASSUME NEW t \in Tasks, NEW call, Finish(t) PROVE Serves(t, call, Idle)
BY DEF Serves, Finish, Idle

LEMMA AwaitServes ==
  ASSUME NEW t \in Tasks, NEW call, NEW pc, NEW keys, NEW raw,
         Await(t, pc, call, keys, raw), pc \notin {"boot", "load"}
  PROVE  Serves(t, call, Waiting(pc, call, keys, raw))
BY DEF Serves, Await, Waiting

LEMMA BodyServes ==
  ASSUME AllAligned, NEW t \in Tasks, NEW call \in Calls[t], Body(t, call)
  PROVE  AllAligned' /\ \E x : Serves(t, call, x)
<1> DEFINE r == ReplicaOf[t]
<1>0. r \in Replicas
  BY RedisAssumption
<1>1. CASE DepositBody(t, call)
  BY <1>1, FinishServes, AwaitServes, AlignedUnchanged DEF DepositBody
<1>2. CASE EvaporateBody(t, call)
  BY <1>2, AwaitServes, AlignedUnchanged DEF EvaporateBody
<1>3. CASE AddBody(t, call)
  <2>1. CASE call.node \in Known(r)
    BY <2>1, <1>3, FinishServes, AlignedUnchanged DEF AddBody
  <2>2. CASE call.node \notin Known(r)
    <3>1. /\ index' = [index EXCEPT ![r] =
                          [m \in DOMAIN @ \cup {call.node} |->
                              IF m = call.node THEN Len(ids[r]) + 1 ELSE @[m]]]
          /\ ids' = [ids EXCEPT ![r] = Append(@, call.node)]
          /\ Await(t, "hset", call, <<>>, <<>>)
          /\ call.op = "add"
      BY <2>2, <1>3 DEF AddBody, Known
    <3>2. call.node \in Nodes
      BY <3>1, RedisAssumption
    <3>3. /\ Aligned(ids[r], index[r]) /\ ids[r] \in Seq(Nodes)
          /\ Append(ids[r], call.node) \in Seq(Nodes)
      BY <1>0, <3>2 DEF AllAligned
    <3>4. Aligned(Append(ids[r], call.node),
                  [m \in DOMAIN index[r] \cup {call.node} |->
                      IF m = call.node THEN Len(ids[r]) + 1 ELSE index[r][m]])
      <4> DEFINE s == ids[r]
                 x == index[r]
                 n == call.node
      <4>1. Aligned(s, x) /\ n \in Nodes /\ n \notin DOMAIN x
        BY <2>2, <3>2, <3>3 DEF Known
      <4> HIDE DEF s, x, n
      <4>2. Aligned(Append(s, n),
                    [m \in DOMAIN x \cup {n} |-> IF m = n THEN Len(s) + 1 ELSE x[m]])
        BY <4>1, AppendAligned
      <4>3. QED
        BY <4>2 DEF s, x, n
    <3>5. AllAligned'
      BY <1>0, <3>1, <3>3, <3>4 DEF AllAligned
    <3>6. QED
      BY <3>1, <3>5, AwaitServes
  <2>3. QED
    BY <2>1, <2>2
<1>4. CASE RemoveBody(t, call)
  BY <1>4, AwaitServes, AlignedUnchanged DEF RemoveBody
<1>5. CASE HydrateBody(t, call)
  BY <1>5, FinishServes, AwaitServes, AlignedUnchanged DEF HydrateBody
<1>6. QED
  BY <1>1, <1>2, <1>3, <1>4, <1>5 DEF Body

(* A coroutine that finds the flag set goes on with its call. *)
LEMMA ServingMoves ==
  ASSUME IInv, NEW t \in Tasks, NEW call \in Calls[t], Body(t, call),
         initialized[ReplicaOf[t]], UNCHANGED <<script, initialized>>
  PROVE  IInv'
<1>1. PICK x : Serves(t, call, x)
  BY BodyServes DEF IInv
<1>2. Moved(t, x)
  BY <1>1 DEF Moved, Serves
<1>3. QED
  BY <1>2, BodyServes, MoveKeeps DEF IInv

(* One that does not, and may, starts the first use. *)
LEMMA InsideLockKeeps ==
  ASSUME IInv, NEW t \in Tasks, NEW call \in Calls[t], InsideLock(t, call),
         ~ Locked(ReplicaOf[t]), UNCHANGED <<script, initialized>>
  PROVE  IInv'
<1> DEFINE r == ReplicaOf[t]
<1>1. CASE initialized[r]
  BY <1>1, ServingMoves DEF InsideLock
<1>2. CASE ~ initialized[r]
  <2>1. Await(t, "boot", call, ids[r], <<>>) /\ UNCHANGED local
    BY <1>2 DEF InsideLock
  <2>2. Moved(t, Waiting("boot", call, ids[r], <<>>))
    BY <2>1, <1>2 DEF Moved, Await, Waiting
  <2>3. QED
    BY <2>1, <2>2, AlignedUnchanged, MoveKeeps DEF IInv
<1>3. QED
  BY <1>1, <1>2

LEMMA StartKeeps ==
  ASSUME IInv, NEW t \in Tasks, NEW call \in Calls[t], Start(t, call)
  PROVE  IInv'
<1> DEFINE r == ReplicaOf[t]
<1>1. EnsureInitialized(t, call) /\ UNCHANGED <<script, initialized>>
  BY DEF Start
<1>2. CASE initialized[r]
  BY <1>1, <1>2, ServingMoves DEF EnsureInitialized
<1>3. CASE ~ initialized[r] /\ Locked(r)
  <2>1. Await(t, "lock", call, <<>>, <<>>) /\ UNCHANGED local
    BY <1>1, <1>3 DEF EnsureInitialized
  <2>2. Moved(t, Waiting("lock", call, <<>>, <<>>))
    BY <2>1, <1>1 DEF Moved, Await, Waiting
  <2>3. QED
    BY <2>1, <2>2, AlignedUnchanged, MoveKeeps DEF IInv
<1>4. CASE ~ initialized[r] /\ ~ Locked(r)
  BY <1>1, <1>4, InsideLockKeeps DEF EnsureInitialized
<1>5. QED
  BY <1>2, <1>3, <1>4

LEMMA GetLockKeeps ==
  ASSUME IInv, NEW t \in Tasks, GetLock(t) PROVE IInv'
<1>1. task[t].call \in Calls[t]
  BY DEF IInv, Calling, GetLock
<1>2. QED
  BY <1>1, InsideLockKeeps DEF GetLock

(* The first use goes on from the baselines to the script, inside the lock. *)
LEMMA WriteDefaultsKeeps ==
  ASSUME IInv, NEW t \in Tasks, WriteDefaults(t) PROVE IInv'
<1>1. /\ task[t].call \in Calls[t] /\ ~ initialized[ReplicaOf[t]]
      /\ task[t].pc = "boot"
  BY DEF IInv, Calling, InitExclusive, WriteDefaults
<1>2. Moved(t, Waiting("load", task[t].call, <<>>, <<>>))
  BY <1>1 DEF WriteDefaults, Moved, Await, Waiting
<1>3. QED
  BY <1>2, AlignedUnchanged, MoveKeeps DEF WriteDefaults, IInv

LEMMA LoadScriptKeeps ==
  ASSUME IInv, NEW t \in Tasks, LoadScript(t) PROVE IInv'
<1> DEFINE r == ReplicaOf[t]
<1>1. /\ task[t].call \in Calls[t] /\ r \in Replicas /\ task[t].pc = "load"
      /\ initialized \in [Replicas -> BOOLEAN]
  BY RedisAssumption DEF IInv, Calling, LoadScript
<1>2. AllAligned' /\ \E x : Serves(t, task[t].call, x)
  BY <1>1, BodyServes DEF LoadScript, IInv
<1>3. PICK x : Serves(t, task[t].call, x)
  BY <1>2
<1>4. initialized' = [initialized EXCEPT ![r] = TRUE] /\ initialized'[r]
  BY <1>1 DEF LoadScript
<1>5. Moved(t, x)
  BY <1>1, <1>3, <1>4 DEF LoadScript, Moved, Serves
<1>6. QED
  BY <1>2, <1>5, MoveKeeps

(* The steps that leave the list, the dictionary and the flags alone. *)
LEMMA CommandKeeps ==
  ASSUME IInv, NEW t \in Tasks,
         \/ EvalDeposit(t) \/ NoScript(t) \/ EvaporateRead(t) \/ EvaporateWrite(t)
         \/ AddWrite(t) \/ HydrateWrite(t) \/ Fail(t) \/ ReplyLost(t)
  PROVE  IInv'
<1>1. initialized' = initialized /\ script' \in {script, "cached"} /\ UNCHANGED local
  BY DEF EvalDeposit, NoScript, EvaporateRead, EvaporateWrite, AddWrite, HydrateWrite, Fail,
     ReplyLost
<1>2. CASE EvaporateRead(t)
  <2>1. PICK keys, raw : Await(t, "hsetback", task[t].call, keys, raw)
    BY <1>2 DEF EvaporateRead
  <2>2. task[t].call \in Calls[t]
    BY <1>2 DEF EvaporateRead, IInv, Calling
  <2>3. Moved(t, Waiting("hsetback", task[t].call, keys, raw))
    BY <2>1, <2>2, <1>1 DEF Moved, Await, Waiting
  <2>4. QED
    BY <2>3, <1>1, AlignedUnchanged, MoveKeeps DEF IInv
<1>3. CASE ~ EvaporateRead(t)
  <2>1. Finish(t)
    BY <1>3 DEF EvalDeposit, NoScript, EvaporateWrite, AddWrite, HydrateWrite, Fail, ReplyLost
  <2>2. Moved(t, Idle)
    BY <2>1, <1>1 DEF Moved, Finish, Idle
  <2>3. QED
    BY <2>2, <1>1, AlignedUnchanged, MoveKeeps DEF IInv
<1>4. QED
  BY <1>2, <1>3

LEMMA RemoveWriteKeeps ==
  ASSUME IInv, NEW t \in Tasks, RemoveWrite(t) PROVE IInv'
<1> DEFINE r == ReplicaOf[t]
           n == task[t].call.node
<1>0. r \in Replicas /\ AllAligned
  BY RedisAssumption DEF IInv
<1>1. Moved(t, Idle)
  BY DEF RemoveWrite, Moved, Finish, Idle
<1>2. CASE n \notin Known(r)
  BY <1>0, <1>1, <1>2, AlignedUnchanged, MoveKeeps DEF RemoveWrite
<1>3. CASE n \in Known(r)
  <2> DEFINE left == RemoveAt(ids[r], index[r][n])
  <2>1. /\ ids' = [ids EXCEPT ![r] = left]
        /\ index' = [index EXCEPT ![r] = IndexOfIds(ids'[r])]
    BY <1>3 DEF RemoveWrite
  <2>2. Aligned(left, IndexOfIds(left)) /\ left \in Seq(Nodes)
    <3>1. Aligned(ids[r], index[r]) /\ n \in DOMAIN index[r]
      BY <1>0, <1>3 DEF AllAligned, Known
    <3>2. Aligned(left, IndexOfIds(left))
      BY <3>1, RemoveAligned, Zenon
    <3>3. QED
      BY <3>2 DEF Aligned
  <2>3. AllAligned'
    BY <1>0, <2>1, <2>2 DEF AllAligned
  <2>4. QED
    BY <1>1, <2>3, MoveKeeps
<1>4. QED
  BY <1>2, <1>3

LEMMA RedisRestartsKeeps ==
  ASSUME IInv, RedisRestarts PROVE IInv'
<1>1. UNCHANGED local /\ UNCHANGED <<initialized, task>>
  BY DEF RedisRestarts
<1>2. script # "absent" => script' # "absent"
  BY DEF RedisRestarts
<1>3. AllAligned'
  BY <1>1, AlignedUnchanged DEF IInv
<1>4. ScriptBeforeUse'
  BY <1>1, <1>2 DEF IInv, ScriptBeforeUse
<1>5. QED
  BY <1>1, <1>3, <1>4 DEF IInv, Calling, InitExclusive

LEMMA ReplicaRestartsKeeps ==
  ASSUME IInv, NEW r \in Replicas, ReplicaRestarts(r) PROVE IInv'
<1>1. /\ ids' = [ids EXCEPT ![r] = InitIds]
      /\ index' = [index EXCEPT ![r] = IndexOfIds(InitIds)]
      /\ initialized' = [initialized EXCEPT ![r] = FALSE]
      /\ task' = [t \in Tasks |-> IF ReplicaOf[t] = r THEN Idle ELSE task[t]]
      /\ script' = script
  BY DEF ReplicaRestarts
<1>2. AllAligned'
  BY <1>1, InitAligned, RedisAssumption DEF IInv, AllAligned
<1>3. /\ initialized' \in [Replicas -> BOOLEAN] /\ ~ initialized'[r]
      /\ \A s \in Replicas \ {r} : initialized'[s] = initialized[s]
  BY <1>1 DEF IInv
<1>4. \A t \in Tasks : ReplicaOf[t] \in Replicas
  BY RedisAssumption
<1>5. /\ \A t \in Tasks : ReplicaOf[t] # r => task'[t] = task[t]
      /\ \A t \in Tasks : ReplicaOf[t] = r => task'[t].pc = "idle"
  BY <1>1 DEF Idle
<1>6. Calling'
  BY <1>5 DEF IInv, Calling
<1>7. InitExclusive'
  <2>1. \A p, q \in Tasks : task[p].pc \in {"boot", "load"} =>
            /\ ~ initialized[ReplicaOf[p]]
            /\ (q # p /\ ReplicaOf[q] = ReplicaOf[p]) => task[q].pc \notin {"boot", "load"}
    BY DEF IInv, InitExclusive
  <2>2. QED
    BY <2>1, <1>3, <1>4, <1>5 DEF InitExclusive
<1>8. ScriptBeforeUse'
  BY <1>1, <1>3, <1>4, <1>5 DEF IInv, ScriptBeforeUse
<1>9. QED
  BY <1>1, <1>2, <1>3, <1>6, <1>7, <1>8 DEF IInv

-----------------------------------------------------------------------------
LEMMA InitHolds == Init => IInv
<1> SUFFICES ASSUME Init PROVE IInv
  OBVIOUS
<1>1. AllAligned
  BY InitAligned, RedisAssumption DEF Init, AllAligned
<1>2. \A t \in Tasks : task[t].pc = "idle" /\ ReplicaOf[t] \in Replicas
  BY RedisAssumption DEF Init, Idle
<1>3. ScriptBeforeUse
  BY <1>2, RedisAssumption DEF Init, ScriptBeforeUse
<1>4. QED
  BY <1>1, <1>2, <1>3 DEF Init, IInv, Calling, InitExclusive

LEMMA NextKeeps == IInv /\ [Next]_vars => IInv'
<1> SUFFICES ASSUME IInv, [Next]_vars PROVE IInv'
  OBVIOUS
<1>1. CASE UNCHANGED vars
  BY <1>1, AlignedUnchanged
     DEF vars, local, IInv, Calling, InitExclusive, ScriptBeforeUse
<1>2. ASSUME NEW t \in Tasks, NEW call \in Calls[t], Start(t, call) PROVE IInv'
  BY <1>2, StartKeeps
<1>3. ASSUME NEW t \in Tasks, Step(t) \/ Fail(t) \/ ReplyLost(t) PROVE IInv'
  BY <1>3, GetLockKeeps, WriteDefaultsKeeps, LoadScriptKeeps, CommandKeeps, RemoveWriteKeeps
     DEF Step
<1>4. CASE RedisRestarts
  BY <1>4, RedisRestartsKeeps
<1>5. ASSUME NEW r \in Replicas \cap Mortal, ReplicaRestarts(r) PROVE IInv'
  BY <1>5, ReplicaRestartsKeeps
<1>6. QED
  BY <1>1, <1>2, <1>3, <1>4, <1>5 DEF Next

LEMMA AlwaysIInv == Spec => []IInv
BY InitHolds, NextKeeps, PTL DEF Spec

-----------------------------------------------------------------------------
(* What a coroutine waits with, and what Redis holds. *)

(* Every deposit in the hash h is allowed by F at its node. *)
Within(h, F) == DOMAIN h \subseteq DOMAIN F /\ \A n \in DOMAIN h : h[n] \subseteq F[n]

Anywhere == [n \in Nodes |-> Deposits]

Waits(x) ==
    /\ DOMAIN x = {"pc", "call", "keys", "raw"}
    /\ x.keys \in Seq(Nodes) /\ x.raw \in Seq(SUBSET Deposits)
    /\ x.pc = "evalsha" => x.call.op = "deposit"
    /\ x.pc = "hset" => x.call.op = "add"
    /\ x.pc = "delete" => x.call.op = "remove"

(* A deposit on its way was started. *)
Called(x, made) == (x.pc # "idle" /\ x.call.op = "deposit") => x.call.dep \in made

TInv ==
    /\ Within(hash, Anywhere)
    /\ \A t \in Tasks : Waits(task[t]) /\ Called(task[t], issued)
    /\ acked \subseteq issued /\ issued \subseteq Deposits

(* The list of no replica loses or moves an element. *)
ListsGrow ==
    \A r \in Replicas :
        /\ DOMAIN ids[r] \subseteq DOMAIN ids'[r]
        /\ \A i \in DOMAIN ids[r] : ids'[r][i] = ids[r][i]

LEMMA ListsKeptGrow == UNCHANGED local => ListsGrow
BY DEF local, ListsGrow

LEMMA WaitingWaits ==
    ASSUME NEW pc, NEW call, NEW keys \in Seq(Nodes), NEW raw \in Seq(SUBSET Deposits),
           pc = "evalsha" => call.op = "deposit",
           pc = "hset" => call.op = "add",
           pc = "delete" => call.op = "remove"
    PROVE  LET x == Waiting(pc, call, keys, raw) IN
           Waits(x) /\ x.pc = pc /\ x.call = call /\ x.keys = keys /\ x.raw = raw
BY DEF Waits, Waiting

LEMMA IdleWaits == Waits(Idle) /\ Idle.pc = "idle"
BY DEF Waits, Idle

(* HSET of values that are allowed. *)
LEMMA SetWithin ==
    ASSUME NEW F, NEW v, Within(hash, F), Within(v, F)
    PROVE  Within(HashesSet(v), F)
BY DEF Within, HashesSet

LEMMA HashOfWithin ==
    ASSUME NEW F, Within(hash, F), NEW n \in DOMAIN F PROVE HashOf(n) \subseteq F[n]
BY DEF Within, HashOf

LEMMA BaselinesWithin ==
    ASSUME NEW F, NEW S, S \subseteq DOMAIN F PROVE Within([n \in S |-> {}], F)
BY DEF Within

(* A snapshot's known nodes, in some order. *)
LEMMA SetToSeqElements ==
    ASSUME NEW S, NEW T, IsFiniteSet(S), S \subseteq T PROVE SetToSeq(S) \in Seq(T)
<1>1. Cardinality(S) \in Nat /\ ExistsBijection(1 .. Cardinality(S), S)
  BY FS_CardinalityType
<1>2. \E f \in [1 .. Cardinality(S) -> S] : IsInjective(f)
  BY <1>1 DEF ExistsBijection, Bijection, Injection
<1>3. SetToSeq(S) \in [1 .. Cardinality(S) -> S]
  BY <1>2 DEF SetToSeq
<1>4. QED
  BY <1>1, <1>3

-----------------------------------------------------------------------------
(* Coroutine t comes to wait for a command of its call, or is done. *)
Goes(t, x) ==
    /\ task' = [task EXCEPT ![t] = x]
    /\ Waits(x) /\ Called(x, issued')
    /\ x.pc = "hgetall" => x.keys = ids'[ReplicaOf[t]]
    /\ x.pc # "hsetback"
    /\ ListsGrow

LEMMA FinishGoes ==
    ASSUME NEW t \in Tasks, Finish(t), ListsGrow PROVE Goes(t, Idle)
BY IdleWaits DEF Finish, Goes, Called

LEMMA AwaitGoes ==
    ASSUME NEW t \in Tasks, NEW pc, NEW call, NEW keys \in Seq(Nodes),
           Await(t, pc, call, keys, <<>>), ListsGrow,
           call.op = "deposit" => call.dep \in issued',
           pc = "evalsha" => call.op = "deposit",
           pc = "hset" => call.op = "add",
           pc = "delete" => call.op = "remove",
           pc = "hgetall" => keys = ids'[ReplicaOf[t]],
           pc # "hsetback"
    PROVE  \E x : Goes(t, x)
<1> DEFINE x == Waiting(pc, call, keys, <<>>)
<1>1. <<>> \in Seq(SUBSET Deposits)
  OBVIOUS
<1>2. Waits(x) /\ x.pc = pc /\ x.call = call /\ x.keys = keys
  BY <1>1 DEF Waits, Waiting
<1>3. task' = [task EXCEPT ![t] = x]
  BY DEF Await
<1> HIDE DEF x
<1>4. Goes(t, x)
  BY <1>2, <1>3 DEF Goes, Called
<1>5. QED
  BY <1>4

LEMMA BodyGoes ==
    ASSUME IInv, NEW t \in Tasks, NEW call \in Calls[t], Body(t, call),
           call.op = "deposit" => call.dep \in issued'
    PROVE  \E x : Goes(t, x)
<1> DEFINE r == ReplicaOf[t]
<1>0. /\ r \in Replicas /\ ids[r] \in Seq(Nodes) /\ <<>> \in Seq(Nodes)
      /\ Known(r) \subseteq Nodes
  <2>1. r \in Replicas /\ ids[r] \in Seq(Nodes) /\ Known(r) = ToSet(ids[r])
    BY RedisAssumption DEF IInv, AllAligned, Aligned, Known
  <2>2. QED
    BY <2>1 DEF ToSet
<1>1. CASE DepositBody(t, call)
  BY <1>0, <1>1, FinishGoes, AwaitGoes, ListsKeptGrow DEF DepositBody
<1>2. CASE EvaporateBody(t, call)
  <2>1. Await(t, "hgetall", call, ids[r], <<>>) /\ ids' = ids /\ ListsGrow
    BY <1>2, ListsKeptGrow DEF EvaporateBody, local
  <2>2. QED
    BY <1>0, <2>1, AwaitGoes
<1>3. CASE AddBody(t, call)
  <2>1. CASE call.node \in Known(r)
    BY <2>1, <1>3, FinishGoes, ListsKeptGrow DEF AddBody
  <2>2. CASE call.node \notin Known(r)
    <3>1. /\ ids' = [ids EXCEPT ![r] = Append(ids[r], call.node)]
          /\ Await(t, "hset", call, <<>>, <<>>) /\ call.op = "add"
      BY <2>2, <1>3 DEF AddBody
    <3>2. ListsGrow
      BY <1>0, <3>1 DEF ListsGrow, IInv, AllAligned
    <3>3. QED
      BY <1>0, <3>1, <3>2, AwaitGoes
  <2>3. QED
    BY <2>1, <2>2
<1>4. CASE RemoveBody(t, call)
  BY <1>0, <1>4, AwaitGoes, ListsKeptGrow DEF RemoveBody
<1>5. CASE HydrateBody(t, call)
  <2> DEFINE known == call.nodes \cap Known(r)
  <2>1. known \subseteq Nodes /\ IsFiniteSet(known)
    <3>1. IsFiniteSet(call.nodes)
      BY <1>5, RedisAssumption DEF HydrateBody
    <3>2. QED
      BY <1>0, <3>1, FS_Subset
  <2>2. SetToSeq(known) \in Seq(Nodes)
    BY <2>1, SetToSeqElements
  <2>3. Finish(t) \/ Await(t, "hsetall", call, SetToSeq(known), <<>>)
    BY <1>5 DEF HydrateBody
  <2>4. ListsGrow
    BY <1>5, ListsKeptGrow DEF HydrateBody
  <2>5. QED
    BY <2>2, <2>3, <2>4, FinishGoes, AwaitGoes
<1>6. QED
  BY <1>1, <1>2, <1>3, <1>4, <1>5 DEF Body

LEMMA InsideLockGoes ==
    ASSUME IInv, NEW t \in Tasks, NEW call \in Calls[t], InsideLock(t, call),
           call.op = "deposit" => call.dep \in issued'
    PROVE  \E x : Goes(t, x)
<1>1. ids[ReplicaOf[t]] \in Seq(Nodes)
  BY RedisAssumption DEF IInv, AllAligned
<1>2. QED
  BY <1>1, BodyGoes, AwaitGoes, ListsKeptGrow DEF InsideLock

LEMMA StartGoes ==
    ASSUME IInv, NEW t \in Tasks, NEW call \in Calls[t], Start(t, call)
    PROVE  \E x : Goes(t, x)
<1>1. call.op = "deposit" => call.dep \in issued'
  BY DEF Start
<1>2. EnsureInitialized(t, call) /\ <<>> \in Seq(Nodes)
  BY DEF Start
<1>3. QED
  BY <1>1, <1>2, BodyGoes, InsideLockGoes, AwaitGoes, ListsKeptGrow DEF EnsureInitialized

(* The steps of a coroutine, but for the two that say more. *)
LEMMA StepGoes ==
    ASSUME IInv, TInv, NEW t \in Tasks, Step(t) \/ Fail(t) \/ ReplyLost(t),
           ~ EvaporateRead(t), ~ RemoveWrite(t)
    PROVE  \E x : Goes(t, x)
<1>1. issued' = issued /\ Called(task[t], issued) /\ <<>> \in Seq(Nodes)
  BY DEF TInv, Step, GetLock, WriteDefaults, LoadScript, EvalDeposit, NoScript, EvaporateWrite,
     AddWrite, HydrateWrite, Fail, ReplyLost
<1>2. CASE GetLock(t) \/ LoadScript(t) \/ WriteDefaults(t)
  <2>1. /\ task[t].call \in Calls[t]
        /\ task[t].call.op = "deposit" => task[t].call.dep \in issued'
    BY <1>1, <1>2 DEF IInv, Calling, Called, GetLock, LoadScript, WriteDefaults
  <2>2. CASE GetLock(t)
    BY <2>1, <2>2, InsideLockGoes DEF GetLock
  <2>3. CASE LoadScript(t)
    BY <2>1, <2>3, BodyGoes DEF LoadScript
  <2>4. CASE WriteDefaults(t)
    BY <1>1, <2>1, <2>4, AwaitGoes, ListsKeptGrow DEF WriteDefaults
  <2>5. QED
    BY <1>2, <2>2, <2>3, <2>4
<1>3. CASE ~ (GetLock(t) \/ LoadScript(t) \/ WriteDefaults(t))
  <2>1. Finish(t) /\ UNCHANGED local
    BY <1>3 DEF Step, EvalDeposit, NoScript, EvaporateWrite, AddWrite, HydrateWrite, Fail,
       ReplyLost
  <2>2. QED
    BY <2>1, FinishGoes, ListsKeptGrow
<1>4. QED
  BY <1>2, <1>3

(* The replies of the pipeline, by the list it was built from. *)
LEMMA ReadGoes ==
    ASSUME IInv, TInv, NEW t \in Tasks, EvaporateRead(t)
    PROVE  LET keys == ids[ReplicaOf[t]]
               raw == [i \in DOMAIN task[t].keys |-> HashOf(task[t].keys[i])]
               x == Waiting("hsetback", task[t].call, keys, raw) IN
           /\ task' = [task EXCEPT ![t] = x] /\ Waits(x) /\ Called(x, issued')
           /\ x.pc = "hsetback" /\ x.keys = keys /\ x.raw = raw
<1> DEFINE keys == ids[ReplicaOf[t]]
           raw == [i \in DOMAIN task[t].keys |-> HashOf(task[t].keys[i])]
           x == Waiting("hsetback", task[t].call, keys, raw)
<1>1. /\ keys \in Seq(Nodes) /\ task[t].keys \in Seq(Nodes)
      /\ task[t].pc = "hgetall" /\ Called(task[t], issued)
  BY RedisAssumption DEF IInv, AllAligned, TInv, Waits, EvaporateRead
<1>2. \A n \in Nodes : HashOf(n) \subseteq Deposits
  BY HashOfWithin DEF TInv, Anywhere
<1>3. raw \in Seq(SUBSET Deposits)
  <2>1. /\ DOMAIN task[t].keys = 1 .. Len(task[t].keys) /\ Len(task[t].keys) \in Nat
        /\ \A i \in DOMAIN task[t].keys : task[t].keys[i] \in Nodes
    BY <1>1
  <2>2. raw \in [1 .. Len(task[t].keys) -> SUBSET Deposits]
    BY <2>1, <1>2
  <2>3. QED
    BY <2>1, <2>2
<1>4. task' = [task EXCEPT ![t] = x] /\ issued' = issued
  BY DEF EvaporateRead, Await
<1> HIDE DEF keys, raw
<1>5. Waits(x) /\ x.pc = "hsetback" /\ x.call = task[t].call /\ x.keys = keys /\ x.raw = raw
  BY <1>1, <1>3, WaitingWaits
<1> HIDE DEF x
<1>6. Called(x, issued')
  BY <1>1, <1>4, <1>5 DEF Called
<1>7. QED
  BY <1>4, <1>5, <1>6 DEF x, keys, raw

-----------------------------------------------------------------------------
(* What Redis holds stays allowed by F: Anywhere, or the node's own deposits *)
(* as long as what evaporation carries belongs to the node it is written to. *)
Carried(F) ==
    \A t \in Tasks :
        /\ task[t].pc = "evalsha" => task[t].call.dep \in F[task[t].call.node]
        /\ task[t].pc = "hsetback" =>
              \A i \in DOMAIN task[t].keys \cap DOMAIN task[t].raw :
                  task[t].raw[i] \subseteq F[task[t].keys[i]]

LEMMA HashStaysWithin ==
    ASSUME IInv, TInv, [Next]_vars, NEW F, DOMAIN F = Nodes, Within(hash, F), Carried(F)
    PROVE  Within(hash', F)
<1>1. ASSUME NEW S, S \subseteq Nodes, hash' = HashesSet([n \in S |-> {}])
      PROVE  Within(hash', F)
  BY <1>1, SetWithin, BaselinesWithin
<1>2. ASSUME NEW t \in Tasks
      PROVE  ToSet(task[t].keys) \subseteq Nodes /\ Waits(task[t])
  <2>1. Waits(task[t])
    BY DEF TInv
  <2>2. QED
    BY <2>1 DEF Waits, ToSet
<1>3. ASSUME NEW t \in Tasks, SetBaselines(ToSet(task[t].keys)) PROVE Within(hash', F)
  BY <1>1, <1>2, <1>3 DEF SetBaselines
<1>4. ASSUME NEW t \in Tasks, task[t].pc = "hset", SetBaselines({task[t].call.node})
      PROVE  Within(hash', F)
  <2>1. task[t].call.op = "add" /\ task[t].call \in Calls[t]
    BY <1>2, <1>4 DEF Waits, IInv, Calling
  <2>2. {task[t].call.node} \subseteq Nodes
    BY <2>1, RedisAssumption
  <2>3. QED
    BY <1>1, <1>4, <2>2 DEF SetBaselines
<1>5. ASSUME NEW t \in Tasks, task[t].pc = "evalsha", StoreDeposit(task[t].call)
      PROVE  Within(hash', F)
  <2> DEFINE c == task[t].call
             v == [n \in {c.node} |-> HashOf(n) \cup {c.dep}]
  <2>1. c.op = "deposit" /\ c \in Calls[t] /\ c.dep \in F[c.node]
    BY <1>2, <1>5 DEF Waits, IInv, Calling, Carried
  <2>2. c.node \in Nodes
    BY <2>1, RedisAssumption
  <2>3. HashOf(c.node) \subseteq F[c.node]
    BY <2>2, HashOfWithin
  <2>4. Within(v, F)
    BY <2>1, <2>2, <2>3 DEF Within
  <2>5. hash' = HashesSet(v)
    BY <1>5 DEF StoreDeposit
  <2>6. QED
    BY <2>4, <2>5, SetWithin
<1>6. ASSUME NEW t \in Tasks, task[t].pc = "hsetback", WriteBack(task[t].keys, task[t].raw)
      PROVE  Within(hash', F)
  <2> DEFINE keys == task[t].keys
             raw == task[t].raw
             paired == DOMAIN keys \cap DOMAIN raw
             S == {keys[i] : i \in paired}
             v == [n \in S |-> raw[CHOOSE i \in paired : keys[i] = n]]
  <2>1. \A i \in paired : raw[i] \subseteq F[keys[i]] /\ keys[i] \in Nodes
    BY <1>2, <1>6 DEF Carried, Waits
  <2>2. ASSUME NEW n \in S PROVE v[n] \subseteq F[n] /\ n \in Nodes
    <3>1. PICK i \in paired : i = (CHOOSE j \in paired : keys[j] = n) /\ keys[i] = n
      OBVIOUS
    <3>2. QED
      BY <2>1, <3>1
  <2>3. Within(v, F)
    BY <2>2 DEF Within
  <2>4. hash' = HashesSet(v)
    BY <1>6 DEF WriteBack
  <2>5. QED
    BY <2>3, <2>4, SetWithin
<1>7. ASSUME NEW n, DeleteKey(n) PROVE Within(hash', F)
  BY <1>7 DEF DeleteKey, Within
<1>8. CASE RedisRestarts
  BY <1>8 DEF RedisRestarts, Within
<1>9. ASSUME UNCHANGED hash PROVE Within(hash', F)
  BY <1>9
<1>10. ASSUME NEW t \in Tasks, ReplyLost(t) PROVE Within(hash', F)
  BY <1>3, <1>4, <1>5, <1>6, <1>7, <1>9, <1>10 DEF ReplyLost
<1>11. ASSUME NEW t \in Tasks, Step(t) \/ Fail(t) \/ \E call \in Calls[t] : Start(t, call)
       PROVE  Within(hash', F)
  BY <1>3, <1>4, <1>5, <1>6, <1>7, <1>9, <1>11
     DEF Step, Fail, Start, GetLock, WriteDefaults, LoadScript, EvalDeposit, NoScript,
         EvaporateRead, EvaporateWrite, AddWrite, RemoveWrite, HydrateWrite
<1>12. QED
  BY <1>8, <1>9, <1>10, <1>11 DEF Next, ReplicaRestarts, vars

LEMMA TasksStayTyped ==
    ASSUME IInv, TInv, [Next]_vars
    PROVE  \A u \in Tasks : Waits(task'[u]) /\ Called(task'[u], issued')
<1>0. /\ task = [t \in Tasks |-> task[t]] /\ issued \subseteq issued'
      /\ \A u \in Tasks : Waits(task[u]) /\ Called(task[u], issued)
      /\ Waits(Idle) /\ Called(Idle, issued')
  <2>1. issued \subseteq issued'
    BY DEF Next, vars, Start, Step, GetLock, WriteDefaults, LoadScript, EvalDeposit, NoScript,
       EvaporateRead, EvaporateWrite, AddWrite, RemoveWrite, HydrateWrite, Fail, ReplyLost,
       RedisRestarts, ReplicaRestarts
  <2>2. QED
    BY <2>1, IdleWaits DEF IInv, TInv, Called
<1>1. \A u \in Tasks : Called(task[u], issued')
  BY <1>0 DEF Called
<1>2. ASSUME NEW t \in Tasks, NEW x, task' = [task EXCEPT ![t] = x], Waits(x), Called(x, issued')
      PROVE  \A u \in Tasks : Waits(task'[u]) /\ Called(task'[u], issued')
  BY <1>0, <1>1, <1>2
<1>3. ASSUME NEW t \in Tasks,
             Step(t) \/ Fail(t) \/ ReplyLost(t) \/ \E call \in Calls[t] : Start(t, call)
      PROVE  \E x : task' = [task EXCEPT ![t] = x] /\ Waits(x) /\ Called(x, issued')
  <2>1. CASE EvaporateRead(t)
    BY <2>1, ReadGoes, Zenon
  <2>2. CASE RemoveWrite(t)
    BY <2>2, <1>0 DEF RemoveWrite, Finish
  <2>3. CASE \E call \in Calls[t] : Start(t, call)
    BY <2>3, StartGoes DEF Goes
  <2>4. CASE /\ Step(t) \/ Fail(t) \/ ReplyLost(t)
             /\ ~ EvaporateRead(t) /\ ~ RemoveWrite(t)
    BY <2>4, StepGoes DEF Goes
  <2>5. QED
    BY <1>3, <2>1, <2>2, <2>3, <2>4
<1>4. CASE \E r \in Replicas : ReplicaRestarts(r)
  <2>1. \A u \in Tasks : task'[u] = Idle \/ task'[u] = task[u]
    BY <1>4 DEF ReplicaRestarts
  <2>2. QED
    BY <2>1, <1>0, <1>1
<1>5. CASE UNCHANGED task
  BY <1>0, <1>1, <1>5
<1>6. QED
  BY <1>2, <1>3, <1>4, <1>5 DEF Next, RedisRestarts, vars

LEMMA TInvKeeps == IInv /\ TInv /\ [Next]_vars => TInv'
<1> SUFFICES ASSUME IInv, TInv, [Next]_vars PROVE TInv'
  OBVIOUS
<1>1. Within(hash', Anywhere)
  <2>1. Carried(Anywhere)
    <3>1. ASSUME NEW t \in Tasks, task[t].pc = "evalsha"
          PROVE  task[t].call.dep \in Anywhere[task[t].call.node]
      <4>1. task[t].call.op = "deposit" /\ task[t].call \in Calls[t]
        BY <3>1 DEF TInv, Waits, IInv, Calling
      <4>2. QED
        BY <4>1, RedisAssumption DEF Anywhere
    <3>2. ASSUME NEW t \in Tasks, NEW i \in DOMAIN task[t].keys \cap DOMAIN task[t].raw
          PROVE  task[t].raw[i] \subseteq Anywhere[task[t].keys[i]]
      BY DEF TInv, Waits, Anywhere
    <3>3. QED
      BY <3>1, <3>2 DEF Carried
  <2>2. QED
    BY <2>1, HashStaysWithin DEF TInv, Anywhere
<1>2. \A u \in Tasks : Waits(task'[u]) /\ Called(task'[u], issued')
  BY TasksStayTyped
<1>3. acked' \subseteq issued' /\ issued' \subseteq Deposits
  <2>1. acked \subseteq issued /\ issued \subseteq Deposits
    BY DEF TInv
  <2>2. ASSUME NEW t \in Tasks, NEW call \in Calls[t], Start(t, call)
        PROVE  acked' \subseteq issued' /\ issued' \subseteq Deposits
    BY <2>1, <2>2, RedisAssumption DEF Start
  <2>3. ASSUME NEW t \in Tasks, EvalDeposit(t)
        PROVE  acked' \subseteq issued' /\ issued' \subseteq Deposits
    <3>1. task[t].call.dep \in issued
      BY <2>3 DEF EvalDeposit, TInv, Waits, Called
    <3>2. QED
      BY <2>1, <2>3, <3>1 DEF EvalDeposit
  <2>4. ASSUME UNCHANGED <<issued, acked>>
        PROVE  acked' \subseteq issued' /\ issued' \subseteq Deposits
    BY <2>1, <2>4
  <2>5. QED
    BY <2>2, <2>3, <2>4
       DEF Next, vars, Step, GetLock, WriteDefaults, LoadScript, NoScript, EvaporateRead,
           EvaporateWrite, AddWrite, RemoveWrite, HydrateWrite, Fail, ReplyLost,
           RedisRestarts, ReplicaRestarts
<1>4. QED
  BY <1>1, <1>2, <1>3 DEF TInv

LEMMA InitWithin ==
    ASSUME Init, NEW F, DOMAIN F = Nodes PROVE Within(hash, F)
BY RedisAssumption DEF Init, Within, ToSet

LEMMA AlwaysTInv == Spec => [](IInv /\ TInv)
<1>1. Init => TInv
  <2> SUFFICES ASSUME Init PROVE TInv
    OBVIOUS
  <2>1. Within(hash, Anywhere)
    BY InitWithin DEF Anywhere
  <2>2. \A t \in Tasks : task[t] = Idle
    BY DEF Init
  <2>3. QED
    BY <2>1, <2>2, IdleWaits DEF Init, TInv, Called
<1>2. QED
  BY <1>1, InitHolds, NextKeeps, TInvKeeps, PTL DEF Spec

-----------------------------------------------------------------------------
(* Without removals a deposit stays with its node. *)
Home == [n \in Nodes |-> MadeTo(n)]

HInv ==
    /\ Within(hash, Home)
    /\ \A t \in Tasks :
          /\ task[t].pc = "hgetall" =>
                LET s == task[t].keys  u == ids[ReplicaOf[t]] IN
                DOMAIN s \subseteq DOMAIN u /\ \A i \in DOMAIN s : s[i] = u[i]
          /\ task[t].pc = "hsetback" =>
                \A i \in DOMAIN task[t].keys \cap DOMAIN task[t].raw :
                    task[t].raw[i] \subseteq Home[task[t].keys[i]]

LEMMA HInvHoldsAtFirst == Init => HInv
<1> SUFFICES ASSUME Init PROVE HInv
  OBVIOUS
<1>1. Within(hash, Home)
  BY InitWithin DEF Home
<1>2. \A t \in Tasks : task[t].pc = "idle"
  BY DEF Init, Idle
<1>3. QED
  BY <1>1, <1>2 DEF HInv

LEMMA HomeCarried == ASSUME IInv, TInv, HInv PROVE Carried(Home)
<1>1. ASSUME NEW t \in Tasks, task[t].pc = "evalsha"
      PROVE  task[t].call.dep \in Home[task[t].call.node]
  <2>1. task[t].call.op = "deposit" /\ task[t].call \in Calls[t]
    BY <1>1 DEF TInv, Waits, IInv, Calling
  <2>2. task[t].call.node \in Nodes
    BY <2>1, RedisAssumption
  <2>3. QED
    BY <2>1, <2>2 DEF Home, MadeTo
<1>2. QED
  BY <1>1 DEF HInv, Carried

LEMMA HInvKeeps == IInv /\ TInv /\ HInv /\ NoRemoval /\ [Next]_vars => HInv'
<1> SUFFICES ASSUME IInv, TInv, HInv, NoRemoval, [Next]_vars PROVE HInv'
  OBVIOUS
<1> DEFINE Prefix(s, u) == DOMAIN s \subseteq DOMAIN u /\ \A i \in DOMAIN s : s[i] = u[i]
           Paired(x) == \A i \in DOMAIN x.keys \cap DOMAIN x.raw :
                            x.raw[i] \subseteq Home[x.keys[i]]
           Ok(x, u) == /\ x.pc = "hgetall" => Prefix(x.keys, u)
                       /\ x.pc = "hsetback" => Paired(x)
<1>0. /\ task = [t \in Tasks |-> task[t]]
      /\ \A u \in Tasks : Ok(task[u], ids[ReplicaOf[u]]) /\ ReplicaOf[u] \in Replicas
  BY RedisAssumption DEF IInv, HInv
<1>1. Within(hash', Home)
  BY HomeCarried, HashStaysWithin DEF HInv, Home
<1>2. ASSUME NEW t \in Tasks, NEW x, task' = [task EXCEPT ![t] = x], ListsGrow,
             Ok(x, ids'[ReplicaOf[t]])
      PROVE  \A u \in Tasks : Ok(task'[u], ids'[ReplicaOf[u]])
  <2>1. ASSUME NEW u \in Tasks, u # t PROVE Ok(task'[u], ids'[ReplicaOf[u]])
    <3>1. task'[u] = task[u]
      BY <1>0, <1>2, <2>1
    <3>2. Ok(task[u], ids[ReplicaOf[u]]) /\ ReplicaOf[u] \in Replicas
      BY <1>0
    <3>3. Prefix(task[u].keys, ids[ReplicaOf[u]]) => Prefix(task[u].keys, ids'[ReplicaOf[u]])
      BY <1>2, <3>2 DEF ListsGrow
    <3>4. QED
      BY <3>1, <3>2, <3>3
  <2>2. task'[t] = x
    BY <1>0, <1>2
  <2>3. QED
    BY <1>2, <2>1, <2>2
<1>3. ASSUME NEW t \in Tasks, NEW x, Goes(t, x)
      PROVE  \A u \in Tasks : Ok(task'[u], ids'[ReplicaOf[u]])
  <2>1. Ok(x, ids'[ReplicaOf[t]]) /\ task' = [task EXCEPT ![t] = x] /\ ListsGrow
    BY <1>3 DEF Goes
  <2>2. QED
    BY <1>2, <2>1
<1>4. ASSUME NEW t \in Tasks, EvaporateRead(t)
      PROVE  \A u \in Tasks : Ok(task'[u], ids'[ReplicaOf[u]])
  <2> DEFINE keys == ids[ReplicaOf[t]]
             raw == [i \in DOMAIN task[t].keys |-> HashOf(task[t].keys[i])]
             x == Waiting("hsetback", task[t].call, keys, raw)
  <2>1. /\ task' = [task EXCEPT ![t] = x] /\ x.pc = "hsetback"
        /\ x.keys = keys /\ x.raw = raw
    BY <1>4, ReadGoes
  <2>2. Prefix(task[t].keys, keys) /\ keys \in Seq(Nodes)
    BY <1>0, <1>4 DEF EvaporateRead, IInv, AllAligned
  <2>3. ASSUME NEW i \in DOMAIN keys \cap DOMAIN raw PROVE raw[i] \subseteq Home[keys[i]]
    <3>1. keys[i] \in Nodes /\ raw[i] = HashOf(keys[i])
      BY <2>2
    <3>2. HashOf(keys[i]) \subseteq Home[keys[i]]
      BY <3>1, HashOfWithin DEF HInv, Home
    <3>3. QED
      BY <3>1, <3>2
  <2>4. ListsGrow
    BY <1>4, ListsKeptGrow DEF EvaporateRead
  <2> HIDE DEF keys, raw, x
  <2>5. Ok(x, ids'[ReplicaOf[t]])
    BY <2>1, <2>3
  <2>6. QED
    BY <1>2, <2>1, <2>4, <2>5
<1>5. ASSUME NEW t \in Tasks, RemoveWrite(t) PROVE FALSE
  BY <1>5 DEF RemoveWrite, TInv, Waits, NoRemoval
<1>6. ASSUME NEW t \in Tasks,
             Step(t) \/ Fail(t) \/ ReplyLost(t) \/ \E call \in Calls[t] : Start(t, call)
      PROVE  \A u \in Tasks : Ok(task'[u], ids'[ReplicaOf[u]])
  <2>1. CASE EvaporateRead(t)
    BY <2>1, <1>4
  <2>2. CASE \E call \in Calls[t] : Start(t, call)
    BY <2>2, <1>3, StartGoes
  <2>3. CASE (Step(t) \/ Fail(t) \/ ReplyLost(t)) /\ ~ EvaporateRead(t)
    <3>1. \E x : Goes(t, x)
      BY <2>3, <1>5, StepGoes
    <3>2. QED
      BY <3>1, <1>3
  <2>4. QED
    BY <1>6, <2>1, <2>2, <2>3
<1>7. ASSUME NEW r \in Replicas, ReplicaRestarts(r)
      PROVE  \A u \in Tasks : Ok(task'[u], ids'[ReplicaOf[u]])
  <2>1. ASSUME NEW u \in Tasks PROVE Ok(task'[u], ids'[ReplicaOf[u]])
    <3>1. CASE ReplicaOf[u] = r
      BY <1>7, <3>1 DEF ReplicaRestarts, Idle
    <3>2. CASE ReplicaOf[u] # r
      <4>1. task'[u] = task[u] /\ ids'[ReplicaOf[u]] = ids[ReplicaOf[u]]
        BY <1>0, <1>7, <3>2 DEF ReplicaRestarts, IInv, AllAligned
      <4>2. QED
        BY <4>1, <1>0
    <3>3. QED
      BY <3>1, <3>2
  <2>2. QED
    BY <2>1
<1>8. ASSUME task' = task, ids' = ids
      PROVE  \A u \in Tasks : Ok(task'[u], ids'[ReplicaOf[u]])
  <2>1. ASSUME NEW u \in Tasks PROVE Ok(task'[u], ids'[ReplicaOf[u]])
    <3>1. Ok(task[u], ids[ReplicaOf[u]])
      BY <1>0
    <3> HIDE DEF Ok
    <3>2. QED
      BY <1>8, <3>1
  <2>2. QED
    BY <2>1
<1>9. \A u \in Tasks : Ok(task'[u], ids'[ReplicaOf[u]])
  <2> HIDE DEF Ok
  <2>1. QED
    BY <1>6, <1>7, <1>8 DEF Next, RedisRestarts, vars, local
<1>10. QED
  BY <1>1, <1>9 DEF HInv

-----------------------------------------------------------------------------
(* A stored deposit is in the reply of every HGETALL from then on, and so in *)
(* what the evaporations carry once those that read earlier have written.    *)
CarriedBack(c) ==
    \A t \in Tasks :
        task[t].pc = "hsetback" =>
            \A i \in DOMAIN task[t].keys \cap DOMAIN task[t].raw :
                task[t].keys[i] = c.node => c.dep \in task[t].raw[i]

Kept(c) == Stored(c) /\ CarriedBack(c)

(* A write of values that leave the node out or contain the deposit. *)
LEMMA SetKeepsStored ==
    ASSUME NEW c, Stored(c), NEW v, hash' = HashesSet(v),
           c.node \in DOMAIN v => c.dep \in v[c.node]
    PROVE  Stored(c)'
BY DEF Stored, HashOf, HashesSet

LEMMA StoredStays ==
    ASSUME IInv, TInv, NoRemoval, [Next]_vars,
           NEW c \in DepositCalls, Kept(c), Untouched(c.node), Untouched(c.node)'
    PROVE  Stored(c)'
<1>1. ASSUME NEW S, SetBaselines(S), c.node \notin S PROVE Stored(c)'
  BY <1>1, SetKeepsStored DEF SetBaselines, Kept
<1>2. ASSUME NEW t \in Tasks, task[t].pc \in {"boot", "hsetall"},
             SetBaselines(ToSet(task[t].keys))
      PROVE  Stored(c)'
  BY <1>1, <1>2 DEF Untouched
<1>3. ASSUME NEW t \in Tasks, task[t].pc = "hset", SetBaselines({task[t].call.node})
      PROVE  Stored(c)'
  BY <1>1, <1>3 DEF Untouched
<1>4. ASSUME NEW d, StoreDeposit(d) PROVE Stored(c)'
  <2> DEFINE v == [n \in {d.node} |-> HashOf(n) \cup {d.dep}]
  <2>1. hash' = HashesSet(v)
    BY <1>4 DEF StoreDeposit
  <2>2. c.node \in DOMAIN v => c.dep \in v[c.node]
    BY DEF Kept, Stored
  <2>3. QED
    BY <2>1, <2>2, SetKeepsStored DEF Kept
<1>5. ASSUME NEW t \in Tasks, task[t].pc = "hsetback", WriteBack(task[t].keys, task[t].raw)
      PROVE  Stored(c)'
  <2> DEFINE keys == task[t].keys
             raw == task[t].raw
             paired == DOMAIN keys \cap DOMAIN raw
             v == [n \in {keys[i] : i \in paired} |-> raw[CHOOSE i \in paired : keys[i] = n]]
  <2>1. \A i \in paired : keys[i] = c.node => c.dep \in raw[i]
    BY <1>5 DEF Kept, CarriedBack
  <2>2. ASSUME c.node \in DOMAIN v PROVE c.dep \in v[c.node]
    <3>1. PICK i \in paired : i = (CHOOSE j \in paired : keys[j] = c.node) /\ keys[i] = c.node
      BY <2>2
    <3>2. QED
      BY <2>1, <2>2, <3>1
  <2>3. hash' = HashesSet(v)
    BY <1>5 DEF WriteBack
  <2>4. QED
    BY <2>2, <2>3, SetKeepsStored DEF Kept
<1>6. ASSUME NEW t \in Tasks PROVE task[t].pc # "delete"
  BY DEF TInv, Waits, NoRemoval
<1>7. ASSUME hash' = hash PROVE Stored(c)'
  BY <1>7 DEF Kept, Stored, HashOf
<1>8. CASE RedisRestarts
  BY <1>7, <1>8 DEF RedisRestarts, Untouched
<1>9. ASSUME NEW t \in Tasks, ReplyLost(t) PROVE Stored(c)'
  BY <1>2, <1>3, <1>4, <1>5, <1>6, <1>7, <1>9 DEF ReplyLost
<1>10. ASSUME NEW t \in Tasks, Step(t) \/ Fail(t) \/ \E call \in Calls[t] : Start(t, call)
       PROVE  Stored(c)'
  BY <1>2, <1>3, <1>4, <1>5, <1>6, <1>7, <1>10
     DEF Step, Fail, Start, GetLock, WriteDefaults, LoadScript, EvalDeposit, NoScript,
         EvaporateRead, EvaporateWrite, AddWrite, RemoveWrite, HydrateWrite
<1>11. QED
  BY <1>7, <1>8, <1>9, <1>10 DEF Next, ReplicaRestarts, vars

LEMMA CarriedBackStays ==
    ASSUME IInv, TInv, HInv, NoRemoval, [Next]_vars, NEW c \in DepositCalls, Kept(c)
    PROVE  CarriedBack(c)'
<1> DEFINE Carries(x) == x.pc = "hsetback" =>
                            \A i \in DOMAIN x.keys \cap DOMAIN x.raw :
                                x.keys[i] = c.node => c.dep \in x.raw[i]
<1>0. /\ \A u \in Tasks : Carries(task[u])
      /\ task = [u \in Tasks |-> task[u]]
  BY DEF Kept, CarriedBack, IInv
<1>1. ASSUME NEW t \in Tasks, NEW x, task' = [task EXCEPT ![t] = x], Carries(x)
      PROVE  \A u \in Tasks : Carries(task'[u])
  <2>1. \A u \in Tasks : task'[u] = x \/ task'[u] = task[u]
    BY <1>0, <1>1
  <2> HIDE DEF Carries
  <2>2. QED
    BY <1>0, <1>1, <2>1
<1>2. ASSUME NEW t \in Tasks, EvaporateRead(t) PROVE \A u \in Tasks : Carries(task'[u])
  <2> DEFINE keys == ids[ReplicaOf[t]]
             raw == [i \in DOMAIN task[t].keys |-> HashOf(task[t].keys[i])]
             x == Waiting("hsetback", task[t].call, keys, raw)
  <2>1. task' = [task EXCEPT ![t] = x] /\ x.keys = keys /\ x.raw = raw
    BY <1>2, ReadGoes
  <2>2. \A i \in DOMAIN task[t].keys : task[t].keys[i] = keys[i]
    BY <1>2 DEF EvaporateRead, HInv
  <2>3. \A i \in DOMAIN keys \cap DOMAIN raw : keys[i] = c.node => c.dep \in raw[i]
    BY <2>2 DEF Kept, Stored
  <2> HIDE DEF keys, raw, x
  <2>4. Carries(x)
    BY <2>1, <2>3
  <2>5. QED
    BY <1>1, <2>1, <2>4
<1>3. ASSUME NEW t \in Tasks, NEW x, Goes(t, x) PROVE \A u \in Tasks : Carries(task'[u])
  <2>1. task' = [task EXCEPT ![t] = x] /\ Carries(x)
    BY <1>3 DEF Goes
  <2>2. QED
    BY <1>1, <2>1
<1>4. ASSUME NEW t \in Tasks, RemoveWrite(t) PROVE FALSE
  BY <1>4 DEF RemoveWrite, TInv, Waits, NoRemoval
<1>5. ASSUME NEW t \in Tasks,
             Step(t) \/ Fail(t) \/ ReplyLost(t) \/ \E call \in Calls[t] : Start(t, call)
      PROVE  \A u \in Tasks : Carries(task'[u])
  <2>1. CASE EvaporateRead(t)
    BY <2>1, <1>2
  <2>2. CASE \E call \in Calls[t] : Start(t, call)
    BY <2>2, <1>3, StartGoes
  <2>3. CASE (Step(t) \/ Fail(t) \/ ReplyLost(t)) /\ ~ EvaporateRead(t)
    <3>1. \E x : Goes(t, x)
      BY <2>3, <1>4, StepGoes
    <3>2. QED
      BY <3>1, <1>3
  <2>4. QED
    BY <1>5, <2>1, <2>2, <2>3
<1>6. ASSUME NEW r, ReplicaRestarts(r) PROVE \A u \in Tasks : Carries(task'[u])
  <2>1. \A u \in Tasks : task'[u] = Idle \/ task'[u] = task[u]
    BY <1>6 DEF ReplicaRestarts
  <2>2. Carries(Idle)
    BY DEF Idle
  <2> HIDE DEF Carries
  <2>3. QED
    BY <1>0, <2>1, <2>2
<1>7. ASSUME task' = task PROVE \A u \in Tasks : Carries(task'[u])
  <2> HIDE DEF Carries
  <2>1. QED
    BY <1>0, <1>7
<1>8. \A u \in Tasks : Carries(task'[u])
  <2> HIDE DEF Carries
  <2>1. QED
    BY <1>5, <1>6, <1>7 DEF Next, RedisRestarts, vars
<1>9. QED
  BY <1>8 DEF CarriedBack

-----------------------------------------------------------------------------
(* Whatever the calls, their interleaving, the failures and the restarts,    *)
(* _node_index stays the inverse of node_ids in every replica.               *)
THEOREM ListsStayAligned == Spec => []LocalAligned
<1>1. IInv => LocalAligned
  BY DEF IInv, AllAligned, Aligned, LocalAligned, Known
<1>2. QED
  BY <1>1, AlwaysIInv, PTL

(* _ensure_initialized, for any number of coroutines: one of them writes the *)
(* baselines of a replica, and none once the replica is initialised.         *)
THEOREM FirstUseIsExclusive == Spec => []InitExclusive
<1>1. IInv => InitExclusive
  BY DEF IInv
<1>2. QED
  BY <1>1, AlwaysIInv, PTL

(* No deposit of any replica, restarted or not, calls a script that nobody   *)
(* ever loaded.                                                              *)
THEOREM ScriptIsLoaded == Spec => []ScriptBeforeUse
<1>1. IInv => ScriptBeforeUse
  BY DEF IInv
<1>2. QED
  BY <1>1, AlwaysIInv, PTL

(* Every variable keeps its shape, and Redis never holds a key of a node     *)
(* that no replica was told of, whatever a snapshot names.                   *)
THEOREM TypeCorrect == Spec => []TypeOK
<1>1. IInv /\ TInv => TypeOK
  BY DEF IInv, TInv, Within, Anywhere, Waits, AllAligned, TypeOK
<1>2. QED
  BY <1>1, AlwaysTInv, PTL

(* As long as no node is removed, evaporation, whose read and write another  *)
(* coroutine may separate by additions, a failure or a restart, never writes *)
(* a deposit to a node it was not made to.                                   *)
THEOREM TracesHold == Spec => TracesStayHome
<1>1. Init => HInv
  BY HInvHoldsAtFirst
<1>2. HInv => \A n \in DOMAIN hash : hash[n] \subseteq MadeTo(n)
  BY DEF HInv, Within, Home
<1>3. QED
  BY <1>1, <1>2, AlwaysTInv, HInvKeeps, PTL DEF Spec, TracesStayHome

(* A deposit in Redis outlives the evaporations of every replica, except     *)
(* those that had read before it was stored, for any number of coroutines,   *)
(* deposits and nodes, and though commands fail, replies are lost and        *)
(* processes restart.                                                        *)
THEOREM SettledHold == Spec => SettledDepositsStay
<1> SUFFICES ASSUME NEW call \in DepositCalls
             PROVE  Spec => ([]NoRemoval
                      => []((Settled(call) /\ []Untouched(call.node)) => []Stored(call)))
  BY DEF SettledDepositsStay
<1> DEFINE Before == IInv /\ TInv /\ HInv /\ Kept(call)
           Free == Untouched(call.node)
           At == Settled(call)
           In == Stored(call)
<1>1. HInv /\ IInv /\ TInv /\ At => Before
  BY DEF Kept, CarriedBack, Settled
<1>2. /\ Before /\ NoRemoval /\ IInv' /\ TInv' /\ HInv' /\ Free /\ Free' /\ [Next]_vars
      => Before'
  BY StoredStays, CarriedBackStays DEF Kept
<1>3. Before => In
  BY DEF Kept
<1>4. Init => HInv
  BY HInvHoldsAtFirst
<1> HIDE DEF Before, Free, At, In
<1>5. Spec => ([]NoRemoval => []((At /\ []Free) => []In))
  BY <1>1, <1>2, <1>3, <1>4, AlwaysTInv, HInvKeeps, PTL DEF Spec
<1>6. QED
  BY <1>5 DEF At, Free, In
=============================================================================
