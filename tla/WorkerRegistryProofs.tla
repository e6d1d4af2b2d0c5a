------------------------ MODULE WorkerRegistryProofs ------------------------
(***************************************************************************)
(* The registry for any workers, clients, TTL and number of prune loops.   *)
(* A pass drops a worker two awaits after it took its list and one after   *)
(* it saw that the key was gone: what it acts on is stale, but it was true *)
(* once, and that is what is proved.  The constants that FieldLemmas takes *)
(* from Traces play no part.                                               *)
(***************************************************************************)
EXTENDS WorkerRegistry, FieldLemmas

(* The workers whose key somebody has set: the dictionary holds them, and    *)
(* the passes under way that took their list from it.                       *)
Met == Known \cup UNION {ToSet(loop[l].todo) : l \in Loops}

(* One of them has no key only if it let it run out. *)
MetKeysRunOut == \A w \in Met : Absent(w) => w \in late

(* So has the worker a loop is about to drop. *)
CondemnedAreLate ==
    \A l \in Loops : loop[l].pc = "deposit" => Head(loop[l].todo) \in late

IInv == TypeOK /\ MetKeysRunOut /\ CondemnedAreLate

-----------------------------------------------------------------------------
(* Sequences. *)
LEMMA HeadTail ==
    ASSUME NEW S, NEW s \in Seq(S), s # <<>>
    PROVE  /\ Head(s) \in ToSet(s) /\ Head(s) \in S
           /\ Tail(s) \in Seq(S) /\ ToSet(Tail(s)) \subseteq ToSet(s)
<1>1. Len(s) \in Nat \ {0} /\ DOMAIN s = 1 .. Len(s)
  OBVIOUS
<1>2. Head(s) = s[1] /\ 1 \in DOMAIN s
  BY <1>1
<1>3. /\ Tail(s) \in Seq(S) /\ DOMAIN Tail(s) = 1 .. Len(s) - 1
      /\ \A i \in 1 .. Len(s) - 1 : Tail(s)[i] = s[i + 1] /\ i + 1 \in DOMAIN s
  BY <1>1
<1>4. QED
  BY <1>2, <1>3 DEF ToSet

LEMMA AppendElements ==
    ASSUME NEW S, NEW s \in Seq(S), NEW e \in S
    PROVE  /\ Append(s, e) \in Seq(S)
           /\ ToSet(Append(s, e)) = ToSet(s) \cup {e}
           /\ (IsInjective(s) /\ e \notin ToSet(s)) => IsInjective(Append(s, e))
<1> DEFINE u == Append(s, e)
<1>1. /\ u \in Seq(S) /\ DOMAIN u = DOMAIN s \cup {Len(s) + 1} /\ Len(s) + 1 \notin DOMAIN s
      /\ u[Len(s) + 1] = e /\ \A i \in DOMAIN s : u[i] = s[i]
  OBVIOUS
<1> HIDE DEF u
<1>2. QED
  BY <1>1 DEF ToSet, IsInjective, u

(* del self._known_nodes[w]: what is left is the rest, in its order. *)
LEMMA RemoveFirstElements ==
    ASSUME NEW S, NEW s \in Seq(S), IsInjective(s), NEW e \in ToSet(s)
    PROVE  /\ RemoveFirst(s, e) \in Seq(S) /\ IsInjective(RemoveFirst(s, e))
           /\ ToSet(RemoveFirst(s, e)) = ToSet(s) \ {e}
<1>1. PICK i \in DOMAIN s : s[i] = e
  BY DEF ToSet
<1>2. /\ DOMAIN s = 1 .. Len(s) /\ Len(s) \in Nat
      /\ \A j \in DOMAIN s : s[j] = e <=> j = i
  BY <1>1 DEF IsInjective
<1>3. RemoveFirst(s, e) = RemoveAt(s, i)
  <2> DEFINE I == {j \in 1 .. Len(s) : s[j] = e}
  <2>1. I = {i}
    BY <1>1, <1>2
  <2>2. Min(I) = i
    BY <2>1, <1>1, <1>2 DEF Min
  <2>3. RemoveFirst(s, e) = RemoveAt(s, Min(I))
    BY <1>1, <1>2, <2>1 DEF RemoveFirst, SelectInSeq
  <2>4. QED
    BY <2>2, <2>3
<1> DEFINE u == RemoveAt(s, i)
<1>4. /\ u \in Seq(S) /\ DOMAIN u = 1 .. Len(s) - 1
      /\ \A j \in 1 .. Len(s) - 1 : u[j] = IF j < i THEN s[j] ELSE s[j + 1]
  BY RemoveAtElements
<1> HIDE DEF u
<1>5. IsInjective(u)
  <2> SUFFICES ASSUME NEW j \in DOMAIN u, NEW k \in DOMAIN u, u[j] = u[k] PROVE j = k
    BY DEF IsInjective
  <2> DEFINE old(m) == IF m < i THEN m ELSE m + 1
  <2>1. \A m \in DOMAIN u : old(m) \in DOMAIN s /\ u[m] = s[old(m)] /\ m \in Int
    BY <1>2, <1>4
  <2>2. old(j) = old(k)
    BY <2>1 DEF IsInjective
  <2>3. QED
    BY <2>1, <2>2, <1>2
<1>6. ToSet(u) = ToSet(s) \ {e}
  <2>1. ASSUME NEW j \in DOMAIN u PROVE u[j] \in ToSet(s) \ {e}
    <3> DEFINE m == IF j < i THEN j ELSE j + 1
    <3>1. m \in DOMAIN s /\ m # i /\ u[j] = s[m]
      BY <1>2, <1>4
    <3>2. QED
      BY <3>1, <1>2 DEF ToSet
  <2>2. ASSUME NEW m \in DOMAIN s, m # i PROVE s[m] \in ToSet(u)
    <3> DEFINE j == IF m < i THEN m ELSE m - 1
    <3>1. j \in DOMAIN u /\ u[j] = s[m]
      BY <2>2, <1>2, <1>4
    <3>2. QED
      BY <3>1 DEF ToSet
  <2>3. QED
    BY <2>1, <2>2, <1>2 DEF ToSet
<1>7. QED
  BY <1>3, <1>4, <1>5, <1>6 DEF u

LEMMA MetAreWorkers == TypeOK => Met \subseteq Workers
<1> SUFFICES ASSUME TypeOK PROVE Met \subseteq Workers
  OBVIOUS
<1>1. \A s \in Seq(Workers) : ToSet(s) \subseteq Workers
  BY DEF ToSet
<1>2. known \in Seq(Workers) /\ \A l \in Loops : loop[l].todo \in Seq(Workers)
  BY DEF TypeOK
<1>3. Known \subseteq Workers /\ \A l \in Loops : ToSet(loop[l].todo) \subseteq Workers
  BY <1>1, <1>2 DEF Known
<1>4. QED
  BY <1>3 DEF Met

-----------------------------------------------------------------------------
LEMMA InitHolds == Init => IInv
<1> SUFFICES ASSUME Init PROVE IInv
  OBVIOUS
<1>1. TypeOK
  <2>1. /\ key \in [Workers -> 0 .. TTL]
        /\ client \in [Clients -> {"idle", "setex", "add", "beat"}]
    BY RegistryAssumption DEF Init
  <2>2. known \in Seq(Workers) /\ DOMAIN known = {}
    BY DEF Init
  <2>3. current \in Loops
    BY RegistryAssumption DEF Init
  <2>4. /\ loop \in [Loops -> [pc : {"off", "sleep", "exists", "deposit"}, todo : Seq(Workers)]]
        /\ \A l \in Loops : loop[l].pc = "off" /\ loop[l].todo = <<>>
    BY DEF Init
  <2>5. QED
    BY <2>1, <2>2, <2>3, <2>4, RegistryAssumption DEF Init, TypeOK, IsInjective
<1>2. Met = {}
  BY DEF Init, Met, Known, ToSet
<1>3. CondemnedAreLate
  BY DEF Init, CondemnedAreLate
<1>4. QED
  BY <1>1, <1>2, <1>3 DEF IInv, MetKeysRunOut

(* A call for worker w: it sets its key or does not, and is known with a key. *)
LEMMA CallKeeps ==
    ASSUME IInv, NEW w \in Workers, UNCHANGED tasks, late' = late,
           key' \in {key, [key EXCEPT ![w] = 0]},
           \/ known' = known
           \/ /\ known' = Append(known, w) /\ w \notin Known
              /\ key' = [key EXCEPT ![w] = 0],
           field' \subseteq Workers,
           client' \in [Clients -> {"idle", "setex", "add", "beat"}]
    PROVE  IInv'
<1>1. /\ key \in [Workers -> 0 .. TTL] /\ TTL \in Nat \ {0}
      /\ known \in Seq(Workers) /\ IsInjective(known)
      /\ UNCHANGED <<running, listener, current, loop>>
  BY RegistryAssumption DEF IInv, TypeOK, tasks
<1>2. key' \in [Workers -> 0 .. TTL]
  BY <1>1
<1>3. /\ known' \in Seq(Workers) /\ IsInjective(known')
      /\ Known' \subseteq Known \cup {w}
      /\ w \in Known' \ Known => key'[w] = 0
  <2>1. CASE known' = known
    BY <1>1, <2>1 DEF Known
  <2>2. CASE known' = Append(known, w) /\ w \notin Known /\ key' = [key EXCEPT ![w] = 0]
    <3>1. key'[w] = 0
      BY <1>1, <2>2
    <3>2. QED
      BY <1>1, <2>2, <3>1, AppendElements DEF Known
  <2>3. QED
    BY <2>1, <2>2
<1>4. TypeOK'
  BY <1>1, <1>2, <1>3 DEF IInv, TypeOK
<1>5. MetKeysRunOut'
  <2> SUFFICES ASSUME NEW v \in Met', Absent(v)' PROVE v \in late
    BY DEF MetKeysRunOut
  <2>1. key'[v] = TTL
    BY DEF Absent
  <2>2. v \in Met
    BY <2>1, <1>1, <1>3 DEF Met
  <2>3. key[v] = TTL
    BY <2>1, <2>2, <1>1, MetAreWorkers DEF IInv
  <2>4. QED
    BY <2>2, <2>3 DEF IInv, MetKeysRunOut, Absent
<1>6. QED
  BY <1>1, <1>4, <1>5 DEF IInv, CondemnedAreLate

LEMMA TickKeeps == ASSUME IInv, Tick PROVE IInv'
<1>1. /\ key \in [Workers -> 0 .. TTL] /\ TTL \in Nat \ {0}
      /\ UNCHANGED <<known, field, client, running, listener, current, loop>>
      /\ key' = [w \in Workers |-> IF Absent(w) THEN TTL ELSE key[w] + 1]
      /\ late' = late \cup {w \in Workers : key[w] = TTL - 1}
  BY RegistryAssumption DEF IInv, TypeOK, Tick, tasks
<1>2. TypeOK'
  BY <1>1 DEF IInv, TypeOK, Absent
<1>3. Met' = Met /\ Met \subseteq Workers
  <2>1. Met' = Met
    BY <1>1 DEF Met, Known
  <2>2. QED
    BY <2>1, MetAreWorkers DEF IInv
<1>4. \A w \in Workers : Absent(w)' => Absent(w) \/ w \in late'
  BY <1>1 DEF Absent
<1>5. MetKeysRunOut'
  BY <1>1, <1>3, <1>4 DEF IInv, MetKeysRunOut
<1>6. QED
  BY <1>1, <1>2, <1>5 DEF IInv, CondemnedAreLate

(* A prune loop goes on to x, with nobody in its pass whom it had not met.   *)
LEMMA LoopKeeps ==
    ASSUME IInv, NEW l \in Loops,
           NEW x \in [pc : {"off", "sleep", "exists", "deposit"}, todo : Seq(Workers)],
           x.pc \in {"exists", "deposit"} <=> x.todo # <<>>,
           ToSet(x.todo) \subseteq Met,
           x.pc = "deposit" => Head(x.todo) \in late,
           loop' = [loop EXCEPT ![l] = x],
           known' \in Seq(Workers), IsInjective(known'), Known' \subseteq Known,
           UNCHANGED <<key, field, client, late>>,
           running' \in BOOLEAN, listener' \in {"off", "on", "dead"}, current' \in Loops
    PROVE  IInv'
<1>1. /\ loop'[l] = x /\ \A k \in Loops \ {l} : loop'[k] = loop[k]
      /\ loop' \in [Loops -> [pc : {"off", "sleep", "exists", "deposit"}, todo : Seq(Workers)]]
  BY DEF IInv, TypeOK
<1>2. TypeOK'
  BY <1>1 DEF IInv, TypeOK
<1>3. Met' \subseteq Met
  BY <1>1 DEF Met
<1>4. MetKeysRunOut'
  BY <1>3 DEF IInv, MetKeysRunOut, Absent
<1>5. CondemnedAreLate'
  BY <1>1 DEF IInv, CondemnedAreLate
<1>6. QED
  BY <1>2, <1>4, <1>5 DEF IInv

-----------------------------------------------------------------------------
(* The steps of a pass. *)
LEMMA ContinueMoves ==
    ASSUME IInv, NEW l \in Loops, NEW rest \in Seq(Workers), ToSet(rest) \subseteq Met,
           Continue(l, rest) \/ AfterPass(l)
    PROVE  \E x \in [pc : {"off", "sleep", "exists", "deposit"}, todo : Seq(Workers)] :
              /\ loop' = [loop EXCEPT ![l] = x]
              /\ x.pc \in {"exists", "deposit"} <=> x.todo # <<>>
              /\ ToSet(x.todo) \subseteq Met
              /\ x.pc # "deposit"
<1>1. CASE AfterPass(l)
  <2> DEFINE x == [pc |-> IF running THEN "sleep" ELSE "off", todo |-> <<>>]
  <2>1. /\ x \in [pc : {"off", "sleep", "exists", "deposit"}, todo : Seq(Workers)]
        /\ x.pc \notin {"exists", "deposit"} /\ x.todo = <<>> /\ ToSet(x.todo) = {}
    BY DEF ToSet
  <2>2. loop' = [loop EXCEPT ![l] = x]
    BY <1>1 DEF AfterPass
  <2> HIDE DEF x
  <2>3. QED
    BY <2>1, <2>2
<1>2. CASE rest # <<>> /\ Continue(l, rest)
  <2> DEFINE x == [pc |-> "exists", todo |-> rest]
  <2>1. /\ x \in [pc : {"off", "sleep", "exists", "deposit"}, todo : Seq(Workers)]
        /\ x.pc = "exists" /\ x.todo = rest
    OBVIOUS
  <2>2. loop' = [loop EXCEPT ![l] = x]
    BY <1>2 DEF Continue
  <2> HIDE DEF x
  <2>3. QED
    BY <2>1, <2>2, <1>2
<1>3. QED
  BY <1>1, <1>2 DEF Continue

LEMMA TodoFacts ==
    ASSUME IInv, NEW l \in Loops
    PROVE  /\ loop[l] \in [pc : {"off", "sleep", "exists", "deposit"}, todo : Seq(Workers)]
           /\ loop[l].todo \in Seq(Workers) /\ ToSet(loop[l].todo) \subseteq Met
           /\ loop[l].pc \in {"exists", "deposit"} =>
                 /\ loop[l].todo # <<>>
                 /\ Head(loop[l].todo) \in Met
                 /\ Tail(loop[l].todo) \in Seq(Workers)
                 /\ ToSet(Tail(loop[l].todo)) \subseteq Met
<1>1. /\ loop[l] \in [pc : {"off", "sleep", "exists", "deposit"}, todo : Seq(Workers)]
      /\ loop[l].pc \in {"exists", "deposit"} <=> loop[l].todo # <<>>
  BY DEF IInv, TypeOK
<1>2. ToSet(loop[l].todo) \subseteq Met
  BY DEF Met
<1>3. QED
  BY <1>1, <1>2, HeadTail

(* Steps of a loop that drop nobody. *)
LEMMA PassKeeps ==
    ASSUME IInv, NEW l \in Loops, NEW rest \in Seq(Workers), ToSet(rest) \subseteq Met,
           Continue(l, rest) \/ AfterPass(l),
           known' \in Seq(Workers), IsInjective(known'), Known' \subseteq Known,
           UNCHANGED <<key, field, client, late, running, listener, current>>
    PROVE  IInv'
<1>1. PICK x \in [pc : {"off", "sleep", "exists", "deposit"}, todo : Seq(Workers)] :
              /\ loop' = [loop EXCEPT ![l] = x]
              /\ x.pc \in {"exists", "deposit"} <=> x.todo # <<>>
              /\ ToSet(x.todo) \subseteq Met
              /\ x.pc # "deposit"
  BY ContinueMoves
<1>2. running' \in BOOLEAN /\ listener' \in {"off", "on", "dead"} /\ current' \in Loops
  BY DEF IInv, TypeOK
<1>3. QED
  BY <1>1, <1>2, LoopKeeps

LEMMA WakeKeeps == ASSUME IInv, NEW l \in Loops, Wake(l) PROVE IInv'
<1>1. known \in Seq(Workers) /\ IsInjective(known) /\ ToSet(known) \subseteq Met
  BY DEF IInv, TypeOK, Met, Known
<1>2. Continue(l, known) /\ UNCHANGED <<key, known, field, client, late, running, listener, current>>
  BY DEF Wake, calls
<1>3. QED
  BY <1>1, <1>2, PassKeeps DEF Known

LEMMA CheckKeyKeeps ==
    ASSUME IInv, NEW l \in Loops, NEW w \in Workers, CheckKey(l, w) PROVE IInv'
<1>1. /\ loop[l].pc = "exists" /\ Head(loop[l].todo) = w
      /\ UNCHANGED <<key, known, field, client, late, running, listener, current>>
      /\ known \in Seq(Workers) /\ IsInjective(known) /\ Known' = Known
  BY DEF IInv, TypeOK, CheckKey, calls, Known
<1>2. CASE ~ Absent(w)
  <2>1. Continue(l, Tail(loop[l].todo))
    BY <1>2 DEF CheckKey
  <2>2. QED
    BY <2>1, <1>1, TodoFacts, PassKeeps
<1>3. CASE Absent(w)
  <2> DEFINE x == [loop[l] EXCEPT !.pc = "deposit"]
  <2>1. w \in late
    BY <1>1, <1>3, TodoFacts DEF IInv, MetKeysRunOut
  <2>2. /\ x \in [pc : {"off", "sleep", "exists", "deposit"}, todo : Seq(Workers)]
        /\ x.pc = "deposit" /\ x.todo = loop[l].todo
    BY TodoFacts
  <2>3. loop' = [loop EXCEPT ![l] = x]
    BY <1>3 DEF CheckKey
  <2>4. running' \in BOOLEAN /\ listener' \in {"off", "on", "dead"} /\ current' \in Loops
    BY <1>1 DEF IInv, TypeOK
  <2> HIDE DEF x
  <2>5. QED
    BY <1>1, <2>1, <2>2, <2>3, <2>4, TodoFacts, LoopKeeps
<1>4. QED
  BY <1>2, <1>3

LEMMA DropKeeps ==
    ASSUME IInv, NEW l \in Loops, NEW w \in Workers, Drop(l, w) PROVE IInv'
<1>1. /\ loop[l].pc = "deposit" /\ Head(loop[l].todo) = w
      /\ UNCHANGED <<key, field, client, late, running, listener, current>>
      /\ known \in Seq(Workers) /\ IsInjective(known)
  BY DEF IInv, TypeOK, Drop
<1>2. CASE w \in field /\ w \in Known
  <2>1. known' = RemoveFirst(known, w) /\ Continue(l, Tail(loop[l].todo))
    BY <1>2 DEF Drop
  <2>2. known' \in Seq(Workers) /\ IsInjective(known') /\ Known' \subseteq Known
    BY <2>1, <1>1, <1>2, RemoveFirstElements DEF Known
  <2>3. QED
    BY <2>1, <2>2, <1>1, TodoFacts, PassKeeps
<1>3. CASE ~ (w \in field /\ w \in Known)
  <2>1. known' = known /\ AfterPass(l)
    BY <1>3 DEF Drop
  <2>2. QED
    BY <2>1, <1>1, TodoFacts, PassKeeps DEF Known
<1>4. QED
  BY <1>2, <1>3

LEMMA PassFailsKeeps == ASSUME IInv, NEW l \in Loops, PassFails(l) PROVE IInv'
<1>1. /\ AfterPass(l) /\ known \in Seq(Workers) /\ IsInjective(known)
      /\ UNCHANGED <<key, known, field, client, late, running, listener, current>>
  BY DEF IInv, TypeOK, PassFails, calls
<1>2. QED
  BY <1>1, TodoFacts, PassKeeps DEF Known

-----------------------------------------------------------------------------
(* The tasks start, stop and die. *)
LEMMA TasksKeep ==
    ASSUME IInv, StartTasks \/ ListenerFails \/ StopTasks PROVE IInv'
<1>1. /\ UNCHANGED <<key, known, field, client, late>>
      /\ running \in BOOLEAN /\ listener \in {"off", "on", "dead"} /\ current \in Loops
      /\ known \in Seq(Workers) /\ IsInjective(known) /\ Known' = Known
  BY DEF IInv, TypeOK, StartTasks, ListenerFails, StopTasks, calls, Known
<1>2. CASE StartTasks
  <2> DEFINE x == [loop[current'] EXCEPT !.pc = "sleep"]
  <2>1. /\ current' \in Loops /\ loop[current'].pc = "off"
        /\ loop' = [loop EXCEPT ![current'] = x] /\ running' \in BOOLEAN /\ listener' = "on"
    BY <1>2 DEF StartTasks
  <2>2. loop[current'].todo = <<>>
    BY <2>1 DEF IInv, TypeOK
  <2>3. /\ x \in [pc : {"off", "sleep", "exists", "deposit"}, todo : Seq(Workers)]
        /\ x.pc = "sleep" /\ x.todo = <<>> /\ ToSet(x.todo) = {}
    BY <2>1, <2>2, TodoFacts DEF ToSet
  <2> HIDE DEF x
  <2>4. QED
    BY <1>1, <2>1, <2>3, LoopKeeps
<1>3. CASE ListenerFails \/ (StopTasks /\ listener = "dead")
  <2>1. /\ loop' = loop /\ current' = current /\ running' \in BOOLEAN
        /\ listener' \in {"off", "on", "dead"}
    BY <1>1, <1>3 DEF ListenerFails, StopTasks
  <2>2. TypeOK'
    BY <1>1, <2>1 DEF IInv, TypeOK
  <2>3. QED
    BY <1>1, <2>1, <2>2 DEF IInv, MetKeysRunOut, CondemnedAreLate, Met, Absent
<1>4. CASE StopTasks /\ listener # "dead"
  <2> DEFINE x == [pc |-> "off", todo |-> <<>>]
  <2>1. /\ loop' = [loop EXCEPT ![current] = x] /\ current' = current
        /\ running' \in BOOLEAN /\ listener' = "off"
    BY <1>4 DEF StopTasks
  <2>2. /\ x \in [pc : {"off", "sleep", "exists", "deposit"}, todo : Seq(Workers)]
        /\ x.pc = "off" /\ x.todo = <<>> /\ ToSet(x.todo) = {}
    BY DEF ToSet
  <2> HIDE DEF x
  <2>3. QED
    BY <1>1, <2>1, <2>2, LoopKeeps
<1>5. QED
  BY <1>2, <1>3, <1>4 DEF StopTasks

LEMMA ClientKeeps ==
    ASSUME IInv, NEW c \in Clients,
           \/ Register(c) \/ SetKey(c) \/ AddNode(c) \/ AddNodeFails(c)
           \/ SendHeartbeat(c) \/ Beat(c) \/ ClientFails(c)
    PROVE  IInv'
<1> DEFINE w == WorkerOf[c]
<1>w. w \in Workers
  BY RegistryAssumption
<1>1. client \in [Clients -> {"idle", "setex", "add", "beat"}] /\ field \subseteq Workers
  BY DEF IInv, TypeOK
<1>f. field' \subseteq Workers
  <2>1. field' \subseteq field \cup {w}
    BY DEF Register, SetKey, AddNode, AddNodeFails, SendHeartbeat, Beat, ClientFails
  <2>2. QED
    BY <2>1, <1>w, <1>1
<1>2. /\ UNCHANGED tasks /\ late' = late
      /\ client' \in [Clients -> {"idle", "setex", "add", "beat"}]
      /\ key' \in {key, [key EXCEPT ![w] = 0]}
  BY <1>1 DEF Register, SetKey, AddNode, AddNodeFails, SendHeartbeat, Beat, ClientFails, To
<1>3. \/ known' = known
      \/ /\ known' = Append(known, w) /\ w \notin Known
         /\ key' = [key EXCEPT ![w] = 0]
  BY DEF Register, SetKey, AddNode, AddNodeFails, SendHeartbeat, Beat, ClientFails
<1>4. QED
  BY <1>w, <1>f, <1>2, <1>3, CallKeeps

LEMMA NextKeeps == IInv /\ [Next]_vars => IInv'
<1> SUFFICES ASSUME IInv, [Next]_vars PROVE IInv'
  OBVIOUS
<1>1. CASE UNCHANGED vars
  BY <1>1 DEF vars, IInv, TypeOK, MetKeysRunOut, CondemnedAreLate, Met, Known, Absent
<1>2. ASSUME NEW l \in Loops, LoopStep(l) PROVE IInv'
  BY <1>2, WakeKeeps, CheckKeyKeeps, DropKeeps, PassFailsKeeps DEF LoopStep
<1>3. QED
  BY <1>1, <1>2, ClientKeeps, TickKeeps, TasksKeep DEF Next

LEMMA AlwaysIInv == Spec => []IInv
BY InitHolds, NextKeeps, PTL DEF Spec

(* Every variable keeps its shape: no worker is known twice, and a loop has  *)
(* a worker to look at exactly while it is in a pass.                        *)
THEOREM TypeCorrect == Spec => []TypeOK
<1>1. IInv => TypeOK
  BY DEF IInv
<1>2. QED
  BY <1>1, AlwaysIInv, PTL

(* No interleaving of passes, registrations, heartbeats, stops and starts    *)
(* drops a worker that has never let its key run out.                        *)
THEOREM OnTimeHolds == Spec => OnTimeIsKept
<1>1. IInv /\ [Next]_vars => [Known \ Known' \subseteq late]_vars
  <2> SUFFICES ASSUME IInv, [Next]_vars, NEW v \in Known \ Known' PROVE v \in late
    OBVIOUS
  <2>1. known' # known
    BY DEF Known
  <2>2. ~ \E c \in Clients : SetKey(c)
    <3> SUFFICES ASSUME NEW c \in Clients, SetKey(c) PROVE Known \subseteq Known'
      OBVIOUS
    <3>1. WorkerOf[c] \in Workers
      BY RegistryAssumption
    <3>2. QED
      BY <3>1, AppendElements DEF SetKey, Known, IInv, TypeOK
  <2>3. PICK l \in Loops, w \in Workers : Drop(l, w)
    BY <2>1, <2>2 DEF vars, Next, Register, AddNode, AddNodeFails, SendHeartbeat, Beat,
       ClientFails, Tick, StartTasks, ListenerFails, StopTasks, LoopStep, Wake, CheckKey,
       PassFails, calls
  <2>4. w \in late
    BY <2>3 DEF Drop, IInv, CondemnedAreLate
  <2>5. Known' = Known \ {w}
    BY <2>1, <2>3, RemoveFirstElements DEF Drop, Known, IInv, TypeOK
  <2>6. QED
    BY <2>4, <2>5
<1>2. QED
  BY <1>1, AlwaysIInv, PTL DEF Spec, OnTimeIsKept
=============================================================================
