-------------------------- MODULE RouterMeshProofs --------------------------
(***************************************************************************)
(* The mesh for any finite set of requests and any workers, prompts, tags  *)
(* and latencies: its shape, the load of every worker, and what a trace    *)
(* that has fallen says of the requests its node has served.               *)
(***************************************************************************)
EXTENDS RouterMesh, FieldLemmas, FiniteSetTheorems, TLAPS

Pcs == {"new", "running", "streaming", "sending", "deposit", "closing", "orphan", "done"}

Record == [pc : Pcs, node : Nodes, todo : Seq(Observation), chunks : Nat,
           last : BOOLEAN, failed : BOOLEAN]

(* A plain request never streams and a stream is never merely running. *)
InKind(q, r) ==
    /\ q \in Plain => r.pc \in {"new", "running", "deposit", "done"}
    /\ q \in Streams => r.pc # "running"

(* What a request is about to deposit: a failure only if it failed, and the  *)
(* match of the worker it was given.                                        *)
Honest(q, r) ==
    /\ r.pc \in {"new", "running"} => ~ r.failed /\ r.todo = <<>>
    /\ \A i \in DOMAIN r.todo : /\ ~ r.todo[i].success => r.failed
                                /\ r.todo[i].capability = MatchOf(q)

Active(q, r) ==
    \/ r.pc \in {"running", "streaming", "sending", "closing", "orphan"}
    \/ r.pc = "deposit" /\ q \in Streams

IInv ==
    /\ TypeOK
    /\ LoadConserved
    /\ NoFalseBlame
    /\ CapabilityEarned
    /\ \A q \in Requests : InKind(q, req[q]) /\ Honest(q, req[q])

-----------------------------------------------------------------------------
(* compute_capability_match yields a number, and 1 for a worker that has all *)
(* the tags asked for.                                                      *)
LEMMA WeightIsNat ==
  ASSUME NEW p \in Prompt, NEW tags
  PROVE  WeightIn(ContextOf(p), tags) \in Nat
<1>1. \A tag \in CapabilityTags : ContextOf(p)[tag] \in Nat
  BY DEF ContextOf
<1>2. QED
  BY <1>1 DEF WeightIn, CapabilityTags

LEMMA NeutralIsNat == Neutral \in Nat
BY TracesAssumption DEF Neutral

LEMMA MatchIsNat ==
  ASSUME NEW p \in Prompt, NEW tags
  PROVE  CapabilityMatch(tags, ContextOf(p)) \in Nat
<1> DEFINE total == WeightIn(ContextOf(p), CapabilityTags)
           part == WeightIn(ContextOf(p), tags)
<1>1. total \in Nat /\ part \in Nat /\ Unit \in Nat
  BY WeightIsNat, TracesAssumption
<1>2. Unit * part \in Nat
  BY <1>1
<1> HIDE DEF total, part
<1>3. total # 0 => (Unit * part) \div total \in Nat
  BY <1>1, <1>2
<1>4. QED
  BY <1>3, NeutralIsNat DEF CapabilityMatch, total, part

LEMMA FullFitMatches ==
  ASSUME NEW q \in Plain, NEW n \in Nodes, FitsFully(q, n)
  PROVE  CapabilityMatch(TagsOf[n], ContextOf(PromptOf[q])) = Unit
<1> DEFINE p == PromptOf[q]
           total == WeightIn(ContextOf(p), CapabilityTags)
<1>1. p \in Prompt
  BY RouterAssumption
<1>2. \A tag \in CapabilityTags : ContextOf(p)[tag] \in Nat
  BY DEF ContextOf
<1>3. \A tag \in CapabilityTags \ TagsOf[n] : ContextOf(p)[tag] = 0
  BY <1>2 DEF FitsFully
<1>4. WeightIn(ContextOf(p), TagsOf[n]) = total
  BY <1>3 DEF WeightIn, CapabilityTags
<1>5. PICK tag \in CapabilityTags : ContextOf(p)[tag] > 0 /\ tag \in TagsOf[n]
  BY DEF FitsFully
<1>6. total \in Nat /\ total # 0
  <2> DEFINE c == ContextOf(p)
  <2>1. total = c["llm"] + c["reasoning"] + c["slm"] + c["fast"] + c["low-latency"] + c["balanced"]
    BY DEF WeightIn, CapabilityTags
  <2>2. /\ c["llm"] \in Nat /\ c["reasoning"] \in Nat /\ c["slm"] \in Nat
        /\ c["fast"] \in Nat /\ c["low-latency"] \in Nat /\ c["balanced"] \in Nat
    BY <1>2 DEF CapabilityTags
  <2>3. \/ c["llm"] > 0 \/ c["reasoning"] > 0 \/ c["slm"] > 0
        \/ c["fast"] > 0 \/ c["low-latency"] > 0 \/ c["balanced"] > 0
    BY <1>5 DEF CapabilityTags
  <2>4. \A x1, x2, x3, x4, x5, x6 \in Nat :
            (x1 > 0 \/ x2 > 0 \/ x3 > 0 \/ x4 > 0 \/ x5 > 0 \/ x6 > 0)
               => /\ x1 + x2 + x3 + x4 + x5 + x6 \in Nat
                  /\ x1 + x2 + x3 + x4 + x5 + x6 # 0
    OBVIOUS
  <2> HIDE DEF c, total
  <2>5. /\ c["llm"] + c["reasoning"] + c["slm"] + c["fast"] + c["low-latency"] + c["balanced"] \in Nat
        /\ c["llm"] + c["reasoning"] + c["slm"] + c["fast"] + c["low-latency"] + c["balanced"] # 0
    BY <2>2, <2>3, <2>4
  <2>6. QED
    BY <2>1, <2>5
<1>7. \A a, b \in Nat : b # 0 => (a * b) \div b = a
  OBVIOUS
<1>8. (Unit * total) \div total = Unit
  BY <1>6, <1>7, TracesAssumption
<1> HIDE DEF total
<1>9. QED
  BY <1>4, <1>5, <1>6, <1>8 DEF CapabilityMatch, total

LEMMA MatchOfIsNat ==
  ASSUME TypeOK, NEW q \in Requests
  PROVE  MatchOf(q) \in Nat
BY MatchIsNat, NeutralIsNat, RouterAssumption DEF MatchOf, Requests

(* What a worker reports is an observation, as its load counts the request. *)
LEMMA OutcomeIsObservation ==
  ASSUME NEW success \in BOOLEAN, NEW latency \in Nat, NEW active \in Nat, NEW match \in Nat
  PROVE  Outcome(success, latency, active, match) \in Observation
BY DEF Outcome, Observation

-----------------------------------------------------------------------------
(* The load of the workers.                                                 *)

LEMMA AtIsActive ==
  ASSUME NEW n
  PROVE  /\ At(n) = {q \in Requests : req[q].node = n /\ Active(q, req[q])}
         /\ At(n)' = {q \in Requests : req'[q].node = n /\ Active(q, req'[q])}
BY DEF At, Active

LEMMA AtStays ==
  ASSUME NEW n,
         \A p \in Requests : (req'[p].node = n /\ Active(p, req'[p]))
                              <=> (req[p].node = n /\ Active(p, req[p]))
  PROVE  At(n)' = At(n)
BY AtIsActive

(* A step of one request changes no other. *)
LEMMA OthersStay ==
  ASSUME TypeOK, NEW q \in Requests, NEW r, req' = [req EXCEPT ![q] = r]
  PROVE  req'[q] = r /\ \A p \in Requests \ {q} : req'[p] = req[p]
BY DEF TypeOK

LEMMA AtIsFinite ==
  ASSUME NEW n
  PROVE  IsFiniteSet(At(n)) /\ Cardinality(At(n)) \in Nat
<1>1. IsFiniteSet(Requests) /\ At(n) \in SUBSET Requests
  BY RouterAssumption, FS_Union DEF Requests, At
<1>2. QED
  BY <1>1, FS_Subset, FS_CardinalityType

(* A worker that holds a request has a positive load. *)
LEMMA ActiveIsCounted ==
  ASSUME TypeOK, LoadConserved, NEW q \in Requests, Active(q, req[q])
  PROVE  load[req[q].node] - 1 \in Nat
<1> DEFINE n == req[q].node
<1>1. n \in Nodes /\ load[n] \in Nat
  BY DEF TypeOK
<1>2. q \in At(n)
  BY AtIsActive
<1>3. Cardinality(At(n)) # 0
  BY <1>2, AtIsFinite, FS_EmptySet
<1>4. QED
  BY <1>1, <1>3 DEF LoadConserved

(* A step of a request that stays with its worker or with none. *)
LEMMA LoadStays ==
  ASSUME TypeOK, LoadConserved, NEW q \in Requests, NEW r,
         req' = [req EXCEPT ![q] = r], r.node = req[q].node,
         Active(q, r) <=> Active(q, req[q]), load' = load
  PROVE  LoadConserved'
<1>1. ASSUME NEW n \in Nodes PROVE At(n)' = At(n)
  <2>1. \A p \in Requests : (req'[p].node = n /\ Active(p, req'[p]))
                               <=> (req[p].node = n /\ Active(p, req[p]))
    BY OthersStay
  <2>2. QED
    BY <2>1, AtStays
<1>2. QED
  BY <1>1 DEF LoadConserved

(* A step with which a request leaves its worker. *)
LEMMA LoadFalls ==
  ASSUME TypeOK, LoadConserved, NEW q \in Requests, NEW r,
         req' = [req EXCEPT ![q] = r], r.node = req[q].node,
         Active(q, req[q]), ~ Active(q, r), Leave(req[q].node)
  PROVE  LoadConserved' /\ load' \in [Nodes -> Nat]
<1> DEFINE m == req[q].node
<1>1. m \in Nodes /\ load[m] - 1 \in Nat
  BY ActiveIsCounted DEF TypeOK
<1>2. At(m)' = At(m) \ {q} /\ q \in At(m)
  BY AtIsActive DEF TypeOK
<1>3. ASSUME NEW n \in Nodes, n # m PROVE At(n)' = At(n)
  <2>1. \A p \in Requests : (req'[p].node = n /\ Active(p, req'[p]))
                               <=> (req[p].node = n /\ Active(p, req[p]))
    BY OthersStay, <1>3
  <2>2. QED
    BY <2>1, AtStays
<1>4. Cardinality(At(m)') = Cardinality(At(m)) - 1
  BY <1>2, AtIsFinite, FS_RemoveElement
<1>5. load' = [load EXCEPT ![m] = @ - 1]
  BY DEF Leave
<1>6. load' \in [Nodes -> Nat]
  BY <1>1, <1>5 DEF TypeOK
<1>7. ASSUME NEW n \in Nodes PROVE load'[n] = Cardinality(At(n)')
  <2>1. CASE n = m
    BY <2>1, <1>1, <1>4, <1>5 DEF LoadConserved, TypeOK
  <2>2. CASE n # m
    BY <2>2, <1>3, <1>5 DEF LoadConserved, TypeOK
  <2>3. QED
    BY <2>1, <2>2
<1>8. LoadConserved'
  BY <1>7 DEF LoadConserved
<1>9. QED
  BY <1>6, <1>8

(* The step with which a request enters its worker. *)
LEMMA LoadRises ==
  ASSUME TypeOK, LoadConserved, NEW q \in Requests, NEW n \in Nodes, NEW r,
         req' = [req EXCEPT ![q] = r], r.node = n,
         ~ Active(q, req[q]), Active(q, r), Enter(n)
  PROVE  LoadConserved' /\ load' \in [Nodes -> Nat]
<1>1. At(n)' = At(n) \cup {q} /\ q \notin At(n)
  BY AtIsActive DEF TypeOK
<1>2. ASSUME NEW m \in Nodes, m # n PROVE At(m)' = At(m)
  <2>1. \A p \in Requests : (req'[p].node = m /\ Active(p, req'[p]))
                               <=> (req[p].node = m /\ Active(p, req[p]))
    BY OthersStay, <1>2
  <2>2. QED
    BY <2>1, AtStays
<1>3. Cardinality(At(n)') = Cardinality(At(n)) + 1
  BY <1>1, AtIsFinite, FS_AddElement
<1>4. load' = [load EXCEPT ![n] = @ + 1]
  BY DEF Enter
<1>5. load' \in [Nodes -> Nat]
  BY <1>4 DEF TypeOK
<1>6. ASSUME NEW m \in Nodes PROVE load'[m] = Cardinality(At(m)')
  <2>1. CASE m = n
    BY <2>1, <1>3, <1>4 DEF LoadConserved, TypeOK
  <2>2. CASE m # n
    BY <2>2, <1>2, <1>4 DEF LoadConserved, TypeOK
  <2>3. QED
    BY <2>1, <2>2
<1>7. LoadConserved'
  BY <1>6 DEF LoadConserved
<1>8. QED
  BY <1>5, <1>7

-----------------------------------------------------------------------------
(* What the steps of a request that has a worker have in common: it keeps    *)
(* its worker, and a failure is not forgotten.                              *)
Progress(q, r) ==
    /\ req' = [req EXCEPT ![q] = r]
    /\ r \in Record /\ r.node = req[q].node
    /\ req[q].pc # "new" /\ r.pc # "new"
    /\ req[q].failed => r.failed
    /\ r.pc = "deposit" => r.todo # <<>>
    /\ InKind(q, r) /\ Honest(q, r)

RecordsOK ==
    /\ req \in [Requests -> Record]
    /\ \A q \in Requests : req[q].pc = "deposit" => req[q].todo # <<>>
    /\ \A q \in Requests : InKind(q, req[q]) /\ Honest(q, req[q])

LEMMA RecordsHold == IInv => RecordsOK
BY DEF IInv, RecordsOK, TypeOK, Record, Pcs

(* The match of a request is that of its worker. *)
LEMMA MatchStays ==
  ASSUME NEW q, req'[q].node = req[q].node
  PROVE  MatchOf(q)' = MatchOf(q)
BY DEF MatchOf

LEMMA ProgressKeepsRecords ==
  ASSUME IInv, NEW q \in Requests, NEW r, Progress(q, r)
  PROVE  RecordsOK'
<1>1. RecordsOK /\ TypeOK
  BY RecordsHold DEF IInv
<1>2. req'[q] = r /\ \A p \in Requests \ {q} : req'[p] = req[p]
  BY <1>1, OthersStay DEF Progress
<1>3. req' \in [Requests -> Record]
  BY <1>1 DEF Progress, RecordsOK
<1>4. \A p \in Requests : req'[p].pc = "deposit" => req'[p].todo # <<>>
  BY <1>1, <1>2 DEF Progress, RecordsOK
<1>5. ASSUME NEW p \in Requests PROVE InKind(p, req'[p])
  BY <1>1, <1>2 DEF Progress, RecordsOK
<1>6. ASSUME NEW p \in Requests PROVE Honest(p, req[p])' 
  <2>1. MatchOf(p)' = MatchOf(p)
    BY <1>2, MatchStays DEF Progress
  <2>2. Honest(p, req'[p])
    BY <1>1, <1>2 DEF Progress, RecordsOK
  <2>3. QED
    BY <2>1, <2>2 DEF Honest
<1>7. QED
  BY <1>3, <1>4, <1>5, <1>6 DEF RecordsOK, InKind

Blamed(n) == \E q \in Requests : req[q].node = n /\ req[q].failed

Unfit(n) == \E q \in Requests : /\ req[q].node = n /\ req[q].pc # "new"
                                /\ q \in Plain => ~ FitsFully(q, n)

LEMMA ProgressKeepsWitnesses ==
  ASSUME IInv, NEW q \in Requests, NEW r, Progress(q, r), NEW n \in Nodes
  PROVE  (Blamed(n) => Blamed(n)') /\ (Unfit(n) => Unfit(n)')
<1>1. req'[q] = r /\ \A p \in Requests \ {q} : req'[p] = req[p]
  BY OthersStay DEF Progress, IInv
<1>2. \A p \in Requests : /\ req[p].pc # "new" => req'[p].node = req[p].node /\ req'[p].pc # "new"
                          /\ req[p].failed => req'[p].failed
                          /\ req'[p].node = req[p].node
  BY <1>1 DEF Progress
<1>3. QED
  BY <1>2 DEF Blamed, Unfit, FitsFully

(* A step that leaves the field alone. *)
LEMMA SilentStep ==
  ASSUME IInv, NEW q \in Requests, NEW r, Progress(q, r), trace' = trace,
         LoadConserved', load' \in [Nodes -> Nat]
  PROVE  IInv'
<1>1. NoFalseBlame' /\ CapabilityEarned'
  BY ProgressKeepsWitnesses DEF IInv, NoFalseBlame, CapabilityEarned, Blamed, Unfit, FitsFully
<1>2. RecordsOK'
  BY ProgressKeepsRecords
<1>3. TypeOK'
  BY <1>2 DEF RecordsOK, TypeOK, IInv, Record, Pcs
<1>4. QED
  BY <1>1, <1>2, <1>3 DEF IInv, RecordsOK

(* A silent step with which a request keeps or gives up its place. *)
LEMMA StayingStep ==
  ASSUME IInv, NEW q \in Requests, NEW r, Progress(q, r), UNCHANGED <<trace, load>>,
         Active(q, r) <=> Active(q, req[q])
  PROVE  IInv'
<1>1. LoadConserved' /\ load' \in [Nodes -> Nat]
  BY LoadStays DEF IInv, TypeOK, Progress
<1>2. QED
  BY <1>1, SilentStep

LEMMA LeavingStep ==
  ASSUME IInv, NEW q \in Requests, NEW r, Progress(q, r), UNCHANGED trace,
         Active(q, req[q]), ~ Active(q, r), Leave(req[q].node)
  PROVE  IInv'
<1>1. LoadConserved' /\ load' \in [Nodes -> Nat]
  BY LoadFalls DEF IInv, Progress
<1>2. QED
  BY <1>1, SilentStep

-----------------------------------------------------------------------------
LEMMA InitHolds == Init => IInv
<1> SUFFICES ASSUME Init PROVE IInv
  OBVIOUS
<1>1. New \in Record
  BY RouterAssumption DEF New, Record, Pcs
<1>2. \A q \in Requests : req[q] = New
  BY DEF Init
<1>n. New.pc = "new" /\ New.todo = <<>> /\ New.failed = FALSE
  BY DEF New
<1>3. trace = [n \in Nodes |-> DefaultTrace]
  BY DEF Init, Field!Init
<1>4. TypeOK
  BY <1>1, <1>2, <1>3, DefaultIsTrace DEF Init, TypeOK, New, Record, Pcs
<1>5. \A n \in Nodes : At(n) = {}
  BY <1>2, <1>n DEF At
<1>6. LoadConserved
  BY <1>5, FS_EmptySet DEF LoadConserved, Init
<1>7. DefaultTrace["V"] = Unit /\ DefaultTrace["C"] = Unit
  BY DEF DefaultTrace, Columns
<1>8. NoFalseBlame /\ CapabilityEarned
  BY <1>3, <1>7, TracesAssumption DEF NoFalseBlame, CapabilityEarned
<1>9. \A q \in Requests : InKind(q, req[q]) /\ Honest(q, req[q])
  <2>1. DOMAIN <<>> = {}
    OBVIOUS
  <2>2. QED
    BY <1>2, <1>n, <2>1 DEF InKind, Honest
<1>10. QED
  BY <1>4, <1>6, <1>8, <1>9 DEF IInv

(* sample_worker *)
LEMMA RouteKeeps ==
  ASSUME IInv, NEW q \in Requests, NEW n \in Nodes, Route(q, n)
  PROVE  IInv'
<1> DEFINE r == [req[q] EXCEPT !.node = n, !.pc = IF q \in Plain THEN "running" ELSE "streaming"]
<1>1. RecordsOK /\ TypeOK /\ req[q] \in Record
  BY RecordsHold DEF IInv, RecordsOK
<1>2. req' = [req EXCEPT ![q] = r] /\ req[q].pc = "new" /\ Enter(n) /\ trace' = trace
  BY DEF Route
<1>3. /\ r \in Record /\ r.node = n /\ r.todo = req[q].todo /\ r.failed = req[q].failed
      /\ r.pc = IF q \in Plain THEN "running" ELSE "streaming"
  BY <1>1 DEF Record, Pcs
<1>4. ~ req[q].failed /\ req[q].todo = <<>>
  BY <1>1, <1>2 DEF RecordsOK, Honest
<1> HIDE DEF r
<1>5. req'[q] = r /\ \A p \in Requests \ {q} : req'[p] = req[p]
  BY <1>1, <1>2, OthersStay
<1>6. LoadConserved' /\ load' \in [Nodes -> Nat]
  BY <1>2, <1>3, LoadRises DEF IInv, Active
<1>7. RecordsOK'
  <2>1. req' \in [Requests -> Record]
    BY <1>1, <1>2, <1>3 DEF RecordsOK
  <2>2. \A p \in Requests : req'[p].pc = "deposit" => req'[p].todo # <<>>
    BY <1>1, <1>3, <1>5 DEF RecordsOK
  <2>3. \A p \in Requests : InKind(p, req'[p])
    BY <1>1, <1>3, <1>5, RouterAssumption DEF RecordsOK, InKind, Requests
  <2>4. Honest(q, req[q])'
    BY <1>3, <1>4, <1>5 DEF Honest
  <2>5. ASSUME NEW p \in Requests \ {q} PROVE Honest(p, req[p])'
    BY <1>1, <1>5, MatchStays DEF RecordsOK, Honest
  <2>6. QED
    BY <2>1, <2>2, <2>3, <2>4, <2>5 DEF RecordsOK, InKind
<1>8. NoFalseBlame'
  BY <1>2, <1>4, <1>5 DEF IInv, NoFalseBlame
<1>9. CapabilityEarned'
  BY <1>2, <1>5 DEF IInv, CapabilityEarned, FitsFully
<1>10. TypeOK'
  BY <1>2, <1>6, <1>7 DEF RecordsOK, TypeOK, IInv, Record, Pcs
<1>11. QED
  BY <1>6, <1>7, <1>8, <1>9, <1>10 DEF IInv, RecordsOK

-----------------------------------------------------------------------------
(* The worker's answers.                                                    *)

LEMMA OneOutcome ==
  ASSUME NEW o \in Observation
  PROVE  <<o>> \in Seq(Observation) /\ <<o>> # <<>> /\ DOMAIN <<o>> = {1} /\ <<o>>[1] = o
OBVIOUS

LEMMA NoOutcome == <<>> \in Seq(Observation) /\ DOMAIN <<>> = {}
OBVIOUS

LEMMA FinishKeeps ==
  ASSUME IInv, NEW q \in Requests, NEW success \in BOOLEAN, NEW latency \in Latencies,
         Finish(q, success, latency)
  PROVE  IInv'
<1> DEFINE n == req[q].node
           o == Outcome(success, latency, load[n] - 1, MatchOf(q))
           f == ~ success
           r == [req[q] EXCEPT !.pc = "deposit", !.failed = f, !.todo = <<o>>]
<1>1. RecordsOK /\ TypeOK /\ req[q] \in Record /\ LoadConserved
  BY RecordsHold DEF IInv, RecordsOK
<1>2. req' = [req EXCEPT ![q] = r] /\ req[q].pc = "running" /\ Leave(n) /\ trace' = trace
  BY DEF Finish
<1>3. q \in Plain /\ q \notin Streams /\ ~ req[q].failed
  BY <1>1, <1>2, RouterAssumption DEF RecordsOK, InKind, Honest, Requests
<1>4. load[n] - 1 \in Nat
  BY <1>1, <1>2, ActiveIsCounted DEF Active
<1>5. o \in Observation /\ o.success = success /\ o.capability = MatchOf(q)
  BY <1>1, <1>4, MatchOfIsNat, OutcomeIsObservation, RouterAssumption DEF Outcome
<1>f. f \in BOOLEAN /\ f = ~ success
  OBVIOUS
<1> HIDE DEF o, f
<1>r. r = [req[q] EXCEPT !.pc = "deposit", !.failed = f, !.todo = <<o>>]
  OBVIOUS
<1> HIDE DEF r
<1>6. /\ r \in Record /\ r.node = req[q].node /\ r.pc = "deposit"
      /\ r.todo = <<o>> /\ r.failed = f
  BY <1>1, <1>r, <1>5, <1>f, OneOutcome DEF Pcs, Record
<1>h. Honest(q, r)
  BY <1>5, <1>6, <1>f, OneOutcome DEF Honest
<1>7. Progress(q, r)
  BY <1>2, <1>3, <1>5, <1>6, <1>h, OneOutcome DEF Progress, InKind
<1>8. Active(q, req[q]) /\ ~ Active(q, r)
  BY <1>2, <1>3, <1>6 DEF Active
<1>9. QED
  BY <1>2, <1>7, <1>8, LeavingStep

LEMMA RaiseKeeps ==
  ASSUME IInv, NEW q \in Requests, Raise(q)
  PROVE  IInv'
<1> DEFINE o == Outcome(FALSE, 0, 0, MatchOf(q))
           todo == IF q \in Plain THEN <<o>> ELSE <<>>
           pc == IF q \in Plain THEN "deposit" ELSE "done"
           r == [req[q] EXCEPT !.pc = pc, !.failed = TRUE, !.todo = todo]
<1>1. RecordsOK /\ TypeOK /\ req[q] \in Record
  BY RecordsHold DEF IInv, RecordsOK
<1>2. /\ req' = [req EXCEPT ![q] = r] /\ req[q].pc \in {"running", "streaming"}
      /\ Leave(req[q].node) /\ trace' = trace
  BY DEF Raise
<1>3. o \in Observation /\ o.success = FALSE /\ o.capability = MatchOf(q)
  BY <1>1, MatchOfIsNat, OutcomeIsObservation DEF Outcome
<1> HIDE DEF o
<1>t. /\ todo \in Seq(Observation) /\ pc \in Pcs
      /\ q \in Plain => todo = <<o>> /\ pc = "deposit"
      /\ q \notin Plain => todo = <<>> /\ pc = "done"
  BY <1>3, OneOutcome, NoOutcome DEF Pcs
<1> HIDE DEF todo, pc
<1>r. r = [req[q] EXCEPT !.pc = pc, !.failed = TRUE, !.todo = todo]
  OBVIOUS
<1> HIDE DEF r
<1>4. /\ r \in Record /\ r.node = req[q].node /\ r.failed = TRUE
      /\ r.pc = pc /\ r.todo = todo
  BY <1>1, <1>r, <1>t DEF Record
<1>5. Honest(q, r)
  BY <1>3, <1>4, <1>t, OneOutcome, NoOutcome DEF Honest
<1>6. Progress(q, r)
  BY <1>2, <1>3, <1>4, <1>5, <1>t, OneOutcome, RouterAssumption DEF Progress, InKind
<1>7. Active(q, req[q]) /\ ~ Active(q, r)
  BY <1>2, <1>4, <1>t, RouterAssumption DEF Active
<1>8. QED
  BY <1>2, <1>6, <1>7, LeavingStep

(* A chunk reports its success, and the match of its worker.                *)
LEMMA ObservedIsObservation ==
  ASSUME IInv, NEW q \in Requests, req[q].pc = "streaming",
         NEW success \in BOOLEAN, NEW latency \in Latencies
  PROVE  LET o == Observed(q, success, latency) IN
         o \in Observation /\ o.success = success /\ o.capability = MatchOf(q)
<1>1. load[req[q].node] - 1 \in Nat
  BY ActiveIsCounted DEF IInv, Active
<1>2. QED
  BY <1>1, MatchOfIsNat, OutcomeIsObservation, RouterAssumption DEF IInv, Observed, Outcome

LEMMA FirstTokenIsHonest ==
  ASSUME IInv, NEW q \in Requests, req[q].pc = "streaming",
         NEW success \in BOOLEAN, NEW latency \in Latencies
  PROVE  LET s == FirstToken(q, success, latency) IN
         /\ s \in Seq(Observation)
         /\ \A i \in DOMAIN s : /\ ~ s[i].success => ~ success
                               /\ s[i].capability = MatchOf(q)
<1> DEFINE o == Observed(q, success, latency)
<1>1. o \in Observation /\ o.success = success /\ o.capability = MatchOf(q)
  BY ObservedIsObservation
<1>2. FirstToken(q, success, latency) = IF req[q].chunks = 0 THEN <<o>> ELSE <<>>
  BY DEF FirstToken
<1> HIDE DEF o
<1>3. QED
  BY <1>1, <1>2, OneOutcome, NoOutcome

LEMMA VelocityIsHonest ==
  ASSUME IInv, NEW q \in Requests, req[q].pc = "streaming",
         NEW latency \in Latencies, NEW carries \in BOOLEAN
  PROVE  LET s == Velocity(q, latency, carries) IN
         /\ s \in Seq(Observation)
         /\ \A i \in DOMAIN s : s[i].success /\ s[i].capability = MatchOf(q)
<1> DEFINE o == Observed(q, TRUE, latency)
<1>1. o \in Observation /\ o.success = TRUE /\ o.capability = MatchOf(q)
  BY ObservedIsObservation
<1>2. Velocity(q, latency, carries) = IF carries THEN <<o>> ELSE <<>>
  BY DEF Velocity
<1> HIDE DEF o
<1>3. QED
  BY <1>1, <1>2, OneOutcome, NoOutcome

(* One after the other, what two sequences of outcomes say holds of both.    *)
LEMMA BothAreHonest ==
  ASSUME NEW s \in Seq(Observation), NEW u \in Seq(Observation)
  PROVE  /\ s \o u \in Seq(Observation)
         /\ \A i \in DOMAIN (s \o u) : \/ \E j \in DOMAIN s : (s \o u)[i] = s[j]
                                      \/ \E j \in DOMAIN u : (s \o u)[i] = u[j]
<1>1. s \o u \in Seq(Observation)
  OBVIOUS
<1>2. ASSUME NEW i \in DOMAIN (s \o u)
      PROVE  \/ \E j \in DOMAIN s : (s \o u)[i] = s[j]
             \/ \E j \in DOMAIN u : (s \o u)[i] = u[j]
  <2>1. i \in 1 .. Len(s) + Len(u)
    OBVIOUS
  <2>2. CASE i <= Len(s)
    BY <2>1, <2>2
  <2>3. CASE i > Len(s)
    <3>1. i - Len(s) \in DOMAIN u /\ (s \o u)[i] = u[i - Len(s)]
      BY <2>1, <2>3
    <3>2. QED
      BY <3>1
  <2>4. QED
    BY <2>1, <2>2, <2>3
<1>3. QED
  BY <1>1, <1>2

LEMMA ChunkKeeps ==
  ASSUME IInv, NEW q \in Requests, NEW success \in BOOLEAN, NEW latency \in Latencies,
         NEW carries \in BOOLEAN, Chunk(q, success, latency, carries)
  PROVE  IInv'
<1> DEFINE s == FirstToken(q, success, latency)
           u == Velocity(q, latency, carries)
           todo == s \o u
           f == req[q].failed \/ ~ success
           r == [req[q] EXCEPT !.pc = "sending", !.chunks = req[q].chunks + 1, !.failed = f, !.todo = todo]
<1>1. RecordsOK /\ TypeOK /\ req[q] \in Record /\ LoadConserved
  BY RecordsHold DEF IInv, RecordsOK
<1>2. req' = [req EXCEPT ![q] = r] /\ req[q].pc = "streaming" /\ UNCHANGED <<trace, load>>
  BY DEF Chunk
<1>3. /\ s \in Seq(Observation)
      /\ \A i \in DOMAIN s : (~ s[i].success => ~ success) /\ s[i].capability = MatchOf(q)
  BY <1>2, FirstTokenIsHonest
<1>4. /\ u \in Seq(Observation)
      /\ \A i \in DOMAIN u : u[i].success /\ u[i].capability = MatchOf(q)
  BY <1>2, VelocityIsHonest
<1> HIDE DEF s, u
<1>5. /\ todo \in Seq(Observation)
      /\ \A i \in DOMAIN todo : (~ todo[i].success => ~ success) /\ todo[i].capability = MatchOf(q)
  BY <1>3, <1>4, BothAreHonest
<1>t. /\ f \in BOOLEAN /\ f = (req[q].failed \/ ~ success)
      /\ req[q].chunks + 1 \in Nat /\ "sending" \in Pcs
  BY <1>1 DEF Record, Pcs
<1> HIDE DEF f, todo
<1>r. r = [req[q] EXCEPT !.pc = "sending", !.chunks = req[q].chunks + 1, !.failed = f, !.todo = todo]
  OBVIOUS
<1> HIDE DEF r
<1>6. /\ r \in Record /\ r.node = req[q].node /\ r.pc = "sending"
      /\ r.failed = f /\ r.todo = todo
  BY <1>1, <1>r, <1>5, <1>t DEF Record
<1>7. Honest(q, r)
  BY <1>5, <1>6, <1>t DEF Honest
<1>8. q \notin Plain
  BY <1>1, <1>2 DEF RecordsOK, InKind
<1>9. Progress(q, r) /\ (Active(q, r) <=> Active(q, req[q]))
  BY <1>2, <1>6, <1>7, <1>8, <1>t DEF Progress, InKind, Active
<1>10. QED
  BY <1>2, <1>9, StayingStep

LEMMA LastChunkKeeps ==
  ASSUME IInv, NEW q \in Requests, NEW success \in BOOLEAN, NEW latency \in Latencies,
         NEW first \in BOOLEAN, LastChunk(q, success, latency, first)
  PROVE  IInv'
<1> DEFINE s == FirstToken(q, success, latency)
           todo == IF first THEN s ELSE <<>>
           f == req[q].failed \/ ~ success
           r == [req[q] EXCEPT !.pc = "sending", !.last = TRUE, !.failed = f, !.todo = todo]
<1>1. RecordsOK /\ TypeOK /\ req[q] \in Record /\ LoadConserved
  BY RecordsHold DEF IInv, RecordsOK
<1>2. req' = [req EXCEPT ![q] = r] /\ req[q].pc = "streaming" /\ UNCHANGED <<trace, load>>
  BY DEF LastChunk
<1>3. /\ s \in Seq(Observation)
      /\ \A i \in DOMAIN s : (~ s[i].success => ~ success) /\ s[i].capability = MatchOf(q)
  BY <1>2, FirstTokenIsHonest
<1> HIDE DEF s
<1>t. /\ todo \in Seq(Observation) /\ f \in BOOLEAN /\ f = (req[q].failed \/ ~ success)
      /\ \A i \in DOMAIN todo : (~ todo[i].success => ~ success) /\ todo[i].capability = MatchOf(q)
      /\ "sending" \in Pcs
  BY <1>1, <1>3, NoOutcome DEF Record, Pcs
<1> HIDE DEF f, todo
<1>r. r = [req[q] EXCEPT !.pc = "sending", !.last = TRUE, !.failed = f, !.todo = todo]
  OBVIOUS
<1> HIDE DEF r
<1>4. /\ r \in Record /\ r.node = req[q].node /\ r.pc = "sending"
      /\ r.failed = f /\ r.todo = todo
  BY <1>1, <1>r, <1>t DEF Record
<1>5. Honest(q, r)
  BY <1>4, <1>t DEF Honest
<1>6. q \notin Plain
  BY <1>1, <1>2 DEF RecordsOK, InKind
<1>7. Progress(q, r) /\ (Active(q, r) <=> Active(q, req[q]))
  BY <1>2, <1>4, <1>5, <1>6, <1>t DEF Progress, InKind, Active
<1>8. QED
  BY <1>2, <1>7, StayingStep

-----------------------------------------------------------------------------
(* The steps that only move a request on. *)
LEMMA GotoKeeps ==
  ASSUME IInv, NEW q \in Requests, NEW pc \in Pcs, Goto(q, pc),
         req[q].pc \notin {"new", "running"}, pc \notin {"new", "running"},
         pc = "deposit" => req[q].todo # <<>>,
         InKind(q, [req[q] EXCEPT !.pc = pc]), UNCHANGED trace,
         LET r == [req[q] EXCEPT !.pc = pc] IN
         \/ UNCHANGED load /\ (Active(q, r) <=> Active(q, req[q]))
         \/ Leave(req[q].node) /\ Active(q, req[q]) /\ ~ Active(q, r)
  PROVE  IInv'
<1> DEFINE r == [req[q] EXCEPT !.pc = pc]
<1>1. RecordsOK /\ TypeOK /\ req[q] \in Record
  BY RecordsHold DEF IInv, RecordsOK
<1>2. /\ r \in Record /\ r.node = req[q].node /\ r.pc = pc
      /\ r.todo = req[q].todo /\ r.failed = req[q].failed
  BY <1>1 DEF Record
<1>3. req' = [req EXCEPT ![q] = r]
  BY DEF Goto
<1>4. InKind(q, r)
  OBVIOUS
<1>5. \/ UNCHANGED load /\ (Active(q, r) <=> Active(q, req[q]))
      \/ Leave(req[q].node) /\ Active(q, req[q]) /\ ~ Active(q, r)
  OBVIOUS
<1> HIDE DEF r
<1>6. Honest(q, r)
  BY <1>1, <1>2 DEF RecordsOK, Honest
<1>7. Progress(q, r)
  BY <1>2, <1>3, <1>4, <1>6 DEF Progress
<1>8. QED
  BY <1>5, <1>7, StayingStep, LeavingStep

LEMMA SentKeeps ==
  ASSUME IInv, NEW q \in Requests, Sent(q)
  PROVE  IInv'
<1> DEFINE pc == IF req[q].todo = <<>> THEN AfterDeposits(q) ELSE "deposit"
           r == [req[q] EXCEPT !.pc = pc]
<1>1. RecordsOK /\ req[q] \in Record
  BY RecordsHold DEF RecordsOK
<1>2. q \in Streams /\ q \notin Plain
  BY <1>1 DEF Sent, RecordsOK, InKind, Requests
<1>3. pc \in {"closing", "streaming", "deposit"} /\ (pc = "deposit" => req[q].todo # <<>>)
  BY <1>2 DEF AfterDeposits
<1>4. Goto(q, pc) /\ UNCHANGED <<trace, load>> /\ req[q].pc = "sending"
  BY DEF Sent
<1> HIDE DEF pc
<1>5. r.pc = pc
  BY <1>1 DEF Record
<1>6. InKind(q, r) /\ (Active(q, r) <=> Active(q, req[q]))
  BY <1>2, <1>3, <1>4, <1>5 DEF InKind, Active
<1>7. QED
  BY <1>3, <1>4, <1>6, GotoKeeps DEF Pcs

LEMMA MoveKeeps ==
  ASSUME IInv, NEW q \in Requests,
         DepositFails(q) \/ Close(q) \/ Collect(q) \/ Disconnect(q)
  PROVE  IInv'
<1>1. RecordsOK /\ req[q] \in Record
  BY RecordsHold DEF RecordsOK
<1>2. \A pc \in Pcs : [req[q] EXCEPT !.pc = pc].pc = pc
  BY <1>1 DEF Record
<1>3. CASE DepositFails(q)
  <2> DEFINE pc == IF q \in Plain THEN "done" ELSE "orphan"
             r == [req[q] EXCEPT !.pc = pc]
  <2>1. /\ pc \in {"done", "orphan"} /\ (q \in Plain <=> pc = "done")
        /\ Goto(q, pc) /\ UNCHANGED <<trace, load>> /\ req[q].pc = "deposit"
    BY <1>3 DEF DepositFails
  <2> HIDE DEF pc
  <2>2. r.pc = pc
    BY <1>2, <2>1 DEF Pcs
  <2>3. InKind(q, r) /\ (Active(q, r) <=> Active(q, req[q]))
    BY <2>1, <2>2, RouterAssumption DEF InKind, Active, Requests
  <2>4. QED
    BY <2>1, <2>3, GotoKeeps DEF Pcs
<1>4. CASE Close(q) \/ Collect(q)
  <2> DEFINE r == [req[q] EXCEPT !.pc = "done"]
  <2>1. /\ Goto(q, "done") /\ UNCHANGED trace /\ Leave(req[q].node)
        /\ req[q].pc \in {"streaming", "closing", "orphan"}
    BY <1>4 DEF Close, Collect
  <2>2. r.pc = "done"
    BY <1>2 DEF Pcs
  <2>3. InKind(q, r) /\ Active(q, req[q]) /\ ~ Active(q, r)
    BY <2>1, <2>2 DEF InKind, Active
  <2>4. QED
    BY <2>1, <2>3, GotoKeeps DEF Pcs
<1>5. CASE Disconnect(q)
  <2> DEFINE r == [req[q] EXCEPT !.pc = "orphan"]
  <2>1. /\ Goto(q, "orphan") /\ UNCHANGED <<trace, load>> /\ q \in Streams
        /\ req[q].pc \in {"streaming", "sending", "deposit"}
    BY <1>5 DEF Disconnect
  <2>2. r.pc = "orphan"
    BY <1>2 DEF Pcs
  <2>3. InKind(q, r) /\ (Active(q, r) <=> Active(q, req[q]))
    BY <2>1, <2>2, RouterAssumption DEF InKind, Active
  <2>4. QED
    BY <2>1, <2>3, GotoKeeps DEF Pcs
<1>6. QED
  BY <1>3, <1>4, <1>5

-----------------------------------------------------------------------------
(* The steps that change the field. *)

LEMMA FullStaysFull ==
  /\ Ewma(Unit, Unit) = Unit
  /\ ClampedMatch(Unit) = Unit
BY TracesAssumption DEF Ewma, ClampedMatch

(* A success keeps a full V, a full match keeps a full C. *)
LEMMA DepositKeepsFull ==
  ASSUME NEW t \in Trace, NEW o \in Observation
  PROVE  /\ t["V"] = Unit /\ o.success => Deposited(t, o)["V"] = Unit
         /\ t["C"] = Unit /\ o.capability = Unit => Deposited(t, o)["C"] = Unit
<1>1. Deposited(t, o)["V"] = Ewma(IF o.success THEN Unit ELSE 0, t["V"])
  BY DEF Deposited, Trace, Columns
<1>2. Deposited(t, o)["C"] = Ewma(ClampedMatch(o.capability), t["C"])
  BY DEF Deposited, Trace, Columns
<1>3. QED
  BY <1>1, <1>2, FullStaysFull

(* The field of the contract computes its traces as this module does. *)
LEMMA FieldTraces ==
  /\ \A t, o : Field!Deposited(t, o) = Deposited(t, o)
  /\ \A t, rate : Field!Evaporated(t, rate) = Evaporated(t, rate)
BY DEF Field!Deposited, Field!Ewma, Field!ClampedMatch, Deposited, Ewma, ClampedMatch,
       Field!Evaporated, Field!Lasting, Field!Columns, Evaporated, Lasting, Columns

LEMMA DepositKeeps ==
  ASSUME IInv, NEW q \in Requests, Deposit(q)
  PROVE  IInv'
<1> DEFINE n == req[q].node
           o == Head(req[q].todo)
           rest == Tail(req[q].todo)
           pc == IF rest = <<>> THEN AfterDeposits(q) ELSE "deposit"
           r == [req[q] EXCEPT !.todo = rest, !.pc = pc]
<1>1. RecordsOK /\ TypeOK /\ req[q] \in Record /\ n \in Nodes
  BY RecordsHold DEF IInv, RecordsOK, Record
<1>2. /\ req' = [req EXCEPT ![q] = r] /\ req[q].pc = "deposit" /\ load' = load
      /\ trace' = [trace EXCEPT ![n] = Deposited(@, o)]
  <2>1. /\ req[q].pc = "deposit" /\ load' = load
        /\ Field!Deposit(n, o)
        /\ req' = [req EXCEPT ![q].todo = rest,
                              ![q].pc = IF rest = <<>> THEN AfterDeposits(q) ELSE @]
    BY DEF Deposit
  <2>2. [req[q] EXCEPT !.todo = rest, !.pc = IF rest = <<>> THEN AfterDeposits(q) ELSE @] = r
    BY <2>1
  <2>3. req' = [req EXCEPT ![q] = r]
    <3>1. req \in [Requests -> Record]
      BY <1>1 DEF RecordsOK
    <3>2. req' = [req EXCEPT ![q].todo = rest, ![q].pc = pc]
      BY <2>1
    <3>3. QED
      BY <3>1, <3>2
  <2>4. trace' = [trace EXCEPT ![n] = Deposited(@, o)]
    BY <2>1, FieldTraces DEF Field!Deposit
  <2>5. QED
    BY <2>1, <2>3, <2>4
<1>3. /\ req[q].todo \in Seq(Observation) /\ req[q].todo # <<>>
      /\ Honest(q, req[q]) /\ InKind(q, req[q])
  BY <1>1, <1>2 DEF RecordsOK, Record
<1>4. o \in Observation /\ o = req[q].todo[1] /\ 1 \in DOMAIN req[q].todo
  BY <1>3
<1>5. rest \in Seq(Observation) /\ \A i \in DOMAIN rest : i + 1 \in DOMAIN req[q].todo /\ rest[i] = req[q].todo[i + 1]
  BY <1>3
<1>6. (~ o.success => req[q].failed) /\ o.capability = MatchOf(q)
  BY <1>3, <1>4 DEF Honest
<1>7. /\ pc \in Pcs /\ pc \notin {"new", "running"} /\ (pc = "deposit" => rest # <<>>)
      /\ q \in Plain => pc \in {"deposit", "done"}
      /\ q \notin Plain => pc \in {"deposit", "closing", "streaming"}
  BY DEF AfterDeposits, Pcs
<1> HIDE DEF rest, pc, o
<1>8. /\ r \in Record /\ r.node = n /\ r.pc = pc /\ r.todo = rest
      /\ r.failed = req[q].failed
  BY <1>1, <1>5, <1>7 DEF Record
<1> HIDE DEF r
<1>9. Honest(q, r)
  BY <1>3, <1>5, <1>7, <1>8 DEF Honest
<1>10. InKind(q, r)
  BY <1>7, <1>8 DEF InKind
<1>11. Progress(q, r)
  BY <1>2, <1>7, <1>8, <1>9, <1>10 DEF Progress
<1>12. Active(q, r) <=> Active(q, req[q])
  BY <1>2, <1>7, <1>8, RouterAssumption DEF Active, Requests
<1>13. LoadConserved'
  BY <1>2, <1>8, <1>12, LoadStays DEF IInv
<1>14. RecordsOK'
  BY <1>11, ProgressKeepsRecords
<1>15. trace[n] \in Trace /\ Deposited(trace[n], o) \in Trace
  BY <1>1, <1>4, DepositedIsTrace DEF TypeOK
<1>16. trace' \in [Nodes -> Trace]
  BY <1>1, <1>2, <1>15 DEF TypeOK
<1>17. TypeOK'
  BY <1>1, <1>2, <1>14, <1>16 DEF RecordsOK, TypeOK, Record, Pcs
<1>18. /\ trace'[n] = Deposited(trace[n], o)
       /\ \A m \in Nodes \ {n} : trace'[m] = trace[m]
  BY <1>1, <1>2 DEF TypeOK
<1>19. /\ trace[n]["V"] \in 0 .. Unit /\ trace[n]["C"] \in 0 .. Unit
       /\ trace'[n]["V"] \in 0 .. Unit /\ trace'[n]["C"] \in 0 .. Unit
  BY <1>15, <1>18, TracesAssumption DEF Trace, Columns
<1>20. req'[q] = r
  BY <1>1, <1>2, OthersStay
<1>21. NoFalseBlame'
  <2> SUFFICES ASSUME NEW m \in Nodes, ~ DecaySuccess, trace'[m]["V"] < Unit
               PROVE  Blamed(m)'
    BY DEF NoFalseBlame, Blamed
  <2>1. CASE trace[m]["V"] < Unit
    <3>1. Blamed(m)
      BY <2>1 DEF IInv, NoFalseBlame, Blamed
    <3>2. QED
      BY <3>1, <1>11, ProgressKeepsWitnesses
  <2>2. CASE ~ (trace[m]["V"] < Unit)
    <3>1. m = n
      BY <2>2, <1>18
    <3>2. trace[n]["V"] = Unit
      BY <2>2, <3>1, <1>19, TracesAssumption
    <3>3. ~ o.success
      BY <3>1, <3>2, <1>4, <1>15, <1>18, <1>19, TracesAssumption, DepositKeepsFull
    <3>4. r.failed /\ r.node = m
      BY <3>1, <3>3, <1>6, <1>8
    <3>5. QED
      BY <3>4, <1>20 DEF Blamed
  <2>3. QED
    BY <2>1, <2>2
<1>22. CapabilityEarned'
  <2> SUFFICES ASSUME NEW m \in Nodes, ~ DecayCapability, trace'[m]["C"] < Unit
               PROVE  Unfit(m)'
    BY DEF CapabilityEarned, Unfit, FitsFully
  <2>1. CASE trace[m]["C"] < Unit
    <3>1. Unfit(m)
      BY <2>1 DEF IInv, CapabilityEarned, Unfit
    <3>2. QED
      BY <3>1, <1>11, ProgressKeepsWitnesses
  <2>2. CASE ~ (trace[m]["C"] < Unit)
    <3>1. m = n
      BY <2>2, <1>18
    <3>2. trace[n]["C"] = Unit
      BY <2>2, <3>1, <1>19, TracesAssumption
    <3>3. o.capability # Unit
      BY <3>1, <3>2, <1>4, <1>15, <1>18, <1>19, TracesAssumption, DepositKeepsFull
    <3>4. q \in Plain => ~ FitsFully(q, n)
      BY <3>3, <1>1, <1>6, FullFitMatches DEF MatchOf
    <3>5. r.node = m /\ r.pc # "new"
      BY <3>1, <1>7, <1>8
    <3>6. QED
      BY <3>1, <3>4, <3>5, <1>20 DEF Unfit, FitsFully
  <2>3. QED
    BY <2>1, <2>2
<1>23. QED
  BY <1>13, <1>14, <1>17, <1>21, <1>22 DEF IInv, RecordsOK

LEMMA DecayKeeps ==
  ASSUME IInv, Decay
  PROVE  IInv'
<1>1. /\ trace' = [m \in Nodes |-> Evaporated(trace[m], Rate)]
      /\ UNCHANGED <<load, req>>
  <2>1. DOMAIN trace = Nodes
    BY DEF IInv, TypeOK
  <2>2. QED
    BY <2>1, FieldTraces DEF Decay, Field!Evaporate
<1>2. trace' \in [Nodes -> Trace]
  BY <1>1, EvaporatedIsTrace, RouterAssumption DEF IInv, TypeOK
<1>3. \A n \in Nodes : /\ ~ DecaySuccess => trace'[n]["V"] = trace[n]["V"]
                       /\ ~ DecayCapability => trace'[n]["C"] = trace[n]["C"]
  BY <1>1 DEF Evaporated, Lasting, Columns
<1>4. TypeOK' /\ LoadConserved'
  BY <1>1, <1>2 DEF IInv, TypeOK, LoadConserved, At
<1>5. NoFalseBlame' /\ CapabilityEarned'
  <2>1. req' = req
    BY <1>1
  <2>2. \A n \in Nodes : (Blamed(n) => Blamed(n)') /\ (Unfit(n) => Unfit(n)')
    BY <2>1 DEF Blamed, Unfit, FitsFully
  <2>3. NoFalseBlame'
    <3> SUFFICES ASSUME NEW n \in Nodes, ~ DecaySuccess, trace'[n]["V"] < Unit
                 PROVE  Blamed(n)'
      BY DEF NoFalseBlame, Blamed
    <3>1. trace'[n]["V"] = trace[n]["V"]
      BY <1>3
    <3>2. Blamed(n)
      BY <3>1 DEF IInv, NoFalseBlame, Blamed
    <3>3. QED
      BY <2>2, <3>2
  <2>4. CapabilityEarned'
    <3> SUFFICES ASSUME NEW n \in Nodes, ~ DecayCapability, trace'[n]["C"] < Unit
                 PROVE  Unfit(n)'
      BY DEF CapabilityEarned, Unfit, FitsFully
    <3>1. trace'[n]["C"] = trace[n]["C"]
      BY <1>3
    <3>2. Unfit(n)
      BY <3>1 DEF IInv, CapabilityEarned, Unfit
    <3>3. QED
      BY <2>2, <3>2
  <2>5. QED
    BY <2>3, <2>4
<1>6. QED
  BY <1>1, <1>4, <1>5 DEF IInv, InKind, Honest, MatchOf

LEMMA NextKeeps == IInv /\ [Next]_vars => IInv'
<1> SUFFICES ASSUME IInv, [Next]_vars PROVE IInv'
  OBVIOUS
<1>1. ASSUME NEW q \in Requests, NEW n \in Nodes, Route(q, n) PROVE IInv'
  BY <1>1, RouteKeeps
<1>2. ASSUME NEW q \in Requests, Step(q) PROVE IInv'
  BY <1>2, FinishKeeps, ChunkKeeps, LastChunkKeeps, RaiseKeeps, SentKeeps,
     DepositKeeps, MoveKeeps DEF Step
<1>3. ASSUME NEW q \in Requests, Disconnect(q) PROVE IInv'
  BY <1>3, MoveKeeps
<1>4. CASE Decay
  BY <1>4, DecayKeeps
<1>5. CASE UNCHANGED vars
  BY <1>5 DEF vars, IInv, TypeOK, LoadConserved, At, NoFalseBlame, CapabilityEarned,
              FitsFully, InKind, Honest, MatchOf
<1>6. QED
  BY <1>1, <1>2, <1>3, <1>4, <1>5 DEF Next

LEMMA Invariance == Spec => []IInv
BY InitHolds, NextKeeps, PTL DEF Spec

-----------------------------------------------------------------------------
(* What makes a node attractive: products of natural numbers rise with their *)
(* factors, and so do the two halves of a score.                             *)
LEMMA ProductsRise ==
    ASSUME NEW a \in Nat, NEW b \in Nat, NEW c \in Nat, NEW d \in Nat, a <= b, c <= d
    PROVE  a * c <= b * d
<1>1. \A x, y, z \in Nat : x <= y => x * z <= y * z
  OBVIOUS
<1>2. a * c <= b * c /\ c * b <= d * b
  BY <1>1
<1>3. c * b = b * c /\ d * b = b * d
  OBVIOUS
<1> DEFINE ac == a * c
           bc == b * c
           bd == b * d
<1>4. ac \in Nat /\ bc \in Nat /\ bd \in Nat /\ ac <= bc /\ bc <= bd
  BY <1>2, <1>3
<1> HIDE DEF ac, bc, bd
<1>5. ac <= bd
  BY <1>4
<1>6. QED
  BY <1>5 DEF ac, bd

LEMMA SumsRise ==
    ASSUME NEW k \in Nat, NEW l \in Nat, NEW e \in Nat,
           NEW a \in Nat, NEW b \in Nat, NEW c \in Nat, NEW d \in Nat, a <= b, c <= d
    PROVE  /\ k * a + l * c + e \in Nat /\ k * b + l * d + e \in Nat
           /\ k * a + l * c + e <= k * b + l * d + e
<1> DEFINE ka == k * a
           kb == k * b
           lc == l * c
           ld == l * d
<1>1. ka <= kb /\ lc <= ld
  BY ProductsRise
<1>2. ka \in Nat /\ kb \in Nat /\ lc \in Nat /\ ld \in Nat
  OBVIOUS
<1> HIDE DEF ka, kb, lc, ld
<1>3. /\ ka + lc + e \in Nat /\ kb + ld + e \in Nat
      /\ ka + lc + e <= kb + ld + e
  BY <1>1, <1>2
<1>4. QED
  BY <1>3 DEF ka, kb, lc, ld

(* The governance of a tier scales natural weights to natural weights. *)
LEMMA WeightsAreNat ==
    ASSUME NEW tier \in Tiers
    PROVE  LET w == GovernedWeights(tier) IN
           /\ w.alpha \in Nat /\ w.beta \in Nat /\ w.gamma \in Nat
           /\ w.delta \in Nat /\ w.eps \in Nat
<1>1. /\ Alpha \in Nat /\ Beta \in Nat /\ Gamma \in Nat /\ Delta \in Nat /\ Eps \in Nat
  BY ScoreAssumption
<1>2. tier \in {"enterprise", "free", "pro"} /\ NormalizedTier(tier) = tier
  BY DEF Tiers, Multipliers, NormalizedTier
<1> DEFINE m == Multipliers[tier]
<1>3. m.alpha \in Nat /\ m.beta \in Nat /\ m.gamma \in Nat /\ m.delta \in Nat
  <2>1. CASE tier = "enterprise"
    BY <2>1 DEF Multipliers
  <2>2. CASE tier = "free"
    BY <2>2 DEF Multipliers
  <2>3. CASE tier = "pro"
    BY <2>3 DEF Multipliers
  <2>4. QED
    BY <1>2, <2>1, <2>2, <2>3
<1> HIDE DEF m
<1>4. /\ Alpha * m.alpha \in Nat /\ Beta * m.beta \in Nat /\ Gamma * m.gamma \in Nat
      /\ Delta * m.delta \in Nat /\ 10 * Eps \in Nat
  BY <1>1, <1>3
<1>5. GovernedWeights(tier) =
        [alpha |-> Alpha * m.alpha, beta |-> Beta * m.beta,
         gamma |-> Gamma * m.gamma, delta |-> Delta * m.delta, eps |-> 10 * Eps]
  BY <1>2 DEF GovernedWeights, m
<1>6. QED
  BY <1>4, <1>5

(* A trace with no more success and fit and no less latency and load.       *)
LEMMA WorseRepels ==
    ASSUME NEW u \in Trace, NEW t \in Trace, NEW tier \in Tiers,
           u["V"] <= t["V"], u["C"] <= t["C"], t["L"] <= u["L"], t["S"] <= u["S"]
    PROVE  NoMoreAttractive(u, t, GovernedWeights(tier))
<1>1. PICK w : w = GovernedWeights(tier)
  OBVIOUS
<1>2. w.alpha \in Nat /\ w.beta \in Nat /\ w.gamma \in Nat /\ w.delta \in Nat /\ w.eps \in Nat
  BY <1>1, WeightsAreNat
<1>3. /\ u["V"] \in Nat /\ u["C"] \in Nat /\ u["L"] \in Nat /\ u["S"] \in Nat
      /\ t["V"] \in Nat /\ t["C"] \in Nat /\ t["L"] \in Nat /\ t["S"] \in Nat
  BY DEF Trace, Columns
<1>4. /\ Attraction(u, w) \in Nat /\ Attraction(t, w) \in Nat
      /\ Attraction(u, w) <= Attraction(t, w)
  BY <1>2, <1>3, SumsRise DEF Attraction
<1>5. /\ Repulsion(t, w) \in Nat /\ Repulsion(u, w) \in Nat
      /\ Repulsion(t, w) <= Repulsion(u, w)
  BY <1>2, <1>3, SumsRise DEF Repulsion
<1>6. QED
  BY <1>1, <1>4, <1>5, ProductsRise DEF NoMoreAttractive

(* The moving average moves no column of a slow failure the wrong way.      *)
LEMMA SlowFailureIsWorse ==
    ASSUME NEW t \in Trace, NEW o \in Observation, ~ o.success,
           o.latency >= t["L"], o.load >= t["S"], o.capability <= t["C"]
    PROVE  LET u == Deposited(t, o) IN
           u["V"] <= t["V"] /\ u["C"] <= t["C"] /\ t["L"] <= u["L"] /\ t["S"] <= u["S"]
<1> DEFINE u == Deposited(t, o)
<1>1. /\ t["V"] \in 0 .. Unit /\ t["C"] \in 0 .. Unit
      /\ t["L"] \in Nat /\ t["S"] \in Nat /\ Unit \in Nat
      /\ o.latency \in Nat /\ o.load \in Nat /\ o.capability \in Int
  BY TracesAssumption DEF Trace, Columns, Observation
<1>2. /\ u["V"] = Ewma(0, t["V"]) /\ u["L"] = Ewma(o.latency, t["L"]) /\ u["S"] = o.load
      /\ u["C"] = Ewma(ClampedMatch(o.capability), t["C"])
  BY DEF Deposited, Trace, Columns
<1>3. Ewma(0, t["V"]) <= t["V"]
  BY <1>1 DEF Ewma
<1>4. t["L"] <= Ewma(o.latency, t["L"])
  BY <1>1 DEF Ewma
<1>5. ClampedMatch(o.capability) \in Int /\ ClampedMatch(o.capability) <= t["C"]
  BY <1>1 DEF ClampedMatch
<1>6. Ewma(ClampedMatch(o.capability), t["C"]) <= t["C"]
  BY <1>1, <1>5 DEF Ewma
<1>7. QED
  BY <1>1, <1>2, <1>3, <1>4, <1>6

-----------------------------------------------------------------------------
(* Every variable keeps its shape, and no load is ever negative. *)
THEOREM TypeCorrect == Spec => []TypeOK
<1>1. IInv => TypeOK
  BY DEF IInv
<1>2. QED
  BY <1>1, Invariance, PTL

(* A worker's load is the number of requests it holds. *)
THEOREM LoadIsConserved == Spec => []LoadConserved
<1>1. IInv => LoadConserved
  BY DEF IInv
<1>2. QED
  BY <1>1, Invariance, PTL

(* A node is blamed for no failure but its own. *)
THEOREM BlameIsEarned == Spec => []NoFalseBlame
<1>1. IInv => NoFalseBlame
  BY DEF IInv
<1>2. QED
  BY <1>1, Invariance, PTL

(* A node that fits what it is asked keeps its full capability trace. *)
THEOREM CapabilityIsEarned == Spec => []CapabilityEarned
<1>1. IInv => CapabilityEarned
  BY DEF IInv
<1>2. QED
  BY <1>1, Invariance, PTL

(* A slow failure under load, of no better match, never makes its node more  *)
(* attractive to any tier, for all weights and traces.                       *)
THEOREM SlowFailuresRepel == Spec => SlowFailureRepels
<1>1. ASSUME IInv, Next, NEW q \in Requests, NEW tier \in Tiers, FailureOf(q),
             Head(req[q].todo).latency >= trace[req[q].node]["L"],
             Head(req[q].todo).load >= trace[req[q].node]["S"],
             Head(req[q].todo).capability <= trace[req[q].node]["C"]
      PROVE  NoMoreAttractive(trace'[req[q].node], trace[req[q].node], GovernedWeights(tier))
  <2> DEFINE n == req[q].node
             o == Head(req[q].todo)
  <2>1. Deposit(q)
    <3>1. trace' # trace /\ req'[q] # req[q]
      BY <1>1 DEF FailureOf
    <3>2. \E p \in Requests : Deposit(p)
      <4>1. ~ Decay
        BY <3>1 DEF Decay
      <4>2. ASSUME NEW p \in Requests, ~ Deposit(p),
                   (\E m \in Nodes : Route(p, m)) \/ Step(p) \/ Disconnect(p)
            PROVE  trace' = trace
        BY <4>2 DEF Route, Step, Finish, Chunk, LastChunk, Raise, Sent, DepositFails, Close,
           Collect, Disconnect
      <4>3. QED
        BY <1>1, <3>1, <4>1, <4>2 DEF Next
    <3>3. ASSUME NEW p \in Requests, Deposit(p), p # q PROVE req'[q] = req[q]
      BY <1>1, <3>3 DEF Deposit, IInv, TypeOK
    <3>4. QED
      BY <3>1, <3>2, <3>3
  <2>2. /\ n \in Nodes /\ o \in Observation /\ trace \in [Nodes -> Trace] /\ ~ o.success
    <3>1. /\ req[q].todo \in Seq(Observation) /\ req[q].todo # <<>> /\ n \in Nodes
          /\ trace \in [Nodes -> Trace]
      BY <1>1, <2>1 DEF IInv, TypeOK, Deposit
    <3>2. QED
      BY <1>1, <3>1 DEF FailureOf
  <2>3. trace'[n] = Deposited(trace[n], o)
    <3>1. Field!Deposit(n, o)
      BY <2>1 DEF Deposit
    <3>2. QED
      BY <2>2, <3>1, FieldTraces DEF Field!Deposit
  <2>4. trace[n] \in Trace /\ trace'[n] \in Trace
    BY <2>2, <2>3, DepositedIsTrace
  <2>5. /\ trace'[n]["V"] <= trace[n]["V"] /\ trace'[n]["C"] <= trace[n]["C"]
        /\ trace[n]["L"] <= trace'[n]["L"] /\ trace[n]["S"] <= trace'[n]["S"]
    BY <1>1, <2>2, <2>3, <2>4, SlowFailureIsWorse
  <2>6. QED
    BY <2>4, <2>5, WorseRepels
<1>2. IInv /\ Next =>
        \A q \in Requests, tier \in Tiers :
          LET t == trace[req[q].node]  o == Head(req[q].todo) IN
          (FailureOf(q) /\ o.latency >= t["L"] /\ o.load >= t["S"] /\ o.capability <= t["C"])
              => NoMoreAttractive(trace'[req[q].node], t, GovernedWeights(tier))
  BY <1>1
<1>3. QED
  BY <1>2, Invariance, PTL DEF Spec, SlowFailureRepels

(* The mesh is a legal user of its field: all it does to the traces, in any   *)
(* interleaving of requests, engine, failures and clients that leave, are     *)
(* deposits of outcomes for nodes the field tracks and evaporations at a      *)
(* legal rate: it stays within what the contract of the field allows.         *)
THEOREM MeshUsesField == Spec => Field!Spec
<1>1. Init => Field!Init
  BY DEF Init
<1>2. ASSUME IInv, [Next]_vars PROVE [Field!Next]_trace
  <2>1. ASSUME NEW q \in Requests, Deposit(q) PROVE Field!Next
    <3>1. /\ req[q].todo \in Seq(Observation) /\ req[q].todo # <<>>
          /\ req[q].node \in Nodes
      BY <1>2, <2>1 DEF IInv, TypeOK, Deposit
    <3>2. Head(req[q].todo) \in Observation
      BY <3>1
    <3>3. Field!Deposit(req[q].node, Head(req[q].todo))
      BY <2>1 DEF Deposit
    <3>4. QED
      BY <3>1, <3>2, <3>3 DEF Field!Next
  <2>2. CASE Decay
    BY <2>2 DEF Decay, Field!Next
  <2>3. ASSUME NEW q \in Requests, ~ Deposit(q),
               (\E n \in Nodes : Route(q, n)) \/ Step(q) \/ Disconnect(q)
        PROVE  UNCHANGED trace
    BY <2>3 DEF Route, Step, Finish, Chunk, LastChunk, Raise, Sent, DepositFails, Close,
       Collect, Disconnect
  <2>4. CASE UNCHANGED vars
    BY <2>4 DEF vars
  <2>5. QED
    BY <1>2, <2>1, <2>2, <2>3, <2>4 DEF Next
<1>3. IInv /\ [Next]_vars => [Field!Next]_trace
  BY <1>2
<1>4. QED
  BY <1>1, <1>3, Invariance, PTL DEF Spec, Field!Spec
=============================================================================
