-------------------------- MODULE TraceDecayProofs --------------------------
(***************************************************************************)
(* Proofs about TraceDecay, for any number of engines and requests, any    *)
(* interval, any difference of clocks and any length of time: an observation fades by no more than   *)
(* is accounted for, and no engine runs ahead of its interval.             *)
(***************************************************************************)
EXTENDS TraceDecay, TLAPS

USE DecayAssumption

(* No time or exponent goes below zero, and no clock has yet to show it. *)
THEOREM TypeCorrect == Spec => []TypeOK
<1>1. Init => TypeOK
  BY DEF Init, TypeOK, Asleep, Idle
<1>2. TypeOK /\ [Next]_vars => TypeOK'
  <2> SUFFICES ASSUME TypeOK, [Next]_vars PROVE TypeOK'
    OBVIOUS
  <2> USE DEF TypeOK
  <2>1. CASE Tick
    BY <2>1 DEF Tick
  <2>2. ASSUME NEW e \in Engines, Wake(e) PROVE TypeOK'
    <3>1. engine' = [engine EXCEPT ![e] = [@ EXCEPT !.pc = "read", !.now = Now(e)]]
      BY <2>2 DEF Wake
    <3>2. Now(e) \in Nat /\ Now(e) <= clock + MaxSkew
      BY DEF Now
    <3>3. [engine[e] EXCEPT !.pc = "read", !.now = Now(e)]
            \in [pc : {"sleep", "read", "write"}, wake : Nat, now : Nat, raw : Nat]
      BY <3>2
    <3>4. \A f \in Engines : engine'[f].now <= clock + MaxSkew
      BY <3>1, <3>2
    <3>5. QED
      BY <2>2, <3>1, <3>3, <3>4 DEF Wake
  <2>3. ASSUME NEW e \in Engines, Read(e) PROVE TypeOK'
    BY <2>3 DEF Read
  <2>4. ASSUME NEW e \in Engines, Write(e) PROVE TypeOK'
    BY <2>4 DEF Write, Stamp, Positive, Asleep
  <2>5. ASSUME NEW q \in Requests, Send(q) PROVE TypeOK'
    BY <2>5 DEF Send, Now
  <2>6. ASSUME NEW q \in Requests, Eval(q) PROVE TypeOK'
    BY <2>6 DEF Eval, Stamp, Positive, Idle
  <2>7. CASE UNCHANGED vars
    BY <2>7 DEF vars
  <2>8. QED
    BY <2>1, <2>2, <2>3, <2>4, <2>5, <2>6, <2>7 DEF Next
<1>3. QED
  BY <1>1, <1>2, PTL DEF Spec

-----------------------------------------------------------------------------
(* What has been accounted for of the time before a moment. *)
Account == ts + setBack + Interval * total

(* The exponent stays within the account, and so does what an engine has     *)
(* read: the account never falls while it holds the value.                  *)
Ledger ==
    /\ decayed <= Account
    /\ \A e \in Engines : engine[e].pc = "write" => engine[e].raw <= Account

(* An engine's next evaporation is an interval after its last one, and it is *)
(* awake only when that time has come.                                      *)
Pace ==
    \A e \in Engines :
        /\ Interval * runs[e] <= engine[e].wake
        /\ engine[e].wake <= clock + Interval
        /\ engine[e].pc # "sleep" => engine[e].wake <= clock

(* Moving ts costs the account nothing. *)
LEMMA StampKeeps ==
  ASSUME TypeOK, NEW now \in Nat, Stamp(now)
  PROVE  /\ ts' \in Nat /\ setBack' \in Nat
         /\ ts + setBack <= ts' + setBack'
         /\ Positive(now - ts) + ts + setBack <= ts' + setBack'
BY DEF TypeOK, Stamp, Positive

(* An observation fades by no more than the time that has passed, the largest *)
(* difference of two clocks, the time by which ts was moved back, and an     *)
(* interval per evaporation.                                                *)
THEOREM DecayIsAccounted == Spec => []DecayAccounted
<1>1. Init => Ledger
  BY DEF Init, Ledger, Account, Asleep
<1>2. TypeOK /\ TypeOK' /\ Ledger /\ [Next]_vars => Ledger'
  <2> SUFFICES ASSUME TypeOK, TypeOK', Ledger, [Next]_vars PROVE Ledger'
    OBVIOUS
  <2>0. Interval * total \in Nat /\ Interval * (total + 1) = Interval * total + Interval
    BY DEF TypeOK
  <2>1. CASE Tick
    BY <2>1 DEF Tick, Ledger, Account
  <2>2. ASSUME NEW e \in Engines, Wake(e) PROVE Ledger'
    BY <2>2 DEF Wake, Ledger, Account, TypeOK
  <2>3. ASSUME NEW e \in Engines, Read(e) PROVE Ledger'
    BY <2>3 DEF Read, Ledger, Account, TypeOK
  <2>4. ASSUME NEW e \in Engines, Write(e) PROVE Ledger'
    <3>1. /\ engine[e].now \in Nat /\ engine[e].raw \in Nat
          /\ total' = total + 1 /\ decayed' = engine[e].raw + Interval
          /\ engine' = [engine EXCEPT ![e] = Asleep(clock + Interval)]
          /\ Stamp(engine[e].now) /\ engine[e].pc = "write"
      BY <2>4 DEF Write, TypeOK
    <3>2. ts + setBack <= ts' + setBack' /\ ts' + setBack' \in Nat
      BY <3>1, StampKeeps
    <3>3. Account' = ts' + setBack' + Interval * total + Interval
      BY <3>1, <2>0, <3>2 DEF Account, TypeOK
    <3>4. Account + Interval <= Account'
      BY <3>2, <3>3, <2>0 DEF Account, TypeOK
    <3>5. Account \in Nat /\ Account' \in Nat
      BY <2>0, <3>2, <3>3 DEF Account, TypeOK
    <3>6. decayed' <= Account'
      BY <3>1, <3>4, <3>5 DEF Ledger
    <3>7. ASSUME NEW f \in Engines, engine'[f].pc = "write" PROVE engine'[f].raw <= Account'
      <4>1. f # e /\ engine'[f] = engine[f] /\ engine[f].raw \in Nat
        BY <3>1, <3>7 DEF Asleep, TypeOK
      <4>2. QED
        BY <4>1, <3>4, <3>5, <3>7 DEF Ledger
    <3>8. QED
      BY <3>6, <3>7 DEF Ledger
  <2>5. ASSUME NEW q \in Requests, Send(q) PROVE Ledger'
    BY <2>5 DEF Send, Ledger, Account
  <2>6. ASSUME NEW q \in Requests, Eval(q) PROVE Ledger'
    <3>1. /\ request[q].now \in Nat /\ Stamp(request[q].now)
          /\ total' = total /\ engine' = engine
          /\ decayed' = decayed + Positive(request[q].now - ts)
      BY <2>6 DEF Eval, TypeOK
    <3>2. /\ ts + setBack <= ts' + setBack'
          /\ Positive(request[q].now - ts) + ts + setBack <= ts' + setBack'
          /\ ts' \in Nat /\ setBack' \in Nat
      BY <3>1, StampKeeps
    <3>3. Positive(request[q].now - ts) \in Nat
      BY <3>1 DEF Positive, TypeOK
    <3>4. decayed' <= Account'
      BY <3>1, <3>2, <3>3, <2>0 DEF Ledger, Account, TypeOK
    <3>5. Account <= Account' /\ Account \in Nat /\ Account' \in Nat
      BY <3>1, <3>2, <2>0 DEF Account, TypeOK
    <3>6. ASSUME NEW e \in Engines, engine[e].pc = "write" PROVE engine[e].raw <= Account'
      BY <3>6, <3>5 DEF Ledger, TypeOK
    <3>7. QED
      BY <3>1, <3>4, <3>6 DEF Ledger
  <2>7. CASE UNCHANGED vars
    BY <2>7 DEF vars, Ledger, Account
  <2>8. QED
    BY <2>1, <2>2, <2>3, <2>4, <2>5, <2>6, <2>7 DEF Next
<1>3. TypeOK /\ Ledger => DecayAccounted
  <2> SUFFICES ASSUME TypeOK, Ledger PROVE DecayAccounted
    OBVIOUS
  <2>1. Interval * total \in Nat
    BY DEF TypeOK
  <2>2. QED
    BY <2>1 DEF TypeOK, Ledger, Account, DecayAccounted
<1>4. QED
  BY <1>1, <1>2, <1>3, TypeCorrect, PTL DEF Spec

(* No engine evaporates more often than once in an interval. *)
THEOREM EvaporationIsPaced == Spec => []EvaporationRate
<1>1. Init => Pace
  <2> SUFFICES ASSUME Init, NEW e \in Engines
               PROVE  /\ Interval * runs[e] <= engine[e].wake
                      /\ engine[e].wake <= clock + Interval
                      /\ engine[e].pc # "sleep" => engine[e].wake <= clock
    BY DEF Pace
  <2>1. PICK w \in 0 .. Interval : engine[e] = Asleep(w)
    BY DEF Init
  <2>2. Interval * runs[e] = 0 /\ clock = 0
    BY DEF Init
  <2>3. QED
    BY <2>1, <2>2 DEF Asleep
<1>2. TypeOK /\ TypeOK' /\ Pace /\ [Next]_vars => Pace'
  <2> SUFFICES ASSUME TypeOK, TypeOK', Pace, [Next]_vars PROVE Pace'
    OBVIOUS
  <2>1. CASE Tick
    BY <2>1 DEF Tick, Pace, TypeOK
  <2>2. ASSUME NEW e \in Engines, Wake(e) PROVE Pace'
    <3>1. \A f \in Engines : /\ engine'[f].wake = engine[f].wake
                             /\ f # e => engine'[f].pc = engine[f].pc
      BY <2>2 DEF Wake, TypeOK
    <3>2. engine[e].wake <= clock /\ clock' = clock /\ runs' = runs
      BY <2>2 DEF Wake, TypeOK
    <3>3. QED
      BY <3>1, <3>2 DEF Pace
  <2>3. ASSUME NEW e \in Engines, Read(e) PROVE Pace'
    BY <2>3 DEF Read, Pace, TypeOK
  <2>4. ASSUME NEW e \in Engines, Write(e) PROVE Pace'
    <3>1. /\ engine' = [engine EXCEPT ![e] = Asleep(clock + Interval)]
          /\ runs' = [runs EXCEPT ![e] = @ + 1] /\ clock' = clock
          /\ engine[e].pc = "write"
      BY <2>4 DEF Write
    <3>2. Interval * (runs[e] + 1) = Interval * runs[e] + Interval /\ Interval * runs[e] \in Nat
      BY DEF TypeOK
    <3>3. Interval * runs'[e] <= engine'[e].wake /\ engine'[e].wake = clock + Interval
      BY <3>1, <3>2 DEF Pace, TypeOK, Asleep
    <3>4. engine'[e].pc = "sleep"
      BY <3>1 DEF Asleep, TypeOK
    <3>5. \A f \in Engines \ {e} : engine'[f] = engine[f] /\ runs'[f] = runs[f]
      BY <3>1 DEF TypeOK
    <3>6. QED
      BY <3>1, <3>3, <3>4, <3>5 DEF Pace, TypeOK
  <2>5. ASSUME NEW q \in Requests, Send(q) PROVE Pace'
    BY <2>5 DEF Send, Pace
  <2>6. ASSUME NEW q \in Requests, Eval(q) PROVE Pace'
    BY <2>6 DEF Eval, Pace
  <2>7. CASE UNCHANGED vars
    BY <2>7 DEF vars, Pace
  <2>8. QED
    BY <2>1, <2>2, <2>3, <2>4, <2>5, <2>6, <2>7 DEF Next
<1>3. TypeOK /\ Pace => EvaporationRate
  <2> SUFFICES ASSUME TypeOK, Pace, NEW e \in Engines
               PROVE  Interval * runs[e] <= clock + Interval
    BY DEF EvaporationRate
  <2>1. Interval * runs[e] \in Nat
    BY DEF TypeOK
  <2>2. QED
    BY <2>1 DEF Pace, TypeOK
<1>4. QED
  BY <1>1, <1>2, <1>3, TypeCorrect, PTL DEF Spec
=============================================================================
