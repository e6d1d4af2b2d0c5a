----------------------------- MODULE TraceDecay -----------------------------
(***************************************************************************)
(* How much one observation fades in Redis.  RedisPheromoneMemoryField     *)
(* scales a node's trace in two places: the deposit script, by the time    *)
(* that has passed since ts, and the decay engine of every replica, by one *)
(* interval a cycle.  The model follows a single observation, made at time *)
(* 0, in the L column (V and C fade alike when their flags are set); the   *)
(* factor (1 - rate) ^ (decayed / Interval) it was scaled by is kept as    *)
(* its exponent, in clock ticks.  The moving average is left out: it       *)
(* weighs observations by their number, not by time.                       *)
(***************************************************************************)
EXTENDS Integers

CONSTANTS
    Engines,     \* the decay engines, one in each replica
    Requests,    \* coroutines that deposit traces of the node
    Interval,    \* interval_sec of every engine and decay_interval_sec, in ticks
    MaxSkew,     \* bound: how far the clock of a host may be ahead
    MaxClock     \* bound: the end of the observed time

ASSUME DecayAssumption ==
    /\ Interval \in Nat \ {0}
    /\ MaxSkew \in Nat
    /\ MaxClock \in Nat

VARIABLES
    clock,       \* the true time, since the observation
    ahead,       \* how far the host of each coroutine is ahead of the true time
    ts,          \* the ts field of the hash
    decayed,     \* the exponent of the observation
    engine,      \* where each engine is
    request,     \* where each depositing coroutine is
    runs,        \* history: evaporations each engine has finished
    total,       \* history: evaporations all of them have finished
    setBack      \* history: the time by which ts was moved back

vars == <<clock, ahead, ts, decayed, engine, request, runs, total, setBack>>

Asleep(wake) == [pc |-> "sleep", wake |-> wake, now |-> 0, raw |-> 0]

Idle == [pc |-> "idle", now |-> 0]

(* time.time(): every replica asks the clock of its own host.  A sleep does    *)
(* not use it.                                                              *)
Now(p) == clock + ahead[p]

(* An engine may have been anywhere in its sleep when the observation came. *)
Init ==
    /\ ahead \in [Engines \cup Requests -> 0 .. MaxSkew]
    /\ clock = 0 /\ ts \in 0 .. MaxSkew /\ decayed = 0
    /\ engine \in [Engines -> {Asleep(w) : w \in 0 .. Interval}]
    /\ request = [q \in Requests |-> Idle]
    /\ runs = [e \in Engines |-> 0]
    /\ total = 0 /\ setBack = 0

(* Mutant: a script that was overtaken takes decay back. *)
PositiveUnclamped(d) == d

Positive(d) == IF d > 0 THEN d ELSE 0

(* The hash gets a new ts, which may be older than the one it has. *)
Stamp(now) ==
    /\ ts' = now
    /\ setBack' = setBack + Positive(ts - now)

Tick ==
    /\ clock < MaxClock
    /\ clock' = clock + 1
    /\ UNCHANGED <<ahead, ts, decayed, engine, request, runs, total, setBack>>

-----------------------------------------------------------------------------
(* start_decay_engine sleeps; apply_evaporation takes the time before its    *)
(* first await.                                                             *)
Wake(e) ==
    /\ engine[e].pc = "sleep" /\ clock >= engine[e].wake
    /\ engine' = [engine EXCEPT ![e].pc = "read", ![e].now = Now(e)]
    /\ UNCHANGED <<clock, ahead, ts, decayed, request, runs, total, setBack>>

Read(e) ==
    /\ engine[e].pc = "read"
    /\ engine' = [engine EXCEPT ![e].pc = "write", ![e].raw = decayed]
    /\ UNCHANGED <<clock, ahead, ts, decayed, request, runs, total, setBack>>

(* Mutant: the engine does not sleep after an evaporation. *)
WriteSleepless(e) ==
    /\ engine[e].pc = "write"
    /\ decayed' = engine[e].raw + Interval
    /\ Stamp(engine[e].now)
    /\ engine' = [engine EXCEPT ![e] = Asleep(clock)]
    /\ runs' = [runs EXCEPT ![e] = @ + 1]
    /\ total' = total + 1
    /\ UNCHANGED <<clock, ahead, request>>

(* The values read are scaled by a whole interval, however long ago ts was. *)
Write(e) ==
    /\ engine[e].pc = "write"
    /\ decayed' = engine[e].raw + Interval
    /\ Stamp(engine[e].now)
    /\ engine' = [engine EXCEPT ![e] = Asleep(clock + Interval)]
    /\ runs' = [runs EXCEPT ![e] = @ + 1]
    /\ total' = total + 1
    /\ UNCHANGED <<clock, ahead, request>>

-----------------------------------------------------------------------------
(* deposit_trace takes the time and sends the script. *)
Send(q) ==
    /\ request[q].pc = "idle"
    /\ request' = [request EXCEPT ![q] = [pc |-> "sent", now |-> Now(q)]]
    /\ UNCHANGED <<clock, ahead, ts, decayed, engine, runs, total, setBack>>

(* Mutant: the script decays and forgets to write ts. *)
EvalKeepsTs(q) ==
    /\ request[q].pc = "sent"
    /\ decayed' = decayed + Positive(request[q].now - ts)
    /\ request' = [request EXCEPT ![q] = Idle]
    /\ UNCHANGED <<clock, ahead, ts, engine, runs, total, setBack>>

(* The script decays by the time since ts, by none if it was overtaken or its *)
(* clock is behind, and writes its own time.                                *)
Eval(q) ==
    /\ request[q].pc = "sent"
    /\ decayed' = decayed + Positive(request[q].now - ts)
    /\ Stamp(request[q].now)
    /\ request' = [request EXCEPT ![q] = Idle]
    /\ UNCHANGED <<clock, ahead, engine, runs, total>>

Next ==
    \/ Tick
    \/ \E e \in Engines : Wake(e) \/ Read(e) \/ Write(e)
    \/ \E q \in Requests : Send(q) \/ Eval(q)

Spec == Init /\ [][Next]_vars

-----------------------------------------------------------------------------
(* The times and exponents are natural numbers, no command carries a time    *)
(* that no clock has shown yet.                                             *)
TypeOK ==
    /\ {clock, ts, decayed, total, setBack} \subseteq Nat
    /\ ahead \in [Engines \cup Requests -> 0 .. MaxSkew]
    /\ engine \in [Engines -> [pc : {"sleep", "read", "write"}, wake : Nat, now : Nat, raw : Nat]]
    /\ request \in [Requests -> [pc : {"idle", "sent"}, now : Nat]]
    /\ runs \in [Engines -> Nat]
    /\ ts <= clock + MaxSkew
    /\ \A e \in Engines : engine[e].now <= clock + MaxSkew
    /\ \A q \in Requests : request[q].now <= clock + MaxSkew

(* However deposits, evaporations and their delays interleave, and however   *)
(* far the clocks of the replicas are apart, an observation fades by no more *)
(* than the time that has passed, the largest difference of two clocks, once, *)
(* the time by which late commands and late clocks moved ts back, and an     *)
(* interval for each evaporation.                                           *)
DecayAccounted == decayed <= clock + MaxSkew + setBack + Interval * total

(* No engine evaporates more often than once in an interval, after the one   *)
(* it was about to make when the observation came.                          *)
EvaporationRate == \A e \in Engines : Interval * runs[e] <= clock + Interval
=============================================================================
