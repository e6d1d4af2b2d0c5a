--------------------------- MODULE GatewayProofs ---------------------------
(***************************************************************************)
(* The quotas, from the script of the rate limiter to the worker.  First   *)
(* the limiter alone: its quotas hold for any number of requests, any      *)
(* limits, window and costs, as long as no check takes longer than one     *)
(* window.  Then the gateway: it only ever takes steps of the limiter, so  *)
(* they hold behind it; and what reaches a worker was counted.             *)
(***************************************************************************)
EXTENDS Gateway, FiniteSetTheorems, TLAPS

-----------------------------------------------------------------------------
(* Arithmetic of buckets: multiplication is monotone, and a bucket holds the *)
(* seconds from its start to the start of the next.                          *)
LEMMA TimesMonotone ==
    \A x, y, z \in Nat : x <= y => x * z <= y * z
OBVIOUS

LEMMA TimesCancels ==
    \A x, y \in Int, z \in Nat \ {0} : x * z <= y * z => x <= y
OBVIOUS

(* math.floor(now / bucket_dur) and time_into of the script.                *)
LEMMA BucketBounds ==
    ASSUME NEW t \in Nat
    PROVE  /\ Bucket(t) \in Nat
           /\ Bucket(t) * Window <= t
           /\ t < Bucket(t) * Window + Window
           /\ t % Window = t - Bucket(t) * Window
           /\ t % Window \in 0 .. Window - 1
BY RateLimiterAssumption DEF Bucket

(* Bucket numbers grow with time.                                           *)
LEMMA BucketMonotone ==
    ASSUME NEW t \in Nat, NEW u \in Nat, t <= u
    PROVE  Bucket(t) <= Bucket(u)
<1> DEFINE b == Bucket(t)
           c == Bucket(u)
           bw == b * Window
           cw == c * Window
<1>1. /\ b \in Nat /\ c \in Nat /\ bw \in Nat /\ cw \in Nat /\ Window \in Nat
      /\ bw <= t /\ u < cw + Window
  <2>1. b \in Nat /\ c \in Nat /\ Window \in Nat
    BY BucketBounds, RateLimiterAssumption
  <2>2. bw <= t /\ u < cw + Window
    BY BucketBounds
  <2> HIDE DEF b, c
  <2>3. bw \in Nat /\ cw \in Nat
    BY <2>1
  <2> QED BY <2>1, <2>2, <2>3
<1>2. (c + 1) * Window = cw + Window
  BY <1>1
<1>3. c + 1 <= b => (c + 1) * Window <= bw
  BY <1>1, TimesMonotone
<1> HIDE DEF b, c, bw, cw
<1>4. ~ (c + 1 <= b)
  BY <1>1, <1>2, <1>3
<1>5. b <= c
  BY <1>1, <1>4
<1> QED BY <1>5 DEF b, c

-----------------------------------------------------------------------------
(* The inductive invariant.  The hash and the quota bound each other only    *)
(* while the hash lives: what was admitted in a bucket is in the hash until  *)
(* two windows after the bucket's start, and by then no waiting check names  *)
(* the bucket.                                                               *)
HashWithinLimit ==
    \A d \in Dims : \A b \in DOMAIN usage[d] : usage[d][b] <= Limit[d]

HashOutlivesBuckets ==
    \A d \in Dims :
        /\ expires[d] <= clock + 2 * Window
        /\ \A b \in DOMAIN usage[d] : (b + 2) * Window <= expires[d]

AdmittedIsRecorded ==
    \A d \in Dims, b \in Buckets :
        admitted[d][b] <= UsageIn(d, b) \/ (b + 2) * Window <= clock

ChecksAreRecent ==
    \A q \in Requests :
        Pending(q) => req[q].now <= clock /\ clock <= req[q].now + MaxDelay

IInv ==
    /\ TypeOK
    /\ HashWithinLimit
    /\ HashOutlivesBuckets
    /\ AdmittedIsRecorded
    /\ AdmittedWithinLimit
    /\ ChecksAreRecent

-----------------------------------------------------------------------------
(* What is used of the invariant at a check's own bucket.                   *)
LEMMA UsageIsNat ==
    ASSUME TypeOK, NEW d \in Dims, NEW b
    PROVE  UsageIn(d, b) \in Nat
BY DEF TypeOK, UsageIn

LEMMA CheckFacts ==
    ASSUME IInv, NEW q \in Requests, Pending(q)
    PROVE  /\ req[q].now \in Nat /\ req[q].now <= clock /\ clock \in Nat
           /\ req[q].dim \in Dims
           /\ CostOf(q) \in Nat
           /\ Bucket(req[q].now) \in Buckets
           /\ Bucket(req[q].now) \in Nat
           /\ (Bucket(req[q].now) + 2) * Window <= clock + 2 * Window
           /\ ~ ((Bucket(req[q].now) + 2) * Window <= clock)
<1> DEFINE t == req[q].now
           b == Bucket(t)
<1>1. /\ t \in 0 .. MaxTime /\ req[q].dim \in Dims /\ req[q].cost \in Nat
      /\ clock \in 0 .. MaxTime /\ t <= clock /\ clock <= t + MaxDelay
  <2>1. req[q] \in Request /\ clock \in 0 .. MaxTime
    BY DEF IInv, TypeOK
  <2>2. t <= clock /\ clock <= t + MaxDelay
    BY DEF IInv, ChecksAreRecent
  <2>3. t \in 0 .. MaxTime /\ req[q].dim \in Dims /\ req[q].cost \in Costs \cup {0}
    BY <2>1 DEF Request
  <2>4. req[q].cost \in Nat
    <3>1. Costs \cup {0} \subseteq Nat
      BY RateLimiterAssumption
    <3> QED BY <2>3, <3>1
  <2> HIDE DEF t
  <2> QED BY <2>1, <2>2, <2>3, <2>4
<1>2. CostOf(q) \in Nat
  BY <1>1 DEF CostOf
<1>3. /\ b \in Nat /\ b * Window <= t /\ t < b * Window + Window
  BY <1>1, BucketBounds
<1>4. b \in Buckets
  <2>1. b <= Bucket(MaxTime)
    BY <1>1, BucketMonotone, RateLimiterAssumption
  <2>2. Bucket(MaxTime) \in Nat
    BY BucketBounds, RateLimiterAssumption
  <2> QED BY <2>1, <2>2, <1>3 DEF Buckets, Bucket
<1>5. (b + 2) * Window = b * Window + 2 * Window /\ b * Window \in Nat
  <2> HIDE DEF b
  <2> QED BY <1>3, RateLimiterAssumption
<1>6. /\ (b + 2) * Window <= clock + 2 * Window
      /\ ~ ((b + 2) * Window <= clock)
  <2> DEFINE w == b * Window
  <2>1. /\ w \in Nat /\ w <= t /\ t < w + Window
        /\ (b + 2) * Window = w + 2 * Window
    BY <1>3, <1>5
  <2> HIDE DEF w
  <2> QED BY <2>1, <1>1, RateLimiterAssumption
<1> QED BY <1>1, <1>2, <1>3, <1>4, <1>6, RateLimiterAssumption

(* A request that fits fits in its own bucket alone.                        *)
LEMMA FitsBound ==
    ASSUME TypeOK, NEW d \in Dims, NEW t \in Nat, NEW cost \in Nat, Fits(d, t, cost)
    PROVE  UsageIn(d, Bucket(t)) + cost <= Limit[d]
<1> DEFINE x == UsageIn(d, Bucket(t) - 1)
           y == UsageIn(d, Bucket(t))
           k == Window - (t % Window)
           l == Limit[d]
<1>1. x \in Nat /\ y \in Nat /\ k \in Nat /\ l \in Nat /\ Window \in Nat \ {0}
  <2>1. x \in Nat /\ y \in Nat
    BY UsageIsNat
  <2>2. t % Window \in 0 .. Window - 1 /\ Window \in Nat \ {0} /\ l \in Nat
    BY BucketBounds, RateLimiterAssumption
  <2> HIDE DEF x, y, l
  <2> QED BY <2>1, <2>2
<1>2. x * k + y * Window + cost * Window <= l * Window
  BY DEF Fits, Weighted
<1> HIDE DEF x, y, k, l
<1>3. x * k \in Nat /\ y * Window + cost * Window = (y + cost) * Window
  BY <1>1
<1>4. y * Window \in Nat /\ cost * Window \in Nat /\ l * Window \in Nat
  BY <1>1
<1>5. y * Window + cost * Window <= l * Window
  <2> DEFINE xk == x * k
             yw == y * Window
             cw == cost * Window
             lw == l * Window
  <2>1. xk \in Nat /\ yw \in Nat /\ cw \in Nat /\ lw \in Nat /\ xk + yw + cw <= lw
    BY <1>2, <1>3, <1>4
  <2> HIDE DEF xk, yw, cw, lw
  <2>2. yw + cw <= lw
    BY <2>1
  <2> QED BY <2>2 DEF yw, cw, lw
<1>6. (y + cost) * Window <= l * Window
  BY <1>3, <1>5
<1>7. y + cost <= l
  BY <1>1, <1>6, TimesCancels
<1> QED BY <1>7 DEF y, l

(* One run of the script for a waiting check.                               *)
LEMMA ScriptKeeps ==
    ASSUME IInv, NEW q \in Requests, Pending(q), clock' = clock,
           NEW d0 \in Dims, NEW t \in Nat, NEW cost \in Nat,
           d0 = req[q].dim, t = req[q].now, cost = CostOf(q),
           Script(d0, t, cost)
    PROVE  /\ HashWithinLimit' /\ HashOutlivesBuckets'
           /\ expires' \in [Dims -> Nat] /\ DOMAIN usage' = Dims
           /\ \A d \in Dims : /\ DOMAIN usage'[d] \subseteq Buckets
                              /\ \A b \in DOMAIN usage'[d] : usage'[d][b] \in Nat
           /\ \A d \in Dims, b \in Buckets : UsageIn(d, b) <= UsageIn(d, b)'
           /\ Fits(d0, t, cost) =>
                 /\ UsageIn(d0, Bucket(t))' = UsageIn(d0, Bucket(t)) + cost
                 /\ UsageIn(d0, Bucket(t)) + cost <= Limit[d0]
<1> DEFINE b0 == Bucket(t)
<1>1. /\ b0 \in Buckets
      /\ (b0 + 2) * Window <= clock + 2 * Window /\ clock \in Nat
      /\ Window \in Nat \ {0} /\ b0 \in Nat
  BY CheckFacts, RateLimiterAssumption
<1>2. /\ TypeOK /\ HashWithinLimit /\ HashOutlivesBuckets
      /\ expires \in [Dims -> Nat]
      /\ \A d \in Dims : /\ DOMAIN usage[d] \subseteq Buckets
                         /\ \A b \in DOMAIN usage[d] : usage[d][b] \in Nat
      /\ \A d \in Dims, b \in Buckets : UsageIn(d, b) \in Nat
  BY UsageIsNat DEF IInv, TypeOK
<1>3. CASE ~ Fits(d0, t, cost)
  <2>1. UNCHANGED <<usage, expires>>
    BY <1>3 DEF Script
  <2> QED BY <1>2, <1>3, <2>1 DEF HashWithinLimit, HashOutlivesBuckets, UsageIn, TypeOK
<1>4. CASE Fits(d0, t, cost)
  <2>1. UsageIn(d0, b0) + cost <= Limit[d0]
    BY <1>1, <1>2, <1>4, FitsBound
  <2> HIDE DEF b0
  <2>2. /\ usage' = [usage EXCEPT ![d0] =
                       [b \in DOMAIN usage[d0] \cup {b0} |->
                           UsageIn(d0, b) + IF b = b0 THEN cost ELSE 0]]
        /\ expires' = [expires EXCEPT ![d0] = clock + Expiry]
    BY <1>4 DEF Script, b0
  <2>0. PICK new : new = [b \in DOMAIN usage[d0] \cup {b0} |->
                            UsageIn(d0, b) + IF b = b0 THEN cost ELSE 0]
    OBVIOUS
  <2>3. /\ usage'[d0] = new
        /\ \A d \in Dims : d # d0 => usage'[d] = usage[d]
        /\ expires'[d0] = clock + 2 * Window
        /\ \A d \in Dims : d # d0 => expires'[d] = expires[d]
    BY <1>1, <1>2, <2>0, <2>2 DEF TypeOK, Expiry
  <2>4. \A b \in DOMAIN usage[d0] : UsageIn(d0, b) = usage[d0][b]
    BY DEF UsageIn
  <2>5. \A b \in DOMAIN new :
            /\ b \in Buckets /\ new[b] \in Nat
            /\ b # b0 => b \in DOMAIN usage[d0] /\ new[b] = usage[d0][b]
    BY <1>1, <1>2, <2>0, <2>4
  <2>6. new[b0] = UsageIn(d0, b0) + cost /\ b0 \in DOMAIN new
    BY <2>0
  <2>7. HashWithinLimit'
    <3>1. ASSUME NEW b \in DOMAIN new
          PROVE  new[b] <= Limit[d0]
      <4>1. CASE b = b0
        BY <2>1, <2>6, <4>1
      <4>2. CASE b # b0
        <5>1. b \in DOMAIN usage[d0] /\ new[b] = usage[d0][b]
          BY <2>5, <4>2
        <5>2. usage[d0][b] <= Limit[d0]
          BY <1>2, <5>1 DEF HashWithinLimit
        <5> QED BY <5>1, <5>2
      <4> QED BY <4>1, <4>2
    <3> QED BY <1>2, <2>3, <3>1 DEF HashWithinLimit
  <2>8. HashOutlivesBuckets'
    <3> SUFFICES ASSUME NEW d \in Dims
                 PROVE  /\ expires'[d] <= clock + 2 * Window
                        /\ \A b \in DOMAIN usage'[d] : (b + 2) * Window <= expires'[d]
      BY DEF HashOutlivesBuckets
    <3>1. CASE d # d0
      BY <1>2, <2>3, <3>1 DEF HashOutlivesBuckets
    <3>2. CASE d = d0
      <4>1. expires[d0] <= clock + 2 * Window /\ expires[d0] \in Nat
        BY <1>1, <1>2 DEF HashOutlivesBuckets
      <4>2. \A b \in DOMAIN usage[d0] : (b + 2) * Window <= clock + 2 * Window
        <5> SUFFICES ASSUME NEW b \in DOMAIN usage[d0]
                     PROVE  (b + 2) * Window <= clock + 2 * Window
          OBVIOUS
        <5> DEFINE w == (b + 2) * Window
                   e == clock + 2 * Window
        <5>1. w <= expires[d0]
          BY <1>1, <1>2 DEF HashOutlivesBuckets
        <5>2. w \in Int
          BY <1>1, <1>2 DEF Buckets
        <5>3. e \in Int
          BY <1>1
        <5> HIDE DEF w, e
        <5>4. w <= e
          BY <4>1, <5>1, <5>2, <5>3 DEF e
        <5> QED BY <5>4 DEF w, e
      <4>3. \A b \in DOMAIN new : (b + 2) * Window <= clock + 2 * Window
        BY <1>1, <2>5, <4>2
      <4> QED BY <1>1, <2>3, <3>2, <4>3
    <3> QED BY <3>1, <3>2
  <2>9. expires' \in [Dims -> Nat]
    BY <1>1, <1>2, <2>2 DEF Expiry
  <2>10. \A d \in Dims :
            /\ DOMAIN usage'[d] \subseteq Buckets
            /\ \A b \in DOMAIN usage'[d] : usage'[d][b] \in Nat
    <3> SUFFICES ASSUME NEW d \in Dims
                 PROVE  /\ DOMAIN usage'[d] \subseteq Buckets
                        /\ \A b \in DOMAIN usage'[d] : usage'[d][b] \in Nat
      OBVIOUS
    <3>1. CASE d = d0
      <4>1. usage'[d] = new
        BY <2>3, <3>1
      <4> QED BY <2>5, <4>1
    <3>2. CASE d # d0
      BY <1>2, <2>3, <3>2
    <3> QED BY <3>1, <3>2
  <2>11. \A b \in Buckets :
            UsageIn(d0, b)' = IF b = b0 THEN UsageIn(d0, b) + cost ELSE UsageIn(d0, b)
    <3> SUFFICES ASSUME NEW b \in Buckets
                 PROVE  UsageIn(d0, b)' =
                          IF b = b0 THEN UsageIn(d0, b) + cost ELSE UsageIn(d0, b)
      OBVIOUS
    <3>1. UsageIn(d0, b)' = IF b \in DOMAIN new THEN new[b] ELSE 0
      BY <2>3 DEF UsageIn
    <3>2. CASE b = b0
      BY <3>1, <3>2, <2>6
    <3>3. CASE b # b0 /\ b \in DOMAIN usage[d0]
      <4>1. b \in DOMAIN new
        BY <2>0, <3>3
      <4>2. new[b] = usage[d0][b] /\ UsageIn(d0, b) = usage[d0][b]
        BY <3>3, <4>1, <2>4, <2>5
      <4> QED BY <3>1, <3>3, <4>1, <4>2
    <3>4. CASE b # b0 /\ b \notin DOMAIN usage[d0]
      BY <2>0, <3>1, <3>4 DEF UsageIn
    <3> QED BY <3>2, <3>3, <3>4
  <2>12. \A d \in Dims, b \in Buckets : UsageIn(d, b) <= UsageIn(d, b)'
    <3>1. \A d \in Dims, b \in Buckets : d # d0 => UsageIn(d, b)' = UsageIn(d, b)
      BY <2>3 DEF UsageIn
    <3> SUFFICES ASSUME NEW d \in Dims, NEW b \in Buckets
                 PROVE  UsageIn(d, b) <= UsageIn(d, b)'
      OBVIOUS
    <3>2. UsageIn(d, b) \in Nat
      BY <1>2
    <3>3. CASE d # d0
      BY <3>1, <3>2, <3>3
    <3>4. CASE d = d0 /\ b = b0
      BY <1>1, <2>11, <3>2, <3>4
    <3>5. CASE d = d0 /\ b # b0
      BY <2>11, <3>2, <3>5
    <3> QED BY <3>3, <3>4, <3>5
  <2>13. UsageIn(d0, b0)' = UsageIn(d0, b0) + cost
    BY <1>1, <2>11
  <2>14. DOMAIN usage' = Dims
    BY <1>2, <2>2 DEF TypeOK
  <2> QED BY <2>1, <2>7, <2>8, <2>9, <2>10, <2>12, <2>13, <2>14 DEF b0
<1> QED BY <1>3, <1>4

-----------------------------------------------------------------------------
(* The invariant holds initially and after every step.                      *)
LEMMA InitIInv == Init => IInv
<1> SUFFICES ASSUME Init PROVE IInv
  OBVIOUS
<1>1. New \in Request
  BY RateLimiterAssumption DEF New, Request, Dims
<1>2. TypeOK
  BY <1>1, RateLimiterAssumption DEF Init, TypeOK, Empty
<1>3. HashWithinLimit /\ HashOutlivesBuckets
  BY RateLimiterAssumption DEF Init, HashWithinLimit, HashOutlivesBuckets, Empty
<1>4. AdmittedIsRecorded /\ AdmittedWithinLimit
  BY RateLimiterAssumption DEF Init, AdmittedIsRecorded, AdmittedWithinLimit, UsageIn, Empty
<1>5. ChecksAreRecent
  BY DEF Init, ChecksAreRecent, Pending, New
<1> QED BY <1>2, <1>3, <1>4, <1>5 DEF IInv

(* A step that moves one request on and leaves every check recent.          *)
LEMMA MoveKeepsRecent ==
    ASSUME IInv, NEW q \in Requests, NEW r \in Request, clock' = clock,
           req' = [req EXCEPT ![q] = r],
           r.pc \in {"load", "evalsha", "eval"} => r.now <= clock /\ clock <= r.now + MaxDelay
    PROVE  ChecksAreRecent' /\ req' \in [Requests -> Request] /\ clock' \in 0 .. MaxTime
BY DEF IInv, TypeOK, ChecksAreRecent, Pending

(* A step that runs the script and loses its answer.                        *)
LEMMA LostAnswerKeepsIInv ==
    ASSUME IInv, NEW q \in Requests, EvalShaAnswerLost(q) \/ EvalAnswerLost(q)
    PROVE  IInv'
<1> DEFINE d0 == req[q].dim
           t == req[q].now
<1>1. /\ Pending(q) /\ clock' = clock /\ admitted' = admitted
      /\ Script(d0, t, CostOf(q))
      /\ req[q] \in Request
  BY DEF EvalShaAnswerLost, EvalAnswerLost, Pending, IInv, TypeOK
<1>2. /\ HashWithinLimit' /\ HashOutlivesBuckets'
      /\ expires' \in [Dims -> Nat] /\ DOMAIN usage' = Dims
      /\ \A d \in Dims : /\ DOMAIN usage'[d] \subseteq Buckets
                         /\ \A b \in DOMAIN usage'[d] : usage'[d][b] \in Nat
      /\ \A d \in Dims, b \in Buckets : UsageIn(d, b) <= UsageIn(d, b)'
  BY <1>1, ScriptKeeps, CheckFacts
<1>3. PICK r \in Request : /\ req' = [req EXCEPT ![q] = r]
                           /\ r.now = t /\ r.pc \in {"eval", "error"}
  <2>1. ChargedBy(q) \subseteq Dims
    BY <1>1 DEF ChargedBy, Request
  <2>2. CASE EvalShaAnswerLost(q)
    <3> DEFINE r == [req[q] EXCEPT !.pc = "eval", !.charged = ChargedBy(q)]
    <3>1. r \in Request /\ r.now = t /\ r.pc = "eval"
      BY <1>1, <2>1 DEF Request
    <3>2. req' = [req EXCEPT ![q] = r]
      BY <2>2, <1>1 DEF EvalShaAnswerLost
    <3> QED BY <3>1, <3>2
  <2>3. CASE EvalAnswerLost(q)
    <3> DEFINE r == [req[q] EXCEPT !.pc = "error", !.charged = ChargedBy(q)]
    <3>1. r \in Request /\ r.now = t /\ r.pc = "error"
      BY <1>1, <2>1 DEF Request
    <3>2. req' = [req EXCEPT ![q] = r]
      BY <2>3, <1>1 DEF EvalAnswerLost
    <3> QED BY <3>1, <3>2
  <2> QED BY <2>2, <2>3
<1>4. t <= clock /\ clock <= t + MaxDelay
  BY <1>1 DEF IInv, ChecksAreRecent
<1>5. ChecksAreRecent' /\ req' \in [Requests -> Request] /\ clock' \in 0 .. MaxTime
  BY <1>1, <1>3, <1>4, MoveKeepsRecent
<1>6. /\ admitted' \in [Dims -> [Buckets -> Nat]] /\ AdmittedWithinLimit'
      /\ loaded' \subseteq Replicas
  BY <1>1 DEF IInv, TypeOK, AdmittedWithinLimit, EvalShaAnswerLost, EvalAnswerLost
<1>7. AdmittedIsRecorded'
  <2> SUFFICES ASSUME NEW d \in Dims, NEW b \in Buckets
               PROVE  admitted'[d][b] <= UsageIn(d, b)' \/ (b + 2) * Window <= clock'
    BY DEF AdmittedIsRecorded
  <2>1. admitted[d][b] <= UsageIn(d, b) \/ (b + 2) * Window <= clock
    BY DEF IInv, AdmittedIsRecorded
  <2>2. UsageIn(d, b) \in Nat /\ UsageIn(d, b)' \in Nat /\ admitted[d][b] \in Nat
    BY <1>2, UsageIsNat DEF IInv, TypeOK, UsageIn
  <2>3. UsageIn(d, b) <= UsageIn(d, b)'
    BY <1>2
  <2> QED BY <1>1, <2>1, <2>2, <2>3
<1>8. TypeOK'
  BY <1>2, <1>5, <1>6 DEF TypeOK
<1> QED BY <1>2, <1>5, <1>6, <1>7, <1>8 DEF IInv

(* A check that passes is counted in its bucket, which the hash still has.  *)
LEMMA PassedCheck ==
    ASSUME IInv, NEW q \in Requests, Pending(q), Answer(q),
           NEW d0 \in Dims, NEW t \in Nat, NEW cost \in Nat,
           d0 = req[q].dim, t = req[q].now, cost = CostOf(q)
    PROVE  /\ ~ Fits(d0, t, cost) => admitted' = admitted
           /\ Fits(d0, t, cost) =>
                 /\ admitted[d0][Bucket(t)] <= UsageIn(d0, Bucket(t))
                 /\ admitted'[d0][Bucket(t)] = admitted[d0][Bucket(t)] + cost
                 /\ \A d \in Dims, b \in Buckets :
                       d # d0 \/ b # Bucket(t) => admitted'[d][b] = admitted[d][b]
           /\ admitted' \in [Dims -> [Buckets -> Nat]]
<1>1. /\ Bucket(t) \in Buckets
      /\ ~ ((Bucket(t) + 2) * Window <= clock)
  BY CheckFacts
<1>2. admitted \in [Dims -> [Buckets -> Nat]]
  BY DEF IInv, TypeOK
<1>3. admitted[d0][Bucket(t)] <= UsageIn(d0, Bucket(t))
  BY <1>1 DEF IInv, AdmittedIsRecorded
<1>4. CASE ~ Fits(d0, t, cost)
  BY <1>2, <1>4 DEF Answer
<1>5. CASE Fits(d0, t, cost)
  <2>1. admitted' = [admitted EXCEPT ![d0][Bucket(t)] = @ + cost]
    BY <1>5 DEF Answer
  <2> QED BY <1>1, <1>2, <1>3, <1>5, <2>1
<1> QED BY <1>4, <1>5

(* A step in which a check is answered.                                     *)
LEMMA AnswerKeepsIInv ==
    ASSUME IInv, NEW q \in Requests, Pending(q), Answer(q)
    PROVE  IInv'
<1>0. PICK d0 \in Dims, t \in Nat, cost \in Nat :
         d0 = req[q].dim /\ t = req[q].now /\ cost = CostOf(q)
  BY CheckFacts
<1> DEFINE b0 == Bucket(t)
<1>1. /\ clock' = clock /\ req[q] \in Request
      /\ Script(d0, t, cost) /\ b0 \in Buckets
  BY <1>0, CheckFacts DEF Answer, IInv, TypeOK
<1>2. /\ HashWithinLimit' /\ HashOutlivesBuckets'
      /\ expires' \in [Dims -> Nat] /\ DOMAIN usage' = Dims
      /\ \A d \in Dims : /\ DOMAIN usage'[d] \subseteq Buckets
                         /\ \A b \in DOMAIN usage'[d] : usage'[d][b] \in Nat
      /\ \A d \in Dims, b \in Buckets : UsageIn(d, b) <= UsageIn(d, b)'
      /\ Fits(d0, t, cost) => /\ UsageIn(d0, b0)' = UsageIn(d0, b0) + cost
                              /\ UsageIn(d0, b0) + cost <= Limit[d0]
  BY <1>0, <1>1, ScriptKeeps
<1>3. /\ ~ Fits(d0, t, cost) => admitted' = admitted
      /\ Fits(d0, t, cost) =>
            /\ admitted[d0][b0] <= UsageIn(d0, b0)
            /\ admitted'[d0][b0] = admitted[d0][b0] + cost
            /\ \A d \in Dims, b \in Buckets :
                  d # d0 \/ b # b0 => admitted'[d][b] = admitted[d][b]
      /\ admitted' \in [Dims -> [Buckets -> Nat]]
  BY <1>0, PassedCheck
<1> HIDE DEF b0
<1>4. PICK r \in Request : /\ req' = [req EXCEPT ![q] = r] /\ r.now = t
  <2> DEFINE r == [req[q] EXCEPT !.pc = IF d0 = "rpm" THEN "evalsha" ELSE "done",
                                 !.dim = "tpm",
                                 !.passed[d0] = Fits(d0, t, cost),
                                 !.charged = ChargedBy(q)]
  <2>1. ChargedBy(q) \subseteq Dims /\ Fits(d0, t, cost) \in BOOLEAN
    BY <1>1 DEF ChargedBy, Request, Fits
  <2>2. r \in Request /\ r.now = t
    BY <1>0, <1>1, <2>1 DEF Request, Dims
  <2>3. req' = [req EXCEPT ![q] = r]
    BY <1>0 DEF Answer
  <2> QED BY <2>2, <2>3
<1>5. t <= clock /\ clock <= t + MaxDelay
  BY <1>0 DEF IInv, ChecksAreRecent
<1>6. ChecksAreRecent' /\ req' \in [Requests -> Request] /\ clock' \in 0 .. MaxTime
  BY <1>1, <1>4, <1>5, MoveKeepsRecent
<1>7. ASSUME NEW d \in Dims, NEW b \in Buckets
      PROVE  /\ UsageIn(d, b) \in Nat /\ UsageIn(d, b)' \in Nat
             /\ admitted[d][b] \in Nat /\ UsageIn(d, b) <= UsageIn(d, b)'
             /\ admitted[d][b] <= UsageIn(d, b) \/ (b + 2) * Window <= clock
             /\ admitted[d][b] <= Limit[d] /\ Limit[d] \in Nat
  <2>1. UsageIn(d, b) \in Nat /\ UsageIn(d, b)' \in Nat
    BY <1>2, UsageIsNat DEF IInv, TypeOK, UsageIn
  <2>2. admitted[d][b] \in Nat /\ Limit[d] \in Nat
    BY RateLimiterAssumption DEF IInv, TypeOK
  <2> QED BY <1>2, <2>1, <2>2 DEF IInv, AdmittedIsRecorded, AdmittedWithinLimit
<1>8. AdmittedIsRecorded'
  <2> SUFFICES ASSUME NEW d \in Dims, NEW b \in Buckets
               PROVE  admitted'[d][b] <= UsageIn(d, b)' \/ (b + 2) * Window <= clock'
    BY DEF AdmittedIsRecorded
  <2>1. CASE Fits(d0, t, cost) /\ d = d0 /\ b = b0
    BY <1>0, <1>2, <1>3, <1>7, <2>1
  <2>2. CASE ~ (Fits(d0, t, cost) /\ d = d0 /\ b = b0)
    <3>1. admitted'[d][b] = admitted[d][b]
      BY <1>3, <2>2
    <3> QED BY <1>1, <1>7, <3>1
  <2> QED BY <2>1, <2>2
<1>9. AdmittedWithinLimit'
  <2> SUFFICES ASSUME NEW d \in Dims, NEW b \in Buckets
               PROVE  admitted'[d][b] <= Limit[d]
    BY DEF AdmittedWithinLimit
  <2>1. CASE Fits(d0, t, cost) /\ d = d0 /\ b = b0
    BY <1>0, <1>2, <1>3, <1>7, <2>1
  <2>2. CASE ~ (Fits(d0, t, cost) /\ d = d0 /\ b = b0)
    <3>1. admitted'[d][b] = admitted[d][b]
      BY <1>3, <2>2
    <3> QED BY <1>7, <3>1
  <2> QED BY <2>1, <2>2
<1>10. TypeOK'
  <2>1. loaded' \subseteq Replicas
    BY DEF Answer, IInv, TypeOK
  <2> QED BY <1>2, <1>3, <1>6, <2>1 DEF TypeOK
<1> QED BY <1>2, <1>6, <1>8, <1>9, <1>10 DEF IInv

(* The clock: an expired hash holds only buckets that have left the window. *)
LEMMA TickKeepsIInv ==
    ASSUME IInv, Tick
    PROVE  IInv'
<1>1. /\ clock \in Nat /\ clock' = clock + 1 /\ clock' \in 0 .. MaxTime
      /\ expires' = expires /\ loaded' = loaded /\ req' = req /\ admitted' = admitted
      /\ usage' = [d \in Dims |-> IF expires[d] <= clock' THEN Empty ELSE usage[d]]
      /\ Window \in Nat \ {0}
      /\ expires \in [Dims -> Nat]
      /\ \A d \in Dims : /\ DOMAIN usage[d] \subseteq Buckets
                         /\ \A b \in DOMAIN usage[d] : usage[d][b] \in Nat
  BY RateLimiterAssumption DEF Tick, IInv, TypeOK
<1>2. TypeOK'
  BY <1>1 DEF IInv, TypeOK, Empty
<1>3. HashWithinLimit'
  BY <1>1 DEF IInv, HashWithinLimit, Empty
<1>4. HashOutlivesBuckets'
  <2> SUFFICES ASSUME NEW d \in Dims
               PROVE  /\ expires[d] <= clock' + 2 * Window
                      /\ \A b \in DOMAIN usage'[d] : (b + 2) * Window <= expires[d]
    BY <1>1 DEF HashOutlivesBuckets
  <2>1. /\ expires[d] <= clock + 2 * Window
        /\ \A b \in DOMAIN usage[d] : (b + 2) * Window <= expires[d]
    BY DEF IInv, HashOutlivesBuckets
  <2> QED BY <1>1, <2>1 DEF Empty
<1>5. AdmittedIsRecorded'
  <2> SUFFICES ASSUME NEW d \in Dims, NEW b \in Buckets
               PROVE  admitted[d][b] <= UsageIn(d, b)' \/ (b + 2) * Window <= clock'
    BY <1>1 DEF AdmittedIsRecorded
  <2> DEFINE w == (b + 2) * Window
  <2>1. w \in Int
    BY <1>1 DEF Buckets
  <2>2. admitted[d][b] <= UsageIn(d, b) \/ w <= clock
    BY DEF IInv, AdmittedIsRecorded
  <2>3. b \in DOMAIN usage[d] => w <= expires[d]
    BY DEF IInv, HashOutlivesBuckets
  <2> HIDE DEF w
  <2>4. CASE w <= clock
    BY <1>1, <2>1, <2>4 DEF w
  <2>5. CASE expires[d] > clock' /\ admitted[d][b] <= UsageIn(d, b)
    <3>1. usage'[d] = usage[d]
      BY <1>1, <2>5
    <3> QED BY <2>5, <3>1 DEF UsageIn
  <2>6. CASE expires[d] <= clock' /\ b \in DOMAIN usage[d]
    <3>1. w <= clock'
      BY <1>1, <2>1, <2>3, <2>6
    <3> QED BY <3>1 DEF w
  <2>7. CASE expires[d] <= clock' /\ b \notin DOMAIN usage[d] /\ admitted[d][b] <= UsageIn(d, b)
    <3>1. UsageIn(d, b) = 0 /\ UsageIn(d, b)' = 0
      BY <1>1, <2>7 DEF UsageIn, Empty
    <3> QED BY <2>7, <3>1
  <2>8. expires[d] > clock' \/ expires[d] <= clock'
    BY <1>1
  <2> QED BY <2>2, <2>4, <2>5, <2>6, <2>7, <2>8
<1>6. AdmittedWithinLimit'
  BY <1>1 DEF IInv, AdmittedWithinLimit
<1>7. ChecksAreRecent'
  <2> SUFFICES ASSUME NEW q \in Requests, Pending(q)
               PROVE  req[q].now <= clock' /\ clock' <= req[q].now + MaxDelay
    BY <1>1 DEF ChecksAreRecent, Pending
  <2>1. req[q].now <= clock /\ clock < req[q].now + MaxDelay
    BY DEF IInv, ChecksAreRecent, Tick
  <2>2. req[q].now \in Nat /\ MaxDelay \in Nat
    BY CheckFacts, RateLimiterAssumption
  <2> QED BY <1>1, <2>1, <2>2
<1> QED BY <1>2, <1>3, <1>4, <1>5, <1>6, <1>7 DEF IInv

(* A step that moves a request on and leaves Redis and the clock alone.     *)
LEMMA QuietKeepsIInv ==
    ASSUME IInv, UNCHANGED <<clock, usage, expires, admitted>>,
           ChecksAreRecent', req' \in [Requests -> Request], loaded' \subseteq Replicas
    PROVE  IInv'
BY DEF IInv, TypeOK, HashWithinLimit, HashOutlivesBuckets, AdmittedIsRecorded,
       AdmittedWithinLimit, UsageIn

(* Every step keeps the invariant.                                          *)
LEMMA NextKeepsIInv == IInv /\ [Next]_vars => IInv'
<1> SUFFICES ASSUME IInv, [Next]_vars PROVE IInv'
  OBVIOUS
<1>0. /\ \A q \in Requests : req[q] \in Request
      /\ clock \in 0 .. MaxTime /\ MaxDelay \in Nat
  BY RateLimiterAssumption DEF IInv, TypeOK
<1>1. ASSUME NEW q \in Requests, NEW cost \in Costs, Arrive(q, cost)
      PROVE  IInv'
  <2> DEFINE r == [req[q] EXCEPT !.pc = IF ReplicaOf[q] \in loaded THEN "evalsha" ELSE "load",
                                 !.now = clock, !.cost = cost]
  <2>1. r \in Request /\ r.now = clock
    BY <1>0 DEF Request
  <2>2. req' = [req EXCEPT ![q] = r]
    BY <1>1 DEF Arrive
  <2>3. r.now <= clock /\ clock <= r.now + MaxDelay
    BY <1>0, <2>1
  <2> HIDE DEF r
  <2>4. ChecksAreRecent' /\ req' \in [Requests -> Request] /\ loaded' \subseteq Replicas
    BY <1>1, <2>1, <2>2, <2>3, MoveKeepsRecent DEF Arrive, IInv, TypeOK
  <2> QED BY <1>1, <2>4, QuietKeepsIInv DEF Arrive
<1>2. ASSUME NEW q \in Requests,
             Load(q) \/ LoadFails(q) \/ EvalShaFails(q) \/ EvalFails(q)
      PROVE  IInv'
  <2>1. PICK r \in Request : /\ req' = [req EXCEPT ![q] = r]
                             /\ r.now = req[q].now
    <3>1. CASE EvalShaFails(q)
      <4> DEFINE r == [req[q] EXCEPT !.pc = "eval"]
      <4>1. r \in Request /\ r.now = req[q].now
        BY <1>0 DEF Request
      <4>2. req' = [req EXCEPT ![q] = r]
        BY <3>1 DEF EvalShaFails
      <4> QED BY <4>1, <4>2
    <3>2. CASE EvalFails(q) \/ LoadFails(q)
      <4> DEFINE r == [req[q] EXCEPT !.pc = "error"]
      <4>1. r \in Request /\ r.now = req[q].now
        BY <1>0 DEF Request
      <4>2. req' = [req EXCEPT ![q] = r]
        BY <3>2 DEF EvalFails, LoadFails
      <4> QED BY <4>1, <4>2
    <3>3. CASE Load(q)
      <4> DEFINE r == [req[q] EXCEPT !.pc = "evalsha"]
      <4>1. r \in Request /\ r.now = req[q].now
        BY <1>0 DEF Request
      <4>2. req' = [req EXCEPT ![q] = r]
        BY <3>3 DEF Load
      <4> QED BY <4>1, <4>2
    <3> QED BY <1>2, <3>1, <3>2, <3>3
  <2>2. req[q].now <= clock /\ clock <= req[q].now + MaxDelay
    BY <1>2 DEF IInv, ChecksAreRecent, Pending, Load, LoadFails, EvalShaFails, EvalFails
  <2>3. ChecksAreRecent' /\ req' \in [Requests -> Request]
    BY <1>2, <2>1, <2>2, MoveKeepsRecent DEF Load, LoadFails, EvalShaFails, EvalFails
  <2>4. loaded' \subseteq Replicas
    BY <1>2, RateLimiterAssumption
       DEF Load, LoadFails, EvalShaFails, EvalFails, IInv, TypeOK
  <2> QED BY <1>2, <2>3, <2>4, QuietKeepsIInv DEF Load, LoadFails, EvalShaFails, EvalFails
<1>3. ASSUME NEW q \in Requests, EvalShaAnswerLost(q) \/ EvalAnswerLost(q)
      PROVE  IInv'
  BY <1>3, LostAnswerKeepsIInv
<1>4. ASSUME NEW q \in Requests, EvalSha(q) \/ Eval(q)
      PROVE  IInv'
  BY <1>4, AnswerKeepsIInv DEF EvalSha, Eval, Pending
<1>5. CASE Tick
  BY <1>5, TickKeepsIInv
<1>6. CASE UNCHANGED vars
  <2>1. ChecksAreRecent' /\ req' \in [Requests -> Request] /\ loaded' \subseteq Replicas
    BY <1>6 DEF vars, IInv, TypeOK, ChecksAreRecent, Pending
  <2> QED BY <1>6, <2>1, QuietKeepsIInv DEF vars
<1> QED BY <1>1, <1>2, <1>3, <1>4, <1>5, <1>6 DEF Next

(* Type correctness of the limiter.                                         *)
THEOREM TypeCorrect == Spec => []TypeOK
<1>1. IInv => TypeOK
  BY DEF IInv
<1> QED BY <1>1, InitIInv, NextKeepsIInv, PTL DEF Spec

(* The quota of a bucket is never exceeded by the checks that passed.       *)
THEOREM QuotaHolds == Spec => []AdmittedWithinLimit
<1>1. IInv => AdmittedWithinLimit
  BY DEF IInv
<1> QED BY <1>1, InitIInv, NextKeepsIInv, PTL DEF Spec
-----------------------------------------------------------------------------
(* The part of the previous bucket the window covers shrinks with time.     *)
LEMMA WeightShrinks ==
    ASSUME NEW x \in Nat, NEW u \in Nat, x <= u,
           NEW k \in Nat, NEW l \in Nat, l <= k
    PROVE  x * l <= u * k
<1> DEFINE xl == x * l
           ul == u * l
           lu == l * u
           ku == k * u
<1>1. xl <= ul /\ lu <= ku
  BY TimesMonotone
<1>2. ul = lu /\ u * k = ku /\ xl \in Int /\ ul \in Int /\ ku \in Int
  OBVIOUS
<1> HIDE DEF xl, ul, lu, ku
<1>3. xl <= ku
  BY <1>1, <1>2
<1> QED BY <1>2, <1>3 DEF xl

(* One dimension of SlidingAdmission, for the check that passes.            *)
LEMMA PassKeepsSliding ==
    ASSUME IInv, NEW q \in Requests, Pending(q), Answer(q),
           NEW d \in Dims, NEW b \in Buckets, b = Bucket(clock),
           admitted'[d][b] > admitted[d][b]
    PROVE  admitted'[d][b] * Window + admitted[d][b - 1] * (Window - (clock % Window))
               <= Limit[d] * Window
<1>0. PICK t \in Nat, cost \in Nat :
         t = req[q].now /\ cost = CostOf(q) /\ req[q].dim \in Dims
  BY CheckFacts
<1>1. admitted \in [Dims -> [Buckets -> Nat]] /\ Limit[d] \in Nat /\ Window \in Nat \ {0}
  BY RateLimiterAssumption DEF IInv, TypeOK
<1>2. /\ d = req[q].dim /\ b = Bucket(t) /\ Fits(d, t, cost)
      /\ admitted[d][b] <= UsageIn(d, b)
      /\ admitted'[d][b] = admitted[d][b] + cost
  <2>1. ~ (admitted'[d][b] = admitted[d][b])
    BY <1>1
  <2> QED BY <1>0, <2>1, PassedCheck
<1>3. /\ t <= clock /\ clock \in Nat /\ b \in Nat
      /\ t % Window = t - b * Window /\ clock % Window = clock - b * Window
      /\ t % Window \in 0 .. Window - 1 /\ clock % Window \in 0 .. Window - 1
      /\ clock < b * Window + Window
  BY <1>0, <1>2, CheckFacts, BucketBounds
<1>4. b - 1 \in Buckets /\ ~ ((b - 1 + 2) * Window <= clock)
  <2>1. b - 1 \in Buckets
    <3>1. Bucket(MaxTime) \in Nat /\ b \in -1 .. Bucket(MaxTime)
      BY BucketBounds, RateLimiterAssumption DEF Buckets, Bucket
    <3> QED BY <1>3, <3>1 DEF Buckets, Bucket
  <2>2. (b - 1 + 2) * Window = b * Window + Window
    BY <1>1, <1>3
  <2> DEFINE w == b * Window
  <2>3. w \in Nat
    BY <1>1, <1>3
  <2>4. clock < w + Window
    BY <1>3
  <2> HIDE DEF w
  <2>5. ~ (w + Window <= clock)
    BY <1>1, <1>3, <2>3, <2>4
  <2> QED BY <2>1, <2>2, <2>5 DEF w
<1> DEFINE x == admitted[d][b - 1]
           u == UsageIn(d, b - 1)
           y == admitted[d][b]
           v == UsageIn(d, b)
           k == Window - (t % Window)
           l == Window - (clock % Window)
<1>5. x <= u /\ x \in Nat /\ u \in Nat
  <2>1. x <= u \/ (b - 1 + 2) * Window <= clock
    BY <1>4 DEF IInv, AdmittedIsRecorded
  <2> QED BY <1>1, <1>4, <2>1, UsageIsNat DEF IInv
<1>6. y <= v /\ y \in Nat /\ v \in Nat
  BY <1>1, <1>2, UsageIsNat DEF IInv
<1>7. k \in Nat /\ l \in Nat /\ l <= k
  <2> DEFINE w == b * Window
             tm == t % Window
             cm == clock % Window
  <2>1. w \in Int /\ tm = t - w /\ cm = clock - w /\ tm \in 0 .. Window - 1
        /\ cm \in 0 .. Window - 1
    BY <1>1, <1>3
  <2> HIDE DEF w, tm, cm
  <2>2. Window - tm \in Nat /\ Window - cm \in Nat /\ Window - cm <= Window - tm
    BY <1>1, <1>3, <2>1
  <2> QED BY <2>2 DEF tm, cm
<1>8. u * k + v * Window + cost * Window <= Limit[d] * Window
  BY <1>2 DEF Fits, Weighted
<1>9. admitted'[d][b] = y + cost
  BY <1>2
<1> HIDE DEF x, u, y, v, k, l
<1>10. x * l <= u * k /\ y * Window <= v * Window
  BY <1>1, <1>5, <1>6, <1>7, WeightShrinks, TimesMonotone
<1>11. (y + cost) * Window + x * l <= Limit[d] * Window
  <2> DEFINE xl == x * l
             uk == u * k
             yw == y * Window
             vw == v * Window
             cw == cost * Window
             lw == Limit[d] * Window
  <2>1. /\ xl \in Nat /\ uk \in Nat /\ yw \in Nat /\ vw \in Nat /\ cw \in Nat /\ lw \in Nat
        /\ (y + cost) * Window = yw + cw
    BY <1>1, <1>5, <1>6, <1>7
  <2>2. xl <= uk /\ yw <= vw /\ uk + vw + cw <= lw
    BY <1>8, <1>10
  <2> HIDE DEF xl, uk, yw, vw, cw, lw
  <2>3. yw + cw + xl <= lw
    BY <2>1, <2>2
  <2> QED BY <2>1, <2>3 DEF xl, lw
<1> QED BY <1>9, <1>11 DEF x, l

(* A passing check leaves the sliding sum of what was admitted in the quota. *)
THEOREM SlidingHolds == Spec => SlidingAdmission
<1> DEFINE A == \A d \in Dims :
                  LET b == Bucket(clock) IN
                  admitted'[d][b] > admitted[d][b] =>
                      admitted'[d][b] * Window
                        + admitted[d][b - 1] * (Window - (clock % Window))
                          <= Limit[d] * Window
<1>1. IInv /\ [Next]_vars => [A]_vars
  <2> SUFFICES ASSUME IInv, Next, NEW d \in Dims, NEW b, b = Bucket(clock),
                      admitted'[d][b] > admitted[d][b]
               PROVE  admitted'[d][b] * Window
                        + admitted[d][b - 1] * (Window - (clock % Window))
                          <= Limit[d] * Window
    OBVIOUS
  <2>1. b \in Buckets
    <3>1. clock \in Nat /\ clock <= MaxTime /\ MaxTime \in Nat
      BY RateLimiterAssumption DEF IInv, TypeOK
    <3>2. Bucket(clock) \in Nat /\ Bucket(MaxTime) \in Nat /\ Bucket(clock) <= Bucket(MaxTime)
      BY <3>1, BucketBounds, BucketMonotone
    <3> QED BY <3>2 DEF Buckets, Bucket
  <2>2. admitted[d][b] \in Nat
    BY <2>1 DEF IInv, TypeOK
  <2>3. ~ UNCHANGED admitted
    BY <2>2
  <2>4. PICK q \in Requests : Pending(q) /\ Answer(q)
    BY <2>3 DEF Next, Arrive, Load, LoadFails, EvalSha, EvalShaFails, EvalShaAnswerLost, Eval, EvalFails,
                EvalAnswerLost, Tick, Pending
  <2> QED BY <2>1, <2>4, PassKeepsSliding
<1> QED BY <1>1, InitIInv, NextKeepsIInv, PTL DEF Spec, SlidingAdmission

-----------------------------------------------------------------------------
(* The limiter counts what it passes. *)

(* The requests of bucket b that passed the rpm check. *)
PassedIn(b) == {q \in Requests : req[q].passed["rpm"] /\ Bucket(req[q].now) = b}

(* A request that has still to pass the rpm check has not passed it. *)
RpmComesFirst ==
    \A q \in Requests :
        /\ req[q].pc = "new" => req[q].dim = "rpm"
        /\ req[q].dim = "rpm" => ~ req[q].passed["rpm"]

PassedIsCounted == \A b \in Buckets : Cardinality(PassedIn(b)) <= admitted["rpm"][b]

(* The requests of bucket b that passed the tpm check, which is the last. *)
PaidIn(b) == {q \in Requests : req[q].passed["tpm"] /\ Bucket(req[q].now) = b}

TpmComesLast == \A q \in Requests : req[q].passed["tpm"] => req[q].pc = "done"

TokensAreCounted ==
    \A b \in Buckets :
        /\ IsFiniteSet(TokensOf(PaidIn(b)))
        /\ Cardinality(TokensOf(PaidIn(b))) <= admitted["tpm"][b]

LInv == IInv /\ RpmComesFirst /\ PassedIsCounted /\ TpmComesLast /\ TokensAreCounted

LEMMA PassedInFinite ==
    ASSUME NEW b
    PROVE  IsFiniteSet(PassedIn(b)) /\ Cardinality(PassedIn(b)) \in Nat
<1>1. PassedIn(b) \in SUBSET Requests /\ IsFiniteSet(Requests)
  BY GatewayAssumption DEF PassedIn
<1>2. IsFiniteSet(PassedIn(b))
  BY <1>1, FS_Subset
<1>3. QED
  BY <1>2, FS_CardinalityType

LEMMA LInvHoldsAtFirst == Init => LInv
<1> SUFFICES ASSUME Init PROVE LInv
  OBVIOUS
<1>1. RpmComesFirst
  BY DEF Init, New, Dims, RpmComesFirst
<1>2. \A b : PassedIn(b) = {}
  BY DEF Init, New, Dims, PassedIn
<1>3. PassedIsCounted
  BY <1>2, FS_EmptySet DEF Init, Dims, PassedIsCounted
<1>4. TpmComesLast /\ \A b : TokensOf(PaidIn(b)) = {}
  BY DEF Init, New, Dims, TpmComesLast, PaidIn, TokensOf
<1>5. TokensAreCounted
  BY <1>4, FS_EmptySet DEF Init, Dims, TokensAreCounted
<1>6. QED
  BY <1>1, <1>3, <1>4, <1>5, InitIInv DEF LInv

(* Steps that neither pass a request nor admit anything. *)
LEMMA QuietKeepsCount ==
    ASSUME LInv, NEW q \in Requests, NEW r,
           req' = [req EXCEPT ![q] = r], admitted' = admitted,
           r.dim = req[q].dim, r.passed = req[q].passed,
           r.pc # "new",
           r.now = req[q].now \/ req[q].pc = "new"
    PROVE  RpmComesFirst' /\ PassedIsCounted'
<1>1. req \in [Requests -> Request]
  BY DEF LInv, IInv, TypeOK
<1>2. /\ req'[q] = r
      /\ \A p \in Requests \ {q} : req'[p] = req[p]
  BY <1>1
<1>3. RpmComesFirst'
  BY <1>2 DEF LInv, RpmComesFirst
<1>4. \A b : PassedIn(b)' = PassedIn(b)
  BY <1>2 DEF PassedIn, LInv, RpmComesFirst
<1>5. QED
  BY <1>3, <1>4 DEF LInv, PassedIsCounted

(* An answer admits what it passes. *)
LEMMA AnswerKeepsCount ==
    ASSUME LInv, NEW q \in Requests, Pending(q), Answer(q)
    PROVE  RpmComesFirst' /\ PassedIsCounted'
<1> DEFINE d == req[q].dim
           at == Bucket(req[q].now)
           fits == Fits(d, req[q].now, CostOf(q))
<1>1. /\ req \in [Requests -> Request] /\ d \in Dims /\ at \in Buckets
      /\ req[q].passed \in [Dims -> BOOLEAN] /\ IInv
      /\ admitted \in [Dims -> [Buckets -> Nat]]
  BY CheckFacts DEF LInv, IInv, TypeOK, Request
<1>2. /\ req' = [req EXCEPT ![q] = [req[q] EXCEPT
                    !.pc = IF d = "rpm" THEN "evalsha" ELSE "done",
                    !.dim = "tpm", !.passed[d] = fits, !.charged = ChargedBy(q)]]
      /\ admitted' = IF fits THEN [admitted EXCEPT ![d][at] = @ + CostOf(q)] ELSE admitted
  BY DEF Answer
<1> HIDE DEF fits
<1>3. /\ \A p \in Requests \ {q} : req'[p] = req[p]
      /\ req'[q].dim = "tpm" /\ req'[q].pc # "new" /\ req'[q].now = req[q].now
      /\ req'[q].passed = [req[q].passed EXCEPT ![d] = fits]
  BY <1>1, <1>2 DEF Request
<1>4. RpmComesFirst'
  BY <1>3 DEF LInv, RpmComesFirst
<1>5. ASSUME NEW b
      PROVE  PassedIn(b)' = (PassedIn(b) \ {q})
                            \cup (IF req'[q].passed["rpm"] /\ b = at THEN {q} ELSE {})
  <2>1. Bucket(req'[q].now) = at
    BY <1>3
  <2>2. QED
    BY <1>3, <2>1 DEF PassedIn
<1>6. \A b : q \in PassedIn(b) <=> req[q].passed["rpm"] /\ b = at
  BY DEF PassedIn
<1>7. CASE d = "tpm"
  <2>1. req'[q].passed["rpm"] <=> req[q].passed["rpm"]
    BY <1>1, <1>3, <1>7 DEF Dims
  <2>2. \A b : PassedIn(b)' = PassedIn(b)
    BY <1>5, <1>6, <2>1
  <2>3. admitted'["rpm"] = admitted["rpm"]
    BY <1>1, <1>2, <1>7 DEF Dims
  <2>4. QED
    BY <1>4, <2>2, <2>3 DEF LInv, PassedIsCounted
<1>8. CASE d = "rpm"
  <2>1. ~ req[q].passed["rpm"] /\ CostOf(q) = 1
    BY <1>8 DEF LInv, RpmComesFirst, CostOf
  <2>2. req'[q].passed["rpm"] = fits
    BY <1>1, <1>3, <1>8 DEF Dims
  <2>3. CASE ~ fits
    <3>1. \A b : PassedIn(b)' = PassedIn(b)
      BY <1>5, <1>6, <2>1, <2>2, <2>3
    <3>2. QED
      BY <1>2, <1>4, <2>3, <3>1 DEF LInv, PassedIsCounted
  <2>4. CASE fits
    <3>1. \A b : b # at => PassedIn(b)' = PassedIn(b)
      BY <1>5, <1>6
    <3>2. \A b : b = at => PassedIn(b)' = PassedIn(b) \cup {q}
      BY <1>5, <1>6, <2>1, <2>2, <2>4
    <3>3. ASSUME NEW b, b = at
          PROVE  Cardinality(PassedIn(b)') = Cardinality(PassedIn(b)) + 1
      <4>1. q \notin PassedIn(b) /\ IsFiniteSet(PassedIn(b))
        BY <2>1, PassedInFinite DEF PassedIn
      <4>2. QED
        BY <3>2, <3>3, <4>1, FS_AddElement
    <3>4. /\ admitted'["rpm"][at] = admitted["rpm"][at] + 1
          /\ \A b \in Buckets : b # at => admitted'["rpm"][b] = admitted["rpm"][b]
      BY <1>1, <1>2, <1>8, <2>1, <2>4
    <3>5. ASSUME NEW b \in Buckets
          PROVE  Cardinality(PassedIn(b))' <= admitted'["rpm"][b]
      <4>1. /\ Cardinality(PassedIn(b)) <= admitted["rpm"][b]
            /\ Cardinality(PassedIn(b)) \in Nat /\ admitted["rpm"][b] \in Nat
        BY <1>1, <1>8, PassedInFinite DEF LInv, PassedIsCounted
      <4>2. CASE b = at
        BY <4>1, <4>2, <3>3, <3>4
      <4>3. CASE b # at
        BY <4>1, <4>3, <3>1, <3>4
      <4>4. QED
        BY <4>2, <4>3
    <3>6. QED
      BY <1>4, <3>5 DEF PassedIsCounted
  <2>5. QED
    BY <2>3, <2>4
<1>9. QED
  BY <1>1, <1>7, <1>8 DEF Dims

(* What the tokens of a bucket come from. *)
LEMMA TokensOfPaid ==
    ASSUME NEW b, NEW x
    PROVE  x \in TokensOf(PaidIn(b)) <=>
               \E q \in Requests : /\ req[q].passed["tpm"] /\ Bucket(req[q].now) = b
                                   /\ x \in {q} \X (1 .. req[q].cost)
BY DEF TokensOf, PaidIn

LEMMA QuietKeepsTokens ==
    ASSUME LInv, NEW q \in Requests, NEW r,
           req' = [req EXCEPT ![q] = r], admitted' = admitted, req[q].pc # "done",
           r.passed = req[q].passed
    PROVE  TpmComesLast' /\ TokensAreCounted'
<1>1. /\ req'[q] = r
      /\ \A p \in Requests \ {q} : req'[p] = req[p]
  BY DEF LInv, IInv, TypeOK
<1>2. ~ req[q].passed["tpm"]
  BY DEF LInv, TpmComesLast
<1>3. ASSUME NEW p \in Requests, req[p].passed["tpm"] \/ req'[p].passed["tpm"]
      PROVE  req'[p] = req[p]
  BY <1>1, <1>2, <1>3
<1>4. TpmComesLast'
  BY <1>3 DEF LInv, TpmComesLast
<1>5. \A b : TokensOf(PaidIn(b))' = TokensOf(PaidIn(b))
  BY <1>3 DEF TokensOf, PaidIn
<1>6. QED
  BY <1>4, <1>5 DEF LInv, TokensAreCounted

(* The tokens of a request that passes are new ones, and admitted.           *)
LEMMA AnswerKeepsTokens ==
    ASSUME LInv, NEW q \in Requests, Pending(q), Answer(q)
    PROVE  TpmComesLast' /\ TokensAreCounted'
<1>0. PICK at, cost : at = Bucket(req[q].now) /\ cost = req[q].cost
  OBVIOUS
<1> DEFINE d == req[q].dim
           fits == Fits(d, req[q].now, CostOf(q))
           Own == {q} \X (1 .. cost)
<1>1. /\ req \in [Requests -> Request] /\ d \in Dims /\ at \in Buckets /\ cost \in Nat
      /\ req[q].passed \in [Dims -> BOOLEAN] /\ fits \in BOOLEAN /\ CostOf(q) \in Nat
      /\ admitted \in [Dims -> [Buckets -> Nat]]
  <2>1. /\ req \in [Requests -> Request] /\ admitted \in [Dims -> [Buckets -> Nat]] /\ IInv
        /\ req[q] \in Request
    BY DEF LInv, IInv, TypeOK
  <2>2. d \in Dims /\ at \in Buckets /\ CostOf(q) \in Nat
    BY <1>0, <2>1, CheckFacts
  <2>3. cost \in Costs \cup {0} /\ Costs \cup {0} \subseteq Nat
    BY <1>0, <2>1, RateLimiterAssumption DEF Request
  <2>4. req[q].passed \in [Dims -> BOOLEAN] /\ fits \in BOOLEAN
    BY <2>1 DEF Request, Fits
  <2>5. QED
    BY <2>1, <2>2, <2>3, <2>4
<1>2. /\ req' = [req EXCEPT ![q] = [req[q] EXCEPT
                    !.pc = IF d = "rpm" THEN "evalsha" ELSE "done",
                    !.dim = "tpm", !.passed[d] = fits, !.charged = ChargedBy(q)]]
      /\ admitted' = IF fits THEN [admitted EXCEPT ![d][at] = @ + CostOf(q)] ELSE admitted
  BY <1>0 DEF Answer
<1> HIDE DEF fits
<1>3. /\ \A p \in Requests \ {q} : req'[p] = req[p]
      /\ req'[q].now = req[q].now /\ req'[q].cost = cost
      /\ req'[q].passed = [req[q].passed EXCEPT ![d] = fits]
      /\ req'[q].pc = IF d = "rpm" THEN "evalsha" ELSE "done"
  BY <1>0, <1>1, <1>2 DEF Request
<1>4. ~ req[q].passed["tpm"]
  BY DEF LInv, TpmComesLast, Pending
<1>5. req'[q].passed["tpm"] <=> d = "tpm" /\ fits
  BY <1>1, <1>3, <1>4 DEF Dims
<1>6. TpmComesLast'
  BY <1>3, <1>5 DEF LInv, TpmComesLast
<1>7. CASE ~ (d = "tpm" /\ fits)
  <2>1. \A p \in Requests : req[p].passed["tpm"] \/ req'[p].passed["tpm"] => req'[p] = req[p]
    BY <1>3, <1>4, <1>5, <1>7
  <2>2. \A b : TokensOf(PaidIn(b))' = TokensOf(PaidIn(b))
    BY <2>1 DEF TokensOf, PaidIn
  <2>3. admitted'["tpm"] = admitted["tpm"]
    BY <1>1, <1>2, <1>7 DEF Dims
  <2>4. QED
    BY <1>6, <2>2, <2>3 DEF LInv, TokensAreCounted
<1>8. CASE d = "tpm" /\ fits
  <2>1. /\ admitted'["tpm"][at] = admitted["tpm"][at] + cost
        /\ \A b \in Buckets : b # at => admitted'["tpm"][b] = admitted["tpm"][b]
    BY <1>0, <1>1, <1>2, <1>8 DEF CostOf, Dims
  <2>2. ASSUME NEW b PROVE PaidIn(b)' = PaidIn(b) \cup (IF b = at THEN {q} ELSE {})
    BY <1>0, <1>3, <1>4, <1>5, <1>8 DEF PaidIn
  <2>3. \A p \in Requests : req'[p].cost = req[p].cost
    BY <1>0, <1>3
  <2>4. ASSUME NEW b, b # at PROVE TokensOf(PaidIn(b))' = TokensOf(PaidIn(b))
    <3>1. PaidIn(b)' = PaidIn(b) /\ PaidIn(b) \subseteq Requests
      BY <2>2, <2>4 DEF PaidIn
    <3>2. QED
      BY <3>1, <2>3 DEF TokensOf
  <2>5. TokensOf(PaidIn(at))' = TokensOf(PaidIn(at)) \cup Own
    <3>1. PICK S : S = PaidIn(at) /\ S \subseteq Requests
      BY DEF PaidIn
    <3>2. PaidIn(at)' = S \cup {q}
      BY <2>2, <3>1, <1>3
    <3>3. TokensOf(PaidIn(at))' = UNION {{p} \X (1 .. req'[p].cost) : p \in S \cup {q}}
      BY <3>2 DEF TokensOf
    <3>4. TokensOf(PaidIn(at)) = UNION {{p} \X (1 .. req[p].cost) : p \in S}
      BY <3>1 DEF TokensOf
    <3>5. QED
      BY <1>0, <3>1, <3>3, <3>4, <2>3
  <2>6. TokensOf(PaidIn(at)) \cap Own = {}
    BY <1>4 DEF TokensOf, PaidIn
  <2>7. IsFiniteSet(Own) /\ Cardinality(Own) = cost
    <3>1. IsFiniteSet(1 .. cost) /\ Cardinality(1 .. cost) = cost
      <4>1. 1 \in Int /\ cost \in Int /\ cost \in Nat
        BY <1>1
      <4>2. /\ IsFiniteSet(1 .. cost)
            /\ Cardinality(1 .. cost) = IF 1 > cost THEN 0 ELSE cost - 1 + 1
        BY <4>1, FS_Interval
      <4>3. QED
        BY <4>1, <4>2
    <3>2. IsFiniteSet({q}) /\ Cardinality({q}) = 1
      BY FS_Singleton
    <3>3. /\ IsFiniteSet({q} \X (1 .. cost))
          /\ Cardinality({q} \X (1 .. cost)) = 1 * cost
      BY <3>1, <3>2, FS_Product
    <3>4. QED
      BY <1>1, <3>3
  <2> HIDE DEF Own
  <2>8. ASSUME NEW b \in Buckets
        PROVE  /\ IsFiniteSet(TokensOf(PaidIn(b))')
               /\ Cardinality(TokensOf(PaidIn(b))') <= admitted'["tpm"][b]
    <3>1. /\ IsFiniteSet(TokensOf(PaidIn(b)))
          /\ Cardinality(TokensOf(PaidIn(b))) <= admitted["tpm"][b]
          /\ Cardinality(TokensOf(PaidIn(b))) \in Nat /\ admitted["tpm"][b] \in Nat
      BY <1>1, <1>8, FS_CardinalityType DEF LInv, TokensAreCounted
    <3>2. CASE b # at
      BY <2>1, <2>4, <3>1, <3>2
    <3>3. CASE b = at
      <4>1. /\ IsFiniteSet(TokensOf(PaidIn(at)) \cup Own)
            /\ Cardinality(TokensOf(PaidIn(at)) \cup Own)
                  = Cardinality(TokensOf(PaidIn(at))) + cost - Cardinality({})
        BY <2>6, <2>7, <3>1, <3>3, FS_Union
      <4>2. Cardinality({}) = 0
        BY FS_EmptySet
      <4>3. PICK m, n : m = Cardinality(TokensOf(PaidIn(at))) /\ n = admitted["tpm"][at]
        OBVIOUS
      <4>4. m \in Nat /\ n \in Nat /\ m <= n /\ cost \in Nat
        BY <1>1, <3>1, <3>3, <4>3
      <4>5. /\ IsFiniteSet(TokensOf(PaidIn(at))')
            /\ Cardinality(TokensOf(PaidIn(at))') = m + cost
            /\ admitted'["tpm"][at] = n + cost
        BY <2>1, <2>5, <4>1, <4>2, <4>3, <4>4
      <4>6. QED
        BY <3>3, <4>4, <4>5
    <3>4. QED
      BY <3>2, <3>3
  <2>9. QED
    BY <1>6, <2>8 DEF TokensAreCounted
<1>9. QED
  BY <1>7, <1>8

LEMMA NextKeepsLInv == LInv /\ [Next]_vars => LInv'
<1> SUFFICES ASSUME LInv, [Next]_vars PROVE LInv'
  OBVIOUS
<1>0. IInv' /\ req \in [Requests -> Request]
  BY NextKeepsIInv DEF LInv, IInv, TypeOK
<1>1. CASE UNCHANGED <<req, admitted>>
  <2>1. \A b : PassedIn(b)' = PassedIn(b)
    BY <1>1 DEF PassedIn
  <2>2. \A b : TokensOf(PaidIn(b))' = TokensOf(PaidIn(b))
    BY <1>1 DEF PaidIn, TokensOf
  <2>3. QED
    BY <1>0, <1>1, <2>1, <2>2
       DEF LInv, RpmComesFirst, PassedIsCounted, TpmComesLast, TokensAreCounted
<1>2. ASSUME NEW q \in Requests, NEW cost \in Costs, Arrive(q, cost) PROVE LInv'
  <2> DEFINE r == [req[q] EXCEPT !.pc = IF ReplicaOf[q] \in loaded THEN "evalsha" ELSE "load",
                                 !.now = clock, !.cost = cost]
  <2>1. /\ req' = [req EXCEPT ![q] = r] /\ admitted' = admitted /\ req[q].pc = "new"
        /\ r.dim = req[q].dim /\ r.passed = req[q].passed /\ r.pc # "new"
    BY <1>0, <1>2 DEF Arrive, Request
  <2> HIDE DEF r
  <2>2. QED
    BY <1>0, <2>1, QuietKeepsCount, QuietKeepsTokens DEF LInv
<1>3. ASSUME NEW q \in Requests, EvalSha(q) \/ Eval(q) PROVE LInv'
  <2>1. Pending(q) /\ Answer(q)
    BY <1>3 DEF EvalSha, Eval, Pending
  <2>2. QED
    BY <1>0, <2>1, AnswerKeepsCount, AnswerKeepsTokens DEF LInv
<1>4. ASSUME NEW q \in Requests,
             \/ Load(q) \/ LoadFails(q) \/ EvalShaFails(q) \/ EvalShaAnswerLost(q)
             \/ EvalFails(q) \/ EvalAnswerLost(q)
      PROVE  LInv'
  <2> DEFINE r == req'[q]
  <2>1. /\ req' = [req EXCEPT ![q] = r] /\ admitted' = admitted
        /\ r.dim = req[q].dim /\ r.passed = req[q].passed /\ r.pc # "new"
        /\ r.now = req[q].now /\ req[q].pc # "done"
    BY <1>0, <1>4 DEF Load, LoadFails, EvalShaFails, EvalShaAnswerLost, EvalFails,
       EvalAnswerLost, Request
  <2> HIDE DEF r
  <2>2. QED
    BY <1>0, <2>1, QuietKeepsCount, QuietKeepsTokens DEF LInv
<1>5. CASE Tick
  BY <1>1, <1>5 DEF Tick
<1>6. QED
  BY <1>1, <1>2, <1>3, <1>4, <1>5 DEF Next, vars

-----------------------------------------------------------------------------
(* Every step of the gateway is a step of the limiter, or none. *)
LEMMA InitRefines == GatewayInit => Init
BY DEF GatewayInit

LEMMA StepRefines == [GatewayNext]_gatewayVars => [Next]_vars
<1> SUFFICES ASSUME [GatewayNext]_gatewayVars PROVE [Next]_vars
  OBVIOUS
<1>1. CASE UNCHANGED gatewayVars
  BY <1>1 DEF gatewayVars, vars
<1>2. ASSUME NEW q \in Requests, NEW cost \in Costs, Lookup(q, cost) \/ LookupFails(q, cost)
      PROVE  [Next]_vars
  BY <1>2 DEF Lookup, LookupFails, Admit, Next, limiterVars
<1>3. ASSUME NEW q \in Requests, Check(q) PROVE Next
  BY <1>3 DEF Check, Next
<1>4. ASSUME NEW q \in Requests, NEW raised \in BOOLEAN, Complete(q, raised)
      PROVE  UNCHANGED vars
  BY <1>4 DEF Complete, limiterVars
<1>5. ASSUME NEW q \in Requests, NEW key, Receive(q, key) PROVE UNCHANGED vars
  BY <1>5 DEF Receive, limiterVars
<1>6. ASSUME NEW k, Edit(k) PROVE UNCHANGED vars
  BY <1>6 DEF Edit, limiterVars
<1>7. CASE GatewayTick
  BY <1>7 DEF GatewayTick, Next
<1>8. QED
  BY <1>1, <1>2, <1>3, <1>4, <1>5, <1>6, <1>7 DEF GatewayNext, Serve

(* What the gateway does to the limiter's variables, the limiter specifies.  *)
THEOREM GatewayImplementsLimiter == GatewaySpec => Spec
BY InitRefines, StepRefines, PTL DEF GatewaySpec, Spec

(* Behind any number of keys, key stores and answers, no bucket admits more  *)
(* than the quota.                                                          *)
THEOREM QuotaHoldsBehindGateway == GatewaySpec => []AdmittedWithinLimit
BY GatewayImplementsLimiter, QuotaHolds

(* Nor does the sliding window. *)
THEOREM SlidingHoldsBehindGateway == GatewaySpec => SlidingAdmission
BY GatewayImplementsLimiter, SlidingHolds

-----------------------------------------------------------------------------
(* A request has no status before it is answered or its stream begins, and   *)
(* one that reached a worker has passed both checks.                        *)
AnsweredLate ==
    \A q \in Requests : http[q].pc \in {"new", "lookup"} => http[q].status = 0

Working(q) ==
    http[q].pc = "running" \/ (http[q].status \in {200, 500} /\ req[q].pc = "done")

WorkHasPassed ==
    \A q \in Requests : Working(q) => req[q].pc = "done" /\ \A d \in Dims : req[q].passed[d]

GInv == LInv /\ GatewayTypeOK /\ AnsweredLate /\ WorkHasPassed

(* The part of GInv that is about one request. *)
Fine(q) ==
    /\ http[q] \in [pc : {"new", "lookup", "limited", "running", "done"},
                    key : Keys \cup {NoKey}, status : {0, 200, 401, 429, 500}]
    /\ http[q].pc = "done" => http[q].status # 0
    /\ (http[q].pc \in {"new", "lookup"} \/ http[q].status = 401) <=> req[q].pc = "new"
    /\ http[q].pc = "limited" <=> Pending(q)
    /\ http[q].pc \in {"new", "lookup"} => http[q].status = 0
    /\ Working(q) => req[q].pc = "done" /\ \A d \in Dims : req[q].passed[d]

LEMMA GInvByRequest ==
    GInv <=> /\ LInv /\ store \subseteq Keys /\ edits \in 0 .. MaxEdits
             /\ http = [q \in Requests |-> http[q]]
             /\ \A q \in Requests : Fine(q)
BY DEF GInv, GatewayTypeOK, AnsweredLate, WorkHasPassed, Fine

(* A step of one request's, which leaves the others alone. *)
LEMMA OneRequestKeeps ==
    ASSUME GInv, LInv', NEW q \in Requests,
           \A p \in Requests \ {q} : req'[p] = req[p] /\ http'[p] = http[p],
           http' = [p \in Requests |-> http'[p]], Fine(q)',
           UNCHANGED <<store, edits>>
    PROVE  GInv'
<1>1. \A p \in Requests \ {q} : Fine(p)'
  BY GInvByRequest DEF Fine, Working, Pending
<1>2. Fine(q)'
  OBVIOUS
<1>3. QED
  BY <1>1, <1>2, GInvByRequest
     DEF GInv, GatewayTypeOK, AnsweredLate, WorkHasPassed, Fine

LEMMA GInvHoldsAtFirst == GatewayInit => GInv
<1> SUFFICES ASSUME GatewayInit PROVE GInv
  OBVIOUS
<1>1. LInv
  BY LInvHoldsAtFirst, InitRefines
<1>2. ASSUME NEW q \in Requests PROVE Fine(q)
  <2>1. http[q] = [pc |-> "new", key |-> NoKey, status |-> 0] /\ req[q].pc = "new"
    BY DEF GatewayInit, Init, New
  <2>2. QED
    BY <2>1 DEF Fine, Working, Pending
<1>3. QED
  BY <1>1, <1>2, GInvByRequest, GatewayAssumption DEF GatewayInit

(* A request that goes on, or is answered. *)
LEMMA GotoKeeps ==
    ASSUME GInv, LInv', NEW q \in Requests,
           NEW pc \in {"lookup", "limited", "running", "done"},
           NEW key \in Keys \cup {NoKey}, NEW status \in {0, 200, 401, 429, 500},
           Goto(q, pc, key, status),
           \A p \in Requests \ {q} : req'[p] = req[p], UNCHANGED <<store, edits>>,
           (pc = "lookup" \/ status = 401) <=> req'[q].pc = "new",
           pc = "limited" <=> Pending(q)',
           pc = "lookup" => status = 0,
           pc = "done" => status # 0,
           (pc = "running" \/ (status \in {200, 500} /\ req'[q].pc = "done")) =>
               req'[q].pc = "done" /\ \A d \in Dims : req'[q].passed[d]
    PROVE  GInv'
<1> DEFINE h == [pc |-> pc, key |-> key, status |-> status]
<1>1. /\ http'[q] = h
      /\ \A p \in Requests \ {q} : http'[p] = http[p]
      /\ http' = [p \in Requests |-> http'[p]]
  <2>1. http' = [http EXCEPT ![q] = h]
    BY DEF Goto
  <2>2. http = [p \in Requests |-> http[p]]
    BY GInvByRequest
  <2> HIDE DEF h
  <2>3. QED
    BY <2>1, <2>2
<1>2. Fine(q)'
  <2>1. h \in [pc : {"new", "lookup", "limited", "running", "done"},
               key : Keys \cup {NoKey}, status : {0, 200, 401, 429, 500}]
    OBVIOUS
  <2>2. h.pc = pc /\ h.status = status /\ pc # "new"
    OBVIOUS
  <2> HIDE DEF h
  <2>3. Working(q)' <=> pc = "running" \/ (status \in {200, 500} /\ req'[q].pc = "done")
    BY <1>1, <2>2 DEF Working
  <2>4. /\ http'[q].pc = "done" => http'[q].status # 0
        /\ (http'[q].pc \in {"new", "lookup"} \/ http'[q].status = 401) <=> req'[q].pc = "new"
        /\ http'[q].pc = "limited" <=> Pending(q)'
        /\ http'[q].pc \in {"new", "lookup"} => http'[q].status = 0
    BY <1>1, <2>2
  <2>5. QED
    BY <1>1, <2>1, <2>3, <2>4 DEF Fine
<1>3. QED
  BY <1>1, <1>2, OneRequestKeeps

LEMMA ReceiveKeeps ==
    ASSUME GInv, NEW q \in Requests, NEW key \in Keys \cup {NoKey}, Receive(q, key)
    PROVE  GInv'
<1>1. /\ http[q].pc = "new" /\ req' = req /\ UNCHANGED <<store, edits>>
      /\ Fine(q) /\ http = [p \in Requests |-> http[p]]
  BY GInvByRequest DEF Receive, limiterVars, vars
<1>2. LInv'
  BY <1>1, NextKeepsLInv DEF GInv, Receive, limiterVars
<1>3. req'[q].pc = "new" /\ http[q].status = 0
  BY <1>1 DEF Fine
<1>4. CASE key = NoKey
  <2>1. Goto(q, "done", http[q].key, 401) /\ http[q].key \in Keys \cup {NoKey}
    BY <1>1, <1>4 DEF Receive, Respond, Fine
  <2>2. QED
    BY <1>1, <1>2, <1>3, <2>1, GotoKeeps DEF Pending
<1>5. CASE key # NoKey
  <2>1. Goto(q, "lookup", key, 0)
    BY <1>5 DEF Receive
  <2>2. QED
    BY <1>1, <1>2, <1>3, <2>1, GotoKeeps DEF Pending
<1>6. QED
  BY <1>4, <1>5

LEMMA AdmitKeeps ==
    ASSUME GInv, NEW q \in Requests, NEW cost \in Costs, Admit(q, cost), http[q].pc = "lookup"
    PROVE  GInv'
<1>1. /\ Fine(q) /\ http = [p \in Requests |-> http[p]] /\ UNCHANGED <<store, edits>>
      /\ req \in [Requests -> Request] /\ Arrive(q, cost)
  BY GInvByRequest DEF GInv, LInv, IInv, TypeOK, Admit
<1>2. LInv'
  BY <1>1, NextKeepsLInv DEF GInv, Next
<1>3. /\ \A p \in Requests \ {q} : req'[p] = req[p]
      /\ req'[q].pc \in {"load", "evalsha"}
  BY <1>1 DEF Arrive, Request
<1>4. Goto(q, "limited", http[q].key, 0) /\ http[q].key \in Keys \cup {NoKey}
  BY <1>1 DEF Admit, Fine
<1>5. QED
  BY <1>1, <1>2, <1>3, <1>4, GotoKeeps DEF Pending

LEMMA LookupKeeps ==
    ASSUME GInv, NEW q \in Requests, NEW cost \in Costs,
           Lookup(q, cost) \/ LookupFails(q, cost)
    PROVE  GInv'
<1>1. http[q].pc = "lookup"
  BY DEF Lookup, LookupFails
<1>2. CASE Admit(q, cost)
  BY <1>1, <1>2, AdmitKeeps
<1>3. CASE Respond(q, 401) /\ UNCHANGED <<limiterVars, store, edits>>
  <2>1. LInv' /\ req' = req /\ Fine(q)
    BY <1>3, NextKeepsLInv, GInvByRequest DEF GInv, limiterVars, vars
  <2>2. req'[q].pc = "new" /\ http[q].key \in Keys \cup {NoKey}
    BY <2>1, <1>1 DEF Fine
  <2>3. QED
    BY <1>3, <2>1, <2>2, GotoKeeps DEF Pending, Respond
<1>4. QED
  BY <1>2, <1>3 DEF Lookup, LookupFails

LEMMA CheckKeeps ==
    ASSUME GInv, NEW q \in Requests, Check(q) PROVE GInv'
<1>1. /\ Fine(q) /\ http = [p \in Requests |-> http[p]] /\ UNCHANGED <<store, edits>>
      /\ req \in [Requests -> Request] /\ Pending(q) /\ Next
  BY GInvByRequest DEF GInv, LInv, IInv, TypeOK, Check, Load, LoadFails, EvalSha,
     EvalShaFails, EvalShaAnswerLost, Eval, EvalFails, EvalAnswerLost, Pending, Next
<1>2. LInv'
  BY <1>1, NextKeepsLInv DEF GInv
<1>3. /\ \A p \in Requests \ {q} : req'[p] = req[p]
      /\ req'[q].pc \in {"evalsha", "eval", "done", "error"}
  <2>1. CASE Answer(q)
    BY <1>1, <2>1 DEF Answer, Request
  <2>2. CASE \/ Load(q) \/ LoadFails(q) \/ EvalShaFails(q) \/ EvalShaAnswerLost(q)
             \/ EvalFails(q) \/ EvalAnswerLost(q)
    BY <1>1, <2>2 DEF Load, LoadFails, EvalShaFails, EvalShaAnswerLost, EvalFails,
       EvalAnswerLost, Request
  <2>3. QED
    BY <2>1, <2>2 DEF Check, EvalSha, Eval
<1>4. req[q].pc \notin {"new", "done"}
  BY <1>1 DEF Pending
<1>5. /\ http[q].pc = "limited" /\ http[q].status # 401
      /\ http[q].key \in Keys \cup {NoKey} /\ http[q].status \in {0, 200, 401, 429, 500}
  BY <1>1, <1>4 DEF Fine, Pending
<1>6. Verdict(q, req'[q])
  BY DEF Check
<1>7. CASE req'[q].pc = "error"
  <2>1. Goto(q, "done", http[q].key, 500)
    BY <1>6, <1>7 DEF Verdict, Respond
  <2>2. QED
    BY <1>1, <1>2, <1>3, <1>5, <1>7, <2>1, GotoKeeps DEF Pending
<1>8. CASE req'[q].pc = "done" /\ \A d \in Dims : req'[q].passed[d]
  <2>1. PICK status \in {0, 200} : Goto(q, "running", http[q].key, status)
    BY <1>6, <1>8 DEF Verdict
  <2>2. QED
    BY <1>1, <1>2, <1>3, <1>5, <1>8, <2>1, GotoKeeps DEF Pending
<1>9. CASE req'[q].pc = "done" /\ \E d \in Dims : ~ req'[q].passed[d]
  <2>1. Goto(q, "done", http[q].key, 429)
    BY <1>6, <1>9 DEF Verdict, Respond
  <2>2. QED
    BY <1>1, <1>2, <1>3, <1>5, <1>9, <2>1, GotoKeeps DEF Pending
<1>10. CASE req'[q].pc \notin {"error", "done"}
  <2>1. http' = http
    BY <1>6, <1>10 DEF Verdict
  <2>2. Fine(q)'
    BY <1>1, <1>3, <1>4, <1>5, <1>10, <2>1 DEF Fine, Working, Pending
  <2>3. QED
    BY <1>1, <1>2, <1>3, <2>1, <2>2, OneRequestKeeps
<1>11. QED
  BY <1>7, <1>8, <1>9, <1>10

LEMMA CompleteKeeps ==
    ASSUME GInv, NEW q \in Requests, NEW raised \in BOOLEAN, Complete(q, raised)
    PROVE  GInv'
<1>1. /\ Fine(q) /\ req' = req /\ UNCHANGED vars /\ UNCHANGED <<store, edits>>
      /\ http[q].pc = "running"
  BY GInvByRequest DEF Complete, limiterVars, vars
<1>2. LInv'
  BY <1>1, NextKeepsLInv DEF GInv
<1>3. req[q].pc = "done" /\ \A d \in Dims : req[q].passed[d]
  BY <1>1 DEF Fine, Working, Pending
<1>4. PICK status \in {200, 500} : Goto(q, "done", http[q].key, status)
  BY DEF Complete, Respond
<1>5. http[q].key \in Keys \cup {NoKey}
  BY <1>1 DEF Fine
<1>6. QED
  BY <1>1, <1>2, <1>3, <1>4, <1>5, GotoKeeps DEF Pending

LEMMA GatewayNextKeeps == GInv /\ [GatewayNext]_gatewayVars => GInv'
<1> SUFFICES ASSUME GInv, [GatewayNext]_gatewayVars PROVE GInv'
  OBVIOUS
<1>1. LInv'
  BY StepRefines, NextKeepsLInv DEF GInv
<1>2. CASE UNCHANGED <<req, http>> /\ store' \subseteq Keys /\ edits' \in 0 .. MaxEdits
  <2>1. \A q \in Requests : Fine(q)'
    BY <1>2, GInvByRequest DEF Fine, Working, Pending
  <2>2. http' = [q \in Requests |-> http'[q]]
    BY <1>2, GInvByRequest
  <2>3. QED
    BY <1>1, <1>2, <2>1, <2>2
       DEF GInv, GatewayTypeOK, AnsweredLate, WorkHasPassed, Fine
<1>3. ASSUME NEW q \in Requests, Serve(q) PROVE GInv'
  BY <1>3, LookupKeeps, CheckKeeps, CompleteKeeps DEF Serve
<1>4. ASSUME NEW q \in Requests, NEW key \in Keys \cup {NoKey}, Receive(q, key) PROVE GInv'
  BY <1>4, ReceiveKeeps
<1>5. ASSUME NEW k \in Keys, Edit(k) PROVE GInv'
  BY <1>2, <1>5, GatewayAssumption DEF Edit, limiterVars, vars, GInv, GatewayTypeOK
<1>6. CASE GatewayTick \/ UNCHANGED gatewayVars
  BY <1>2, <1>6 DEF GatewayTick, Tick, gatewayVars, GInv, GatewayTypeOK
<1>7. QED
  BY <1>3, <1>4, <1>5, <1>6 DEF GatewayNext

LEMMA AlwaysGInv == GatewaySpec => []GInv
BY GInvHoldsAtFirst, GatewayNextKeeps, PTL DEF GatewaySpec

(* Every request has a status of its own way: 401 never reached the quotas.  *)
THEOREM GatewayTypeCorrect == GatewaySpec => []GatewayTypeOK
<1>1. GInv => GatewayTypeOK
  BY DEF GInv
<1>2. QED
  BY <1>1, AlwaysGInv, PTL

(* In no bucket do more requests reach the workers than the rpm quota, for   *)
(* any number of requests, keys and failures of Redis.                      *)
THEOREM RequestsHold == GatewaySpec => []RequestsWithinQuota
<1>1. ASSUME GInv, NEW b \in Buckets PROVE Cardinality(WorkIn(b)) <= Limit["rpm"]
  <2>1. WorkIn(b) \subseteq PassedIn(b)
    BY <1>1 DEF GInv, WorkHasPassed, Working, WorkIn, PassedIn, Dims
  <2>2. /\ Cardinality(WorkIn(b)) <= Cardinality(PassedIn(b))
        /\ Cardinality(WorkIn(b)) \in Nat /\ Cardinality(PassedIn(b)) \in Nat
    BY <2>1, PassedInFinite, FS_Subset, FS_CardinalityType
  <2>3. /\ Cardinality(PassedIn(b)) <= admitted["rpm"][b]
        /\ admitted["rpm"][b] \in Nat /\ admitted["rpm"][b] <= Limit["rpm"]
        /\ Limit["rpm"] \in Nat
    BY <1>1, RateLimiterAssumption
       DEF GInv, LInv, IInv, TypeOK, PassedIsCounted, AdmittedWithinLimit, Dims
  <2>4. QED
    BY <2>2, <2>3
<1>2. GInv => RequestsWithinQuota
  BY <1>1 DEF RequestsWithinQuota
<1>3. QED
  BY <1>2, AlwaysGInv, PTL

(* Nor do they ask for more tokens than the tpm quota, though a check that    *)
(* is repeated or late is charged in Redis and passes only once.             *)
THEOREM TokensHold == GatewaySpec => []TokensWithinQuota
<1>1. ASSUME GInv, NEW b \in Buckets
      PROVE  Cardinality(TokensOf(WorkIn(b))) <= Limit["tpm"]
  <2>1. WorkIn(b) \subseteq PaidIn(b)
    BY <1>1 DEF GInv, WorkHasPassed, Working, WorkIn, PaidIn, Dims
  <2>2. TokensOf(WorkIn(b)) \subseteq TokensOf(PaidIn(b))
    BY <2>1 DEF TokensOf
  <2>3. /\ IsFiniteSet(TokensOf(PaidIn(b)))
        /\ Cardinality(TokensOf(PaidIn(b))) <= admitted["tpm"][b]
        /\ admitted["tpm"][b] \in Nat /\ admitted["tpm"][b] <= Limit["tpm"]
        /\ Limit["tpm"] \in Nat
    BY <1>1, RateLimiterAssumption
       DEF GInv, LInv, IInv, TypeOK, TokensAreCounted, AdmittedWithinLimit, Dims
  <2>4. /\ Cardinality(TokensOf(WorkIn(b))) <= Cardinality(TokensOf(PaidIn(b)))
        /\ Cardinality(TokensOf(WorkIn(b))) \in Nat
        /\ Cardinality(TokensOf(PaidIn(b))) \in Nat
    BY <2>2, <2>3, FS_Subset, FS_CardinalityType
  <2>5. QED
    BY <2>3, <2>4
<1>2. GInv => TokensWithinQuota
  BY <1>1 DEF TokensWithinQuota
<1>3. QED
  BY <1>2, AlwaysGInv, PTL

(* A request is answered after a bounded number of its own steps, and once.  *)
THEOREM StepsCount == GatewaySpec => EveryStepCounts
<1>1. ASSUME GInv, GInv', GatewayNext, NEW q \in Requests
      PROVE  UNCHANGED <<http[q], req[q]>> \/ StepsLeft(q)' < StepsLeft(q)
  <2>0. /\ Fine(q) /\ Fine(q)' /\ http = [p \in Requests |-> http[p]]
        /\ req \in [Requests -> Request]
    <3>1. Fine(q) /\ http = [p \in Requests |-> http[p]]
      BY <1>1, GInvByRequest
    <3>2. Fine(q)'
      BY <1>1 DEF GInv, GatewayTypeOK, AnsweredLate, WorkHasPassed, Fine
    <3>3. QED
      BY <1>1, <3>1, <3>2 DEF GInv, LInv, IInv, TypeOK
  <2>1. CASE UNCHANGED <<http, req>>
    BY <2>1
  <2>2. ASSUME NEW p \in Requests, Serve(p) \/ \E key \in Keys \cup {NoKey} : Receive(p, key),
               p # q
        PROVE  UNCHANGED <<http[q], req[q]>>
    <3>1. http'[q] = http[q]
      BY <2>0, <2>2 DEF Serve, Receive, Lookup, LookupFails, Admit, Check, Verdict, Complete,
         Respond, Goto
    <3>2. req'[q] = req[q]
      BY <2>0, <2>2 DEF Serve, Receive, Lookup, LookupFails, Admit, Arrive, Check, Complete,
         Load, LoadFails, EvalSha, EvalShaFails, EvalShaAnswerLost, Eval, EvalFails, EvalAnswerLost, Answer,
         limiterVars, vars
    <3>3. QED
      BY <3>1, <3>2
  <2>3. ASSUME NEW key \in Keys \cup {NoKey}, Receive(q, key)
        PROVE  StepsLeft(q)' < StepsLeft(q)
    <3>1. http[q].pc = "new" /\ http'[q].pc \in {"lookup", "done"}
      BY <2>0, <2>3 DEF Receive, Respond, Goto
    <3>2. QED
      BY <3>1 DEF StepsLeft
  <2>4. ASSUME NEW cost \in Costs, Lookup(q, cost) \/ LookupFails(q, cost)
        PROVE  StepsLeft(q)' < StepsLeft(q)
    <3>1. http[q].pc = "lookup" /\ http'[q].pc \in {"limited", "done"}
      BY <2>0, <2>4 DEF Lookup, LookupFails, Admit, Respond, Goto
    <3>2. http'[q].pc = "limited" => CommandsLeft[req'[q].pc] \in 1 .. 3
      BY <2>0 DEF Fine, Pending, CommandsLeft
    <3>3. QED
      BY <3>1, <3>2 DEF StepsLeft
  <2>5. ASSUME NEW raised \in BOOLEAN, Complete(q, raised)
        PROVE  StepsLeft(q)' < StepsLeft(q)
    <3>1. http[q].pc = "running" /\ http'[q].pc = "done"
      BY <2>0, <2>5 DEF Complete, Respond, Goto
    <3>2. QED
      BY <3>1 DEF StepsLeft
  <2>6. ASSUME Check(q) PROVE StepsLeft(q)' < StepsLeft(q)
    <3>1. Pending(q) /\ http[q].pc = "limited"
      BY <2>0, <2>6 DEF Check, Load, LoadFails, EvalSha, EvalShaFails, EvalShaAnswerLost, Eval, EvalFails,
         EvalAnswerLost, Pending, Fine
    <3>2. /\ req[q].dim \in Dims /\ req[q] \in Request
      BY <2>0 DEF Request
    <3>3. \/ req'[q].pc = "error"
          \/ req'[q].pc = "done"
          \/ req[q].dim = "rpm" /\ req'[q].dim = "tpm" /\ req'[q].pc = "evalsha"
          \/ req[q].pc = "evalsha" /\ req'[q].dim = req[q].dim /\ req'[q].pc = "eval"
          \/ req[q].pc = "load" /\ req'[q].dim = req[q].dim /\ req'[q].pc = "evalsha"
      <4>1. CASE Answer(q)
        BY <2>0, <3>2, <4>1 DEF Answer, Request, Dims
      <4>2. CASE \/ Load(q) \/ LoadFails(q) \/ EvalShaFails(q) \/ EvalShaAnswerLost(q)
                 \/ EvalFails(q) \/ EvalAnswerLost(q)
        BY <2>0, <3>2, <4>2
           DEF Load, LoadFails, EvalShaFails, EvalShaAnswerLost, EvalFails, EvalAnswerLost, Request
      <4>3. QED
        BY <2>6, <4>1, <4>2 DEF Check, EvalSha, Eval
    <3>4. /\ req'[q].pc \in {"error", "done"} => http'[q].pc \in {"running", "done"}
          /\ req'[q].pc \in {"load", "evalsha", "eval"} => http'[q].pc = "limited"
      <4>1. Verdict(q, req'[q])
        BY <2>6 DEF Check
      <4>2. \A d \in Dims : req'[q].passed[d] \in BOOLEAN
        BY <1>1 DEF GInv, LInv, IInv, TypeOK, Request
      <4>3. QED
        BY <2>0, <4>1, <4>2 DEF Verdict, Respond, Goto, Fine, Pending
    <3>5. QED
      BY <3>1, <3>2, <3>3, <3>4 DEF StepsLeft, CommandsLeft, Pending, Dims
  <2>7. QED
    BY <1>1, <2>1, <2>2, <2>3, <2>4, <2>5, <2>6
       DEF GatewayNext, Serve, Edit, GatewayTick, Tick, limiterVars, vars
<1>2. GInv /\ GInv' /\ GatewayNext =>
        \A q \in Requests : UNCHANGED <<http[q], req[q]>> \/ StepsLeft(q)' < StepsLeft(q)
  BY <1>1
<1>3. QED
  BY <1>2, AlwaysGInv, PTL DEF GatewaySpec, EveryStepCounts

(* A revoked key is refused for good, and before it is charged for.          *)
THEOREM RevocationHolds == GatewaySpec => RevokedIsRefused
<1> SUFFICES ASSUME NEW q \in Requests, NEW k \in Keys \ Fallback
             PROVE  GatewaySpec =>
                      []((http[q].pc = "new" /\ [](k \notin store))
                           => [](http[q].key = k => req[q].pc = "new"))
  BY DEF RevokedIsRefused
<1> DEFINE New0 == http[q].pc = "new"
           Gone == k \notin store
           Unserved == http[q].key = k => req[q].pc = "new"
<1>1. GInv /\ New0 => Unserved
  BY GInvByRequest DEF Fine
<1>2. GInv /\ GInv' /\ Gone /\ Unserved /\ [GatewayNext]_gatewayVars => Unserved'
  <2> SUFFICES ASSUME GInv, GInv', Gone, Unserved, [GatewayNext]_gatewayVars,
                      http'[q].key = k
               PROVE  req'[q].pc = "new"
    OBVIOUS
  <2>0. /\ Fine(q)
        /\ http \in [Requests -> [pc : {"new", "lookup", "limited", "running", "done"},
                                  key : Keys \cup {NoKey}, status : {0, 200, 401, 429, 500}]]
        /\ req \in [Requests -> Request]
    BY GInvByRequest DEF GInv, GatewayTypeOK, LInv, IInv, TypeOK
  <2>1. CASE UNCHANGED <<req, http>>
    BY <2>1
  <2>2. ASSUME NEW p \in Requests, Serve(p) \/ \E key \in Keys \cup {NoKey} : Receive(p, key),
               p # q
        PROVE  req'[q].pc = "new"
    <3>1. http'[q] = http[q]
      BY <2>0, <2>2 DEF Serve, Receive, Lookup, LookupFails, Admit, Check, Verdict, Complete,
         Respond, Goto
    <3>2. req'[q] = req[q]
      BY <2>0, <2>2 DEF Serve, Receive, Lookup, LookupFails, Admit, Arrive, Check, Complete,
         Load, LoadFails, EvalSha, EvalShaFails, EvalShaAnswerLost, Eval, EvalFails, EvalAnswerLost, Answer,
         limiterVars, vars
    <3>3. QED
      BY <3>1, <3>2
  <2>3. ASSUME NEW key, Receive(q, key) PROVE req'[q].pc = "new"
    BY <2>0, <2>3 DEF Receive, Fine, limiterVars, vars
  <2>4. ASSUME NEW cost, Lookup(q, cost) \/ LookupFails(q, cost) PROVE req'[q].pc = "new"
    <3>1. http'[q].key = http[q].key
      BY <2>0, <2>4 DEF Lookup, LookupFails, Admit, Respond, Goto
    <3>2. UNCHANGED vars
      BY <3>1, <2>4 DEF Lookup, LookupFails, limiterVars
    <3>3. QED
      BY <3>1, <3>2 DEF vars
  <2>5. ASSUME Check(q) PROVE req'[q].pc = "new"
    <3>1. http'[q].key = http[q].key
      BY <2>0, <2>5 DEF Check, Verdict, Respond, Goto
    <3>2. req[q].pc # "new"
      BY <2>5 DEF Check, Load, LoadFails, EvalSha, EvalShaFails, EvalShaAnswerLost, Eval, EvalFails,
         EvalAnswerLost
    <3>3. QED
      BY <3>1, <3>2
  <2>6. ASSUME NEW raised, Complete(q, raised) PROVE req'[q].pc = "new"
    BY <2>0, <2>6 DEF Complete, Respond, Goto, limiterVars, vars
  <2>7. ASSUME NEW key, Edit(key) PROVE req'[q].pc = "new"
    BY <2>1, <2>7 DEF Edit, limiterVars, vars
  <2>8. CASE GatewayTick \/ UNCHANGED gatewayVars
    BY <2>1, <2>8 DEF GatewayTick, Tick, gatewayVars
  <2>9. QED
    BY <2>2, <2>3, <2>4, <2>5, <2>6, <2>7, <2>8 DEF GatewayNext, Serve
<1>3. QED
  BY <1>1, <1>2, AlwaysGInv, PTL DEF GatewaySpec
=============================================================================
