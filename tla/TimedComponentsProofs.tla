-------------------------- MODULE TimedComponentsProofs --------------------------
(***************************************************************************)
(* The ingest rate limiter, for every burst, rate, cap and number of       *)
(* clients; what an analyst is told of an indicator; and that the          *)
(* components with a clock do not disturb each other: a behaviour of the   *)
(* composition is a behaviour of each.                                     *)
(***************************************************************************)
EXTENDS TimedComponents, DetectorProofs

-----------------------------------------------------------------------------
(* The rate limiter.  The inductive invariant adds what no single property *)
(* says: a bucket's clock is its client's last request, and neither it nor *)
(* the bucket's birth is ahead of the limiter's clock.                     *)

\* The clocks of the limiter agree and none runs ahead.
ClocksAgree ==
    /\ \A c \in Client : asked[c] <= now
    /\ \A c \in Limited :
          /\ asked[c] # Never /\ born[c] # Never
          /\ buckets[c].updated = asked[c] /\ born[c] <= asked[c]

LimiterInv ==
    LimiterTypeOK /\ ClocksAgree /\ BucketsBounded /\ AdmissionBounded /\ SteadyClientServed

-----------------------------------------------------------------------------
(* Arithmetic of the refill.                                               *)

LEMMA RefillIsNatural ==
    ASSUME NEW elapsed \in Nat, NEW r \in Nat
    PROVE  elapsed * r \in Nat
  OBVIOUS

LEMMA RefillAddsUp ==
    ASSUME NEW a \in Nat, NEW b \in Nat, NEW r \in Nat
    PROVE  (a + b) * r = a * r + b * r
  OBVIOUS

LEMMA OneMoreToken ==
    ASSUME NEW n \in Nat, Token \in Nat
    PROVE  Token * (n + 1) = Token * n + Token
  OBVIOUS

-----------------------------------------------------------------------------
(* The bucket a request finds, and what it leaves.                         *)

LEMMA BucketFound ==
    ASSUME LimiterTypeOK, ClocksAgree, NEW client \in Client
    PROVE  /\ BucketFor(client) \in [rate : Rates, tokens : 0..Burst, updated : Stamp]
           /\ BucketFor(client).rate = rate
           /\ BucketFor(client).updated <= now
           /\ IsRebuilt(client) =>
                BucketFor(client).tokens = Burst /\ BucketFor(client).updated = now
           /\ ~IsRebuilt(client) =>
                client \in Limited /\ BucketFor(client) = buckets[client]
<1>1. Burst \in 0..Burst
  BY LimiterAssumption
<1>2. CASE IsRebuilt(client)
  BY <1>1, <1>2, ClockAssumption DEF BucketFor, LimiterTypeOK, Stamp
<1>3. CASE ~IsRebuilt(client)
  <2>1. client \in Limited /\ buckets[client].rate = rate
    BY <1>3 DEF IsRebuilt
  <2>. QED
    BY <1>3, <2>1, ClockAssumption DEF BucketFor, LimiterTypeOK, ClocksAgree, Stamp
<1>. QED
  BY <1>2, <1>3

LEMMA TokensAfterRefill ==
    ASSUME LimiterTypeOK, NEW bucket \in [rate : Rates, tokens : 0..Burst, updated : Stamp],
           bucket.updated <= now
    PROVE  /\ (now - bucket.updated) * bucket.rate \in Nat
           /\ Refill(bucket) \in 0..Burst
           /\ Refill(bucket) <= bucket.tokens + (now - bucket.updated) * bucket.rate
           /\ Refill(bucket) = Burst
                \/ Refill(bucket) = bucket.tokens + (now - bucket.updated) * bucket.rate
           /\ bucket.tokens = Burst => Refill(bucket) = Burst
<1>1. now - bucket.updated \in Nat /\ bucket.rate \in Nat
  <2>1. bucket.updated \in 0..MaxTime /\ bucket.rate \in Rates /\ now \in 0..MaxTime
    BY DEF LimiterTypeOK, Stamp
  <2>2. bucket.rate \in Nat
    BY <2>1, LimiterAssumption
  <2>. QED
    BY <2>1, <2>2, ClockAssumption
<1> DEFINE refilled == (now - bucket.updated) * bucket.rate
<1>2. refilled \in Nat
  BY <1>1, RefillIsNatural
<1> HIDE DEF refilled
<1>3. Refill(bucket) = MinOf(Burst, bucket.tokens + refilled)
  BY DEF Refill, refilled
<1>4. bucket.tokens \in 0..Burst /\ Burst \in Nat
  BY LimiterAssumption
<1>5. /\ Refill(bucket) \in 0..Burst
      /\ Refill(bucket) <= bucket.tokens + refilled
      /\ Refill(bucket) = Burst \/ Refill(bucket) = bucket.tokens + refilled
      /\ bucket.tokens = Burst => Refill(bucket) = Burst
  BY <1>2, <1>3, <1>4 DEF MinOf
<1>. QED
  BY <1>2, <1>5 DEF refilled

LEMMA SpentBucket ==
    ASSUME LimiterTypeOK, NEW bucket \in [rate : Rates, tokens : 0..Burst, updated : Stamp],
           NEW tokens \in 0..Burst
    PROVE  /\ Spend(bucket, tokens) \in [rate : Rates, tokens : 0..Burst, updated : Stamp]
           /\ Spend(bucket, tokens).rate = bucket.rate
           /\ Spend(bucket, tokens).updated = now
           /\ Spend(bucket, tokens).tokens =
                IF tokens >= Token THEN tokens - Token ELSE tokens
<1>1. (IF tokens >= Token THEN tokens - Token ELSE tokens) \in 0..Burst
  BY LimiterAssumption
<1>. QED
  BY <1>1 DEF Spend, LimiterTypeOK

-----------------------------------------------------------------------------
(* The order of use.                                                       *)

\* A client is never evicted by its own request.
LEMMA RequesterKept ==
    ASSUME NEW client
    PROVE  /\ DOMAIN UsedNow(client) = Limited \cup {client}
           /\ client \in DOMAIN UsedNow(client) \ Overflow(UsedNow(client))
           /\ UsedNow(client)[client] = 0
  BY LimiterAssumption DEF UsedNow, Overflow

LEMMA OrderOfUse ==
    ASSUME BucketsBounded, NEW client
    PROVE  /\ \A c \in DOMAIN UsedNow(client) : UsedNow(client)[c] \in Nat
           /\ \A c \in DOMAIN UsedNow(client) : c # client => UsedNow(client)[c] > 0
           /\ \A c, d \in DOMAIN UsedNow(client) :
                 UsedNow(client)[c] = UsedNow(client)[d] => c = d
<1> DEFINE ages == UsedNow(client)
<1>1. /\ DOMAIN ages = Limited \cup {client} /\ ages[client] = 0
      /\ \A c \in Limited : c # client =>
            ages[c] = IF client \in Limited /\ idle[c] > idle[client] THEN idle[c] ELSE idle[c] + 1
  BY DEF UsedNow
<1>2. /\ \A c \in Limited : idle[c] \in Nat
      /\ \A c, d \in Limited : idle[c] = idle[d] => c = d
  BY LimiterAssumption DEF BucketsBounded
<1> HIDE DEF ages
<1>3. \A c \in DOMAIN ages : c # client => c \in Limited /\ ages[c] \in Nat /\ ages[c] > 0
  BY <1>1, <1>2
<1>4. ASSUME NEW c \in Limited, NEW d \in Limited, c # client, d # client, ages[c] = ages[d]
      PROVE  c = d
  <2>1. CASE client \in Limited
    <3>1. idle[c] # idle[client] /\ idle[d] # idle[client]
      BY <1>2, <1>4, <2>1
    <3>. QED
      BY <1>1, <1>2, <1>4, <2>1, <3>1
  <2>2. CASE client \notin Limited
    BY <1>1, <1>2, <1>4, <2>2
  <2>. QED
    BY <2>1, <2>2
<1>5. \A c, d \in DOMAIN ages : ages[c] = ages[d] => c = d
  BY <1>1, <1>3, <1>4
<1>. QED
  BY <1>1, <1>3, <1>5 DEF ages

-----------------------------------------------------------------------------
(* One request.                                                            *)

\* What Request(client) changes, by the names its definition gives the parts.
LEMMA RequestEffect ==
    ASSUME NEW client \in Client, Request(client)
    PROVE  LET bucket == BucketFor(client)
               tokens == Refill(bucket)
               ages   == UsedNow(client)
               used   == IF IsRebuilt(client) THEN 0 ELSE spent[client]
           IN  /\ Limited' = DOMAIN ages \ Overflow(ages)
               /\ \A c \in Limited' :
                     /\ buckets'[c] = IF c = client THEN Spend(bucket, tokens) ELSE buckets[c]
                     /\ idle'[c] = ages[c]
               /\ DOMAIN idle' = Limited'
               /\ born' = [born EXCEPT ![client] = IF IsRebuilt(client) THEN now ELSE @]
               /\ spent' = [spent EXCEPT ![client] = IF tokens >= Token THEN used + 1 ELSE used]
               /\ refused' = IF tokens >= Token THEN refused
                             ELSE [gap |-> SinceAsked(client), rate |-> rate]
               /\ asked' = [asked EXCEPT ![client] = now]
               /\ rate' = rate /\ now' = now
  BY DEF Request, Limited

LEMMA RequestKeepsInvariant ==
    ASSUME LimiterInv, NEW client \in Client, Request(client)
    PROVE  LimiterInv'
<1> DEFINE bucket == BucketFor(client)
           tokens == Refill(bucket)
           ages   == UsedNow(client)
           used   == IF IsRebuilt(client) THEN 0 ELSE spent[client]
           refilled == (now - bucket.updated) * bucket.rate
<1>1. /\ Limited' = DOMAIN ages \ Overflow(ages)
      /\ \A c \in Limited' :
            /\ buckets'[c] = IF c = client THEN Spend(bucket, tokens) ELSE buckets[c]
            /\ idle'[c] = ages[c]
      /\ DOMAIN idle' = Limited'
      /\ born' = [born EXCEPT ![client] = IF IsRebuilt(client) THEN now ELSE @]
      /\ spent' = [spent EXCEPT ![client] = IF tokens >= Token THEN used + 1 ELSE used]
      /\ refused' = IF tokens >= Token THEN refused
                    ELSE [gap |-> SinceAsked(client), rate |-> rate]
      /\ asked' = [asked EXCEPT ![client] = now]
      /\ rate' = rate /\ now' = now
  BY RequestEffect
<1>2. /\ bucket \in [rate : Rates, tokens : 0..Burst, updated : Stamp]
      /\ bucket.rate = rate /\ bucket.updated <= now
      /\ IsRebuilt(client) => bucket.tokens = Burst /\ bucket.updated = now
      /\ ~IsRebuilt(client) => client \in Limited /\ bucket = buckets[client]
  BY BucketFound DEF LimiterInv
<1>3. /\ refilled \in Nat
      /\ tokens \in 0..Burst /\ tokens <= bucket.tokens + refilled
      /\ tokens = Burst \/ tokens = bucket.tokens + refilled
      /\ bucket.tokens = Burst => tokens = Burst
  BY <1>2, TokensAfterRefill DEF LimiterInv
<1>4. /\ Spend(bucket, tokens) \in [rate : Rates, tokens : 0..Burst, updated : Stamp]
      /\ Spend(bucket, tokens).rate = bucket.rate
      /\ Spend(bucket, tokens).updated = now
      /\ Spend(bucket, tokens).tokens = IF tokens >= Token THEN tokens - Token ELSE tokens
  BY <1>2, <1>3, SpentBucket DEF LimiterInv
<1>5. /\ DOMAIN ages = Limited \cup {client} /\ ages[client] = 0
      /\ client \in Limited'
  BY <1>1, RequesterKept
<1>6. \A c \in Limited' : c # client => c \in Limited /\ buckets'[c] = buckets[c]
  BY <1>1, <1>5
<1>7. buckets'[client] = Spend(bucket, tokens)
  BY <1>1, <1>5
<1> HIDE DEF bucket, tokens, ages, used, refilled
<1>8. LimiterTypeOK'
  <2>1. Limited' \subseteq Client
    BY <1>5, <1>6 DEF LimiterInv, LimiterTypeOK
  <2>2. \A c \in Limited' :
           buckets'[c] \in [rate : Rates, tokens : 0..Burst, updated : Stamp]
    BY <1>4, <1>6, <1>7 DEF LimiterInv, LimiterTypeOK
  <2>3. asked' \in [Client -> Stamp \cup {Never}] /\ born' \in [Client -> Stamp \cup {Never}]
    BY <1>1 DEF LimiterInv, LimiterTypeOK
  <2>4. spent' \in [Client -> Nat]
    BY <1>1 DEF LimiterInv, LimiterTypeOK, used
  <2>5. refused' \in [gap : Stamp \cup {Never}, rate : Rates \cup {0}]
    <3>1. SinceAsked(client) \in Stamp \cup {Never}
      BY ClockAssumption DEF LimiterInv, LimiterTypeOK, ClocksAgree, SinceAsked, Stamp
    <3>. QED
      BY <1>1, <3>1 DEF LimiterInv, LimiterTypeOK
  <2>. QED
    BY <1>1, <2>1, <2>2, <2>3, <2>4, <2>5 DEF LimiterInv, LimiterTypeOK
<1>9. ClocksAgree'
  <2>1. now \in Nat /\ now # Never
    BY ClockAssumption DEF LimiterInv, LimiterTypeOK, Stamp, Never
  <2>2. \A c \in Client : asked'[c] <= now'
    BY <1>1, <2>1 DEF LimiterInv, LimiterTypeOK, ClocksAgree
  <2>3. /\ asked'[client] = now /\ buckets'[client].updated = now
        /\ born'[client] # Never /\ born'[client] <= now
    <3>1. born'[client] = IF IsRebuilt(client) THEN now ELSE born[client]
      BY <1>1 DEF LimiterInv, LimiterTypeOK
    <3>2. ~IsRebuilt(client) => born[client] # Never /\ born[client] <= asked[client]
      BY <1>2 DEF LimiterInv, ClocksAgree
    <3>3. asked[client] <= now /\ asked[client] \in Int /\ born[client] \in Int
      BY ClockAssumption DEF LimiterInv, LimiterTypeOK, ClocksAgree, Stamp, Never
    <3>. QED
      BY <1>1, <1>4, <1>7, <2>1, <3>1, <3>2, <3>3 DEF LimiterInv, LimiterTypeOK
  <2>4. ASSUME NEW c \in Limited', c # client
        PROVE  /\ asked'[c] # Never /\ born'[c] # Never
               /\ buckets'[c].updated = asked'[c] /\ born'[c] <= asked'[c]
    <3>1. asked'[c] = asked[c] /\ born'[c] = born[c] /\ c \in Limited /\ buckets'[c] = buckets[c]
      BY <1>1, <1>6, <2>4 DEF LimiterInv, LimiterTypeOK
    <3>. QED
      BY <3>1 DEF LimiterInv, ClocksAgree
  <2>. QED
    BY <2>1, <2>2, <2>3, <2>4 DEF ClocksAgree
<1>10. BucketsBounded'
  <2>1. /\ \A c \in DOMAIN ages : ages[c] \in Nat
        /\ \A c, d \in DOMAIN ages : ages[c] = ages[d] => c = d
    BY OrderOfUse DEF LimiterInv, ages
  <2>2. \A c \in Limited' : c \in DOMAIN ages /\ ~(ages[c] >= MaxTrackedClients)
    BY <1>1 DEF Overflow
  <2>. QED
    BY <1>1, <2>1, <2>2, LimiterAssumption DEF BucketsBounded
<1>11. AdmissionBounded'
  <2>1. ASSUME NEW c \in Limited', c # client
        PROVE  Token * spent'[c] + buckets'[c].tokens
                  <= Burst + (buckets'[c].updated - born'[c]) * buckets'[c].rate
    <3>1. spent'[c] = spent[c] /\ born'[c] = born[c] /\ c \in Limited /\ buckets'[c] = buckets[c]
      BY <1>1, <1>6, <2>1 DEF LimiterInv, LimiterTypeOK
    <3>. QED
      BY <3>1 DEF LimiterInv, AdmissionBounded
  <2>2. Token * spent'[client] + buckets'[client].tokens
            <= Burst + (now - born'[client]) * rate
    <3> DEFINE left == IF tokens >= Token THEN tokens - Token ELSE tokens
               count == IF tokens >= Token THEN used + 1 ELSE used
    <3>1. buckets'[client].tokens = left /\ spent'[client] = count
      BY <1>1, <1>4, <1>7 DEF LimiterInv, LimiterTypeOK
    <3>2. used \in Nat /\ Token \in Nat \ {0} /\ Burst \in Nat /\ tokens \in 0..Burst
      BY <1>3, LimiterAssumption DEF LimiterInv, LimiterTypeOK, used
    <3>3. Token * count + left = Token * used + tokens
      <4>1. Token * (used + 1) = Token * used + Token
        BY <3>2, OneMoreToken
      <4>2. Token * used \in Nat
        BY <3>2, RefillIsNatural
      <4>. QED
        BY <3>2, <4>1, <4>2
    <3>4. CASE IsRebuilt(client)
      <4>1. used = 0 /\ born'[client] = now
        BY <1>1, <3>4 DEF used, LimiterInv, LimiterTypeOK
      <4>2. Token * used = 0 /\ (now - born'[client]) * rate = 0
        BY <4>1, <3>2, LimiterAssumption, ClockAssumption DEF LimiterInv, LimiterTypeOK, Stamp
      <4>. QED
        BY <3>1, <3>2, <3>3, <4>2
    <3>5. CASE ~IsRebuilt(client)
      <4> DEFINE before == buckets[client].updated - born[client]
                 since  == now - buckets[client].updated
      <4>1. /\ client \in Limited /\ bucket = buckets[client]
            /\ used = spent[client] /\ born'[client] = born[client]
        BY <1>1, <1>2, <3>5 DEF used, LimiterInv, LimiterTypeOK
      <4>2. before \in Nat /\ since \in Nat /\ rate \in Nat
        <5>1. buckets[client].updated \in Nat /\ born[client] \in Nat /\ now \in Nat
          BY <4>1, ClockAssumption DEF LimiterInv, LimiterTypeOK, ClocksAgree, Stamp, Never
        <5>2. born[client] <= buckets[client].updated /\ buckets[client].updated <= now
          BY <1>2, <4>1 DEF LimiterInv, ClocksAgree
        <5>3. rate \in Nat
          BY LimiterAssumption DEF LimiterInv, LimiterTypeOK
        <5>. QED
          BY <5>1, <5>2, <5>3
      <4>3. now - born[client] = before + since
        BY <4>1, ClockAssumption DEF LimiterInv, LimiterTypeOK, ClocksAgree, Stamp, Never
      <4>4. Token * used + bucket.tokens <= Burst + before * rate
        BY <1>2, <4>1 DEF LimiterInv, AdmissionBounded
      <4>5. refilled = since * rate
        BY <1>2, <4>1 DEF refilled
      <4>6. (before + since) * rate = before * rate + since * rate
        BY <4>2, RefillAddsUp
      <4>7. before * rate \in Nat /\ since * rate \in Nat /\ Token * used \in Nat
        BY <4>2, <3>2, RefillIsNatural
      <4>8. bucket.tokens \in Nat /\ tokens <= bucket.tokens + refilled
        BY <1>2, <1>3, LimiterAssumption
      <4> HIDE DEF before, since, left, count
      <4>9. Token * used + tokens <= Burst + (before * rate + since * rate)
        BY <3>2, <4>4, <4>5, <4>7, <4>8
      <4>. QED
        BY <3>1, <3>3, <4>1, <4>3, <4>6, <4>9
    <3>. QED
      BY <3>4, <3>5
  <2>3. buckets'[client].updated = now /\ buckets'[client].rate = rate
    BY <1>2, <1>4, <1>7
  <2>. QED
    BY <2>1, <2>2, <2>3 DEF AdmissionBounded
<1>12. SteadyClientServed'
  <2>1. CASE tokens >= Token
    BY <1>1, <2>1 DEF LimiterInv, SteadyClientServed
  <2>2. CASE ~(tokens >= Token) /\ Burst >= Token
    <3>1. tokens # Burst
      BY <1>3, <2>2, LimiterAssumption
    <3>2. /\ client \in Limited /\ bucket = buckets[client]
          /\ tokens = bucket.tokens + refilled
      BY <1>2, <1>3, <3>1
    <3>3. asked[client] # Never /\ bucket.updated = asked[client]
      BY <3>2 DEF LimiterInv, ClocksAgree
    <3>4. refused' = [gap |-> now - asked[client], rate |-> rate]
      BY <1>1, <2>2, <3>3 DEF SinceAsked
    <3>5. refilled = (now - asked[client]) * rate
      BY <1>2, <3>3 DEF refilled
    <3>6. refilled < Token
      <4>1. bucket.tokens \in Nat /\ tokens \in Nat /\ Token \in Nat /\ refilled \in Nat
        BY <1>2, <1>3, LimiterAssumption
      <4>. QED
        BY <2>2, <3>2, <4>1
    <3>7. now - asked[client] # Never
      BY <3>3, ClockAssumption DEF LimiterInv, LimiterTypeOK, ClocksAgree, Stamp, Never
    <3>. QED
      BY <3>4, <3>5, <3>6, <3>7 DEF SteadyClientServed
  <2>3. CASE ~(Burst >= Token)
    BY <2>3 DEF SteadyClientServed
  <2>. QED
    BY <2>1, <2>2, <2>3
<1>. QED
  BY <1>8, <1>9, <1>10, <1>11, <1>12 DEF LimiterInv

-----------------------------------------------------------------------------
LEMMA LimiterStarts == LimiterInit => LimiterInv
<1> SUFFICES ASSUME LimiterInit PROVE LimiterInv
  OBVIOUS
<1>1. Limited = {} /\ DOMAIN idle = {} /\ now = 0
  BY DEF LimiterInit, Limited
<1>2. LimiterTypeOK
  BY <1>1, ClockAssumption DEF LimiterInit, LimiterTypeOK, Stamp, NotRefused
<1>3. ClocksAgree
  BY <1>1 DEF LimiterInit, ClocksAgree, Never
<1>4. BucketsBounded /\ AdmissionBounded
  BY <1>1 DEF BucketsBounded, AdmissionBounded
<1>5. SteadyClientServed
  BY DEF LimiterInit, SteadyClientServed
<1>. QED
  BY <1>2, <1>3, <1>4, <1>5 DEF LimiterInv

LEMMA LimiterSteps ==
    LimiterInv /\ [LimiterNext]_<<limiterVars, now>> => LimiterInv'
<1> SUFFICES ASSUME LimiterInv, [LimiterNext]_<<limiterVars, now>>
             PROVE  LimiterInv'
  OBVIOUS
<1> USE DEF LimiterInv
<1>1. ASSUME NEW client \in Client, Request(client) PROVE LimiterInv'
  BY <1>1, RequestKeepsInvariant
<1>2. ASSUME UNCHANGED <<limiterVars, now>> PROVE LimiterInv'
  BY <1>2 DEF limiterVars, LimiterTypeOK, ClocksAgree, BucketsBounded, AdmissionBounded,
              SteadyClientServed, Limited
<1>3. ASSUME NEW r \in Rates, SetRate(r) PROVE LimiterInv'
  BY <1>3 DEF SetRate, LimiterTypeOK, ClocksAgree, BucketsBounded, AdmissionBounded,
              SteadyClientServed, Limited
<1>4. ASSUME AdvanceClock, UNCHANGED limiterVars PROVE LimiterInv'
  <2>1. now' \in Stamp /\ now' = now + 1 /\ now \in Int
    BY <1>4, ClockAssumption DEF AdvanceClock, LimiterTypeOK, Stamp
  <2>2. \A c \in Client : asked[c] <= now'
    <3>1. \A c \in Client : asked[c] \in Int /\ asked[c] <= now
      BY ClockAssumption DEF LimiterTypeOK, ClocksAgree, Stamp, Never
    <3>. QED
      BY <2>1, <3>1
  <2>. QED
    BY <1>4, <2>1, <2>2 DEF limiterVars, LimiterTypeOK, ClocksAgree, BucketsBounded,
                            AdmissionBounded, SteadyClientServed, Limited
<1>5. ASSUME UnlimitedRequest PROVE LimiterInv'
  BY <1>5, <1>2 DEF UnlimitedRequest
<1>. QED
  BY <1>1, <1>2, <1>3, <1>4, <1>5 DEF LimiterNext

\* The limiter's state stays well formed and its clocks never run ahead.
THEOREM LimiterTypeCorrect == LimiterSpec => []LimiterTypeOK
<1>1. LimiterInv => LimiterTypeOK
  BY DEF LimiterInv
<1>. QED
  BY <1>1, LimiterStarts, LimiterSteps, PTL DEF LimiterSpec

\* However many clients come, no more than the cap are tracked, each at a place
\* of its own in the order of eviction.
THEOREM LimiterMemoryBounded == LimiterSpec => []BucketsBounded
<1>1. LimiterInv => BucketsBounded
  BY DEF LimiterInv
<1>. QED
  BY <1>1, LimiterStarts, LimiterSteps, PTL DEF LimiterSpec

\* A bucket never admits more than its burst and its refill, at any rate.
THEOREM AdmissionLimited == LimiterSpec => []AdmissionBounded
<1>1. LimiterInv => AdmissionBounded
  BY DEF LimiterInv
<1>. QED
  BY <1>1, LimiterStarts, LimiterSteps, PTL DEF LimiterSpec

\* A client at the configured rate is never refused, evictions and rate changes
\* included.
THEOREM SteadyClientNeverRefused == LimiterSpec => []SteadyClientServed
<1>1. LimiterInv => SteadyClientServed
  BY DEF LimiterInv
<1>. QED
  BY <1>1, LimiterStarts, LimiterSteps, PTL DEF LimiterSpec

-----------------------------------------------------------------------------
(* The verdict of a response.                                              *)

VERDICTS == {"malicious", "suspicious", "unknown", "clean"}

Answer == [available : BOOLEAN, verdict : VERDICTS]

Said(results, verdict) ==
    \E k \in DOMAIN results : results[k].available /\ results[k].verdict = verdict

LEMMA WorstIsFirstSaid ==
    ASSUME NEW results
    PROVE  LET worst == WorstVerdict(results) IN
           /\ Said(results, "malicious") => worst = "malicious"
           /\ ~Said(results, "malicious") /\ Said(results, "suspicious") => worst = "suspicious"
           /\ ~Said(results, "malicious") /\ ~Said(results, "suspicious")
                /\ Said(results, "unknown") => worst = "unknown"
           /\ ~Said(results, "malicious") /\ ~Said(results, "suspicious")
                /\ ~Said(results, "unknown") =>
                     worst = IF Said(results, "clean") THEN "clean" ELSE "unknown"
<1> DEFINE order == <<"malicious", "suspicious", "unknown", "clean">>
           said == {k \in DOMAIN order : Said(results, order[k])}
           first == CHOOSE k \in said : \A l \in said : k <= l
<1>1. WorstVerdict(results) = IF said = {} THEN "unknown" ELSE order[first]
  BY DEF WorstVerdict, Said
<1>2. /\ DOMAIN order = 1..4 /\ order[1] = "malicious" /\ order[2] = "suspicious"
      /\ order[3] = "unknown" /\ order[4] = "clean"
  OBVIOUS
<1>3. /\ said \subseteq 1..4
      /\ 1 \in said <=> Said(results, "malicious")
      /\ 2 \in said <=> Said(results, "suspicious")
      /\ 3 \in said <=> Said(results, "unknown")
      /\ 4 \in said <=> Said(results, "clean")
  BY <1>2
<1> HIDE DEF said, order
<1>4. ASSUME NEW k \in said, \A l \in said : k <= l PROVE first = k
  <2>1. first \in said /\ \A l \in said : first <= l
    BY <1>4
  <2> HIDE DEF first
  <2>. QED
    BY <1>3, <1>4, <2>1
<1> HIDE DEF first
<1>5. CASE 1 \in said
  <2>1. first = 1
    BY <1>3, <1>4, <1>5
  <2>. QED
    BY <1>1, <1>2, <1>3, <1>5, <2>1
<1>6. CASE 1 \notin said /\ 2 \in said
  <2>1. first = 2
    BY <1>3, <1>4, <1>6
  <2>. QED
    BY <1>1, <1>2, <1>3, <1>6, <2>1
<1>7. CASE 1 \notin said /\ 2 \notin said /\ 3 \in said
  <2>1. first = 3
    BY <1>3, <1>4, <1>7
  <2>. QED
    BY <1>1, <1>2, <1>3, <1>7, <2>1
<1>8. CASE 1 \notin said /\ 2 \notin said /\ 3 \notin said /\ 4 \in said
  <2>1. first = 4
    BY <1>3, <1>4, <1>8
  <2>. QED
    BY <1>1, <1>2, <1>3, <1>8, <2>1
<1>9. CASE 1 \notin said /\ 2 \notin said /\ 3 \notin said /\ 4 \notin said
  <2>1. said = {}
    BY <1>3, <1>9
  <2>. QED
    BY <1>1, <1>3, <1>9, <2>1
<1>. QED
  BY <1>5, <1>6, <1>7, <1>8, <1>9

\* A response that shows results says no less and no more than they do.
Undiluted(response) ==
    response.status = 200 =>
        LET said == {response.results[k].verdict :
                        k \in {j \in DOMAIN response.results : response.results[j].available}}
        IN /\ response.worst = "malicious" <=> "malicious" \in said
           /\ response.worst = "suspicious" <=> "suspicious" \in said /\ "malicious" \notin said
           /\ response.worst = "clean" <=> said = {"clean"}

LEMMA DilutionIsOfResponse ==
    /\ NothingDiluted <=> Undiluted(served)
    /\ NothingDiluted' <=> Undiluted(served')
  BY DEF NothingDiluted, Undiluted

LEMMA ServedUndiluted ==
    ASSUME NEW results \in Seq(Answer), Serve(results)
    PROVE  NothingDiluted'
<1> DEFINE said == {results[k].verdict : k \in {j \in DOMAIN results : results[j].available}}
           worst == WorstVerdict(results)
<1> DEFINE response == [status |-> 200, worst |-> worst, results |-> results]
<1>1. served' = response /\ response.worst = worst /\ response.results = results
  BY DEF Serve
<1> HIDE DEF response
<1>2. said \subseteq VERDICTS /\ \A v : v \in said <=> Said(results, v)
  <2>1. \A k \in DOMAIN results : results[k] \in Answer
    OBVIOUS
  <2>2. \A k \in DOMAIN results : results[k].verdict \in VERDICTS
    BY <2>1 DEF Answer
  <2>. QED
    BY <2>2 DEF Said
<1> HIDE DEF said, worst
<1>3. /\ Said(results, "malicious") => worst = "malicious"
      /\ ~Said(results, "malicious") /\ Said(results, "suspicious") => worst = "suspicious"
      /\ ~Said(results, "malicious") /\ ~Said(results, "suspicious")
           /\ Said(results, "unknown") => worst = "unknown"
      /\ ~Said(results, "malicious") /\ ~Said(results, "suspicious")
           /\ ~Said(results, "unknown") =>
                worst = IF Said(results, "clean") THEN "clean" ELSE "unknown"
  BY WorstIsFirstSaid DEF worst
<1>4. /\ worst = "malicious" <=> "malicious" \in said
      /\ worst = "suspicious" <=> "suspicious" \in said /\ "malicious" \notin said
  BY <1>2, <1>3
<1>5. worst = "clean" <=> said = {"clean"}
  <2>1. said = {"clean"} <=> /\ "clean" \in said /\ "malicious" \notin said
                             /\ "suspicious" \notin said /\ "unknown" \notin said
    BY <1>2 DEF VERDICTS
  <2>. QED
    BY <1>2, <1>3, <2>1
<1>. QED
  <2>1. said = {response.results[k].verdict :
                  k \in {j \in DOMAIN response.results : response.results[j].available}}
    BY <1>1 DEF said
  <2>2. Undiluted(response)
    BY <1>1, <1>4, <1>5, <2>1 DEF Undiluted
  <2>. QED
    BY <1>1, <2>2, DilutionIsOfResponse

-----------------------------------------------------------------------------
(* The enrichment service.                                                 *)

\* Results are answers of providers, an open lookup has a provider left to ask,
\* and a lookup that ended well is remembered with its time.
EnrichmentInv ==
    /\ now \in Int
    /\ \A i \in DOMAIN cache : cache[i].results \in Seq(Answer)
    /\ lookup \in [Lookup -> {Closed} \cup
          [open : {TRUE}, indicator : {i \in Indicator : TypeOf[i] # "none"}, results : Seq(Answer)]]
    /\ \A l \in Lookup : lookup[l].open =>
          Len(lookup[l].results) < Len(QueriesOf(TypeOf[lookup[l].indicator]))
    /\ completed \in [Indicator -> Int]
    /\ \A i \in Indicator : completed[i] # Never =>
          i \in DOMAIN cache /\ cache[i].at = completed[i]
    /\ NothingDiluted

\* A provider answers with a verdict or is unavailable.
LEMMA ProvidersAnswer ==
    ASSUME NEW type \in {"ip", "domain", "hash"}
    PROVE  /\ QueriesOf(type) \in Seq(SUBSET Answer)
           /\ Len(QueriesOf(type)) > 0
<1>0. /\ Unavailable \in Answer
      /\ \A v \in VERDICTS : Available(v) \in Answer
      /\ \A s : AbuseVerdict(s) \in VERDICTS
      /\ \A m, s : VendorVerdict(m, s) \in VERDICTS
      /\ "unknown" \in VERDICTS
  BY DEF Unavailable, Available, AbuseVerdict, VendorVerdict, Answer, VERDICTS
<1>1. QueryAbuseIpdb \subseteq Answer
  BY <1>0 DEF QueryAbuseIpdb
<1>2. QueryVirusTotal \subseteq Answer
  BY <1>0 DEF QueryVirusTotal
<1>3. QueryVirusTotalFile \subseteq Answer
  BY <1>0, <1>2 DEF QueryVirusTotalFile
<1>4. /\ <<QueryVirusTotalFile>> \in Seq(SUBSET Answer) /\ Len(<<QueryVirusTotalFile>>) = 1
      /\ <<QueryVirusTotal>> \in Seq(SUBSET Answer) /\ Len(<<QueryVirusTotal>>) = 1
      /\ <<QueryAbuseIpdb, QueryVirusTotal>> \in Seq(SUBSET Answer)
      /\ Len(<<QueryAbuseIpdb, QueryVirusTotal>>) = 2
  BY <1>1, <1>2, <1>3
<1>5. CASE type = "ip"
  BY <1>4, <1>5 DEF QueriesOf
<1>6. CASE type = "domain"
  BY <1>4, <1>6 DEF QueriesOf
<1>7. CASE type = "hash"
  BY <1>4, <1>7 DEF QueriesOf
<1>. QED
  BY <1>5, <1>6, <1>7

LEMMA EnrichmentStarts == EnrichmentInit => EnrichmentInv
  BY DEF EnrichmentInit, EnrichmentInv, Closed, NothingDiluted, Never

LEMMA ClickStep ==
    ASSUME EnrichmentInv, NEW l \in Lookup, NEW i \in Indicator, Click(l, i)
    PROVE  /\ EnrichmentInv'
           /\ lookup'[l].open /\ completed[i] # Never => now - completed[i] >= CacheTtl
           /\ lookup'[l].open => lookup'[l].indicator = i
           /\ \A m \in Lookup : m # l => lookup'[m] = lookup[m]
<1>1. UNCHANGED <<cache, completed, now>> /\ ~lookup[l].open
  BY DEF Click
<1>2. CASE TypeOf[i] = "none"
  <2>1. served' = [status |-> 422] /\ lookup' = lookup
    BY <1>2 DEF Click
  <2>2. NothingDiluted'
    BY <2>1 DEF NothingDiluted
  <2>. QED
    BY <1>1, <2>1, <2>2 DEF EnrichmentInv
<1>3. CASE TypeOf[i] # "none" /\ CacheHit(i)
  <2>1. Serve(cache[i].results) /\ lookup' = lookup
    BY <1>3 DEF Click
  <2>2. NothingDiluted'
    BY <1>3, <2>1, ServedUndiluted DEF EnrichmentInv, CacheHit
  <2>. QED
    BY <1>1, <2>1, <2>2 DEF EnrichmentInv
<1>4. CASE TypeOf[i] # "none" /\ ~CacheHit(i)
  <2> DEFINE opened == [open |-> TRUE, indicator |-> i, results |-> <<>>]
  <2>1. served' = served /\ lookup' = [lookup EXCEPT ![l] = opened]
    BY <1>4 DEF Click
  <2>2. opened \in [open : {TRUE}, indicator : {j \in Indicator : TypeOf[j] # "none"},
                    results : Seq(Answer)]
    BY <1>4
  <2>3. Len(opened.results) < Len(QueriesOf(TypeOf[opened.indicator]))
    <3>1. TypeOf[i] \in {"ip", "domain", "hash"}
      BY <1>4, EnrichmentAssumption
    <3>2. Len(QueriesOf(TypeOf[i])) > 0
      BY <3>1, ProvidersAnswer
    <3>. QED
      BY <3>2
  <2>4. opened.indicator = i
    OBVIOUS
  <2> HIDE DEF opened
  <2>5. /\ lookup'[l] = opened
        /\ \A m \in Lookup : m # l => lookup'[m] = lookup[m]
        /\ lookup' \in [Lookup -> {Closed} \cup
             [open : {TRUE}, indicator : {j \in Indicator : TypeOf[j] # "none"},
              results : Seq(Answer)]]
    BY <2>1, <2>2 DEF EnrichmentInv
  <2>6. \A m \in Lookup : lookup'[m].open =>
           Len(lookup'[m].results) < Len(QueriesOf(TypeOf[lookup'[m].indicator]))
    BY <2>3, <2>5 DEF EnrichmentInv
  <2>7. NothingDiluted'
    BY <2>1, DilutionIsOfResponse DEF EnrichmentInv
  <2>8. completed[i] # Never => now - completed[i] >= CacheTtl
    <3> SUFFICES ASSUME completed[i] # Never PROVE now - completed[i] >= CacheTtl
      OBVIOUS
    <3>1. ~(now - completed[i] < CacheTtl)
      BY <1>4 DEF CacheHit, EnrichmentInv
    <3>. QED
      BY <3>1, EnrichmentAssumption DEF EnrichmentInv
  <2>. QED
    BY <1>1, <2>4, <2>5, <2>6, <2>7, <2>8 DEF EnrichmentInv
<1>. QED
  BY <1>2, <1>3, <1>4

LEMMA AnswerStep ==
    ASSUME EnrichmentInv, NEW l \in Lookup, ProviderAnswers(l)
    PROVE  /\ EnrichmentInv'
           /\ lookup[l].open
           /\ \A m \in Lookup : m # l => lookup'[m] = lookup[m]
<1> DEFINE i == lookup[l].indicator
           queries == QueriesOf(TypeOf[i])
<1>1. /\ lookup[l].open /\ now' = now
      /\ lookup[l] \in [open : {TRUE}, indicator : {j \in Indicator : TypeOf[j] # "none"},
                        results : Seq(Answer)]
      /\ Len(lookup[l].results) < Len(queries)
  <2>1. lookup[l].open /\ now' = now
    BY DEF ProviderAnswers
  <2>2. lookup[l] # Closed
    BY <2>1 DEF Closed
  <2>3. lookup[l] \in {Closed} \cup
          [open : {TRUE}, indicator : {j \in Indicator : TypeOf[j] # "none"}, results : Seq(Answer)]
    BY DEF EnrichmentInv
  <2>4. Len(lookup[l].results) < Len(queries)
    BY <2>1 DEF EnrichmentInv
  <2>. QED
    BY <2>1, <2>2, <2>3, <2>4
<1>2. i \in Indicator /\ TypeOf[i] \in {"ip", "domain", "hash"}
  BY <1>1, EnrichmentAssumption
<1>3. queries \in Seq(SUBSET Answer)
  BY <1>2, ProvidersAnswer
<1>4. PICK answer \in queries[Len(lookup[l].results) + 1] :
         LET results == Append(lookup[l].results, answer)
         IN IF Len(results) < Len(queries)
            THEN /\ lookup' = [lookup EXCEPT ![l].results = results]
                 /\ UNCHANGED <<cache, completed, served>>
            ELSE /\ Remember(i, results)
                 /\ completed' = [completed EXCEPT ![i] = now]
                 /\ Serve(results)
                 /\ lookup' = [lookup EXCEPT ![l] = Closed]
  BY DEF ProviderAnswers
<1> DEFINE results == Append(lookup[l].results, answer)
<1>5. results \in Seq(Answer)
  <2>1. Len(lookup[l].results) + 1 \in 1..Len(queries)
    BY <1>1, <1>3
  <2>2. answer \in Answer
    BY <1>3, <1>4, <2>1
  <2>3. lookup[l].results \in Seq(Answer)
    BY <1>1
  <2>. QED
    BY <2>2, <2>3
<1> HIDE DEF i, queries, results
<1>6. CASE Len(results) < Len(queries)
  <2> DEFINE asked2 == [lookup[l] EXCEPT !.results = results]
  <2>1. /\ lookup' = [lookup EXCEPT ![l] = asked2]
        /\ UNCHANGED <<cache, completed, served>>
    BY <1>4, <1>6 DEF results
  <2>2. /\ asked2 \in [open : {TRUE}, indicator : {j \in Indicator : TypeOf[j] # "none"},
                      results : Seq(Answer)]
        /\ asked2.results = results /\ asked2.indicator = i
    BY <1>1, <1>5 DEF i
  <2> HIDE DEF asked2
  <2>3. /\ lookup'[l] = asked2
        /\ \A m \in Lookup : m # l => lookup'[m] = lookup[m]
        /\ lookup' \in [Lookup -> {Closed} \cup
             [open : {TRUE}, indicator : {j \in Indicator : TypeOf[j] # "none"},
              results : Seq(Answer)]]
    BY <2>1, <2>2 DEF EnrichmentInv
  <2>4. \A m \in Lookup : lookup'[m].open =>
           Len(lookup'[m].results) < Len(QueriesOf(TypeOf[lookup'[m].indicator]))
    BY <1>6, <2>2, <2>3 DEF EnrichmentInv, queries
  <2>5. NothingDiluted'
    BY <2>1, DilutionIsOfResponse DEF EnrichmentInv
  <2>. QED
    BY <1>1, <2>1, <2>3, <2>4, <2>5 DEF EnrichmentInv
<1>7. CASE ~(Len(results) < Len(queries))
  <2>1. /\ Remember(i, results)
        /\ completed' = [completed EXCEPT ![i] = now]
        /\ Serve(results)
        /\ lookup' = [lookup EXCEPT ![l] = Closed]
    BY <1>4, <1>7 DEF results
  <2>2. NothingDiluted'
    BY <1>5, <2>1, ServedUndiluted
  <2>3. /\ DOMAIN cache' = DOMAIN cache \cup {i}
        /\ cache'[i].results = results /\ cache'[i].at = now
        /\ \A j \in DOMAIN cache : j # i => cache'[j] = cache[j]
    BY <2>1 DEF Remember
  <2>4. /\ lookup'[l] = Closed
        /\ \A m \in Lookup : m # l => lookup'[m] = lookup[m]
        /\ lookup' \in [Lookup -> {Closed} \cup
             [open : {TRUE}, indicator : {j \in Indicator : TypeOf[j] # "none"},
              results : Seq(Answer)]]
    BY <2>1 DEF EnrichmentInv
  <2>5. \A m \in Lookup : lookup'[m].open =>
           Len(lookup'[m].results) < Len(QueriesOf(TypeOf[lookup'[m].indicator]))
    BY <2>4 DEF EnrichmentInv, Closed
  <2>6. \A j \in DOMAIN cache' : cache'[j].results \in Seq(Answer)
    BY <1>5, <2>3 DEF EnrichmentInv
  <2>7. /\ completed' \in [Indicator -> Int]
        /\ \A j \in Indicator : completed'[j] # Never =>
              j \in DOMAIN cache' /\ cache'[j].at = completed'[j]
    BY <1>2, <2>1, <2>3 DEF EnrichmentInv
  <2>. QED
    BY <1>1, <2>2, <2>4, <2>5, <2>6, <2>7 DEF EnrichmentInv
<1>. QED
  BY <1>6, <1>7

\* What a step of the enrichment service may do to the lookups.
QuotaKept ==
    \A l \in Lookup :
        lookup'[l].open /\ ~lookup[l].open =>
            LET i == lookup'[l].indicator IN
            completed[i] # Never => now - completed[i] >= CacheTtl

LEMMA EnrichmentSteps ==
    EnrichmentInv /\ [EnrichmentNext]_<<enrichmentVars, now>>
        => EnrichmentInv' /\ [QuotaKept]_<<enrichmentVars, now>>
<1> SUFFICES ASSUME EnrichmentInv, [EnrichmentNext]_<<enrichmentVars, now>>
             PROVE  EnrichmentInv' /\ QuotaKept
  OBVIOUS
<1>1. ASSUME NEW l \in Lookup, NEW i \in Indicator, Click(l, i)
      PROVE  EnrichmentInv' /\ QuotaKept
  BY <1>1, ClickStep DEF QuotaKept
<1>2. ASSUME NEW l \in Lookup, ProviderAnswers(l)
      PROVE  EnrichmentInv' /\ QuotaKept
  BY <1>2, AnswerStep DEF QuotaKept
<1>3. ASSUME NEW l \in Lookup, LookupFails(l)
      PROVE  EnrichmentInv' /\ QuotaKept
  <2>1. /\ lookup' = [lookup EXCEPT ![l] = Closed] /\ served' = [status |-> 500]
        /\ UNCHANGED <<cache, completed, now>> /\ lookup[l].open
    BY <1>3 DEF LookupFails
  <2>2. Undiluted([status |-> 500])
    BY DEF Undiluted
  <2>3. NothingDiluted'
    BY <2>1, <2>2, DilutionIsOfResponse
  <2>4. /\ lookup'[l] = Closed
        /\ \A m \in Lookup : m # l => lookup'[m] = lookup[m]
        /\ lookup' \in [Lookup -> {Closed} \cup
             [open : {TRUE}, indicator : {j \in Indicator : TypeOf[j] # "none"},
              results : Seq(Answer)]]
    BY <2>1 DEF EnrichmentInv
  <2>5. ~Closed.open
    BY DEF Closed
  <2>6. \A m \in Lookup : lookup'[m].open => m # l
    BY <2>4, <2>5
  <2>7. \A m \in Lookup : lookup'[m].open =>
           Len(lookup'[m].results) < Len(QueriesOf(TypeOf[lookup'[m].indicator]))
    BY <2>4, <2>6 DEF EnrichmentInv
  <2>8. QuotaKept
    BY <2>4, <2>6 DEF QuotaKept
  <2>. QED
    BY <2>1, <2>3, <2>4, <2>7, <2>8 DEF EnrichmentInv
<1>4. CASE UNCHANGED enrichmentVars /\ now' \in Int
  <2>1. UNCHANGED <<cache, lookup, completed, served>>
    BY <1>4 DEF enrichmentVars
  <2>2. NothingDiluted'
    BY <2>1, DilutionIsOfResponse DEF EnrichmentInv
  <2>. QED
    BY <1>4, <2>1, <2>2 DEF EnrichmentInv, QuotaKept
<1>5. CASE AdvanceClock /\ UNCHANGED enrichmentVars
  <2>1. now' \in Int
    BY <1>5 DEF AdvanceClock, EnrichmentInv
  <2>. QED
    BY <1>4, <1>5, <2>1
<1>6. CASE UNCHANGED <<enrichmentVars, now>>
  <2>1. now' \in Int
    BY <1>6 DEF EnrichmentInv
  <2>. QED
    BY <1>4, <1>6, <2>1
<1>. QED
  BY <1>1, <1>2, <1>3, <1>5, <1>6 DEF EnrichmentNext

\* Whatever providers answer, fail to answer or are not configured, and however
\* lookups overlap, the verdict shown is the worst that was given.
THEOREM VerdictNotDiluted == EnrichmentSpec => []NothingDiluted
<1>1. EnrichmentInv => NothingDiluted
  BY DEF EnrichmentInv
<1>. QED
  BY <1>1, EnrichmentStarts, EnrichmentSteps, PTL DEF EnrichmentSpec

\* No click asks the providers again within the TTL of a lookup that ended.
THEOREM QuotaSparedWithinTtl == EnrichmentSpec => QuotaSpared
<1>1. EnrichmentInv /\ [EnrichmentNext]_<<enrichmentVars, now>>
        => [QuotaKept]_<<enrichmentVars, now>>
  BY EnrichmentSteps
<1>2. EnrichmentSpec => [][QuotaKept]_<<enrichmentVars, now>>
  BY <1>1, EnrichmentStarts, EnrichmentSteps, PTL DEF EnrichmentSpec
<1>. QED
  BY <1>2 DEF QuotaKept, QuotaSpared

-----------------------------------------------------------------------------
(* The composition.                                                        *)

\* Every component sees the others' steps as stutters or ticks of the clock.
LEMMA StepsAreTicks ==
    /\ BeaconNext => UNCHANGED now \/ AdvanceClock
    /\ ScanNext => UNCHANGED now \/ AdvanceClock
    /\ DiscoveryNext => UNCHANGED now \/ AdvanceClock
    /\ LimiterNext => UNCHANGED now \/ AdvanceClock
    /\ EnrichmentNext => UNCHANGED now \/ AdvanceClock
<1>1. BeaconNext => UNCHANGED now \/ AdvanceClock
  BY DEF BeaconNext
<1>2. ScanNext => UNCHANGED now \/ AdvanceClock
  BY DEF ScanNext, Connect
<1>3. DiscoveryNext => UNCHANGED now \/ AdvanceClock
  BY DEF DiscoveryNext, ProcessCreate, PruneBursts
<1>4. LimiterNext => UNCHANGED now \/ AdvanceClock
  BY DEF LimiterNext, Request, UnlimitedRequest, SetRate
<1>5. EnrichmentNext => UNCHANGED now \/ AdvanceClock
  BY DEF EnrichmentNext, Click, ProviderAnswers, LookupFails
<1>. QED
  BY <1>1, <1>2, <1>3, <1>4, <1>5

LEMMA TimedStepsAreEach ==
    ASSUME [TimedNext]_timedVars
    PROVE  /\ [BeaconNext]_<<beaconVars, now>>
           /\ [ScanNext]_<<scanVars, now>>
           /\ [DiscoveryNext]_<<discoveryVars, now>>
           /\ [LimiterNext]_<<limiterVars, now>>
           /\ [EnrichmentNext]_<<enrichmentVars, now>>
<1>1. CASE UNCHANGED timedVars
  BY <1>1 DEF timedVars
<1>2. CASE BeaconStep
  <2>1. UNCHANGED now \/ AdvanceClock
    BY <1>2, StepsAreTicks DEF BeaconStep
  <2>. QED
    BY <1>2, <2>1 DEF BeaconStep, ScanNext, DiscoveryNext, LimiterNext, EnrichmentNext
<1>3. CASE ScanStep
  <2>1. UNCHANGED now \/ AdvanceClock
    BY <1>3, StepsAreTicks DEF ScanStep
  <2>. QED
    BY <1>3, <2>1 DEF ScanStep, BeaconNext, DiscoveryNext, LimiterNext, EnrichmentNext
<1>4. CASE DiscoveryStep
  <2>1. UNCHANGED now \/ AdvanceClock
    BY <1>4, StepsAreTicks DEF DiscoveryStep
  <2>. QED
    BY <1>4, <2>1 DEF DiscoveryStep, BeaconNext, ScanNext, LimiterNext, EnrichmentNext
<1>5. CASE LimiterStep
  <2>1. UNCHANGED now \/ AdvanceClock
    BY <1>5, StepsAreTicks DEF LimiterStep
  <2>. QED
    BY <1>5, <2>1 DEF LimiterStep, BeaconNext, ScanNext, DiscoveryNext, EnrichmentNext
<1>6. CASE EnrichmentStep
  <2>1. UNCHANGED now \/ AdvanceClock
    BY <1>6, StepsAreTicks DEF EnrichmentStep
  <2>. QED
    BY <1>6, <2>1 DEF EnrichmentStep, BeaconNext, ScanNext, DiscoveryNext, LimiterNext
<1>. QED
  BY <1>1, <1>2, <1>3, <1>4, <1>5, <1>6 DEF TimedNext

\* A behaviour of the composition is a behaviour of each component, so what is
\* proved of a component alone is proved of it there.
THEOREM TimedIsEach ==
    TimedSpec => /\ BeaconSpec /\ ScanSpec /\ DiscoverySpec
                 /\ LimiterSpec /\ EnrichmentSpec
<1>1. TimedInit => BeaconInit /\ ScanInit /\ DiscoveryInit /\ LimiterInit /\ EnrichmentInit
  BY DEF TimedInit
<1>. QED
  BY <1>1, TimedStepsAreEach, PTL
     DEF TimedSpec, BeaconSpec, ScanSpec, DiscoverySpec, LimiterSpec, EnrichmentSpec

\* The components with a clock stay well formed side by side.
THEOREM TimedTypeCorrect == TimedSpec => []TimedTypeOK
<1>1. BeaconTypeOK /\ ScanTypeOK /\ DiscoveryTypeOK /\ LimiterTypeOK => TimedTypeOK
  BY DEF TimedTypeOK
<1>. QED
  BY <1>1, TimedIsEach, BeaconTypeCorrect, ScanTypeCorrect, DiscoveryTypeCorrect,
     LimiterTypeCorrect, PTL
=============================================================================
