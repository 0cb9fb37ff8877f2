------------------------------ MODULE RateLimiter ------------------------------
(***************************************************************************)
(* backend/api/rate_limit.py: one token bucket per client of /ingest,      *)
(* refilled continuously, at most MaxTrackedClients of them, the least     *)
(* recently used evicted first, rebuilt when the configured rate changes.  *)
(* A token is Token units and a tick of the monotonic clock refills `rate` *)
(* units, so that nothing is rounded.  enforce_ingest_rate_limit() has no  *)
(* await: one request is one step.                                         *)
(***************************************************************************)
EXTENDS EventClock, Functions

CONSTANTS
    Client,               \* source addresses
    Token,                \* units of one token
    Burst,                \* ingest_rate_limit_burst, in units
    Rates,                \* values of ingest_rate_limit_per_second, units a tick
    MaxTrackedClients     \* _MAX_TRACKED_CLIENTS

ASSUME LimiterAssumption ==
    /\ Token \in Nat \ {0} /\ Burst \in Nat
    /\ Rates \subseteq Nat
    /\ MaxTrackedClients \in Nat \ {0}

VARIABLES
    rate,        \* the configured rate; 0 turns the limiter off
    buckets,     \* _buckets: client -> [rate, tokens, updated]
    idle,        \* the order of _buckets: how many others were used since
    asked,       \* history: each client's last limited request
    born,        \* history: when each client's bucket was made
    spent,       \* history: requests each client's bucket has let through
    refused      \* history: the last refusal, [gap, rate], if any

limiterVars == <<rate, buckets, idle, asked, born, spent, refused>>

Limited == DOMAIN buckets

MinOf(a, b) == IF a < b THEN a ELSE b

\* _bucket_for(): a bucket of another rate is as good as none.
IsRebuilt(client) == IF client \in Limited THEN buckets[client].rate # rate ELSE TRUE

\* Mutant of BucketFor: a rate change leaves the buckets there are as they are.
BucketForNewClient(client) ==
    IF client \in Limited THEN buckets[client]
    ELSE [rate |-> rate, tokens |-> Burst, updated |-> now]

BucketFor(client) ==
    IF IsRebuilt(client) THEN [rate |-> rate, tokens |-> Burst, updated |-> now]
    ELSE buckets[client]

\* Mutant of Refill: the tokens are not capped at the burst.
RefillUncapped(bucket) == bucket.tokens + (now - bucket.updated) * bucket.rate

\* TokenBucket.allow(): the tokens after the refill for the time elapsed.
Refill(bucket) == MinOf(Burst, bucket.tokens + (now - bucket.updated) * bucket.rate)

\* move_to_end(): the client comes last, those used after it move up.
UsedNow(client) ==
    [c \in Limited \cup {client} |->
        IF c = client THEN 0
        ELSE IF client \in Limited /\ idle[c] > idle[client] THEN idle[c] ELSE idle[c] + 1]

\* Mutant of Overflow: the cap is checked before the new bucket is counted.
OverflowLate(ages) == {c \in DOMAIN ages : ages[c] > MaxTrackedClients}

\* popitem(last=False) when there are more buckets than the cap.
Overflow(ages) == {c \in DOMAIN ages : ages[c] >= MaxTrackedClients}

\* Mutant of Spend: a refusal returns before the bucket's clock is set.
SpendThenClock(bucket, tokens) ==
    IF tokens >= Token
    THEN [rate |-> bucket.rate, updated |-> now, tokens |-> tokens - Token]
    ELSE [rate |-> bucket.rate, updated |-> bucket.updated, tokens |-> tokens]

\* TokenBucket.allow(): the bucket after the request; a refusal spends nothing.
Spend(bucket, tokens) ==
    [rate |-> bucket.rate, updated |-> now,
     tokens |-> IF tokens >= Token THEN tokens - Token ELSE tokens]

SinceAsked(client) == IF asked[client] = Never THEN Never ELSE now - asked[client]

\* enforce_ingest_rate_limit(): spend a token or answer 429.
Request(client) ==
    /\ rate > 0
    /\ LET bucket == BucketFor(client)
           tokens == Refill(bucket)
           passes == tokens >= Token
           ages   == UsedNow(client)
           kept   == DOMAIN ages \ Overflow(ages)
           used   == IF IsRebuilt(client) THEN 0 ELSE spent[client]
       IN /\ buckets' = [c \in kept |->
                IF c = client THEN Spend(bucket, tokens) ELSE buckets[c]]
          /\ idle' = [c \in kept |-> ages[c]]
          /\ born' = [born EXCEPT ![client] = IF IsRebuilt(client) THEN now ELSE @]
          /\ spent' = [spent EXCEPT ![client] = IF passes THEN used + 1 ELSE used]
          /\ refused' = IF passes THEN refused ELSE [gap |-> SinceAsked(client), rate |-> rate]
    /\ asked' = [asked EXCEPT ![client] = now]
    /\ UNCHANGED <<rate, now>>

\* The limiter off: every request passes and no bucket is looked at.
UnlimitedRequest == rate = 0 /\ UNCHANGED <<limiterVars, now>>

\* Settings are replaced while the process runs.
SetRate(r) ==
    /\ rate' = r
    /\ UNCHANGED <<buckets, idle, asked, born, spent, refused, now>>

NotRefused == [gap |-> Never, rate |-> 0]

LimiterInit ==
    /\ rate \in Rates
    /\ buckets = [c \in {} |-> Never] /\ idle = [c \in {} |-> Never]
    /\ asked = [c \in Client |-> Never]
    /\ born = [c \in Client |-> Never]
    /\ spent = [c \in Client |-> 0]
    /\ refused = NotRefused
    /\ now = 0

LimiterNext ==
    \/ \E client \in Client : Request(client)
    \/ UnlimitedRequest
    \/ \E r \in Rates : SetRate(r)
    \/ AdvanceClock /\ UNCHANGED limiterVars

LimiterSpec == LimiterInit /\ [][LimiterNext]_<<limiterVars, now>>

-----------------------------------------------------------------------------
(* Properties.                                                             *)

\* Type invariant.
LimiterTypeOK ==
    /\ now \in Stamp /\ rate \in Rates
    /\ Limited \subseteq Client
    /\ \A c \in Limited :
          buckets[c] \in [rate : Rates, tokens : 0..Burst, updated : Stamp]
    /\ asked \in [Client -> Stamp \cup {Never}] /\ born \in [Client -> Stamp \cup {Never}]
    /\ spent \in [Client -> Nat]
    /\ refused \in [gap : Stamp \cup {Never}, rate : Rates \cup {0}]

\* At most MaxTrackedClients buckets are kept, each at a place of its own in
\* the order of use (rate_limit.py:49-57, 72-74).
BucketsBounded ==
    /\ DOMAIN idle = Limited
    /\ \A c \in Limited : idle[c] \in 0..(MaxTrackedClients - 1)
    /\ \A c, d \in Limited : idle[c] = idle[d] => c = d

\* Over its whole life a bucket lets through no more than its burst and what
\* the elapsed time refills at its rate (rate_limit.py:23-46).
AdmissionBounded ==
    \A c \in Limited :
        Token * spent[c] + buckets[c].tokens
            <= Burst + (buckets[c].updated - born[c]) * buckets[c].rate

\* "A client sending exactly the configured rate never gets an artificial burst
\* of 429s" (rate_limit.py:26-29): with a burst of a token or more, a request is
\* refused only if the client's previous one is less than a token's time old,
\* whoever was evicted and however the rate was changed in between.
SteadyClientServed ==
    Burst >= Token /\ refused # NotRefused =>
        refused.gap # Never /\ refused.gap * refused.rate < Token
=============================================================================
