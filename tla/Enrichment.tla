------------------------------- MODULE Enrichment -------------------------------
(***************************************************************************)
(* backend/engine/enrichment.py and api/enrich.py: lookups of indicators,  *)
(* each asking its providers one after the other with an await for each,   *)
(* and a cache that keeps what a lookup brought, failures included.        *)
(* An answer of a provider is [available, verdict]; the wording and the    *)
(* details of its result are left out.                                     *)
(***************************************************************************)
EXTENDS EventClock, Sequences

CONSTANTS
    Indicator,       \* values an analyst clicks on
    TypeOf,          \* what classify_indicator() makes of each
    Lookup,          \* requests to /enrich that can be open at once
    Keys,            \* providers with an API key
    AbuseScores,     \* confidence scores AbuseIPDB answers with
    VendorCounts,    \* numbers of vendors VirusTotal answers with
    CacheTtl         \* ttl_seconds

ASSUME EnrichmentAssumption ==
    /\ TypeOf \in [Indicator -> {"ip", "domain", "hash", "none"}]
    /\ AbuseScores \subseteq Nat /\ VendorCounts \subseteq Nat /\ CacheTtl \in Nat

VARIABLES
    cache,       \* _cache: indicator -> [results, at]
    lookup,      \* the open requests: Closed or [indicator, results]
    completed,   \* history: when a lookup of each indicator last ended well
    served       \* the last response: 422, 500, or the results it shows

enrichmentVars == <<cache, lookup, completed, served>>

Closed == [open |-> FALSE]

\* ---- the providers
Available(verdict) == [available |-> TRUE, verdict |-> verdict]
Unavailable == [available |-> FALSE, verdict |-> "unknown"]

AbuseVerdict(score) ==
    IF score >= 90 THEN "malicious" ELSE IF score >= 25 THEN "suspicious" ELSE "clean"

VendorVerdict(malicious, suspicious) ==
    IF malicious >= 3 THEN "malicious"
    ELSE IF malicious + suspicious > 0 THEN "suspicious" ELSE "clean"

\* query_abuseipdb(), query_virustotal() and query_virustotal_file(): without a
\* key, or when the query fails, the provider is unavailable.
QueryAbuseIpdb ==
    {Unavailable} \cup IF "AbuseIPDB" \in Keys
                       THEN {Available(AbuseVerdict(s)) : s \in AbuseScores} ELSE {}

QueryVirusTotal ==
    {Unavailable} \cup IF "VirusTotal" \in Keys
                       THEN {Available(VendorVerdict(m, s)) : m, s \in VendorCounts} ELSE {}

\* A file VirusTotal has never seen is an answer, not a failure.
QueryVirusTotalFile ==
    QueryVirusTotal \cup IF "VirusTotal" \in Keys THEN {Available("unknown")} ELSE {}

QueriesOf(type) ==
    CASE type = "hash" -> <<QueryVirusTotalFile>>
      [] type = "ip" -> <<QueryAbuseIpdb, QueryVirusTotal>>
      [] type = "domain" -> <<QueryVirusTotal>>

\* Mutant of WorstVerdict: unavailable providers have their say.
WorstOfAll(results) ==
    LET order == <<"malicious", "suspicious", "unknown", "clean">>
        Said(v) == \E i \in DOMAIN results : results[i].verdict = v
        said == {k \in DOMAIN order : Said(order[k])}
    IN IF said = {} THEN "unknown" ELSE order[CHOOSE k \in said : \A l \in said : k <= l]

\* Mutant of WorstVerdict: the order read from its other end.
BestVerdict(results) ==
    LET order == <<"malicious", "suspicious", "unknown", "clean">>
        Said(v) == \E i \in DOMAIN results : results[i].available /\ results[i].verdict = v
        said == {k \in DOMAIN order : Said(order[k])}
    IN IF said = {} THEN "unknown" ELSE order[CHOOSE k \in said : \A l \in said : k >= l]

\* Enrichment.worst_verdict: the first of the order an available provider said.
WorstVerdict(results) ==
    LET order == <<"malicious", "suspicious", "unknown", "clean">>
        Said(v) == \E i \in DOMAIN results : results[i].available /\ results[i].verdict = v
        said == {k \in DOMAIN order : Said(order[k])}
    IN IF said = {} THEN "unknown" ELSE order[CHOOSE k \in said : \A l \in said : k <= l]

\* ---- EnrichmentService.enrich()
EnrichmentInit ==
    /\ cache = [i \in {} |-> Never]
    /\ lookup = [l \in Lookup |-> Closed]
    /\ completed = [i \in Indicator |-> Never]
    /\ served = [status |-> 0]
    /\ now = 0

CacheHit(i) == i \in DOMAIN cache /\ now - cache[i].at < CacheTtl

Serve(results) ==
    served' = [status |-> 200, worst |-> WorstVerdict(results), results |-> results]

\* Up to the first await: refuse, answer from the cache, or open a lookup.
Click(l, i) ==
    /\ ~lookup[l].open
    /\ CASE TypeOf[i] = "none" -> served' = [status |-> 422] /\ UNCHANGED lookup
         [] TypeOf[i] # "none" /\ CacheHit(i) -> Serve(cache[i].results) /\ UNCHANGED lookup
         [] OTHER -> /\ lookup' = [lookup EXCEPT ![l] =
                                     [open |-> TRUE, indicator |-> i, results |-> <<>>]]
                     /\ UNCHANGED served
    /\ UNCHANGED <<cache, completed, now>>

\* Mutant of Remember: a lookup with an unavailable provider is not kept.
RememberGood(i, results) ==
    IF \A k \in DOMAIN results : results[k].available
    THEN cache' = [j \in DOMAIN cache \cup {i} |->
                     IF j = i THEN [results |-> results, at |-> now] ELSE cache[j]]
    ELSE UNCHANGED cache

Remember(i, results) ==
    cache' = [j \in DOMAIN cache \cup {i} |->
                IF j = i THEN [results |-> results, at |-> now] ELSE cache[j]]

\* The next provider of an open lookup answers; after the last, the results are
\* kept, over whatever a concurrent lookup has kept meanwhile.
ProviderAnswers(l) ==
    /\ lookup[l].open
    /\ LET i == lookup[l].indicator
           queries == QueriesOf(TypeOf[i])
       IN \E answer \in queries[Len(lookup[l].results) + 1] :
            LET results == Append(lookup[l].results, answer)
            IN IF Len(results) < Len(queries)
               THEN /\ lookup' = [lookup EXCEPT ![l].results = results]
                    /\ UNCHANGED <<cache, completed, served>>
               ELSE /\ Remember(i, results)
                    /\ completed' = [completed EXCEPT ![i] = now]
                    /\ Serve(results)
                    /\ lookup' = [lookup EXCEPT ![l] = Closed]
    /\ UNCHANGED now

\* An answer that is not the JSON expected raises past the providers' handlers.
LookupFails(l) ==
    /\ lookup[l].open
    /\ lookup' = [lookup EXCEPT ![l] = Closed]
    /\ served' = [status |-> 500]
    /\ UNCHANGED <<cache, completed, now>>

EnrichmentNext ==
    \/ \E l \in Lookup, i \in Indicator : Click(l, i)
    \/ \E l \in Lookup : ProviderAnswers(l) \/ LookupFails(l)
    \/ AdvanceClock /\ UNCHANGED enrichmentVars

EnrichmentSpec == EnrichmentInit /\ [][EnrichmentNext]_<<enrichmentVars, now>>

-----------------------------------------------------------------------------
(* Properties.                                                             *)

\* A click never spends quota on an indicator looked up within the TTL, whoever
\* looked it up and whatever the providers answered then (enrichment.py:336-347).
QuotaSpared ==
    [][\A l \in Lookup :
          lookup'[l].open /\ ~lookup[l].open =>
              LET i == lookup'[l].indicator IN
              completed[i] # Never => now - completed[i] >= CacheTtl]_<<enrichmentVars, now>>

\* "One credible malicious outweighs three cleans": what is shown is malicious,
\* or suspicious, as soon as one provider that could be asked says so, and
\* clean only when all of those say so (enrichment.py:62-74).
NothingDiluted ==
    served.status = 200 =>
        LET said == {served.results[k].verdict :
                        k \in {j \in DOMAIN served.results : served.results[j].available}}
        IN /\ served.worst = "malicious" <=> "malicious" \in said
           /\ served.worst = "suspicious" <=> "suspicious" \in said /\ "malicious" \notin said
           /\ served.worst = "clean" <=> said = {"clean"}
=============================================================================
