--------------------------------- MODULE Noise ---------------------------------
(***************************************************************************)
(* backend/engine/noise.py: how much an incident resembles those an        *)
(* analyst dismissed, and why.  The score is a weighted average of four    *)
(* signals; a signal is worth Unit when it is complete.                    *)
(***************************************************************************)
EXTENDS Integers, SequencesExt, FiniteSetsExt

CONSTANTS
    ThresholdPercent,     \* noise_similarity_threshold
    MaxMatches            \* MAX_MATCHES: how many dismissed incidents are cited

ASSUME NoiseAssumption == ThresholdPercent \in 1..100 /\ MaxMatches \in Nat \ {0}

\* Divisible by every number up to ten: overlaps of up to ten names are exact.
Unit == 2520

\* _jaccard(): nothing on either side is no signal.
Jaccard(a, b) ==
    IF a \cup b = {} THEN 0 ELSE (Unit * Cardinality(a \cap b)) \div Cardinality(a \cup b)

\* The rule ids of an incident whose detections were not, or could not be, read.
NoRuleIds == {"no rule ids read"}

\* fingerprint_from_incident(): the first image of the chain is the root's.
Fingerprint(id, chain, techniques, ruleIds) ==
    [id |-> id, chain |-> ToSet(chain),
     root |-> IF chain = <<>> THEN {} ELSE {Head(chain)},
     techniques |-> techniques, ruleIds |-> ruleIds]

Signal(weight, value, reason) == [weight |-> weight, value |-> value, reason |-> reason]

\* The components of _compare(): without rule ids on both sides, that signal is
\* no part of the average.
Signals(candidate, reference) ==
    (IF candidate.ruleIds # NoRuleIds /\ reference.ruleIds \notin {{}, NoRuleIds}
     THEN {Signal(5, Jaccard(candidate.ruleIds, reference.ruleIds), "rules")} ELSE {})
    \cup {Signal(2, Jaccard(candidate.techniques, reference.techniques), "techniques"),
          Signal(2, IF candidate.root # {} /\ candidate.root = reference.root THEN Unit ELSE 0,
                 "root"),
          Signal(1, Jaccard(candidate.chain, reference.chain), "chain")}

\* _compare(): the share of a full match in whole percents, as the threshold is,
\* the score that is shown, to the nearest percent, and what they rest on.
Compare(candidate, reference) ==
    LET signals == Signals(candidate, reference)
        matched == 100 * MapThenSumSet(LAMBDA s : s.weight * s.value, signals)
        full    == Unit * MapThenSumSet(LAMBDA s : s.weight, signals)
    IN  [id |-> reference.id,
         share |-> matched \div full,
         score |-> (2 * matched + full) \div (2 * full),
         reasons |-> {s.reason : s \in {t \in signals : 2 * t.value >= Unit}}]

\* The matches that clear the threshold, by their place in the history.
Cleared(candidate, history) ==
    {n \in DOMAIN history : Compare(candidate, history[n]).share >= ThresholdPercent}

\* Those a stable sort by descending score puts before the n-th.
Ahead(candidate, history, n) ==
    LET score(k) == Compare(candidate, history[k]).score
    IN  {k \in Cleared(candidate, history) :
            score(k) > score(n) \/ (score(k) = score(n) /\ k < n)}

\* Mutant of Assess: the sort forgets reverse=True.
AssessWeakest(candidate, history) ==
    LET score(k) == Compare(candidate, history[k]).score
        Behind(n) == {k \in Cleared(candidate, history) :
                         score(k) < score(n) \/ (score(k) = score(n) /\ k < n)}
    IN  {Compare(candidate, history[n]) :
            n \in {k \in Cleared(candidate, history) : Cardinality(Behind(k)) < MaxMatches}}

\* assess(): of the dismissed incidents it resembles, the strongest.
Assess(candidate, history) ==
    {Compare(candidate, history[n]) :
        n \in {k \in Cleared(candidate, history) :
                  Cardinality(Ahead(candidate, history, k)) < MaxMatches}}
=============================================================================
