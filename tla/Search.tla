--------------------------------- MODULE Search ---------------------------------
(***************************************************************************)
(* backend/engine/search.py: one search box over the incidents and their   *)
(* detections, a query being a list of words.                              *)
(*                                                                         *)
(* Every match is "this value occurs in that text" (or starts it, for a    *)
(* technique), so a text is the set of the values that occur in it; case   *)
(* is folded already.  A value that would only occur across the seam of    *)
(* two fields joined by a space is left out, and so is the order of the    *)
(* answer.                                                                 *)
(***************************************************************************)
EXTENDS Naturals, Sequences

FIELD_FILTERS ==
    {"host", "severity", "technique", "rule", "user", "actionable", "command_line"}

\* Filters only a detection can satisfy.
DETECTION_LEVEL_FILTERS == {"rule", "technique", "user", "command_line"}

NoValue == ""

-----------------------------------------------------------------------------
(* The query.  A word is [key, value, text]: what comes before its first   *)
(* colon, what comes after it, and the whole of it.                        *)

IsFilter(word) == word.key \in FIELD_FILTERS /\ word.value # NoValue

\* parse_query(): of two filters of one field the last stands.
ParseQuery(words) ==
    LET given == {n \in DOMAIN words : IsFilter(words[n])}
        stands(n) == \A m \in given : m > n => words[m].key # words[n].key
    IN  [terms |-> {words[n].text : n \in DOMAIN words \ given},
         filters |-> {[key |-> words[n].key, value |-> words[n].value] :
                         n \in {m \in given : stands(m)}}]

IsEmptyQuery(query) == query.terms = {} /\ query.filters = {}

\* _detection_level_filters().
HasDetectionFilter(query) == \E f \in query.filters : f.key \in DETECTION_LEVEL_FILTERS

-----------------------------------------------------------------------------
(* The match.                                                              *)

\* _detection_haystack(): everything an analyst might type to find it.
Haystack(d) == d.rule \cup d.host \cup d.user \cup d.commandLine \cup d.technique \cup d.other

\* One filter of _detection_matches(); "actionable" is not a detection's.
DetectionPasses(d, key, value) ==
    /\ key = "host" => value \in d.host
    /\ key = "severity" => d.severity = value
    /\ key = "rule" => value \in d.rule
    /\ key = "technique" => value \in d.technique
    /\ key = "user" => value \in d.user
    /\ key = "command_line" => value \in d.commandLine

\* Mutant of DetectionMatches: any one of the words will do.
DetectionMatchesAny(d, query) ==
    /\ query.terms # {} => query.terms \cap Haystack(d) # {}
    /\ \A f \in query.filters : DetectionPasses(d, f.key, f.value)

\* _detection_matches().
DetectionMatches(d, query) ==
    /\ query.terms \subseteq Haystack(d)
    /\ \A f \in query.filters : DetectionPasses(d, f.key, f.value)

\* One filter of _incident_field_match().
IncidentPasses(incident, key, value) ==
    /\ key = "severity" => incident.severity = value
    /\ key = "actionable" => (value \in {"true", "yes", "1"}) = incident.actionable
    /\ key = "host" => value \in incident.host

IncidentFieldMatch(incident, query) ==
    \A f \in query.filters : IncidentPasses(incident, f.key, f.value)

\* A query with neither text nor a detection-level filter.
IsWholesale(query) == query.terms = {} /\ ~HasDetectionFilter(query)

\* The title and the chain answer a query of text alone.
MatchesText(incident, query) ==
    /\ query.terms # {} /\ ~HasDetectionFilter(query)
    /\ query.terms \subseteq incident.title \cup incident.chain

\* search_incidents(): the incident is in the answer.
IsHit(incident, detections, query) ==
    /\ IncidentFieldMatch(incident, query)
    /\ \/ IsWholesale(query)
       \/ \E d \in detections : DetectionMatches(d, query)
       \/ MatchesText(incident, query)

\* GET /search: an empty query finds nothing.
Finds(incident, detections, query) ==
    ~IsEmptyQuery(query) /\ IsHit(incident, detections, query)

\* A word that replaces no filter given before it.
Refines(words, word) ==
    IsFilter(word) => \A n \in DOMAIN words : IsFilter(words[n]) => words[n].key # word.key
=============================================================================
