-------------------------------- MODULE Casebook --------------------------------
(***************************************************************************)
(* The incidents on record and everything read off them: severity and      *)
(* title, the behaviour profile, the search, the comparison with dismissed *)
(* incidents, the exports.  The readers of backend/api keep no state, so   *)
(* each is an operator on the record, while detections land, their rows    *)
(* follow, and the analyst triages.                                        *)
(*                                                                         *)
(* How detections are grouped is IncidentEngine's business and how rows    *)
(* are written is Persistence's: here an incident gains a detection, its   *)
(* row is written with it and the detection's own row comes next.          *)
(***************************************************************************)
EXTENDS Scores, Story, Search, Noise, Exports

CONSTANTS
    Case,             \* incidents
    Catalog,          \* detections the rules and detectors can raise
    RaisedIn,         \* case -> those that can join it
    HostOf,           \* case -> the values that occur in its host's name
    ChainOf,          \* case -> the images of its process chain, root first
    TitleWords,       \* title -> the values that occur in it
    Corpus,           \* rules loaded, as their detections
    Indexes,          \* technique indexes that may be on disk; {} if there is none
    Words,            \* words an analyst types
    HistoryLimit,     \* how many dismissed incidents the query returns
    MaxRecorded       \* bound of the detections on record

\* The statistical detectors raise what no rule of the corpus does.
STATISTICAL == {"BCN-001", "DSC-001", "SCN-001"}

ASSUME CasebookAssumption ==
    /\ Corpus \subseteq Catalog /\ IsFiniteSet(Corpus) /\ MaxRecorded \in Nat
    /\ IsFiniteSet(Case) /\ HistoryLimit \in Nat \ {0}
    /\ \A c \in Case : RaisedIn[c] \subseteq Catalog
    /\ \A d \in Catalog : d.severity \in DOMAIN Rank /\ IsFiniteSet(d.attack)
    /\ \A d \in Catalog : d.rule \in STATISTICAL \/ d \in Corpus
    /\ \A d \in Corpus : d.rule \notin STATISTICAL
    /\ \A d \in Catalog : d.rule \notin NoRuleIds
    /\ \A c \in Case : ChainOf[c] \in Seq(ToSet(ChainOf[c]))
    /\ \A d \in Catalog : d.rule = "BCN-001" => d.attack = BEACON_TECHNIQUES
    /\ \A d \in Catalog : d.rule = "DSC-001" => d.attack \subseteq DISCOVERY_TECHNIQUES

VARIABLES
    members,    \* case -> its detections, oldest first
    stored,     \* case -> how many of them have a row of their own
    status      \* case -> the analyst's triage

casebookVars == <<members, stored, status>>

Raised == {c \in Case : members[c] # <<>>}
Recorded == MapThenSumSet(LAMBDA c : Len(members[c]), Case)

-----------------------------------------------------------------------------
(* The rows, as serialize_incident_row() and serialize_detection_row()     *)
(* hand them to the readers.                                               *)

ScoreOf(c) == FoldLeft(LAMBDA sum, d : sum + SeverityScore[d.severity], 0, members[c])

DetectionRows(c) == SubSeq(members[c], 1, stored[c])

\* The fields of the row the search looks at.
SearchedRow(c) ==
    [severity |-> ScoreToSeverity(ScoreOf(c)),
     actionable |-> IsActionable([score |-> ScoreOf(c), members |-> members[c]]),
     host |-> HostOf[c],
     title |-> HostOf[c] \cup TitleWords[IncidentTitle(members[c])],
     chain |-> ToSet(ChainOf[c])]

\* A detection's host is that of its case.
SearchedDetections(c) ==
    {[severity |-> d.severity, rule |-> {d.rule}, host |-> HostOf[c], user |-> d.user,
      commandLine |-> d.commandLine,
      technique |-> d.attack \cup UNION {ParentsOf(t) : t \in d.attack},
      other |-> d.other] : d \in ToSet(DetectionRows(c))}

\* get_rule_ids_by_incident(): an incident without detection rows is not in it.
StoredRuleIds(c) == IF stored[c] = 0 THEN NoRuleIds ELSE RulesOf(DetectionRows(c))

FingerprintOf(c, ruleIds) == Fingerprint(c, ChainOf[c], TechniquesOf(members[c]), ruleIds)

Dismissed == {c \in Raised : status[c] = "false_positive"}

\* list_incidents_by_status() orders the rows by their last event, whose time is
\* not kept here: any order of the dismissed incidents.
Orders == Bijection(1..Cardinality(Dismissed), Dismissed)

\* _false_positive_history(): the first of them, up to the limit of the query.
FalsePositiveHistory(order, limit) ==
    [n \in {k \in DOMAIN order : k <= limit} |->
        FingerprintOf(order[n], StoredRuleIds(order[n]))]

\* Mutant of ListNoise: the page is scored without reading its rule ids.
ListNoiseUnread(c, history) ==
    IF status[c] # "open" THEN {} ELSE Assess(FingerprintOf(c, NoRuleIds), history)

\* _attach_noise_scores(): the badge of the incident list.
ListNoise(c, history) ==
    IF status[c] # "open" THEN {} ELSE Assess(FingerprintOf(c, StoredRuleIds(c)), history)

\* get_incident(): the badge of the incident page.
DetailNoise(c, history) ==
    IF status[c] # "open" THEN {}
    ELSE Assess(FingerprintOf(c, RulesOf(DetectionRows(c))), history)

\* GET /incidents/{id}/stix.
BundleOf(c) == StixBundle(c, TechniquesOf(members[c]), DetectionRows(c))

-----------------------------------------------------------------------------
CasebookInit ==
    /\ members = [c \in Case |-> <<>>]
    /\ stored = [c \in Case |-> 0]
    /\ status = [c \in Case |-> "open"]

\* A detection joins a case, whose row is upserted with it.
LandDetection(c, d) ==
    /\ Recorded < MaxRecorded
    /\ stored[c] = Len(members[c])
    /\ members' = [members EXCEPT ![c] = Append(@, d)]
    /\ UNCHANGED <<stored, status>>

\* Mutant of StoreDetection: the row is stored again.
StoreDetectionAgain(c) ==
    /\ members[c] # <<>> /\ stored[c] <= Len(members[c])
    /\ stored' = [stored EXCEPT ![c] = @ + 1]
    /\ UNCHANGED <<members, status>>

\* save_detection(): its own row follows.
StoreDetection(c) ==
    /\ stored[c] < Len(members[c])
    /\ stored' = [stored EXCEPT ![c] = @ + 1]
    /\ UNCHANGED <<members, status>>

\* The analyst sets the status.
Resolve(c, verdict) ==
    /\ c \in Raised
    /\ status' = [status EXCEPT ![c] = verdict]
    /\ UNCHANGED <<members, stored>>

Verdict == {"open", "closed", "false_positive"}

CasebookNext ==
    \/ \E c \in Case : \E d \in RaisedIn[c] : LandDetection(c, d)
    \/ \E c \in Case : StoreDetection(c)
    \/ \E c \in Case, verdict \in Verdict : Resolve(c, verdict)

CasebookSpec == CasebookInit /\ [][CasebookNext]_casebookVars

-----------------------------------------------------------------------------
(* Properties.                                                             *)

\* Type invariant; no detection row without its member.
CasebookTypeOK ==
    /\ members \in [Case -> Seq(Catalog)]
    /\ stored \in [Case -> Nat] /\ \A c \in Case : stored[c] <= Len(members[c])
    /\ status \in [Case -> Verdict]

\* A query of one or two words, before and after a word that replaces no
\* earlier filter is added.
Refinements ==
    LET typed == {<<word>> : word \in Words} \cup (Words \X Words)
    IN  {<<ParseQuery(refined[1]), ParseQuery(Append(refined[1], refined[2]))>> :
            refined \in {r \in typed \X Words : Refines(r[1], r[2])}}

\* "each word they add to reduce the results, not widen them"
\* (search.py:133-134): the longer query finds no incident the shorter one does
\* not, the wholesale match and the fallback to title and chain included.
SearchNarrows ==
    \A c \in Raised :
        LET row  == SearchedRow(c)
            dets == SearchedDetections(c)
        IN  \A refinement \in Refinements :
                Finds(row, dets, refinement[2]) => Finds(row, dets, refinement[1])

\* The dismissed incident in the k-th place repeats c: its rules and its chain,
\* if any process is known.
Repeats(c, order, k) ==
    /\ status[c] = "open" /\ stored[c] > 0
    /\ RulesOf(DetectionRows(c)) = RulesOf(DetectionRows(order[k]))
    /\ ChainOf[c] = ChainOf[order[k]] /\ ChainOf[c] # <<>>

\* Whatever order the dismissed incidents come in, and wherever the query cuts
\* them, the list and the page of an incident agree on what it resembles as soon
\* as one of its detections is stored (noise.py:123-128); what is cited shares a
\* rule, a technique or a process with the incident and says why
\* (noise.py:185-186); and a dismissed incident it repeats that the cut leaves is
\* cited, unless there is no room left beside others as much like it
\* (noise.py:193-195).
NoiseSound ==
    \A c \in Raised, order \in Orders, limit \in 1..HistoryLimit :
        LET history == FalsePositiveHistory(order, limit)
            page    == DetailNoise(c, history)
        IN  /\ stored[c] > 0 => ListNoise(c, history) = page
            /\ \A match \in ListNoise(c, history) :
                  /\ match.reasons # {}
                  /\ \/ TechniquesOf(members[c]) \cap TechniquesOf(members[match.id]) # {}
                     \/ RulesOf(DetectionRows(c)) \cap RulesOf(DetectionRows(match.id)) # {}
                     \/ ToSet(ChainOf[c]) \cap ToSet(ChainOf[match.id]) # {}
            /\ \A k \in DOMAIN history : Repeats(c, order, k) =>
                  LET repeat == Compare(FingerprintOf(c, StoredRuleIds(c)), history[k])
                  IN  \/ repeat \in page
                      \/ /\ Cardinality(page) = MaxMatches
                         /\ \A match \in page : match.score >= repeat.score

\* A bundle is a STIX bundle: every reference resolves, no object comes twice,
\* and each address, hash and key of the detections is one indicator
\* (stix_export.py:14-33, 164-201).  Whatever was raised, and whatever index is
\* on disk, the coverage report counts as covered (coverage.py:41-47, 125-127),
\* except what the network scan raises.
ExportsSound ==
    /\ \A c \in Raised :
          LET bundle == BundleOf(c)
              rows   == ToSet(DetectionRows(c))
          IN  /\ IsInjective(bundle.objects)
              /\ ToSet(bundle.refs) \subseteq ToSet(bundle.objects)
              /\ {IDENTITY_ID} \cup {StixId("attack-pattern", t) : t \in TechniquesOf(members[c])}
                    \subseteq ToSet(bundle.refs)
              /\ \A d \in rows :
                    /\ d.ip # None => StixId("indicator", <<"addr", d.ip>>) \in ToSet(bundle.refs)
                    /\ d.sha256 # None =>
                          StixId("indicator", <<"file", d.sha256>>) \in ToSet(bundle.refs)
                    /\ d.registryKey # None =>
                          StixId("indicator", <<"windows-registry-key", d.registryKey>>)
                              \in ToSet(bundle.refs)
    /\ \A index \in Indexes :
          LET report == CoverageReport({[id |-> d.rule, attack |-> d.attack] : d \in Corpus}, index)
          IN  /\ index \subseteq DOMAIN report.techniques
              /\ \A t \in DOMAIN report.techniques : report.techniques[t] <= GradientTop(report)
              /\ \A c \in Raised, n \in 1..MaxRecorded :
                    n \in DOMAIN members[c] /\ members[c][n].rule # "SCN-001" =>
                        members[c][n].attack \subseteq report.covered

\* As detections land an incident's story only gets sharper: its title never
\* falls back to a less particular one, the chain that classifies it is never
\* given up for a later one, and no phase of its profile, nor a rule, a
\* technique or an evasion told there, is dropped; a privilege escalation once
\* told spans at least as much (schemas.py:568-613, profile.py:352-400,
\* indicators.py:83-94).
StoryOnlySharpens ==
    [][\A c \in Raised : members'[c] # members[c] =>
          LET before == Profile(members[c])
              after  == Profile(members'[c])
          IN  /\ AtLeastAsSharp(IncidentTitle(members'[c]), IncidentTitle(members[c]))
              /\ \A p \in DOMAIN before : \E q \in DOMAIN after :
                    /\ q >= p /\ after[q].tactic = before[p].tactic
                    /\ before[p].rules \subseteq after[q].rules
                    /\ before[p].techniques \subseteq after[q].techniques
                    /\ before[p].phrase.details \subseteq after[q].phrase.details
              /\ Escalation(members[c]) # <<>> =>
                    /\ Escalation(members'[c])[1] <= Escalation(members[c])[1]
                    /\ Escalation(members'[c])[2] >= Escalation(members[c])[2]]_casebookVars

\* An incident ranks at least as high as its worst detection, and one that
\* ranks critical surfaces as an alert (schemas.py:63-67, correlator.py:288-304).
SeverityDominates ==
    \A c \in Raised :
        LET band == ScoreToSeverity(ScoreOf(c))
        IN  /\ \A n \in DOMAIN members[c] : Rank[band] >= Rank[members[c][n].severity]
            /\ band = "critical" => SearchedRow(c).actionable

\* "every technique a shipped rule declares must resolve to a phase here too, or
\* that rule's incidents get no behavior profile at all" (test_profile.py:144-146).
RuleIncidentsProfiled ==
    \A c \in Raised : RulesOf(members[c]) \ STATISTICAL # {} => Profile(members[c]) # <<>>
=============================================================================
