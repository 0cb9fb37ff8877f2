-------------------------------- MODULE Exports --------------------------------
(***************************************************************************)
(* What leaves the console: the key indicators of an incident              *)
(* (backend/engine/indicators.py), its STIX 2.1 bundle (stix_export.py)    *)
(* and the ATT&CK coverage report (coverage.py).  STIX ids are seeded on   *)
(* content, so an id is a type and its seed here; names, descriptions,     *)
(* labels and timestamps of the objects are left out.                      *)
(***************************************************************************)
EXTENDS Integers, SequencesExt, FiniteSetsExt

None == ""

-----------------------------------------------------------------------------
(* build_indicators().                                                     *)

\* Mutant of AddNew: the list is not looked at.
AddAlways(list, found) == list \o SetToSeq(found)

\* "if entry not in list: list.append(entry)", for what one source gives.
AddNew(list, found) == list \o SetToSeq(found \ ToSet(list))

Gather(found) == FoldLeft(AddNew, <<>>, found)

\* Address, port and name: a connection without an address is no destination.
Destinations(detections) ==
    Gather([n \in DOMAIN detections |->
              {dest \in {[ip |-> detections[n].ip, port |-> detections[n].port,
                          hostname |-> detections[n].hostname]} : dest.ip # None}])

\* One entry per SHA256.
Hashes(detections) == Gather([n \in DOMAIN detections |-> {detections[n].sha256} \ {None}])

RegistryPersistence(detections) ==
    Gather([n \in DOMAIN detections |-> {detections[n].registryKey} \ {None}])

INTEGRITY_ORDER == <<"untrusted", "low", "medium", "high", "system">>

\* _detect_escalation(): the lowest and the highest level seen, if they differ.
Escalation(detections) ==
    LET seen == {r \in DOMAIN INTEGRITY_ORDER :
                    \E n \in DOMAIN detections : detections[n].integrity = INTEGRITY_ORDER[r]}
    IN  IF Cardinality(seen) < 2 THEN <<>> ELSE <<Min(seen), Max(seen)>>

-----------------------------------------------------------------------------
(* build_stix_bundle().                                                    *)

\* _stix_id().
StixId(type, seed) == <<type, seed>>

IDENTITY_ID == StixId("identity", "sysmon-hunter")

\* _attack_pattern_object(), one per technique of the incident.
AttackPatterns(techniques) ==
    LET listed == SetToSeq(techniques)
    IN  [n \in DOMAIN listed |-> StixId("attack-pattern", listed[n])]

\* The patterns a destination gives: its address, and its name if it has one.
DestinationPatterns(dest) ==
    {<<"addr", dest.ip>>} \cup {<<"domain-name", name>> : name \in {dest.hostname} \ {None}}

\* _indicator_objects(): one per distinct pattern.
IndicatorObjects(detections) ==
    LET dests  == Destinations(detections)
        hashes == Hashes(detections)
        keys   == RegistryPersistence(detections)
        patterns == Gather([n \in DOMAIN dests |-> DestinationPatterns(dests[n])]
                           \o [n \in DOMAIN hashes |-> {<<"file", hashes[n]>>}]
                           \o [n \in DOMAIN keys |-> {<<"windows-registry-key", keys[n]>>}])
    IN  [n \in DOMAIN patterns |-> StixId("indicator", patterns[n])]

\* build_stix_bundle(): the ids of the objects, and what the report refers to.
StixBundle(incidentId, techniques, detections) ==
    LET observed == AttackPatterns(techniques) \o IndicatorObjects(detections)
    IN  [objects |-> <<IDENTITY_ID>> \o observed \o <<StixId("report", incidentId)>>,
         refs    |-> <<IDENTITY_ID>> \o observed]

-----------------------------------------------------------------------------
(* The coverage report.                                                    *)

\* beacon.py and discovery.py; the network scan's technique is not among them.
BEACON_TECHNIQUES == {"T1071.001", "T1573"}
DISCOVERY_TECHNIQUES ==
    {"T1069", "T1033", "T1087", "T1016", "T1082", "T1018", "T1057", "T1049"}
DETECTOR_TECHNIQUES == BEACON_TECHNIQUES \cup DISCOVERY_TECHNIQUES

\* rule_counts_by_technique(): rules plus statistical detectors.
RuleCount(rules, technique) ==
    Cardinality({rule \in rules : technique \in rule.attack})
        + (IF technique \in DETECTOR_TECHNIQUES THEN 1 ELSE 0)

Referenced(rules) == DETECTOR_TECHNIQUES \cup UNION {rule.attack : rule \in rules}

\* build_report(): without an index the view is partial, and what is referenced
\* is listed all the same.
CoverageReport(rules, index) ==
    LET listed == index \cup Referenced(rules)
    IN  [partial    |-> index = {},
         techniques |-> [t \in listed |-> RuleCount(rules, t)],
         covered    |-> {t \in listed : RuleCount(rules, t) > 0}]

\* build_navigator_layer(): the top of the gradient.
GradientTop(report) ==
    LET counts == {report.techniques[t] : t \in DOMAIN report.techniques}
    IN  IF counts \subseteq {0} THEN 1 ELSE Max(counts)
=============================================================================
