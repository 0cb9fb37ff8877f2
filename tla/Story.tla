--------------------------------- MODULE Story ---------------------------------
(***************************************************************************)
(* What an incident is called and how it is told: the derived title and    *)
(* classification of Incident (backend/models/schemas.py) and the          *)
(* behaviour profile (backend/engine/profile.py).  Of the two technique    *)
(* tables the rows the model's rules carry are kept, of a profile phrase   *)
(* the findings that make it more than a label.                            *)
(***************************************************************************)
EXTENDS Integers, SequencesExt, FiniteSetsExt

\* The sub-techniques the model's rules carry; their parent is the part of the
\* id before the dot.
SubTechniques ==
    [T1566 |-> {"T1566.001"}, T1059 |-> {"T1059.001"}, T1003 |-> {"T1003.001"},
     T1055 |-> {"T1055.012", "T1055.013"}, T1071 |-> {"T1071.001"},
     T1491 |-> {"T1491.001"}, T1547 |-> {"T1547.001"}]

ParentsOf(technique) ==
    {parent \in DOMAIN SubTechniques : technique \in SubTechniques[parent]}

\* _TECHNIQUE_TACTIC of schemas.py, by tag.
TitleTable ==
    [delivery |-> {"T1566", "T1566.001"},
     execution |-> {"T1059", "T1059.001", "T1027"},
     download |-> {"T1105"},
     credential_access |-> {"T1003", "T1003.001"},
     discovery |-> {"T1087", "T1082", "T1046"},
     command_and_control |-> {"T1071", "T1071.001", "T1573"},
     injection |-> {"T1055", "T1055.012"},
     persistence |-> {"T1547.001"},
     impact |-> {"T1490", "T1486", "T1491.001"}]

\* TECHNIQUE_TACTIC of profile.py, by phase.
ProfileTable ==
    [initial_access |-> {"T1566", "T1566.001"},
     execution |-> {"T1059", "T1059.001", "T1027"},
     defense_evasion |-> {"T1055"},
     credential_access |-> {"T1003", "T1003.001"},
     discovery |-> {"T1087", "T1082", "T1046"},
     command_and_control |-> {"T1105", "T1071", "T1071.001", "T1573"},
     injection |-> {"T1055.012"},
     persistence |-> {"T1547.001"},
     impact |-> {"T1490", "T1486", "T1491.001"}]

Listed(table, technique) == {tactic \in DOMAIN table : technique \in table[tactic]}

\* _tactic_for(), of both modules: a technique not listed counts as its parent.
TacticFor(table, technique) ==
    IF Listed(table, technique) = {}
    THEN UNION {Listed(table, parent) : parent \in ParentsOf(technique)}
    ELSE Listed(table, technique)

RulesOf(detections) == {detections[n].rule : n \in DOMAIN detections}
TechniquesOf(detections) == UNION {detections[n].attack : n \in DOMAIN detections}

-----------------------------------------------------------------------------
(* The title.                                                              *)

\* One requirement of a correlation chain: so many of these rules.
AtLeast(minimum, rules) == [minimum |-> minimum, rules |-> rules]

\* _CORRELATION_CHAINS.
CORRELATION_CHAINS ==
    <<{AtLeast(1, {"SYS-004"}), AtLeast(1, {"SYS-080", "SYS-081"})},
      {AtLeast(2, {"SYS-010", "SYS-041", "SYS-130", "SYS-131", "SYS-135", "SYS-136",
                   "SYS-137", "SYS-118", "SYS-150"})},
      {AtLeast(1, {"SYS-001"}), AtLeast(1, {"SYS-009"})}>>

\* _NARRATIVES.
NARRATIVES ==
    <<{"delivery", "execution", "discovery"},
      {"delivery", "execution", "command_and_control"},
      {"credential_access", "command_and_control"},
      {"delivery", "execution"},
      {"execution", "command_and_control"},
      {"discovery", "command_and_control"},
      {"credential_access", "discovery"}>>

\* _SIGNATURE_RULES.
SIGNATURE_RULES ==
    <<"SYS-004", "SYS-041", "SYS-038", "SYS-010", "SYS-060", "SYS-031", "SYS-151",
      "BCN-001", "DSC-001", "SCN-001">>

\* Mutant of IsMet: exactly so many.
IsMetExactly(requirement, rules) ==
    Cardinality(rules \cap requirement.rules) = requirement.minimum

IsMet(requirement, rules) ==
    Cardinality(rules \cap requirement.rules) >= requirement.minimum

\* correlation_chain: the first chain whose requirements are all met, 0 if none.
CorrelationChain(detections) ==
    LET met == {n \in DOMAIN CORRELATION_CHAINS :
                   \A requirement \in CORRELATION_CHAINS[n] :
                       IsMet(requirement, RulesOf(detections))}
    IN  IF met = {} THEN 0 ELSE Min(met)

Title(kind, n) == [kind |-> kind, n |-> n]

\* The titles that fit, of which Incident.title takes the first: a chain, a
\* narrative, a signature rule, any tactic, nothing.
FittingTitles(detections) ==
    LET tactics == UNION {TacticFor(TitleTable, t) : t \in TechniquesOf(detections)}
    IN  [chain |-> IF CorrelationChain(detections) = 0 THEN {} ELSE {CorrelationChain(detections)},
         narrative |-> {n \in DOMAIN NARRATIVES : NARRATIVES[n] \subseteq tactics},
         signature |-> {n \in DOMAIN SIGNATURE_RULES : SIGNATURE_RULES[n] \in RulesOf(detections)},
         tactic |-> IF tactics = {} THEN {} ELSE {1},
         none |-> {1}]

TITLE_ORDER == <<"chain", "narrative", "signature", "tactic", "none">>

\* Incident.title.
IncidentTitle(detections) ==
    LET fitting == FittingTitles(detections)
        kind == TITLE_ORDER[Min({k \in DOMAIN TITLE_ORDER : fitting[TITLE_ORDER[k]] # {}})]
    IN  Title(kind, Min(fitting[kind]))

\* A title names a more particular story than another.
AtLeastAsSharp(a, b) ==
    LET Place(title) == CHOOSE k \in DOMAIN TITLE_ORDER : TITLE_ORDER[k] = title.kind
    IN  Place(a) < Place(b) \/ (a.kind = b.kind /\ a.n <= b.n)

-----------------------------------------------------------------------------
(* The behaviour profile.                                                  *)

\* TACTIC_ORDER.
TACTIC_ORDER ==
    <<"initial_access", "execution", "privilege_escalation", "defense_evasion",
      "discovery", "lateral_movement", "credential_access", "persistence",
      "collection", "command_and_control", "exfiltration", "impact">>

\* by_tactic: the positions of the detections that serve a tactic.
Serving(detections, tactic) ==
    {n \in DOMAIN detections :
        \E t \in detections[n].attack : tactic \in TacticFor(ProfileTable, t)}

\* The number a discovery or a C2 phrase quotes: that of the first detection of
\* the phase that has one, 0 if none does.
QuotedNumber(detections, serving) ==
    LET telling == {n \in serving : detections[n].evidence # 0}
    IN  IF telling = {} THEN 0 ELSE detections[Min(telling)].evidence

\* The rules or techniques that settle the wording of a tactic's phrase, first
\* come first served; a tactic not listed has one wording.
WORDINGS ==
    [initial_access |-> <<{"T1190"}>>,
     execution |-> <<{"SYS-002", "SYS-009"}, {"SYS-035"}, {"T1204.003"}>>,
     privilege_escalation |-> <<{"T1611"}, {"T1484.001", "T1484.002"}>>,
     credential_access |-> <<{"SYS-038"}, {"T1558.001"}, {"T1003.004", "T1003.005"},
                             {"T1552.006"}, {"T1552.002"}>>,
     persistence |-> <<{"SYS-030"}, {"SYS-050"}, {"T1053.005"}, {"T1543.003"},
                       {"T1546.003", "T1546.015"}, {"T1546.008"},
                       {"T1547.004", "T1547.005", "T1547.014"}, {"T1136.002"}>>,
     lateral_movement |-> <<{"T1563.002"}, {"T1021.004"}>>,
     command_and_control |-> <<{"SYS-060"}, {"T1090.003"}>>,
     impact |-> <<{"SYS-004"}>>]

\* What a defense-evasion phrase lists, all of it.
EVASIONS ==
    {"SYS-031", "SYS-008", "SYS-003", "SYS-007", "SYS-034", "SYS-036", "SYS-037",
     "T1562.009", "T1562.002", "T1036.007"}

QUOTING == {"discovery", "command_and_control"}

\* _phrase_for_tactic(): the number quoted, or else the wording; 0 is the plain one.
Phrase(tactic, detections, serving) ==
    LET marks    == {detections[n].rule : n \in serving}
                        \cup UNION {detections[n].attack : n \in serving}
        number   == IF tactic \in QUOTING THEN QuotedNumber(detections, serving) ELSE 0
        fitting  == IF tactic \notin DOMAIN WORDINGS THEN {}
                    ELSE {w \in DOMAIN WORDINGS[tactic] : WORDINGS[tactic][w] \cap marks # {}}
    IN  [number |-> number,
         wording |-> IF number # 0 \/ fitting = {} THEN 0 ELSE Min(fitting),
         details |-> IF tactic = "defense_evasion" THEN marks \cap EVASIONS ELSE {}]

\* build_profile(): one phase per tactic served, in the order of an intrusion.
\* A phase lists the techniques the table gives it, not those that reach it
\* through their parent.
Profile(detections) ==
    LET present == FoldLeft(LAMBDA told, tactic :
                                IF Serving(detections, tactic) = {} THEN told
                                ELSE Append(told, tactic), <<>>, TACTIC_ORDER)
    IN  [p \in DOMAIN present |->
            LET serving == Serving(detections, present[p])
            IN  [tactic |-> present[p],
                 phrase |-> Phrase(present[p], detections, serving),
                 techniques |-> {t \in UNION {detections[n].attack : n \in serving} :
                                    present[p] \in Listed(ProfileTable, t)},
                 rules |-> {detections[n].rule : n \in serving}]]
=============================================================================
