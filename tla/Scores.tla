--------------------------------- MODULE Scores ---------------------------------
(***************************************************************************)
(* How bad an incident is: the severity weights and bands of               *)
(* backend/models/schemas.py and IncidentEngine.is_actionable().           *)
(***************************************************************************)
EXTENDS Naturals, Sequences

CONSTANT Threshold      \* incident_score_threshold

ASSUME ThresholdAssumption == Threshold \in Nat

Rank == [info |-> 0, low |-> 1, medium |-> 2, high |-> 3, critical |-> 4]
SeverityScore == [info |-> 1, low |-> 3, medium |-> 5, high |-> 8, critical |-> 14]

\* Mutant of ScoreToSeverity: a score on a band's floor falls below it.
ScoreToSeverityExclusive(score) ==
    CASE score > 14 -> "critical"
      [] score > 8 /\ score <= 14 -> "high"
      [] score > 5 /\ score <= 8 -> "medium"
      [] score > 2 /\ score <= 5 -> "low"
      [] OTHER -> "info"

\* score_to_severity() over SCORE_BANDS.
ScoreToSeverity(score) ==
    CASE score >= 14 -> "critical"
      [] score \in 8..13 -> "high"
      [] score \in 5..7 -> "medium"
      [] score \in 2..4 -> "low"
      [] OTHER -> "info"

\* is_actionable(): score, one critical detection, or volume.
IsActionable(incident) ==
    \/ incident.score >= Threshold
    \/ \E k \in DOMAIN incident.members : incident.members[k].severity = "critical"
    \/ Len(incident.members) >= 3
=============================================================================
