-------------------------------- MODULE Matcher --------------------------------
(***************************************************************************)
(* backend/engine/matcher.py: does an event satisfy a rule.  A text is a   *)
(* sequence of characters of either case.  An event is [event_id, fields], *)
(* a function from field names to texts: a field the event does not carry  *)
(* is not in its domain.  A detection block is a sequence of items [field, *)
(* mods, expected] in the order of the YAML mapping: the order decides     *)
(* whether an unknown operator is reached.  The expected values are a set: *)
(* any of them will do.                                                    *)
(***************************************************************************)
EXTENDS Integers, SequencesExt

CONSTANT LowerCase      \* the lower-case letter of each upper-case one

\* What is no letter has no case.
ASSUME LetterAssumption ==
    \A token \in {"*", "?", "^", "$", ".", ".*"} :
        token \notin DOMAIN LowerCase /\ \A c \in DOMAIN LowerCase : LowerCase[c] # token

\* str.lower()
Lower(c) == IF c \in DOMAIN LowerCase THEN LowerCase[c] ELSE c

Lowered(text) == [i \in DOMAIN text |-> Lower(text[i])]

Severities == <<"info", "low", "medium", "high", "critical">>

\* A regular expression is a sequence of tokens: the anchors, "." for any
\* character, ".*" for any text, a character for itself.  Where a match that
\* has come to one of the positions can be after one more token:
After(token, text, positions) ==
    CASE token = "^"  -> positions \cap {0}
      [] token = "$"  -> positions \cap {Len(text)}
      [] token = ".*" -> {q \in 0..Len(text) : \E p \in positions : p <= q}
      [] token = "."  -> {q \in 1..Len(text) : q - 1 \in positions}
      [] OTHER        -> {q \in 1..Len(text) : q - 1 \in positions /\ text[q] = token}

\* re.search: a match may start anywhere.
ReSearch(pattern, text) ==
    LET reached[i \in 0..Len(pattern)] ==
            IF i = 0 THEN 0..Len(text) ELSE After(pattern[i], text, reached[i - 1])
    IN reached[Len(pattern)] # {}

OPERATORS == {"equals", "contains", "startswith", "endswith", "re"}

Satisfies(operator, actual, e) ==
    \/ operator = "equals"     /\ actual = e
    \/ operator = "contains"   /\ e \in SubSeqs(actual)
    \/ operator = "startswith" /\ IsPrefix(e, actual)
    \/ operator = "endswith"   /\ IsSuffix(e, actual)
    \/ operator = "re"         /\ ReSearch(e, actual)

\* _compare(): a missing field never matches, and hides an unknown operator.
RaisesSyntaxError(event, item, operator) ==
    item.field \in DOMAIN event.fields /\ operator \notin OPERATORS

\* Mutant of Compare: the values of the rule are compared as written.
CompareAsWritten(event, item, operator) ==
    /\ item.field \in DOMAIN event.fields
    /\ \E e \in item.expected : Satisfies(operator, Lowered(event.fields[item.field]), e)

\* Both sides are lowered; IGNORECASE does the same for a pattern.
Compare(event, item, operator) ==
    /\ item.field \in DOMAIN event.fields
    /\ \E e \in item.expected :
          Satisfies(operator, Lowered(event.fields[item.field]), Lowered(e))

\* The operator of `field|operator|not`: the first modifier that is not `not`.
OperatorOf(mods) ==
    LET operators == {i \in DOMAIN mods : mods[i] # "not"}
    IN IF operators = {} THEN "equals"
       ELSE mods[CHOOSE i \in operators : \A j \in operators : i <= j]

Negated(mods) == "not" \in ToSet(mods)

EvaluateField(event, item) ==
    Compare(event, item, OperatorOf(item.mods)) # Negated(item.mods)

\* matches(): all() and any() stop at the first item that decides.
Reached(event, rule, i) ==
    \A j \in 1..(i - 1) :
        EvaluateField(event, rule.detection[j]) = (rule.condition = "all")

RaisesAt(event, item) == RaisesSyntaxError(event, item, OperatorOf(item.mods))

MatchRaises(event, rule) ==
    \E i \in DOMAIN rule.detection :
        Reached(event, rule, i) /\ RaisesAt(event, rule.detection[i])

Matches(event, rule) ==
    /\ rule.detection # <<>>
    /\ IF rule.condition = "all"
       THEN \A i \in DOMAIN rule.detection : EvaluateField(event, rule.detection[i])
       ELSE \E i \in DOMAIN rule.detection : EvaluateField(event, rule.detection[i])

\* evaluate() over the rules of the event's id: a syntax error in any of them
\* leaves the comprehension, and no rule's detection survives it.
EvaluateRaises(event, rules) == \E rule \in rules : MatchRaises(event, rule)

Evaluate(event, rules) == {rule \in rules : Matches(event, rule)}
=============================================================================
