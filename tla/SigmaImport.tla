------------------------------ MODULE SigmaImport ------------------------------
(***************************************************************************)
(* backend/engine/sigma_import.py: the subset of Sigma that is turned into *)
(* rules of this engine.  A parsed Sigma document is                       *)
(*   [id, title, product, service, category, level, tags, blocks,          *)
(*    condition]                                                           *)
(* blocks maps a name to [shape, alternatives], where alternatives is a    *)
(* set of sets of items [field, mods, expected]: a "map" block has one, a  *)
(* "list" block any number.  A list of values is the set of them.  A name  *)
(* is <<stem, suffix>>, so that `1 of sel*` selects by stem.  The grammar    *)
(* of conditions is the set of forms _parse_condition recognises:          *)
(*   [form, names, quantifier, pattern, filters]                           *)
(* where each `and not <filter>` that trails the condition is in filters.  *)
(* A part that is rejected rejects the document; the wording of the        *)
(* reasons is left out.                                                    *)
(***************************************************************************)
EXTENDS Matcher

CONSTANTS
    MAX_PATTERN_LENGTH,   \* redos_guard: longest regex accepted
    UnsafeTokens          \* tokens that do not compile, nest quantifiers or time out

\* The regexes that are generated from globs are safe by construction.
ASSUME TokenAssumption ==
    MAX_PATTERN_LENGTH \in Nat /\ UnsafeTokens \cap {"^", "$", ".", ".*"} = {}

NullValue == {<<"null">>}

\* ---- redos_guard.is_safe_regex: length, compilation, shape, timing probe
IsSafeRegex(pattern) ==
    Len(pattern) <= MAX_PATTERN_LENGTH /\ ToSet(pattern) \cap UnsafeTokens = {}

\* ---- log source to event id
SYSMON_EVENT_ID == [process_creation |-> 1, network_connection |-> 3, dns_query |-> 22]

LogsourceSupported(document) ==
    /\ document.product = "windows"
    /\ document.service \in {"", "sysmon"}
    /\ document.category \in DOMAIN SYSMON_EVENT_ID

\* ---- selections
FieldSpec(item) == <<item.field, item.mods>>

THEM == <<"them", "">>

\* _match_block_names(): `them`, a name, or every name with a stem.
MatchBlockNames(pattern, blocks) ==
    {n \in DOMAIN blocks : pattern \in {THEM, n, <<n[1], "*">>}}

SelectedNames(document) ==
    IF document.condition.form = "of"
    THEN MatchBlockNames(document.condition.pattern, document.blocks)
    ELSE document.condition.names

JoinOf(condition) ==
    IF condition.form = "or" \/ (condition.form = "of" /\ condition.quantifier = "1")
    THEN "any" ELSE "all"

SelectedItems(document) ==
    UNION {UNION document.blocks[n].alternatives : n \in SelectedNames(document)}

\* _merge_expected(): one item for each spec, with the values of all its items.
MergeExpected(items, spec) == UNION {i.expected : i \in {j \in items : FieldSpec(j) = spec}}

MergeItems(items) ==
    {[i EXCEPT !.expected = MergeExpected(items, FieldSpec(i))] : i \in items}

OneField(block) == \A items \in block.alternatives : \E i \in items : items = {i}

\* _combine(): a lone list block is an OR, several blocks are one level of AND
\* or OR, and anything that does not flatten into one level is rejected.
LoneList(document) ==
    /\ JoinOf(document.condition) = "all" /\ document.condition.form # "and"
    /\ \E n \in SelectedNames(document) :
          SelectedNames(document) = {n} /\ document.blocks[n].shape = "list"

Joined(document) == IF LoneList(document) THEN "any" ELSE JoinOf(document.condition)

Conflict(items) ==
    \E i, j \in items : FieldSpec(i) = FieldSpec(j) /\ i.expected # j.expected

Combinable(document) ==
    /\ SelectedNames(document) # {}
    /\ SelectedNames(document) \subseteq DOMAIN document.blocks
    /\ Joined(document) = "any" =>
          \A n \in SelectedNames(document) : OneField(document.blocks[n])
    /\ Joined(document) = "all" => ~Conflict(SelectedItems(document))
    /\ ~LoneList(document) =>
          \A n \in SelectedNames(document) : document.blocks[n].shape = "map"

\* ---- conditions
AppendNot(item) ==
    IF Negated(item.mods) THEN item ELSE [item EXCEPT !.mods = Append(@, "not")]

\* The only field of a filter, negated.
FilterItem(document, f) ==
    AppendNot(CHOOSE i \in UNION document.blocks[f].alternatives : TRUE)

FilterItems(document) == {FilterItem(document, f) : f \in document.condition.filters}

Positive(document) == MergeItems(SelectedItems(document))

\* _parse_condition() with a trailing `and not <filter>` for each filter: the
\* positive part must be an AND, a filter one field, no negated spec twice.
Parsable(document) ==
    /\ document.condition.form \in {"one", "and", "or", "of"}
    /\ Combinable(document)
    /\ document.condition.filters # {} => Joined(document) = "all"
    /\ \A f \in document.condition.filters :
          /\ f \in DOMAIN document.blocks
          /\ document.blocks[f].shape = "map" /\ OneField(document.blocks[f])
          /\ \A i \in Positive(document) : FieldSpec(i) # FieldSpec(FilterItem(document, f))
          /\ \A g \in document.condition.filters \ {f} :
                FieldSpec(FilterItem(document, g)) # FieldSpec(FilterItem(document, f))

\* ---- fields and values
\* _classify_glob(): the operator of one glob value, "re" when none is simple.
Shape(value) ==
    LET stars == {i \in DOMAIN value : value[i] = "*"}
    IN CASE "?" \in ToSet(value) -> "re"
         [] "?" \notin ToSet(value) /\ stars = {} -> "equals"
         [] "?" \notin ToSet(value) /\ stars = {1} /\ Len(value) > 1 -> "endswith"
         [] "?" \notin ToSet(value) /\ stars = {Len(value)} /\ Len(value) > 1 -> "startswith"
         [] "?" \notin ToSet(value) /\ stars = {1, Len(value)} /\ Len(value) > 1 -> "contains"
         [] OTHER -> "re"

\* The value with the stars of its shape cut off.
Core(value) ==
    CASE Shape(value) = "endswith"   -> Tail(value)
      [] Shape(value) = "startswith" -> Front(value)
      [] Shape(value) = "contains"   -> Front(Tail(value))
      [] OTHER -> value

GlobToRegex(value) ==
    <<"^">> \o [i \in DOMAIN value |->
                  CASE value[i] = "*" -> ".*" [] value[i] = "?" -> "." [] OTHER -> value[i]]
            \o <<"$">>

\* Mutant of BareOperator: the shape of any one value stands for all.
AnyOperator(expected) == Shape(CHOOSE v \in expected : TRUE)

\* _convert_bare_value(): one operator if every value has the same simple
\* shape, otherwise one anchored regex per value.
BareOperator(expected) ==
    IF \E s \in OPERATORS : \A v \in expected : Shape(v) = s
    THEN CHOOSE s \in OPERATORS : \A v \in expected : Shape(v) = s
    ELSE "re"

BareExpected(expected) ==
    IF BareOperator(expected) = "re" THEN {GlobToRegex(v) : v \in expected}
                                     ELSE {Core(v) : v \in expected}

OperatorModifiers == {"contains", "startswith", "endswith", "re"}
IgnoredModifiers == {"cased"}
KnownModifiers == OperatorModifiers \cup IgnoredModifiers \cup {"not"}

\* The operators an item names.
ExplicitOperators(item) == ToSet(item.mods) \cap OperatorModifiers

\* What _convert_field() accepts of modifiers and values alike.
SupportedField(item) ==
    /\ ToSet(item.mods) \subseteq KnownModifiers
    /\ \A i, j \in DOMAIN item.mods :
          {item.mods[i], item.mods[j]} \subseteq OperatorModifiers => i = j
    /\ item.expected # NullValue
    /\ ExplicitOperators(item) = {} => item.expected # {}

\* Mutant of ConvertibleField: only one of several patterns is probed.
ConvertibleByOne(item) ==
    /\ SupportedField(item)
    /\ "re" \in ExplicitOperators(item) => \E v \in item.expected : IsSafeRegex(v)

\* What _convert_field() accepts: known modifiers, one operator, safe patterns.
ConvertibleField(item) ==
    /\ SupportedField(item)
    /\ "re" \in ExplicitOperators(item) => \A v \in item.expected : IsSafeRegex(v)

\* _convert_field(): the engine's spec and values of one Sigma item.
ConvertField(item) ==
    LET bare     == ExplicitOperators(item) = {}
        operator == IF bare THEN BareOperator(item.expected)
                            ELSE CHOOSE o \in ExplicitOperators(item) : TRUE
    IN [field    |-> item.field,
        mods     |-> (IF operator = "equals" THEN <<>> ELSE <<operator>>)
                     \o (IF Negated(item.mods) THEN <<"not">> ELSE <<>>),
        expected |-> IF bare THEN BareExpected(item.expected) ELSE item.expected]

\* ---- documents
MergedFields(document) == Positive(document) \cup FilterItems(document)

\* convert_sigma_rule() returns a rule, rather than raising SigmaImportError.
Convertible(document) ==
    /\ document.title
    /\ LogsourceSupported(document)
    /\ DOMAIN document.blocks # {}
    /\ Parsable(document)
    /\ \A i \in MergedFields(document) : ConvertibleField(i)
    /\ \A i, j \in MergedFields(document) :
          FieldSpec(ConvertField(i)) = FieldSpec(ConvertField(j)) => i = j

SigmaSeverity(level) == IF level = "informational" THEN "info"
                        ELSE IF level \in ToSet(Severities) THEN level ELSE "medium"

\* _extract_attack_ids(): the technique tags among the tags.
ExtractAttackIds(tags) == {t.id : t \in {u \in tags : u.technique}}

\* The rule, before its id is made unique by the suffix n.  The order of its
\* items decides nothing: no operator in it is unknown to the matcher.
ConvertSigmaRule(document) ==
    [id        |-> document.id,
     n         |-> 0,
     event_id  |-> SYSMON_EVENT_ID[document.category],
     severity  |-> SigmaSeverity(document.level),
     attack    |-> ExtractAttackIds(document.tags),
     detection |-> SetToSeq({ConvertField(i) : i \in MergedFields(document)}),
     condition |-> Joined(document),
     enabled   |-> TRUE]
=============================================================================
