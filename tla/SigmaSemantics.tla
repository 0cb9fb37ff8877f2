---------------------------- MODULE SigmaSemantics ----------------------------
(***************************************************************************)
(* What a Sigma document means, independently of how it is converted: the  *)
(* reference sigma_import.py is compared with.  A value without modifier   *)
(* is a glob over the whole field; the values of a field are alternatives; *)
(* a mapping is a conjunction; a list is a disjunction; `1 of` and `all    *)
(* of` quantify over selections; `and not` excludes.  Upper and lower case *)
(* are one unless the item says `cased` (a regular expression included, as *)
(* the importer reads it: sigma_import.py:33-37).                          *)
(***************************************************************************)
EXTENDS SigmaImport

\* The glob matches when the text can be cut into one piece per character of
\* the glob: any piece for a star, one character for a question mark.
GlobMatches(glob, text) ==
    \E cut \in [0..Len(glob) -> 0..Len(text)] :
        /\ cut[0] = 0 /\ cut[Len(glob)] = Len(text)
        /\ \A i \in DOMAIN glob :
              CASE glob[i] = "*" -> cut[i - 1] <= cut[i]
                [] glob[i] = "?" -> cut[i] = cut[i - 1] + 1
                [] OTHER         -> cut[i] = cut[i - 1] + 1 /\ text[cut[i]] = glob[i]

ValueHolds(item, value, text) ==
    CASE ExplicitOperators(item) = {"contains"}   -> value \in SubSeqs(text)
      [] ExplicitOperators(item) = {"startswith"} -> value \in Prefixes(text)
      [] ExplicitOperators(item) = {"endswith"}   -> value \in Suffixes(text)
      [] ExplicitOperators(item) = {"re"}         -> ReSearch(value, text)
      [] ExplicitOperators(item) = {}             -> GlobMatches(value, text)

Cased(item) == "cased" \in ToSet(item.mods)

\* A text or a value as the item looks at it.
Seen(item, text) == IF Cased(item) THEN text ELSE Lowered(text)

ItemHolds(item, event) ==
    (item.field \in DOMAIN event.fields
        /\ \E v \in item.expected :
              ValueHolds(item, Seen(item, v), Seen(item, event.fields[item.field])))
    # Negated(item.mods)

SelectionHolds(block, event) ==
    \E items \in block.alternatives : \A i \in items : ItemHolds(i, event)

SigmaHolds(document, event) ==
    LET Holds(n) == SelectionHolds(document.blocks[n], event)
        names == SelectedNames(document)
    IN /\ CASE document.condition.form \in {"one", "and"} -> \A n \in names : Holds(n)
            [] document.condition.form = "or" -> \E n \in names : Holds(n)
            [] document.condition.form = "of" ->
                 IF document.condition.quantifier = "1" THEN \E n \in names : Holds(n)
                                                        ELSE \A n \in names : Holds(n)
       /\ \A f \in document.condition.filters : ~Holds(f)

\* Two forms of negation that the conversion does not carry over: a filter on a
\* field that is itself negated keeps one negation instead of none, and negated
\* alternatives of one spec become the negation of all their values together.
\* `not` is a modifier of this engine, not of Sigma.
DoubleNegative(document) ==
    \E f \in document.condition.filters :
        \E items \in document.blocks[f].alternatives : \E i \in items : Negated(i.mods)

NegatedAlternatives(document) ==
    /\ Joined(document) = "any"
    /\ \E i, j \in SelectedItems(document) :
          i # j /\ FieldSpec(i) = FieldSpec(j) /\ Negated(i.mods)

\* An empty selection has no meaning in Sigma; the conversion makes nothing of it.
EmptySelection(document) ==
    \E n \in SelectedNames(document) : {} \in document.blocks[n].alternatives

Plain(document) ==
    ~DoubleNegative(document) /\ ~NegatedAlternatives(document) /\ ~EmptySelection(document)

\* The conversion drops `cased`.
CasedItem(block) == \E items \in block.alternatives : \E i \in items : Cased(i)

CaseSensitive(document) ==
    \E n \in SelectedNames(document) \cup document.condition.filters :
        CasedItem(document.blocks[n])

\* Where a `cased` item excludes events, a rule without it excludes more.
CasedExclusion(document) ==
    \/ \E f \in document.condition.filters : CasedItem(document.blocks[f])
    \/ \E i \in SelectedItems(document) : Cased(i) /\ Negated(i.mods)

\* ---- what a parsed YAML document is like
IsSequence(s) == s \in Seq(ToSet(s))

\* A character of a text is no token of a regular expression: the conversion
\* escapes it.
IsCharacter(c) == c \notin {"^", "$", ".", ".*"} \cup UnsafeTokens

IsItem(item) ==
    /\ DOMAIN item = {"field", "mods", "expected"}
    /\ IsSequence(item.mods)
    /\ \A v \in item.expected :
          /\ IsSequence(v)
          /\ ExplicitOperators(item) = {} => \A c \in ToSet(v) : IsCharacter(c)

IsMapping(items) ==
    /\ IsFiniteSet(items)
    /\ \A i \in items : IsItem(i)
    /\ \A i, j \in items : FieldSpec(i) = FieldSpec(j) => i = j

IsBlock(block) ==
    /\ block.shape \in {"map", "list"}
    /\ IsFiniteSet(block.alternatives)
    /\ \A items \in block.alternatives : IsMapping(items)
    /\ block.shape = "map" => \E items \in block.alternatives : block.alternatives = {items}

IsDocument(document) ==
    /\ IsFiniteSet(DOMAIN document.blocks)
    /\ \A n \in DOMAIN document.blocks : IsBlock(document.blocks[n])
    /\ document.condition.form = "of" => document.condition.quantifier \in {"1", "all"}
=============================================================================
