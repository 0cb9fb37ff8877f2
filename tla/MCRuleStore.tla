------------------------------ MODULE MCRuleStore ------------------------------
(* Texts over two letters, one of them in either case; two hand-written      *)
(* files; Sigma files that go through the shapes of values, the modifiers    *)
(* and the forms of conditions.                                              *)
(* The documents of different files have the same ids.                       *)
EXTENDS RuleStore

MCLowerCase == "A" :> "a"

Text == {<<"a">>, <<"A">>, <<"b">>, <<"a", "a">>, <<"a", "b">>, <<"A", "b">>, <<"b", "a">>,
         <<"a", "b", "a">>}

MCEvent ==
    {[event_id |-> 1, fields |-> <<>>]}
    \cup {[event_id |-> 1, fields |-> [f |-> t]] : t \in Text}
    \cup {[event_id |-> 1, fields |-> [f |-> t, g |-> u]] : t, u \in {<<"a">>, <<"a", "b">>}}

Item(field, mods, expected) == [field |-> field, mods |-> mods, expected |-> expected]
Map(items) == [shape |-> "map", alternatives |-> {items}]
List(alternatives) == [shape |-> "list", alternatives |-> alternatives]

Cond(form, names) == [form |-> form, names |-> names, filters |-> {}]
One(n) == Cond("one", {n})
Of(quantifier, pattern) ==
    [form |-> "of", quantifier |-> quantifier, pattern |-> pattern, names |-> {}, filters |-> {}]
Without(condition, filters) == [condition EXCEPT !.filters = filters]

Doc(id, body) ==
    [id |-> id, title |-> TRUE, product |-> "windows", service |-> "", level |-> "high",
     category |-> "process_creation", tags |-> {[technique |-> TRUE, id |-> "T1059"]},
     blocks |-> body.blocks, condition |-> body.condition]

S1 == <<"sel", "1">>
S2 == <<"sel", "2">>
F1 == <<"filter", "1">>

Body(blocks, condition) == [blocks |-> blocks, condition |-> condition]
Single(block) == S1 :> block
Pair(first, second) == S1 :> first @@ S2 :> second
Filtered(blocks, filter) == blocks @@ F1 :> filter

File(bodies) == [oversize |-> FALSE, documents |-> [i \in DOMAIN bodies |-> Doc(i, bodies[i])]]
Items(items) == File([i \in DOMAIN items |-> Body(Single(Map({items[i]})), One(S1))])
Values(globs) == Items([i \in DOMAIN globs |-> Item("f", <<>>, globs[i])])

Shapes == Values(<< {<<"a">>}, {<<"*">>}, {<<"?">>}, {<<"*", "a">>}, {<<"a", "*">>},
                    {<<"*", "*">>}, {<<"*", "b", "*">>}, {<<"a", "*", "a">>},
                    {<<"?", "*">>}, {<<"*", "a", "?">>}, {<<"*", "*", "a">>}, {} >>)

Lists == Values(<< {<<"a">>, <<"b">>}, {<<"*", "a">>, <<"*", "b">>},
                   {<<"*", "a">>, <<"b", "*">>}, {<<"a">>, <<"*", "b">>},
                   {<<"?">>, <<"*", "b", "*">>}, {<<"a">>, <<"?">>}, NullValue >>)

Mods == Items([i \in 1..9 |-> Item("f",
    << <<"contains">>, <<"startswith">>, <<"endswith">>, <<"cased">>, <<"not", "cased">>,
       <<"endswith", "not">>, <<"all", "contains">>, <<"contains", "endswith">>,
       <<"weird">> >>[i], {<<"A">>, <<"a", "b">>})])

Regexes == Items(<< Item("f", <<"re">>, {<<"a", ".*", "a">>}),
                    Item("f", <<"re">>, {<<"^", "b">>, <<"slow", "a">>}),
                    Item("f", <<"re">>, {<<"^", "A">>}),
                    Item("f", <<"re", "cased">>, {<<"^", "A">>}),
                    Item("f", <<"re">>, {<<"a", "a", "a", "a", "a">>}) >>)

IsA == Item("f", <<>>, {<<"a">>})
StartsA == Item("f", <<"startswith">>, {<<"a">>})
EndsB == Item("f", <<>>, {<<"*", "b">>})
GisA == Item("g", <<>>, {<<"a">>})
NotA == Item("f", <<"not">>, {<<"a">>})
NotB == Item("f", <<"not">>, {<<"b">>})

Conditions == File(<<
    Body(Pair(Map({IsA}), Map({GisA})), Cond("and", {S1, S2})),
    Body(Pair(Map({IsA}), Map({EndsB})), Cond("or", {S1, S2})),
    Body(Pair(Map({IsA}), Map({EndsB})), Cond("and", {S1, S2})),
    Body(Pair(Map({StartsA, GisA}), Map({EndsB})), Cond("or", {S1, S2})),
    Body(Pair(Map({StartsA}), Map({GisA})), Of("1", THEM)),
    Body(Filtered(Pair(Map({StartsA}), Map({GisA})), Map({EndsB})), Of("all", <<"sel", "*">>)),
    Body(Single(List({{IsA}, {GisA}})), One(S1)),
    Body(Single(List({{IsA, GisA}, {EndsB}})), One(S1)),
    Body(Filtered(Single(Map({StartsA})), Map({EndsB})), Without(One(S1), {F1})),
    Body(Filtered(Pair(Map({StartsA}), Map({GisA})), Map({EndsB})),
         Without(Cond("and", {S1, S2}), {F1})),
    Body(Filtered(Pair(Map({StartsA}), Map({GisA})), Map({EndsB})),
         Without(Cond("or", {S1, S2}), {F1})),
    Body(Filtered(Single(Map({StartsA})), Map({EndsB, GisA})), Without(One(S1), {F1})),
    Body(Single(Map({StartsA})), Without(One(S1), {F1})),
    Body(Filtered(Pair(Map({StartsA}), Map({EndsB})), Map({GisA})), Without(One(S1), {S2, F1})),
    Body(Single(Map({StartsA})), Cond("nested", {S1})),
    Body(Single(Map({})), One(S1)),
    Body(Single(List({})), One(S1)) >>)

CasedA == Item("f", <<"contains", "cased">>, {<<"A">>})

\* Negated alternatives, a filter that is negated already, `cased` in a
\* selection among others and in a filter.
Negations == File(<<
    Body(Pair(Map({NotA}), Map({NotB})), Of("1", THEM)),
    Body(Pair(Map({NotA}), Map({GisA})), Of("1", THEM)),
    Body(Filtered(Single(Map({StartsA})), Map({NotA})), Without(One(S1), {F1})),
    Body(Filtered(Single(Map({NotA})), Map({GisA})), Without(One(S1), {F1})),
    Body(Pair(Map({CasedA}), Map({GisA})), Of("1", THEM)),
    Body(Filtered(Single(Map({CasedA})), Map({EndsB})), Without(One(S1), {F1})),
    Body(Filtered(Single(Map({EndsB})), Map({CasedA})), Without(One(S1), {F1})) >>)

Foreign == [oversize |-> FALSE,
            documents |-> LET one == Doc(1, Body(Single(Map({IsA})), One(S1)))
                          IN <<[one EXCEPT !.product = "linux"], [one EXCEPT !.level = "unset"],
                               [one EXCEPT !.service = "security"], [one EXCEPT !.category = "other"]>>]

Oversize == [Lists EXCEPT !.oversize = TRUE]

MCUploads == {<<Shapes>>, <<Lists>>, <<Mods, Regexes>>, <<Conditions>>, <<Negations>>,
              <<Foreign, Oversize>>}

Hand(n) == [dir |-> "hand", id |-> n, n |-> 0]
MCHandwritten == {Hand(1), Hand(2)}

\* Imported rules are read after the first hand-written file, before the second.
Place(p) == IF p = Hand(1) THEN <<0, 0>> ELSE IF p = Hand(2) THEN <<99, 0>> ELSE <<p.id, p.n>>
MCReadBefore(p, q) ==
    \/ Place(p)[1] < Place(q)[1]
    \/ Place(p)[1] = Place(q)[1] /\ Place(p)[2] < Place(q)[2]

HandRule(mods, enabled) ==
    [kind |-> "rule",
     rule |-> [id |-> 0, n |-> 0, event_id |-> 1, severity |-> "high", attack |-> {},
               detection |-> <<Item("f", mods, {<<"a">>})>>, condition |-> "all",
               enabled |-> enabled]]

MCContents == {HandRule(<<"contains">>, TRUE), HandRule(<<>>, FALSE),
               [kind |-> "invalid_schema"]}

\* Files a typing error leaves behind: an operator the matcher does not know,
\* and a YAML document that is not a mapping.
MCBadContents == {HandRule(<<"contains">>, TRUE), HandRule(<<"Contains">>, TRUE),
                  [kind |-> "not_a_mapping"]}

MCFewUploads == {<<Lists>>}

RequestSymmetry == Permutations(Requests)
=============================================================================
