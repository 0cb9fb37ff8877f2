---------------------------- MODULE RuleStoreProofs ----------------------------
(* The safety of the rule store: imports do not overwrite one another, sound  *)
(* rules fire, no unsafe pattern goes live, and a converted rule means what   *)
(* its Sigma document means, for any files, documents and events.             *)
EXTENDS RuleStore, DataInduction, SequenceTheorems, FiniteSetTheorems

\* The image of a finite set under a function is finite.
LEMMA ImageIsFinite ==
    ASSUME NEW f, IsFiniteSet(DOMAIN f), f = [x \in DOMAIN f |-> f[x]]
    PROVE  IsFiniteSet({f[x] : x \in DOMAIN f})
<1> DEFINE S == DOMAIN f
           T == {f[x] : x \in DOMAIN f}
<1>1. f \in Surjection(S, T)
  BY DEF Surjection
<1> HIDE DEF S, T
<1>2. IsFiniteSet(S)
  BY DEF S
<1>3. IsFiniteSet(T)
  BY <1>1, <1>2, FS_Surjection
<1> QED BY <1>3 DEF T

\* The sequence made of a finite set has its elements.
LEMMA SetToSeqElements ==
    ASSUME NEW S, IsFiniteSet(S)
    PROVE  /\ DOMAIN SetToSeq(S) = 1..Cardinality(S)
           /\ \A k \in DOMAIN SetToSeq(S) : SetToSeq(S)[k] \in S
           /\ \A x \in S : \E k \in DOMAIN SetToSeq(S) : SetToSeq(S)[k] = x
<1> DEFINE D == 1..Cardinality(S)
           s == SetToSeq(S)
<1>1. Cardinality(S) \in Nat /\ ExistsBijection(D, S)
  BY FS_CardinalityType
<1>2. PICK f \in Bijection(D, S) : TRUE
  BY <1>1 DEF ExistsBijection
<1>3. f \in [D -> S] /\ IsInjective(f)
  BY <1>2 DEF Bijection, Injection, IsInjective
<1>4. s \in [D -> S] /\ IsInjective(s)
  BY <1>3, Zenon DEF SetToSeq
<1> DEFINE T == {s[k] : k \in D}
<1>5. IsFiniteSet(D) /\ Cardinality(D) = Cardinality(S)
  BY <1>1, FS_Interval
<1>6. s \in Bijection(D, T)
  BY <1>4 DEF Bijection, Injection, Surjection, IsInjective
<1>7. T \subseteq S
  BY <1>4
<1> HIDE DEF s, T
<1>8. IsFiniteSet(T) /\ Cardinality(T) = Cardinality(D)
  BY <1>5, <1>6, FS_Bijection DEF ExistsBijection
<1>9. S = T
  BY <1>5, <1>7, <1>8, FS_Subset
<1>10. DOMAIN s = D /\ (\A k \in D : s[k] \in S) /\ \A x \in S : \E k \in D : s[k] = x
  BY <1>4, <1>9 DEF T
<1> QED BY <1>10 DEF s

\* The suffix that is chosen makes the id a new one.
LEMMA FreshIdIsFresh ==
    ASSUME NEW id, NEW known, IsFiniteSet(known)
    PROVE  /\ FreshId(id, known) \notin known
           /\ \E n : FreshId(id, known) = [id |-> id, n |-> n]
<1> DEFINE c == Cardinality(known)
           Taken(n) == [id |-> id, n |-> n] \in known
           First(n) == ~Taken(n) /\ \A k \in 0..(n - 1) : Taken(k)
<1>1. c \in Nat
  BY FS_CardinalityType
<1>2. \E n \in 0..c : ~Taken(n)
  <2> SUFFICES ASSUME \A n \in 0..c : Taken(n) PROVE FALSE
    OBVIOUS
  <2> DEFINE D == 0..c
             f == [n \in D |-> [id |-> id, n |-> n]]
  <2>1. f \in [D -> known]
    OBVIOUS
  <2>2. \A x, y \in D : x # y => f[x] # f[y]
    OBVIOUS
  <2> HIDE DEF c
  <2>3. IsFiniteSet(D) /\ Cardinality(D) = c + 1
    BY <1>1, FS_Interval
  <2> HIDE DEF D, f
  <2>4. c < Cardinality(D)
    BY <1>1, <2>3
  <2> QED BY <2>1, <2>2, <2>3, <2>4, FS_PigeonHole DEF c
<1> HIDE DEF c, Taken
<1>3. \E n \in 0..c : First(n)
  <2> SUFFICES ASSUME \A n \in 0..c : ~First(n) PROVE FALSE
    OBVIOUS
  <2> DEFINE Good == {m \in Nat : m <= c => \A k \in 0..m : Taken(k)}
  <2>1. 0 \in Good
    BY <1>1
  <2>2. ASSUME NEW m \in Nat, m \in Good PROVE m + 1 \in Good
    BY <1>1, <2>2
  <2> HIDE DEF Good
  <2>3. c \in Good
    BY <1>1, <2>1, <2>2, SetInduction
  <2> QED BY <1>1, <1>2, <2>3 DEF Good
<1> DEFINE n == CHOOSE n \in 0..c : First(n)
<1>4. ~Taken(n)
  BY <1>3
<1>5. FreshId(id, known) = [id |-> id, n |-> n]
  BY Zenon DEF FreshId, c, Taken
<1> HIDE DEF n
<1> QED BY <1>4, <1>5 DEF Taken
----------------------------------------------------------------------------
(* One upload.  Its documents are imported one after the other, so what each *)
(* write preserves the upload preserves.                                     *)

\* The run of an import: the state after each document.
IsImport(f, state, documents) ==
    f = [k \in 0..Len(documents) |->
            IF k = 0 THEN state
            ELSE IF Convertible(documents[k]) THEN WriteRule(f[k - 1], documents[k])
            ELSE f[k - 1]]

LEMMA ImportRuns ==
    ASSUME NEW state, NEW documents, Len(documents) \in Nat
    PROVE  IsImport(ImportDocuments(state, documents), state, documents)
<1> DEFINE Step(g, k) == IF Convertible(documents[k]) THEN WriteRule(g[k - 1], documents[k])
                                                      ELSE g[k - 1]
           Upto(g, m) == g[0] = state /\ \A k \in 1..m : g[k] = Step(g, k)
           Good == {m \in Nat : \E g : Upto(g, m)}
<1>1. 0 \in Good
  <2>1. Upto([k \in {0} |-> state], 0)
    OBVIOUS
  <2> QED BY <2>1
<1>2. ASSUME NEW m \in Nat, m \in Good PROVE m + 1 \in Good
  <2>1. PICK g : Upto(g, m)
    BY <1>2
  <2> DEFINE h == [k \in 0..(m + 1) |-> IF k = m + 1 THEN Step(g, m + 1) ELSE g[k]]
  <2>2. h[0] = state
    BY <2>1
  <2>3. ASSUME NEW k \in 1..(m + 1) PROVE h[k] = Step(h, k)
    <3>1. h[k - 1] = g[k - 1]
      OBVIOUS
    <3>2. h[k] = Step(g, k)
      BY <2>1
    <3> QED BY <3>1, <3>2
  <2> HIDE DEF h
  <2>4. Upto(h, m + 1)
    BY <2>2, <2>3
  <2> QED BY <2>4
<1> HIDE DEF Good
<1>3. Len(documents) \in Good
  BY <1>1, <1>2, SetInduction
<1>4. PICK g : Upto(g, Len(documents))
  BY <1>3 DEF Good
<1> DEFINE w == [k \in 0..Len(documents) |-> g[k]]
           Run(f) == f = [k \in 0..Len(documents) |->
                            IF k = 0 THEN state
                            ELSE IF Convertible(documents[k]) THEN WriteRule(f[k - 1], documents[k])
                            ELSE f[k - 1]]
<1>5. Run(w)
  <2>1. ASSUME NEW k \in 0..Len(documents)
        PROVE  w[k] = IF k = 0 THEN state ELSE Step(w, k)
    <3>1. CASE k = 0
      BY <1>4, <3>1
    <3>2. CASE k # 0
      <4>1. k - 1 \in 0..Len(documents) /\ k \in 1..Len(documents)
        BY <3>2
      <4>2. w[k] = g[k] /\ w[k - 1] = g[k - 1]
        BY <4>1
      <4> QED BY <1>4, <3>2, <4>1, <4>2
    <3> QED BY <3>1, <3>2
  <2> QED BY <2>1
<1> HIDE DEF w, Run
<1>6. Run(CHOOSE f : Run(f))
  BY <1>5, Zenon
<1>7. ImportDocuments(state, documents) = CHOOSE f : Run(f)
  BY Zenon DEF ImportDocuments, Run
<1> QED BY <1>6, <1>7 DEF Run, IsImport
----------------------------------------------------------------------------
\* A file an import wrote, and an accepted rule: what a document was turned into.
ConvertedFrom(rule, n, d) ==
    IsDocument(d) /\ Convertible(d) /\ rule = [ConvertSigmaRule(d) EXCEPT !.n = n]

ImportedFile(p, content) ==
    \E d, n : /\ p = [dir |-> "imported", id |-> d.id, n |-> n]
              /\ content.kind = "rule" /\ ConvertedFrom(content.rule, n, d)

FileOK(p, content) == (p \in Handwritten /\ content \in Contents) \/ ImportedFile(p, content)

AcceptedOK(a) == a.path.dir = "imported" /\ ConvertedFrom(a.rule, a.path.n, a.document)

FilesOK(files) == IsFiniteSet(DOMAIN files) /\ \A p \in DOMAIN files : FileOK(p, files[p])

\* The state of an import: what it starts from and what it has written.
ImportOK(state) ==
    /\ IsFiniteSet(state.known)
    /\ FilesOK(state.disk)
    /\ \A a \in state.accepted : AcceptedOK(a)

\* The ids of the imported files are known, and the rules are on disk.
AllKnown(files, known) ==
    \A p \in DOMAIN files : p.dir = "imported" => [id |-> p.id, n |-> p.n] \in known

OnDisk(rules, files) ==
    \A a \in rules : a.path \in DOMAIN files /\ files[a.path] = [kind |-> "rule", rule |-> a.rule]

LEMMA WriteRuleKeeps ==
    ASSUME NEW state, ImportOK(state), NEW d, IsDocument(d), Convertible(d), NEW rules
    PROVE  LET after == WriteRule(state, d)
           IN  /\ ImportOK(after)
               /\ AllKnown(state.disk, state.known) => AllKnown(after.disk, after.known)
               /\ AllKnown(state.disk, state.known) /\ OnDisk(state.accepted \cup rules, state.disk)
                    => OnDisk(after.accepted \cup rules, after.disk)
<1> DEFINE fresh == FreshId(d.id, state.known)
           path  == [dir |-> "imported", id |-> fresh.id, n |-> fresh.n]
           rule  == [ConvertSigmaRule(d) EXCEPT !.n = fresh.n]
           file  == [kind |-> "rule", rule |-> rule]
           entry == [path |-> path, rule |-> rule, document |-> d]
           after == WriteRule(state, d)
<1>1. fresh \notin state.known /\ \E n : fresh = [id |-> d.id, n |-> n]
  BY FreshIdIsFresh DEF ImportOK
<1>2. fresh = [id |-> fresh.id, n |-> fresh.n] /\ fresh.id = d.id
  BY <1>1
<1>3. /\ after.known = state.known \cup {fresh}
      /\ after.disk = Written(state.disk, path, file)
      /\ after.accepted = state.accepted \cup {entry}
  BY DEF WriteRule
<1>4. ConvertedFrom(rule, fresh.n, d)
  BY DEF ConvertedFrom
<1> HIDE DEF fresh, after, rule
<1>5. /\ DOMAIN after.disk = DOMAIN state.disk \cup {path}
      /\ after.disk[path] = file
      /\ \A p \in DOMAIN state.disk \ {path} : after.disk[p] = state.disk[p]
  BY <1>3 DEF Written
<1>6. ImportedFile(path, file)
  <2>1. file.kind = "rule" /\ file.rule = rule /\ path = [dir |-> "imported", id |-> d.id, n |-> fresh.n]
    BY <1>2
  <2> QED BY <1>4, <2>1 DEF ImportedFile
<1>7. AcceptedOK(entry)
  BY <1>4 DEF AcceptedOK
<1> HIDE DEF path, file, entry
<1>8. ImportOK(after)
  <2>1. IsFiniteSet(after.known)
    BY <1>3, FS_AddElement DEF ImportOK
  <2>2. IsFiniteSet(DOMAIN after.disk)
    BY <1>5, FS_AddElement DEF ImportOK, FilesOK
  <2>3. \A p \in DOMAIN after.disk : FileOK(p, after.disk[p])
    BY <1>5, <1>6 DEF ImportOK, FilesOK, FileOK
  <2> QED BY <1>3, <1>7, <2>1, <2>2, <2>3 DEF ImportOK, FilesOK
<1>9. ASSUME AllKnown(state.disk, state.known) PROVE AllKnown(after.disk, after.known)
  BY <1>2, <1>3, <1>5, <1>9 DEF AllKnown, path
<1>10. ASSUME AllKnown(state.disk, state.known), OnDisk(state.accepted \cup rules, state.disk)
       PROVE  OnDisk(after.accepted \cup rules, after.disk)
  <2>1. path \notin DOMAIN state.disk
    BY <1>1, <1>2, <1>10 DEF AllKnown, path
  <2>2. entry.path = path /\ file = [kind |-> "rule", rule |-> entry.rule]
    BY DEF entry, file
  <2> QED BY <1>3, <1>5, <1>10, <2>1, <2>2 DEF OnDisk
<1> QED BY <1>8, <1>9, <1>10 DEF after

\* What holds of the state before an upload holds after it.
LEMMA UploadKeeps ==
    ASSUME NEW state, ImportOK(state), NEW upload, NEW rules,
           IsSequence(upload.documents),
           \A d \in ToSet(upload.documents) : IsDocument(d)
    PROVE  LET after == ImportUpload(state, upload)
           IN  /\ ImportOK(after)
               /\ AllKnown(state.disk, state.known) => AllKnown(after.disk, after.known)
               /\ AllKnown(state.disk, state.known) /\ OnDisk(state.accepted \cup rules, state.disk)
                    => OnDisk(after.accepted \cup rules, after.disk)
<1>1. CASE upload.oversize
  BY <1>1 DEF ImportUpload
<1>2. CASE ~upload.oversize
  <2> DEFINE documents == upload.documents
             N == Len(documents)
             f == ImportDocuments(state, documents)
             Kept(s) == /\ ImportOK(s)
                        /\ AllKnown(state.disk, state.known) => AllKnown(s.disk, s.known)
                        /\ AllKnown(state.disk, state.known)
                             /\ OnDisk(state.accepted \cup rules, state.disk)
                             => OnDisk(s.accepted \cup rules, s.disk)
             Good == {k \in Nat : k <= N => Kept(f[k])}
  <2>1. N \in Nat /\ \A k \in 1..N : IsDocument(documents[k])
    BY DEF ToSet, IsSequence
  <2>2. IsImport(f, state, documents)
    BY <2>1, ImportRuns
  <2> HIDE DEF f, documents, N
  <2>3. f[0] = state
    BY <2>1, <2>2 DEF IsImport, N
  <2>4. \A k \in 1..N : f[k] = IF Convertible(documents[k]) THEN WriteRule(f[k - 1], documents[k])
                               ELSE f[k - 1]
    <3> SUFFICES ASSUME NEW k \in 1..N
                 PROVE  f[k] = IF Convertible(documents[k])
                               THEN WriteRule(f[k - 1], documents[k]) ELSE f[k - 1]
      OBVIOUS
    <3>1. k \in 0..Len(documents) /\ k # 0
      BY <2>1 DEF N
    <3>2. f[k] = IF k = 0 THEN state
                 ELSE IF Convertible(documents[k]) THEN WriteRule(f[k - 1], documents[k])
                 ELSE f[k - 1]
      BY <2>2, <3>1, Zenon DEF IsImport
    <3> QED BY <3>1, <3>2
  <2>5. ASSUME NEW k \in 1..N, Kept(f[k - 1]) PROVE Kept(f[k])
    <3>1. CASE Convertible(documents[k])
      <4>1. f[k] = WriteRule(f[k - 1], documents[k])
        BY <2>4, <3>1
      <4>2. /\ ImportOK(f[k])
            /\ AllKnown(f[k - 1].disk, f[k - 1].known) => AllKnown(f[k].disk, f[k].known)
            /\ AllKnown(f[k - 1].disk, f[k - 1].known)
                 /\ OnDisk(f[k - 1].accepted \cup rules, f[k - 1].disk)
                 => OnDisk(f[k].accepted \cup rules, f[k].disk)
        BY <2>1, <2>5, <3>1, <4>1, WriteRuleKeeps
      <4> QED BY <2>5, <4>2
    <3>2. CASE ~Convertible(documents[k])
      BY <2>4, <2>5, <3>2
    <3> QED BY <3>1, <3>2
  <2>6. Kept(state)
    OBVIOUS
  <2> HIDE DEF Kept
  <2>7. 0 \in Good
    BY <2>3, <2>6
  <2>8. ASSUME NEW k \in Nat, k \in Good PROVE k + 1 \in Good
    <3>1. CASE k + 1 <= N
      <4>1. k + 1 \in 1..N /\ (k + 1) - 1 = k /\ Kept(f[k])
        BY <2>1, <2>8, <3>1
      <4>2. Kept(f[k + 1])
        BY <2>5, <4>1
      <4> QED BY <4>2
    <3>2. CASE ~(k + 1 <= N)
      BY <3>2
    <3> QED BY <3>1, <3>2
  <2> HIDE DEF Good
  <2>9. N \in Good
    BY <2>1, <2>7, <2>8, SetInduction
  <2>10. Kept(f[N])
    BY <2>1, <2>9 DEF Good
  <2> QED BY <1>2, <2>10 DEF ImportUpload, Kept, f, N, documents
<1> QED BY <1>1, <1>2
----------------------------------------------------------------------------
(* One document: what its fields are merged and converted to.                *)

LEMMA AppendedElements ==
    ASSUME NEW s, IsSequence(s), NEW x
    PROVE  IsSequence(Append(s, x)) /\ ToSet(Append(s, x)) = ToSet(s) \cup {x}
<1> DEFINE T == ToSet(s) \cup {x}
<1>0. s \in Seq(T) /\ x \in T
  BY DEF IsSequence
<1> HIDE DEF T
<1>1. /\ Append(s, x) \in Seq(T)
      /\ DOMAIN Append(s, x) = DOMAIN s \cup {Len(s) + 1}
      /\ \A k \in DOMAIN s : Append(s, x)[k] = s[k]
      /\ Append(s, x)[Len(s) + 1] = x
  BY <1>0
<1>2. ToSet(Append(s, x)) = ToSet(s) \cup {x}
  BY <1>1 DEF ToSet
<1> QED BY <1>1, <1>2 DEF T, IsSequence

\* Merging keeps what the items of a document are like.
LEMMA MergedItems ==
    ASSUME NEW d, IsDocument(d), Convertible(d)
    PROVE  /\ IsFiniteSet(MergedFields(d))
           /\ \A i \in MergedFields(d) : IsItem(i) /\ ConvertibleField(i)
<1> DEFINE names   == SelectedNames(d)
           items   == SelectedItems(d)
           filters == d.condition.filters
<1>1. /\ names \subseteq DOMAIN d.blocks /\ filters \subseteq DOMAIN d.blocks
      /\ IsFiniteSet(DOMAIN d.blocks)
      /\ \A n \in DOMAIN d.blocks : IsBlock(d.blocks[n])
  BY DEF Convertible, Parsable, Combinable, IsDocument
<1>2. IsFiniteSet(names) /\ IsFiniteSet(filters)
  BY <1>1, FS_Subset
<1>3. IsFiniteSet(items) /\ \A i \in items : IsItem(i)
  <2> DEFINE f == [n \in names |-> UNION d.blocks[n].alternatives]
             S == {f[n] : n \in DOMAIN f}
  <2>1. \A n \in names : IsFiniteSet(f[n])
    BY <1>1, FS_UNION DEF IsBlock, IsMapping
  <2>2. IsFiniteSet(S)
    BY <1>2, ImageIsFinite
  <2>3. items = UNION S
    BY DEF SelectedItems
  <2>4. \A T \in S : IsFiniteSet(T)
    BY <2>1
  <2> HIDE DEF S
  <2>5. IsFiniteSet(UNION S)
    BY <2>2, <2>4, FS_UNION
  <2>6. \A i \in items : IsItem(i)
    BY <1>1 DEF SelectedItems, IsBlock, IsMapping
  <2> QED BY <2>3, <2>5, <2>6
<1>4. IsFiniteSet(Positive(d)) /\ \A i \in Positive(d) : IsItem(i)
  <2> DEFINE f == [i \in items |-> [i EXCEPT !.expected = MergeExpected(items, FieldSpec(i))]]
  <2> HIDE DEF items
  <2>1. IsFiniteSet({f[i] : i \in DOMAIN f})
    BY <1>3, ImageIsFinite
  <2>2. Positive(d) = {f[i] : i \in DOMAIN f}
    BY DEF Positive, MergeItems, items
  <2>3. ASSUME NEW i \in items PROVE IsItem(f[i])
    <3>1. /\ DOMAIN f[i] = {"field", "mods", "expected"} /\ f[i].mods = i.mods
          /\ f[i].expected = MergeExpected(items, FieldSpec(i))
          /\ IsSequence(i.mods)
      BY <1>3 DEF IsItem
    <3>2. ASSUME NEW v \in MergeExpected(items, FieldSpec(i))
          PROVE  IsSequence(v)
                 /\ (ExplicitOperators(i) = {} => \A c \in ToSet(v) : IsCharacter(c))
      <4>1. PICK j \in items : FieldSpec(j) = FieldSpec(i) /\ v \in j.expected
        BY DEF MergeExpected
      <4>2. j.mods = i.mods
        BY <4>1 DEF FieldSpec
      <4> QED BY <1>3, <4>1, <4>2 DEF IsItem, ExplicitOperators
    <3> HIDE DEF f
    <3> QED BY <3>1, <3>2 DEF IsItem, ExplicitOperators
  <2> QED BY <2>1, <2>2, <2>3
<1>5. IsFiniteSet(FilterItems(d)) /\ \A i \in FilterItems(d) : IsItem(i)
  <2> DEFINE f == [n \in filters |-> FilterItem(d, n)]
  <2>1. IsFiniteSet({f[n] : n \in DOMAIN f})
    BY <1>2, ImageIsFinite
  <2>2. FilterItems(d) = {f[n] : n \in DOMAIN f}
    BY DEF FilterItems
  <2>3. ASSUME NEW n \in filters PROVE IsItem(FilterItem(d, n))
    <3> DEFINE i == CHOOSE i \in UNION d.blocks[n].alternatives : TRUE
    <3>1. IsBlock(d.blocks[n]) /\ d.blocks[n].shape = "map"
      BY <1>1 DEF Convertible, Parsable
    <3>2. i \in UNION d.blocks[n].alternatives
      <4>1. OneField(d.blocks[n])
        BY DEF Convertible, Parsable
      <4> QED BY <3>1, <4>1 DEF IsBlock, OneField
    <3>3. IsItem(i)
      BY <3>1, <3>2 DEF IsBlock, IsMapping
    <3> HIDE DEF i
    <3> DEFINE j == [i EXCEPT !.mods = Append(i.mods, "not")]
    <3>4. DOMAIN j = {"field", "mods", "expected"} /\ j.expected = i.expected
          /\ j.mods = Append(i.mods, "not")
      BY <3>3 DEF IsItem
    <3>5. IsSequence(j.mods) /\ ExplicitOperators(j) = ExplicitOperators(i)
      <4>1. IsSequence(i.mods)
        BY <3>3 DEF IsItem
      <4>2. IsSequence(j.mods) /\ ToSet(j.mods) = ToSet(i.mods) \cup {"not"}
        BY <3>4, <4>1, AppendedElements
      <4> QED BY <4>2 DEF ExplicitOperators, OperatorModifiers
    <3> HIDE DEF j
    <3>6. IsItem(j)
      BY <3>3, <3>4, <3>5 DEF IsItem
    <3>7. FilterItem(d, n) = IF Negated(i.mods) THEN i ELSE j
      BY DEF FilterItem, AppendNot, i, j
    <3> QED BY <3>3, <3>6, <3>7
  <2> QED BY <2>1, <2>2, <2>3
<1>6. MergedFields(d) = Positive(d) \cup FilterItems(d)
  BY DEF MergedFields
<1>7. IsFiniteSet(MergedFields(d))
  BY <1>4, <1>5, <1>6, FS_Union
<1> QED BY <1>4, <1>5, <1>6, <1>7 DEF Convertible

\* The modifiers of a converted field are read back as they were meant.
LEMMA ModifiersReadBack ==
    ASSUME NEW o \in OPERATORS, NEW negate \in BOOLEAN
    PROVE  LET mods == (IF o = "equals" THEN <<>> ELSE <<o>>)
                       \o (IF negate THEN <<"not">> ELSE <<>>)
           IN  OperatorOf(mods) = o /\ (Negated(mods) <=> negate)
<1> DEFINE mods == (IF o = "equals" THEN <<>> ELSE <<o>>)
                   \o (IF negate THEN <<"not">> ELSE <<>>)
<1>1. o # "not"
  BY DEF OPERATORS
<1>2. CASE o = "equals"
  <2>1. DOMAIN mods = (IF negate THEN {1} ELSE {}) /\ (negate => mods[1] = "not")
    BY <1>2
  <2> HIDE DEF mods
  <2>2. {i \in DOMAIN mods : mods[i] # "not"} = {}
    BY <2>1
  <2>3. OperatorOf(mods) = o /\ (Negated(mods) <=> negate)
    BY <1>2, <2>1, <2>2 DEF OperatorOf, Negated, ToSet
  <2> QED BY <2>3 DEF mods
<1>3. CASE o # "equals"
  <2>1. negate => mods = <<o>> \o <<"not">>
    BY <1>3
  <2>2. ~negate => mods = <<o>> \o <<>>
    BY <1>3
  <2> HIDE DEF mods
  <2>3. /\ DOMAIN mods = (IF negate THEN {1, 2} ELSE {1})
        /\ mods[1] = o /\ (negate => mods[2] = "not")
    <3>1. CASE negate
      <4>1. mods = <<o, "not">>
        BY <2>1, <3>1
      <4> QED BY <3>1, <4>1
    <3>2. CASE ~negate
      <4>1. mods = <<o>>
        BY <2>2, <3>2
      <4> QED BY <3>2, <4>1
    <3> QED BY <3>1, <3>2
  <2>4. {i \in DOMAIN mods : mods[i] # "not"} = {1}
    BY <1>1, <2>3
  <2>5. (CHOOSE i \in {1} : \A j \in {1} : i <= j) = 1
    OBVIOUS
  <2>6. OperatorOf(mods) = mods[CHOOSE i \in {1} : \A j \in {1} : i <= j]
    BY <2>4 DEF OperatorOf
  <2>7. OperatorOf(mods) = o /\ (Negated(mods) <=> negate)
    BY <1>1, <2>3, <2>5, <2>6 DEF Negated, ToSet
  <2> QED BY <2>7 DEF mods
<1> QED BY <1>2, <1>3

\* What one field is converted to.
LEMMA ConvertedField ==
    ASSUME NEW i, IsItem(i), ConvertibleField(i)
    PROVE  LET c == ConvertField(i)
               o == OperatorOf(c.mods)
           IN  /\ c.field = i.field /\ o \in OPERATORS
               /\ Negated(c.mods) <=> Negated(i.mods)
               /\ ExplicitOperators(i) = {} =>
                    o = BareOperator(i.expected) /\ c.expected = BareExpected(i.expected)
               /\ ExplicitOperators(i) # {} =>
                    ExplicitOperators(i) = {o} /\ c.expected = i.expected
<1> DEFINE c == ConvertField(i)
           bare == ExplicitOperators(i) = {}
           o == IF bare THEN BareOperator(i.expected)
                        ELSE CHOOSE o \in ExplicitOperators(i) : TRUE
<1>1. /\ c.field = i.field
      /\ c.mods = (IF o = "equals" THEN <<>> ELSE <<o>>)
                  \o (IF Negated(i.mods) THEN <<"not">> ELSE <<>>)
      /\ c.expected = IF bare THEN BareExpected(i.expected) ELSE i.expected
  BY DEF ConvertField
<1>2. BareOperator(i.expected) \in OPERATORS
  BY DEF BareOperator, OPERATORS
<1>3. ~bare => o \in ExplicitOperators(i)
  OBVIOUS
<1>4. o \in OPERATORS
  BY <1>2, <1>3 DEF ExplicitOperators, OperatorModifiers, OPERATORS
<1>5. ~bare => ExplicitOperators(i) = {o}
  <2> SUFFICES ASSUME NEW p \in ExplicitOperators(i), NEW q \in ExplicitOperators(i)
               PROVE  p = q
    BY <1>3
  <2>1. PICK k, l \in DOMAIN i.mods : i.mods[k] = p /\ i.mods[l] = q
    BY DEF ExplicitOperators, ToSet
  <2>2. {i.mods[k], i.mods[l]} \subseteq OperatorModifiers
    BY <2>1 DEF ExplicitOperators
  <2>3. k = l
    BY <2>2 DEF ConvertibleField, SupportedField
  <2> QED BY <2>1, <2>3
<1>6. Negated(i.mods) \in BOOLEAN
  BY DEF Negated
<1> HIDE DEF c, o
<1>7. OperatorOf(c.mods) = o /\ (Negated(c.mods) <=> Negated(i.mods))
  BY <1>1, <1>4, <1>6, ModifiersReadBack, Zenon
<1> QED BY <1>1, <1>4, <1>5, <1>7 DEF c, o

\* The items of a converted rule are the converted fields.
LEMMA ConvertedItems ==
    ASSUME NEW d, IsDocument(d), Convertible(d)
    PROVE  LET detection == ConvertSigmaRule(d).detection
           IN  /\ \A k \in DOMAIN detection :
                     \E i \in MergedFields(d) : detection[k] = ConvertField(i)
               /\ \A i \in MergedFields(d) :
                     \E k \in DOMAIN detection : detection[k] = ConvertField(i)
<1> DEFINE f == [i \in MergedFields(d) |-> ConvertField(i)]
           S == {f[i] : i \in DOMAIN f}
<1>1. IsFiniteSet(S)
  BY MergedItems, ImageIsFinite
<1>2. ConvertSigmaRule(d).detection = SetToSeq(S)
  BY DEF ConvertSigmaRule
<1>3. \A x : x \in S <=> \E i \in MergedFields(d) : x = ConvertField(i)
  OBVIOUS
<1> HIDE DEF S
<1> DEFINE s == SetToSeq(S)
<1>4. (\A k \in DOMAIN s : s[k] \in S) /\ \A x \in S : \E k \in DOMAIN s : s[k] = x
  BY <1>1, SetToSeqElements
<1> HIDE DEF s
<1>5. /\ \A k \in DOMAIN s : \E i \in MergedFields(d) : s[k] = ConvertField(i)
      /\ \A i \in MergedFields(d) : \E k \in DOMAIN s : s[k] = ConvertField(i)
  BY <1>3, <1>4
<1> QED BY <1>2, <1>5 DEF s

LEMMA Framed ==
    ASSUME NEW T, NEW first \in T, NEW body \in Seq(T), NEW last \in T, NEW v,
           v = <<first>> \o body \o <<last>>
    PROVE  /\ v \in Seq(T) /\ Len(v) = Len(body) + 2
           /\ v[1] = first /\ v[Len(body) + 2] = last
           /\ \A k \in 1..Len(body) : v[k + 1] = body[k]
<1> DEFINE front == <<first>> \o body
<1>1. <<first>> \in Seq(T) /\ <<last>> \in Seq(T) /\ Len(body) \in Nat
  OBVIOUS
<1>2. /\ front \in Seq(T) /\ Len(front) = 1 + Len(body) /\ front[1] = first
      /\ \A k \in 1..Len(body) : front[k + 1] = body[k]
  BY <1>1
<1>3. v = front \o <<last>>
  OBVIOUS
<1> HIDE DEF front
<1>4. /\ v \in Seq(T) /\ Len(v) = Len(front) + 1 /\ v[Len(front) + 1] = last
      /\ \A k \in 1..Len(front) : v[k] = front[k]
  BY <1>1, <1>2, <1>3
<1> QED BY <1>1, <1>2, <1>4

\* The regex of a glob: an anchor, a token for each character, an anchor.
RegexToken(c) == CASE c = "*" -> ".*" [] c = "?" -> "." [] OTHER -> c

LEMMA RegexOfGlob ==
    ASSUME NEW w, IsSequence(w)
    PROVE  LET v == GlobToRegex(w)
           IN  /\ IsSequence(v) /\ Len(w) \in Nat /\ Len(v) = Len(w) + 2
               /\ v[1] = "^" /\ v[Len(w) + 2] = "$"
               /\ \A k \in 1..Len(w) : v[k + 1] = RegexToken(w[k])
<1> DEFINE v == GlobToRegex(w)
           body == [j \in DOMAIN w |-> RegexToken(w[j])]
           T == {RegexToken(c) : c \in ToSet(w)} \cup {"^", "$"}
<1>1. DOMAIN w = 1..Len(w) /\ Len(w) \in Nat
  BY DEF IsSequence
<1>2. v = <<"^">> \o body \o <<"$">>
  BY Zenon DEF GlobToRegex, RegexToken
<1>3. \A j \in 1..Len(w) : body[j] = RegexToken(w[j]) /\ body[j] \in T
  BY <1>1 DEF ToSet
<1>4. "^" \in T /\ "$" \in T
  OBVIOUS
<1> HIDE DEF T
<1>5. body \in Seq(T) /\ Len(body) = Len(w)
  BY <1>1, <1>3
<1> HIDE DEF body, v
<1>6. /\ v \in Seq(T) /\ Len(v) = Len(w) + 2 /\ v[1] = "^" /\ v[Len(w) + 2] = "$"
      /\ \A k \in 1..Len(w) : v[k + 1] = body[k]
  BY <1>1, <1>2, <1>4, <1>5, Framed
<1>7. IsSequence(v)
  BY <1>6 DEF IsSequence, ToSet
<1> QED BY <1>1, <1>3, <1>6, <1>7 DEF v

LEMMA RegexTokens ==
    ASSUME NEW w, IsSequence(w)
    PROVE  \A x \in ToSet(GlobToRegex(w)) : x \in {"^", "$", ".*", "."} \cup ToSet(w)
<1> DEFINE v == GlobToRegex(w)
<1>1. /\ IsSequence(v) /\ Len(w) \in Nat /\ Len(v) = Len(w) + 2
      /\ v[1] = "^" /\ v[Len(w) + 2] = "$"
      /\ \A k \in 1..Len(w) : v[k + 1] = RegexToken(w[k])
  BY RegexOfGlob
<1> HIDE DEF v
<1>2. DOMAIN w = 1..Len(w) /\ DOMAIN v = 1..Len(v)
  BY <1>1 DEF IsSequence
<1> SUFFICES ASSUME NEW k \in DOMAIN v
             PROVE  v[k] \in {"^", "$", ".*", "."} \cup ToSet(w)
  BY DEF ToSet, v
<1>3. CASE k = 1 \/ k = Len(w) + 2
  BY <1>1, <1>3
<1>4. CASE k # 1 /\ k # Len(w) + 2
  <2>1. k - 1 \in 1..Len(w) /\ v[(k - 1) + 1] = v[k]
    BY <1>1, <1>2, <1>4
  <2>2. v[k] = RegexToken(w[k - 1]) /\ w[k - 1] \in ToSet(w)
    BY <1>1, <1>2, <2>1 DEF ToSet
  <2> QED BY <2>2 DEF RegexToken
<1> QED BY <1>3, <1>4

\* A converted rule has no operator the matcher does not know, and no regular
\* expression that is not safe.
LEMMA ConvertedIsSafe ==
    ASSUME NEW d, IsDocument(d), Convertible(d), NEW k \in DOMAIN ConvertSigmaRule(d).detection
    PROVE  LET item == ConvertSigmaRule(d).detection[k]
           IN  /\ OperatorOf(item.mods) \in OPERATORS
               /\ OperatorOf(item.mods) = "re" =>
                    \A v \in item.expected : ToSet(v) \cap UnsafeTokens = {}
<1>1. PICK i \in MergedFields(d) : ConvertSigmaRule(d).detection[k] = ConvertField(i)
  BY ConvertedItems
<1>2. IsItem(i) /\ ConvertibleField(i)
  BY MergedItems
<1> DEFINE c == ConvertField(i)
           o == OperatorOf(c.mods)
<1>3. /\ o \in OPERATORS
      /\ ExplicitOperators(i) = {} =>
           o = BareOperator(i.expected) /\ c.expected = BareExpected(i.expected)
      /\ ExplicitOperators(i) # {} => ExplicitOperators(i) = {o} /\ c.expected = i.expected
  BY <1>2, ConvertedField
<1> HIDE DEF c, o
<1>4. ASSUME o = "re", NEW v \in c.expected PROVE ToSet(v) \cap UnsafeTokens = {}
  <2>1. CASE ExplicitOperators(i) # {}
    <3>1. "re" \in ExplicitOperators(i) /\ v \in i.expected
      BY <1>3, <1>4, <2>1
    <3> QED BY <1>2, <3>1 DEF ConvertibleField, IsSafeRegex
  <2>2. CASE ExplicitOperators(i) = {}
    <3>1. PICK w \in i.expected : v = GlobToRegex(w)
      BY <1>3, <1>4, <2>2 DEF BareExpected
    <3>2. IsSequence(w) /\ \A x \in ToSet(w) : IsCharacter(x)
      BY <1>2, <2>2, <3>1 DEF IsItem
    <3>3. \A x \in ToSet(v) : x \in {"^", "$", ".*", "."} \cup ToSet(w)
      BY <3>1, <3>2, RegexTokens
    <3> QED BY <3>2, <3>3, TokenAssumption DEF IsCharacter
  <2> QED BY <2>1, <2>2
<1> QED BY <1>1, <1>3, <1>4 DEF c, o
----------------------------------------------------------------------------
(* The inductive invariant.                                                  *)

\* What an open import has in hand.
OpenOK(q) ==
    /\ IsFiniteSet(q.known)
    /\ IsSequence(q.left) /\ q.left # <<>>
    /\ \A u \in ToSet(q.left) :
          IsSequence(u.documents) /\ \A d \in ToSet(u.documents) : IsDocument(d)
    /\ \A a \in q.accepted : AcceptedOK(a)

NoneOpen == \A r \in Requests : ~request[r].open

\* Every file, live rule and report comes from where it should.
Provenance ==
    /\ FilesOK(disk)
    /\ IsFiniteSet(active)
    /\ \A a \in active : a.path.dir = "imported" =>
          ImportedFile(a.path, [kind |-> "rule", rule |-> a.rule])
    /\ DOMAIN request = Requests
    /\ \A r \in Requests : request[r].open \in BOOLEAN /\ (request[r].open => OpenOK(request[r]))
    /\ \A a \in reported : AcceptedOK(a)

\* As long as no import was blind there is one at a time, it knows the id of
\* every imported file, and what was accepted is still as it was written.
NothingLost ==
    ~blind =>
        /\ \A q, r \in Requests : request[q].open /\ request[r].open => q = r
        /\ OnDisk(reported, disk)
        /\ \A r \in Requests : request[r].open =>
              AllKnown(disk, request[r].known) /\ OnDisk(request[r].accepted \cup reported, disk)
        /\ up /\ ~cut /\ NoneOpen => AllKnown(disk, KnownIds)


\* The store is what the last load made of the files.
StoreIsLoaded == up /\ ~stale /\ NoneOpen => active = LoadedRules(disk)

RuleInv == Provenance /\ NothingLost /\ StoreIsLoaded

\* What a converted rule takes from its document.
LEMMA ConvertedRule ==
    ASSUME NEW rule, NEW n, NEW d, ConvertedFrom(rule, n, d)
    PROVE  /\ rule.id = d.id /\ rule.n = n /\ rule.enabled
           /\ rule.detection = ConvertSigmaRule(d).detection
           /\ rule.condition = Joined(d)
<1> DEFINE c == ConvertSigmaRule(d)
<1>1. /\ DOMAIN c = {"id", "n", "event_id", "severity", "attack", "detection", "condition", "enabled"}
      /\ c.id = d.id /\ c.condition = Joined(d) /\ c.enabled
  BY DEF ConvertSigmaRule
<1>2. rule = [c EXCEPT !.n = n]
  BY DEF ConvertedFrom
<1> HIDE DEF c
<1>3. rule.id = c.id /\ rule.n = n /\ rule.enabled = c.enabled /\ rule.detection = c.detection
      /\ rule.condition = c.condition
  BY <1>1, <1>2
<1> QED BY <1>1, <1>3 DEF c

\* A load takes its rules from the files, and all of them unless it raises.
LEMMA LoadedFromFiles ==
    ASSUME NEW files, FilesOK(files)
    PROVE  /\ IsFiniteSet(LoadedRules(files))
           /\ \A a \in LoadedRules(files) : a.path.dir = "imported" =>
                 ImportedFile(a.path, [kind |-> "rule", rule |-> a.rule])
           /\ ~LoadRaises(files) =>
                 AllKnown(files, {[id |-> a.rule.id, n |-> a.rule.n] : a \in LoadedRules(files)})
<1> DEFINE read == {p \in PathsRead(files) : IsEnabledRule(files[p])}
           Entry(p) == [path |-> p, rule |-> files[p].rule]
           f == [p \in read |-> Entry(p)]
<1>1. read \subseteq DOMAIN files /\ IsFiniteSet(DOMAIN files)
  BY DEF PathsRead, FilesOK
<1>2. IsFiniteSet(read)
  BY <1>1, FS_Subset
<1>3. IsFiniteSet({f[p] : p \in DOMAIN f})
  BY <1>2, ImageIsFinite
<1>4. LoadedRules(files) = {f[p] : p \in DOMAIN f}
  BY DEF LoadedRules
<1>5. \A x : x \in LoadedRules(files) <=> \E p \in read : x = Entry(p)
  BY <1>4
<1>6. ASSUME NEW p \in DOMAIN files, p.dir = "imported"
      PROVE  /\ ImportedFile(p, files[p])
             /\ ImportedFile(p, [kind |-> "rule", rule |-> files[p].rule])
             /\ files[p].kind = "rule" /\ files[p].rule.enabled
             /\ files[p].rule.id = p.id /\ files[p].rule.n = p.n
  <2>1. FileOK(p, files[p])
    BY DEF FilesOK
  <2>2. p \notin Handwritten
    BY <1>6, RuleStoreAssumption
  <2>3. ImportedFile(p, files[p])
    BY <2>1, <2>2 DEF FileOK
  <2>4. PICK d, n : /\ p = [dir |-> "imported", id |-> d.id, n |-> n]
                    /\ files[p].kind = "rule" /\ ConvertedFrom(files[p].rule, n, d)
    BY <2>3 DEF ImportedFile
  <2>5. ImportedFile(p, [kind |-> "rule", rule |-> files[p].rule])
    BY <2>4 DEF ImportedFile
  <2> QED BY <2>3, <2>4, <2>5, ConvertedRule
<1> HIDE DEF read
<1>7. ASSUME NEW a \in LoadedRules(files), a.path.dir = "imported"
      PROVE  ImportedFile(a.path, [kind |-> "rule", rule |-> a.rule])
  <2>1. PICK p \in read : a = Entry(p)
    BY <1>5
  <2>2. a.path = p /\ a.rule = files[p].rule /\ p \in DOMAIN files
    BY <1>1, <2>1
  <2> QED BY <1>6, <1>7, <2>2
<1>8. ASSUME ~LoadRaises(files), NEW p \in DOMAIN files, p.dir = "imported"
      PROVE  \E a \in LoadedRules(files) :
                [id |-> p.id, n |-> p.n] = [id |-> a.rule.id, n |-> a.rule.n]
  <2>1. p \in read
    BY <1>6, <1>8 DEF read, PathsRead, LoadRaises, IsEnabledRule
  <2>2. Entry(p) \in LoadedRules(files)
    BY <1>5, <2>1
  <2>3. Entry(p).rule.id = p.id /\ Entry(p).rule.n = p.n
    BY <1>6, <1>8
  <2> QED BY <2>2, <2>3
<1>9. ~LoadRaises(files) =>
         AllKnown(files, {[id |-> a.rule.id, n |-> a.rule.n] : a \in LoadedRules(files)})
  BY <1>8 DEF AllKnown
<1> QED BY <1>3, <1>4, <1>7, <1>9

\* A hand edit leaves imported files alone.
LEMMA EditKeeps ==
    ASSUME NEW files, FilesOK(files), NEW p \in Handwritten, NEW content \in Contents
    PROVE  LET after == Written(files, p, content)
           IN  /\ FilesOK(after)
               /\ \A known : AllKnown(files, known) => AllKnown(after, known)
               /\ \A rules : (\A a \in rules : AcceptedOK(a)) /\ OnDisk(rules, files)
                                => OnDisk(rules, after)
<1> DEFINE after == Written(files, p, content)
<1>1. /\ DOMAIN after = DOMAIN files \cup {p} /\ after[p] = content
      /\ \A q \in DOMAIN files \ {p} : after[q] = files[q]
  BY DEF Written
<1> HIDE DEF after
<1>2. p.dir = "hand"
  BY RuleStoreAssumption
<1>3. FilesOK(after)
  <2>1. IsFiniteSet(DOMAIN after)
    BY <1>1, FS_AddElement DEF FilesOK
  <2> QED BY <1>1, <2>1 DEF FilesOK, FileOK
<1>4. ASSUME NEW known, AllKnown(files, known) PROVE AllKnown(after, known)
  BY <1>1, <1>2, <1>4 DEF AllKnown
<1>5. ASSUME NEW rules, \A a \in rules : AcceptedOK(a), OnDisk(rules, files)
      PROVE  OnDisk(rules, after)
  BY <1>1, <1>2, <1>5 DEF OnDisk, AcceptedOK
<1> QED BY <1>3, <1>4, <1>5 DEF after

LEMMA InitRules == Init => RuleInv
<1> SUFFICES ASSUME Init PROVE RuleInv
  OBVIOUS
<1>1. PICK present \in SUBSET Handwritten : disk \in [present -> Contents]
  BY DEF Init
<1>2. IsFiniteSet(DOMAIN disk)
  BY <1>1, RuleStoreAssumption, FS_Subset
<1>3. FilesOK(disk)
  BY <1>1, <1>2 DEF FilesOK, FileOK
<1>4. \A r \in Requests : request[r] = NoRequest
  BY DEF Init
<1>5. \A r \in Requests : request[r].open = FALSE
  BY <1>4 DEF NoRequest
<1>6. IsFiniteSet({}) /\ active = {} /\ reported = {} /\ up = FALSE /\ DOMAIN request = Requests
  BY FS_EmptySet DEF Init
<1>7. Provenance
  BY <1>3, <1>5, <1>6 DEF Provenance
<1>8. NothingLost
  BY <1>5, <1>6 DEF NothingLost, OnDisk
<1>9. StoreIsLoaded
  BY <1>6 DEF StoreIsLoaded
<1> QED BY <1>7, <1>8, <1>9 DEF RuleInv

LEMMA StartupKeeps == RuleInv /\ Startup => RuleInv'
<1> SUFFICES ASSUME RuleInv, Startup PROVE RuleInv'
  OBVIOUS
<1>1. /\ active' = LoadedRules(disk) /\ disk' = disk /\ request' = request
      /\ reported' = reported /\ blind' = blind /\ ~LoadRaises(disk) /\ ~up
  BY DEF Startup, Load
<1>2. FilesOK(disk)
  BY DEF RuleInv, Provenance
<1>3. Provenance'
  BY <1>1, <1>2, LoadedFromFiles DEF RuleInv, Provenance
<1>4. KnownIds' = {[id |-> a.rule.id, n |-> a.rule.n] : a \in LoadedRules(disk)}
  BY <1>1 DEF KnownIds
<1>5. AllKnown(disk, KnownIds')
  BY <1>1, <1>2, <1>4, LoadedFromFiles
<1>6. NothingLost'
  BY <1>1, <1>5 DEF RuleInv, NothingLost
<1>7. StoreIsLoaded'
  BY <1>1 DEF StoreIsLoaded
<1> QED BY <1>3, <1>6, <1>7 DEF RuleInv

LEMMA EditRuleFileKeeps ==
    ASSUME RuleInv, NEW p \in Handwritten, EditRuleFile(p) PROVE RuleInv'
<1>1. PICK content \in Contents : disk' = Written(disk, p, content)
  BY DEF EditRuleFile
<1>2. /\ request' = request /\ active' = active /\ reported' = reported /\ blind' = blind
      /\ up' = up /\ cut' = cut /\ stale' = TRUE
  BY DEF EditRuleFile
<1>3. /\ FilesOK(disk) /\ \A a \in reported : AcceptedOK(a)
      /\ \A r \in Requests : request[r].open => \A a \in request[r].accepted : AcceptedOK(a)
  BY DEF RuleInv, Provenance, OpenOK
<1>4. /\ FilesOK(disk')
      /\ \A known : AllKnown(disk, known) => AllKnown(disk', known)
      /\ \A rules : (\A a \in rules : AcceptedOK(a)) /\ OnDisk(rules, disk) => OnDisk(rules, disk')
  BY <1>1, <1>3, EditKeeps
<1>5. Provenance'
  BY <1>2, <1>4 DEF RuleInv, Provenance
<1>6. KnownIds' = KnownIds /\ NoneOpen' = NoneOpen
  BY <1>2 DEF KnownIds, NoneOpen
<1>7. ASSUME ~blind PROVE NothingLost'
  <2>1. OnDisk(reported, disk')
    BY <1>3, <1>4, <1>7 DEF RuleInv, NothingLost
  <2>2. ASSUME NEW r \in Requests, request[r].open
        PROVE  AllKnown(disk', request[r].known)
               /\ OnDisk(request[r].accepted \cup reported, disk')
    <3>1. \A a \in request[r].accepted \cup reported : AcceptedOK(a)
      BY <1>3, <2>2
    <3>2. AllKnown(disk, request[r].known) /\ OnDisk(request[r].accepted \cup reported, disk)
      BY <1>7, <2>2 DEF RuleInv, NothingLost
    <3> QED BY <1>4, <3>1, <3>2
  <2>3. up /\ ~cut /\ NoneOpen => AllKnown(disk', KnownIds)
    BY <1>4, <1>7 DEF RuleInv, NothingLost
  <2> QED BY <1>2, <1>6, <1>7, <2>1, <2>2, <2>3 DEF RuleInv, NothingLost
<1>8. NothingLost'
  BY <1>2, <1>7 DEF NothingLost
<1>9. StoreIsLoaded'
  BY <1>2 DEF StoreIsLoaded
<1> QED BY <1>5, <1>8, <1>9 DEF RuleInv

LEMMA BeginImportKeeps ==
    ASSUME RuleInv, NEW r \in Requests, BeginImport(r) PROVE RuleInv'
<1>1. PICK uploads \in Uploads :
         request' = [request EXCEPT ![r] =
                       [open |-> TRUE, known |-> KnownIds, left |-> uploads, accepted |-> {}]]
  BY DEF BeginImport
<1>2. /\ disk' = disk /\ up' = up /\ active' = active /\ cut' = cut /\ reported' = reported
      /\ up /\ ~request[r].open
      /\ ~blind' => ~blind /\ ~cut /\ \A q \in Requests : ~request[q].open
  BY DEF BeginImport
<1>3. /\ DOMAIN request' = Requests
      /\ request'[r] = [open |-> TRUE, known |-> KnownIds, left |-> uploads, accepted |-> {}]
      /\ \A q \in Requests \ {r} : request'[q] = request[q]
  BY <1>1 DEF RuleInv, Provenance
<1>4. IsFiniteSet(KnownIds)
  <2> DEFINE f == [a \in active |-> [id |-> a.rule.id, n |-> a.rule.n]]
  <2>1. IsFiniteSet({f[a] : a \in DOMAIN f})
    BY ImageIsFinite DEF RuleInv, Provenance
  <2> QED BY <2>1 DEF KnownIds
<1>5. OpenOK(request'[r]) /\ request'[r].open = TRUE
  BY <1>3, <1>4, UploadAssumption DEF OpenOK
<1>6. Provenance'
  BY <1>2, <1>3, <1>5 DEF RuleInv, Provenance
<1>7. ASSUME ~blind' PROVE NothingLost'
  <2>1. \A q \in Requests : ~request[q].open
    BY <1>2, <1>7
  <2>2. OnDisk(reported, disk) /\ AllKnown(disk, KnownIds)
    BY <1>2, <1>7, <2>1 DEF RuleInv, NothingLost, NoneOpen
  <2>3. \A q \in Requests : request'[q].open => q = r
    BY <1>3, <2>1
  <2>4. request'[r].known = KnownIds /\ request'[r].accepted \cup reported = reported
    BY <1>3
  <2>5. ~NoneOpen'
    BY <1>5 DEF NoneOpen
  <2> QED BY <1>2, <2>2, <2>3, <2>4, <2>5 DEF NothingLost
<1>8. NothingLost'
  BY <1>7 DEF NothingLost
<1>9. ~NoneOpen'
  BY <1>5 DEF NoneOpen
<1>10. StoreIsLoaded'
  BY <1>9 DEF StoreIsLoaded
<1> QED BY <1>6, <1>8, <1>10 DEF RuleInv

\* What ReadUpload makes of the request it serves.
StateOf(q) == [known |-> q.known, disk |-> disk, accepted |-> q.accepted]

\* The first upload that is left, and the rest.
LEMMA UploadsLeft ==
    ASSUME NEW q, OpenOK(q)
    PROVE  /\ IsSequence(Head(q.left).documents)
           /\ \A d \in ToSet(Head(q.left).documents) : IsDocument(d)
           /\ Len(q.left) > 1 =>
                 /\ IsSequence(Tail(q.left)) /\ Tail(q.left) # <<>>
                 /\ \A u \in ToSet(Tail(q.left)) :
                       IsSequence(u.documents) /\ \A d \in ToSet(u.documents) : IsDocument(d)
<1> DEFINE s == q.left
           T == ToSet(s)
<1>1. s \in Seq(T) /\ s # <<>>
  BY DEF OpenOK, IsSequence
<1>2. \A u \in T : IsSequence(u.documents) /\ \A d \in ToSet(u.documents) : IsDocument(d)
  BY DEF OpenOK
<1> HIDE DEF T
<1> HIDE DEF s
<1>3. Head(s) \in T
  BY <1>1
<1>4. Tail(s) \in Seq(T) /\ (Len(s) > 1 => Tail(s) # <<>>)
  <2>1. Tail(s) \in Seq(T) /\ Len(Tail(s)) = Len(s) - 1 /\ Len(s) \in Nat
    BY <1>1
  <2> DEFINE t == Tail(s)
  <2> HIDE DEF t
  <2>2. t = <<>> => Len(t) = 0
    OBVIOUS
  <2> QED BY <2>1, <2>2 DEF t
<1>5. ToSet(Tail(s)) \subseteq T /\ IsSequence(Tail(s))
  <2> DEFINE t == Tail(s)
  <2>1. t \in Seq(T)
    BY <1>4
  <2> HIDE DEF t
  <2>2. ToSet(t) \subseteq T /\ t \in Seq(ToSet(t))
    BY <2>1 DEF ToSet
  <2> QED BY <2>2 DEF t, IsSequence
<1> QED BY <1>2, <1>3, <1>4, <1>5 DEF s

LEMMA ReadUploadKeeps ==
    ASSUME RuleInv, NEW r \in Requests, ReadUpload(r) PROVE RuleInv'
<1> DEFINE q == request[r]
           before == StateOf(q)
           state == ImportUpload(before, Head(q.left))
<1>1. /\ q.open /\ disk' = state.disk /\ up' = up /\ blind' = blind
      /\ Len(q.left) > 1 =>
            /\ request' = [request EXCEPT ![r] =
                             [open |-> TRUE, known |-> state.known,
                              left |-> Tail(q.left), accepted |-> state.accepted]]
            /\ active' = active /\ cut' = cut /\ stale' = stale /\ reported' = reported
      /\ ~(Len(q.left) > 1) =>
            /\ Load(state.disk)
            /\ request' = [request EXCEPT ![r] = NoRequest]
            /\ reported' = IF LoadRaises(state.disk) THEN reported
                           ELSE reported \cup state.accepted
  BY DEF ReadUpload, StateOf
<1>2. /\ FilesOK(disk) /\ OpenOK(q) /\ DOMAIN request = Requests
      /\ \A a \in reported : AcceptedOK(a)
  BY <1>1 DEF RuleInv, Provenance
<1>3. before.known = q.known /\ before.disk = disk /\ before.accepted = q.accepted
  BY DEF StateOf
<1>4. ImportOK(before)
  BY <1>2, <1>3 DEF ImportOK, OpenOK
<1>5. /\ ImportOK(state)
      /\ AllKnown(before.disk, before.known) => AllKnown(state.disk, state.known)
      /\ AllKnown(before.disk, before.known) /\ OnDisk(before.accepted \cup reported, before.disk)
           => OnDisk(state.accepted \cup reported, state.disk)
  BY <1>2, <1>4, UploadKeeps, UploadsLeft
<1>6. ~blind => /\ \A p \in Requests \ {r} : ~request[p].open
                /\ AllKnown(state.disk, state.known)
                /\ OnDisk(state.accepted \cup reported, state.disk)
  BY <1>1, <1>3, <1>5 DEF RuleInv, NothingLost
<1>7. /\ Len(q.left) > 1 => /\ IsSequence(Tail(q.left)) /\ Tail(q.left) # <<>>
                            /\ \A u \in ToSet(Tail(q.left)) :
                                  /\ IsSequence(u.documents)
                                  /\ \A d \in ToSet(u.documents) : IsDocument(d)
  BY <1>2, UploadsLeft
<1> HIDE DEF state, before
<1>8. CASE Len(q.left) > 1
  <2> DEFINE next == [open |-> TRUE, known |-> state.known,
                      left |-> Tail(q.left), accepted |-> state.accepted]
  <2>1. /\ DOMAIN request' = Requests /\ request'[r] = next
        /\ \A p \in Requests \ {r} : request'[p] = request[p]
    BY <1>1, <1>2, <1>8
  <2>2. OpenOK(next)
    BY <1>5, <1>7, <1>8 DEF OpenOK, ImportOK
  <2>3. next.open = TRUE /\ next.known = state.known /\ next.accepted = state.accepted
    OBVIOUS
  <2> HIDE DEF next, q
  <2>4. Provenance'
    BY <1>1, <1>2, <1>5, <1>8, <2>1, <2>2, <2>3 DEF RuleInv, Provenance, ImportOK
  <2>5. ~NoneOpen'
    BY <2>1, <2>3 DEF NoneOpen
  <2>6. ASSUME ~blind PROVE NothingLost'
    <3>1. OnDisk(reported, disk')
      BY <1>1, <1>6, <2>6 DEF OnDisk
    <3>2. \A p \in Requests : request'[p].open => p = r
      BY <1>6, <2>1, <2>6
    <3>3. AllKnown(disk', request'[r].known)
          /\ OnDisk(request'[r].accepted \cup reported, disk')
      BY <1>1, <1>6, <2>1, <2>3, <2>6
    <3> QED BY <1>1, <1>8, <2>5, <3>1, <3>2, <3>3 DEF NothingLost
  <2>7. NothingLost'
    BY <1>1, <2>6 DEF NothingLost
  <2>8. StoreIsLoaded'
    BY <2>5 DEF StoreIsLoaded
  <2> QED BY <2>4, <2>7, <2>8 DEF RuleInv
<1>9. CASE ~(Len(q.left) > 1)
  <2>1. /\ DOMAIN request' = Requests /\ request'[r] = NoRequest
        /\ \A p \in Requests \ {r} : request'[p] = request[p]
    BY <1>1, <1>2, <1>9
  <2>2. NoRequest.open = FALSE
    BY DEF NoRequest
  <2>3. /\ active' = LoadedRules(state.disk) /\ cut' = LoadRaises(state.disk)
        /\ reported' = IF LoadRaises(state.disk) THEN reported
                       ELSE reported \cup state.accepted
    BY <1>1, <1>9 DEF Load
  <2> HIDE DEF q
  <2>4. FilesOK(state.disk) /\ \A a \in state.accepted : AcceptedOK(a)
    BY <1>5 DEF ImportOK
  <2>5. \A a \in reported' : AcceptedOK(a)
    BY <1>2, <2>3, <2>4
  <2>6. Provenance'
    BY <1>1, <2>1, <2>2, <2>3, <2>4, <2>5, LoadedFromFiles DEF RuleInv, Provenance
  <2>7. KnownIds' = {[id |-> a.rule.id, n |-> a.rule.n] : a \in LoadedRules(state.disk)}
    BY <2>3 DEF KnownIds
  <2>8. ~cut' => AllKnown(disk', KnownIds')
    BY <1>1, <2>3, <2>4, <2>7, LoadedFromFiles
  <2>9. ASSUME ~blind PROVE NothingLost'
    <3>1. \A p \in Requests : ~request'[p].open
      BY <1>6, <2>1, <2>2, <2>9
    <3>2. OnDisk(reported', disk')
      BY <1>1, <1>6, <2>3, <2>9 DEF OnDisk
    <3> QED BY <2>8, <3>1, <3>2 DEF NothingLost
  <2>10. NothingLost'
    BY <1>1, <2>9 DEF NothingLost
  <2>11. StoreIsLoaded'
    BY <1>1, <2>3 DEF StoreIsLoaded
  <2> QED BY <2>6, <2>10, <2>11 DEF RuleInv
<1> QED BY <1>8, <1>9

LEMMA RuleInvariance == Spec => []RuleInv
<1>1. RuleInv /\ UNCHANGED vars => RuleInv'
  BY DEF RuleInv, Provenance, NothingLost, StoreIsLoaded, NoneOpen, KnownIds, vars
<1>2. RuleInv /\ [Next]_vars => RuleInv'
  BY <1>1, StartupKeeps, EditRuleFileKeeps, BeginImportKeeps, ReadUploadKeeps DEF Next
<1> QED BY <1>2, InitRules, PTL DEF Spec
----------------------------------------------------------------------------
\* As long as every import knows the ids in use, an accepted rule stays on disk
\* as it was converted, whatever is imported after it (_unique_id, admin.py).
THEOREM ImportsKeepAcceptedRules == Spec => []AcceptedRulesSurvive
<1>1. RuleInv => AcceptedRulesSurvive
  BY DEF RuleInv, NothingLost, OnDisk, AcceptedRulesSurvive
<1> QED BY <1>1, RuleInvariance, PTL

\* No import brings an unsafe regular expression to the live rules: the ones a
\* document has were probed, and those made from globs are safe.
THEOREM ImportedRegexesAreSafe == Spec => []NoUnsafeRegexLive
<1>1. RuleInv => NoUnsafeRegexLive
  <2> SUFFICES ASSUME RuleInv, NEW a \in active, a.path.dir = "imported",
                      NEW k \in DOMAIN a.rule.detection,
                      OperatorOf(a.rule.detection[k].mods) = "re",
                      NEW v \in a.rule.detection[k].expected
               PROVE  ToSet(v) \cap UnsafeTokens = {}
    BY DEF NoUnsafeRegexLive
  <2>1. PICK d, n : ConvertedFrom(a.rule, n, d)
    BY DEF RuleInv, Provenance, ImportedFile
  <2>2. a.rule.detection = ConvertSigmaRule(d).detection
    BY <2>1, ConvertedRule
  <2> QED BY <2>1, <2>2, ConvertedIsSafe DEF ConvertedFrom
<1> QED BY <1>1, RuleInvariance, PTL

\* A hand-written file is sound when load() gets through it and the matcher
\* knows its operators: two errors the loader does not catch.
SoundContents ==
    \A c \in Contents :
        /\ ~AbortsLoad(c)
        /\ c.kind = "rule" =>
              \A k \in DOMAIN c.rule.detection : OperatorOf(c.rule.detection[k].mods) \in OPERATORS

\* With sound hand-written files, whatever is rejected and whatever is imported
\* beside them, each enabled rule on disk fires after a load on every event it
\* matches: no imported rule makes evaluate() raise.
THEOREM SoundFilesFire == ASSUME SoundContents PROVE Spec => []GoodRulesFire
<1>1. RuleInv => GoodRulesFire
  <2> SUFFICES ASSUME RuleInv, up, ~stale, NoneOpen,
                      NEW p \in DOMAIN disk, NEW e \in Event,
                      IsEnabledRule(disk[p]), disk[p].rule.event_id = e.event_id,
                      Matches(e, disk[p].rule)
               PROVE  disk[p].rule \in Detections(e)
    BY DEF GoodRulesFire, NoneOpen
  <2>1. ASSUME NEW q \in DOMAIN disk
        PROVE  /\ ~AbortsLoad(disk[q])
               /\ disk[q].kind = "rule" =>
                    \A k \in DOMAIN disk[q].rule.detection :
                        OperatorOf(disk[q].rule.detection[k].mods) \in OPERATORS
    <3>1. CASE disk[q] \in Contents
      BY <3>1 DEF SoundContents
    <3>2. CASE ImportedFile(q, disk[q])
      <4>1. PICK d, n : disk[q].kind = "rule" /\ ConvertedFrom(disk[q].rule, n, d)
        BY <3>2 DEF ImportedFile
      <4>2. disk[q].rule.detection = ConvertSigmaRule(d).detection
        BY <4>1, ConvertedRule
      <4> QED BY <4>1, <4>2, ConvertedIsSafe DEF ConvertedFrom, AbortsLoad
    <3> QED BY <3>1, <3>2 DEF RuleInv, Provenance, FilesOK, FileOK
  <2>2. active = LoadedRules(disk)
    BY DEF RuleInv, StoreIsLoaded
  <2>3. PathsRead(disk) = DOMAIN disk
    BY <2>1 DEF PathsRead
  <2>4. [path |-> p, rule |-> disk[p].rule] \in active
    BY <2>2, <2>3 DEF LoadedRules
  <2>5. disk[p].rule \in ForEvent(e)
    <3> DEFINE entry == [path |-> p, rule |-> disk[p].rule]
    <3>1. entry.rule = disk[p].rule
      OBVIOUS
    <3> HIDE DEF entry
    <3>2. entry \in {b \in active : b.rule.event_id = e.event_id}
      BY <2>4, <3>1 DEF entry
    <3> QED BY <3>1, <3>2, Zenon DEF ForEvent
  <2>6. ASSUME NEW rule \in ForEvent(e) PROVE ~MatchRaises(e, rule)
    <3>1. PICK q \in DOMAIN disk : disk[q].kind = "rule" /\ rule = disk[q].rule
      BY <2>2, <2>3 DEF ForEvent, LoadedRules, IsEnabledRule
    <3> QED BY <2>1, <3>1 DEF MatchRaises, RaisesAt, RaisesSyntaxError
  <2> QED BY <2>5, <2>6 DEF Detections, EvaluateRaises, Evaluate
<1> QED BY <1>1, RuleInvariance, PTL
----------------------------------------------------------------------------
(* Globs.  The cuts of a text into the pieces of a glob are what the anchored  *)
(* regular expression of the glob reaches, and for the simple shapes there is  *)
(* only one way to choose them.                                                *)

\* The character c of a glob covers the text from position p to position q.
Piece(c, t, p, q) ==
    CASE c = "*" -> p <= q
      [] c = "?" -> q = p + 1
      [] OTHER   -> q = p + 1 /\ t[q] = c

\* The positions that a piece for c leads to from those in P.
Covered(c, t, P) == {q \in 0..Len(t) : \E p \in P : Piece(c, t, p, q)}

\* A cut of t whose first k pieces are those of w.
IsCut(parts, w, t, k) ==
    /\ parts \in [0..Len(w) -> 0..Len(t)]
    /\ parts[0] = 0
    /\ \A i \in 1..k : Piece(w[i], t, parts[i - 1], parts[i])

LEMMA GlobIsCut ==
    ASSUME NEW w, IsSequence(w), NEW t
    PROVE  GlobMatches(w, t) <=> \E parts : IsCut(parts, w, t, Len(w)) /\ parts[Len(w)] = Len(t)
<1>1. DOMAIN w = 1..Len(w)
  BY DEF IsSequence
<1> QED BY <1>1, Zenon DEF GlobMatches, IsCut, Piece

\* What is no token of a regular expression, in either case.
IsLiteral(c) == c \notin {"^", "$", ".", ".*"}

\* What one token of the regex reaches is what one piece covers.
LEMMA TokenIsPiece ==
    ASSUME NEW c, IsLiteral(c), NEW t, Len(t) \in Nat, NEW P \in SUBSET (0..Len(t))
    PROVE  After(RegexToken(c), t, P) = Covered(c, t, P)
<1>1. CASE c = "*"
  <2>1. RegexToken(c) = ".*"
    BY <1>1 DEF RegexToken
  <2> QED BY <1>1, <2>1 DEF After, Piece, Covered
<1>2. CASE c = "?"
  <2>1. RegexToken(c) = "."
    BY <1>2 DEF RegexToken
  <2> QED BY <1>2, <2>1 DEF After, Piece, Covered
<1>3. CASE c # "*" /\ c # "?"
  <2>1. RegexToken(c) = c /\ c # "^" /\ c # "$" /\ c # "." /\ c # ".*"
    BY <1>3 DEF RegexToken, IsLiteral
  <2>2. After(c, t, P) = {q \in 1..Len(t) : q - 1 \in P /\ t[q] = c}
    BY <2>1 DEF After
  <2>3. \A p, q : Piece(c, t, p, q) <=> q = p + 1 /\ t[q] = c
    BY <1>3 DEF Piece
  <2> QED BY <2>1, <2>2, <2>3 DEF Covered
<1> QED BY <1>1, <1>2, <1>3

\* The run of a regular expression: the positions reached after each token.
IsReach(f, pattern, text) ==
    f = [i \in 0..Len(pattern) |->
            IF i = 0 THEN 0..Len(text) ELSE After(pattern[i], text, f[i - 1])]

LEMMA ReachRuns ==
    ASSUME NEW pattern, NEW text, Len(pattern) \in Nat
    PROVE  \E f : IsReach(f, pattern, text) /\ (ReSearch(pattern, text) <=> f[Len(pattern)] # {})
<1> DEFINE Step(g, k) == After(pattern[k], text, g[k - 1])
           Upto(g, m) == g[0] = 0..Len(text) /\ \A k \in 1..m : g[k] = Step(g, k)
           Good == {m \in Nat : \E g : Upto(g, m)}
<1>1. 0 \in Good
  <2>1. Upto([k \in {0} |-> 0..Len(text)], 0)
    OBVIOUS
  <2> QED BY <2>1
<1>2. ASSUME NEW m \in Nat, m \in Good PROVE m + 1 \in Good
  <2>1. PICK g : Upto(g, m)
    BY <1>2
  <2> DEFINE h == [k \in 0..(m + 1) |-> IF k = m + 1 THEN Step(g, m + 1) ELSE g[k]]
  <2>2. h[0] = 0..Len(text)
    BY <2>1
  <2>3. ASSUME NEW k \in 1..(m + 1) PROVE h[k] = Step(h, k)
    <3>1. h[k - 1] = g[k - 1]
      OBVIOUS
    <3>2. h[k] = Step(g, k)
      BY <2>1
    <3> QED BY <3>1, <3>2
  <2> HIDE DEF h
  <2>4. Upto(h, m + 1)
    BY <2>2, <2>3
  <2> QED BY <2>4
<1> HIDE DEF Good
<1>3. Len(pattern) \in Good
  BY <1>1, <1>2, SetInduction
<1>4. PICK g : Upto(g, Len(pattern))
  BY <1>3 DEF Good
<1> DEFINE w == [k \in 0..Len(pattern) |-> g[k]]
           Run(f) == f = [i \in 0..Len(pattern) |->
                            IF i = 0 THEN 0..Len(text) ELSE After(pattern[i], text, f[i - 1])]
<1>5. Run(w)
  <2>1. ASSUME NEW k \in 0..Len(pattern)
        PROVE  w[k] = IF k = 0 THEN 0..Len(text) ELSE Step(w, k)
    <3>1. CASE k = 0
      BY <1>4, <3>1
    <3>2. CASE k # 0
      <4>1. k - 1 \in 0..Len(pattern) /\ k \in 1..Len(pattern)
        BY <3>2
      <4>2. w[k] = g[k] /\ w[k - 1] = g[k - 1]
        BY <4>1
      <4> QED BY <1>4, <3>2, <4>1, <4>2
    <3> QED BY <3>1, <3>2
  <2> QED BY <2>1
<1> HIDE DEF w, Run
<1> DEFINE r == CHOOSE f : Run(f)
<1>6. Run(r)
  BY <1>5, Zenon
<1>7. ReSearch(pattern, text) <=> r[Len(pattern)] # {}
  BY Zenon DEF ReSearch, Run
<1> HIDE DEF r
<1> QED BY <1>6, <1>7 DEF Run, IsReach

\* The ends of the cuts of the first k pieces.
Ends(w, t, k) == {q \in 0..Len(t) : \E parts : IsCut(parts, w, t, k) /\ parts[k] = q}

LEMMA EndsStep ==
    ASSUME NEW w, NEW t, Len(w) \in Nat, Len(t) \in Nat, NEW k \in Nat, k + 1 <= Len(w)
    PROVE  Ends(w, t, k + 1) = Covered(w[k + 1], t, Ends(w, t, k))
<1> SUFFICES ASSUME NEW q \in 0..Len(t)
             PROVE  (\E parts : IsCut(parts, w, t, k + 1) /\ parts[k + 1] = q)
                      <=> \E p \in Ends(w, t, k) : Piece(w[k + 1], t, p, q)
  BY DEF Ends, Covered
<1>1. ASSUME NEW parts, IsCut(parts, w, t, k + 1), parts[k + 1] = q
      PROVE  \E p \in Ends(w, t, k) : Piece(w[k + 1], t, p, q)
  <2>1. IsCut(parts, w, t, k) /\ parts[k] \in 0..Len(t)
    BY <1>1 DEF IsCut
  <2>2. Piece(w[k + 1], t, parts[k], q)
    <3>1. k + 1 \in 1..(k + 1) /\ (k + 1) - 1 = k
      OBVIOUS
    <3>2. Piece(w[k + 1], t, parts[(k + 1) - 1], parts[k + 1])
      BY <1>1, <3>1, Zenon DEF IsCut
    <3> QED BY <1>1, <3>1, <3>2
  <2>3. parts[k] \in Ends(w, t, k)
    BY <2>1, Zenon DEF Ends
  <2> QED BY <2>2, <2>3
<1>2. ASSUME NEW p \in Ends(w, t, k), Piece(w[k + 1], t, p, q)
      PROVE  \E parts : IsCut(parts, w, t, k + 1) /\ parts[k + 1] = q
  <2>1. PICK parts : IsCut(parts, w, t, k) /\ parts[k] = p
    BY DEF Ends
  <2> DEFINE next == [parts EXCEPT ![k + 1] = q]
  <2>2. /\ next \in [0..Len(w) -> 0..Len(t)] /\ next[k + 1] = q
        /\ \A i \in 0..k : next[i] = parts[i]
    BY <2>1 DEF IsCut
  <2> HIDE DEF next
  <2>3. ASSUME NEW i \in 1..(k + 1) PROVE Piece(w[i], t, next[i - 1], next[i])
    <3>1. CASE i = k + 1
      <4>1. next[i - 1] = p /\ next[i] = q
        BY <2>1, <2>2, <3>1
      <4> QED BY <1>2, <3>1, <4>1
    <3>2. CASE i # k + 1
      <4>1. i \in 1..k /\ next[i - 1] = parts[i - 1] /\ next[i] = parts[i]
        BY <2>2, <3>2
      <4> QED BY <2>1, <4>1 DEF IsCut
    <3> QED BY <3>1, <3>2
  <2>4. next[0] = 0
    BY <2>1, <2>2 DEF IsCut
  <2>5. IsCut(next, w, t, k + 1)
    BY <2>2, <2>3, <2>4 DEF IsCut
  <2> QED BY <2>2, <2>5
<1> QED BY <1>1, <1>2

LEMMA EndsStart ==
    ASSUME NEW w, NEW t, Len(w) \in Nat, Len(t) \in Nat
    PROVE  Ends(w, t, 0) = {0}
<1> DEFINE parts == [i \in 0..Len(w) |-> 0]
<1>1. IsCut(parts, w, t, 0) /\ parts[0] = 0
  BY DEF IsCut
<1> HIDE DEF parts
<1> QED BY <1>1 DEF Ends, IsCut

\* The anchored regular expression of a glob matches what the glob matches.
LEMMA RegexIsGlob ==
    ASSUME NEW w, IsSequence(w), \A c \in ToSet(w) : IsLiteral(c), NEW t, IsSequence(t)
    PROVE  ReSearch(GlobToRegex(w), t) <=> GlobMatches(w, t)
<1> DEFINE n == Len(w)
           L == Len(t)
           v == GlobToRegex(w)
<1>1. /\ n \in Nat /\ L \in Nat /\ Len(v) = n + 2
      /\ v[1] = "^" /\ v[n + 2] = "$"
      /\ \A k \in 1..n : v[k + 1] = RegexToken(w[k]) /\ IsLiteral(w[k])
  <2>1. \A k \in 1..n : w[k] \in ToSet(w)
    BY DEF IsSequence, ToSet
  <2> QED BY <2>1, RegexOfGlob DEF IsSequence
<1> HIDE DEF v
<1>2. PICK f : IsReach(f, v, t) /\ (ReSearch(v, t) <=> f[n + 2] # {})
  <2>1. Len(v) \in Nat
    BY <1>1
  <2>2. \E f : IsReach(f, v, t) /\ (ReSearch(v, t) <=> f[Len(v)] # {})
    BY <2>1, ReachRuns, Zenon
  <2> QED BY <1>1, <2>2, Zenon
<1> DEFINE Good == {k \in Nat : k <= n => f[k + 1] = Ends(w, t, k)}
<1>3. /\ f[0] = 0..L
      /\ \A k \in 1..(n + 2) : f[k] = After(v[k], t, f[k - 1])
  <2>1. 0 \in 0..(n + 2) /\ \A k \in 1..(n + 2) : k \in 0..(n + 2) /\ k # 0
    BY <1>1
  <2>2. \A k \in 0..(n + 2) : f[k] = IF k = 0 THEN 0..L ELSE After(v[k], t, f[k - 1])
    <3>1. f = [i \in 0..(n + 2) |-> IF i = 0 THEN 0..L ELSE After(v[i], t, f[i - 1])]
      BY <1>1, <1>2, Zenon DEF IsReach
    <3> QED BY <3>1, Zenon
  <2> HIDE DEF n, L
  <2> QED BY <2>1, <2>2
<1>4. 0 \in Good
  <2>1. f[1] = After("^", t, 0..L)
    <3>1. 1 \in 1..(n + 2) /\ 1 - 1 = 0
      BY <1>1
    <3>2. f[1] = After(v[1], t, f[1 - 1])
      BY <1>3, <3>1, Zenon
    <3> QED BY <1>1, <1>3, <3>1, <3>2
  <2>2. After("^", t, 0..L) = {0}
    BY <1>1 DEF After
  <2>3. Ends(w, t, 0) = {0}
    BY <1>1, EndsStart, Zenon
  <2> HIDE DEF n, L
  <2> QED BY <2>1, <2>2, <2>3
<1>5. ASSUME NEW k \in Nat, k \in Good PROVE k + 1 \in Good
  <2> SUFFICES ASSUME k + 1 <= n PROVE f[(k + 1) + 1] = Ends(w, t, k + 1)
    OBVIOUS
  <2>1. f[k + 1] = Ends(w, t, k)
    BY <1>1, <1>5
  <2>2. k + 1 \in 1..n /\ (k + 1) + 1 \in 1..(n + 2) /\ ((k + 1) + 1) - 1 = k + 1
    BY <1>1
  <2>3. f[(k + 1) + 1] = After(v[(k + 1) + 1], t, f[((k + 1) + 1) - 1])
    BY <1>3, <2>2, Zenon
  <2>4. f[(k + 1) + 1] = After(RegexToken(w[k + 1]), t, Ends(w, t, k))
    BY <1>1, <2>1, <2>2, <2>3
  <2>5. Ends(w, t, k) \subseteq 0..L
    BY DEF Ends
  <2>6. After(RegexToken(w[k + 1]), t, Ends(w, t, k)) = Covered(w[k + 1], t, Ends(w, t, k))
    BY <1>1, <2>2, <2>5, TokenIsPiece
  <2>7. Ends(w, t, k + 1) = Covered(w[k + 1], t, Ends(w, t, k))
    BY <1>1, EndsStep
  <2> QED BY <2>4, <2>6, <2>7
<1> HIDE DEF Good
<1>6. n \in Good
  BY <1>1, <1>4, <1>5, SetInduction
<1>7. f[n + 1] = Ends(w, t, n)
  BY <1>1, <1>6 DEF Good
<1>8. f[n + 2] = After("$", t, f[n + 1])
  <2>1. n + 2 \in 1..(n + 2) /\ (n + 2) - 1 = n + 1
    BY <1>1
  <2>2. f[n + 2] = After(v[n + 2], t, f[(n + 2) - 1])
    BY <1>3, <2>1, Zenon
  <2> QED BY <1>1, <2>1, <2>2
<1>9. After("$", t, f[n + 1]) = f[n + 1] \cap {L}
  BY DEF After
<1>10. f[n + 2] # {} <=> L \in Ends(w, t, n)
  BY <1>7, <1>8, <1>9
<1>11. L \in Ends(w, t, n) <=> \E parts : IsCut(parts, w, t, n) /\ parts[n] = L
  BY <1>1 DEF Ends
<1> QED BY <1>2, <1>10, <1>11, GlobIsCut DEF v

\* c stands in t after the first k characters.
Occurs(c, t, k) == k + Len(c) <= Len(t) /\ \A i \in 1..Len(c) : t[k + i] = c[i]

LEMMA PartOfText ==
    ASSUME NEW T, NEW c \in Seq(T), NEW t \in Seq(T),
           NEW a \in Nat, NEW b \in Nat, a <= b, b <= Len(t)
    PROVE  c = SubSeq(t, a + 1, b) <=> Len(c) = b - a /\ \A i \in 1..Len(c) : t[a + i] = c[i]
<1> DEFINE s == SubSeq(t, a + 1, b)
<1>1. /\ s \in Seq(T) /\ Len(s) = b - a
      /\ \A i \in 1..(b - a) : s[i] = t[a + i]
  <2>1. \A i \in (a + 1)..b : t[i] \in T
    OBVIOUS
  <2>2. /\ s \in Seq(T)
        /\ Len(s) = IF a + 1 <= b THEN b - (a + 1) + 1 ELSE 0
        /\ \A i \in 1..(b - (a + 1) + 1) : s[i] = t[(a + 1) + i - 1]
    BY <2>1, SubSeqProperties
  <2> HIDE DEF s
  <2> QED BY <2>2
<1> HIDE DEF s
<1>2. ASSUME c = s PROVE Len(c) = b - a /\ \A i \in 1..Len(c) : t[a + i] = c[i]
  BY <1>1, <1>2
<1>3. ASSUME Len(c) = b - a, \A i \in 1..Len(c) : t[a + i] = c[i] PROVE c = s
  BY <1>1, <1>3, SeqEqual
<1>4. c = s <=> Len(c) = b - a /\ \A i \in 1..Len(c) : t[a + i] = c[i]
  BY <1>2, <1>3
<1> QED BY <1>4 DEF s

\* The operators of the matcher, and the modifiers of Sigma, by where a text occurs.
LEMMA Occurrences ==
    ASSUME NEW c, IsSequence(c), NEW t, IsSequence(t)
    PROVE  /\ t = c <=> Occurs(c, t, 0) /\ Len(c) = Len(t)
           /\ IsPrefix(c, t) <=> Occurs(c, t, 0)
           /\ c \in Prefixes(t) <=> Occurs(c, t, 0)
           /\ IsSuffix(c, t) <=> Len(c) <= Len(t) /\ Occurs(c, t, Len(t) - Len(c))
           /\ c \in Suffixes(t) <=> Len(c) <= Len(t) /\ Occurs(c, t, Len(t) - Len(c))
           /\ c \in SubSeqs(t) <=> \E k \in 0..Len(t) : Occurs(c, t, k)
<1> DEFINE T == ToSet(c) \cup ToSet(t)
           m == Len(c)
           L == Len(t)
<1>1. c \in Seq(T) /\ t \in Seq(T) /\ m \in Nat /\ L \in Nat
  BY DEF IsSequence
<1> HIDE DEF T
<1>2. \A a, b \in Nat : a <= b /\ b <= L =>
         (c = SubSeq(t, a + 1, b) <=> m = b - a /\ \A i \in 1..m : t[a + i] = c[i])
  BY <1>1, PartOfText
<1>3. t = c <=> Occurs(c, t, 0) /\ m = L
  BY <1>1, SeqEqual DEF Occurs
<1>4. c \in Prefixes(t) <=> Occurs(c, t, 0)
  <2>1. c \in Prefixes(t) <=> \E l \in 0..L : c = SubSeq(t, 1, l)
    BY DEF Prefixes
  <2>2. \A l \in 0..L : c = SubSeq(t, 0 + 1, l) <=> m = l /\ \A i \in 1..m : t[0 + i] = c[i]
    BY <1>1, <1>2
  <2> HIDE DEF m, L
  <2>3. \A l \in 0..L : c = SubSeq(t, 1, l) <=> m = l /\ \A i \in 1..m : t[i] = c[i]
    BY <2>2
  <2>4. Occurs(c, t, 0) <=> m <= L /\ \A i \in 1..m : t[i] = c[i]
    BY <1>1 DEF Occurs, m, L
  <2> QED BY <1>1, <2>1, <2>3, <2>4
<1>5. IsPrefix(c, t) <=> Occurs(c, t, 0)
  <2>1. c = SubSeq(c, 1, m)
    BY <1>1
  <2>2. IsPrefix(c, t) <=> m <= L /\ c = SubSeq(t, 1, m)
    BY <2>1, Zenon DEF IsPrefix
  <2>3. m <= L => (c = SubSeq(t, 0 + 1, m) <=> m = m - 0 /\ \A i \in 1..m : t[0 + i] = c[i])
    BY <1>1, <1>2
  <2> HIDE DEF m, L
  <2>4. m <= L => (c = SubSeq(t, 1, m) <=> \A i \in 1..m : t[i] = c[i])
    BY <1>1, <2>3
  <2>5. Occurs(c, t, 0) <=> m <= L /\ \A i \in 1..m : t[i] = c[i]
    BY <1>1 DEF Occurs, m, L
  <2> QED BY <2>2, <2>4, <2>5
<1>6. c \in Suffixes(t) <=> m <= L /\ Occurs(c, t, L - m)
  <2>1. c \in Suffixes(t) <=> c = <<>> \/ \E l \in 1..L : c = SubSeq(t, l, L)
    BY DEF Suffixes
  <2>2. ASSUME NEW l \in 1..L
        PROVE  c = SubSeq(t, l, L) <=> m = L - (l - 1) /\ \A i \in 1..m : t[(l - 1) + i] = c[i]
    <3>1. l - 1 \in Nat /\ L \in Nat /\ l - 1 <= L /\ L <= L /\ (l - 1) + 1 = l
      BY <1>1
    <3>2. c = SubSeq(t, (l - 1) + 1, L)
            <=> m = L - (l - 1) /\ \A i \in 1..m : t[(l - 1) + i] = c[i]
      BY <1>2, <3>1, Zenon
    <3> QED BY <3>1, <3>2, Zenon
  <2>3. c = <<>> <=> m = 0
    BY <1>1
  <2>4. Occurs(c, t, L - m) <=> \A i \in 1..m : t[(L - m) + i] = c[i]
    BY <1>1 DEF Occurs
  <2> HIDE DEF m, L
  <2>5. CASE m = 0
    BY <1>1, <2>1, <2>3, <2>4, <2>5
  <2>6. CASE m # 0 /\ m <= L
    <3>1. L - m + 1 \in 1..L /\ (L - m + 1) - 1 = L - m /\ L - (L - m) = m
      BY <1>1, <2>6
    <3>2. c = SubSeq(t, L - m + 1, L) <=> \A i \in 1..m : t[(L - m) + i] = c[i]
      BY <2>2, <3>1
    <3>3. \A l \in 1..L : c = SubSeq(t, l, L) => l = L - m + 1
      BY <1>1, <2>2
    <3> QED BY <2>1, <2>3, <2>4, <2>6, <3>1, <3>2, <3>3
  <2>7. CASE m # 0 /\ ~(m <= L)
    <3>1. \A l \in 1..L : ~(c = SubSeq(t, l, L))
      BY <1>1, <2>2, <2>7
    <3> QED BY <2>1, <2>3, <2>7, <3>1
  <2> QED BY <2>5, <2>6, <2>7
<1>7. IsSuffix(c, t) <=> m <= L /\ Occurs(c, t, L - m)
  <2> DEFINE rc == Reverse(c)
             rt == Reverse(t)
  <2>1. /\ rc \in Seq(T) /\ Len(rc) = m /\ \A i \in 1..m : rc[i] = c[(m - i) + 1]
        /\ rt \in Seq(T) /\ Len(rt) = L /\ \A i \in 1..L : rt[i] = t[(L - i) + 1]
    BY <1>1 DEF Reverse
  <2> HIDE DEF rc, rt
  <2>2. rc = SubSeq(rc, 1, m)
    BY <1>1, <2>1
  <2>3. IsSuffix(c, t) <=> m <= L /\ rc = SubSeq(rt, 1, m)
    BY <2>1, <2>2, Zenon DEF IsSuffix, IsPrefix, rc, rt
  <2>4. m <= L => (rc = SubSeq(rt, 0 + 1, m)
                     <=> Len(rc) = m - 0 /\ \A i \in 1..Len(rc) : rt[0 + i] = rc[i])
    BY <1>1, <2>1, PartOfText
  <2>5. Occurs(c, t, L - m) <=> \A i \in 1..m : t[(L - m) + i] = c[i]
    BY <1>1 DEF Occurs
  <2> HIDE DEF m, L
  <2>6. m <= L => (rc = SubSeq(rt, 1, m) <=> \A i \in 1..m : t[(L - i) + 1] = c[(m - i) + 1])
    <3> DEFINE part == SubSeq(rt, 1, m)
    <3>1. m <= L => (rc = part <=> \A i \in 1..m : rt[i] = rc[i])
      BY <1>1, <2>1, <2>4
    <3> HIDE DEF part
    <3>2. m <= L => \A i \in 1..m : rt[i] = t[(L - i) + 1] /\ rc[i] = c[(m - i) + 1]
      BY <1>1, <2>1
    <3>3. m <= L => (rc = part <=> \A i \in 1..m : t[(L - i) + 1] = c[(m - i) + 1])
      BY <3>1, <3>2
    <3> QED BY <3>3 DEF part
  <2>7. ASSUME m <= L, \A i \in 1..m : t[(L - i) + 1] = c[(m - i) + 1], NEW i \in 1..m
        PROVE  t[(L - m) + i] = c[i]
    <3>1. (m - i) + 1 \in 1..m /\ (L - ((m - i) + 1)) + 1 = (L - m) + i
          /\ (m - ((m - i) + 1)) + 1 = i
      BY <1>1
    <3>2. t[(L - ((m - i) + 1)) + 1] = c[(m - ((m - i) + 1)) + 1]
      BY <2>7, <3>1, Zenon
    <3> QED BY <3>1, <3>2
  <2>8. ASSUME m <= L, \A i \in 1..m : t[(L - m) + i] = c[i], NEW i \in 1..m
        PROVE  t[(L - i) + 1] = c[(m - i) + 1]
    <3>1. (m - i) + 1 \in 1..m /\ (L - m) + ((m - i) + 1) = (L - i) + 1
      BY <1>1
    <3>2. t[(L - m) + ((m - i) + 1)] = c[(m - i) + 1]
      BY <2>8, <3>1, Zenon
    <3> QED BY <3>1, <3>2
  <2> QED BY <2>3, <2>5, <2>6, <2>7, <2>8
<1>8. c \in SubSeqs(t) <=> \E k \in 0..L : Occurs(c, t, k)
  <2>1. c \in SubSeqs(t) <=> \E i, j \in 0..L : c = SubSeq(t, i + 1, j)
    BY DEF SubSeqs
  <2>2. \A k \in 0..L : Occurs(c, t, k) <=> k + m <= L /\ \A i \in 1..m : t[k + i] = c[i]
    BY DEF Occurs
  <2>3. ASSUME NEW i \in 0..L, NEW j \in 0..L, c = SubSeq(t, i + 1, j)
        PROVE  \E k \in 0..L : Occurs(c, t, k)
    <3>1. CASE i <= j
      <4>1. m = j - i /\ \A l \in 1..m : t[i + l] = c[l]
        BY <1>1, <1>2, <2>3, <3>1
      <4>2. i + m <= L
        BY <1>1, <3>1, <4>1
      <4> QED BY <2>2, <4>1, <4>2
    <3>2. CASE ~(i <= j)
      <4>1. c = <<>>
        BY <1>1, <2>3, <3>2, SubSeqEmpty
      <4>2. m = 0
        BY <4>1
      <4> QED BY <1>1, <2>2, <4>2
    <3> QED BY <3>1, <3>2
  <2>4. ASSUME NEW k \in 0..L, Occurs(c, t, k)
        PROVE  \E i, j \in 0..L : c = SubSeq(t, i + 1, j)
    <3>1. k + m \in 0..L /\ k <= k + m /\ (k + m) - k = m
          /\ \A i \in 1..m : t[k + i] = c[i]
      BY <1>1, <2>2, <2>4
    <3>2. c = SubSeq(t, k + 1, k + m)
      BY <1>1, <1>2, <3>1
    <3> QED BY <3>1, <3>2
  <2> QED BY <2>1, <2>3, <2>4
<1> QED BY <1>3, <1>4, <1>5, <1>6, <1>7, <1>8

\* w is the core c with `lead` stars before it and `trail` after it.
Starred(w, c, lead, trail) ==
    /\ lead \in {0, 1} /\ trail \in {0, 1}
    /\ IsSequence(c) /\ Len(w) = lead + Len(c) + trail
    /\ lead = 1 => w[1] = "*"
    /\ trail = 1 => w[Len(w)] = "*"
    /\ \A i \in 1..Len(c) : c[i] = w[lead + i] /\ c[i] \notin {"*", "?"}

Placed(c, t, lead, trail) ==
    \E k \in 0..Len(t) : /\ Occurs(c, t, k)
                         /\ lead = 0 => k = 0
                         /\ trail = 0 => k + Len(c) = Len(t)

\* Such a glob has one cut for each place where the core occurs.
LEMMA StarredGlob ==
    ASSUME NEW w, IsSequence(w), NEW t, IsSequence(t),
           NEW c, NEW lead, NEW trail, Starred(w, c, lead, trail)
    PROVE  GlobMatches(w, t) <=> Placed(c, t, lead, trail)
<1> DEFINE n == Len(w)
           m == Len(c)
           L == Len(t)
<1>1. /\ m \in Nat /\ L \in Nat /\ n = lead + m + trail /\ n \in Nat
      /\ lead \in {0, 1} /\ trail \in {0, 1} /\ lead \in Nat /\ trail \in Nat
  BY DEF IsSequence, Starred
<1>0. /\ lead = 1 => w[1] = "*"
      /\ trail = 1 => w[n] = "*"
      /\ \A i \in 1..m : c[i] = w[lead + i] /\ c[i] \notin {"*", "?"}
  BY DEF Starred
<1>2. ASSUME NEW parts, IsCut(parts, w, t, n), parts[n] = L
      PROVE  \E k \in 0..L : /\ Occurs(c, t, k)
                             /\ lead = 0 => k = 0
                             /\ trail = 0 => k + m = L
  <2> DEFINE k == parts[lead]
             Good == {j \in Nat : j <= m => parts[lead + j] = k + j}
  <2>1. /\ \A i \in 0..n : parts[i] \in 0..L
        /\ parts[0] = 0 /\ \A i \in 1..n : Piece(w[i], t, parts[i - 1], parts[i])
    BY <1>2 DEF IsCut
  <2>2. k \in 0..L /\ (lead = 0 => k = 0)
    BY <1>1, <2>1
  <2>3. ASSUME NEW j \in 1..m
        PROVE  parts[lead + j] = parts[lead + (j - 1)] + 1 /\ t[parts[lead + j]] = c[j]
    <3>1. lead + j \in 1..n /\ (lead + j) - 1 = lead + (j - 1)
      BY <1>1
    <3>2. Piece(w[lead + j], t, parts[(lead + j) - 1], parts[lead + j])
      BY <2>1, <3>1, Zenon
    <3>3. Piece(c[j], t, parts[lead + (j - 1)], parts[lead + j]) /\ c[j] \notin {"*", "?"}
      BY <1>0, <3>1, <3>2
    <3> QED BY <3>3 DEF Piece
  <2> HIDE DEF m, n, L
  <2>4. 0 \in Good
    BY <1>1, <2>2
  <2>5. ASSUME NEW j \in Nat, j \in Good PROVE j + 1 \in Good
    <3> SUFFICES ASSUME j + 1 <= m PROVE parts[lead + (j + 1)] = k + (j + 1)
      OBVIOUS
    <3>1. j + 1 \in 1..m /\ (j + 1) - 1 = j
      BY <1>1
    <3>2. parts[lead + (j + 1)] = parts[lead + ((j + 1) - 1)] + 1
      BY <2>3, <3>1, Zenon
    <3>3. parts[lead + j] = k + j
      BY <1>1, <2>5
    <3> QED BY <2>2, <3>1, <3>2, <3>3
  <2> HIDE DEF Good
  <2>6. Nat \subseteq Good
    BY <2>4, <2>5, SetInduction
  <2>7. \A j \in 0..m : parts[lead + j] = k + j
    BY <1>1, <2>6 DEF Good
  <2> HIDE DEF k
  <2>8. \A j \in 1..m : t[k + j] = c[j]
    BY <1>1, <2>3, <2>7
  <2>9. k + m <= L
    <3>1. m \in 0..m /\ lead + m \in 0..n
      BY <1>1
    <3>2. parts[lead + m] = k + m /\ parts[lead + m] \in 0..L
      BY <2>1, <2>7, <3>1
    <3> QED BY <1>1, <2>2, <3>2
  <2>10. trail = 0 => k + m = L
    BY <1>1, <1>2, <2>7
  <2>11. Occurs(c, t, k)
    BY <2>8, <2>9 DEF Occurs, m, L
  <2> QED BY <2>2, <2>10, <2>11
<1>3. ASSUME NEW k \in 0..L, Occurs(c, t, k), lead = 0 => k = 0, trail = 0 => k + m = L
      PROVE  \E parts : IsCut(parts, w, t, n) /\ parts[n] = L
  <2> DEFINE parts == [i \in 0..n |-> IF i < lead THEN 0
                                    ELSE IF i <= lead + m THEN k + (i - lead) ELSE L]
  <2>1. k + m <= L /\ \A i \in 1..m : t[k + i] = c[i]
    BY <1>3 DEF Occurs
  <2> HIDE DEF m, n, L
  <2>2. parts \in [0..n -> 0..L] /\ parts[0] = 0 /\ parts[n] = L
    BY <1>1, <1>3, <2>1
  <2>3. ASSUME NEW i \in 1..n PROVE Piece(w[i], t, parts[i - 1], parts[i])
    <3>1. CASE i \in (lead + 1)..(lead + m)
      <4>1. /\ parts[i - 1] = k + (i - lead - 1) /\ parts[i] = k + (i - lead)
        BY <1>1, <1>3, <3>1
      <4>2. i - lead \in 1..m /\ lead + (i - lead) = i
        BY <1>1, <3>1
      <4>3. /\ c[i - lead] = w[lead + (i - lead)] /\ c[i - lead] \notin {"*", "?"}
            /\ t[k + (i - lead)] = c[i - lead]
        BY <1>0, <2>1, <4>2, Zenon
      <4>4. w[i] \notin {"*", "?"} /\ t[parts[i]] = w[i]
        BY <4>1, <4>2, <4>3
      <4>5. parts[i] = parts[i - 1] + 1
        BY <1>1, <1>3, <4>1
      <4> HIDE DEF parts
      <4> QED BY <4>4, <4>5 DEF Piece
    <3>2. CASE i \notin (lead + 1)..(lead + m)
      <4>1. w[i] = "*"
        <5>1. (i = 1 /\ lead = 1) \/ (i = n /\ trail = 1)
          BY <1>1, <3>2
        <5> QED BY <1>0, <5>1
      <4>2. parts[i - 1] <= parts[i]
        BY <1>1, <1>3, <2>1, <3>2
      <4> HIDE DEF parts
      <4> QED BY <4>1, <4>2 DEF Piece
    <3> QED BY <3>1, <3>2
  <2> HIDE DEF parts
  <2>4. IsCut(parts, w, t, n)
    BY <2>2, <2>3 DEF IsCut, n, L
  <2> QED BY <2>2, <2>4
<1> QED BY <1>2, <1>3, GlobIsCut DEF Placed

\* What the simple shapes look like.
LEMMA ShapeMeans ==
    ASSUME NEW w, IsSequence(w)
    PROVE  LET n == Len(w)
               Stars == {i \in 1..n : w[i] = "*"}
               o == Shape(w)
           IN  /\ o \in OPERATORS
               /\ o # "re" => \A i \in 1..n : w[i] # "?"
               /\ o = "equals" => Stars = {}
               /\ o = "endswith" => Stars = {1} /\ n > 1
               /\ o = "startswith" => Stars = {n} /\ n > 1
               /\ o = "contains" => Stars = {1, n} /\ n > 1
<1> DEFINE stars == {i \in DOMAIN w : w[i] = "*"}
           mark == "?" \in ToSet(w)
           n == Len(w)
           o == Shape(w)
<1>1. DOMAIN w = 1..n /\ n \in Nat
  BY DEF IsSequence
<1>2. o = CASE mark -> "re"
            [] ~mark /\ stars = {} -> "equals"
            [] ~mark /\ stars = {1} /\ n > 1 -> "endswith"
            [] ~mark /\ stars = {n} /\ n > 1 -> "startswith"
            [] ~mark /\ stars = {1, n} /\ n > 1 -> "contains"
            [] OTHER -> "re"
  BY Zenon DEF Shape
<1>3. stars = {i \in 1..n : w[i] = "*"}
  BY <1>1
<1>4. ~mark => \A i \in 1..n : w[i] # "?"
  BY <1>1 DEF ToSet
<1> HIDE DEF stars, mark, n, o
<1>5. /\ o \in OPERATORS
      /\ o # "re" => ~mark
      /\ o = "equals" => stars = {}
      /\ o = "endswith" => stars = {1} /\ n > 1
      /\ o = "startswith" => stars = {n} /\ n > 1
      /\ o = "contains" => stars = {1, n} /\ n > 1
  BY <1>2 DEF OPERATORS
<1> QED BY <1>3, <1>4, <1>5 DEF o, n

LEMMA CoreIs ==
    ASSUME NEW w, IsSequence(w), Shape(w) # "re"
    PROVE  LET o == Shape(w)
               c == Core(w)
               lead == IF o \in {"endswith", "contains"} THEN 1 ELSE 0
               trail == IF o \in {"startswith", "contains"} THEN 1 ELSE 0
           IN  Starred(w, c, lead, trail)
<1> DEFINE o == Shape(w)
           c == Core(w)
           lead == IF o \in {"endswith", "contains"} THEN 1 ELSE 0
           trail == IF o \in {"startswith", "contains"} THEN 1 ELSE 0
           n == Len(w)
           T == ToSet(w)
<1>1. w \in Seq(T) /\ n \in Nat
  BY DEF IsSequence
<1>2. /\ o \in OPERATORS /\ \A i \in 1..n : w[i] # "?"
      /\ o = "equals" => {i \in 1..n : w[i] = "*"} = {}
      /\ o = "endswith" => {i \in 1..n : w[i] = "*"} = {1} /\ n > 1
      /\ o = "startswith" => {i \in 1..n : w[i] = "*"} = {n} /\ n > 1
      /\ o = "contains" => {i \in 1..n : w[i] = "*"} = {1, n} /\ n > 1
  BY ShapeMeans
<1>3. c = CASE o = "endswith" -> Tail(w)
            [] o = "startswith" -> SubSeq(w, 1, n - 1)
            [] o = "contains" -> SubSeq(Tail(w), 1, Len(Tail(w)) - 1)
            [] OTHER -> w
  BY Zenon DEF Core, Front
<1> HIDE DEF T, c, o
<1>4. /\ n > 1 => /\ Tail(w) \in Seq(T) /\ Len(Tail(w)) = n - 1
                  /\ \A i \in 1..(n - 1) : Tail(w)[i] = w[1 + i]
  BY <1>1
<1>5. o \in {"equals", "endswith", "startswith", "contains"}
  BY <1>2 DEF OPERATORS, o
<1>6. c \in Seq(T) /\ n = lead + Len(c) + trail /\ \A i \in 1..Len(c) : c[i] = w[lead + i]
  <2>1. CASE o = "equals"
    BY <1>1, <1>3, <2>1
  <2>2. CASE o = "endswith"
    BY <1>1, <1>2, <1>3, <1>4, <2>2
  <2>3. CASE o = "startswith"
    <3>1. c = SubSeq(w, 1, n - 1) /\ n > 1
      BY <1>2, <1>3, <2>3
    <3>2. c \in Seq(T) /\ Len(c) = n - 1 /\ \A i \in 1..(n - 1) : c[i] = w[i]
      BY <1>1, <3>1
    <3> QED BY <1>1, <2>3, <3>2
  <2>4. CASE o = "contains"
    <3> DEFINE tail == Tail(w)
    <3>1. c = SubSeq(tail, 1, Len(tail) - 1) /\ n > 1
      BY <1>2, <1>3, <2>4
    <3>2. tail \in Seq(T) /\ Len(tail) = n - 1 /\ \A i \in 1..(n - 1) : tail[i] = w[1 + i]
      BY <1>4, <3>1
    <3> HIDE DEF tail
    <3>3. c \in Seq(T) /\ Len(c) = n - 2 /\ \A i \in 1..(n - 2) : c[i] = tail[i]
      BY <1>1, <3>1, <3>2
    <3> QED BY <1>1, <2>4, <3>1, <3>2, <3>3
  <2> QED BY <1>5, <2>1, <2>2, <2>3, <2>4
<1>7. \A i \in 1..Len(c) : c[i] \notin {"*", "?"}
  <2> SUFFICES ASSUME NEW i \in 1..Len(c) PROVE w[lead + i] \notin {"*", "?"}
    BY <1>6
  <2>1. /\ lead + i \in 1..n
        /\ o = "endswith" => lead + i # 1
        /\ o = "startswith" => lead + i # n
        /\ o = "contains" => lead + i # 1 /\ lead + i # n
    <3>1. Len(c) \in Nat
      BY <1>6
    <3>2. n = lead + Len(c) + trail /\ n \in Nat
      BY <1>1, <1>6
    <3>3. /\ lead \in {0, 1} /\ trail \in {0, 1}
          /\ o = "endswith" => lead = 1
          /\ o = "startswith" => trail = 1
          /\ o = "contains" => lead = 1 /\ trail = 1
      OBVIOUS
    <3> HIDE DEF n, lead, trail
    <3> QED BY <3>1, <3>2, <3>3
  <2> HIDE DEF lead, n
  <2> QED BY <1>2, <1>5, <2>1
<1>8. (lead = 1 => w[1] = "*") /\ (trail = 1 => w[n] = "*")
  <2>1. lead = 1 => o = "endswith" \/ o = "contains"
    OBVIOUS
  <2>2. trail = 1 => o = "startswith" \/ o = "contains"
    OBVIOUS
  <2> HIDE DEF lead, trail, n
  <2> QED BY <1>2, <2>1, <2>2
<1>9. IsSequence(c)
  BY <1>6 DEF IsSequence, ToSet
<1>10. lead \in {0, 1} /\ trail \in {0, 1}
  OBVIOUS
<1> QED BY <1>6, <1>7, <1>8, <1>9, <1>10 DEF o, c, Starred

\* A glob of a simple shape means its operator, on what the stars leave.
LEMMA SimpleGlob ==
    ASSUME NEW w, IsSequence(w), Shape(w) # "re", NEW t, IsSequence(t)
    PROVE  Satisfies(Shape(w), t, Core(w)) <=> GlobMatches(w, t)
<1> DEFINE o == Shape(w)
           c == Core(w)
           lead == IF o \in {"endswith", "contains"} THEN 1 ELSE 0
           trail == IF o \in {"startswith", "contains"} THEN 1 ELSE 0
           Glob == Placed(c, t, lead, trail)
<1>1. Starred(w, c, lead, trail) /\ IsSequence(c)
  BY CoreIs DEF Starred
<1>2. o \in {"equals", "endswith", "startswith", "contains"}
  BY ShapeMeans DEF OPERATORS
<1> HIDE DEF o, c
<1>3. GlobMatches(w, t) <=> Glob
  <2> HIDE DEF lead, trail
  <2> QED BY <1>1, StarredGlob, Zenon
<1>4. /\ t = c <=> Occurs(c, t, 0) /\ Len(c) = Len(t)
      /\ IsPrefix(c, t) <=> Occurs(c, t, 0)
      /\ IsSuffix(c, t) <=> Len(c) <= Len(t) /\ Occurs(c, t, Len(t) - Len(c))
      /\ c \in SubSeqs(t) <=> \E k \in 0..Len(t) : Occurs(c, t, k)
  BY <1>1, Occurrences
<1>5. Len(c) \in Nat /\ Len(t) \in Nat
  BY <1>1 DEF IsSequence
<1>6. CASE o = "equals"
  <2>1. Satisfies(o, t, c) <=> t = c
    BY <1>6 DEF Satisfies
  <2>2. Glob <=> Occurs(c, t, 0) /\ Len(c) = Len(t)
    BY <1>5, <1>6 DEF Placed
  <2> QED BY <1>3, <1>4, <2>1, <2>2 DEF o, c
<1>7. CASE o = "startswith"
  <2>1. Satisfies(o, t, c) <=> IsPrefix(c, t)
    BY <1>7 DEF Satisfies
  <2>2. Glob <=> Occurs(c, t, 0)
    BY <1>5, <1>7 DEF Placed
  <2> QED BY <1>3, <1>4, <2>1, <2>2 DEF o, c
<1>8. CASE o = "endswith"
  <2>1. Satisfies(o, t, c) <=> IsSuffix(c, t)
    BY <1>8 DEF Satisfies
  <2>2. Glob <=> \E k \in 0..Len(t) : Occurs(c, t, k) /\ k + Len(c) = Len(t)
    BY <1>8 DEF Placed
  <2>3. Glob <=> Len(c) <= Len(t) /\ Occurs(c, t, Len(t) - Len(c))
    <3> HIDE DEF Glob
    <3>1. ASSUME NEW k \in 0..Len(t), k + Len(c) = Len(t) PROVE k = Len(t) - Len(c)
      BY <1>5, <3>1
    <3>2. Len(c) <= Len(t) => Len(t) - Len(c) \in 0..Len(t)
                              /\ (Len(t) - Len(c)) + Len(c) = Len(t)
      BY <1>5
    <3>3. ASSUME NEW k \in 0..Len(t), k + Len(c) = Len(t) PROVE Len(c) <= Len(t)
      BY <1>5, <3>3
    <3> QED BY <2>2, <3>1, <3>2, <3>3
  <2> QED BY <1>3, <1>4, <2>1, <2>3 DEF o, c
<1>9. CASE o = "contains"
  <2>1. Satisfies(o, t, c) <=> c \in SubSeqs(t)
    BY <1>9 DEF Satisfies
  <2>2. Glob <=> \E k \in 0..Len(t) : Occurs(c, t, k)
    BY <1>9 DEF Placed
  <2> QED BY <1>3, <1>4, <2>1, <2>2 DEF o, c
<1> QED BY <1>2, <1>6, <1>7, <1>8, <1>9

\* A value with an operator of its own means what the matcher makes of it.
LEMMA ExplicitValue ==
    ASSUME NEW i, NEW o \in OperatorModifiers, ExplicitOperators(i) = {o},
           NEW v, IsSequence(v), NEW t, IsSequence(t)
    PROVE  Satisfies(o, t, v) <=> ValueHolds(i, v, t)
<1>1. /\ IsPrefix(v, t) <=> v \in Prefixes(t)
      /\ IsSuffix(v, t) <=> v \in Suffixes(t)
  BY Occurrences
<1>2. CASE o = "contains"
  BY <1>2 DEF Satisfies, ValueHolds
<1>3. CASE o = "startswith"
  <2>1. ValueHolds(i, v, t) <=> v \in Prefixes(t)
    BY <1>3 DEF ValueHolds
  <2>2. Satisfies(o, t, v) <=> IsPrefix(v, t)
    BY <1>3 DEF Satisfies
  <2> QED BY <1>1, <2>1, <2>2
<1>4. CASE o = "endswith"
  <2>1. ValueHolds(i, v, t) <=> v \in Suffixes(t)
    BY <1>4 DEF ValueHolds
  <2>2. Satisfies(o, t, v) <=> IsSuffix(v, t)
    BY <1>4 DEF Satisfies
  <2> QED BY <1>1, <2>1, <2>2
<1>5. CASE o = "re"
  <2>1. ValueHolds(i, v, t) <=> ReSearch(v, t)
    BY <1>5 DEF ValueHolds
  <2>2. Satisfies(o, t, v) <=> ReSearch(v, t)
    BY <1>5 DEF Satisfies
  <2> QED BY <2>1, <2>2
<1> QED BY <1>2, <1>3, <1>4, <1>5 DEF OperatorModifiers

----------------------------------------------------------------------------
(* Case.  The matcher lowers both sides, and the conversion of a value and its  *)
(* lowering can be done in either order.                                        *)

LEMMA LowerKeeps ==
    ASSUME NEW token \in {"*", "?", "^", "$", ".", ".*"}, NEW c
    PROVE  Lower(c) = token <=> c = token
<1>1. token \notin DOMAIN LowerCase /\ \A x \in DOMAIN LowerCase : LowerCase[x] # token
  BY LetterAssumption
<1>2. CASE c \in DOMAIN LowerCase
  BY <1>1, <1>2 DEF Lower
<1>3. CASE c \notin DOMAIN LowerCase
  BY <1>3 DEF Lower
<1> QED BY <1>2, <1>3

LEMMA LoweredText ==
    ASSUME NEW w, IsSequence(w)
    PROVE  /\ IsSequence(Lowered(w)) /\ Len(w) \in Nat /\ Len(Lowered(w)) = Len(w)
           /\ \A k \in 1..Len(w) : Lowered(w)[k] = Lower(w[k])
<1> DEFINE v == Lowered(w)
           T == {Lower(c) : c \in ToSet(w)}
<1>1. DOMAIN w = 1..Len(w) /\ Len(w) \in Nat
  BY DEF IsSequence
<1>2. v = [k \in 1..Len(w) |-> Lower(w[k])]
  BY <1>1, Zenon DEF Lowered
<1>3. \A k \in 1..Len(w) : Lower(w[k]) \in T
  BY <1>1 DEF ToSet
<1> HIDE DEF T, v
<1>4. v \in Seq(T) /\ Len(v) = Len(w) /\ \A k \in 1..Len(w) : v[k] = Lower(w[k])
  BY <1>1, <1>2, <1>3
<1>5. IsSequence(v)
  BY <1>4 DEF IsSequence, ToSet
<1> QED BY <1>1, <1>4, <1>5 DEF v

\* Sequences with the same elements are one.
LEMMA SameElements ==
    ASSUME NEW v, IsSequence(v), NEW w, IsSequence(w), Len(v) = Len(w),
           \A k \in 1..Len(w) : v[k] = w[k]
    PROVE  v = w
<1> DEFINE T == ToSet(v) \cup ToSet(w)
<1>1. v \in Seq(T) /\ w \in Seq(T)
  BY DEF IsSequence
<1> HIDE DEF T
<1> QED BY <1>1, SeqEqual

LEMMA LoweredShape ==
    ASSUME NEW w, IsSequence(w)
    PROVE  Shape(Lowered(w)) = Shape(w)
<1> DEFINE v == Lowered(w)
           Stars(u) == {k \in DOMAIN u : u[k] = "*"}
           Kind(mark, stars, n) ==
               CASE mark -> "re"
                 [] ~mark /\ stars = {} -> "equals"
                 [] ~mark /\ stars = {1} /\ n > 1 -> "endswith"
                 [] ~mark /\ stars = {n} /\ n > 1 -> "startswith"
                 [] ~mark /\ stars = {1, n} /\ n > 1 -> "contains"
                 [] OTHER -> "re"
<1>1. \A u : Shape(u) = Kind("?" \in ToSet(u), Stars(u), Len(u))
  BY Zenon DEF Shape
<1>2. DOMAIN w = 1..Len(w) /\ DOMAIN v = 1..Len(w) /\ Len(v) = Len(w)
  BY LoweredText DEF IsSequence
<1>3. \A k \in 1..Len(w) : v[k] = Lower(w[k])
  BY LoweredText
<1>4. \A k \in 1..Len(w) : (v[k] = "*" <=> w[k] = "*") /\ (v[k] = "?" <=> w[k] = "?")
  BY <1>3, LowerKeeps
<1> HIDE DEF v
<1>5. Stars(v) = Stars(w)
  BY <1>2, <1>4
<1>6. ("?" \in ToSet(v)) = ("?" \in ToSet(w))
  BY <1>2, <1>4 DEF ToSet
<1> HIDE DEF Stars, Kind
<1>7. Shape(v) = Shape(w)
  BY <1>1, <1>2, <1>5, <1>6
<1> QED BY <1>7 DEF v

LEMMA LoweredCore ==
    ASSUME NEW w, IsSequence(w), Shape(w) # "re"
    PROVE  Core(Lowered(w)) = Lowered(Core(w)) /\ IsSequence(Core(w))
<1> DEFINE v == Lowered(w)
           o == Shape(w)
           c == Core(w)
           d == Core(v)
           lead == IF o \in {"endswith", "contains"} THEN 1 ELSE 0
           trail == IF o \in {"startswith", "contains"} THEN 1 ELSE 0
<1>1. IsSequence(v) /\ Len(v) = Len(w) /\ \A k \in 1..Len(w) : v[k] = Lower(w[k])
  BY LoweredText
<1>2. Shape(v) = o
  BY LoweredShape
<1>3. Starred(w, c, lead, trail)
  BY CoreIs
<1>4. Starred(v, d, lead, trail)
  <2> HIDE DEF v
  <2> QED BY <1>1, <1>2, CoreIs
<1>5. lead \in {0, 1} /\ trail \in {0, 1}
  OBVIOUS
<1> HIDE DEF lead, trail, c, d, v, o
<1>6. /\ IsSequence(c) /\ IsSequence(d) /\ Len(w) = lead + Len(c) + trail
      /\ Len(w) = lead + Len(d) + trail
      /\ \A i \in 1..Len(c) : c[i] = w[lead + i]
      /\ \A i \in 1..Len(d) : d[i] = v[lead + i]
  BY <1>1, <1>3, <1>4 DEF Starred
<1>7. Len(c) \in Nat /\ Len(d) \in Nat /\ Len(w) \in Nat
  BY <1>6 DEF IsSequence
<1>8. Len(d) = Len(c)
  BY <1>5, <1>6, <1>7
<1>9. ASSUME NEW i \in 1..Len(c) PROVE d[i] = Lower(c[i])
  <2>1. lead + i \in 1..Len(w)
    BY <1>5, <1>6, <1>7
  <2>2. d[i] = v[lead + i] /\ c[i] = w[lead + i]
    BY <1>6, <1>8
  <2> QED BY <1>1, <2>1, <2>2
<1>10. /\ IsSequence(Lowered(c)) /\ Len(Lowered(c)) = Len(c)
       /\ \A i \in 1..Len(c) : Lowered(c)[i] = Lower(c[i])
  BY <1>6, LoweredText
<1>11. d = Lowered(c)
  BY <1>6, <1>8, <1>9, <1>10, SameElements
<1> QED BY <1>6, <1>11 DEF c, d, v

LEMMA LoweredRegex ==
    ASSUME NEW w, IsSequence(w)
    PROVE  GlobToRegex(Lowered(w)) = Lowered(GlobToRegex(w))
<1> DEFINE u == Lowered(w)
           v == GlobToRegex(w)
           r == GlobToRegex(u)
           n == Len(w)
<1>1. IsSequence(u) /\ Len(u) = n /\ n \in Nat /\ \A k \in 1..n : u[k] = Lower(w[k])
  BY LoweredText
<1>2. /\ IsSequence(v) /\ Len(v) = n + 2 /\ v[1] = "^" /\ v[n + 2] = "$"
      /\ \A k \in 1..n : v[k + 1] = RegexToken(w[k])
  BY RegexOfGlob
<1> HIDE DEF u, v
<1>3. /\ IsSequence(r) /\ Len(r) = Len(u) + 2 /\ r[1] = "^" /\ r[Len(u) + 2] = "$"
      /\ \A k \in 1..Len(u) : r[k + 1] = RegexToken(u[k])
  BY <1>1, RegexOfGlob
<1>4. /\ IsSequence(Lowered(v)) /\ Len(Lowered(v)) = n + 2
      /\ \A k \in 1..(n + 2) : Lowered(v)[k] = Lower(v[k])
  <2> HIDE DEF n
  <2> QED BY <1>2, LoweredText
<1>5. \A c : RegexToken(Lower(c)) = Lower(RegexToken(c))
  <2> SUFFICES ASSUME NEW c PROVE RegexToken(Lower(c)) = Lower(RegexToken(c))
    OBVIOUS
  <2>1. (Lower(c) = "*" <=> c = "*") /\ (Lower(c) = "?" <=> c = "?")
    BY LowerKeeps
  <2>2. Lower(".*") = ".*" /\ Lower(".") = "."
    BY LowerKeeps
  <2>3. CASE c = "*"
    BY <2>1, <2>2, <2>3 DEF RegexToken
  <2>4. CASE c = "?"
    BY <2>1, <2>2, <2>4 DEF RegexToken
  <2>5. CASE c # "*" /\ c # "?"
    BY <2>1, <2>5 DEF RegexToken
  <2> QED BY <2>3, <2>4, <2>5
<1> HIDE DEF r, n
<1>6. ASSUME NEW k \in 1..(n + 2) PROVE r[k] = Lower(v[k])
  <2>1. Lower("^") = "^" /\ Lower("$") = "$"
    BY LowerKeeps
  <2>2. CASE k = 1 \/ k = n + 2
    BY <1>1, <1>2, <1>3, <2>1, <2>2
  <2>3. CASE k # 1 /\ k # n + 2
    <3>1. k - 1 \in 1..n /\ (k - 1) + 1 = k
      BY <1>1, <2>3
    <3>2. r[(k - 1) + 1] = RegexToken(u[k - 1]) /\ v[(k - 1) + 1] = RegexToken(w[k - 1])
      BY <1>1, <1>2, <1>3, <3>1
    <3>3. u[k - 1] = Lower(w[k - 1])
      BY <1>1, <3>1
    <3> QED BY <1>5, <3>1, <3>2, <3>3
  <2> QED BY <2>2, <2>3
<1>7. r = Lowered(v)
  BY <1>1, <1>3, <1>4, <1>6, SameElements
<1> QED BY <1>7 DEF r, u, v

\* What a value finds in a text, it finds when both are lowered: a rule without
\* `cased` fires on no fewer events.
LEMMA OccursLowered ==
    ASSUME NEW c, IsSequence(c), NEW t, IsSequence(t), NEW k \in Nat, Occurs(c, t, k)
    PROVE  Occurs(Lowered(c), Lowered(t), k)
<1>1. /\ Len(Lowered(c)) = Len(c) /\ Len(c) \in Nat
      /\ \A i \in 1..Len(c) : Lowered(c)[i] = Lower(c[i])
  BY LoweredText
<1>2. /\ Len(Lowered(t)) = Len(t) /\ Len(t) \in Nat
      /\ \A i \in 1..Len(t) : Lowered(t)[i] = Lower(t[i])
  BY LoweredText
<1>3. k + Len(c) <= Len(t) /\ \A i \in 1..Len(c) : t[k + i] = c[i]
  BY DEF Occurs
<1>4. ASSUME NEW i \in 1..Len(c) PROVE Lowered(t)[k + i] = Lowered(c)[i]
  <2>1. k + i \in 1..Len(t)
    BY <1>1, <1>2, <1>3
  <2> QED BY <1>1, <1>2, <1>3, <2>1
<1> QED BY <1>1, <1>2, <1>3, <1>4 DEF Occurs

LEMMA GlobLowered ==
    ASSUME NEW w, IsSequence(w), NEW t, IsSequence(t), GlobMatches(w, t)
    PROVE  GlobMatches(Lowered(w), Lowered(t))
<1> DEFINE v == Lowered(w)
           s == Lowered(t)
<1>1. IsSequence(v) /\ Len(v) = Len(w) /\ Len(w) \in Nat /\ \A k \in 1..Len(w) : v[k] = Lower(w[k])
  BY LoweredText
<1>2. IsSequence(s) /\ Len(s) = Len(t) /\ Len(t) \in Nat /\ \A k \in 1..Len(t) : s[k] = Lower(t[k])
  BY LoweredText
<1>3. PICK parts : IsCut(parts, w, t, Len(w)) /\ parts[Len(w)] = Len(t)
  BY GlobIsCut
<1> HIDE DEF v, s
<1>4. /\ parts \in [0..Len(w) -> 0..Len(t)] /\ parts[0] = 0
      /\ \A i \in 1..Len(w) : Piece(w[i], t, parts[i - 1], parts[i])
  BY <1>3 DEF IsCut
<1>5. ASSUME NEW i \in 1..Len(w) PROVE Piece(v[i], s, parts[i - 1], parts[i])
  <2>1. Piece(w[i], t, parts[i - 1], parts[i])
    BY <1>4
  <2>2. (v[i] = "*" <=> w[i] = "*") /\ (v[i] = "?" <=> w[i] = "?")
    BY <1>1, LowerKeeps
  <2>3. CASE w[i] = "*"
    BY <2>1, <2>2, <2>3 DEF Piece
  <2>4. CASE w[i] = "?"
    BY <2>1, <2>2, <2>4 DEF Piece
  <2>5. CASE w[i] # "*" /\ w[i] # "?"
    <3>1. parts[i] = parts[i - 1] + 1 /\ t[parts[i]] = w[i]
      BY <2>1, <2>5 DEF Piece
    <3>2. i - 1 \in 0..Len(w) /\ i \in 0..Len(w)
      BY <1>1
    <3>3. parts[i] \in 1..Len(t)
      BY <1>2, <1>4, <3>1, <3>2
    <3>4. s[parts[i]] = v[i]
      BY <1>1, <1>2, <3>1, <3>3
    <3> QED BY <2>2, <2>5, <3>1, <3>4 DEF Piece
  <2> QED BY <2>3, <2>4, <2>5
<1>6. IsCut(parts, v, s, Len(v))
  BY <1>1, <1>2, <1>4, <1>5 DEF IsCut
<1>7. GlobMatches(v, s)
  BY <1>1, <1>2, <1>3, <1>6, GlobIsCut
<1> QED BY <1>7 DEF v, s

LEMMA AfterLowered ==
    ASSUME NEW token, NEW t, IsSequence(t), NEW P, NEW Q, P \subseteq Q
    PROVE  After(token, t, P) \subseteq After(Lower(token), Lowered(t), Q)
<1>1. /\ Len(Lowered(t)) = Len(t) /\ Len(t) \in Nat
      /\ \A k \in 1..Len(t) : Lowered(t)[k] = Lower(t[k])
  BY LoweredText
<1>2. CASE token = "^"
  <2>1. Lower(token) = "^"
    BY <1>2, LowerKeeps
  <2> QED BY <1>2, <2>1 DEF After
<1>3. CASE token = "$"
  <2>1. Lower(token) = "$"
    BY <1>3, LowerKeeps
  <2> QED BY <1>1, <1>3, <2>1 DEF After
<1>4. CASE token = ".*"
  <2>1. Lower(token) = ".*"
    BY <1>4, LowerKeeps
  <2> QED BY <1>1, <1>4, <2>1 DEF After
<1>5. CASE token = "."
  <2>1. Lower(token) = "."
    BY <1>5, LowerKeeps
  <2> QED BY <1>1, <1>5, <2>1 DEF After
<1>6. CASE token \notin {"^", "$", ".*", "."}
  <2>1. Lower(token) \notin {"^", "$", ".*", "."}
    BY <1>6, LowerKeeps
  <2>2. After(token, t, P) = {q \in 1..Len(t) : q - 1 \in P /\ t[q] = token}
    BY <1>6 DEF After
  <2>3. After(Lower(token), Lowered(t), Q)
          = {q \in 1..Len(t) : q - 1 \in Q /\ Lowered(t)[q] = Lower(token)}
    BY <1>1, <2>1 DEF After
  <2> QED BY <1>1, <2>2, <2>3
<1> QED BY <1>2, <1>3, <1>4, <1>5, <1>6

LEMMA RegexLowered ==
    ASSUME NEW pattern, IsSequence(pattern), NEW t, IsSequence(t), ReSearch(pattern, t)
    PROVE  ReSearch(Lowered(pattern), Lowered(t))
<1> DEFINE n == Len(pattern)
           u == Lowered(pattern)
           s == Lowered(t)
<1>1. n \in Nat /\ Len(u) = n /\ \A k \in 1..n : u[k] = Lower(pattern[k])
  BY LoweredText
<1>2. Len(s) = Len(t)
  BY LoweredText
<1>3. PICK f : IsReach(f, pattern, t) /\ f[n] # {}
  BY <1>1, ReachRuns
<1> HIDE DEF u, s
<1>4. PICK g : IsReach(g, u, s) /\ (ReSearch(u, s) <=> g[n] # {})
  BY <1>1, ReachRuns
<1>5. f = [i \in 0..n |-> IF i = 0 THEN 0..Len(t) ELSE After(pattern[i], t, f[i - 1])]
  BY <1>3, Zenon DEF IsReach
<1>6. g = [i \in 0..n |-> IF i = 0 THEN 0..Len(t) ELSE After(u[i], s, g[i - 1])]
  BY <1>1, <1>2, <1>4, Zenon DEF IsReach
<1> DEFINE Good == {k \in Nat : k <= n => f[k] \subseteq g[k]}
<1>7. 0 \in Good
  <2>1. 0 \in 0..n
    BY <1>1
  <2>2. f[0] = 0..Len(t) /\ g[0] = 0..Len(t)
    BY <1>5, <1>6, <2>1
  <2> QED BY <2>2
<1>8. ASSUME NEW k \in Nat, k \in Good PROVE k + 1 \in Good
  <2> SUFFICES ASSUME k + 1 <= n PROVE f[k + 1] \subseteq g[k + 1]
    OBVIOUS
  <2> HIDE DEF n
  <2>1. k + 1 \in 0..n /\ k + 1 # 0 /\ k + 1 \in 1..n /\ (k + 1) - 1 = k /\ f[k] \subseteq g[k]
    BY <1>1, <1>8
  <2>2. f[k + 1] = After(pattern[k + 1], t, f[(k + 1) - 1])
    BY <1>5, <2>1
  <2>3. g[k + 1] = After(u[k + 1], s, g[(k + 1) - 1])
    BY <1>6, <2>1
  <2>4. u[k + 1] = Lower(pattern[k + 1])
    BY <1>1, <2>1
  <2>5. After(pattern[k + 1], t, f[k]) \subseteq After(Lower(pattern[k + 1]), s, g[k])
    BY <2>1, AfterLowered DEF s
  <2> QED BY <2>1, <2>2, <2>3, <2>4, <2>5
<1> HIDE DEF Good
<1>9. n \in Good
  BY <1>1, <1>7, <1>8, SetInduction
<1>10. f[n] \subseteq g[n]
  BY <1>1, <1>9 DEF Good
<1>11. ReSearch(u, s)
  BY <1>3, <1>4, <1>10
<1> QED BY <1>11 DEF u, s

LEMMA ValueLowered ==
    ASSUME NEW i, ExplicitOperators(i) = {} \/ \E o \in OperatorModifiers : ExplicitOperators(i) = {o},
           NEW v, IsSequence(v), NEW t, IsSequence(t), ValueHolds(i, v, t)
    PROVE  ValueHolds(i, Lowered(v), Lowered(t))
<1> DEFINE lv == Lowered(v)
           lt == Lowered(t)
<1>1. IsSequence(lv) /\ IsSequence(lt) /\ Len(lv) = Len(v) /\ Len(lt) = Len(t)
      /\ Len(v) \in Nat /\ Len(t) \in Nat
  BY LoweredText
<1>2. /\ v \in Prefixes(t) <=> Occurs(v, t, 0)
      /\ v \in Suffixes(t) <=> Len(v) <= Len(t) /\ Occurs(v, t, Len(t) - Len(v))
      /\ v \in SubSeqs(t) <=> \E k \in 0..Len(t) : Occurs(v, t, k)
  BY Occurrences
<1>3. \A k \in Nat : Occurs(v, t, k) => Occurs(lv, lt, k)
  BY OccursLowered
<1> HIDE DEF lv, lt
<1>4. /\ lv \in Prefixes(lt) <=> Occurs(lv, lt, 0)
      /\ lv \in Suffixes(lt) <=> Len(v) <= Len(t) /\ Occurs(lv, lt, Len(t) - Len(v))
      /\ lv \in SubSeqs(lt) <=> \E k \in 0..Len(t) : Occurs(lv, lt, k)
  BY <1>1, Occurrences
<1>5. CASE ExplicitOperators(i) = {}
  <2>1. \A x, y : ValueHolds(i, x, y) <=> GlobMatches(x, y)
    BY <1>5 DEF ValueHolds
  <2>2. GlobMatches(v, t)
    BY <2>1
  <2>3. GlobMatches(lv, lt)
    BY <2>2, GlobLowered DEF lv, lt
  <2> QED BY <2>1, <2>3 DEF lv, lt
<1>6. CASE ExplicitOperators(i) = {"contains"}
  <2>1. \A x, y : ValueHolds(i, x, y) <=> x \in SubSeqs(y)
    BY <1>6 DEF ValueHolds
  <2>2. lv \in SubSeqs(lt)
    BY <1>1, <1>2, <1>3, <1>4, <2>1
  <2> QED BY <2>1, <2>2 DEF lv, lt
<1>7. CASE ExplicitOperators(i) = {"startswith"}
  <2>1. \A x, y : ValueHolds(i, x, y) <=> x \in Prefixes(y)
    BY <1>7 DEF ValueHolds
  <2>2. lv \in Prefixes(lt)
    BY <1>2, <1>3, <1>4, <2>1
  <2> QED BY <2>1, <2>2 DEF lv, lt
<1>8. CASE ExplicitOperators(i) = {"endswith"}
  <2>1. \A x, y : ValueHolds(i, x, y) <=> x \in Suffixes(y)
    BY <1>8 DEF ValueHolds
  <2>2. Len(v) <= Len(t) /\ Occurs(v, t, Len(t) - Len(v)) /\ Len(t) - Len(v) \in Nat
    BY <1>1, <1>2, <2>1
  <2>3. lv \in Suffixes(lt)
    BY <1>3, <1>4, <2>2
  <2> QED BY <2>1, <2>3 DEF lv, lt
<1>9. CASE ExplicitOperators(i) = {"re"}
  <2>1. \A x, y : ValueHolds(i, x, y) <=> ReSearch(x, y)
    BY <1>9 DEF ValueHolds
  <2>2. ReSearch(v, t)
    BY <2>1
  <2>3. ReSearch(lv, lt)
    BY <2>2, RegexLowered DEF lv, lt
  <2> QED BY <2>1, <2>3 DEF lv, lt
<1> QED BY <1>5, <1>6, <1>7, <1>8, <1>9 DEF OperatorModifiers
----------------------------------------------------------------------------
(* Items.  The rule of a document is exactly the document read with every item  *)
(* lowered: what a `cased` item adds to that is set against it at the end.      *)

\* The converted values of a field hold of a text when its Sigma values do.
LEMMA FieldMeans ==
    ASSUME NEW i, IsItem(i), ConvertibleField(i), NEW t, IsSequence(t)
    PROVE  LET c == ConvertField(i)
           IN  (\E e \in c.expected : Satisfies(OperatorOf(c.mods), Lowered(t), Lowered(e)))
                 <=> \E v \in i.expected : ValueHolds(i, Lowered(v), Lowered(t))
<1> DEFINE c == ConvertField(i)
           o == OperatorOf(c.mods)
           s == Lowered(t)
           Claim == (\E e \in c.expected : Satisfies(o, s, Lowered(e)))
                      <=> \E v \in i.expected : ValueHolds(i, Lowered(v), s)
<1>1. /\ o \in OPERATORS
      /\ ExplicitOperators(i) = {} =>
           o = BareOperator(i.expected) /\ c.expected = BareExpected(i.expected)
      /\ ExplicitOperators(i) # {} => ExplicitOperators(i) = {o} /\ c.expected = i.expected
  BY ConvertedField
<1>2. \A v \in i.expected :
         IsSequence(v) /\ (ExplicitOperators(i) = {} => \A x \in ToSet(v) : IsCharacter(x))
  BY DEF IsItem
<1>0. IsSequence(s) /\ \A v \in i.expected : IsSequence(Lowered(v))
  BY <1>2, LoweredText
<1> HIDE DEF c, o, s
<1>3. CASE ExplicitOperators(i) # {}
  <2>1. o \in OperatorModifiers /\ ExplicitOperators(i) = {o} /\ c.expected = i.expected
    BY <1>1, <1>3 DEF ExplicitOperators
  <2>2. \A v \in i.expected : Satisfies(o, s, Lowered(v)) <=> ValueHolds(i, Lowered(v), s)
    BY <1>0, <2>1, ExplicitValue
  <2>3. Claim
    BY <2>1, <2>2
  <2> QED BY <2>3 DEF c, o, s
<1>4. CASE ExplicitOperators(i) = {}
  <2>1. \A v : ValueHolds(i, v, s) <=> GlobMatches(v, s)
    BY <1>4 DEF ValueHolds
  <2>2. o = BareOperator(i.expected) /\ c.expected = BareExpected(i.expected)
    BY <1>1, <1>4
  <2>3. i.expected # {}
    BY <1>4 DEF ConvertibleField, SupportedField
  <2>4. CASE o = "re"
    <3>1. c.expected = {GlobToRegex(v) : v \in i.expected}
      BY <2>2, <2>4 DEF BareExpected
    <3>2. ASSUME NEW v \in i.expected
          PROVE  Satisfies(o, s, Lowered(GlobToRegex(v))) <=> GlobMatches(Lowered(v), s)
      <4>1. \A x \in ToSet(Lowered(v)) : IsLiteral(x)
        <5>1. ASSUME NEW x \in ToSet(Lowered(v)) PROVE \E y \in ToSet(v) : x = Lower(y)
          BY <1>2 DEF ToSet, Lowered
        <5>2. \A y \in ToSet(v) : IsLiteral(y)
          BY <1>2, <1>4 DEF IsCharacter, IsLiteral
        <5>3. \A y : IsLiteral(y) => IsLiteral(Lower(y))
          BY LowerKeeps DEF IsLiteral
        <5> QED BY <5>1, <5>2, <5>3
      <4>2. GlobToRegex(Lowered(v)) = Lowered(GlobToRegex(v))
        BY <1>2, LoweredRegex
      <4> DEFINE u == Lowered(v)
      <4>3. IsSequence(u) /\ \A x \in ToSet(u) : IsLiteral(x)
        BY <1>0, <4>1
      <4> HIDE DEF u
      <4>4. ReSearch(GlobToRegex(u), s) <=> GlobMatches(u, s)
        BY <1>0, <4>3, RegexIsGlob
      <4>5. \A x : Satisfies(o, s, x) <=> ReSearch(x, s)
        BY <2>4 DEF Satisfies
      <4> QED BY <4>2, <4>4, <4>5 DEF u
    <3>3. Claim
      BY <2>1, <3>1, <3>2
    <3> QED BY <3>3 DEF c, o, s
  <2>5. CASE o # "re"
    <3>1. \A v \in i.expected : Shape(v) = o
      <4>1. \E q \in OPERATORS : \A v \in i.expected : Shape(v) = q
        BY <2>2, <2>5 DEF BareOperator
      <4>2. o = CHOOSE q \in OPERATORS : \A v \in i.expected : Shape(v) = q
        BY <2>2, <4>1, Zenon DEF BareOperator
      <4> QED BY <4>1, <4>2, Zenon
    <3>2. c.expected = {Core(v) : v \in i.expected}
      BY <2>2, <2>5 DEF BareExpected
    <3>3. ASSUME NEW v \in i.expected
          PROVE  Satisfies(o, s, Lowered(Core(v))) <=> GlobMatches(Lowered(v), s)
      <4> DEFINE u == Lowered(v)
      <4>1. Core(u) = Lowered(Core(v)) /\ Shape(u) = o
        BY <1>2, <2>5, <3>1, LoweredCore, LoweredShape
      <4>2. IsSequence(u)
        BY <1>0
      <4> HIDE DEF u
      <4>3. Satisfies(Shape(u), s, Core(u)) <=> GlobMatches(u, s)
        BY <1>0, <2>5, <4>1, <4>2, SimpleGlob
      <4> QED BY <4>1, <4>3 DEF u
    <3>4. Claim
      BY <2>1, <3>2, <3>3
    <3> QED BY <3>4 DEF c, o, s
  <2> QED BY <2>4, <2>5
<1> QED BY <1>3, <1>4

\* The document read with the case of every letter ignored, `cased` or not.
FoldedItem(i, e) ==
    (i.field \in DOMAIN e.fields
        /\ \E v \in i.expected : ValueHolds(i, Lowered(v), Lowered(e.fields[i.field])))
    # Negated(i.mods)

FoldedSelection(block, e) ==
    \E items \in block.alternatives : \A i \in items : FoldedItem(i, e)

FoldedSigma(d, e) ==
    LET Holds(n) == FoldedSelection(d.blocks[n], e)
        names == SelectedNames(d)
    IN /\ CASE d.condition.form \in {"one", "and"} -> \A n \in names : Holds(n)
            [] d.condition.form = "or" -> \E n \in names : Holds(n)
            [] d.condition.form = "of" ->
                 IF d.condition.quantifier = "1" THEN \E n \in names : Holds(n)
                                                 ELSE \A n \in names : Holds(n)
       /\ \A f \in d.condition.filters : ~Holds(f)

\* The texts of an event are sequences of characters.
IsEvent(e) == \A f \in DOMAIN e.fields : IsSequence(e.fields[f])

\* A converted item holds of an event when its Sigma item does.
LEMMA ItemMeans ==
    ASSUME NEW i, IsItem(i), ConvertibleField(i), NEW e, IsEvent(e)
    PROVE  EvaluateField(e, ConvertField(i)) <=> FoldedItem(i, e)
<1> DEFINE c == ConvertField(i)
           Carried == i.field \in DOMAIN e.fields
           Compared == Compare(e, c, OperatorOf(c.mods))
           text == Lowered(e.fields[i.field])
           Held == Carried /\ \E v \in i.expected : ValueHolds(i, Lowered(v), text)
<1>1. c.field = i.field /\ (Negated(c.mods) <=> Negated(i.mods))
  BY ConvertedField
<1>2. Carried => ((\E x \in c.expected : Satisfies(OperatorOf(c.mods), text, Lowered(x)))
                    <=> \E v \in i.expected : ValueHolds(i, Lowered(v), text))
  <2> SUFFICES ASSUME Carried
               PROVE  (\E x \in c.expected : Satisfies(OperatorOf(c.mods), text, Lowered(x)))
                        <=> \E v \in i.expected : ValueHolds(i, Lowered(v), text)
    OBVIOUS
  <2>1. IsSequence(e.fields[i.field])
    BY DEF IsEvent
  <2> QED BY <2>1, FieldMeans, Zenon
<1> HIDE DEF c
<1>3. Compared <=> Held
  BY <1>1, <1>2 DEF Compare
<1>4. EvaluateField(e, c) <=> (Compared # Negated(c.mods))
  BY Zenon DEF EvaluateField
<1>5. FoldedItem(i, e) <=> (Held # Negated(i.mods))
  BY Zenon DEF FoldedItem
<1>6. /\ Compared \in BOOLEAN /\ Held \in BOOLEAN
      /\ Negated(c.mods) \in BOOLEAN /\ Negated(i.mods) \in BOOLEAN
  BY DEF Compare, Negated
<1> HIDE DEF Compared, Held
<1>7. EvaluateField(e, c) <=> FoldedItem(i, e)
  BY <1>1, <1>3, <1>4, <1>5, <1>6, Zenon
<1> QED BY <1>7 DEF c
----------------------------------------------------------------------------
(* Documents.  Merging, combining and negating keep the meaning of the items.  *)

\* An item before its negation.
Value(i, e) ==
    /\ i.field \in DOMAIN e.fields
    /\ \E v \in i.expected : ValueHolds(i, Lowered(v), Lowered(e.fields[i.field]))

LEMMA HoldsByValue ==
    ASSUME NEW i, NEW e
    PROVE  /\ Negated(i.mods) => (FoldedItem(i, e) <=> ~Value(i, e))
           /\ ~Negated(i.mods) => (FoldedItem(i, e) <=> Value(i, e))
<1> DEFINE V == Value(i, e)
           N == Negated(i.mods)
<1>1. FoldedItem(i, e) <=> (V # N)
  BY Zenon DEF FoldedItem, Value
<1>2. V \in BOOLEAN
  BY DEF Value
<1>3. N \in BOOLEAN
  BY DEF Negated
<1> HIDE DEF V, N
<1>4. CASE N
  <2>1. N = TRUE
    BY <1>3, <1>4
  <2>2. (V # N) <=> ~V
    BY <1>2, <2>1
  <2> QED BY <1>1, <1>4, <2>2 DEF V, N
<1>5. CASE ~N
  <2>1. N = FALSE
    BY <1>3, <1>5
  <2>2. (V # N) <=> V
    BY <1>2, <2>1
  <2> QED BY <1>1, <1>5, <2>2 DEF V, N
<1> QED BY <1>4, <1>5

LEMMA SameSpec ==
    ASSUME NEW i, NEW j, FieldSpec(i) = FieldSpec(j)
    PROVE  /\ i.field = j.field /\ i.mods = j.mods
           /\ \A v, t : ValueHolds(i, v, t) <=> ValueHolds(j, v, t)
<1>1. i.field = j.field /\ i.mods = j.mods
  BY DEF FieldSpec
<1>2. ExplicitOperators(i) = ExplicitOperators(j)
  BY <1>1 DEF ExplicitOperators
<1>3. \A v, t : ValueHolds(i, v, t) <=> ValueHolds(j, v, t)
  BY <1>2, Zenon DEF ValueHolds
<1> QED BY <1>1, <1>3

\* A merged item has the value of any item of its spec.
LEMMA MergedValue ==
    ASSUME NEW S, NEW i \in S, IsItem(i), NEW e
    PROVE  LET j == [i EXCEPT !.expected = MergeExpected(S, FieldSpec(i))]
           IN  /\ j.mods = i.mods
               /\ Value(j, e) <=> \E k \in S : FieldSpec(k) = FieldSpec(i) /\ Value(k, e)
<1> DEFINE j == [i EXCEPT !.expected = MergeExpected(S, FieldSpec(i))]
<1>1. j.field = i.field /\ j.mods = i.mods /\ j.expected = MergeExpected(S, FieldSpec(i))
  BY DEF IsItem
<1> HIDE DEF j
<1>2. FieldSpec(j) = FieldSpec(i)
  BY <1>1 DEF FieldSpec
<1>3. \A v : v \in j.expected <=> \E k \in S : FieldSpec(k) = FieldSpec(i) /\ v \in k.expected
  BY <1>1 DEF MergeExpected
<1>4. \A k \in S : FieldSpec(k) = FieldSpec(i) =>
         k.field = j.field /\ \A v, t : ValueHolds(k, v, t) <=> ValueHolds(j, v, t)
  BY <1>2, SameSpec
<1>5. Value(j, e) <=> \E k \in S : FieldSpec(k) = FieldSpec(i) /\ Value(k, e)
  BY <1>3, <1>4 DEF Value
<1> QED BY <1>1, <1>5 DEF j

\* The items that are selected are items.
LEMMA SelectedAreItems ==
    ASSUME NEW d, IsDocument(d), Convertible(d)
    PROVE  /\ \A i \in SelectedItems(d) : IsItem(i)
           /\ \A n \in SelectedNames(d) : IsBlock(d.blocks[n])
BY DEF Convertible, Parsable, Combinable, IsDocument, SelectedItems, IsBlock, IsMapping

LEMMA MergedAll ==
    ASSUME NEW d, IsDocument(d), Convertible(d), Joined(d) = "all", NEW e
    PROVE  (\A j \in Positive(d) : FoldedItem(j, e)) <=> \A i \in SelectedItems(d) : FoldedItem(i, e)
<1> DEFINE S == SelectedItems(d)
           M(i) == [i EXCEPT !.expected = MergeExpected(S, FieldSpec(i))]
<1>1. \A i \in S : IsItem(i)
  BY SelectedAreItems
<1>2. \A x : x \in Positive(d) <=> \E i \in S : x = M(i)
  BY DEF Positive, MergeItems
<1>3. \A i, k \in S : FieldSpec(k) = FieldSpec(i) => k.expected = i.expected
  BY DEF Convertible, Parsable, Combinable, Conflict
<1> HIDE DEF S
<1>4. ASSUME NEW i \in S PROVE FoldedItem(M(i), e) <=> FoldedItem(i, e)
  <2> DEFINE j == M(i)
  <2>1. j.mods = i.mods /\ (Value(j, e) <=> \E k \in S : FieldSpec(k) = FieldSpec(i) /\ Value(k, e))
    BY <1>1, MergedValue
  <2>2. ASSUME NEW k \in S, FieldSpec(k) = FieldSpec(i) PROVE Value(k, e) <=> Value(i, e)
    <3>1. k.field = i.field /\ k.expected = i.expected
          /\ \A v, t : ValueHolds(k, v, t) <=> ValueHolds(i, v, t)
      BY <1>3, <2>2, SameSpec
    <3> QED BY <3>1 DEF Value
  <2> HIDE DEF j
  <2>3. Value(j, e) <=> Value(i, e)
    BY <2>1, <2>2
  <2>4. FoldedItem(j, e) <=> FoldedItem(i, e)
    BY <2>1, <2>3, HoldsByValue
  <2> QED BY <2>4 DEF j
<1> HIDE DEF M
<1>5. (\A j \in Positive(d) : FoldedItem(j, e)) <=> \A i \in S : FoldedItem(i, e)
  BY <1>2, <1>4
<1> QED BY <1>5 DEF S

LEMMA MergedAny ==
    ASSUME NEW d, IsDocument(d), Convertible(d), Joined(d) = "any", ~NegatedAlternatives(d), NEW e
    PROVE  (\E j \in Positive(d) : FoldedItem(j, e)) <=> \E i \in SelectedItems(d) : FoldedItem(i, e)
<1> DEFINE S == SelectedItems(d)
           M(i) == [i EXCEPT !.expected = MergeExpected(S, FieldSpec(i))]
<1>1. \A i \in S : IsItem(i)
  BY SelectedAreItems
<1>2. \A x : x \in Positive(d) <=> \E i \in S : x = M(i)
  BY DEF Positive, MergeItems
<1>3. \A i, k \in S : FieldSpec(k) = FieldSpec(i) /\ Negated(i.mods) => k = i
  BY DEF NegatedAlternatives
<1> HIDE DEF S
<1>4. ASSUME NEW i \in S
      PROVE  FoldedItem(M(i), e) <=> \E k \in S : FieldSpec(k) = FieldSpec(i) /\ FoldedItem(k, e)
  <2> DEFINE j == M(i)
  <2>1. j.mods = i.mods /\ (Value(j, e) <=> \E k \in S : FieldSpec(k) = FieldSpec(i) /\ Value(k, e))
    BY <1>1, MergedValue
  <2>2. \A k \in S : FieldSpec(k) = FieldSpec(i) => k.mods = i.mods
    BY SameSpec
  <2> HIDE DEF j
  <2>3. CASE Negated(i.mods)
    <3>1. Value(j, e) <=> Value(i, e)
      BY <1>3, <2>1, <2>3
    <3>2. FoldedItem(j, e) <=> FoldedItem(i, e)
      BY <2>1, <3>1, HoldsByValue
    <3>3. FoldedItem(j, e) <=> \E k \in S : FieldSpec(k) = FieldSpec(i) /\ FoldedItem(k, e)
      BY <1>3, <2>3, <3>2
    <3> QED BY <3>3 DEF j
  <2>4. CASE ~Negated(i.mods)
    <3>1. \A k \in S : FieldSpec(k) = FieldSpec(i) => (FoldedItem(k, e) <=> Value(k, e))
      BY <2>2, <2>4, HoldsByValue
    <3>2. FoldedItem(j, e) <=> Value(j, e)
      BY <2>1, <2>4, HoldsByValue
    <3>3. FoldedItem(j, e) <=> \E k \in S : FieldSpec(k) = FieldSpec(i) /\ FoldedItem(k, e)
      BY <2>1, <3>1, <3>2
    <3> QED BY <3>3 DEF j
  <2> QED BY <2>3, <2>4
<1> HIDE DEF M
<1>5. (\E j \in Positive(d) : FoldedItem(j, e)) <=> \E i \in S : FoldedItem(i, e)
  BY <1>2, <1>4
<1> QED BY <1>5 DEF S

\* What the condition says of the selections, filters aside.
PositiveHolds(d, e) ==
    LET Holds(n) == FoldedSelection(d.blocks[n], e)
        names == SelectedNames(d)
    IN CASE d.condition.form \in {"one", "and"} -> \A n \in names : Holds(n)
         [] d.condition.form = "or" -> \E n \in names : Holds(n)
         [] d.condition.form = "of" ->
              IF d.condition.quantifier = "1" THEN \E n \in names : Holds(n)
                                              ELSE \A n \in names : Holds(n)

LEMMA PositiveMeans ==
    ASSUME NEW d, IsDocument(d), Convertible(d), NEW e
    PROVE  /\ Joined(d) \in {"all", "any"}
           /\ Joined(d) = "all" => (PositiveHolds(d, e) <=> \A i \in SelectedItems(d) : FoldedItem(i, e))
           /\ Joined(d) = "any" => (PositiveHolds(d, e) <=> \E i \in SelectedItems(d) : FoldedItem(i, e))
<1> DEFINE names == SelectedNames(d)
           form == d.condition.form
           Holds(n) == FoldedSelection(d.blocks[n], e)
           Every == \A n \in names : Holds(n)
           Some == \E n \in names : Holds(n)
           isOr == form = "or" \/ (form = "of" /\ d.condition.quantifier = "1")
<1>1. /\ form \in {"one", "and", "or", "of"} /\ names # {}
      /\ Joined(d) = "any" => \A n \in names : OneField(d.blocks[n])
      /\ ~LoneList(d) => \A n \in names : d.blocks[n].shape = "map"
      /\ \A n \in names : IsBlock(d.blocks[n])
  BY SelectedAreItems DEF Convertible, Parsable, Combinable
<1>2. PositiveHolds(d, e) <=> IF isOr THEN Some ELSE Every
  <2>1. CASE form \in {"one", "and"}
    BY <2>1 DEF PositiveHolds
  <2>2. CASE form = "or"
    BY <2>2 DEF PositiveHolds
  <2>3. CASE form = "of"
    BY <2>3 DEF PositiveHolds
  <2> HIDE DEF form, isOr, Some, Every
  <2> QED BY <1>1, <2>1, <2>2, <2>3
<1>3. JoinOf(d.condition) = IF isOr THEN "any" ELSE "all"
  BY DEF JoinOf
<1>4. /\ LoneList(d) => Joined(d) = "any" /\ ~isOr /\ \E n \in names : names = {n}
      /\ ~LoneList(d) => Joined(d) = IF isOr THEN "any" ELSE "all"
  BY <1>3 DEF LoneList, Joined
<1>5. ASSUME NEW n \in names, d.blocks[n].shape = "map"
      PROVE  Holds(n) <=> \A i \in UNION d.blocks[n].alternatives : FoldedItem(i, e)
  <2>1. PICK items : d.blocks[n].alternatives = {items}
    BY <1>1, <1>5 DEF IsBlock
  <2>2. UNION d.blocks[n].alternatives = items
    BY <2>1
  <2>3. Holds(n) <=> \A i \in items : FoldedItem(i, e)
    BY <2>1 DEF FoldedSelection
  <2> QED BY <2>2, <2>3
<1>6. ASSUME NEW n \in names, OneField(d.blocks[n])
      PROVE  Holds(n) <=> \E i \in UNION d.blocks[n].alternatives : FoldedItem(i, e)
  <2> DEFINE A == d.blocks[n].alternatives
  <2>1. \A items \in A : \E i \in items : items = {i}
    BY <1>6 DEF OneField
  <2>2. Holds(n) <=> \E items \in A : \A i \in items : FoldedItem(i, e)
    BY DEF FoldedSelection
  <2>3. (\E items \in A : \A i \in items : FoldedItem(i, e))
          <=> \E items \in A : \E i \in items : FoldedItem(i, e)
    BY <2>1
  <2>4. (\E items \in A : \E i \in items : FoldedItem(i, e))
          <=> \E i \in UNION A : FoldedItem(i, e)
    OBVIOUS
  <2> QED BY <2>2, <2>3, <2>4
<1>7. \A i : i \in SelectedItems(d) <=> \E n \in names : i \in UNION d.blocks[n].alternatives
  BY DEF SelectedItems
<1>8. Joined(d) \in {"all", "any"}
  BY <1>4
<1> HIDE DEF names, Holds, isOr
<1>9. CASE Joined(d) = "all"
  <2>1. ~LoneList(d) /\ ~isOr
    BY <1>4, <1>9
  <2>2. PositiveHolds(d, e) <=> Every
    BY <1>2, <2>1
  <2>3. \A n \in names : Holds(n) <=> \A i \in UNION d.blocks[n].alternatives : FoldedItem(i, e)
    BY <1>1, <1>5, <2>1
  <2>4. Every <=> \A i \in SelectedItems(d) : FoldedItem(i, e)
    BY <1>7, <2>3
  <2> QED BY <1>9, <2>2, <2>4
<1>10. CASE Joined(d) = "any"
  <2>1. isOr \/ \E n \in names : names = {n}
    BY <1>4, <1>10
  <2>2. PositiveHolds(d, e) <=> Some
    <3>1. CASE isOr
      BY <1>2, <3>1
    <3>2. CASE ~isOr
      BY <1>2, <2>1, <3>2
    <3> QED BY <3>1, <3>2
  <2>3. \A n \in names : Holds(n) <=> \E i \in UNION d.blocks[n].alternatives : FoldedItem(i, e)
    BY <1>1, <1>6, <1>10
  <2>4. Some <=> \E i \in SelectedItems(d) : FoldedItem(i, e)
    BY <1>7, <2>3
  <2> QED BY <1>10, <2>2, <2>4
<1> QED BY <1>8, <1>9, <1>10

\* A filter excludes what its only field, negated, does not let through.
LEMMA FilterMeans ==
    ASSUME NEW d, IsDocument(d), Convertible(d), ~DoubleNegative(d), NEW e,
           NEW f \in d.condition.filters
    PROVE  FoldedItem(FilterItem(d, f), e) <=> ~FoldedSelection(d.blocks[f], e)
<1> DEFINE i == CHOOSE i \in UNION d.blocks[f].alternatives : TRUE
           j == [i EXCEPT !.mods = Append(i.mods, "not")]
<1>1. /\ f \in DOMAIN d.blocks /\ d.blocks[f].shape = "map" /\ OneField(d.blocks[f])
      /\ IsBlock(d.blocks[f])
  BY DEF Convertible, Parsable, IsDocument
<1>2. PICK items : d.blocks[f].alternatives = {items} /\ IsMapping(items)
  BY <1>1 DEF IsBlock
<1>3. PICK i0 \in items : items = {i0}
  BY <1>1, <1>2 DEF OneField
<1>4. i = i0
  <2>1. UNION d.blocks[f].alternatives = {i0}
    BY <1>2, <1>3
  <2> QED BY <2>1
<1>5. IsItem(i) /\ ~Negated(i.mods)
  BY <1>2, <1>3, <1>4 DEF IsMapping, DoubleNegative
<1>6. FoldedSelection(d.blocks[f], e) <=> FoldedItem(i, e)
  BY <1>2, <1>3, <1>4 DEF FoldedSelection
<1>7. FilterItem(d, f) = j
  BY <1>5 DEF FilterItem, AppendNot
<1> HIDE DEF i
<1>8. j.field = i.field /\ j.expected = i.expected /\ j.mods = Append(i.mods, "not")
  BY <1>5 DEF IsItem
<1> HIDE DEF j
<1>9. ToSet(j.mods) = ToSet(i.mods) \cup {"not"}
  BY <1>5, <1>8, AppendedElements DEF IsItem
<1>10. Negated(j.mods) /\ ExplicitOperators(j) = ExplicitOperators(i)
  BY <1>9 DEF Negated, ExplicitOperators, OperatorModifiers
<1>11. \A v, t : ValueHolds(j, v, t) <=> ValueHolds(i, v, t)
  BY <1>10, Zenon DEF ValueHolds
<1>12. Value(j, e) <=> Value(i, e)
  BY <1>8, <1>11 DEF Value
<1> QED BY <1>5, <1>6, <1>7, <1>10, <1>12, HoldsByValue

\* A converted rule matches exactly the events its document describes when
\* it is read without regard to case.
LEMMA RuleMeans ==
    ASSUME NEW d, Plain(d), NEW rule, NEW n, ConvertedFrom(rule, n, d), NEW e, IsEvent(e)
    PROVE  Matches(e, rule) <=> FoldedSigma(d, e)
<1> DEFINE S == SelectedItems(d)
           P == Positive(d)
           M == MergedFields(d)
           filters == d.condition.filters
           det == rule.detection
           Out == \A f \in filters : ~FoldedSelection(d.blocks[f], e)
<1>1. /\ IsDocument(d) /\ Convertible(d)
      /\ det = ConvertSigmaRule(d).detection /\ rule.condition = Joined(d)
  BY ConvertedRule DEF ConvertedFrom
<1>2. ~DoubleNegative(d) /\ ~NegatedAlternatives(d) /\ ~EmptySelection(d)
  BY DEF Plain
<1>3. FoldedSigma(d, e) <=> PositiveHolds(d, e) /\ Out
  BY Zenon DEF FoldedSigma, PositiveHolds
<1>4. /\ \A k \in DOMAIN det : \E i \in M : det[k] = ConvertField(i)
      /\ \A i \in M : \E k \in DOMAIN det : det[k] = ConvertField(i)
  BY <1>1, ConvertedItems
<1>5. \A i \in M : EvaluateField(e, ConvertField(i)) <=> FoldedItem(i, e)
  BY <1>1, MergedItems, ItemMeans
<1>6. M = P \cup FilterItems(d)
  BY DEF MergedFields
<1>7. \A i : i \in FilterItems(d) <=> \E f \in filters : i = FilterItem(d, f)
  BY DEF FilterItems
<1>8. Out <=> \A i \in FilterItems(d) : FoldedItem(i, e)
  BY <1>1, <1>2, <1>7, FilterMeans
<1>9. M # {} => det # <<>>
  BY <1>4
<1>10. Joined(d) \in {"all", "any"}
  BY <1>1, PositiveMeans
<1> HIDE DEF M, P, S, det
<1>11. CASE Joined(d) = "all"
  <2>1. Matches(e, rule) <=> det # <<>> /\ \A k \in DOMAIN det : EvaluateField(e, det[k])
    BY <1>1, <1>11 DEF Matches, det
  <2>2. (\A k \in DOMAIN det : EvaluateField(e, det[k])) <=> \A i \in M : FoldedItem(i, e)
    BY <1>4, <1>5
  <2>3. (\A i \in P : FoldedItem(i, e)) <=> PositiveHolds(d, e)
    BY <1>1, <1>11, MergedAll, PositiveMeans DEF P
  <2>4. M # {}
    <3>1. PICK name \in SelectedNames(d) : TRUE
      BY <1>1 DEF Convertible, Parsable, Combinable
    <3>2. d.blocks[name].shape = "map" /\ IsBlock(d.blocks[name])
      <4>1. ~LoneList(d)
        BY <1>11 DEF Joined
      <4> QED BY <1>1, <4>1, SelectedAreItems DEF Convertible, Parsable, Combinable
    <3>3. PICK i : i \in UNION d.blocks[name].alternatives
      BY <1>2, <3>2 DEF IsBlock, EmptySelection
    <3>4. i \in SelectedItems(d)
      BY <3>3 DEF SelectedItems
    <3> DEFINE j == [i EXCEPT !.expected = MergeExpected(SelectedItems(d), FieldSpec(i))]
    <3>5. j \in P
      BY <3>4 DEF P, Positive, MergeItems
    <3> QED BY <1>6, <3>5
  <2> QED BY <1>3, <1>6, <1>8, <1>9, <2>1, <2>2, <2>3, <2>4
<1>12. CASE Joined(d) = "any"
  <2>1. Matches(e, rule) <=> det # <<>> /\ \E k \in DOMAIN det : EvaluateField(e, det[k])
    BY <1>1, <1>12 DEF Matches, det
  <2>2. (\E k \in DOMAIN det : EvaluateField(e, det[k])) <=> \E i \in M : FoldedItem(i, e)
    BY <1>4, <1>5
  <2>3. (\E i \in P : FoldedItem(i, e)) <=> PositiveHolds(d, e)
    BY <1>1, <1>2, <1>12, MergedAny, PositiveMeans DEF P
  <2>4. filters = {}
    BY <1>1, <1>12 DEF Convertible, Parsable
  <2>5. M = P /\ Out
    BY <1>6, <1>7, <2>4
  <2> QED BY <1>3, <1>9, <2>1, <2>2, <2>3, <2>5
<1> QED BY <1>10, <1>11, <1>12

----------------------------------------------------------------------------
(* What `cased` changes.                                                        *)

\* An item that is converted names at most one operator.
LEMMA OneOperator ==
    ASSUME NEW i, IsItem(i), ConvertibleField(i)
    PROVE  ExplicitOperators(i) = {} \/ \E o \in OperatorModifiers : ExplicitOperators(i) = {o}
<1>1. ExplicitOperators(i) # {} => \E o : ExplicitOperators(i) = {o}
  BY ConvertedField
<1> QED BY <1>1 DEF ExplicitOperators

LEMMA ItemFolds ==
    ASSUME NEW i, IsItem(i), NEW e, IsEvent(e),
           ExplicitOperators(i) = {} \/ \E o \in OperatorModifiers : ExplicitOperators(i) = {o}
    PROVE  /\ ~Cased(i) => (ItemHolds(i, e) <=> FoldedItem(i, e))
           /\ ~Negated(i.mods) /\ ItemHolds(i, e) => FoldedItem(i, e)
<1> DEFINE Carried == i.field \in DOMAIN e.fields
           text == e.fields[i.field]
           Held == Carried /\ \E v \in i.expected : ValueHolds(i, Seen(i, v), Seen(i, text))
           Folded == Carried /\ \E v \in i.expected : ValueHolds(i, Lowered(v), Lowered(text))
           N == Negated(i.mods)
<1>1. ItemHolds(i, e) <=> (Held # N)
  BY Zenon DEF ItemHolds
<1>2. FoldedItem(i, e) <=> (Folded # N)
  BY Zenon DEF FoldedItem
<1>3. ~Cased(i) => \A x : Seen(i, x) = Lowered(x)
  BY DEF Seen
<1>4. Cased(i) => \A x : Seen(i, x) = x
  BY DEF Seen
<1>5. ~Cased(i) => (Held <=> Folded)
  <2> SUFFICES ASSUME ~Cased(i) PROVE Held <=> Folded
    OBVIOUS
  <2>1. \A v : ValueHolds(i, Seen(i, v), Seen(i, text)) <=> ValueHolds(i, Lowered(v), Lowered(text))
    BY <1>3
  <2> QED BY <2>1
<1>6. Cased(i) /\ Held => Folded
  <2> SUFFICES ASSUME Cased(i), Held PROVE Folded
    OBVIOUS
  <2>1. PICK v \in i.expected : ValueHolds(i, Seen(i, v), Seen(i, text))
    OBVIOUS
  <2>2. ValueHolds(i, v, text)
    BY <1>4, <2>1
  <2>3. IsSequence(v) /\ IsSequence(text)
    BY DEF IsItem, IsEvent
  <2>4. ValueHolds(i, Lowered(v), Lowered(text))
    <3> HIDE DEF text
    <3> QED BY <2>2, <2>3, ValueLowered
  <2> QED BY <2>4
<1>7. Held \in BOOLEAN /\ Folded \in BOOLEAN
  OBVIOUS
<1>8. N \in BOOLEAN
  BY DEF Negated
<1> HIDE DEF Held, Folded, N
<1>9. ~Cased(i) => ((Held # N) <=> (Folded # N))
  BY <1>5, <1>7, <1>8
<1>10. ~N /\ (Held # N) => (Folded # N)
  BY <1>5, <1>6, <1>7, <1>8
<1> QED BY <1>1, <1>2, <1>9, <1>10 DEF N

\* The items of a converted document are as ItemFolds has them.
LEMMA DocumentItems ==
    ASSUME NEW d, IsDocument(d), Convertible(d), ~DoubleNegative(d),
           NEW i, i \in SelectedItems(d) \/ \E f \in d.condition.filters :
                                                i \in UNION d.blocks[f].alternatives
    PROVE  /\ IsItem(i)
           /\ ExplicitOperators(i) = {} \/ \E o \in OperatorModifiers : ExplicitOperators(i) = {o}
<1>1. CASE i \in SelectedItems(d)
  <2> DEFINE j == [i EXCEPT !.expected = MergeExpected(SelectedItems(d), FieldSpec(i))]
  <2>1. IsItem(i)
    BY <1>1, SelectedAreItems
  <2>2. j.mods = i.mods
    BY <2>1 DEF IsItem
  <2>3. j \in MergedFields(d)
    BY <1>1 DEF MergedFields, Positive, MergeItems
  <2> HIDE DEF j
  <2>4. ExplicitOperators(j) = {} \/ \E o \in OperatorModifiers : ExplicitOperators(j) = {o}
    BY <2>3, MergedItems, OneOperator
  <2>5. ExplicitOperators(j) = ExplicitOperators(i)
    BY <2>2 DEF ExplicitOperators
  <2> QED BY <2>1, <2>4, <2>5
<1>2. CASE \E f \in d.condition.filters : i \in UNION d.blocks[f].alternatives
  <2>1. PICK f \in d.condition.filters : i \in UNION d.blocks[f].alternatives
    BY <1>2
  <2>2. /\ f \in DOMAIN d.blocks /\ d.blocks[f].shape = "map" /\ OneField(d.blocks[f])
        /\ IsBlock(d.blocks[f])
    BY DEF Convertible, Parsable, IsDocument
  <2>3. PICK items : d.blocks[f].alternatives = {items} /\ IsMapping(items)
    BY <2>2 DEF IsBlock
  <2>4. items = {i}
    BY <2>1, <2>2, <2>3 DEF OneField
  <2>5. IsItem(i) /\ ~Negated(i.mods)
    BY <2>3, <2>4 DEF IsMapping, DoubleNegative
  <2> DEFINE j == [i EXCEPT !.mods = Append(i.mods, "not")]
  <2>6. FilterItem(d, f) = j
    <3> DEFINE x == CHOOSE x \in UNION d.blocks[f].alternatives : TRUE
    <3>1. x = i
      <4>1. UNION d.blocks[f].alternatives = {i}
        BY <2>3, <2>4
      <4> QED BY <4>1
    <3>2. FilterItem(d, f) = AppendNot(x)
      BY DEF FilterItem
    <3> HIDE DEF x
    <3> QED BY <2>5, <3>1, <3>2 DEF AppendNot
  <2>7. j.mods = Append(i.mods, "not")
    BY <2>5 DEF IsItem
  <2> HIDE DEF j
  <2>8. j \in MergedFields(d)
    BY <2>1, <2>6 DEF MergedFields, FilterItems
  <2>9. ExplicitOperators(j) = {} \/ \E o \in OperatorModifiers : ExplicitOperators(j) = {o}
    BY <2>8, MergedItems, OneOperator
  <2>10. ToSet(j.mods) = ToSet(i.mods) \cup {"not"}
    BY <2>5, <2>7, AppendedElements DEF IsItem
  <2>11. ExplicitOperators(j) = ExplicitOperators(i)
    BY <2>10 DEF ExplicitOperators, OperatorModifiers
  <2> QED BY <2>5, <2>9, <2>11
<1> QED BY <1>1, <1>2

\* What a condition makes of its selections, and of its filters, it makes of any
\* that hold and exclude alike.
LEMMA SigmaFolds ==
    ASSUME NEW d, IsDocument(d), Convertible(d), ~DoubleNegative(d), NEW e, IsEvent(e)
    PROVE  /\ ~CasedExclusion(d) /\ SigmaHolds(d, e) => FoldedSigma(d, e)
           /\ ~CaseSensitive(d) /\ FoldedSigma(d, e) => SigmaHolds(d, e)
<1> DEFINE names == SelectedNames(d)
           filters == d.condition.filters
           H(n) == SelectionHolds(d.blocks[n], e)
           F(n) == FoldedSelection(d.blocks[n], e)
           Items(n) == UNION d.blocks[n].alternatives
           Says(P(_)) == CASE d.condition.form \in {"one", "and"} -> \A n \in names : P(n)
                           [] d.condition.form = "or" -> \E n \in names : P(n)
                           [] d.condition.form = "of" ->
                                IF d.condition.quantifier = "1" THEN \E n \in names : P(n)
                                                                ELSE \A n \in names : P(n)
<1>1. d.condition.form \in {"one", "and", "or", "of"}
  BY DEF Convertible, Parsable
<1>2. SigmaHolds(d, e) <=> Says(H) /\ \A f \in filters : ~H(f)
  BY Zenon DEF SigmaHolds
<1>3. FoldedSigma(d, e) <=> Says(F) /\ \A f \in filters : ~F(f)
  BY Zenon DEF FoldedSigma
<1>4. ASSUME NEW n \in names \cup filters, NEW i \in Items(n)
      PROVE  /\ ~Cased(i) => (ItemHolds(i, e) <=> FoldedItem(i, e))
             /\ ~Negated(i.mods) /\ ItemHolds(i, e) => FoldedItem(i, e)
  <2>1. n \in names => i \in SelectedItems(d)
    BY DEF SelectedItems
  <2>2. /\ IsItem(i)
        /\ ExplicitOperators(i) = {} \/ \E o \in OperatorModifiers : ExplicitOperators(i) = {o}
    BY <2>1, DocumentItems
  <2> QED BY <2>2, ItemFolds
<1>5. ASSUME NEW n \in names \cup filters, ~CasedItem(d.blocks[n]) PROVE H(n) <=> F(n)
  <2>1. \A i \in Items(n) : ItemHolds(i, e) <=> FoldedItem(i, e)
    BY <1>4, <1>5 DEF CasedItem
  <2> QED BY <2>1 DEF SelectionHolds, FoldedSelection
<1>6. ASSUME NEW n \in names, ~CasedExclusion(d), H(n) PROVE F(n)
  <2>1. ASSUME NEW i \in Items(n), ItemHolds(i, e) PROVE FoldedItem(i, e)
    <3>1. ~(Cased(i) /\ Negated(i.mods))
      BY <1>6 DEF CasedExclusion, SelectedItems
    <3> QED BY <1>4, <2>1, <3>1
  <2> QED BY <1>6, <2>1 DEF SelectionHolds, FoldedSelection
<1> HIDE DEF H, F, names, filters
<1>7. ASSUME \A n \in names : H(n) => F(n), Says(H) PROVE Says(F)
  BY <1>1, <1>7
<1>8. ASSUME \A n \in names : F(n) => H(n), Says(F) PROVE Says(H)
  BY <1>1, <1>8
<1> HIDE DEF Says
<1>9. ASSUME ~CasedExclusion(d), SigmaHolds(d, e) PROVE FoldedSigma(d, e)
  <2>1. \A f \in filters : ~CasedItem(d.blocks[f])
    BY <1>9 DEF CasedExclusion, filters
  <2> QED BY <1>2, <1>3, <1>5, <1>6, <1>7, <1>9, <2>1
<1>10. ASSUME ~CaseSensitive(d), FoldedSigma(d, e) PROVE SigmaHolds(d, e)
  <2>1. \A n \in names \cup filters : ~CasedItem(d.blocks[n])
    BY <1>10 DEF CaseSensitive, names, filters
  <2> QED BY <1>2, <1>3, <1>5, <1>8, <1>10, <2>1
<1> QED BY <1>9, <1>10

\* An imported rule fires on every event its Sigma document describes, and on
\* no others unless the document asks for case, which the importer gives up
\* (sigma_import.py:12-19, 33-37): for any document it accepts, double negations
\* and empty selections aside, and for the first half a `cased` exclusion.
THEOREM ImportIsFaithful == Spec => []SigmaFaithful
<1>1. RuleInv => SigmaFaithful
  <2> SUFFICES ASSUME RuleInv, NEW a \in reported, NEW e \in Event,
                      e.event_id = SYSMON_EVENT_ID[a.document.category], Plain(a.document)
               PROVE  /\ ~CasedExclusion(a.document) /\ SigmaHolds(a.document, e)
                           => Matches(e, a.rule)
                      /\ ~CaseSensitive(a.document) /\ Matches(e, a.rule)
                           => SigmaHolds(a.document, e)
    BY Zenon DEF SigmaFaithful
  <2>1. IsEvent(e)
    BY EventAssumption DEF IsEvent
  <2>2. PICK n : ConvertedFrom(a.rule, n, a.document)
    BY DEF RuleInv, Provenance, AcceptedOK
  <2> DEFINE d == a.document
             rule == a.rule
  <2>3. ConvertedFrom(rule, n, d) /\ Plain(d)
    BY <2>2
  <2> HIDE DEF d, rule
  <2>4. Matches(e, rule) <=> FoldedSigma(d, e)
    BY <2>1, <2>3, RuleMeans
  <2>5. IsDocument(d) /\ Convertible(d) /\ ~DoubleNegative(d)
    BY <2>3, ConvertedRule DEF ConvertedFrom, Plain
  <2>6. /\ ~CasedExclusion(d) /\ SigmaHolds(d, e) => FoldedSigma(d, e)
        /\ ~CaseSensitive(d) /\ FoldedSigma(d, e) => SigmaHolds(d, e)
    BY <2>1, <2>5, SigmaFolds
  <2> QED BY <2>4, <2>6 DEF d, rule
<1> QED BY <1>1, RuleInvariance, PTL
=============================================================================
