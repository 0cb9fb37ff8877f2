----------------------------- MODULE CasebookProofs -----------------------------
(***************************************************************************)
(* Type correctness of the casebook, the narrowing of a search, the        *)
(* severity of an incident, the soundness of its exports and of its        *)
(* resemblance to dismissed incidents, and the sharpening of its story.    *)
(***************************************************************************)
EXTENDS Casebook, DataInduction, FiniteSetTheorems, TLAPS

\* The record stays well formed: rows follow members, and verdicts are the
\* analyst's three.
THEOREM CasebookTypeCorrect == CasebookSpec => []CasebookTypeOK
<1>1. CasebookInit => CasebookTypeOK
  BY DEF CasebookInit, CasebookTypeOK, Verdict
<1>2. CasebookTypeOK /\ [CasebookNext]_casebookVars => CasebookTypeOK'
  <2> SUFFICES ASSUME CasebookTypeOK, [CasebookNext]_casebookVars
               PROVE  CasebookTypeOK'
    OBVIOUS
  <2>1. ASSUME NEW c \in Case, NEW d \in Catalog, LandDetection(c, d)
        PROVE  CasebookTypeOK'
    BY <2>1 DEF LandDetection, CasebookTypeOK
  <2>2. ASSUME NEW c \in Case, StoreDetection(c)
        PROVE  CasebookTypeOK'
    BY <2>2 DEF StoreDetection, CasebookTypeOK
  <2>3. ASSUME NEW c \in Case, NEW verdict \in Verdict, Resolve(c, verdict)
        PROVE  CasebookTypeOK'
    BY <2>3 DEF Resolve, CasebookTypeOK
  <2>4. CASE UNCHANGED casebookVars
    BY <2>4 DEF casebookVars, CasebookTypeOK
  <2>5. \A c \in Case : RaisedIn[c] \subseteq Catalog
    BY CasebookAssumption
  <2>. QED
    BY <2>1, <2>2, <2>3, <2>4, <2>5 DEF CasebookNext
<1>. QED
  BY <1>1, <1>2, PTL DEF CasebookSpec

\* A further word that replaces no earlier filter keeps what the query asked.
LEMMA QueryGrows ==
    ASSUME NEW W, NEW words \in Seq(W), NEW word, Refines(words, word)
    PROVE  /\ ParseQuery(words).terms \subseteq ParseQuery(Append(words, word)).terms
           /\ ParseQuery(words).filters \subseteq ParseQuery(Append(words, word)).filters
<1> DEFINE longer == Append(words, word)
<1>1. /\ DOMAIN words = 1..Len(words) /\ Len(words) \in Nat
      /\ DOMAIN longer = 1..(Len(words) + 1)
      /\ \A n \in DOMAIN words : longer[n] = words[n]
      /\ longer[Len(words) + 1] = word
  OBVIOUS
<1> HIDE DEF longer
<1>2. ParseQuery(words).terms \subseteq ParseQuery(longer).terms
  BY <1>1 DEF ParseQuery
<1>3. ASSUME NEW n \in DOMAIN words, IsFilter(words[n]),
             \A m \in DOMAIN words : IsFilter(words[m]) /\ m > n => words[m].key # words[n].key
      PROVE  \A m \in DOMAIN longer :
                IsFilter(longer[m]) /\ m > n => longer[m].key # longer[n].key
  <2> SUFFICES ASSUME NEW m \in DOMAIN longer, IsFilter(longer[m]), m > n
               PROVE  longer[m].key # longer[n].key
    OBVIOUS
  <2>1. CASE m \in DOMAIN words
    BY <1>1, <1>3, <2>1
  <2>2. CASE m = Len(words) + 1
    <3>1. IsFilter(word)
      BY <1>1, <2>2
    <3>2. words[n].key # word.key
      BY <3>1, <1>3 DEF Refines
    <3>. QED
      BY <3>2, <2>2, <1>1
  <2>. QED
    BY <2>1, <2>2, <1>1
<1>4. ParseQuery(words).filters \subseteq ParseQuery(longer).filters
  BY <1>1, <1>3 DEF ParseQuery
<1>. QED
  BY <1>2, <1>4 DEF longer

\* A typed word asks for something, so no query of words is empty.
LEMMA QueryAsks ==
    ASSUME NEW W, NEW words \in Seq(W), words # <<>>
    PROVE  ~IsEmptyQuery(ParseQuery(words))
<1>1. Len(words) \in DOMAIN words /\ \A m \in DOMAIN words : ~(m > Len(words))
  OBVIOUS
<1>2. CASE IsFilter(words[Len(words)])
  BY <1>1, <1>2 DEF ParseQuery, IsEmptyQuery
<1>3. CASE ~IsFilter(words[Len(words)])
  BY <1>1, <1>3 DEF ParseQuery, IsEmptyQuery
<1>. QED
  BY <1>2, <1>3

\* A query that asks for more finds no incident that one that asks for less does not.
LEMMA FindsNarrows ==
    ASSUME NEW row, NEW dets, NEW short, NEW long,
           short.terms \subseteq long.terms, short.filters \subseteq long.filters,
           ~IsEmptyQuery(short), Finds(row, dets, long)
    PROVE  Finds(row, dets, short)
<1>1. IncidentFieldMatch(row, short)
  BY DEF Finds, IsHit, IncidentFieldMatch
<1>2. CASE IsWholesale(short)
  BY <1>1, <1>2 DEF Finds, IsHit
<1>3. CASE ~IsWholesale(short)
  <2>1. ~IsWholesale(long)
    BY <1>3 DEF IsWholesale, HasDetectionFilter
  <2>2. CASE \E d \in dets : DetectionMatches(d, long)
    BY <1>1, <2>2 DEF Finds, IsHit, DetectionMatches
  <2>3. CASE MatchesText(row, long)
    <3>1. ~HasDetectionFilter(short)
      BY <2>3 DEF MatchesText, HasDetectionFilter
    <3>2. short.terms # {}
      BY <3>1, <1>3 DEF IsWholesale
    <3>. QED
      BY <1>1, <2>3, <3>1, <3>2 DEF Finds, IsHit, MatchesText
  <2>. QED
    BY <2>1, <2>2, <2>3 DEF Finds, IsHit
<1>. QED
  BY <1>2, <1>3

\* Each word an analyst adds narrows the answer of the search, whatever is on
\* record.
THEOREM SearchNarrowing == CasebookSpec => []SearchNarrows
<1>1. SearchNarrows
  <2> SUFFICES ASSUME NEW c \in Raised, NEW refinement \in Refinements,
                      Finds(SearchedRow(c), SearchedDetections(c), refinement[2])
               PROVE  Finds(SearchedRow(c), SearchedDetections(c), refinement[1])
    BY DEF SearchNarrows
  <2> DEFINE typed == {<<w>> : w \in Words} \cup (Words \X Words)
  <2>0. PICK refined \in {r \in typed \X Words : Refines(r[1], r[2])} :
            refinement = <<ParseQuery(refined[1]), ParseQuery(Append(refined[1], refined[2]))>>
    BY DEF Refinements
  <2> DEFINE words == refined[1]
             word == refined[2]
  <2>1. /\ words \in typed /\ word \in Words /\ Refines(words, word)
        /\ refinement[1] = ParseQuery(words)
        /\ refinement[2] = ParseQuery(Append(words, word))
    BY <2>0
  <2> HIDE DEF words, word
  <2>2. words \in Seq(Words) /\ words # <<>>
    <3>1. CASE words \in {<<w>> : w \in Words}
      <4>1. PICK w \in Words : words = <<w>>
        BY <3>1
      <4>. QED
        BY <4>1
    <3>2. CASE words \in Words \X Words
      <4>1. PICK v \in Words, w \in Words : words = <<v, w>>
        BY <3>2
      <4>. QED
        BY <4>1
    <3>. QED
      BY <2>1, <3>1, <3>2
  <2>3. /\ refinement[1].terms \subseteq refinement[2].terms
        /\ refinement[1].filters \subseteq refinement[2].filters
    BY <2>1, <2>2, QueryGrows
  <2>4. ~IsEmptyQuery(refinement[1])
    BY <2>1, <2>2, QueryAsks
  <2>. QED
    BY <2>3, <2>4, FindsNarrows
<1>. QED
  BY <1>1, PTL

-----------------------------------------------------------------------------
(* Folds over a sequence, from the left.                                   *)

(* The last position is the greatest. *)
LEMMA LastIsMax ==
    ASSUME NEW m \in Nat, NEW s \in SUBSET (0..m), m \in s
    PROVE  Max(s) = m
<1>1. m \in s /\ \A y \in s : m >= y
  OBVIOUS
<1>2. \A x \in s : (\A y \in s : x >= y) => x = m
  OBVIOUS
<1> QED BY <1>1, <1>2 DEF Max

(* Any bounded set of positions has a greatest. *)
LEMMA MaxIsIn ==
    ASSUME NEW N \in Nat
    PROVE  \A s \in SUBSET (0..N) : s # {} => Max(s) \in s /\ \A x \in s : Max(s) >= x
<1> DEFINE HasMax(s) == s # {} => Max(s) \in s /\ \A x \in s : Max(s) >= x
           Good == {m \in Nat : \A s \in SUBSET (0..m) : HasMax(s)}
<1>1. ASSUME NEW m \in Nat, NEW s \in SUBSET (0..m), m \in s PROVE HasMax(s)
  <2>1. Max(s) = m
    BY <1>1, LastIsMax
  <2> QED BY <1>1, <2>1
<1> HIDE DEF HasMax
<1>2. 0 \in Good
  <2> SUFFICES ASSUME NEW s \in SUBSET (0..0) PROVE HasMax(s)
    OBVIOUS
  <2>1. CASE s = {}
    BY <2>1 DEF HasMax
  <2>2. CASE 0 \in s
    BY <1>1, <2>2
  <2> QED BY <2>1, <2>2
<1>3. ASSUME NEW m \in Nat, m \in Good PROVE m + 1 \in Good
  <2> SUFFICES ASSUME NEW s \in SUBSET (0..(m + 1)) PROVE HasMax(s)
    OBVIOUS
  <2>1. CASE m + 1 \in s
    BY <1>1, <2>1
  <2>2. CASE m + 1 \notin s
    <3>1. s \in SUBSET (0..m)
      BY <2>2
    <3> QED BY <1>3, <3>1
  <2> QED BY <2>1, <2>2
<1> HIDE DEF Good
<1>4. N \in Good
  BY <1>2, <1>3, SetInduction
<1> QED BY <1>4 DEF Good, HasMax

\* A function on the positions that goes from a set to the set without its
\* greatest element.
FoldsTo(f, m, start, step) ==
    \A s \in SUBSET (1..m) :
        f[s] = IF s = {} THEN start ELSE step[Max(s)][f[s \ {Max(s)}]]

(* Such a function exists whatever the steps do. *)
LEMMA FoldExists ==
    ASSUME NEW N \in Nat, NEW T, NEW start \in T, NEW step \in [1..N -> [T -> T]]
    PROVE  \E f \in [SUBSET (1..N) -> T] : FoldsTo(f, N, start, step)
<1> DEFINE Upto(m) == \E f \in [SUBSET (1..m) -> T] : FoldsTo(f, m, start, step)
           Good == {m \in Nat : m <= N => Upto(m)}
<1> HIDE DEF Upto
<1>1. 0 \in Good
  <2> DEFINE f == [s \in SUBSET (1..0) |-> start]
  <2>1. f \in [SUBSET (1..0) -> T]
    OBVIOUS
  <2>2. \A s \in SUBSET (1..0) : s = {} /\ f[s] = start
    OBVIOUS
  <2> HIDE DEF f
  <2>3. FoldsTo(f, 0, start, step)
    BY <2>2 DEF FoldsTo
  <2> QED BY <2>1, <2>3 DEF Upto
<1>2. ASSUME NEW m \in Nat, m \in Good PROVE m + 1 \in Good
  <2> SUFFICES ASSUME m + 1 <= N PROVE Upto(m + 1)
    OBVIOUS
  <2>0. Upto(m)
    BY <1>2
  <2>1. PICK f \in [SUBSET (1..m) -> T] : FoldsTo(f, m, start, step)
    BY <2>0 DEF Upto
  <2>2. m + 1 \in 1..N /\ step[m + 1] \in [T -> T]
    OBVIOUS
  <2> DEFINE g == [s \in SUBSET (1..(m + 1)) |->
                      IF m + 1 \in s THEN step[m + 1][f[s \ {m + 1}]] ELSE f[s]]
  <2>3. \A s \in SUBSET (1..(m + 1)) :
           IF m + 1 \in s THEN s \ {m + 1} \in SUBSET (1..m) ELSE s \in SUBSET (1..m)
    OBVIOUS
  <2>4. g \in [SUBSET (1..(m + 1)) -> T]
    BY <2>1, <2>2, <2>3
  <2>5. \A s \in SUBSET (1..(m + 1)) :
           g[s] = IF m + 1 \in s THEN step[m + 1][f[s \ {m + 1}]] ELSE f[s]
    OBVIOUS
  <2>6. \A s \in SUBSET (1..m) : s \in SUBSET (1..(m + 1)) /\ m + 1 \notin s
    OBVIOUS
  <2> HIDE DEF g
  <2>7. ASSUME NEW s \in SUBSET (1..(m + 1))
        PROVE  g[s] = IF s = {} THEN start ELSE step[Max(s)][g[s \ {Max(s)}]]
    <3>1. CASE m + 1 \in s
      <4>0. s \in SUBSET (0..(m + 1)) /\ m + 1 \in Nat
        OBVIOUS
      <4>1. Max(s) = m + 1 /\ s # {}
        BY <3>1, <4>0, LastIsMax
      <4>2. g[s \ {m + 1}] = f[s \ {m + 1}]
        BY <3>1, <2>3, <2>5, <2>6
      <4> QED BY <2>5, <3>1, <4>1, <4>2
    <3>2. CASE m + 1 \notin s
      <4>1. s \in SUBSET (1..m) /\ s \ {Max(s)} \in SUBSET (1..m)
        BY <2>3, <3>2
      <4>2. g[s] = f[s] /\ g[s \ {Max(s)}] = f[s \ {Max(s)}]
        BY <2>5, <2>6, <4>1
      <4> QED BY <2>1, <4>1, <4>2 DEF FoldsTo
    <3> QED BY <3>1, <3>2
  <2>8. FoldsTo(g, m + 1, start, step)
    BY <2>7 DEF FoldsTo
  <2> QED BY <2>4, <2>8 DEF Upto
<1> HIDE DEF Good
<1>3. N \in Good
  BY <1>1, <1>2, SetInduction
<1>4. Upto(N)
  BY <1>3 DEF Good
<1> QED BY <1>4 DEF Upto

(* The positions up to one of them, without their greatest. *)
LEMMA UpToPosition ==
    ASSUME NEW N \in Nat, NEW n \in 1..N
    PROVE  /\ 1..n \in SUBSET (1..N) /\ 1..n # {}
           /\ Max(1..n) = n /\ (1..n) \ {Max(1..n)} = 1..(n - 1)
<1>1. n \in Nat /\ 1..n \in SUBSET (0..n) /\ n \in 1..n
  OBVIOUS
<1>2. Max(1..n) = n
  BY <1>1, LastIsMax
<1>3. (1..n) \ {n} = 1..(n - 1)
  OBVIOUS
<1> QED BY <1>2, <1>3

-----------------------------------------------------------------------------
(* Severity.                                                               *)

Points(c, n) == SeverityScore[members[c][n].severity]

(* The score of a case is a running total over its detections. *)
LEMMA ScoreSteps ==
    ASSUME CasebookTypeOK, NEW c \in Case
    PROVE  \E total : /\ total[0] = 0 /\ total[Len(members[c])] = ScoreOf(c)
                      /\ \A n \in 1..Len(members[c]) : total[n] = total[n - 1] + Points(c, n)
<1> DEFINE N == Len(members[c])
           step == [n \in 1..N |-> [x \in Nat |-> x + Points(c, n)]]
<1>1. /\ N \in Nat /\ members[c] \in Seq(Catalog) /\ DOMAIN members[c] = 1..N
      /\ \A n \in 1..N : members[c][n] \in Catalog
  BY DEF CasebookTypeOK
<1>2. \A n \in 1..N : Points(c, n) \in Nat
  BY <1>1, CasebookAssumption DEF Points, SeverityScore, Rank
<1>3. step \in [1..N -> [Nat -> Nat]]
  BY <1>2
<1>4. \A n \in 1..N, x \in Nat : step[n][x] = x + Points(c, n)
  OBVIOUS
<1> HIDE DEF N, step
<1>5. PICK g \in [SUBSET (1..N) -> Nat] : FoldsTo(g, N, 0, step)
  BY <1>1, <1>3, FoldExists
<1>6. g = [s \in SUBSET (1..N) |->
             IF s = {} THEN 0 ELSE g[s \ {Max(s)}] + Points(c, Max(s))]
  <2> SUFFICES ASSUME NEW s \in SUBSET (1..N)
               PROVE  g[s] = IF s = {} THEN 0 ELSE g[s \ {Max(s)}] + Points(c, Max(s))
    OBVIOUS
  <2>1. g[s] = IF s = {} THEN 0 ELSE step[Max(s)][g[s \ {Max(s)}]]
    BY <1>5 DEF FoldsTo
  <2>2. s # {} => Max(s) \in 1..N
    <3>1. s \in SUBSET (0..N)
      OBVIOUS
    <3> QED BY <1>1, <3>1, MaxIsIn
  <2>3. s \ {Max(s)} \in SUBSET (1..N)
    OBVIOUS
  <2>4. g[s \ {Max(s)}] \in Nat
    BY <2>3
  <2> QED BY <1>4, <2>1, <2>2, <2>4
<1>7. PICK f : /\ f = [s \in SUBSET (1..N) |->
                         IF s = {} THEN 0 ELSE f[s \ {Max(s)}] + Points(c, Max(s))]
               /\ ScoreOf(c) = f[1..N]
  BY <1>1, <1>6, Zenon DEF ScoreOf, FoldLeft, MapThenFoldSet, Points
<1> DEFINE total == [n \in 0..N |-> f[1..n]]
<1>8. f[1..0] = 0
  BY <1>7
<1>9. \A n \in 1..N : f[1..n] = f[1..(n - 1)] + Points(c, n)
  BY <1>1, <1>7, UpToPosition
<1>10. \A n \in 0..N : total[n] = f[1..n]
  OBVIOUS
<1> HIDE DEF total
<1>11. total[0] = 0 /\ total[N] = ScoreOf(c)
  <2>1. 0 \in 0..N /\ N \in 0..N
    BY <1>1
  <2> QED BY <1>7, <1>8, <1>10, <2>1
<1>12. ASSUME NEW n \in 1..N PROVE total[n] = total[n - 1] + Points(c, n)
  <2>1. n \in 0..N /\ n - 1 \in 0..N
    BY <1>1
  <2> QED BY <1>9, <1>10, <2>1
<1> QED BY <1>11, <1>12 DEF N

(* It is at least each of them. *)
LEMMA ScoreIsAtLeast ==
    ASSUME CasebookTypeOK, NEW c \in Case
    PROVE  ScoreOf(c) \in Nat /\ \A n \in DOMAIN members[c] : ScoreOf(c) >= Points(c, n)
<1> DEFINE N == Len(members[c])
<1>1. /\ N \in Nat /\ DOMAIN members[c] = 1..N
      /\ \A n \in 1..N : members[c][n] \in Catalog
  BY DEF CasebookTypeOK
<1>2. \A n \in 1..N : Points(c, n) \in Nat
  BY <1>1, CasebookAssumption DEF Points, SeverityScore, Rank
<1>3. PICK total : /\ total[0] = 0 /\ total[N] = ScoreOf(c)
                   /\ \A n \in 1..N : total[n] = total[n - 1] + Points(c, n)
  BY ScoreSteps
<1> HIDE DEF N
<1> DEFINE Good == {m \in Nat : m <= N => /\ total[m] \in Nat
                                          /\ \A n \in 1..m : total[m] >= Points(c, n)}
<1>4. 0 \in Good
  BY <1>3
<1>5. ASSUME NEW m \in Nat, m \in Good PROVE m + 1 \in Good
  <2> SUFFICES ASSUME m + 1 <= N
               PROVE  /\ total[m + 1] \in Nat
                      /\ \A n \in 1..(m + 1) : total[m + 1] >= Points(c, n)
    OBVIOUS
  <2>1. total[m] \in Nat /\ \A n \in 1..m : total[m] >= Points(c, n)
    BY <1>1, <1>5
  <2>2. m + 1 \in 1..N /\ (m + 1) - 1 = m
    BY <1>1
  <2>3. total[m + 1] = total[m] + Points(c, m + 1) /\ Points(c, m + 1) \in Nat
    BY <1>2, <1>3, <2>2
  <2>4. ASSUME NEW n \in 1..(m + 1) PROVE total[m + 1] >= Points(c, n)
    <3>1. Points(c, n) \in Nat
      BY <1>1, <1>2
    <3>2. CASE n = m + 1
      BY <2>1, <2>3, <3>2
    <3>3. CASE n \in 1..m
      BY <2>1, <2>3, <3>1, <3>3
    <3> QED BY <3>2, <3>3
  <2> QED BY <2>1, <2>3, <2>4
<1> HIDE DEF Good
<1>6. N \in Good
  BY <1>1, <1>4, <1>5, SetInduction
<1> QED BY <1>1, <1>3, <1>6 DEF Good

(* A critical score is the score of an alert, as long as two high detections
   make one. *)
LEMMA CriticalAlerts ==
    ASSUME CasebookTypeOK, NEW c \in Case, Threshold <= 16, ScoreOf(c) >= 14
    PROVE  SearchedRow(c).actionable
<1> DEFINE N == Len(members[c])
<1>1. /\ N \in Nat /\ DOMAIN members[c] = 1..N
      /\ \A n \in 1..N : members[c][n] \in Catalog
  BY DEF CasebookTypeOK
<1>2. SUFFICES ASSUME \A n \in 1..N : members[c][n].severity # "critical", N < 3
               PROVE  ScoreOf(c) >= Threshold
  BY <1>1 DEF SearchedRow, IsActionable
<1>3. \A n \in 1..N : Points(c, n) \in {1, 3, 5, 8}
  BY <1>1, <1>2, CasebookAssumption DEF Points, SeverityScore, Rank
<1>4. PICK total : /\ total[0] = 0 /\ total[N] = ScoreOf(c)
                   /\ \A n \in 1..N : total[n] = total[n - 1] + Points(c, n)
  BY ScoreSteps
<1> HIDE DEF N
<1>5. CASE N = 0
  BY <1>4, <1>5
<1>6. CASE N = 1
  <2>1. total[1] = total[0] + Points(c, 1) /\ Points(c, 1) <= 8
    BY <1>3, <1>4, <1>6
  <2> QED BY <1>3, <1>4, <1>6, <2>1
<1>7. CASE N = 2
  <2>1. /\ total[1] = total[0] + Points(c, 1) /\ total[2] = total[1] + Points(c, 2)
        /\ Points(c, 1) \in {1, 3, 5, 8} /\ Points(c, 2) \in {1, 3, 5, 8}
    BY <1>3, <1>4, <1>7
  <2>2. ScoreOf(c) = Points(c, 1) + Points(c, 2)
    BY <1>4, <1>7, <2>1
  <2>3. ScoreOf(c) = 16
    BY <2>1, <2>2
  <2> QED BY <2>3, ThresholdAssumption
<1> QED BY <1>1, <1>2, <1>5, <1>6, <1>7

\* An incident never ranks below its worst detection, and one that ranks
\* critical is an alert.  The threshold is a setting, 12 by default: above 16 two
\* high detections would rank critical without one.
THEOREM SeverityIsDominant ==
    ASSUME Threshold <= 16
    PROVE  CasebookSpec => []SeverityDominates
<1>1. ASSUME CasebookTypeOK PROVE SeverityDominates
  <2> SUFFICES ASSUME NEW c \in Raised
               PROVE  LET band == ScoreToSeverity(ScoreOf(c))
                      IN  /\ \A n \in DOMAIN members[c] :
                                Rank[band] >= Rank[members[c][n].severity]
                          /\ band = "critical" => SearchedRow(c).actionable
    BY DEF SeverityDominates
  <2>1. c \in Case /\ ScoreOf(c) \in Nat
    BY <1>1, ScoreIsAtLeast DEF Raised
  <2>2. ASSUME NEW n \in DOMAIN members[c]
        PROVE  Rank[ScoreToSeverity(ScoreOf(c))] >= Rank[members[c][n].severity]
    <3>1. members[c][n].severity \in {"info", "low", "medium", "high", "critical"}
      <4>1. members[c][n] \in Catalog
        BY <1>1, <2>1 DEF CasebookTypeOK
      <4> QED BY <4>1, CasebookAssumption DEF Rank
    <3>2. ScoreOf(c) >= SeverityScore[members[c][n].severity]
      BY <1>1, <2>1, ScoreIsAtLeast DEF Points
    <3> QED BY <2>1, <3>1, <3>2 DEF ScoreToSeverity, Rank, SeverityScore
  <2>3. ScoreToSeverity(ScoreOf(c)) = "critical" => ScoreOf(c) >= 14
    BY <2>1 DEF ScoreToSeverity
  <2>4. ScoreToSeverity(ScoreOf(c)) = "critical" => SearchedRow(c).actionable
    BY <1>1, <2>1, <2>3, CriticalAlerts
  <2> QED BY <2>2, <2>4
<1> QED BY <1>1, CasebookTypeCorrect, PTL

-----------------------------------------------------------------------------
(* Lists without repetition.                                               *)

(* A finite set has a list of its elements, each once. *)
LEMMA SetIsListed ==
    ASSUME NEW S, IsFiniteSet(S)
    PROVE  SetToSeq(S) \in Seq(S) /\ IsInjective(SetToSeq(S)) /\ ToSet(SetToSeq(S)) = S
<1> DEFINE n == Cardinality(S)
<1>1. n \in Nat /\ ExistsBijection(1..n, S)
  BY FS_CardinalityType
<1>2. \E f \in [1..n -> S] : IsInjective(f)
  BY <1>1, Zenon DEF ExistsBijection, Bijection, Injection
<1>3. SetToSeq(S) \in [1..n -> S] /\ IsInjective(SetToSeq(S))
  BY <1>2, Zenon DEF SetToSeq
<1>4. SetToSeq(S) \in Surjection(1..n, S)
  <2>1. SetToSeq(S) \in Injection(1..n, S)
    BY <1>3, Zenon DEF Injection
  <2>2. IsFiniteSet(1..n) /\ Cardinality(1..n) = n
    BY <1>1, FS_Interval
  <2> QED BY <2>1, <2>2, FS_Injection
<1>5. SetToSeq(S) \in Seq(S)
  BY <1>1, <1>3
<1>6. ToSet(SetToSeq(S)) = S
  BY <1>3, <1>4 DEF ToSet, Surjection
<1> QED BY <1>3, <1>5, <1>6

(* Two lists one after the other. *)
LEMMA ListsJoin ==
    ASSUME NEW S, NEW s \in Seq(S), NEW t \in Seq(S)
    PROVE  /\ s \o t \in Seq(S) /\ ToSet(s \o t) = ToSet(s) \cup ToSet(t)
           /\ IsInjective(s) /\ IsInjective(t) /\ ToSet(s) \cap ToSet(t) = {}
                 => IsInjective(s \o t)
<1> DEFINE st == s \o t
<1>1. /\ st \in Seq(S) /\ Len(s) \in Nat /\ Len(t) \in Nat
      /\ DOMAIN s = 1..Len(s) /\ DOMAIN t = 1..Len(t) /\ DOMAIN st = 1..(Len(s) + Len(t))
      /\ \A n \in DOMAIN s : n \in DOMAIN st /\ st[n] = s[n]
      /\ \A n \in DOMAIN t : Len(s) + n \in DOMAIN st /\ st[Len(s) + n] = t[n]
  OBVIOUS
<1> HIDE DEF st
<1>2. \A k \in DOMAIN st : \/ k \in DOMAIN s /\ st[k] = s[k]
                           \/ k - Len(s) \in DOMAIN t /\ st[k] = t[k - Len(s)]
  <2> SUFFICES ASSUME NEW k \in DOMAIN st, k \notin DOMAIN s
               PROVE  k - Len(s) \in DOMAIN t /\ st[k] = t[k - Len(s)]
    BY <1>1
  <2>1. k - Len(s) \in DOMAIN t /\ Len(s) + (k - Len(s)) = k
    BY <1>1
  <2> QED BY <1>1, <2>1
<1>3. ToSet(st) = ToSet(s) \cup ToSet(t)
  <2>1. ASSUME NEW x \in ToSet(st) PROVE x \in ToSet(s) \cup ToSet(t)
    BY <1>2 DEF ToSet
  <2>2. ASSUME NEW x \in ToSet(s) PROVE x \in ToSet(st)
    BY <1>1 DEF ToSet
  <2>3. ASSUME NEW x \in ToSet(t) PROVE x \in ToSet(st)
    BY <1>1 DEF ToSet
  <2> QED BY <2>1, <2>2, <2>3
<1>4. ASSUME IsInjective(s), IsInjective(t), ToSet(s) \cap ToSet(t) = {}
      PROVE  IsInjective(st)
  <2> SUFFICES ASSUME NEW a \in DOMAIN st, NEW b \in DOMAIN st, st[a] = st[b]
               PROVE  a = b
    BY DEF IsInjective
  <2>1. \A m \in DOMAIN s, n \in DOMAIN t : s[m] # t[n]
    BY <1>4 DEF ToSet
  <2>2. CASE a \in DOMAIN s /\ st[a] = s[a] /\ b \in DOMAIN s /\ st[b] = s[b]
    BY <1>4, <2>2 DEF IsInjective
  <2>3. CASE a - Len(s) \in DOMAIN t /\ st[a] = t[a - Len(s)]
             /\ b - Len(s) \in DOMAIN t /\ st[b] = t[b - Len(s)]
    <3>1. a - Len(s) = b - Len(s)
      BY <1>4, <2>3 DEF IsInjective
    <3> QED BY <1>1, <3>1
  <2> QED BY <1>2, <2>1, <2>2, <2>3
<1> QED BY <1>1, <1>3, <1>4 DEF st

(* Adding to a list without repetition leaves none. *)
LEMMA AddNewAdds ==
    ASSUME NEW S, NEW list \in Seq(S), NEW found \in SUBSET S, IsFiniteSet(found)
    PROVE  /\ AddNew(list, found) \in Seq(S)
           /\ ToSet(AddNew(list, found)) = ToSet(list) \cup found
           /\ IsInjective(list) => IsInjective(AddNew(list, found))
<1> DEFINE more == found \ ToSet(list)
<1>1. IsFiniteSet(more)
  BY FS_Subset
<1>2. /\ SetToSeq(more) \in Seq(more) /\ IsInjective(SetToSeq(more))
      /\ ToSet(SetToSeq(more)) = more
  BY <1>1, SetIsListed
<1>3. SetToSeq(more) \in Seq(S)
  BY <1>2
<1>4. /\ list \o SetToSeq(more) \in Seq(S)
      /\ ToSet(list \o SetToSeq(more)) = ToSet(list) \cup ToSet(SetToSeq(more))
      /\ IsInjective(list) /\ IsInjective(SetToSeq(more))
         /\ ToSet(list) \cap ToSet(SetToSeq(more)) = {} => IsInjective(list \o SetToSeq(more))
  BY <1>3, ListsJoin
<1>5. AddNew(list, found) = list \o SetToSeq(more)
  BY DEF AddNew
<1> HIDE DEF more
<1> QED BY <1>2, <1>4, <1>5 DEF more

(* Gathering lists what the sources give, each thing once. *)
LEMMA GatherLists ==
    ASSUME NEW S, NEW found \in Seq(SUBSET S), \A given \in ToSet(found) : IsFiniteSet(given)
    PROVE  /\ Gather(found) \in Seq(S) /\ IsInjective(Gather(found))
           /\ ToSet(Gather(found)) = UNION ToSet(found)
<1> DEFINE N == Len(found)
           step == [n \in 1..N |-> [list \in Seq(S) |-> AddNew(list, found[n])]]
<1>1. /\ N \in Nat /\ DOMAIN found = 1..N
      /\ \A n \in 1..N : found[n] \in SUBSET S /\ IsFiniteSet(found[n])
  BY DEF ToSet
<1>2. ASSUME NEW n \in 1..N, NEW list \in Seq(S)
      PROVE  /\ AddNew(list, found[n]) \in Seq(S)
             /\ ToSet(AddNew(list, found[n])) = ToSet(list) \cup found[n]
             /\ IsInjective(list) => IsInjective(AddNew(list, found[n]))
  BY <1>1, AddNewAdds
<1>3. step \in [1..N -> [Seq(S) -> Seq(S)]]
  BY <1>2
<1>4. \A n \in 1..N, list \in Seq(S) : step[n][list] = AddNew(list, found[n])
  OBVIOUS
<1>5. <<>> \in Seq(S)
  OBVIOUS
<1> HIDE DEF N, step
<1>6. PICK g \in [SUBSET (1..N) -> Seq(S)] : FoldsTo(g, N, <<>>, step)
  BY <1>1, <1>3, <1>5, FoldExists
<1>7. g = [s \in SUBSET (1..N) |->
             IF s = {} THEN <<>> ELSE AddNew(g[s \ {Max(s)}], found[Max(s)])]
  <2> SUFFICES ASSUME NEW s \in SUBSET (1..N)
               PROVE  g[s] = IF s = {} THEN <<>> ELSE AddNew(g[s \ {Max(s)}], found[Max(s)])
    OBVIOUS
  <2>1. g[s] = IF s = {} THEN <<>> ELSE step[Max(s)][g[s \ {Max(s)}]]
    BY <1>6 DEF FoldsTo
  <2>2. s # {} => Max(s) \in 1..N
    <3>1. s \in SUBSET (0..N)
      OBVIOUS
    <3> QED BY <1>1, <3>1, MaxIsIn
  <2>3. s \ {Max(s)} \in SUBSET (1..N)
    OBVIOUS
  <2>4. g[s \ {Max(s)}] \in Seq(S)
    BY <2>3
  <2> QED BY <1>4, <2>1, <2>2, <2>4
<1>8. PICK f : /\ f = [s \in SUBSET (1..N) |->
                         IF s = {} THEN <<>> ELSE AddNew(f[s \ {Max(s)}], found[Max(s)])]
               /\ Gather(found) = f[1..N]
  BY <1>1, <1>7, Zenon DEF Gather, FoldLeft, MapThenFoldSet
<1> DEFINE Lists(m) == /\ f[1..m] \in Seq(S) /\ IsInjective(f[1..m])
                        /\ ToSet(f[1..m]) = UNION {found[n] : n \in 1..m}
           Good == {m \in Nat : m <= N => Lists(m)}
<1> HIDE DEF Lists
<1>9. 0 \in Good
  <2>1. 1..0 = {} /\ {} \in SUBSET (1..N)
    OBVIOUS
  <2>2. f[1..0] = <<>>
    BY <1>8, <2>1
  <2>3. IsInjective(<<>>) /\ ToSet(<<>>) = {}
    BY DEF IsInjective, ToSet
  <2>4. UNION {found[n] : n \in 1..0} = {}
    BY <2>1
  <2> QED BY <1>5, <2>2, <2>3, <2>4 DEF Lists
<1>10. ASSUME NEW m \in Nat, m \in Good PROVE m + 1 \in Good
  <2> SUFFICES ASSUME m + 1 <= N PROVE Lists(m + 1)
    OBVIOUS
  <2>1. Lists(m) /\ m + 1 \in 1..N /\ (m + 1) - 1 = m
    BY <1>1, <1>10
  <2>2. f[1..(m + 1)] = AddNew(f[1..m], found[m + 1])
    <3>1. /\ 1..(m + 1) \in SUBSET (1..N) /\ 1..(m + 1) # {}
          /\ Max(1..(m + 1)) = m + 1 /\ (1..(m + 1)) \ {Max(1..(m + 1))} = 1..m
      BY <1>1, <2>1, UpToPosition
    <3> QED BY <1>8, <3>1
  <2>3. UNION {found[n] : n \in 1..(m + 1)} = (UNION {found[n] : n \in 1..m}) \cup found[m + 1]
    <3>1. 1..(m + 1) = (1..m) \cup {m + 1}
      OBVIOUS
    <3> QED BY <3>1
  <2> QED BY <1>2, <2>1, <2>2, <2>3 DEF Lists
<1> HIDE DEF Good
<1>11. N \in Good
  BY <1>1, <1>9, <1>10, SetInduction
<1>12. Lists(N)
  BY <1>1, <1>11 DEF Good
<1>13. {found[n] : n \in 1..N} = ToSet(found)
  BY <1>1 DEF ToSet
<1> QED BY <1>8, <1>12, <1>13 DEF Lists

-----------------------------------------------------------------------------
(* The STIX bundle.                                                        *)

(* A function on the first positions is a list. *)
LEMMA FunctionIsList ==
    ASSUME NEW T, NEW n \in Nat, NEW f \in [1..n -> T]
    PROVE  f \in Seq(T)
OBVIOUS

DestinationOf(d) == [ip |-> d.ip, port |-> d.port, hostname |-> d.hostname]

(* Every address, hash and key of the detections is among their indicators. *)
LEMMA IndicatorsGathered ==
    ASSUME NEW D, NEW rows \in Seq(D)
    PROVE  /\ \E S : Destinations(rows) \in Seq(S)
           /\ \E S : Hashes(rows) \in Seq(S)
           /\ \E S : RegistryPersistence(rows) \in Seq(S)
           /\ \A d \in ToSet(rows) :
                 /\ d.ip # None => DestinationOf(d) \in ToSet(Destinations(rows))
                 /\ d.sha256 # None => d.sha256 \in ToSet(Hashes(rows))
                 /\ d.registryKey # None => d.registryKey \in ToSet(RegistryPersistence(rows))
<1> DEFINE dests == [n \in DOMAIN rows |->
                        {dest \in {DestinationOf(rows[n])} : dest.ip # None}]
           hashes == [n \in DOMAIN rows |-> {rows[n].sha256} \ {None}]
           keys == [n \in DOMAIN rows |-> {rows[n].registryKey} \ {None}]
           A == {DestinationOf(rows[n]) : n \in DOMAIN rows}
           B == {rows[n].sha256 : n \in DOMAIN rows}
           C == {rows[n].registryKey : n \in DOMAIN rows}
<1>1. DOMAIN rows = 1..Len(rows) /\ Len(rows) \in Nat
  OBVIOUS
<1>2. dests \in Seq(SUBSET A) /\ hashes \in Seq(SUBSET B) /\ keys \in Seq(SUBSET C)
  <2>1. \A n \in 1..Len(rows) : /\ dests[n] \in SUBSET A /\ hashes[n] \in SUBSET B
                                /\ keys[n] \in SUBSET C
    BY <1>1
  <2> QED BY <1>1, <2>1
<1>3. \A x : \A s \in SUBSET {x} : IsFiniteSet(s)
  BY FS_Singleton, FS_Subset
<1>4. /\ \A given \in ToSet(dests) : IsFiniteSet(given)
      /\ \A given \in ToSet(hashes) : IsFiniteSet(given)
      /\ \A given \in ToSet(keys) : IsFiniteSet(given)
  BY <1>3, Zenon DEF ToSet
<1>5. /\ Destinations(rows) = Gather(dests) /\ Hashes(rows) = Gather(hashes)
      /\ RegistryPersistence(rows) = Gather(keys)
  BY DEF Destinations, Hashes, RegistryPersistence, DestinationOf
<1>6. ASSUME NEW d \in ToSet(rows)
      PROVE  /\ d.ip # None => DestinationOf(d) \in UNION ToSet(dests)
             /\ d.sha256 # None => d.sha256 \in UNION ToSet(hashes)
             /\ d.registryKey # None => d.registryKey \in UNION ToSet(keys)
  <2>1. PICK n \in DOMAIN rows : rows[n] = d
    BY DEF ToSet
  <2>2. dests[n] \in ToSet(dests) /\ hashes[n] \in ToSet(hashes) /\ keys[n] \in ToSet(keys)
    BY DEF ToSet
  <2>3. /\ d.ip # None => DestinationOf(d) \in dests[n]
        /\ d.sha256 # None => d.sha256 \in hashes[n]
        /\ d.registryKey # None => d.registryKey \in keys[n]
    BY <2>1 DEF DestinationOf
  <2> HIDE DEF dests, hashes, keys
  <2> QED BY <2>2, <2>3
<1> HIDE DEF dests, hashes, keys, A, B, C
<1>7. Gather(dests) \in Seq(A) /\ ToSet(Gather(dests)) = UNION ToSet(dests)
  BY <1>2, <1>4, GatherLists
<1>8. Gather(hashes) \in Seq(B) /\ ToSet(Gather(hashes)) = UNION ToSet(hashes)
  BY <1>2, <1>4, GatherLists
<1>9. Gather(keys) \in Seq(C) /\ ToSet(Gather(keys)) = UNION ToSet(keys)
  BY <1>2, <1>4, GatherLists
<1> QED BY <1>5, <1>6, <1>7, <1>8, <1>9

(* The indicator objects of a set of patterns. *)
Indicators(S) == {StixId("indicator", p) : p \in S}

(* Each indicator is an object of its own. *)
LEMMA IndicatorsListed ==
    ASSUME NEW D, NEW rows \in Seq(D)
    PROVE  /\ \E S : IndicatorObjects(rows) \in Seq(Indicators(S))
           /\ IsInjective(IndicatorObjects(rows))
           /\ \A d \in ToSet(rows) :
                 /\ d.ip # None =>
                       StixId("indicator", <<"addr", d.ip>>) \in ToSet(IndicatorObjects(rows))
                 /\ d.sha256 # None =>
                       StixId("indicator", <<"file", d.sha256>>) \in ToSet(IndicatorObjects(rows))
                 /\ d.registryKey # None =>
                       StixId("indicator", <<"windows-registry-key", d.registryKey>>)
                           \in ToSet(IndicatorObjects(rows))
<1> DEFINE dests == Destinations(rows)
           hashes == Hashes(rows)
           keys == RegistryPersistence(rows)
           A == [n \in DOMAIN dests |-> DestinationPatterns(dests[n])]
           B == [n \in DOMAIN hashes |-> {<<"file", hashes[n]>>}]
           C == [n \in DOMAIN keys |-> {<<"windows-registry-key", keys[n]>>}]
           S == (UNION ToSet(A)) \cup (UNION ToSet(B)) \cup (UNION ToSet(C))
           patterns == Gather(A \o B \o C)
<1> HIDE DEF dests, hashes, keys
<1>1. /\ \E T : dests \in Seq(T)
      /\ \E T : hashes \in Seq(T)
      /\ \E T : keys \in Seq(T)
      /\ \A d \in ToSet(rows) : /\ d.ip # None => DestinationOf(d) \in ToSet(dests)
                                /\ d.sha256 # None => d.sha256 \in ToSet(hashes)
                                /\ d.registryKey # None => d.registryKey \in ToSet(keys)
  BY IndicatorsGathered DEF dests, hashes, keys
<1>2. /\ DOMAIN dests = 1..Len(dests) /\ Len(dests) \in Nat
      /\ DOMAIN hashes = 1..Len(hashes) /\ Len(hashes) \in Nat
      /\ DOMAIN keys = 1..Len(keys) /\ Len(keys) \in Nat
  BY <1>1
<1>3. A \in Seq(SUBSET S) /\ B \in Seq(SUBSET S) /\ C \in Seq(SUBSET S)
  <2>1. /\ \A n \in DOMAIN dests : A[n] \in SUBSET S
        /\ \A n \in DOMAIN hashes : B[n] \in SUBSET S
        /\ \A n \in DOMAIN keys : C[n] \in SUBSET S
    BY Zenon DEF ToSet
  <2>2. /\ A \in [1..Len(dests) -> SUBSET S] /\ B \in [1..Len(hashes) -> SUBSET S]
        /\ C \in [1..Len(keys) -> SUBSET S]
    BY <1>2, <2>1, Zenon
  <2> HIDE DEF A, B, C, S
  <2> QED BY <1>2, <2>2, FunctionIsList
<1>4. /\ \A given \in ToSet(A) : IsFiniteSet(given)
      /\ \A given \in ToSet(B) : IsFiniteSet(given)
      /\ \A given \in ToSet(C) : IsFiniteSet(given)
  <2>1. ASSUME NEW dest PROVE IsFiniteSet(DestinationPatterns(dest))
    <3>1. CASE dest.hostname = None
      <4>1. DestinationPatterns(dest) = {<<"addr", dest.ip>>}
        BY <3>1 DEF DestinationPatterns
      <4> QED BY <4>1, FS_Singleton
    <3>2. CASE dest.hostname # None
      <4>1. DestinationPatterns(dest)
               = {<<"addr", dest.ip>>} \cup {<<"domain-name", dest.hostname>>}
        BY <3>2 DEF DestinationPatterns
      <4>2. IsFiniteSet({<<"addr", dest.ip>>})
        BY FS_Singleton
      <4>3. IsFiniteSet({<<"addr", dest.ip>>} \cup {<<"domain-name", dest.hostname>>})
        BY <4>2, FS_AddElement
      <4> QED BY <4>1, <4>3
    <3> QED BY <3>1, <3>2
  <2>2. ASSUME NEW given \in ToSet(A) PROVE IsFiniteSet(given)
    <3>1. PICK n \in DOMAIN dests : given = DestinationPatterns(dests[n])
      BY DEF ToSet
    <3> QED BY <2>1, <3>1
  <2>3. ASSUME NEW given \in ToSet(B) PROVE IsFiniteSet(given)
    <3>1. PICK n \in DOMAIN hashes : given = {<<"file", hashes[n]>>}
      BY DEF ToSet
    <3> QED BY <3>1, FS_Singleton
  <2>4. ASSUME NEW given \in ToSet(C) PROVE IsFiniteSet(given)
    <3>1. PICK n \in DOMAIN keys : given = {<<"windows-registry-key", keys[n]>>}
      BY DEF ToSet
    <3> QED BY <3>1, FS_Singleton
  <2> QED BY <2>2, <2>3, <2>4
<1>5. /\ A \o B \o C \in Seq(SUBSET S)
      /\ ToSet(A \o B \o C) = ToSet(A) \cup ToSet(B) \cup ToSet(C)
  <2> HIDE DEF A, B, C, S
  <2>1. A \o B \in Seq(SUBSET S) /\ ToSet(A \o B) = ToSet(A) \cup ToSet(B)
    BY <1>3, ListsJoin
  <2> DEFINE AB == A \o B
  <2> HIDE DEF AB
  <2>2. AB \in Seq(SUBSET S) /\ ToSet(AB) = ToSet(A) \cup ToSet(B)
    BY <2>1 DEF AB
  <2>3. AB \o C \in Seq(SUBSET S) /\ ToSet(AB \o C) = ToSet(AB) \cup ToSet(C)
    BY <1>3, <2>2, ListsJoin
  <2> QED BY <2>2, <2>3, Zenon DEF AB
<1>6. /\ patterns \in Seq(S) /\ IsInjective(patterns)
      /\ ToSet(patterns) = UNION ToSet(A \o B \o C)
  <2> HIDE DEF A, B, C, S
  <2>1. \A given \in ToSet(A \o B \o C) : IsFiniteSet(given)
    BY <1>4, <1>5
  <2> QED BY <1>5, <2>1, GatherLists
<1> DEFINE objects == [n \in DOMAIN patterns |-> StixId("indicator", patterns[n])]
<1>7. IndicatorObjects(rows) = objects
  BY DEF IndicatorObjects, dests, hashes, keys
<1>8. ASSUME NEW d \in ToSet(rows)
      PROVE  /\ d.ip # None => <<"addr", d.ip>> \in ToSet(patterns)
             /\ d.sha256 # None => <<"file", d.sha256>> \in ToSet(patterns)
             /\ d.registryKey # None => <<"windows-registry-key", d.registryKey>> \in ToSet(patterns)
  <2>1. ASSUME d.ip # None PROVE <<"addr", d.ip>> \in UNION ToSet(A)
    <3>1. PICK n \in DOMAIN dests : dests[n] = DestinationOf(d)
      BY <1>1, <2>1 DEF ToSet
    <3>2. A[n] \in ToSet(A)
      BY DEF ToSet
    <3>3. <<"addr", d.ip>> \in A[n]
      BY <3>1 DEF DestinationPatterns, DestinationOf
    <3> QED BY <3>2, <3>3
  <2>2. ASSUME d.sha256 # None PROVE <<"file", d.sha256>> \in UNION ToSet(B)
    <3>1. PICK n \in DOMAIN hashes : hashes[n] = d.sha256
      BY <1>1, <2>2 DEF ToSet
    <3>2. B[n] \in ToSet(B)
      BY DEF ToSet
    <3>3. <<"file", d.sha256>> \in B[n]
      BY <3>1
    <3> QED BY <3>2, <3>3
  <2>3. ASSUME d.registryKey # None
        PROVE  <<"windows-registry-key", d.registryKey>> \in UNION ToSet(C)
    <3>1. PICK n \in DOMAIN keys : keys[n] = d.registryKey
      BY <1>1, <2>3 DEF ToSet
    <3>2. C[n] \in ToSet(C)
      BY DEF ToSet
    <3>3. <<"windows-registry-key", d.registryKey>> \in C[n]
      BY <3>1
    <3> QED BY <3>2, <3>3
  <2>4. UNION ToSet(A \o B \o C)
           = (UNION ToSet(A)) \cup (UNION ToSet(B)) \cup (UNION ToSet(C))
    <3> HIDE DEF A, B, C, S
    <3> QED BY <1>5
  <2> HIDE DEF A, B, C, S, patterns
  <2> QED BY <1>6, <2>1, <2>2, <2>3, <2>4 DEF patterns
<1> HIDE DEF patterns, A, B, C, S
<1>9. objects \in Seq(Indicators(S))
  <2>1. DOMAIN patterns = 1..Len(patterns) /\ Len(patterns) \in Nat
    BY <1>6
  <2>2. \A n \in DOMAIN patterns : StixId("indicator", patterns[n]) \in Indicators(S)
    BY <1>6 DEF Indicators
  <2> QED BY <2>1, <2>2
<1>10. IsInjective(objects)
  <2> SUFFICES ASSUME NEW a \in DOMAIN patterns, NEW b \in DOMAIN patterns,
                      StixId("indicator", patterns[a]) = StixId("indicator", patterns[b])
               PROVE  a = b
    BY DEF IsInjective
  <2>1. patterns[a] = patterns[b]
    BY DEF StixId
  <2> QED BY <1>6, <2>1 DEF IsInjective
<1>11. \A p \in ToSet(patterns) : StixId("indicator", p) \in ToSet(objects)
  BY DEF ToSet
<1> HIDE DEF objects
<1> QED BY <1>7, <1>8, <1>9, <1>10, <1>11

(* A detection tells finitely many techniques, and so do the detections of a
   case. *)
LEMMA TechniquesAreFinite ==
    ASSUME NEW detections \in Seq(Catalog)
    PROVE  IsFiniteSet(TechniquesOf(detections))
<1> DEFINE N == Len(detections)
           attackOf == [n \in 1..N |-> detections[n].attack]
           attackSets == {attackOf[n] : n \in 1..N}
<1>1. /\ N \in Nat /\ DOMAIN detections = 1..N
      /\ \A n \in 1..N : detections[n] \in Catalog
  OBVIOUS
<1>2. \A given \in attackSets : IsFiniteSet(given)
  BY <1>1, CasebookAssumption
<1>3. TechniquesOf(detections) = UNION attackSets
  BY <1>1 DEF TechniquesOf
<1>4. attackOf \in Surjection(1..N, attackSets)
  BY DEF Surjection
<1> HIDE DEF N, attackOf, attackSets
<1>5. IsFiniteSet(1..N)
  BY <1>1, FS_Interval
<1>6. IsFiniteSet(attackSets)
  BY <1>4, <1>5, FS_Surjection
<1> QED BY <1>2, <1>3, <1>6, FS_UNION

(* And finitely many rules raise them. *)
LEMMA RulesAreFinite ==
    ASSUME NEW m \in Seq(Catalog)
    PROVE  IsFiniteSet(RulesOf(m))
<1> DEFINE N == Len(m)
           ruleOf == [i \in 1..N |-> m[i].rule]
<1>1. N \in Nat /\ DOMAIN m = 1..N
  OBVIOUS
<1>2. ruleOf \in Surjection(1..N, RulesOf(m))
  BY <1>1 DEF Surjection, RulesOf
<1>3. IsFiniteSet(1..N)
  BY <1>1, FS_Interval
<1> HIDE DEF ruleOf, N
<1> QED BY <1>2, <1>3, FS_Surjection

(* The bundle of an incident is sound. *)
LEMMA BundleSound ==
    ASSUME CasebookTypeOK, NEW c \in Raised
    PROVE  LET bundle == BundleOf(c)
               rows   == ToSet(DetectionRows(c))
           IN  /\ IsInjective(bundle.objects)
               /\ ToSet(bundle.refs) \subseteq ToSet(bundle.objects)
               /\ {IDENTITY_ID} \cup {StixId("attack-pattern", t) : t \in TechniquesOf(members[c])}
                     \subseteq ToSet(bundle.refs)
               /\ \A d \in rows :
                     /\ d.ip # None => StixId("indicator", <<"addr", d.ip>>) \in ToSet(bundle.refs)
                     /\ d.sha256 # None =>
                           StixId("indicator", <<"file", d.sha256>>) \in ToSet(bundle.refs)
                     /\ d.registryKey # None =>
                           StixId("indicator", <<"windows-registry-key", d.registryKey>>)
                               \in ToSet(bundle.refs)
<1> DEFINE techniques == TechniquesOf(members[c])
           rows == DetectionRows(c)
           attacks == AttackPatterns(techniques)
           indicators == IndicatorObjects(rows)
           observed == attacks \o indicators
           report == StixId("report", c)
           AttackIds == {StixId("attack-pattern", t) : t \in techniques}
<1> HIDE DEF techniques, rows, attacks, indicators, observed, report, AttackIds
<1>1. c \in Case /\ members[c] \in Seq(Catalog) /\ stored[c] \in Nat /\ stored[c] <= Len(members[c])
  BY DEF CasebookTypeOK, Raised
<1>2. rows \in Seq(Catalog)
  BY <1>1 DEF rows, DetectionRows
<1>3. IsFiniteSet(techniques)
  BY <1>1, TechniquesAreFinite DEF techniques
<1>4. attacks \in Seq(AttackIds) /\ IsInjective(attacks) /\ ToSet(attacks) = AttackIds
  <2> DEFINE listed == SetToSeq(techniques)
  <2> HIDE DEF listed
  <2>1. listed \in Seq(techniques) /\ IsInjective(listed) /\ ToSet(listed) = techniques
    BY <1>3, SetIsListed DEF listed
  <2>2. DOMAIN listed = 1..Len(listed) /\ Len(listed) \in Nat
    BY <2>1
  <2>3. attacks = [n \in 1..Len(listed) |-> StixId("attack-pattern", listed[n])]
    BY <2>2 DEF attacks, AttackPatterns, listed
  <2>4. \A n \in 1..Len(listed) : StixId("attack-pattern", listed[n]) \in AttackIds
    BY <2>1, <2>2 DEF AttackIds
  <2>5. attacks \in [1..Len(listed) -> AttackIds]
    BY <2>3, <2>4
  <2>6. attacks \in Seq(AttackIds)
    BY <2>2, <2>5, FunctionIsList
  <2>7. IsInjective(attacks)
    BY <2>1, <2>2, <2>3 DEF IsInjective, StixId
  <2>8. ToSet(attacks) = AttackIds
    <3>1. ASSUME NEW t \in techniques PROVE StixId("attack-pattern", t) \in ToSet(attacks)
      <4>1. PICK n \in 1..Len(listed) : listed[n] = t
        BY <2>1, <2>2 DEF ToSet
      <4>2. attacks[n] = StixId("attack-pattern", t) /\ n \in DOMAIN attacks
        BY <2>3, <4>1
      <4> QED BY <4>2 DEF ToSet
    <3>2. ToSet(attacks) \subseteq AttackIds
      BY <2>5 DEF ToSet
    <3> QED BY <3>1, <3>2 DEF AttackIds
  <2> QED BY <2>6, <2>7, <2>8
<1>5. PICK S : /\ indicators \in Seq(Indicators(S)) /\ IsInjective(indicators)
               /\ \A d \in ToSet(rows) :
                     /\ d.ip # None => StixId("indicator", <<"addr", d.ip>>) \in ToSet(indicators)
                     /\ d.sha256 # None =>
                           StixId("indicator", <<"file", d.sha256>>) \in ToSet(indicators)
                     /\ d.registryKey # None =>
                           StixId("indicator", <<"windows-registry-key", d.registryKey>>)
                               \in ToSet(indicators)
  BY <1>2, IndicatorsListed DEF indicators
<1> DEFINE Object == {IDENTITY_ID} \cup AttackIds \cup Indicators(S) \cup {report}
<1>6. /\ AttackIds \cap Indicators(S) = {}
      /\ IDENTITY_ID \notin AttackIds \cup Indicators(S) \cup {report}
      /\ report \notin AttackIds \cup Indicators(S)
  BY DEF AttackIds, Indicators, report, IDENTITY_ID, StixId
<1>7. ToSet(indicators) \subseteq Indicators(S)
  BY <1>5 DEF ToSet
<1>8. attacks \in Seq(Object) /\ indicators \in Seq(Object)
  <2>1. \A X \in SUBSET Object : \A s \in Seq(X) : s \in Seq(Object)
    OBVIOUS
  <2>2. AttackIds \in SUBSET Object /\ Indicators(S) \in SUBSET Object
    OBVIOUS
  <2> QED BY <1>4, <1>5, <2>1, <2>2
<1>9. <<IDENTITY_ID>> \in Seq(Object) /\ <<report>> \in Seq(Object)
  OBVIOUS
<1>10. \A x : ToSet(<<x>>) = {x} /\ IsInjective(<<x>>)
  BY DEF ToSet, IsInjective
<1> HIDE DEF Object
<1>11. /\ observed \in Seq(Object) /\ IsInjective(observed)
       /\ ToSet(observed) = AttackIds \cup ToSet(indicators)
  BY <1>4, <1>5, <1>6, <1>7, <1>8, ListsJoin DEF observed
<1> DEFINE refs == <<IDENTITY_ID>> \o observed
<1> HIDE DEF refs
<1>12. /\ refs \in Seq(Object) /\ IsInjective(refs)
       /\ ToSet(refs) = {IDENTITY_ID} \cup AttackIds \cup ToSet(indicators)
  <2>1. ToSet(<<IDENTITY_ID>>) \cap ToSet(observed) = {}
    BY <1>6, <1>7, <1>10, <1>11
  <2> QED BY <1>9, <1>10, <1>11, <2>1, ListsJoin DEF refs
<1>13. /\ IsInjective(refs \o <<report>>)
       /\ ToSet(refs \o <<report>>) = ToSet(refs) \cup {report}
  <2>1. ToSet(refs) \cap ToSet(<<report>>) = {}
    BY <1>6, <1>7, <1>10, <1>12
  <2> DEFINE last == <<report>>
  <2>2. last \in Seq(Object) /\ IsInjective(last) /\ ToSet(last) = {report}
    BY <1>9, <1>10
  <2>3. ToSet(refs) \cap ToSet(last) = {}
    BY <2>1
  <2> HIDE DEF last
  <2>4. IsInjective(refs \o last) /\ ToSet(refs \o last) = ToSet(refs) \cup ToSet(last)
    BY <1>12, <2>2, <2>3, ListsJoin
  <2> QED BY <2>2, <2>4 DEF last
<1>14. BundleOf(c).objects = refs \o <<report>> /\ BundleOf(c).refs = refs
  BY DEF BundleOf, StixBundle, refs, report, observed, attacks, indicators, techniques, rows
<1> QED BY <1>5, <1>12, <1>13, <1>14 DEF AttackIds, techniques, rows

-----------------------------------------------------------------------------
(* The coverage report.                                                    *)

CorpusRules == {[id |-> d.rule, attack |-> d.attack] : d \in Corpus}

(* What raises a technique is counted. *)
LEMMA RulesAreCounted ==
    /\ \E K \in Nat : \A t : RuleCount(CorpusRules, t) \in 0..K
    /\ \A d \in Corpus : \A t \in d.attack : RuleCount(CorpusRules, t) > 0
    /\ \A t \in DETECTOR_TECHNIQUES : RuleCount(CorpusRules, t) > 0
<1> DEFINE ruleOf == [d \in Corpus |-> [id |-> d.rule, attack |-> d.attack]]
           Raising(t) == {rule \in CorpusRules : t \in rule.attack}
<1>1. ruleOf \in Surjection(Corpus, CorpusRules)
  BY DEF Surjection, CorpusRules
<1>2. IsFiniteSet(CorpusRules)
  BY <1>1, CasebookAssumption, FS_Surjection
<1>3. Cardinality(CorpusRules) \in Nat
  BY <1>2, FS_CardinalityType
<1>4. ASSUME NEW t
      PROVE  /\ IsFiniteSet(Raising(t)) /\ Cardinality(Raising(t)) \in Nat
             /\ Cardinality(Raising(t)) <= Cardinality(CorpusRules)
  BY <1>2, FS_Subset, FS_CardinalityType
<1>5. \A t : RuleCount(CorpusRules, t)
                = Cardinality(Raising(t)) + (IF t \in DETECTOR_TECHNIQUES THEN 1 ELSE 0)
  BY DEF RuleCount
<1>6. ASSUME NEW d \in Corpus, NEW t, t \in d.attack PROVE Cardinality(Raising(t)) # 0
  <2>1. [id |-> d.rule, attack |-> d.attack] \in Raising(t)
    BY <1>6 DEF CorpusRules
  <2> HIDE DEF Raising
  <2> QED BY <1>4, <2>1, FS_EmptySet
<1> HIDE DEF Raising
<1>7. ASSUME NEW t PROVE RuleCount(CorpusRules, t) \in 0..(Cardinality(CorpusRules) + 1)
  BY <1>3, <1>4, <1>5
<1>8. ASSUME NEW d \in Corpus, NEW t, t \in d.attack PROVE RuleCount(CorpusRules, t) > 0
  BY <1>4, <1>5, <1>6, <1>8
<1>9. ASSUME NEW t \in DETECTOR_TECHNIQUES PROVE RuleCount(CorpusRules, t) > 0
  BY <1>4, <1>5
<1>10. Cardinality(CorpusRules) + 1 \in Nat
  BY <1>3
<1> QED BY <1>7, <1>8, <1>9, <1>10

(* The report lists the index, its gradient reaches every count, and what was
   raised is covered, but for the network scan. *)
LEMMA CoverageSound ==
    ASSUME CasebookTypeOK, NEW index
    PROVE  LET report == CoverageReport(CorpusRules, index)
           IN  /\ index \subseteq DOMAIN report.techniques
               /\ \A t \in DOMAIN report.techniques : report.techniques[t] <= GradientTop(report)
               /\ \A c \in Raised, n \in 1..MaxRecorded :
                     n \in DOMAIN members[c] /\ members[c][n].rule # "SCN-001" =>
                         members[c][n].attack \subseteq report.covered
<1> DEFINE report == CoverageReport(CorpusRules, index)
           listed == index \cup Referenced(CorpusRules)
<1>1. /\ DOMAIN report.techniques = listed
      /\ \A t \in listed : report.techniques[t] = RuleCount(CorpusRules, t)
      /\ report.covered = {t \in listed : RuleCount(CorpusRules, t) > 0}
  BY DEF CoverageReport
<1>2. index \subseteq listed
  OBVIOUS
<1> HIDE DEF report
<1>3. ASSUME NEW t \in listed PROVE report.techniques[t] <= GradientTop(report)
  <2> DEFINE counts == {report.techniques[u] : u \in DOMAIN report.techniques}
  <2>1. report.techniques[t] \in counts
    BY <1>1
  <2>2. PICK K \in Nat : \A u : RuleCount(CorpusRules, u) \in 0..K
    BY RulesAreCounted
  <2>3. counts \in SUBSET (0..K)
    BY <1>1, <2>2
  <2>4. GradientTop(report) = IF counts \subseteq {0} THEN 1 ELSE Max(counts)
    BY DEF GradientTop
  <2> HIDE DEF counts
  <2>5. Max(counts) \in counts /\ \A x \in counts : Max(counts) >= x
    <3>1. counts # {}
      BY <2>1
    <3> QED BY <2>3, <3>1, MaxIsIn
  <2>6. report.techniques[t] \in Nat /\ Max(counts) \in Nat
    <3>1. counts \subseteq Nat
      <4>1. 0..K \subseteq Nat
        BY <2>2
      <4> QED BY <2>3, <4>1
    <3> QED BY <2>1, <2>5, <3>1
  <2> QED BY <2>1, <2>4, <2>5, <2>6
<1>4. ASSUME NEW c \in Raised, NEW n \in DOMAIN members[c], members[c][n].rule # "SCN-001",
             NEW t \in members[c][n].attack
      PROVE  t \in listed /\ RuleCount(CorpusRules, t) > 0
  <2> DEFINE d == members[c][n]
  <2>1. d \in Catalog
    BY DEF CasebookTypeOK, Raised
  <2>2. CASE d \in Corpus
    <3>1. [id |-> d.rule, attack |-> d.attack] \in CorpusRules
      BY <2>2 DEF CorpusRules
    <3>2. t \in Referenced(CorpusRules)
      BY <3>1 DEF Referenced
    <3> QED BY <2>2, <3>2, RulesAreCounted
  <2>3. CASE d \notin Corpus
    <3>1. d.rule \in {"BCN-001", "DSC-001"}
      BY <1>4, <2>1, <2>3, CasebookAssumption DEF STATISTICAL
    <3>2. t \in DETECTOR_TECHNIQUES
      BY <2>1, <3>1, CasebookAssumption DEF DETECTOR_TECHNIQUES
    <3> QED BY <3>2, RulesAreCounted DEF Referenced
  <2> QED BY <2>2, <2>3
<1> HIDE DEF listed
<1> QED BY <1>1, <1>2, <1>3, <1>4 DEF report

\* Whatever was raised and stored, the bundle of an incident refers to what it
\* holds, holds nothing twice and has an indicator of each address, hash and key;
\* and the coverage report counts what the rules and detectors raise.
THEOREM ExportsAreSound == CasebookSpec => []ExportsSound
<1>1. CasebookTypeOK => ExportsSound
  BY BundleSound, CoverageSound DEF ExportsSound, CorpusRules
<1> QED BY <1>1, CasebookTypeCorrect, PTL

-----------------------------------------------------------------------------
(* What an incident resembles.                                             *)

LEMMA QuotientIsNatural ==
    ASSUME NEW n \in Nat, NEW m \in Nat, m > 0
    PROVE  n \div m \in Nat
OBVIOUS

LEMMA WholeQuotient ==
    ASSUME NEW m \in Nat, m > 0
    PROVE  0 \div m = 0 /\ (2520 * m) \div m = 2520
OBVIOUS

(* Overlap is a natural, none for sets that share nothing, and full for a set
   and itself. *)
LEMMA JaccardBounds ==
    ASSUME NEW a, NEW b, IsFiniteSet(a), IsFiniteSet(b)
    PROVE  /\ Jaccard(a, b) \in Nat
           /\ Jaccard(a, b) > 0 => a \cap b # {}
           /\ a # {} => Jaccard(a, a) = Unit
<1> DEFINE both == Cardinality(a \cap b)
           all == Cardinality(a \cup b)
<1>1. IsFiniteSet(a \cap b) /\ IsFiniteSet(a \cup b)
  BY FS_Intersection, FS_Union
<1>2. both \in Nat /\ all \in Nat
  BY <1>1, FS_CardinalityType
<1>3. a \cup b # {} => all > 0
  <2>1. all = 0 => a \cup b = {}
    BY <1>1, FS_EmptySet
  <2> QED BY <1>2, <2>1
<1>4. a \cap b = {} => both = 0
  BY FS_EmptySet
<1>5. Jaccard(a, b) = IF a \cup b = {} THEN 0 ELSE (2520 * both) \div all
  BY DEF Jaccard, Unit
<1> HIDE DEF both, all
<1>6. Jaccard(a, b) \in Nat
  <2>1. 2520 * both \in Nat
    BY <1>2
  <2> QED BY <1>2, <1>3, <1>5, <2>1, QuotientIsNatural
<1>7. ASSUME a \cap b = {} PROVE Jaccard(a, b) = 0
  <2>1. 2520 * both = 0
    BY <1>4, <1>7
  <2> QED BY <1>2, <1>3, <1>5, <2>1, WholeQuotient
<1>8. ASSUME a # {} PROVE Jaccard(a, a) = Unit
  <2> DEFINE size == Cardinality(a)
  <2>1. size \in Nat /\ size # 0
    BY <1>8, FS_CardinalityType, FS_EmptySet
  <2> DEFINE meet == a \cap a
             join == a \cup a
  <2>2. meet = a /\ join = a
    OBVIOUS
  <2>3. Jaccard(a, a) = IF join = {} THEN 0 ELSE (2520 * Cardinality(meet)) \div Cardinality(join)
    BY DEF Jaccard, Unit
  <2> HIDE DEF meet, join
  <2>4. Jaccard(a, a) = (2520 * size) \div size
    BY <1>8, <2>2, <2>3
  <2> HIDE DEF size
  <2> QED BY <2>1, <2>4, WholeQuotient DEF Unit
<1> QED BY <1>6, <1>7, <1>8

Chosen(s) == CHOOSE x \in s : TRUE

\* A function on the subsets of S that adds the weight of one element after the
\* other.
Sums(f, S, w) ==
    f = [s \in SUBSET S |-> IF s = {} THEN 0 ELSE w[Chosen(s)] + f[s \ {Chosen(s)}]]

\* The sum over a part of four elements.
PartSum(s, a, b, c, d, w) ==
    (IF a \in s THEN w[a] ELSE 0) + (IF b \in s THEN w[b] ELSE 0)
        + (IF c \in s THEN w[c] ELSE 0) + (IF d \in s THEN w[d] ELSE 0)

(* Whatever the order, at most four elements have one sum. *)
LEMMA SumOfFour ==
    ASSUME NEW a, NEW b, NEW c, NEW d,
           a # b, a # c, a # d, b # c, b # d, c # d,
           NEW S \in SUBSET {a, b, c, d}, NEW w \in [S -> Nat]
    PROVE  /\ \E f : Sums(f, S, w)
           /\ \A f : Sums(f, S, w) => f[S] = PartSum(S, a, b, c, d, w)
<1> DEFINE Part(s) == PartSum(s, a, b, c, d, w)
<1>1. \A s \in SUBSET S : s # {} => Chosen(s) \in s
  BY DEF Chosen
<1>2. \A x \in S : w[x] \in Nat
  OBVIOUS
<1>3. ASSUME NEW s \in SUBSET S, NEW x \in s PROVE Part(s) = w[x] + Part(s \ {x})
  <2>1. /\ a \in s => w[a] \in Nat
        /\ b \in s => w[b] \in Nat
        /\ c \in s => w[c] \in Nat
        /\ d \in s => w[d] \in Nat
    BY <1>2
  <2>2. CASE x = a
    <3>1. a \notin s \ {x} /\ (b \in s \ {x} <=> b \in s)
          /\ (c \in s \ {x} <=> c \in s) /\ (d \in s \ {x} <=> d \in s)
      BY <2>2
    <3> QED BY <2>1, <2>2, <3>1 DEF PartSum
  <2>3. CASE x = b
    <3>1. b \notin s \ {x} /\ (a \in s \ {x} <=> a \in s)
          /\ (c \in s \ {x} <=> c \in s) /\ (d \in s \ {x} <=> d \in s)
      BY <2>3
    <3> QED BY <2>1, <2>3, <3>1 DEF PartSum
  <2>4. CASE x = c
    <3>1. c \notin s \ {x} /\ (a \in s \ {x} <=> a \in s)
          /\ (b \in s \ {x} <=> b \in s) /\ (d \in s \ {x} <=> d \in s)
      BY <2>4
    <3> QED BY <2>1, <2>4, <3>1 DEF PartSum
  <2>5. CASE x = d
    <3>1. d \notin s \ {x} /\ (a \in s \ {x} <=> a \in s)
          /\ (b \in s \ {x} <=> b \in s) /\ (c \in s \ {x} <=> c \in s)
      BY <2>5
    <3> QED BY <2>1, <2>5, <3>1 DEF PartSum
  <2> QED BY <2>2, <2>3, <2>4, <2>5
<1>4. Part({}) = 0
  BY DEF PartSum
<1> HIDE DEF Part
<1>5. Sums([s \in SUBSET S |-> Part(s)], S, w)
  <2> DEFINE f == [s \in SUBSET S |-> Part(s)]
  <2>1. ASSUME NEW s \in SUBSET S
        PROVE  f[s] = IF s = {} THEN 0 ELSE w[Chosen(s)] + f[s \ {Chosen(s)}]
    <3>1. f[s] = Part(s) /\ f[s \ {Chosen(s)}] = Part(s \ {Chosen(s)})
      OBVIOUS
    <3> HIDE DEF f
    <3> QED BY <1>1, <1>3, <1>4, <3>1
  <2>2. f = [s \in SUBSET S |-> f[s]]
    OBVIOUS
  <2> HIDE DEF f
  <2>3. Sums(f, S, w)
    BY <2>1, <2>2 DEF Sums
  <2> QED BY <2>3 DEF f
<1>6. ASSUME NEW f, Sums(f, S, w) PROVE f[S] = Part(S)
  <2> DEFINE Good == {m \in Nat : \A s \in SUBSET S : Cardinality(s) = m => f[s] = Part(s)}
  <2>1. \A s \in SUBSET S : f[s] = IF s = {} THEN 0 ELSE w[Chosen(s)] + f[s \ {Chosen(s)}]
    BY <1>6 DEF Sums
  <2>2. ASSUME NEW s \in SUBSET S PROVE IsFiniteSet(s) /\ Cardinality(s) \in Nat
    <3>1. IsFiniteSet({a, b, c, d})
      <4>1. IsFiniteSet({a})
        BY FS_Singleton
      <4>2. IsFiniteSet({a} \cup {b})
        BY <4>1, FS_AddElement
      <4>3. IsFiniteSet(({a} \cup {b}) \cup {c})
        BY <4>2, FS_AddElement
      <4>4. IsFiniteSet((({a} \cup {b}) \cup {c}) \cup {d})
        BY <4>3, FS_AddElement
      <4>5. (({a} \cup {b}) \cup {c}) \cup {d} = {a, b, c, d}
        OBVIOUS
      <4> QED BY <4>4, <4>5
    <3>2. s \in SUBSET {a, b, c, d}
      OBVIOUS
    <3> QED BY <3>1, <3>2, FS_Subset, FS_CardinalityType
  <2>3. 0 \in Good
    <3>1. \A s \in SUBSET S : Cardinality(s) = 0 => s = {}
      BY <2>2, FS_EmptySet
    <3>2. f[{}] = 0
      BY <2>1
    <3> QED BY <1>4, <3>1, <3>2
  <2>4. ASSUME NEW m \in Nat, m \in Good PROVE m + 1 \in Good
    <3> SUFFICES ASSUME NEW s \in SUBSET S, Cardinality(s) = m + 1 PROVE f[s] = Part(s)
      OBVIOUS
    <3>1. s # {}
      BY FS_EmptySet
    <3> DEFINE x == Chosen(s)
    <3>2. x \in s
      BY <1>1, <3>1
    <3> HIDE DEF x
    <3>3. s \ {x} \in SUBSET S /\ Cardinality(s \ {x}) = m
      <4>1. Cardinality(s \ {x}) = IF x \in s THEN Cardinality(s) - 1 ELSE Cardinality(s)
        BY <2>2, FS_RemoveElement, Zenon
      <4> QED BY <3>2, <4>1
    <3>4. f[s \ {x}] = Part(s \ {x})
      BY <2>4, <3>3
    <3>5. f[s] = w[x] + f[s \ {x}]
      BY <2>1, <3>1 DEF x
    <3> QED BY <1>3, <3>2, <3>4, <3>5
  <2> HIDE DEF Good
  <2>5. Cardinality(S) \in Good
    BY <2>2, <2>3, <2>4, SetInduction
  <2> QED BY <2>5 DEF Good
<1> QED BY <1>5, <1>6 DEF Part


(* What the signals add up to is such a sum. *)
LEMMA WorthIsSum ==
    ASSUME NEW S, NEW w, \A s \in S : w[s] = s.weight * s.value, \E f : Sums(f, S, w)
    PROVE  \E g : Sums(g, S, w) /\ MapThenSumSet(LAMBDA s : s.weight * s.value, S) = g[S]
<1>1. ASSUME NEW g
      PROVE  Sums(g, S, w) <=>
                g = [s \in SUBSET S |-> IF s = {} THEN 0
                                        ELSE (CHOOSE x \in s : TRUE).weight
                                                * (CHOOSE x \in s : TRUE).value
                                                + g[s \ {CHOOSE x \in s : TRUE}]]
  <2>1. \A s \in SUBSET S : s # {} => w[Chosen(s)] = Chosen(s).weight * Chosen(s).value
    BY DEF Chosen
  <2>2. \A s \in SUBSET S :
           (IF s = {} THEN 0 ELSE w[Chosen(s)] + g[s \ {Chosen(s)}])
             = (IF s = {} THEN 0 ELSE Chosen(s).weight * Chosen(s).value + g[s \ {Chosen(s)}])
    BY <2>1
  <2>3. Sums(g, S, w) <=> g = [s \in SUBSET S |-> IF s = {} THEN 0
                                  ELSE Chosen(s).weight * Chosen(s).value + g[s \ {Chosen(s)}]]
    BY <2>2 DEF Sums
  <2> QED BY <2>3, Zenon DEF Chosen
<1>2. \E g : g = [s \in SUBSET S |-> IF s = {} THEN 0
                                        ELSE (CHOOSE x \in s : TRUE).weight
                                                * (CHOOSE x \in s : TRUE).value
                                                + g[s \ {CHOOSE x \in s : TRUE}]]
  <2>1. PICK f : Sums(f, S, w)
    OBVIOUS
  <2> WITNESS f
  <2> QED BY <1>1, <2>1, Zenon
<1>3. \E g : /\ g = [s \in SUBSET S |-> IF s = {} THEN 0
                                        ELSE (CHOOSE x \in s : TRUE).weight
                                                * (CHOOSE x \in s : TRUE).value
                                                + g[s \ {CHOOSE x \in s : TRUE}]]
            /\ MapThenSumSet(LAMBDA s : s.weight * s.value, S) = g[S]
  BY <1>2, Zenon DEF MapThenSumSet, MapThenFoldSet
<1> QED BY <1>1, <1>3

(* And so is what they weigh. *)
LEMMA WeightIsSum ==
    ASSUME NEW S, NEW w, \A s \in S : w[s] = s.weight, \E f : Sums(f, S, w)
    PROVE  \E g : Sums(g, S, w) /\ MapThenSumSet(LAMBDA s : s.weight, S) = g[S]
<1>1. ASSUME NEW g
      PROVE  Sums(g, S, w) <=>
                g = [s \in SUBSET S |-> IF s = {} THEN 0
                                        ELSE (CHOOSE x \in s : TRUE).weight
                                                + g[s \ {CHOOSE x \in s : TRUE}]]
  <2>1. \A s \in SUBSET S : s # {} => w[Chosen(s)] = Chosen(s).weight
    BY DEF Chosen
  <2>2. \A s \in SUBSET S :
           (IF s = {} THEN 0 ELSE w[Chosen(s)] + g[s \ {Chosen(s)}])
             = (IF s = {} THEN 0 ELSE Chosen(s).weight + g[s \ {Chosen(s)}])
    BY <2>1
  <2>3. Sums(g, S, w) <=> g = [s \in SUBSET S |-> IF s = {} THEN 0
                                  ELSE Chosen(s).weight + g[s \ {Chosen(s)}]]
    BY <2>2 DEF Sums
  <2> QED BY <2>3, Zenon DEF Chosen
<1>2. \E g : g = [s \in SUBSET S |-> IF s = {} THEN 0
                                        ELSE (CHOOSE x \in s : TRUE).weight
                                                + g[s \ {CHOOSE x \in s : TRUE}]]
  <2>1. PICK f : Sums(f, S, w)
    OBVIOUS
  <2> WITNESS f
  <2> QED BY <1>1, <2>1, Zenon
<1>3. \E g : /\ g = [s \in SUBSET S |-> IF s = {} THEN 0
                                        ELSE (CHOOSE x \in s : TRUE).weight
                                                + g[s \ {CHOOSE x \in s : TRUE}]]
            /\ MapThenSumSet(LAMBDA s : s.weight, S) = g[S]
  BY <1>2, Zenon DEF MapThenSumSet, MapThenFoldSet
<1> QED BY <1>1, <1>3

RulesCount(x, y) == x.ruleIds # NoRuleIds /\ y.ruleIds \notin {{}, NoRuleIds}
RuleOverlap(x, y) == Jaccard(x.ruleIds, y.ruleIds)
TechniqueOverlap(x, y) == Jaccard(x.techniques, y.techniques)
RootOverlap(x, y) == IF x.root # {} /\ x.root = y.root THEN Unit ELSE 0
ChainOverlap(x, y) == Jaccard(x.chain, y.chain)

(* The share is the weighted average of the signals there are. *)
LEMMA ShareIsAverage ==
    ASSUME NEW x, NEW y, RuleOverlap(x, y) \in Nat, TechniqueOverlap(x, y) \in Nat,
           ChainOverlap(x, y) \in Nat
    PROVE  /\ Compare(x, y).share =
                 IF RulesCount(x, y)
                 THEN (100 * (5 * RuleOverlap(x, y) + 2 * TechniqueOverlap(x, y)
                                + 2 * RootOverlap(x, y) + ChainOverlap(x, y))) \div 25200
                 ELSE (100 * (2 * TechniqueOverlap(x, y) + 2 * RootOverlap(x, y)
                                + ChainOverlap(x, y))) \div 12600
           /\ Compare(x, y).score \in Nat
<1> DEFINE a == Signal(5, RuleOverlap(x, y), "rules")
           b == Signal(2, TechniqueOverlap(x, y), "techniques")
           c == Signal(2, RootOverlap(x, y), "root")
           d == Signal(1, ChainOverlap(x, y), "chain")
           S == Signals(x, y)
           worth == [s \in S |-> s.weight * s.value]
           weights == [s \in S |-> s.weight]
           total == MapThenSumSet(LAMBDA s : s.weight * s.value, S)
           weight == MapThenSumSet(LAMBDA s : s.weight, S)
<1>1. RootOverlap(x, y) \in Nat
  BY DEF RootOverlap, Unit
<1>2. /\ a # b /\ a # c /\ a # d /\ b # c /\ b # d /\ c # d
      /\ a.weight = 5 /\ b.weight = 2 /\ c.weight = 2 /\ d.weight = 1
      /\ a.value = RuleOverlap(x, y) /\ b.value = TechniqueOverlap(x, y)
      /\ c.value = RootOverlap(x, y) /\ d.value = ChainOverlap(x, y)
  BY DEF Signal
<1>3. S = (IF RulesCount(x, y) THEN {a} ELSE {}) \cup {b, c, d}
  BY DEF Signals, RulesCount, RuleOverlap, TechniqueOverlap, RootOverlap, ChainOverlap
<1> HIDE DEF a, b, c, d, S
<1>4. S \in SUBSET {a, b, c, d} /\ b \in S /\ c \in S /\ d \in S /\ (a \in S <=> RulesCount(x, y))
  BY <1>2, <1>3
<1>5. \A s \in S : s.weight \in Nat /\ s.value \in Nat
  BY <1>1, <1>2, <1>4
<1>6. worth \in [S -> Nat] /\ weights \in [S -> Nat]
  BY <1>5
<1>8. total = PartSum(S, a, b, c, d, worth)
  <2>1. PICK f : Sums(f, S, worth)
    BY <1>2, <1>4, <1>6, SumOfFour
  <2>2. \A s \in S : worth[s] = s.weight * s.value
    OBVIOUS
  <2> HIDE DEF worth, weights
  <2>3. PICK g : Sums(g, S, worth) /\ total = g[S]
    BY <2>1, <2>2, WorthIsSum
  <2> HIDE DEF total
  <2> QED BY <1>2, <1>4, <1>6, <2>3, SumOfFour
<1>9. weight = PartSum(S, a, b, c, d, weights)
  <2>1. PICK f : Sums(f, S, weights)
    BY <1>2, <1>4, <1>6, SumOfFour
  <2>2. \A s \in S : weights[s] = s.weight
    OBVIOUS
  <2> HIDE DEF worth, weights
  <2>3. PICK g : Sums(g, S, weights) /\ weight = g[S]
    BY <2>1, <2>2, WeightIsSum
  <2> HIDE DEF weight
  <2> QED BY <1>2, <1>4, <1>6, <2>3, SumOfFour
<1>10. /\ Compare(x, y).share = (100 * total) \div (2520 * weight)
       /\ Compare(x, y).score
             = (2 * (100 * total) + 2520 * weight) \div (2 * (2520 * weight))
  BY DEF Compare, Unit, S
<1>11. /\ a \in S => worth[a] = 5 * RuleOverlap(x, y) /\ weights[a] = 5
       /\ worth[b] = 2 * TechniqueOverlap(x, y) /\ weights[b] = 2
       /\ worth[c] = 2 * RootOverlap(x, y) /\ weights[c] = 2
       /\ worth[d] = ChainOverlap(x, y) /\ weights[d] = 1
  BY <1>2, <1>4
<1> HIDE DEF total, weight, worth, weights
<1>12. CASE RulesCount(x, y)
  <2>1. /\ total = 5 * RuleOverlap(x, y) + 2 * TechniqueOverlap(x, y)
                     + 2 * RootOverlap(x, y) + ChainOverlap(x, y)
        /\ weight = 10
    BY <1>1, <1>4, <1>8, <1>9, <1>11, <1>12 DEF PartSum
  <2>2. 2 * (100 * total) + 25200 \in Nat /\ 50400 \in Nat /\ 50400 > 0
    BY <1>1, <2>1
  <2>3. (2 * (100 * total) + 25200) \div 50400 \in Nat
    BY <2>2, QuotientIsNatural
  <2>4. Compare(x, y).score = (2 * (100 * total) + 25200) \div 50400
    BY <1>10, <2>1
  <2> QED BY <1>10, <1>12, <2>1, <2>3, <2>4
<1>13. CASE ~RulesCount(x, y)
  <2>1. /\ total = 2 * TechniqueOverlap(x, y) + 2 * RootOverlap(x, y) + ChainOverlap(x, y)
        /\ weight = 5
    BY <1>1, <1>4, <1>8, <1>9, <1>11, <1>13 DEF PartSum
  <2>2. 2 * (100 * total) + 12600 \in Nat /\ 25200 \in Nat /\ 25200 > 0
    BY <1>1, <2>1
  <2>3. (2 * (100 * total) + 12600) \div 25200 \in Nat
    BY <2>2, QuotientIsNatural
  <2>4. Compare(x, y).score = (2 * (100 * total) + 12600) \div 25200
    BY <1>10, <2>1
  <2> QED BY <1>10, <1>13, <2>1, <2>3, <2>4
<1> QED BY <1>12, <1>13

(* Below half on every signal, below half on their average. *)
LEMMA AverageBelowHalf ==
    ASSUME NEW r \in Nat, NEW t \in Nat, NEW o \in Nat, NEW c \in Nat,
           r < 1260, t < 1260, o < 1260, c < 1260
    PROVE  /\ (100 * (5 * r + 2 * t + 2 * o + c)) \div 25200 < 50
           /\ (100 * (5 * r + 2 * t + 2 * o + c)) \div 25200 \in Nat
           /\ (100 * (2 * t + 2 * o + c)) \div 12600 < 50
           /\ (100 * (2 * t + 2 * o + c)) \div 12600 \in Nat
OBVIOUS

(* Full on all but the techniques, four fifths on their average. *)
LEMMA AverageOfRepeat ==
    ASSUME NEW t \in Nat
    PROVE  (100 * (5 * 2520 + 2 * t + 2 * 2520 + 2520)) \div 25200 >= 80
OBVIOUS

Comparable(x) == IsFiniteSet(x.ruleIds) /\ IsFiniteSet(x.techniques) /\ IsFiniteSet(x.chain)

LEMMA ShareIsNatural ==
    ASSUME NEW x, NEW y, Comparable(x), Comparable(y)
    PROVE  Compare(x, y).share \in Nat /\ Compare(x, y).score \in Nat
<1> DEFINE r == RuleOverlap(x, y)
           t == TechniqueOverlap(x, y)
           o == RootOverlap(x, y)
           c == ChainOverlap(x, y)
           all == 100 * (5 * r + 2 * t + 2 * o + c)
           most == 100 * (2 * t + 2 * o + c)
<1>1. r \in Nat /\ t \in Nat /\ c \in Nat
  BY JaccardBounds DEF Comparable, RuleOverlap, TechniqueOverlap, ChainOverlap
<1>2. o \in Nat
  BY DEF RootOverlap, Unit
<1>3. /\ Compare(x, y).share = IF RulesCount(x, y) THEN all \div 25200 ELSE most \div 12600
      /\ Compare(x, y).score \in Nat
  BY <1>1, ShareIsAverage
<1> HIDE DEF r, t, o, c
<1>4. all \in Nat /\ most \in Nat
  BY <1>1, <1>2
<1> HIDE DEF all, most
<1> QED BY <1>3, <1>4, QuotientIsNatural

(* What is half a match gives a reason and shares something. *)
LEMMA HalfMatchIsExplained ==
    ASSUME NEW x, NEW y, Comparable(x), Comparable(y), Compare(x, y).share >= 50
    PROVE  /\ Compare(x, y).reasons # {}
           /\ \/ RulesCount(x, y) /\ x.ruleIds \cap y.ruleIds # {}
              \/ x.techniques \cap y.techniques # {}
              \/ x.root # {} /\ x.root = y.root
              \/ x.chain \cap y.chain # {}
<1>1. /\ RuleOverlap(x, y) \in Nat /\ TechniqueOverlap(x, y) \in Nat /\ ChainOverlap(x, y) \in Nat
      /\ RuleOverlap(x, y) > 0 => x.ruleIds \cap y.ruleIds # {}
      /\ TechniqueOverlap(x, y) > 0 => x.techniques \cap y.techniques # {}
      /\ ChainOverlap(x, y) > 0 => x.chain \cap y.chain # {}
  BY JaccardBounds DEF Comparable, RuleOverlap, TechniqueOverlap, ChainOverlap
<1>2. /\ RootOverlap(x, y) \in Nat
      /\ RootOverlap(x, y) > 0 => x.root # {} /\ x.root = y.root
  BY DEF RootOverlap, Unit
<1>3. \/ RulesCount(x, y) /\ RuleOverlap(x, y) >= 1260
      \/ TechniqueOverlap(x, y) >= 1260
      \/ RootOverlap(x, y) >= 1260
      \/ ChainOverlap(x, y) >= 1260
  <2> SUFFICES ASSUME RulesCount(x, y) => RuleOverlap(x, y) < 1260,
                      TechniqueOverlap(x, y) < 1260, RootOverlap(x, y) < 1260,
                      ChainOverlap(x, y) < 1260
               PROVE  FALSE
    BY <1>1, <1>2
  <2> DEFINE r == RuleOverlap(x, y)
             t == TechniqueOverlap(x, y)
             o == RootOverlap(x, y)
             c == ChainOverlap(x, y)
             whole == (100 * (5 * r + 2 * t + 2 * o + c)) \div 25200
             most == (100 * (2 * t + 2 * o + c)) \div 12600
  <2>1. Compare(x, y).share = IF RulesCount(x, y) THEN whole ELSE most
    BY <1>1, ShareIsAverage
  <2>2. r \in Nat /\ t \in Nat /\ o \in Nat /\ c \in Nat /\ t < 1260 /\ o < 1260 /\ c < 1260
        /\ (RulesCount(x, y) => r < 1260)
    BY <1>1, <1>2
  <2> HIDE DEF r, t, o, c
  <2>3. RulesCount(x, y) => whole \in Nat /\ whole < 50
    BY <2>2, AverageBelowHalf
  <2>4. most \in Nat /\ most < 50
    <3>1. 0 \in Nat /\ 0 < 1260
      OBVIOUS
    <3> QED BY <2>2, <3>1, AverageBelowHalf
  <2> HIDE DEF whole, most
  <2> QED BY <2>1, <2>3, <2>4
<1>4. PICK s \in Signals(x, y) : 2 * s.value >= Unit
  <2>1. /\ RulesCount(x, y) => Signal(5, RuleOverlap(x, y), "rules") \in Signals(x, y)
        /\ Signal(2, TechniqueOverlap(x, y), "techniques") \in Signals(x, y)
        /\ Signal(2, RootOverlap(x, y), "root") \in Signals(x, y)
        /\ Signal(1, ChainOverlap(x, y), "chain") \in Signals(x, y)
    BY DEF Signals, RulesCount, RuleOverlap, TechniqueOverlap, RootOverlap, ChainOverlap
  <2>2. \A weight, n, reason : Signal(weight, n, reason).value = n
    BY DEF Signal
  <2> QED BY <1>1, <1>2, <1>3, <2>1, <2>2 DEF Unit
<1>5. Compare(x, y).reasons = {z.reason : z \in {t \in Signals(x, y) : 2 * t.value >= Unit}}
  BY DEF Compare
<1>6. s.reason \in Compare(x, y).reasons
  BY <1>4, <1>5
<1> QED BY <1>1, <1>2, <1>3, <1>6

(* What repeats the rules and the chain, root included, is four fifths a match. *)
LEMMA RepeatIsAMatch ==
    ASSUME NEW x, NEW y, Comparable(x), Comparable(y), RulesCount(x, y),
           x.ruleIds = y.ruleIds, x.ruleIds # {}, x.root = y.root, x.root # {},
           x.chain = y.chain, x.chain # {}
    PROVE  Compare(x, y).share >= 80
<1>1. RuleOverlap(x, y) = 2520 /\ RootOverlap(x, y) = 2520 /\ ChainOverlap(x, y) = 2520
  BY JaccardBounds DEF Comparable, RuleOverlap, RootOverlap, ChainOverlap, Unit
<1>2. TechniqueOverlap(x, y) \in Nat
  BY JaccardBounds DEF Comparable, TechniqueOverlap
<1> QED BY <1>1, <1>2, AverageOfRepeat, ShareIsAverage

(* The fingerprint of a case, and what there is to read of its rules. *)
LEMMA FingerprintsCompare ==
    ASSUME CasebookTypeOK, NEW c \in Raised
    PROVE  /\ IsFiniteSet(RulesOf(DetectionRows(c)))
           /\ RulesOf(DetectionRows(c)) # NoRuleIds
           /\ stored[c] # 0 <=> RulesOf(DetectionRows(c)) # {}
           /\ \A ruleIds : IsFiniteSet(ruleIds) => Comparable(FingerprintOf(c, ruleIds))
<1> DEFINE rows == DetectionRows(c)
           N == Len(rows)
           ruleOf == [n \in 1..N |-> rows[n].rule]
<1>1. c \in Case /\ members[c] \in Seq(Catalog) /\ stored[c] \in Nat /\ stored[c] <= Len(members[c])
  BY DEF CasebookTypeOK, Raised
<1>2. rows \in Seq(Catalog) /\ N = stored[c]
  BY <1>1 DEF DetectionRows
<1> HIDE DEF rows
<1>3. DOMAIN rows = 1..N /\ N \in Nat /\ \A n \in 1..N : rows[n] \in Catalog
  BY <1>2
<1>4. RulesOf(rows) = {ruleOf[n] : n \in 1..N}
  BY <1>3 DEF RulesOf
<1>5. IsFiniteSet(RulesOf(rows))
  BY <1>2, RulesAreFinite
<1>6. \A rule \in RulesOf(rows) : rule \notin NoRuleIds
  BY <1>3, <1>4, CasebookAssumption
<1>7. RulesOf(rows) # NoRuleIds
  BY <1>6 DEF NoRuleIds
<1>8. stored[c] # 0 <=> RulesOf(rows) # {}
  <2>1. ASSUME stored[c] # 0 PROVE RulesOf(rows) # {}
    <3>1. 1 \in 1..N
      BY <1>2, <1>3, <2>1
    <3>2. ruleOf[1] \in RulesOf(rows)
      BY <1>4, <3>1
    <3> QED BY <3>2
  <2>2. ASSUME stored[c] = 0 PROVE RulesOf(rows) = {}
    <3>1. 1..N = {}
      BY <1>2, <2>2
    <3> QED BY <1>4, <3>1
  <2> QED BY <2>1, <2>2
<1>9. ASSUME NEW ruleIds, IsFiniteSet(ruleIds) PROVE Comparable(FingerprintOf(c, ruleIds))
  <2> DEFINE L == Len(ChainOf[c])
             imageOf == [n \in 1..L |-> ChainOf[c][n]]
  <2>1. L \in Nat /\ DOMAIN ChainOf[c] = 1..L
    BY <1>1, CasebookAssumption
  <2>2. imageOf \in Surjection(1..L, ToSet(ChainOf[c]))
    BY <2>1 DEF Surjection, ToSet
  <2> HIDE DEF imageOf, L
  <2>3. IsFiniteSet(1..L)
    <3>1. 1 \in Int /\ L \in Int
      BY <2>1
    <3> QED BY <3>1, FS_Interval
  <2>4. IsFiniteSet(ToSet(ChainOf[c]))
    BY <2>2, <2>3, FS_Surjection
  <2>5. IsFiniteSet(TechniquesOf(members[c]))
    BY <1>1, TechniquesAreFinite
  <2> QED BY <1>9, <2>4, <2>5 DEF Comparable, FingerprintOf, Fingerprint
<1> QED BY <1>5, <1>7, <1>8, <1>9 DEF rows

(* A set of positions has a least, and a larger one's is not greater. *)
LEMMA MinIsIn ==
    ASSUME NEW s \in SUBSET Nat, s # {}
    PROVE  Min(s) \in s /\ \A x \in s : Min(s) <= x
<1> DEFINE R == OpToRel(<, Nat)
<1> HIDE DEF R
<1>1. IsWellFoundedOn(R, Nat)
  BY NatLessThanWellFounded DEF R
<1>2. PICK x \in s : \A y \in s : ~ (<<y, x>> \in R)
  BY <1>1, WFMin
<1>3. \A a, b \in Nat : a < b => <<a, b>> \in R
  BY DEF R, OpToRel
<1>4. ASSUME NEW y \in s PROVE x <= y
  <2>1. x \in Nat /\ y \in Nat
    BY <1>2
  <2>2. ~(y < x)
    BY <1>2, <1>3, <2>1
  <2> QED BY <2>1, <2>2
<1> QED BY <1>4 DEF Min

(* Of the places S of a list, those a stable sort by descending key puts before n. *)
Before(S, key, n) == {k \in S : key[k] > key[n] \/ (key[k] = key[n] /\ k < n)}

(* When a cut to K leaves a place out, it is full, and of keys no smaller. *)
LEMMA FirstOfSort ==
    ASSUME NEW S \in SUBSET Nat, IsFiniteSet(S), NEW key \in [S -> Nat], NEW K \in Nat \ {0},
           NEW i \in S, ~(Cardinality(Before(S, key, i)) < K)
    PROVE  LET T == {n \in S : Cardinality(Before(S, key, n)) < K}
           IN  /\ IsFiniteSet(T) /\ Cardinality(T) = K
               /\ \A n \in T : key[n] >= key[i]
<1> DEFINE rank == [n \in S |-> Cardinality(Before(S, key, n))]
           T == {n \in S : rank[n] < K}
           rest == {rank[n] : n \in S \ T}
<1>1. ASSUME NEW n \in S
      PROVE  /\ Before(S, key, n) \in SUBSET S /\ IsFiniteSet(Before(S, key, n))
             /\ rank[n] = Cardinality(Before(S, key, n)) /\ rank[n] \in Nat
  <2>1. Before(S, key, n) \in SUBSET S
    BY DEF Before
  <2>2. IsFiniteSet(Before(S, key, n))
    BY <2>1, FS_Subset
  <2> QED BY <2>1, <2>2, FS_CardinalityType
<1>2. ASSUME NEW m \in S, NEW n \in S, m # n
      PROVE  m \in Before(S, key, n) \/ n \in Before(S, key, m)
  BY <1>2 DEF Before
<1>3. ASSUME NEW n \in S, NEW m \in Before(S, key, n) PROVE rank[m] < rank[n]
  <2>1. m \in S
    BY DEF Before
  <2>2. Before(S, key, m) \in SUBSET Before(S, key, n)
    <3> SUFFICES ASSUME NEW k \in Before(S, key, m) PROVE k \in Before(S, key, n)
      OBVIOUS
    <3>1. k \in S /\ (key[k] > key[m] \/ (key[k] = key[m] /\ k < m))
      BY DEF Before
    <3>2. key[m] > key[n] \/ (key[m] = key[n] /\ m < n)
      BY DEF Before
    <3>3. key[k] \in Nat /\ key[m] \in Nat /\ key[n] \in Nat /\ k \in Nat /\ m \in Nat /\ n \in Nat
      BY <2>1, <3>1
    <3>4. key[k] > key[n] \/ (key[k] = key[n] /\ k < n)
      BY <3>1, <3>2, <3>3
    <3> QED BY <3>1, <3>4 DEF Before
  <2>3. m \notin Before(S, key, m)
    BY <2>1 DEF Before
  <2>4. Cardinality(Before(S, key, m)) <= Cardinality(Before(S, key, n))
        /\ Cardinality(Before(S, key, m)) # Cardinality(Before(S, key, n))
    BY <1>1, <1>3, <2>2, <2>3, FS_Subset
  <2> QED BY <1>1, <2>1, <2>4
<1>4. T \in SUBSET S /\ IsFiniteSet(T) /\ Cardinality(T) \in Nat
  <2>1. T \in SUBSET S
    OBVIOUS
  <2> QED BY <2>1, FS_Subset, FS_CardinalityType
<1>5. i \in S /\ i \notin T
  BY <1>1
<1>6. PICK m \in S \ T : \A n \in S \ T : rank[m] <= rank[n]
  <2>1. rest \in SUBSET Nat /\ rest # {}
    BY <1>1, <1>5
  <2>2. Min(rest) \in rest /\ \A r \in rest : Min(rest) <= r
    BY <2>1, MinIsIn
  <2> QED BY <2>2
<1> HIDE DEF rank
<1>7. Before(S, key, m) \in SUBSET T
  <2> SUFFICES ASSUME NEW n \in Before(S, key, m) PROVE n \in T
    OBVIOUS
  <2>1. n \in S /\ rank[n] < rank[m]
    BY <1>1, <1>3
  <2>2. rank[n] \in Nat /\ rank[m] \in Nat
    BY <1>1, <2>1
  <2> QED BY <1>6, <2>1, <2>2
<1>8. Cardinality(T) >= K
  <2>1. Cardinality(Before(S, key, m)) <= Cardinality(T)
    <3> HIDE DEF T
    <3> QED BY <1>4, <1>7, FS_Subset
  <2>2. rank[m] = Cardinality(Before(S, key, m)) /\ rank[m] \in Nat /\ ~(rank[m] < K)
    BY <1>1, <1>6
  <2> QED BY <1>4, <2>1, <2>2
<1>9. Cardinality(T) <= K
  <2> DEFINE g == [n \in T |-> rank[n]]
  <2>1. g \in [T -> 0..(K - 1)]
    <3>1. \A n \in T : rank[n] \in 0..(K - 1)
      <4> SUFFICES ASSUME NEW n \in T PROVE rank[n] \in 0..(K - 1)
        OBVIOUS
      <4>1. n \in S /\ rank[n] < K
        OBVIOUS
      <4>2. rank[n] \in Nat
        BY <1>1, <4>1
      <4> QED BY <4>1, <4>2
    <3> HIDE DEF T
    <3> QED BY <3>1
  <2>2. ASSUME NEW a \in T, NEW b \in T, g[a] = g[b] PROVE a = b
    <3> SUFFICES ASSUME a # b PROVE FALSE
      OBVIOUS
    <3>1. a \in S /\ b \in S /\ rank[a] = rank[b] /\ rank[a] \in Nat
      BY <1>1, <2>2
    <3>2. rank[a] < rank[b] \/ rank[b] < rank[a]
      BY <1>2, <1>3, <3>1
    <3> QED BY <3>1, <3>2
  <2>3. DOMAIN g = T
    OBVIOUS
  <2> HIDE DEF g, T
  <2>4. g \in Injection(T, 0..(K - 1))
    BY <2>1, <2>2, <2>3 DEF Injection, IsInjective
  <2>5. IsFiniteSet(0..(K - 1)) /\ Cardinality(0..(K - 1)) = K
    <3>1. 0 \in Int /\ K - 1 \in Int /\ ~(0 > K - 1)
      OBVIOUS
    <3>2. IsFiniteSet(0..(K - 1)) /\ Cardinality(0..(K - 1)) = (K - 1) - 0 + 1
      BY <3>1, FS_Interval
    <3> QED BY <3>2
  <2>6. Cardinality(T) <= Cardinality(0..(K - 1))
    BY <2>4, <2>5, FS_Injection
  <2> QED BY <2>5, <2>6
<1>10. ASSUME NEW n \in T PROVE key[n] >= key[i]
  <2> SUFFICES ASSUME ~(key[n] >= key[i]) PROVE FALSE
    OBVIOUS
  <2>1. i \in Before(S, key, n)
    BY DEF Before
  <2>2. rank[i] < rank[n] /\ rank[n] < K /\ ~(rank[i] < K)
    BY <1>3, <1>5, <2>1
  <2>3. rank[i] \in Nat /\ rank[n] \in Nat
    BY <1>1
  <2> QED BY <2>2, <2>3
<1>11. T = {n \in S : Cardinality(Before(S, key, n)) < K}
  BY DEF rank
<1>12. Cardinality(T) = K
  BY <1>4, <1>8, <1>9
<1> HIDE DEF T
<1>13. IsFiniteSet(T) /\ Cardinality(T) = K /\ \A n \in T : key[n] >= key[i]
  BY <1>4, <1>10, <1>12
<1> QED BY <1>11, <1>13

(* What a history is made of. *)
LEMMA HistoryIs ==
    ASSUME CasebookTypeOK, NEW order \in Orders, NEW limit \in 1..HistoryLimit
    PROVE  LET history == FalsePositiveHistory(order, limit)
               places  == DOMAIN history
           IN  /\ places \in SUBSET Nat /\ IsFiniteSet(places)
               /\ \A n \in places :
                     /\ order[n] \in Raised
                     /\ history[n] = FingerprintOf(order[n], StoredRuleIds(order[n]))
               /\ \A m, n \in places : order[m] = order[n] => m = n
<1> DEFINE history == FalsePositiveHistory(order, limit)
           places  == DOMAIN history
           N == Cardinality(Dismissed)
<1>1. Dismissed \in SUBSET Case /\ Dismissed \subseteq Raised
  BY DEF Dismissed, Raised
<1>2. IsFiniteSet(Case)
  BY CasebookAssumption
<1>3. N \in Nat
  BY <1>1, <1>2, FS_Subset, FS_CardinalityType
<1>4. order \in Injection(1..N, Dismissed)
  BY DEF Orders, Bijection
<1>5. /\ DOMAIN order = 1..N /\ \A n \in 1..N : order[n] \in Dismissed
      /\ \A m, n \in 1..N : order[m] = order[n] => m = n
  BY <1>4 DEF Injection, IsInjective
<1>6. /\ places = {k \in 1..N : k <= limit}
      /\ \A n \in places : history[n] = FingerprintOf(order[n], StoredRuleIds(order[n]))
  BY <1>5 DEF FalsePositiveHistory
<1>7. IsFiniteSet(1..N)
  BY <1>3, FS_Interval
<1> HIDE DEF N, history
<1>8. places \in SUBSET (1..N)
  BY <1>6
<1>9. IsFiniteSet(places)
  BY <1>7, <1>8, FS_Subset
<1> QED BY <1>1, <1>3, <1>5, <1>6, <1>8, <1>9 DEF history

(* What clears the threshold is cited, or the page is full without it. *)
LEMMA StrongestAreCited ==
    ASSUME NEW x, NEW history, NEW S, S = Cleared(x, history), S \in SUBSET Nat, IsFiniteSet(S),
           \A n \in S : Compare(x, history[n]).score \in Nat,
           \A m, n \in S : history[m].id = history[n].id => m = n, NEW k \in S
    PROVE  \/ Compare(x, history[k]) \in Assess(x, history)
           \/ /\ Cardinality(Assess(x, history)) = MaxMatches
              /\ \A match \in Assess(x, history) : match.score >= Compare(x, history[k]).score
<1> DEFINE key == [n \in S |-> Compare(x, history[n]).score]
           T == {n \in S : Cardinality(Before(S, key, n)) < MaxMatches}
           cite == [n \in T |-> Compare(x, history[n])]
           page == Assess(x, history)
<1>1. key \in [S -> Nat]
  OBVIOUS
<1>2. ASSUME NEW n \in S PROVE Ahead(x, history, n) = Before(S, key, n)
  BY DEF Ahead, Before
<1>3. page = {Compare(x, history[n]) : n \in T}
  <2>1. {n \in S : Cardinality(Ahead(x, history, n)) < MaxMatches} = T
    BY <1>2
  <2> HIDE DEF T
  <2> QED BY <2>1 DEF Assess
<1>4. CASE k \in T
  BY <1>3, <1>4
<1>5. CASE k \notin T
  <2>1. MaxMatches \in Nat \ {0}
    BY NoiseAssumption
  <2>2. ~(Cardinality(Before(S, key, k)) < MaxMatches)
    BY <1>5
  <2> HIDE DEF key
  <2>3. IsFiniteSet(T) /\ Cardinality(T) = MaxMatches /\ \A n \in T : key[n] >= key[k]
    BY <1>1, <2>1, <2>2, FirstOfSort
  <2>4. T \in SUBSET S
    OBVIOUS
  <2>5. \A n \in S : Compare(x, history[n]).id = history[n].id
    BY DEF Compare
  <2> HIDE DEF T
  <2>6. cite \in Bijection(T, page)
    <3>1. DOMAIN cite = T /\ \A n \in T : cite[n] = Compare(x, history[n])
      OBVIOUS
    <3>2. cite \in [T -> page]
      BY <1>3
    <3>3. \A m, n \in T : cite[m] = cite[n] => m = n
      BY <2>4, <2>5, <3>1
    <3>4. \A match \in page : \E n \in T : cite[n] = match
      BY <1>3, <3>1
    <3> HIDE DEF cite, page
    <3> QED BY <3>1, <3>2, <3>3, <3>4 DEF Bijection, Injection, Surjection, IsInjective
  <2>7. Cardinality(page) = MaxMatches
    <3>1. ExistsBijection(T, page)
      BY <2>6 DEF ExistsBijection
    <3> HIDE DEF page
    <3> QED BY <2>3, <3>1, FS_Bijection
  <2>8. \A match \in page : match.score >= Compare(x, history[k]).score
    BY <1>3, <2>3, <2>4 DEF key
  <2> QED BY <2>7, <2>8
<1> QED BY <1>4, <1>5

\* From half a match on, what is cited shares something with the incident and
\* says so; up to four fifths, a dismissed incident it repeats is cited unless as
\* many as there is room for resemble it no less; and the list agrees with the
\* page: for any history, in any order, wherever the query cuts it.
THEOREM NoiseIsSound ==
    ASSUME ThresholdPercent \in 50..80
    PROVE  CasebookSpec => []NoiseSound
<1>1. CasebookTypeOK => NoiseSound
  <2> SUFFICES ASSUME CasebookTypeOK, NEW c \in Raised,
                      NEW order \in Orders, NEW limit \in 1..HistoryLimit
               PROVE  LET history == FalsePositiveHistory(order, limit)
                          page    == DetailNoise(c, history)
                      IN  /\ stored[c] > 0 => ListNoise(c, history) = page
                          /\ \A match \in ListNoise(c, history) :
                                /\ match.reasons # {}
                                /\ \/ TechniquesOf(members[c])
                                        \cap TechniquesOf(members[match.id]) # {}
                                   \/ RulesOf(DetectionRows(c))
                                        \cap RulesOf(DetectionRows(match.id)) # {}
                                   \/ ToSet(ChainOf[c]) \cap ToSet(ChainOf[match.id]) # {}
                          /\ \A k \in DOMAIN history : Repeats(c, order, k) =>
                                LET repeat == Compare(FingerprintOf(c, StoredRuleIds(c)),
                                                      history[k])
                                IN  \/ repeat \in page
                                    \/ /\ Cardinality(page) = MaxMatches
                                       /\ \A match \in page : match.score >= repeat.score
    BY Zenon DEF NoiseSound
  <2> DEFINE history == FalsePositiveHistory(order, limit)
             places  == DOMAIN history
             x == FingerprintOf(c, StoredRuleIds(c))
  <2>0. /\ places \in SUBSET Nat /\ IsFiniteSet(places)
        /\ \A n \in places :
              /\ order[n] \in Raised
              /\ history[n] = FingerprintOf(order[n], StoredRuleIds(order[n]))
        /\ \A m, n \in places : order[m] = order[n] => m = n
    BY HistoryIs
  <2> HIDE DEF history
  <2>1. stored[c] \in Nat /\ c \in Case
    BY DEF CasebookTypeOK, Raised
  <2>2. stored[c] > 0 => ListNoise(c, history) = DetailNoise(c, history)
    BY <2>1 DEF ListNoise, DetailNoise, StoredRuleIds
  <2>3. \A e \in Raised : IsFiniteSet(StoredRuleIds(e))
    <3>1. IsFiniteSet(NoRuleIds)
      BY FS_Singleton DEF NoRuleIds
    <3> QED BY <3>1, FingerprintsCompare DEF StoredRuleIds
  <2>4. \A e \in Case : ChainOf[e] \in Seq(ToSet(ChainOf[e]))
    BY CasebookAssumption
  <2>5. \A e \in Case : ChainOf[e] # <<>> => Head(ChainOf[e]) \in ToSet(ChainOf[e])
    <3> SUFFICES ASSUME NEW e \in Case, ChainOf[e] # <<>>
                 PROVE  Head(ChainOf[e]) \in ToSet(ChainOf[e])
      OBVIOUS
    <3>1. ChainOf[e] \in Seq(ToSet(ChainOf[e]))
      BY <2>4
    <3> QED BY <3>1
  <2>6. \A e \in Raised : Comparable(FingerprintOf(e, StoredRuleIds(e)))
    BY <2>3, FingerprintsCompare
  <2>7. ASSUME NEW match \in ListNoise(c, history)
        PROVE  /\ match.reasons # {}
               /\ \/ TechniquesOf(members[c]) \cap TechniquesOf(members[match.id]) # {}
                  \/ RulesOf(DetectionRows(c)) \cap RulesOf(DetectionRows(match.id)) # {}
                  \/ ToSet(ChainOf[c]) \cap ToSet(ChainOf[match.id]) # {}
    <3>1. PICK n \in places : /\ match = Compare(x, history[n])
                              /\ match.share >= ThresholdPercent
      BY <2>7 DEF ListNoise, Assess, Cleared
    <3> DEFINE e == order[n]
               y == FingerprintOf(e, StoredRuleIds(e))
    <3>2. e \in Raised /\ e \in Case /\ history[n] = y
      BY <2>0 DEF Raised
    <3>3. Comparable(x) /\ Comparable(y)
      BY <2>6, <3>2
    <3>4. /\ x.techniques = TechniquesOf(members[c]) /\ y.techniques = TechniquesOf(members[e])
          /\ x.chain = ToSet(ChainOf[c]) /\ y.chain = ToSet(ChainOf[e])
          /\ x.root = (IF ChainOf[c] = <<>> THEN {} ELSE {Head(ChainOf[c])})
          /\ y.root = (IF ChainOf[e] = <<>> THEN {} ELSE {Head(ChainOf[e])})
          /\ x.ruleIds = StoredRuleIds(c) /\ y.ruleIds = StoredRuleIds(e) /\ y.id = e
      BY DEF FingerprintOf, Fingerprint
    <3> HIDE DEF x, y, e
    <3>5. match.id = e /\ match = Compare(x, y)
      BY <3>1, <3>2, <3>4 DEF Compare
    <3>6. Compare(x, y).share >= 50
      <4>1. Compare(x, y).share \in Nat
        BY <3>3, ShareIsNatural
      <4> QED BY <3>1, <3>5, <4>1
    <3>7. /\ match.reasons # {}
          /\ \/ RulesCount(x, y) /\ x.ruleIds \cap y.ruleIds # {}
             \/ x.techniques \cap y.techniques # {}
             \/ x.root # {} /\ x.root = y.root
             \/ x.chain \cap y.chain # {}
      BY <3>3, <3>5, <3>6, HalfMatchIsExplained
    <3>8. RulesCount(x, y) =>
             x.ruleIds = RulesOf(DetectionRows(c)) /\ y.ruleIds = RulesOf(DetectionRows(e))
      BY <3>4 DEF RulesCount, StoredRuleIds
    <3>9. x.root # {} /\ x.root = y.root => ToSet(ChainOf[c]) \cap ToSet(ChainOf[e]) # {}
      BY <2>1, <2>5, <3>2, <3>4
    <3> QED BY <3>4, <3>5, <3>7, <3>8, <3>9
  <2>8. ASSUME NEW k \in places, Repeats(c, order, k)
        PROVE  \/ Compare(x, history[k]) \in DetailNoise(c, history)
               \/ /\ Cardinality(DetailNoise(c, history)) = MaxMatches
                  /\ \A match \in DetailNoise(c, history) :
                        match.score >= Compare(x, history[k]).score
    <3> DEFINE dismissed == order[k]
               y == FingerprintOf(dismissed, StoredRuleIds(dismissed))
               S == Cleared(x, history)
    <3>0. /\ status[c] = "open" /\ stored[c] > 0
          /\ RulesOf(DetectionRows(c)) = RulesOf(DetectionRows(dismissed))
          /\ ChainOf[c] = ChainOf[dismissed] /\ ChainOf[c] # <<>>
      BY <2>8 DEF Repeats
    <3>1. RulesOf(DetectionRows(c)) # {} /\ RulesOf(DetectionRows(c)) # NoRuleIds
      BY <2>1, <3>0, FingerprintsCompare
    <3>9. dismissed \in Raised /\ history[k] = y
      BY <2>0
    <3>2. /\ StoredRuleIds(dismissed) = RulesOf(DetectionRows(c))
          /\ StoredRuleIds(c) = RulesOf(DetectionRows(c))
      BY <2>1, <3>0, <3>1, <3>9, FingerprintsCompare DEF StoredRuleIds
    <3>3. Comparable(x) /\ Comparable(y)
      BY <2>6, <3>9
    <3>4. /\ x.ruleIds = y.ruleIds /\ x.ruleIds # {} /\ RulesCount(x, y)
          /\ x.root = y.root /\ x.root # {} /\ x.chain = y.chain /\ x.chain # {}
      <4>1. /\ x.ruleIds = StoredRuleIds(c) /\ y.ruleIds = StoredRuleIds(dismissed)
            /\ x.root = (IF ChainOf[c] = <<>> THEN {} ELSE {Head(ChainOf[c])})
            /\ y.root = (IF ChainOf[dismissed] = <<>> THEN {} ELSE {Head(ChainOf[dismissed])})
            /\ x.chain = ToSet(ChainOf[c]) /\ y.chain = ToSet(ChainOf[dismissed])
        BY DEF FingerprintOf, Fingerprint
      <4> HIDE DEF x, y
      <4>2. ToSet(ChainOf[c]) # {}
        BY <2>1, <2>5, <3>0
      <4> QED BY <3>0, <3>1, <3>2, <4>1, <4>2 DEF RulesCount
    <3>5. DetailNoise(c, history) = Assess(x, history)
      BY <3>0, <3>2 DEF DetailNoise
    <3>6. \A n \in places : /\ Comparable(history[n]) /\ history[n].id = order[n]
      BY <2>0, <2>6 DEF FingerprintOf, Fingerprint
    <3> HIDE DEF x, y
    <3>7. k \in S
      <4>1. Compare(x, y).share >= 80
        BY <3>3, <3>4, RepeatIsAMatch
      <4>2. Compare(x, y).share \in Nat
        BY <3>3, ShareIsNatural
      <4>3. Compare(x, y).share >= ThresholdPercent
        BY <4>1, <4>2
      <4> QED BY <3>9, <4>3 DEF Cleared
    <3>8. /\ S \in SUBSET Nat /\ IsFiniteSet(S)
          /\ \A n \in S : Compare(x, history[n]).score \in Nat
          /\ \A m, n \in S : history[m].id = history[n].id => m = n
      <4>1. S \in SUBSET places
        BY DEF Cleared
      <4>2. IsFiniteSet(S)
        BY <2>0, <4>1, FS_Subset
      <4>3. \A n \in S : Compare(x, history[n]).score \in Nat
        BY <3>3, <3>6, <4>1, ShareIsNatural
      <4> QED BY <2>0, <3>6, <4>1, <4>2, <4>3
    <3> HIDE DEF S, places
    <3>10. S = Cleared(x, history)
      BY DEF S
    <3>11. \/ Compare(x, history[k]) \in Assess(x, history)
           \/ /\ Cardinality(Assess(x, history)) = MaxMatches
              /\ \A match \in Assess(x, history) : match.score >= Compare(x, history[k]).score
      BY <3>7, <3>8, <3>10, StrongestAreCited
    <3> QED BY <3>5, <3>11
  <2>9. \A k \in places : Repeats(c, order, k) =>
           \/ Compare(x, history[k]) \in DetailNoise(c, history)
           \/ /\ Cardinality(DetailNoise(c, history)) = MaxMatches
              /\ \A match \in DetailNoise(c, history) :
                    match.score >= Compare(x, history[k]).score
    BY <2>8
  <2> QED BY <2>2, <2>7, <2>9 DEF history
<1> QED BY <1>1, CasebookTypeCorrect, PTL

-----------------------------------------------------------------------------
(* A story that only gets sharper.                                         *)

LEMMA MinOfMore ==
    ASSUME NEW a, NEW b \in SUBSET Nat, a \subseteq b, a # {}
    PROVE  Min(b) <= Min(a) /\ Min(b) \in Nat /\ Min(a) \in Nat
<1>1. Min(a) \in a
  BY MinIsIn
<1>2. Min(b) \in b /\ \A x \in b : Min(b) <= x
  BY MinIsIn
<1> QED BY <1>1, <1>2

\* One list of detections goes on where another ends.
Begins(m, n) == Len(m) <= Len(n) /\ \A i \in DOMAIN m : n[i] = m[i]

LEMMA AppendBegins ==
    ASSUME NEW m \in Seq(Catalog), NEW d \in Catalog
    PROVE  Append(m, d) \in Seq(Catalog) /\ Begins(m, Append(m, d))
BY DEF Begins

(* What more detections tell is not less. *)
LEMMA MoreIsTold ==
    ASSUME NEW m \in Seq(Catalog), NEW n \in Seq(Catalog), Begins(m, n)
    PROVE  /\ DOMAIN m \subseteq DOMAIN n
           /\ RulesOf(m) \subseteq RulesOf(n) /\ TechniquesOf(m) \subseteq TechniquesOf(n)
           /\ \A tactic : Serving(m, tactic) \subseteq Serving(n, tactic)
           /\ \A tactic : Serving(m, tactic) \subseteq DOMAIN m
<1>1. DOMAIN m = 1..Len(m) /\ DOMAIN n = 1..Len(n) /\ Len(m) \in Nat /\ Len(n) \in Nat
  OBVIOUS
<1>2. \A i \in DOMAIN m : i \in DOMAIN n /\ n[i] = m[i]
  BY <1>1 DEF Begins
<1>3. RulesOf(m) \subseteq RulesOf(n)
  BY <1>2 DEF RulesOf
<1>4. TechniquesOf(m) \subseteq TechniquesOf(n)
  BY <1>2 DEF TechniquesOf
<1>5. \A tactic : Serving(m, tactic) \subseteq Serving(n, tactic)
  BY <1>2 DEF Serving
<1>6. \A tactic : Serving(m, tactic) \subseteq DOMAIN m
  BY DEF Serving
<1> QED BY <1>2, <1>3, <1>4, <1>5, <1>6

(* A chain that classifies is never given up for a later one. *)
LEMMA ChainStands ==
    ASSUME NEW m \in Seq(Catalog), NEW n \in Seq(Catalog), Begins(m, n),
           CorrelationChain(m) # 0
    PROVE  /\ CorrelationChain(m) \in Nat /\ CorrelationChain(n) \in Nat
           /\ CorrelationChain(n) # 0 /\ CorrelationChain(n) <= CorrelationChain(m)
<1> DEFINE Met(list) == {k \in DOMAIN CORRELATION_CHAINS :
                            \A requirement \in CORRELATION_CHAINS[k] :
                                IsMet(requirement, RulesOf(list))}
<1>1. DOMAIN CORRELATION_CHAINS = 1..3
  BY DEF CORRELATION_CHAINS
<1>2. \A k \in DOMAIN CORRELATION_CHAINS : \A requirement \in CORRELATION_CHAINS[k] :
          requirement.minimum \in Nat
  BY DEF CORRELATION_CHAINS, AtLeast
<1>3. ASSUME NEW requirement, requirement.minimum \in Nat, IsMet(requirement, RulesOf(m))
      PROVE  IsMet(requirement, RulesOf(n))
  <2> DEFINE had == RulesOf(m) \cap requirement.rules
             has == RulesOf(n) \cap requirement.rules
  <2>1. had \subseteq has
    BY MoreIsTold
  <2>2. IsFiniteSet(has)
    <3>1. IsFiniteSet(RulesOf(n)) /\ has \in SUBSET RulesOf(n)
      BY RulesAreFinite
    <3> HIDE DEF has
    <3> QED BY <3>1, FS_Subset
  <2>3. Cardinality(had) >= requirement.minimum
    BY <1>3 DEF IsMet
  <2> HIDE DEF had, has
  <2>4. Cardinality(had) <= Cardinality(has)
    BY <2>1, <2>2, FS_Subset
  <2>5. Cardinality(had) \in Nat /\ Cardinality(has) \in Nat
    <3>1. IsFiniteSet(had)
      BY <2>1, <2>2, FS_Subset
    <3> QED BY <2>2, <3>1, FS_CardinalityType
  <2>6. Cardinality(has) >= requirement.minimum
    BY <1>3, <2>3, <2>4, <2>5
  <2> QED BY <2>6 DEF IsMet, has
<1>4. Met(m) \subseteq Met(n)
  BY <1>2, <1>3
<1>5. Met(m) \subseteq 1..3 /\ Met(n) \subseteq 1..3
  BY <1>1
<1>6. /\ CorrelationChain(m) = IF Met(m) = {} THEN 0 ELSE Min(Met(m))
      /\ CorrelationChain(n) = IF Met(n) = {} THEN 0 ELSE Min(Met(n))
  BY DEF CorrelationChain
<1> HIDE DEF Met
<1>7. Met(m) # {} /\ Met(n) # {} /\ Met(n) \in SUBSET Nat
  BY <1>4, <1>5, <1>6
<1>8. Min(Met(n)) <= Min(Met(m)) /\ Min(Met(n)) \in Nat /\ Min(Met(m)) \in Nat
  BY <1>4, <1>7, MinOfMore
<1>9. Min(Met(n)) \in 1..3
  BY <1>5, <1>7, MinIsIn
<1> QED BY <1>6, <1>7, <1>8, <1>9

(* Every kind of title that fits still fits, at the same place or an earlier. *)
LEMMA TitleSharpens ==
    ASSUME NEW m \in Seq(Catalog), NEW n \in Seq(Catalog), Begins(m, n)
    PROVE  AtLeastAsSharp(IncidentTitle(n), IncidentTitle(m))
<1> DEFINE Fit(list) == FittingTitles(list)
           Fits(list) == {k \in DOMAIN TITLE_ORDER : FittingTitles(list)[TITLE_ORDER[k]] # {}}
           Tactics(list) == UNION {TacticFor(TitleTable, t) : t \in TechniquesOf(list)}
           Kinds == {"chain", "narrative", "signature", "tactic", "none"}
<1>1. DOMAIN TITLE_ORDER = 1..5 /\ \A k \in 1..5 : TITLE_ORDER[k] \in Kinds
  BY DEF TITLE_ORDER
<1>2. \A j, k \in 1..5 : TITLE_ORDER[j] = TITLE_ORDER[k] => j = k
  BY DEF TITLE_ORDER
<1>3. \A list :
        /\ Fit(list)["chain"] =
              (IF CorrelationChain(list) = 0 THEN {} ELSE {CorrelationChain(list)})
        /\ Fit(list)["narrative"] = {k \in DOMAIN NARRATIVES : NARRATIVES[k] \subseteq Tactics(list)}
        /\ Fit(list)["signature"] =
              {k \in DOMAIN SIGNATURE_RULES : SIGNATURE_RULES[k] \in RulesOf(list)}
        /\ Fit(list)["tactic"] = (IF Tactics(list) = {} THEN {} ELSE {1})
        /\ Fit(list)["none"] = {1}
  BY DEF FittingTitles
<1>4. Tactics(m) \subseteq Tactics(n) /\ RulesOf(m) \subseteq RulesOf(n)
  BY MoreIsTold
<1>5. DOMAIN NARRATIVES \subseteq Nat /\ DOMAIN SIGNATURE_RULES \subseteq Nat
  BY DEF NARRATIVES, SIGNATURE_RULES
<1> HIDE DEF Fit, Tactics
<1>6. ASSUME NEW kind \in Kinds, Fit(m)[kind] # {}
      PROVE  /\ Fit(n)[kind] # {} /\ Min(Fit(n)[kind]) <= Min(Fit(m)[kind])
  <2>1. CASE kind = "chain"
    <3>1. \A x : Min({x}) = x \/ x \notin Nat
      <4> SUFFICES ASSUME NEW x \in Nat PROVE Min({x}) = x
        OBVIOUS
      <4>1. {x} \in SUBSET Nat /\ {x} # {}
        OBVIOUS
      <4> QED BY <4>1, MinIsIn
    <3>2. CorrelationChain(m) # 0
      BY <1>3, <1>6, <2>1
    <3>3. /\ CorrelationChain(m) \in Nat /\ CorrelationChain(n) \in Nat
          /\ CorrelationChain(n) # 0 /\ CorrelationChain(n) <= CorrelationChain(m)
      BY <3>2, ChainStands
    <3>4. Fit(m)[kind] = {CorrelationChain(m)} /\ Fit(n)[kind] = {CorrelationChain(n)}
      BY <1>3, <2>1, <3>2, <3>3
    <3> QED BY <3>1, <3>3, <3>4
  <2>2. CASE kind # "chain"
    <3>1. Fit(m)[kind] \subseteq Fit(n)[kind] /\ Fit(n)[kind] \in SUBSET Nat
      <4>1. CASE kind = "narrative"
        BY <1>3, <1>4, <1>5, <4>1
      <4>2. CASE kind = "signature"
        BY <1>3, <1>4, <1>5, <4>2
      <4>3. CASE kind = "tactic"
        BY <1>3, <1>4, <4>3
      <4>4. CASE kind = "none"
        BY <1>3, <4>4
      <4> QED BY <2>2, <4>1, <4>2, <4>3, <4>4
    <3> QED BY <1>6, <3>1, MinOfMore
  <2> QED BY <2>1, <2>2
<1>7. Fits(m) \subseteq Fits(n) /\ Fits(m) \subseteq 1..5 /\ Fits(n) \subseteq 1..5
  BY <1>1, <1>6 DEF Fit
<1>8. Fits(m) # {} /\ Fits(n) # {}
  <2>1. 5 \in Fits(m)
    <3>1. TITLE_ORDER[5] = "none" /\ Fit(m)["none"] = {1}
      BY <1>3 DEF TITLE_ORDER
    <3>2. FittingTitles(m)[TITLE_ORDER[5]] # {}
      BY <3>1 DEF Fit
    <3>3. 5 \in DOMAIN TITLE_ORDER
      BY <1>1
    <3> QED BY <3>2, <3>3
  <2> QED BY <1>7, <2>1
<1> DEFINE a == Min(Fits(n))
           b == Min(Fits(m))
<1>9. IncidentTitle(n) = Title(TITLE_ORDER[a], Min(Fit(n)[TITLE_ORDER[a]]))
      /\ IncidentTitle(m) = Title(TITLE_ORDER[b], Min(Fit(m)[TITLE_ORDER[b]]))
  BY DEF IncidentTitle, Fit
<1>10. b \in Fits(m) => Fit(m)[TITLE_ORDER[b]] # {}
  BY DEF Fit
<1> HIDE DEF Fits
<1>11. a \in Fits(n) /\ b \in Fits(m) /\ a <= b
  <2>1. Fits(m) \in SUBSET Nat /\ Fits(n) \in SUBSET Nat
    BY <1>7
  <2>2. a \in Fits(n) /\ b \in Fits(m)
    BY <1>8, <2>1, MinIsIn
  <2>3. a <= b
    BY <1>7, <1>8, <2>1, MinOfMore
  <2> QED BY <2>2, <2>3
<1> HIDE DEF a, b
<1>12. a \in 1..5 /\ b \in 1..5
  BY <1>7, <1>11
<1>13. /\ IncidentTitle(n).kind = TITLE_ORDER[a] /\ IncidentTitle(m).kind = TITLE_ORDER[b]
       /\ IncidentTitle(n).n = Min(Fit(n)[TITLE_ORDER[a]])
       /\ IncidentTitle(m).n = Min(Fit(m)[TITLE_ORDER[b]])
  BY <1>9 DEF Title
<1>14. ASSUME NEW k \in 1..5
       PROVE  (CHOOSE j \in DOMAIN TITLE_ORDER : TITLE_ORDER[j] = TITLE_ORDER[k]) = k
  BY <1>1, <1>2
<1>15. AtLeastAsSharp(IncidentTitle(n), IncidentTitle(m)) <=>
          a < b \/ (TITLE_ORDER[a] = TITLE_ORDER[b]
                       /\ IncidentTitle(n).n <= IncidentTitle(m).n)
  BY <1>12, <1>13, <1>14 DEF AtLeastAsSharp
<1>16. CASE a = b
  <2>1. Min(Fit(n)[TITLE_ORDER[a]]) <= Min(Fit(m)[TITLE_ORDER[b]])
    BY <1>1, <1>6, <1>10, <1>11, <1>12, <1>16
  <2> QED BY <1>13, <1>15, <1>16, <2>1
<1>17. CASE a # b
  BY <1>11, <1>12, <1>15, <1>17
<1> QED BY <1>16, <1>17

(* The phases told are gathered tactic by tactic. *)
Told(detections) ==
    FoldLeft(LAMBDA told, tactic :
                 IF Serving(detections, tactic) = {} THEN told ELSE Append(told, tactic),
             <<>>, TACTIC_ORDER)

Tactics == ToSet(TACTIC_ORDER)

LEMMA ToldStepwise ==
    ASSUME NEW detections
    PROVE  \E run : /\ run[0] = <<>> /\ run[12] = Told(detections)
                    /\ \A k \in 0..12 : run[k] \in Seq(Tactics)
                    /\ \A k \in 1..12 :
                          run[k] = IF Serving(detections, TACTIC_ORDER[k]) = {} THEN run[k - 1]
                                   ELSE Append(run[k - 1], TACTIC_ORDER[k])
<1> DEFINE Tell(told, tactic) ==
               IF Serving(detections, tactic) = {} THEN told ELSE Append(told, tactic)
           N == 12
           step == [k \in 1..N |-> [told \in Seq(Tactics) |-> Tell(told, TACTIC_ORDER[k])]]
<1>1. N \in Nat /\ DOMAIN TACTIC_ORDER = 1..N /\ \A k \in 1..N : TACTIC_ORDER[k] \in Tactics
  <2>1. DOMAIN TACTIC_ORDER = 1..N
    BY DEF TACTIC_ORDER
  <2> QED BY <2>1 DEF Tactics, ToSet
<1>2. \A told \in Seq(Tactics), k \in 1..N : Tell(told, TACTIC_ORDER[k]) \in Seq(Tactics)
  BY <1>1
<1>3. step \in [1..N -> [Seq(Tactics) -> Seq(Tactics)]]
  BY <1>2
<1>4. \A k \in 1..N, told \in Seq(Tactics) : step[k][told] = Tell(told, TACTIC_ORDER[k])
  OBVIOUS
<1>5. <<>> \in Seq(Tactics)
  OBVIOUS
<1> HIDE DEF N, step, Tell
<1>6. PICK g \in [SUBSET (1..N) -> Seq(Tactics)] : FoldsTo(g, N, <<>>, step)
  BY <1>1, <1>3, <1>5, FoldExists
<1>7. g = [s \in SUBSET (1..N) |->
             IF s = {} THEN <<>> ELSE Tell(g[s \ {Max(s)}], TACTIC_ORDER[Max(s)])]
  <2> SUFFICES ASSUME NEW s \in SUBSET (1..N)
               PROVE  g[s] = IF s = {} THEN <<>>
                             ELSE Tell(g[s \ {Max(s)}], TACTIC_ORDER[Max(s)])
    OBVIOUS
  <2>1. g[s] = IF s = {} THEN <<>> ELSE step[Max(s)][g[s \ {Max(s)}]]
    BY <1>6 DEF FoldsTo
  <2>2. s # {} => Max(s) \in 1..N
    <3>1. s \in SUBSET (0..N)
      OBVIOUS
    <3> QED BY <1>1, <3>1, MaxIsIn
  <2>3. s \ {Max(s)} \in SUBSET (1..N)
    OBVIOUS
  <2>4. g[s \ {Max(s)}] \in Seq(Tactics)
    BY <2>3
  <2> QED BY <1>4, <2>1, <2>2, <2>4
<1>8. PICK f : /\ f = [s \in SUBSET (1..N) |->
                         IF s = {} THEN <<>> ELSE Tell(f[s \ {Max(s)}], TACTIC_ORDER[Max(s)])]
               /\ Told(detections) = f[1..N]
  BY <1>1, <1>7, Zenon DEF Told, Tell, FoldLeft, MapThenFoldSet
<1>9. \A k \in 1..N : f[1..k] = Tell(f[1..(k - 1)], TACTIC_ORDER[k])
  BY <1>1, <1>8, UpToPosition
<1>10. f[1..0] = <<>>
  <2>1. 1..0 = {} /\ {} \in SUBSET (1..N)
    OBVIOUS
  <2> QED BY <1>8, <2>1
<1> DEFINE Good == {k \in Nat : k <= N => f[1..k] \in Seq(Tactics)}
<1>11. 0 \in Good
  BY <1>5, <1>10
<1>12. ASSUME NEW k \in Nat, k \in Good PROVE k + 1 \in Good
  <2> SUFFICES ASSUME k + 1 <= N PROVE f[1..(k + 1)] \in Seq(Tactics)
    OBVIOUS
  <2>1. f[1..k] \in Seq(Tactics) /\ k + 1 \in 1..N /\ (k + 1) - 1 = k
    BY <1>1, <1>12
  <2>2. f[1..(k + 1)] = Tell(f[1..k], TACTIC_ORDER[k + 1])
    BY <1>9, <2>1
  <2> QED BY <1>2, <2>1, <2>2
<1>13. \A k \in 0..N : f[1..k] \in Seq(Tactics)
  <2> HIDE DEF Good
  <2>1. Nat \subseteq Good
    BY <1>11, <1>12, SetInduction
  <2> QED BY <1>1, <2>1 DEF Good
<1> DEFINE run == [k \in 0..N |-> f[1..k]]
<1>14. \A k \in 0..N : run[k] = f[1..k]
  OBVIOUS
<1> HIDE DEF run
<1>15. run[0] = <<>> /\ run[N] = Told(detections)
  <2>1. 0 \in 0..N /\ N \in 0..N
    BY <1>1
  <2> QED BY <1>8, <1>10, <1>14, <2>1
<1>16. \A k \in 0..N : run[k] \in Seq(Tactics)
  BY <1>13, <1>14
<1>17. ASSUME NEW k \in 1..N PROVE run[k] = Tell(run[k - 1], TACTIC_ORDER[k])
  <2>1. k \in 0..N /\ k - 1 \in 0..N
    BY <1>1
  <2> QED BY <1>9, <1>14, <2>1
<1> QED BY <1>15, <1>16, <1>17 DEF N, Tell

\* Every phase of one list is one of the other, no earlier.
PhasesWithin(a, b) ==
    /\ Len(a) <= Len(b)
    /\ \A p \in DOMAIN a : \E q \in DOMAIN b : q >= p /\ b[q] = a[p]

LEMMA MorePhases ==
    ASSUME NEW a \in Seq(Tactics), NEW b \in Seq(Tactics), PhasesWithin(a, b), NEW t \in Tactics
    PROVE  PhasesWithin(a, Append(b, t)) /\ PhasesWithin(Append(a, t), Append(b, t))
<1>1. /\ Len(a) \in Nat /\ DOMAIN a = 1..Len(a) /\ Len(b) \in Nat /\ DOMAIN b = 1..Len(b)
      /\ Append(a, t) \in Seq(Tactics) /\ Append(b, t) \in Seq(Tactics)
      /\ DOMAIN Append(a, t) = 1..(Len(a) + 1) /\ DOMAIN Append(b, t) = 1..(Len(b) + 1)
      /\ Len(Append(a, t)) = Len(a) + 1 /\ Len(Append(b, t)) = Len(b) + 1
      /\ \A p \in 1..Len(a) : Append(a, t)[p] = a[p]
      /\ \A p \in 1..Len(b) : Append(b, t)[p] = b[p]
      /\ Append(a, t)[Len(a) + 1] = t /\ Append(b, t)[Len(b) + 1] = t
  OBVIOUS
<1> DEFINE aa == Append(a, t)
           bb == Append(b, t)
<1> HIDE DEF aa, bb
<1>2. ASSUME NEW p \in 1..Len(a) PROVE \E q \in DOMAIN bb : q >= p /\ bb[q] = a[p]
  <2>1. PICK q \in DOMAIN b : q >= p /\ b[q] = a[p]
    BY <1>1 DEF PhasesWithin
  <2>2. q \in DOMAIN bb /\ bb[q] = a[p]
    BY <1>1, <2>1 DEF bb
  <2> QED BY <2>1, <2>2
<1>3. Len(b) + 1 >= Len(a) + 1
  BY <1>1 DEF PhasesWithin
<1>4. PhasesWithin(a, bb)
  BY <1>1, <1>2, <1>3 DEF PhasesWithin, bb
<1>5. ASSUME NEW p \in DOMAIN aa PROVE \E q \in DOMAIN bb : q >= p /\ bb[q] = aa[p]
  <2>1. CASE p \in 1..Len(a)
    BY <1>1, <1>2, <2>1 DEF aa
  <2>2. CASE p \notin 1..Len(a)
    <3>1. p = Len(a) + 1
      BY <1>1, <2>2 DEF aa
    <3>2. Len(b) + 1 \in DOMAIN bb /\ bb[Len(b) + 1] = t
      BY <1>1 DEF bb
    <3>3. aa[p] = t
      BY <1>1, <3>1 DEF aa
    <3> QED BY <1>3, <3>1, <3>2, <3>3
  <2> QED BY <2>1, <2>2
<1>6. PhasesWithin(aa, bb)
  BY <1>1, <1>3, <1>5 DEF PhasesWithin, aa, bb
<1> QED BY <1>4, <1>6 DEF aa, bb

(* No phase is dropped. *)
LEMMA PhasesStand ==
    ASSUME NEW m \in Seq(Catalog), NEW n \in Seq(Catalog), Begins(m, n)
    PROVE  /\ PhasesWithin(Told(m), Told(n))
           /\ Told(m) \in Seq(Tactics) /\ Told(n) \in Seq(Tactics)
<1>1. PICK f : /\ f[0] = <<>> /\ f[12] = Told(m)
               /\ \A k \in 0..12 : f[k] \in Seq(Tactics)
               /\ \A k \in 1..12 :
                     f[k] = IF Serving(m, TACTIC_ORDER[k]) = {} THEN f[k - 1]
                            ELSE Append(f[k - 1], TACTIC_ORDER[k])
  BY ToldStepwise
<1>2. PICK g : /\ g[0] = <<>> /\ g[12] = Told(n)
               /\ \A k \in 0..12 : g[k] \in Seq(Tactics)
               /\ \A k \in 1..12 :
                     g[k] = IF Serving(n, TACTIC_ORDER[k]) = {} THEN g[k - 1]
                            ELSE Append(g[k - 1], TACTIC_ORDER[k])
  BY ToldStepwise
<1>3. \A tactic : Serving(m, tactic) \subseteq Serving(n, tactic)
  BY MoreIsTold
<1> DEFINE Good == {k \in Nat : k <= 12 => PhasesWithin(f[k], g[k])}
<1>4. 0 \in Good
  BY <1>1, <1>2 DEF PhasesWithin
<1>5. ASSUME NEW k \in Nat, k \in Good PROVE k + 1 \in Good
  <2> SUFFICES ASSUME k + 1 <= 12 PROVE PhasesWithin(f[k + 1], g[k + 1])
    OBVIOUS
  <2> DEFINE t == TACTIC_ORDER[k + 1]
             a == f[k]
             b == g[k]
  <2>1. k \in 0..12 /\ k + 1 \in 1..12 /\ (k + 1) - 1 = k
    OBVIOUS
  <2>2. PhasesWithin(a, b) /\ a \in Seq(Tactics) /\ b \in Seq(Tactics)
    <3>1. k <= 12
      BY <2>1
    <3>2. PhasesWithin(a, b)
      BY <1>5, <3>1
    <3>3. a \in Seq(Tactics)
      BY <1>1, <2>1
    <3>4. b \in Seq(Tactics)
      BY <1>2, <2>1
    <3> QED BY <3>2, <3>3, <3>4
  <2>3. t \in Tactics
    <3>1. DOMAIN TACTIC_ORDER = 1..12
      BY DEF TACTIC_ORDER
    <3> QED BY <2>1, <3>1 DEF Tactics, ToSet
  <2>4. /\ f[k + 1] = IF Serving(m, t) = {} THEN a ELSE Append(a, t)
        /\ g[k + 1] = IF Serving(n, t) = {} THEN b ELSE Append(b, t)
    BY <1>1, <1>2, <2>1
  <2> HIDE DEF t, a, b
  <2>5. PhasesWithin(a, Append(b, t)) /\ PhasesWithin(Append(a, t), Append(b, t))
    BY <2>2, <2>3, MorePhases
  <2> QED BY <1>3, <2>2, <2>4, <2>5
<1> HIDE DEF Good
<1>6. 12 \in Good
  BY <1>4, <1>5, SetInduction
<1>7. PhasesWithin(Told(m), Told(n))
  BY <1>1, <1>2, <1>6 DEF Good
<1> QED BY <1>1, <1>2, <1>7

LEMMA ProfileGrows ==
    ASSUME NEW m \in Seq(Catalog), NEW n \in Seq(Catalog), Begins(m, n)
    PROVE  \A p \in DOMAIN Profile(m) : \E q \in DOMAIN Profile(n) :
              /\ q >= p /\ Profile(n)[q].tactic = Profile(m)[p].tactic
              /\ Profile(m)[p].rules \subseteq Profile(n)[q].rules
              /\ Profile(m)[p].techniques \subseteq Profile(n)[q].techniques
              /\ Profile(m)[p].phrase.details \subseteq Profile(n)[q].phrase.details
<1> DEFINE Phase(list, t) ==
               [tactic |-> t,
                phrase |-> Phrase(t, list, Serving(list, t)),
                techniques |-> {x \in UNION {list[i].attack : i \in Serving(list, t)} :
                                   t \in Listed(ProfileTable, x)},
                rules |-> {list[i].rule : i \in Serving(list, t)}]
<1>1. \A list : Profile(list) = [p \in DOMAIN Told(list) |-> Phase(list, Told(list)[p])]
  BY DEF Profile, Told
<1>2. ASSUME NEW t
      PROVE  /\ Phase(m, t).tactic = t /\ Phase(n, t).tactic = t
             /\ Phase(m, t).rules \subseteq Phase(n, t).rules
             /\ Phase(m, t).techniques \subseteq Phase(n, t).techniques
             /\ Phase(m, t).phrase.details \subseteq Phase(n, t).phrase.details
  <2> DEFINE had == Serving(m, t)
             has == Serving(n, t)
             Attacks(list, serving) == UNION {list[i].attack : i \in serving}
             Rules(list, serving) == {list[i].rule : i \in serving}
  <2>1. had \subseteq has /\ had \subseteq DOMAIN m /\ \A i \in DOMAIN m : n[i] = m[i]
    BY MoreIsTold DEF Begins
  <2> HIDE DEF had, has
  <2>2. Attacks(m, had) \subseteq Attacks(n, has) /\ Rules(m, had) \subseteq Rules(n, has)
    BY <2>1
  <2>3. \A list : /\ Phase(list, t).tactic = t
                  /\ Phase(list, t).rules = Rules(list, Serving(list, t))
                  /\ Phase(list, t).techniques =
                        {x \in Attacks(list, Serving(list, t)) : t \in Listed(ProfileTable, x)}
                  /\ Phase(list, t).phrase.details =
                        IF t = "defense_evasion"
                        THEN (Rules(list, Serving(list, t)) \cup Attacks(list, Serving(list, t)))
                                 \cap EVASIONS
                        ELSE {}
    BY DEF Phrase
  <2> HIDE DEF Attacks, Rules, Phase
  <2> QED BY <2>2, <2>3 DEF had, has
<1> HIDE DEF Phase
<1>3. PhasesWithin(Told(m), Told(n))
  BY PhasesStand
<1> SUFFICES ASSUME NEW p \in DOMAIN Profile(m)
             PROVE  \E q \in DOMAIN Profile(n) :
                       /\ q >= p /\ Profile(n)[q].tactic = Profile(m)[p].tactic
                       /\ Profile(m)[p].rules \subseteq Profile(n)[q].rules
                       /\ Profile(m)[p].techniques \subseteq Profile(n)[q].techniques
                       /\ Profile(m)[p].phrase.details \subseteq Profile(n)[q].phrase.details
  OBVIOUS
<1>4. p \in DOMAIN Told(m) /\ Profile(m)[p] = Phase(m, Told(m)[p])
  BY <1>1
<1>5. PICK q \in DOMAIN Told(n) : q >= p /\ Told(n)[q] = Told(m)[p]
  BY <1>3, <1>4 DEF PhasesWithin
<1>6. q \in DOMAIN Profile(n) /\ Profile(n)[q] = Phase(n, Told(m)[p])
  BY <1>1, <1>5
<1> QED BY <1>2, <1>4, <1>5, <1>6

(* A privilege escalation spans what it spanned. *)
LEMMA EscalationWidens ==
    ASSUME NEW m \in Seq(Catalog), NEW n \in Seq(Catalog), Begins(m, n), Escalation(m) # <<>>
    PROVE  Escalation(n)[1] <= Escalation(m)[1] /\ Escalation(n)[2] >= Escalation(m)[2]
<1> DEFINE Seen(list) == {r \in DOMAIN INTEGRITY_ORDER :
                             \E i \in DOMAIN list : list[i].integrity = INTEGRITY_ORDER[r]}
<1>1. \A list : Escalation(list) =
                   IF Cardinality(Seen(list)) < 2 THEN <<>> ELSE <<Min(Seen(list)), Max(Seen(list))>>
  BY DEF Escalation
<1>2. Seen(m) \subseteq Seen(n)
  <2>1. \A i \in DOMAIN m : i \in DOMAIN n /\ n[i] = m[i]
    BY MoreIsTold DEF Begins
  <2> QED BY <2>1
<1>3. Seen(m) \subseteq 1..5 /\ Seen(n) \subseteq 1..5
  BY DEF INTEGRITY_ORDER
<1> DEFINE a == Seen(m)
           b == Seen(n)
<1>4. ~(Cardinality(a) < 2)
  BY <1>1
<1> HIDE DEF Seen
<1>5. /\ Escalation(m) = IF Cardinality(a) < 2 THEN <<>> ELSE <<Min(a), Max(a)>>
      /\ Escalation(n) = IF Cardinality(b) < 2 THEN <<>> ELSE <<Min(b), Max(b)>>
  BY <1>1
<1> HIDE DEF a, b
<1>6. a \subseteq b /\ a \subseteq 1..5 /\ b \subseteq 1..5
  BY <1>2, <1>3 DEF a, b
<1>7. IsFiniteSet(a) /\ IsFiniteSet(b) /\ Cardinality(a) <= Cardinality(b)
  <2>1. IsFiniteSet(1..5)
    <3>1. 1 \in Int /\ 5 \in Int
      OBVIOUS
    <3> QED BY <3>1, FS_Interval
  <2>2. IsFiniteSet(a) /\ IsFiniteSet(b)
    BY <1>6, <2>1, FS_Subset
  <2> QED BY <1>6, <2>2, FS_Subset
<1>8. Cardinality(a) \in Nat /\ Cardinality(b) \in Nat
  BY <1>7, FS_CardinalityType
<1>9. ~(Cardinality(b) < 2)
  BY <1>4, <1>7, <1>8
<1>10. a # {}
  <2>1. a = {} => Cardinality(a) = 0
    BY FS_EmptySet
  <2> QED BY <1>4, <1>8, <2>1
<1>11. Min(b) <= Min(a)
  <2>1. b \in SUBSET Nat
    BY <1>6
  <2> QED BY <1>6, <1>10, <2>1, MinOfMore
<1>12. Max(b) >= Max(a)
  <2>1. a \in SUBSET (0..5) /\ b \in SUBSET (0..5) /\ b # {} /\ 5 \in Nat
    <3>1. \A x \in 1..5 : x \in 0..5
      OBVIOUS
    <3>2. b # {} /\ \A x \in a : x \in 0..5
      BY <1>6, <1>10, <3>1
    <3>3. \A x \in b : x \in 0..5
      BY <1>6, <3>1
    <3> QED BY <3>2, <3>3
  <2>2. Max(a) \in a /\ \A x \in b : Max(b) >= x
    BY <1>10, <2>1, MaxIsIn
  <2> QED BY <1>6, <2>2
<1> QED BY <1>4, <1>5, <1>9, <1>11, <1>12

\* As detections land, titles, chains, phases, rules, techniques, evasions and
\* escalations told are kept or sharpened.
THEOREM StoriesOnlySharpen == CasebookSpec => StoryOnlySharpens
<1>1. CasebookTypeOK /\ [CasebookNext]_casebookVars =>
         [\A c \in Raised : members'[c] # members[c] =>
             LET before == Profile(members[c])
                 after  == Profile(members'[c])
             IN  /\ AtLeastAsSharp(IncidentTitle(members'[c]), IncidentTitle(members[c]))
                 /\ \A p \in DOMAIN before : \E q \in DOMAIN after :
                       /\ q >= p /\ after[q].tactic = before[p].tactic
                       /\ before[p].rules \subseteq after[q].rules
                       /\ before[p].techniques \subseteq after[q].techniques
                       /\ before[p].phrase.details \subseteq after[q].phrase.details
                 /\ Escalation(members[c]) # <<>> =>
                       /\ Escalation(members'[c])[1] <= Escalation(members[c])[1]
                       /\ Escalation(members'[c])[2] >= Escalation(members[c])[2]]_casebookVars
  <2> SUFFICES ASSUME CasebookTypeOK, CasebookNext, NEW c \in Raised, members'[c] # members[c]
               PROVE  LET before == Profile(members[c])
                          after  == Profile(members'[c])
                      IN  /\ AtLeastAsSharp(IncidentTitle(members'[c]), IncidentTitle(members[c]))
                          /\ \A p \in DOMAIN before : \E q \in DOMAIN after :
                                /\ q >= p /\ after[q].tactic = before[p].tactic
                                /\ before[p].rules \subseteq after[q].rules
                                /\ before[p].techniques \subseteq after[q].techniques
                                /\ before[p].phrase.details \subseteq after[q].phrase.details
                          /\ Escalation(members[c]) # <<>> =>
                                /\ Escalation(members'[c])[1] <= Escalation(members[c])[1]
                                /\ Escalation(members'[c])[2] >= Escalation(members[c])[2]
    OBVIOUS
  <2>1. c \in Case /\ members[c] \in Seq(Catalog)
    BY DEF CasebookTypeOK, Raised
  <2>2. \E d \in Catalog : members'[c] = Append(members[c], d)
    <3>0. \A e \in Case : RaisedIn[e] \subseteq Catalog
      BY CasebookAssumption
    <3>1. PICK e \in Case, d \in Catalog : LandDetection(e, d)
      BY <3>0 DEF CasebookNext, StoreDetection, Resolve
    <3>2. members' = [members EXCEPT ![e] = Append(@, d)] /\ members \in [Case -> Seq(Catalog)]
      BY <3>1 DEF LandDetection, CasebookTypeOK
    <3>3. e = c
      BY <2>1, <3>2
    <3> QED BY <2>1, <3>2, <3>3
  <2> DEFINE m == members[c]
             n == members'[c]
  <2>3. m \in Seq(Catalog) /\ n \in Seq(Catalog) /\ Begins(m, n)
    BY <2>1, <2>2, AppendBegins
  <2> HIDE DEF m, n
  <2>4. AtLeastAsSharp(IncidentTitle(n), IncidentTitle(m))
    BY <2>3, TitleSharpens
  <2>5. \A p \in DOMAIN Profile(m) : \E q \in DOMAIN Profile(n) :
           /\ q >= p /\ Profile(n)[q].tactic = Profile(m)[p].tactic
           /\ Profile(m)[p].rules \subseteq Profile(n)[q].rules
           /\ Profile(m)[p].techniques \subseteq Profile(n)[q].techniques
           /\ Profile(m)[p].phrase.details \subseteq Profile(n)[q].phrase.details
    BY <2>3, ProfileGrows
  <2>6. Escalation(m) # <<>> =>
           Escalation(n)[1] <= Escalation(m)[1] /\ Escalation(n)[2] >= Escalation(m)[2]
    BY <2>3, EscalationWidens
  <2> QED BY <2>4, <2>5, <2>6, Zenon DEF m, n
<1> QED BY <1>1, CasebookTypeCorrect, PTL DEF CasebookSpec, StoryOnlySharpens
=============================================================================
