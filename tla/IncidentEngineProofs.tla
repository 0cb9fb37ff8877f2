-------------------------- MODULE IncidentEngineProofs --------------------------
(***************************************************************************)
(* Machine-checked proofs about the correlator: the process tree, for any  *)
(* finite set of GUIDs, TTL, depth cap and clock bound, and the incident   *)
(* engine on top of it, for any window, lags and severities.               *)
(***************************************************************************)
EXTENDS IncidentEngine, DataInduction, SequenceTheorems, FiniteSetTheorems

-----------------------------------------------------------------------------
(* The walk up the tree.                                                   *)

\* One step of Climb's walk, and the guid it looks at.
Above(tbl, g, chain) == IF chain = <<>> THEN g ELSE tbl[Last(chain)].parent
StepUp(tbl, g, chain) ==
    IF Above(tbl, g, chain) \in DOMAIN tbl /\ ~Contains(chain, Above(tbl, g, chain))
    THEN Append(chain, Above(tbl, g, chain))
    ELSE chain

IsWalk(walk, tbl, g) ==
    /\ walk \in [0..MaxDepth -> Seq(DOMAIN tbl)]
    /\ walk[0] = <<>>
    /\ \A n \in 1..MaxDepth : walk[n] = StepUp(tbl, g, walk[n - 1])

LEMMA StepUpTyped ==
    ASSUME NEW tbl, NEW g, NEW chain \in Seq(DOMAIN tbl)
    PROVE  StepUp(tbl, g, chain) \in Seq(DOMAIN tbl)
<1>1. CASE Above(tbl, g, chain) \in DOMAIN tbl
  <2>1. Append(chain, Above(tbl, g, chain)) \in Seq(DOMAIN tbl)
    BY <1>1
  <2> QED BY <2>1 DEF StepUp
<1>2. CASE Above(tbl, g, chain) \notin DOMAIN tbl
  BY <1>2 DEF StepUp
<1> QED BY <1>1, <1>2

(* Climb is the end of a walk that takes one step up at a time. *)
LEMMA ClimbWalk ==
    ASSUME NEW tbl, NEW g
    PROVE  \E walk : IsWalk(walk, tbl, g) /\ Climb(tbl, g) = walk[MaxDepth]
<1> DEFINE T == Seq(DOMAIN tbl)
           step == [n \in 1..MaxDepth |-> [chain \in T |-> StepUp(tbl, g, chain)]]
           Def(f) == f = [n \in 0..MaxDepth |->
                             IF n = 0 THEN <<>> ELSE StepUp(tbl, g, f[n - 1])]
           W == CHOOSE f : Def(f)
           none == <<>>
<1>1. step \in [1..MaxDepth -> [T -> T]]
  BY StepUpTyped
<1>2. \A n \in 1..MaxDepth : \A chain \in T : step[n][chain] = StepUp(tbl, g, chain)
  OBVIOUS
<1>3. none \in T /\ MaxDepth \in Nat
  BY TimeAssumption
<1> HIDE DEF T, step, none
<1>4. PICK f \in [0..MaxDepth -> T] :
          f[0] = none /\ \A n \in 1..MaxDepth : f[n] = step[n][f[n - 1]]
  <2>1. Runs(MaxDepth, T, none, step) # {}
    BY <1>1, <1>3, StepwiseFunction
  <2> QED BY <2>1 DEF Runs
<1> USE DEF none
<1>5. \A n \in 1..MaxDepth : f[n] = StepUp(tbl, g, f[n - 1])
  <2>1. \A n \in 1..MaxDepth : f[n - 1] \in T
    BY <1>3, <1>4
  <2> QED BY <1>2, <1>4, <2>1
<1>6. Def(f)
  <2>1. f = [n \in 0..MaxDepth |-> f[n]]
    BY <1>4
  <2>2. \A n \in 0..MaxDepth : f[n] = IF n = 0 THEN <<>> ELSE StepUp(tbl, g, f[n - 1])
    BY <1>3, <1>4, <1>5
  <2> QED BY <2>1, <2>2
<1>7. Def(W)
  BY <1>6, Zenon
<1>8. Climb(tbl, g) = W[MaxDepth]
  BY Zenon DEF Climb, StepUp, Above
<1> HIDE DEF W
<1>9. W[0] = <<>> /\ \A n \in 1..MaxDepth : W[n] = StepUp(tbl, g, W[n - 1])
  BY <1>3, <1>7
<1> DEFINE Good == {n \in Nat : n <= MaxDepth => W[n] \in T}
<1>10. 0 \in Good
  BY <1>3, <1>9
<1>11. ASSUME NEW n \in Nat, n \in Good PROVE n + 1 \in Good
  <2>1. CASE n + 1 <= MaxDepth
    <3>1. n + 1 \in 1..MaxDepth /\ (n + 1) - 1 = n /\ W[n] \in T
      BY <1>3, <1>11, <2>1
    <3>2. W[n + 1] = StepUp(tbl, g, W[n])
      BY <1>9, <3>1
    <3> QED BY <3>1, <3>2, StepUpTyped DEF T
  <2> QED BY <2>1
<1>12. \A n \in 0..MaxDepth : W[n] \in T
  <2> HIDE DEF Good
  <2>1. Nat \subseteq Good
    BY <1>10, <1>11, SetInduction
  <2> QED BY <1>3, <2>1 DEF Good
<1>13. W \in [0..MaxDepth -> T]
  BY <1>7, <1>12
<1> QED BY <1>8, <1>9, <1>13 DEF IsWalk, T

\* A chain of known processes that starts at g, goes from each process to its
\* parent and meets none twice.
IsChain(chain, tbl, g) ==
    /\ chain \in Seq(DOMAIN tbl)
    /\ chain # <<>> => chain[1] = g
    /\ \A i \in 1..(Len(chain) - 1) : chain[i + 1] = tbl[chain[i]].parent
    /\ \A i, j \in 1..Len(chain) : i # j => chain[i] # chain[j]

\* Nothing can be added to a chain.
IsTop(chain, tbl, g) ==
    Above(tbl, g, chain) \notin DOMAIN tbl \/ Contains(chain, Above(tbl, g, chain))

LEMMA StepUpChain ==
    ASSUME NEW tbl, NEW g, NEW chain, IsChain(chain, tbl, g)
    PROVE  /\ IsChain(StepUp(tbl, g, chain), tbl, g)
           /\ IF IsTop(chain, tbl, g)
              THEN StepUp(tbl, g, chain) = chain
              ELSE Len(StepUp(tbl, g, chain)) = Len(chain) + 1
<1> DEFINE up == Above(tbl, g, chain)
<1>1. CASE IsTop(chain, tbl, g)
  BY <1>1 DEF StepUp, IsTop
<1>2. CASE ~IsTop(chain, tbl, g)
  <2> DEFINE longer == Append(chain, up)
  <2>1. /\ up \in DOMAIN tbl
        /\ \A i \in 1..Len(chain) : chain[i] # up
        /\ StepUp(tbl, g, chain) = longer
    BY <1>2 DEF IsTop, StepUp, Contains
  <2>2. chain \in Seq(DOMAIN tbl) /\ Len(chain) \in Nat
    BY DEF IsChain
  <2>3. up = IF chain = <<>> THEN g ELSE tbl[chain[Len(chain)]].parent
    BY DEF Above, Last
  <2> HIDE DEF up
  <2>4. /\ longer \in Seq(DOMAIN tbl)
        /\ Len(longer) = Len(chain) + 1
        /\ longer[Len(chain) + 1] = up
        /\ \A i \in 1..Len(chain) : longer[i] = chain[i]
    BY <2>1, <2>2
  <2> HIDE DEF longer
  <2>5. longer # <<>> => longer[1] = g
    <3>1. CASE Len(chain) = 0
      BY <2>2, <2>3, <2>4, <3>1
    <3>2. CASE Len(chain) # 0
      <4>1. chain # <<>> /\ 1 \in 1..Len(chain)
        BY <2>2, <3>2
      <4> QED BY <2>4, <4>1 DEF IsChain
    <3> QED BY <3>1, <3>2
  <2>6. ASSUME NEW i \in 1..(Len(longer) - 1)
        PROVE  longer[i + 1] = tbl[longer[i]].parent
    <3>1. i \in 1..Len(chain) /\ longer[i] = chain[i]
      BY <2>2, <2>4
    <3>2. CASE i = Len(chain)
      <4>1. chain # <<>>
        BY <3>1, <3>2
      <4> QED BY <2>3, <2>4, <3>1, <3>2, <4>1
    <3>3. CASE i # Len(chain)
      <4>1. i \in 1..(Len(chain) - 1) /\ i + 1 \in 1..Len(chain)
        BY <2>2, <3>1, <3>3
      <4> QED BY <2>4, <3>1, <4>1 DEF IsChain
    <3> QED BY <3>2, <3>3
  <2>7. ASSUME NEW i \in 1..Len(longer), NEW j \in 1..Len(longer), i # j
        PROVE  longer[i] # longer[j]
    <3>1. CASE i \in 1..Len(chain) /\ j \in 1..Len(chain)
      BY <2>4, <2>7, <3>1 DEF IsChain
    <3>2. CASE i = Len(chain) + 1
      <4>1. j \in 1..Len(chain)
        BY <2>2, <2>4, <2>7, <3>2
      <4> QED BY <2>1, <2>4, <3>2, <4>1
    <3>3. CASE j = Len(chain) + 1
      <4>1. i \in 1..Len(chain)
        BY <2>2, <2>4, <2>7, <3>3
      <4> QED BY <2>1, <2>4, <3>3, <4>1
    <3> QED BY <2>2, <2>4, <3>1, <3>2, <3>3
  <2>8. IsChain(longer, tbl, g)
    BY <2>4, <2>5, <2>6, <2>7 DEF IsChain
  <2> QED BY <1>2, <2>1, <2>4, <2>8
<1> QED BY <1>1, <1>2

(* What Climb returns: a chain of at most MaxDepth processes, at its top unless
   the depth cap cut it. *)
LEMMA ClimbFacts ==
    ASSUME NEW tbl, NEW g
    PROVE  /\ IsChain(Climb(tbl, g), tbl, g)
           /\ Len(Climb(tbl, g)) \in 0..MaxDepth
           /\ Len(Climb(tbl, g)) < MaxDepth => IsTop(Climb(tbl, g), tbl, g)
<1>1. PICK walk : IsWalk(walk, tbl, g) /\ Climb(tbl, g) = walk[MaxDepth]
  BY ClimbWalk
<1> DEFINE Sound(n) == /\ IsChain(walk[n], tbl, g)
                       /\ Len(walk[n]) \in 0..n
                       /\ Len(walk[n]) < n => IsTop(walk[n], tbl, g)
           Good == {n \in Nat : n <= MaxDepth => Sound(n)}
<1>2. 0 \in Good
  <2>1. walk[0] = <<>> /\ Len(walk[0]) = 0 /\ <<>> \in Seq(DOMAIN tbl)
    BY <1>1 DEF IsWalk
  <2>2. IsChain(walk[0], tbl, g)
    BY <2>1 DEF IsChain
  <2> QED BY <2>1, <2>2
<1>3. ASSUME NEW n \in Nat, n \in Good PROVE n + 1 \in Good
  <2> SUFFICES ASSUME n + 1 <= MaxDepth PROVE Sound(n + 1)
    OBVIOUS
  <2>1. Sound(n)
    BY <1>3, TimeAssumption
  <2>2. walk[n + 1] = StepUp(tbl, g, walk[n])
    <3>1. n + 1 \in 1..MaxDepth /\ (n + 1) - 1 = n
      BY TimeAssumption
    <3> QED BY <1>1, <3>1 DEF IsWalk
  <2>3. CASE IsTop(walk[n], tbl, g)
    BY <2>1, <2>2, <2>3, StepUpChain
  <2>4. CASE ~IsTop(walk[n], tbl, g)
    <3>1. Len(walk[n]) = n
      BY <2>1, <2>4
    <3>2. Len(walk[n + 1]) = n + 1 /\ IsChain(walk[n + 1], tbl, g)
      BY <2>1, <2>2, <2>4, <3>1, StepUpChain
    <3> QED BY <3>2
  <2> QED BY <2>3, <2>4
<1>4. MaxDepth \in Good
  <2> HIDE DEF Good
  <2> QED BY <1>2, <1>3, SetInduction, TimeAssumption
<1> QED BY <1>1, <1>4, TimeAssumption

(* A known process heads its own chain; an unknown one has none. *)
LEMMA ClimbStart ==
    ASSUME NEW tbl, NEW g
    PROVE  /\ g \in DOMAIN tbl => Len(Climb(tbl, g)) > 0 /\ Climb(tbl, g)[1] = g
           /\ g \notin DOMAIN tbl => Climb(tbl, g) = <<>>
<1> DEFINE chain == Climb(tbl, g)
<1>1. /\ IsChain(chain, tbl, g)
      /\ Len(chain) \in 0..MaxDepth
      /\ Len(chain) < MaxDepth => IsTop(chain, tbl, g)
  BY ClimbFacts
<1> HIDE DEF chain
<1>2. CASE Len(chain) = 0
  <2>1. chain = <<>>
    BY <1>1, <1>2 DEF IsChain
  <2>2. IsTop(chain, tbl, g)
    BY <1>1, <1>2, TimeAssumption
  <2>3. Above(tbl, g, chain) = g /\ ~Contains(chain, g)
    BY <1>2, <2>1 DEF Above, Contains
  <2> QED BY <2>1, <2>2, <2>3 DEF IsTop, chain
<1>3. CASE Len(chain) # 0
  <2>1. Len(chain) > 0 /\ chain # <<>> /\ chain[1] = g /\ chain[1] \in DOMAIN tbl
    BY <1>1, <1>3 DEF IsChain
  <2> QED BY <2>1 DEF chain
<1> QED BY <1>2, <1>3

(* The root is the last of the chain. *)
LEMMA RootFacts ==
    ASSUME NEW tbl, NEW g
    PROVE  /\ g \notin DOMAIN tbl => Root(tbl, g) = g
           /\ g \in DOMAIN tbl => /\ Root(tbl, g) = Last(Climb(tbl, g))
                                  /\ Root(tbl, g) \in DOMAIN tbl
           /\ Len(Ancestry(tbl, g)) = Len(Climb(tbl, g))
           /\ Ancestry(tbl, g) = <<>> <=> g \notin DOMAIN tbl
<1> DEFINE chain == Climb(tbl, g)
<1>1. chain \in Seq(DOMAIN tbl) /\ Len(chain) \in Nat
  BY ClimbFacts DEF IsChain
<1>2. /\ g \in DOMAIN tbl => Len(chain) > 0
      /\ g \notin DOMAIN tbl => chain = <<>>
  BY ClimbStart
<1>3. Ancestry(tbl, g) = [i \in 1..Len(chain) |-> chain[(Len(chain) - i) + 1]]
  BY DEF Ancestry, Reverse
<1>4. Root(tbl, g) = IF Ancestry(tbl, g) = <<>> THEN g ELSE Ancestry(tbl, g)[1]
  BY DEF Root
<1> HIDE DEF chain
<1>5. Ancestry(tbl, g) \in Seq(DOMAIN tbl) /\ Len(Ancestry(tbl, g)) = Len(chain)
  <2>1. \A i \in 1..Len(chain) : chain[(Len(chain) - i) + 1] \in DOMAIN tbl
    BY <1>1
  <2> QED BY <1>1, <1>3, <2>1
<1>6. CASE g \notin DOMAIN tbl
  <2>1. Len(chain) = 0
    BY <1>2, <1>6
  <2>2. Ancestry(tbl, g) = <<>>
    BY <1>5, <2>1
  <2> QED BY <1>4, <1>5, <1>6, <2>2 DEF chain
<1>7. CASE g \in DOMAIN tbl
  <2>1. Len(chain) > 0
    BY <1>2, <1>7
  <2>2. Ancestry(tbl, g) # <<>>
    BY <1>5, <2>1
  <2>3. Ancestry(tbl, g)[1] = chain[Len(chain)] /\ chain[Len(chain)] \in DOMAIN tbl
    BY <1>1, <1>3, <2>1
  <2> QED BY <1>4, <1>5, <1>7, <2>2, <2>3 DEF chain, Last
<1> QED BY <1>6, <1>7

(* When a table only gains processes and parents, every chain keeps its old
   part: the old root lies on the new chain. *)
LEMMA ClimbExtends ==
    ASSUME NEW old, NEW new, NEW g \in DOMAIN old,
           DOMAIN old \subseteq DOMAIN new,
           \A x \in DOMAIN old : old[x].parent \in DOMAIN old => new[x].parent = old[x].parent
    PROVE  Contains(Climb(new, g), Root(old, g))
<1> DEFINE was == Climb(old, g)
           is  == Climb(new, g)
<1>1. /\ IsChain(was, old, g) /\ Len(was) \in 0..MaxDepth /\ Len(was) > 0 /\ was[1] = g
      /\ IsChain(is, new, g) /\ Len(is) \in 0..MaxDepth /\ Len(is) > 0 /\ is[1] = g
      /\ Len(is) < MaxDepth => IsTop(is, new, g)
  BY ClimbFacts, ClimbStart
<1>2. Root(old, g) = was[Len(was)]
  BY RootFacts DEF Last
<1> HIDE DEF was, is
<1> DEFINE Agree(n) == \A j \in 1..n : j <= Len(was) => j <= Len(is) /\ is[j] = was[j]
           Good == {n \in Nat : Agree(n + 1)}
<1>3. 0 \in Good
  BY <1>1
<1>4. ASSUME NEW n \in Nat, n \in Good PROVE n + 1 \in Good
  <2> DEFINE k == n + 1
  <2>1. Agree(k) /\ k \in Nat /\ k >= 1
    BY <1>4
  <2> HIDE DEF k
  <2> SUFFICES ASSUME k + 1 <= Len(was) PROVE k + 1 <= Len(is) /\ is[k + 1] = was[k + 1]
    BY <2>1 DEF k
  <2>2. k \in 1..(Len(was) - 1) /\ k \in 1..Len(was) /\ k + 1 \in 1..Len(was) /\ Len(was) \in Nat
    BY <1>1, <2>1
  <2>3. k \in 1..Len(is) /\ is[k] = was[k] /\ Len(is) \in Nat
    BY <1>1, <2>1, <2>2
  <2>4. was \in Seq(DOMAIN old) /\ is \in Seq(DOMAIN new)
    BY <1>1 DEF IsChain
  <2>5. was[k] \in DOMAIN old /\ was[k + 1] \in DOMAIN old
    BY <2>2, <2>4
  <2>6. was[k + 1] = old[was[k]].parent
    BY <1>1, <2>2 DEF IsChain
  <2>7. new[is[k]].parent = was[k + 1] /\ was[k + 1] \in DOMAIN new
    BY <2>3, <2>5, <2>6
  <2>8. CASE k < Len(is)
    <3>1. k \in 1..(Len(is) - 1)
      BY <2>3, <2>8
    <3>2. is[k + 1] = new[is[k]].parent
      BY <1>1, <3>1 DEF IsChain
    <3> QED BY <2>3, <2>7, <2>8, <3>2
  <2>9. CASE k = Len(is)
    <3>1. IsTop(is, new, g) /\ is # <<>>
      BY <1>1, <2>2, <2>3, <2>9, TimeAssumption
    <3>2. Above(new, g, is) = was[k + 1]
      BY <2>7, <2>9, <3>1 DEF Above, Last
    <3>3. PICK j \in 1..Len(is) : is[j] = was[k + 1]
      BY <2>7, <3>1, <3>2 DEF IsTop, Contains
    <3>4. j \in 1..Len(was) /\ j # k + 1 /\ was[j] = was[k + 1]
      BY <2>1, <2>2, <2>3, <2>9, <3>3
    <3> QED BY <1>1, <2>2, <3>4 DEF IsChain
  <2> QED BY <2>3, <2>8, <2>9
<1>5. Len(was) - 1 \in Good
  <2> HIDE DEF Good
  <2> QED BY <1>1, <1>3, <1>4, SetInduction
<1>6. Len(was) \in 1..Len(is) /\ is[Len(was)] = was[Len(was)]
  BY <1>1, <1>5
<1> QED BY <1>2, <1>6 DEF Contains, is

\* One round of subtree()'s breadth-first walk.
Grow(idx, found) == found \cup {c \in Guid : \E p \in found : p \in Guid /\ idx[p][c] > 0}

IsReach(reach, idx, root) ==
    /\ reach[0] = {root}
    /\ \A n \in 1..Cardinality(Guid) : reach[n] = Grow(idx, reach[n - 1])

(* Subtree is the end of a walk that adds one generation at a time. *)
LEMMA SubtreeReach ==
    ASSUME NEW tbl, NEW idx, NEW root
    PROVE  \E reach : /\ IsReach(reach, idx, root)
                      /\ Subtree(tbl, idx, root) = reach[Cardinality(Guid)] \cap DOMAIN tbl
<1> DEFINE N == Cardinality(Guid)
           T == SUBSET (Guid \cup {root})
           step == [n \in 1..N |-> [found \in T |-> Grow(idx, found)]]
           Def(f) == f = [n \in 0..N |-> IF n = 0 THEN {root} ELSE Grow(idx, f[n - 1])]
           W == CHOOSE f : Def(f)
           start == {root}
<1>1. step \in [1..N -> [T -> T]]
  BY DEF Grow
<1>2. \A n \in 1..N : \A found \in T : step[n][found] = Grow(idx, found)
  OBVIOUS
<1>3. start \in T /\ N \in Nat
  BY GuidAssumption, FS_CardinalityType
<1> HIDE DEF T, step, start
<1>4. PICK f \in [0..N -> T] : f[0] = start /\ \A n \in 1..N : f[n] = step[n][f[n - 1]]
  <2> HIDE DEF N
  <2>1. Runs(N, T, start, step) # {}
    BY <1>1, <1>3, StepwiseFunction
  <2> QED BY <2>1 DEF Runs
<1> USE DEF start
<1>5. \A n \in 1..N : f[n] = Grow(idx, f[n - 1])
  <2>1. \A n \in 1..N : f[n - 1] \in T
    BY <1>3, <1>4
  <2> QED BY <1>2, <1>4, <2>1
<1>6. Def(f)
  <2>1. f = [n \in 0..N |-> f[n]]
    BY <1>4
  <2>2. \A n \in 0..N : f[n] = IF n = 0 THEN {root} ELSE Grow(idx, f[n - 1])
    BY <1>3, <1>4, <1>5
  <2> QED BY <2>1, <2>2
<1>7. Def(W)
  BY <1>6, Zenon
<1>8. Subtree(tbl, idx, root) = W[N] \cap DOMAIN tbl
  BY Zenon DEF Subtree, Grow
<1> HIDE DEF W
<1>9. W[0] = {root} /\ \A n \in 1..N : W[n] = Grow(idx, W[n - 1])
  <2>1. W = [n \in 0..N |-> IF n = 0 THEN {root} ELSE Grow(idx, W[n - 1])]
    BY <1>7
  <2> HIDE DEF N, start
  <2>2. 0 \in 0..N /\ \A n \in 1..N : n \in 0..N /\ n # 0
    BY <1>3
  <2> QED BY <2>1, <2>2
<1> QED BY <1>8, <1>9 DEF IsReach

(* Everything found stays found. *)
LEMMA ReachGrows ==
    ASSUME NEW reach, NEW idx, NEW root, IsReach(reach, idx, root),
           NEW m \in 0..Cardinality(Guid), NEW x \in reach[m]
    PROVE  x \in reach[Cardinality(Guid)]
<1> DEFINE N == Cardinality(Guid)
           Good == {n \in Nat : m + n <= N => x \in reach[m + n]}
<1>1. N \in Nat
  BY GuidAssumption, FS_CardinalityType
<1> HIDE DEF N
<1>2. 0 \in Good
  OBVIOUS
<1>3. ASSUME NEW n \in Nat, n \in Good PROVE n + 1 \in Good
  <2> SUFFICES ASSUME m + n + 1 <= N PROVE x \in reach[m + (n + 1)]
    BY DEF N
  <2>1. m + (n + 1) \in 1..N /\ (m + (n + 1)) - 1 = m + n
    BY <1>1 DEF N
  <2>2. reach[m + (n + 1)] = Grow(idx, reach[m + n])
    BY <2>1 DEF IsReach, N
  <2> QED BY <1>1, <1>3, <2>1, <2>2 DEF Grow, N
<1>4. N - m \in Good
  <2>1. N - m \in Nat
    BY <1>1 DEF N
  <2> HIDE DEF Good
  <2> QED BY <1>2, <1>3, <2>1, SetInduction
<1> QED BY <1>1, <1>4 DEF N

-----------------------------------------------------------------------------
(* The state of the tree.  The three state invariants are proved together: *)
(* the index is sound only while every entry is known to be listed once,   *)
(* and an unindexed child can only be one whose parent was pruned.         *)

TreeInv == TreeTypeOK /\ ChildIndexSound /\ IndexedUnlessDetached

LEMMA StampFacts ==
    /\ Stamp \subseteq Int
    /\ 0 \in Stamp
    /\ \A s, t \in Stamp : LaterOf(s, t) \in Stamp
BY TimeAssumption DEF Stamp, LaterOf

(* The empty tree satisfies the invariant. *)
LEMMA TreeInitInv == TreeInit => TreeInv
BY StampFacts DEF TreeInit, TreeInv, TreeTypeOK, ChildIndexSound,
                  IndexedUnlessDetached, Known

(* The first event of a process: its guid was in no bucket, because buckets
   hold live processes only, so it is listed exactly once. *)
LEMMA ObserveNewInv ==
    ASSUME TreeInv, NEW g \in Guid, NEW parent \in Guid \cup {NoGuid},
           NEW ts \in Stamp, ObserveNew(g, parent, ts), UNCHANGED now
    PROVE  TreeInv'
<1> USE DEF TreeInv, Known
<1>1. /\ g \notin DOMAIN nodes
      /\ DOMAIN nodes' = DOMAIN nodes \cup {g}
      /\ \A h \in DOMAIN nodes : nodes'[h] = nodes[h]
      /\ nodes'[g] = [parent |-> parent, lastSeen |-> ts]
      /\ detached' = detached
  BY DEF ObserveNew
<1>2. nodes' \in [DOMAIN nodes' -> ProcessNode]
  BY DEF ObserveNew, TreeTypeOK, ProcessNode
<1>3. \A p \in Guid : children[p][g] = 0
  BY <1>1 DEF TreeTypeOK, ChildIndexSound
<1>4. CASE parent = NoGuid
  <2>1. children' = children
    BY <1>4 DEF ObserveNew
  <2>2. TreeTypeOK'
    BY <1>1, <1>2, <2>1 DEF TreeTypeOK
  <2>3. ChildIndexSound'
    BY <1>1, <2>1 DEF ChildIndexSound
  <2>4. IndexedUnlessDetached'
    BY <1>1, <1>4, <2>1 DEF IndexedUnlessDetached
  <2> QED BY <2>2, <2>3, <2>4
<1>5. CASE parent \in Guid
  <2>1. children' = Listed(children, parent, g)
    BY <1>5, GuidAssumption DEF ObserveNew
  <2>2. /\ children' \in [Guid -> [Guid -> Nat]]
        /\ \A q, d \in Guid : children'[q][d] =
              IF q = parent /\ d = g THEN children[parent][g] + 1 ELSE children[q][d]
    <3>1. children \in [Guid -> [Guid -> Nat]]
      BY DEF TreeTypeOK
    <3> QED BY <1>5, <2>1, <3>1 DEF Listed
  <2>3. TreeTypeOK'
    BY <1>1, <1>2, <2>2 DEF TreeTypeOK
  <2>4. ChildIndexSound'
    BY <1>1, <1>3, <2>2 DEF ChildIndexSound
  <2>5. IndexedUnlessDetached'
    <3> SUFFICES ASSUME NEW c \in DOMAIN nodes', nodes'[c].parent # NoGuid,
                        c \notin detached'
                 PROVE  children'[nodes'[c].parent][c] = 1
      BY DEF IndexedUnlessDetached
    <3>1. CASE c = g
      BY <1>1, <1>3, <1>5, <2>2, <3>1
    <3>2. CASE c # g
      <4>1. c \in DOMAIN nodes /\ nodes'[c] = nodes[c]
        BY <1>1, <3>2
      <4>2. nodes[c].parent \in Guid /\ c \in Guid
        BY <4>1 DEF TreeTypeOK, ProcessNode
      <4> QED BY <1>1, <2>2, <3>2, <4>1, <4>2 DEF IndexedUnlessDetached
    <3> QED BY <3>1, <3>2
  <2> QED BY <2>3, <2>4, <2>5
<1> QED BY <1>4, <1>5

(* A later event: the backfilled process had no parent, so it was in no
   bucket either. *)
LEMMA ObserveKnownInv ==
    ASSUME TreeInv, NEW g \in Guid, NEW parent \in Guid \cup {NoGuid},
           NEW ts \in Stamp, ObserveKnown(g, parent, ts), UNCHANGED now
    PROVE  TreeInv'
<1> USE DEF TreeInv, Known
<1> DEFINE backfills == nodes[g].parent = NoGuid /\ parent # NoGuid
<1>1. /\ g \in DOMAIN nodes
      /\ DOMAIN nodes' = DOMAIN nodes
      /\ detached' = detached
      /\ \A h \in DOMAIN nodes : h # g => nodes'[h] = nodes[h]
  BY DEF ObserveKnown
<1>2. nodes[g] \in ProcessNode
  BY <1>1 DEF TreeTypeOK
<1>3. nodes'[g] = [parent |-> IF backfills THEN parent ELSE nodes[g].parent,
                   lastSeen |-> LaterOf(nodes[g].lastSeen, ts)]
  BY <1>1, <1>2 DEF ObserveKnown, TreeTypeOK, ProcessNode
<1>4. nodes' \in [DOMAIN nodes' -> ProcessNode]
  <2>1. nodes'[g] \in ProcessNode
    <3>1. nodes[g].lastSeen \in Stamp /\ nodes[g].parent \in Guid \cup {NoGuid}
      BY <1>2 DEF ProcessNode
    <3>2. LaterOf(nodes[g].lastSeen, ts) \in Stamp
      BY <3>1, StampFacts
    <3> QED BY <1>3, <3>1, <3>2 DEF ProcessNode
  <2> QED BY <1>1, <2>1 DEF ObserveKnown, TreeTypeOK
<1>5. CASE ~backfills
  <2>1. children' = children /\ nodes'[g].parent = nodes[g].parent
    BY <1>3, <1>5 DEF ObserveKnown
  <2>2. \A h \in DOMAIN nodes : nodes'[h].parent = nodes[h].parent
    BY <1>1, <2>1
  <2>3. TreeTypeOK'
    BY <1>1, <1>4, <2>1 DEF TreeTypeOK
  <2>4. ChildIndexSound'
    BY <1>1, <2>1, <2>2 DEF ChildIndexSound
  <2>5. IndexedUnlessDetached'
    BY <1>1, <2>1, <2>2 DEF IndexedUnlessDetached
  <2> QED BY <2>3, <2>4, <2>5
<1>6. CASE backfills
  <2>1. parent \in Guid /\ nodes'[g].parent = parent
    BY <1>3, <1>6
  <2>2. children' = Listed(children, parent, g)
    BY <1>6 DEF ObserveKnown
  <2>3. /\ children' \in [Guid -> [Guid -> Nat]]
        /\ \A q, d \in Guid : children'[q][d] =
              IF q = parent /\ d = g THEN children[parent][g] + 1 ELSE children[q][d]
    <3>1. children \in [Guid -> [Guid -> Nat]]
      BY DEF TreeTypeOK
    <3> QED BY <2>1, <2>2, <3>1 DEF Listed
  <2>4. \A p \in Guid : children[p][g] = 0
    BY <1>1, <1>6, GuidAssumption DEF TreeTypeOK, ChildIndexSound
  <2>5. TreeTypeOK'
    BY <1>1, <1>4, <2>3 DEF TreeTypeOK
  <2>6. ChildIndexSound'
    BY <1>1, <2>1, <2>3, <2>4 DEF ChildIndexSound
  <2>7. IndexedUnlessDetached'
    <3> SUFFICES ASSUME NEW c \in DOMAIN nodes', nodes'[c].parent # NoGuid,
                        c \notin detached'
                 PROVE  children'[nodes'[c].parent][c] = 1
      BY DEF IndexedUnlessDetached
    <3>1. CASE c = g
      BY <2>1, <2>3, <2>4, <3>1
    <3>2. CASE c # g
      <4>1. c \in DOMAIN nodes /\ nodes'[c] = nodes[c]
        BY <1>1, <3>2
      <4>2. nodes[c].parent \in Guid /\ c \in Guid
        BY <4>1 DEF TreeTypeOK, ProcessNode
      <4> QED BY <1>1, <2>3, <3>2, <4>1, <4>2 DEF IndexedUnlessDetached
    <3> QED BY <3>1, <3>2
  <2> QED BY <2>5, <2>6, <2>7
<1> QED BY <1>5, <1>6

(* Pruning: a stale guid's only entry is in its parent's bucket, which loses
   it; a live child of a stale parent becomes detached. *)
LEMMA PruneInv ==
    ASSUME TreeInv, Prune, UNCHANGED now
    PROVE  TreeInv'
<1> USE DEF TreeInv, Known
<1> DEFINE stale == Stale(nodes, now - TTL)
<1>1. /\ DOMAIN nodes' = DOMAIN nodes \ stale
      /\ \A g \in DOMAIN nodes' : nodes'[g] = nodes[g]
      /\ children' = Unlisted(children, nodes, stale)
      /\ detached' = (detached \cup {g \in DOMAIN nodes : nodes[g].parent \in stale}) \ stale
  BY DEF Prune
<1>2. stale \subseteq DOMAIN nodes
  BY DEF Stale
<1>3. \A p, c \in Guid : children'[p][c] =
          IF p \in stale THEN 0
          ELSE IF c \in stale /\ nodes[c].parent = p /\ children[p][c] > 0
               THEN children[p][c] - 1
               ELSE children[p][c]
  BY <1>1 DEF Unlisted
<1>4. children' \in [Guid -> [Guid -> Nat]]
  BY <1>1 DEF Unlisted, TreeTypeOK
<1>5. TreeTypeOK'
  <2>1. nodes' \in [DOMAIN nodes' -> ProcessNode]
    BY <1>1 DEF Prune, TreeTypeOK
  <2> QED BY <1>1, <1>4, <2>1 DEF TreeTypeOK
<1>6. ChildIndexSound'
  <2> SUFFICES ASSUME NEW p \in Guid, NEW c \in Guid, children'[p][c] > 0
               PROVE  c \in DOMAIN nodes' /\ nodes'[c].parent = p /\ children'[p][c] = 1
    BY DEF ChildIndexSound
  <2>1. children[p][c] > 0 /\ c \in DOMAIN nodes /\ nodes[c].parent = p /\ children[p][c] = 1
    BY <1>3 DEF TreeTypeOK, ChildIndexSound
  <2>2. c \notin stale
    BY <1>3, <2>1
  <2> QED BY <1>1, <1>3, <2>1, <2>2
<1>7. IndexedUnlessDetached'
  <2> SUFFICES ASSUME NEW c \in DOMAIN nodes', nodes'[c].parent # NoGuid,
                      c \notin detached'
               PROVE  children'[nodes'[c].parent][c] = 1
    BY DEF IndexedUnlessDetached
  <2>1. /\ c \in DOMAIN nodes /\ c \in Guid /\ c \notin stale
        /\ nodes'[c] = nodes[c] /\ nodes[c].parent \in Guid
    BY <1>1 DEF TreeTypeOK, ProcessNode
  <2>2. nodes[c].parent \notin stale /\ c \notin detached
    BY <1>1, <2>1
  <2> QED BY <1>3, <2>1, <2>2 DEF IndexedUnlessDetached
<1> QED BY <1>5, <1>6, <1>7

LEMMA TreeStepInv == TreeInv /\ [TreeNext]_treeVars => TreeInv'
<1> SUFFICES ASSUME TreeInv, [TreeNext]_treeVars PROVE TreeInv'
  OBVIOUS
<1>1. ASSUME NEW g \in Guid, NEW parent \in Guid \cup {NoGuid}, NEW ts \in Stamp,
             Observe(g, parent, ts), UNCHANGED now
      PROVE  TreeInv'
  BY <1>1, ObserveNewInv, ObserveKnownInv DEF Observe
<1>2. CASE Prune /\ UNCHANGED now
  BY <1>2, PruneInv
<1>3. CASE Tick
  <2>1. now' \in Stamp
    BY <1>3, TimeAssumption DEF Tick, TreeInv, TreeTypeOK, Stamp
  <2> QED BY <1>3, <2>1 DEF Tick, TreeInv, TreeTypeOK, ChildIndexSound,
                            IndexedUnlessDetached, Known
<1>4. CASE UNCHANGED treeVars
  BY <1>4 DEF treeVars, TreeInv, TreeTypeOK, ChildIndexSound,
              IndexedUnlessDetached, Known
<1> QED BY <1>1, <1>2, <1>3, <1>4 DEF TreeNext

-----------------------------------------------------------------------------
(* The walk up and the walk down meet.                                     *)

(* A chain meets no process twice, so it is no longer than there are processes. *)
LEMMA ChainFits ==
    ASSUME NEW tbl, NEW g, NEW chain, IsChain(chain, tbl, g), DOMAIN tbl \subseteq Guid
    PROVE  Len(chain) \in Nat /\ Len(chain) <= Cardinality(Guid) /\ Cardinality(Guid) \in Nat
<1> DEFINE S == 1..Len(chain)
<1>1. chain \in Seq(DOMAIN tbl) /\ Len(chain) \in Nat
  BY DEF IsChain
<1>2. IsFiniteSet(S) /\ Cardinality(S) = Len(chain)
  <2> DEFINE n == Len(chain)
  <2>1. n \in Nat
    BY <1>1
  <2> HIDE DEF n
  <2>2. IsFiniteSet(1..n) /\ Cardinality(1..n) = IF 1 > n THEN 0 ELSE n - 1 + 1
    BY <2>1, FS_Interval
  <2>3. IsFiniteSet(1..n) /\ Cardinality(1..n) = n
    BY <2>1, <2>2
  <2> QED BY <2>3 DEF n
<1>3. IsFiniteSet(Guid) /\ Cardinality(Guid) \in Nat
  BY GuidAssumption, FS_CardinalityType
<1>4. chain \in [S -> Guid]
  BY <1>1
<1>5. ~ \E x, y \in S : x # y /\ chain[x] = chain[y]
  BY DEF IsChain
<1> HIDE DEF S
<1>6. ~ (Cardinality(Guid) < Cardinality(S))
  BY <1>2, <1>3, <1>4, <1>5, FS_PigeonHole
<1> QED BY <1>1, <1>2, <1>3, <1>6

(* Down an attached chain every child is in its parent's bucket, so the
   subtree of an ancestor finds it. *)
LEMMA AncestorsShowIt ==
    ASSUME TreeInv, NEW g \in Known, NEW r \in Known,
           Attached(g), Contains(Climb(nodes, g), r)
    PROVE  g \in Subtree(nodes, children, r)
<1> DEFINE chain == Climb(nodes, g)
<1>1. IsChain(chain, nodes, g) /\ Len(chain) \in Nat /\ chain[1] = g
  BY ClimbFacts, ClimbStart DEF Known
<1>2. \A i \in 1..Len(chain) : chain[i] \notin detached
  BY <1>1 DEF Attached, Range, IsChain
<1>3. PICK k \in 1..Len(chain) : chain[k] = r
  BY DEF Contains
<1> HIDE DEF chain
<1>4. chain \in Seq(Known) /\ Known \subseteq Guid
  BY <1>1 DEF IsChain, TreeInv, TreeTypeOK, Known
<1>5. Len(chain) <= Cardinality(Guid) /\ Cardinality(Guid) \in Nat
  BY <1>1, <1>4, ChainFits DEF Known
<1>6. PICK reach : /\ IsReach(reach, children, r)
                   /\ Subtree(nodes, children, r) = reach[Cardinality(Guid)] \cap DOMAIN nodes
  BY SubtreeReach
<1> DEFINE N == Cardinality(Guid)
           Good == {j \in Nat : j < k => chain[k - j] \in reach[j]}
<1> HIDE DEF N
<1>7. 0 \in Good
  BY <1>3, <1>6 DEF IsReach
<1>8. ASSUME NEW j \in Nat, j \in Good PROVE j + 1 \in Good
  <2> DEFINE i == k - (j + 1)
  <2> SUFFICES ASSUME j + 1 < k PROVE chain[i] \in reach[j + 1]
    OBVIOUS
  <2>1. /\ i \in 1..(Len(chain) - 1) /\ i \in 1..Len(chain) /\ i + 1 \in 1..Len(chain)
        /\ k - j = i + 1 /\ j + 1 \in 1..N /\ (j + 1) - 1 = j
    BY <1>1, <1>3, <1>5 DEF N
  <2>2. chain[i + 1] \in reach[j]
    BY <1>1, <1>3, <1>8, <2>1
  <2> HIDE DEF i
  <2>3. /\ chain[i + 1] = nodes[chain[i]].parent
        /\ chain[i] \in Known /\ chain[i] \in Guid
        /\ chain[i + 1] \in Guid
        /\ chain[i] \notin detached
    BY <1>1, <1>2, <1>4, <2>1 DEF IsChain
  <2>4. children[chain[i + 1]][chain[i]] = 1
    BY <2>3, GuidAssumption DEF TreeInv, IndexedUnlessDetached
  <2>5. reach[j + 1] = Grow(children, reach[j])
    BY <1>6, <2>1 DEF IsReach, N
  <2> QED BY <2>2, <2>3, <2>4, <2>5 DEF Grow
<1>9. g \in reach[k - 1]
  <2>1. k - 1 \in Nat
    BY <1>1, <1>3
  <2> HIDE DEF Good
  <2>2. k - 1 \in Good
    BY <1>7, <1>8, <2>1, SetInduction
  <2>3. k - (k - 1) = 1 /\ k - 1 < k
    BY <1>1, <1>3
  <2> QED BY <1>1, <2>2, <2>3 DEF Good
<1>10. k - 1 \in 0..Cardinality(Guid)
  BY <1>1, <1>3, <1>5
<1>11. g \in reach[Cardinality(Guid)]
  BY <1>6, <1>9, <1>10, ReachGrows
<1> QED BY <1>6, <1>11 DEF Known

(* What the subtree of r finds has r on its chain: the chain holds the parent
   of each of its processes as long as the parent is known. *)
LEMMA OnlyAncestorsShowIt ==
    ASSUME TreeInv, NEW g \in Known, NEW r \in Known,
           Len(Climb(nodes, g)) < MaxDepth, g \in Subtree(nodes, children, r)
    PROVE  Contains(Climb(nodes, g), r)
<1> DEFINE chain == Climb(nodes, g)
           On(x) == \E i \in 1..Len(chain) : chain[i] = x
<1>1. /\ IsChain(chain, nodes, g) /\ Len(chain) \in Nat
      /\ Len(chain) > 0 /\ chain[1] = g /\ IsTop(chain, nodes, g)
  BY ClimbFacts, ClimbStart DEF Known
<1> HIDE DEF chain
<1>2. ASSUME NEW x, On(x), nodes[x].parent \in Known
      PROVE  On(nodes[x].parent)
  <2>1. PICK i \in 1..Len(chain) : chain[i] = x
    BY <1>2
  <2>2. CASE i < Len(chain)
    <3>1. i \in 1..(Len(chain) - 1) /\ i + 1 \in 1..Len(chain)
      BY <1>1, <2>2
    <3> QED BY <1>1, <2>1, <3>1 DEF IsChain
  <2>3. CASE i = Len(chain)
    <3>1. Above(nodes, g, chain) = nodes[x].parent
      BY <1>1, <2>1, <2>3 DEF Above, Last
    <3> QED BY <1>1, <1>2, <3>1 DEF IsTop, Contains, Known
  <2> QED BY <1>1, <2>2, <2>3
<1>3. PICK reach : /\ IsReach(reach, children, r)
                   /\ Subtree(nodes, children, r) = reach[Cardinality(Guid)] \cap DOMAIN nodes
  BY SubtreeReach
<1> DEFINE N == Cardinality(Guid)
           Sound(n) == \A x \in reach[n] : x \in Known /\ (On(x) => On(r))
           Good == {n \in Nat : n <= N => Sound(n)}
<1>4. N \in Nat
  BY GuidAssumption, FS_CardinalityType
<1> HIDE DEF N
<1>5. 0 \in Good
  BY <1>3 DEF IsReach
<1>6. ASSUME NEW n \in Nat, n \in Good PROVE n + 1 \in Good
  <2> SUFFICES ASSUME n + 1 <= N, NEW x \in reach[n + 1]
               PROVE  x \in Known /\ (On(x) => On(r))
    OBVIOUS
  <2>1. Sound(n)
    BY <1>4, <1>6
  <2>2. n + 1 \in 1..N /\ (n + 1) - 1 = n
    BY <1>4
  <2>3. x \in Grow(children, reach[n])
    BY <1>3, <2>2 DEF IsReach, N
  <2>4. CASE x \in reach[n]
    BY <2>1, <2>4
  <2>5. CASE x \notin reach[n]
    <3>1. PICK p \in reach[n] : x \in Guid /\ p \in Guid /\ children[p][x] > 0
      BY <2>3, <2>5 DEF Grow
    <3>2. x \in Known /\ nodes[x].parent = p
      BY <3>1 DEF TreeInv, ChildIndexSound
    <3> QED BY <1>2, <2>1, <3>1, <3>2
  <2> QED BY <2>4, <2>5
<1>7. Sound(N)
  <2> HIDE DEF Good, Sound
  <2>1. N \in Good
    BY <1>4, <1>5, <1>6, SetInduction
  <2> QED BY <1>4, <2>1 DEF Good
<1>8. On(g)
  BY <1>1
<1>9. g \in reach[N]
  BY <1>3 DEF N
<1> QED BY <1>7, <1>8, <1>9 DEF Contains, chain

LEMMA MirrorsInv == TreeInv => SubtreeMirrorsAncestry
BY AncestorsShowIt, OnlyAncestorsShowIt DEF SubtreeMirrorsAncestry

-----------------------------------------------------------------------------
(* What a step does to the chains.                                         *)

(* observe() only adds: every old root stays on the chain. *)
LEMMA ObserveKeepsChains ==
    ASSUME TreeInv, NEW g \in Guid, NEW parent \in Guid \cup {NoGuid},
           NEW ts \in Stamp, Observe(g, parent, ts), NEW x \in Known
    PROVE  Contains(Climb(nodes', x), Root(nodes, x))
<1>1. Known \subseteq Guid /\ nodes \in [Known -> ProcessNode]
  BY DEF TreeInv, TreeTypeOK
<1>2. /\ DOMAIN nodes \subseteq DOMAIN nodes'
      /\ \A y \in DOMAIN nodes : nodes[y].parent \in DOMAIN nodes =>
            nodes'[y].parent = nodes[y].parent
  <2>1. CASE ObserveNew(g, parent, ts)
    BY <2>1 DEF ObserveNew, Known
  <2>2. CASE ObserveKnown(g, parent, ts)
    <3>1. /\ DOMAIN nodes' = DOMAIN nodes
          /\ g \in DOMAIN nodes
          /\ \A y \in DOMAIN nodes : y # g => nodes'[y] = nodes[y]
      BY <2>2 DEF ObserveKnown, Known
    <3>2. nodes[g].parent # NoGuid => nodes'[g].parent = nodes[g].parent
      BY <1>1, <2>2, <3>1 DEF ObserveKnown, ProcessNode, Known
    <3>3. NoGuid \notin DOMAIN nodes
      BY <1>1, GuidAssumption DEF Known
    <3> QED BY <3>1, <3>2, <3>3
  <2> QED BY <2>1, <2>2 DEF Observe
<1> QED BY <1>2, ClimbExtends DEF Known

(* prune() only removes: every new root was on the old chain. *)
LEMMA PruneCutsChains ==
    ASSUME Prune, NEW x \in DOMAIN nodes'
    PROVE  Contains(Climb(nodes, x), Root(nodes', x))
<1>1. /\ DOMAIN nodes' \subseteq DOMAIN nodes
      /\ \A y \in DOMAIN nodes' : nodes'[y] = nodes[y]
  BY DEF Prune, Known
<1>2. \A y \in DOMAIN nodes' : nodes'[y].parent \in DOMAIN nodes' =>
          nodes[y].parent = nodes'[y].parent
  BY <1>1
<1> QED BY <1>1, <1>2, ClimbExtends

(* A root lies on its own chain. *)
LEMMA RootOnChain ==
    ASSUME NEW tbl, NEW x \in DOMAIN tbl
    PROVE  Contains(Climb(tbl, x), Root(tbl, x))
BY ClimbExtends

LEMMA NeverGraftedStep ==
    ASSUME TreeInv, [TreeNext]_treeVars, NEW x \in Known \cap DOMAIN nodes'
    PROVE  \/ Contains(Climb(nodes, x), Root(nodes', x))
           \/ Contains(Climb(nodes', x), Root(nodes, x))
<1>1. ASSUME NEW g \in Guid, NEW parent \in Guid \cup {NoGuid}, NEW ts \in Stamp,
             Observe(g, parent, ts)
      PROVE  Contains(Climb(nodes', x), Root(nodes, x))
  BY <1>1, ObserveKeepsChains
<1>2. CASE Prune
  BY <1>2, PruneCutsChains
<1>3. CASE nodes' = nodes
  BY <1>3, RootOnChain DEF Known
<1> QED BY <1>1, <1>2, <1>3 DEF TreeNext, Tick, treeVars

-----------------------------------------------------------------------------
(* Theorems about the tree.                                                *)

(* The node table, the child index and the history variable keep their types
   along every run of observe() and prune(). *)
THEOREM TreeTypeCorrect == TreeSpec => []TreeTypeOK
<1>1. TreeInv => TreeTypeOK
  BY DEF TreeInv
<1> QED BY <1>1, TreeInitInv, TreeStepInv, PTL DEF TreeSpec

(* prune() never leaves a dead or misplaced entry behind in _children: the
   leak that correlator.py:196-198 guards against cannot occur, however
   observe() and prune() interleave.  And a live process is missing from its
   parent's bucket only if that parent was pruned before it: the exact extent
   of the hole in subtree(). *)
THEOREM ChildIndexStaysExact == TreeSpec => []ChildIndexExact
<1>1. TreeInv => ChildIndexExact
  BY DEF TreeInv, ChildIndexExact
<1> QED BY <1>1, TreeInitInv, TreeStepInv, PTL DEF TreeSpec

(* ancestry() and subtree() walk the same relation: on a chain whose buckets
   were never dropped, and that the depth cap did not cut, the exported tree of
   r shows g exactly when r is an ancestor of g. *)
THEOREM TreeMirrors == TreeSpec => []SubtreeMirrorsAncestry
<1> QED BY MirrorsInv, TreeInitInv, TreeStepInv, PTL DEF TreeSpec

(* No event and no pruning moves a live process to an unrelated tree: the old
   root is on its new chain or the new root was on its old one. *)
THEOREM TreeNeverGrafted == TreeSpec => NeverGrafted
<1>1. TreeInv /\ [TreeNext]_treeVars =>
        [\A g \in Known \cap DOMAIN nodes' :
            \/ Contains(Climb(nodes, g), Root(nodes', g))
            \/ Contains(Climb(nodes', g), Root(nodes, g))]_treeVars
  BY NeverGraftedStep
<1> QED BY <1>1, TreeInitInv, TreeStepInv, PTL DEF TreeSpec, NeverGrafted

-----------------------------------------------------------------------------
(* The engine.  A burst is decided against the last activity of the open   *)
(* incident, so the invariant says where that activity came from, that the *)
(* open incident of a root is its latest, and, while the feed is punctual, *)
(* that whatever is closed was quiet for longer than the window.           *)

OpenIsLatest ==
    \A r \in DOMAIN open : \A i \in DOMAIN incidents :
        incidents[i].root = r => i <= open[r]

LastSeenReached ==
    \A i \in DOMAIN incidents :
        /\ Len(incidents[i].members) > 0
        /\ \E m \in DOMAIN incidents[i].members :
              incidents[i].members[m].at = incidents[i].lastSeen

ClosedIsQuiet ==
    ~late => \A i \in DOMAIN incidents :
        /\ incidents[i].lastSeen = Last(incidents[i].members).at
        /\ incidents[i].lastSeen <= now
        /\ i \notin Range(open) => now - incidents[i].lastSeen > Window

EngineInv ==
    /\ TreeInv
    /\ TypeOK
    /\ OpenIsLatest
    /\ LastSeenReached
    /\ ReachableThroughWindow
    /\ ClosedIsQuiet
    /\ IncidentsAreBursts

LEMMA StampNat == Stamp \subseteq Nat
BY DEF Stamp

LEMMA SeverityScored == \A s \in Severity : SeverityScore[s] \in Nat
BY EngineAssumption DEF SeverityScore

(* Incident.add() on a new incident. *)
LEMMA OpenedFacts ==
    ASSUME NEW root \in Guid \cup Orphan, NEW d \in Detection,
           d.severity \in Severity, NEW n \in Nat
    PROVE  LET inc == Opened(root, d, n) IN
           /\ inc \in Incident
           /\ inc.root = root /\ inc.lastSeen = d.at
           /\ Len(inc.members) = 1 /\ inc.members[1] = d
<1>1. d.at \in Stamp /\ SeverityScore[d.severity] \in Nat
  BY SeverityScored DEF Detection
<1>2. <<d>> \in Seq(Detection) /\ Len(<<d>>) = 1 /\ <<d>>[1] = d
  OBVIOUS
<1> QED BY <1>1, <1>2 DEF Opened, Incident

(* Incident.add() on a growing one. *)
LEMMA GrownFacts ==
    ASSUME NEW old \in Incident, NEW d \in Detection, d.severity \in Severity,
           NEW n \in Nat
    PROVE  LET inc == Grown(old, d, n) IN
           /\ inc \in Incident
           /\ inc.root = old.root
           /\ inc.members = Append(old.members, d)
           /\ inc.lastSeen = LaterOf(old.lastSeen, d.at)
           /\ inc.score >= old.score
           /\ inc.lastSeen >= old.lastSeen
           /\ inc.chainLen >= old.chainLen
<1> DEFINE score == old.score + SeverityScore[d.severity]
           seen == LaterOf(old.lastSeen, d.at)
           len == LaterOf(old.chainLen, n)
           members == Append(old.members, d)
<1>1. /\ old.root \in Guid \cup Orphan /\ old.firstSeen \in Stamp /\ old.lastSeen \in Stamp
      /\ old.chainLen \in Nat /\ old.score \in Nat /\ old.members \in Seq(Detection)
      /\ d.at \in Stamp /\ SeverityScore[d.severity] \in Nat
  BY SeverityScored DEF Incident, Detection
<1>2. score \in Nat /\ score >= old.score
  BY <1>1
<1>3. seen \in Stamp /\ seen >= old.lastSeen
  <2>1. \A s, t \in Stamp : LaterOf(s, t) \in Stamp /\ LaterOf(s, t) >= s
    BY StampNat DEF LaterOf
  <2> QED BY <1>1, <2>1
<1>4. len \in Nat /\ len >= old.chainLen
  BY <1>1 DEF LaterOf
<1>5. members \in Seq(Detection)
  BY <1>1
<1>6. Grown(old, d, n) = [old EXCEPT !.members = members, !.score = score,
                                     !.lastSeen = seen, !.chainLen = len]
  BY DEF Grown
<1> HIDE DEF score, seen, len, members
<1>7. Grown(old, d, n) = [root |-> old.root, firstSeen |-> old.firstSeen, lastSeen |-> seen,
                          chainLen |-> len, score |-> score, members |-> members]
  BY <1>6 DEF Incident
<1> QED BY <1>1, <1>2, <1>3, <1>4, <1>5, <1>7 DEF Incident, seen, members

\* A detection on g at this moment, of the given lag and severity.
Raising(g, lag, severity, fallback) ==
    /\ g \in Guid \cup Orphan
    /\ lag \in Lag
    /\ severity \in Severity
    /\ fallback \in NamedImages

LEMMA DetectionFacts ==
    ASSUME TypeOK, NEW g, NEW lag, NEW severity, NEW fallback,
           Raising(g, lag, severity, fallback), Correlate(g, lag, severity, fallback)
    PROVE  LET d == [at |-> now - lag, severity |-> severity]
               root == Root(nodes, g)
           IN  /\ d \in Detection /\ d.severity \in Severity /\ d.at = now - lag
               /\ root \in Guid \cup Orphan
               /\ ChainLen(g, fallback) \in Nat
               /\ Len(Ancestry(nodes, g)) \in Nat
<1>1. severity \in {"info", "low", "medium", "high", "critical"} /\ fallback \in Nat
  BY EngineAssumption DEF Raising
<1>2. now - lag \in Stamp
  BY DEF Correlate
<1>3. Len(Ancestry(nodes, g)) \in Nat
  BY RootFacts, ClimbFacts, TimeAssumption
<1>4. Root(nodes, g) \in Guid \cup Orphan
  BY RootFacts DEF Raising, TypeOK, TreeTypeOK, Known
<1>5. ChainLen(g, fallback) \in Nat
  BY <1>1, <1>3 DEF ChainLen
<1>6. severity \in Severity
  BY DEF Raising
<1> QED BY <1>1, <1>2, <1>3, <1>4, <1>5, <1>6, EngineAssumption DEF Detection

(* correlate() where a new incident is raised: nothing before it changes. *)
LEMMA OpenIncidentFacts ==
    ASSUME NEW g, NEW root, NEW d, NEW fallback, incidents \in Seq(Incident),
           OpenIncident(g, root, d, fallback),
           Opened(root, d, ChainLen(g, fallback)) \in Incident
    PROVE  /\ Len(incidents) \in Nat
           /\ incidents' \in Seq(Incident)
           /\ Len(incidents') = Len(incidents) + 1
           /\ \A i \in 1..Len(incidents) : incidents'[i] = incidents[i]
           /\ incidents'[Len(incidents) + 1] = Opened(root, d, ChainLen(g, fallback))
           /\ DOMAIN open' = DOMAIN open \cup {root}
           /\ open'[root] = Len(incidents) + 1
           /\ \A r \in DOMAIN open : r # root => open'[r] = open[r]
<1> DEFINE new == Opened(root, d, ChainLen(g, fallback))
<1>1. incidents' = Append(incidents, new)
  BY DEF OpenIncident
<1>2. open' = [r \in DOMAIN open \cup {root} |->
                  IF r = root THEN Len(incidents') ELSE open[r]]
  BY DEF OpenIncident
<1> HIDE DEF new
<1>3. /\ Len(incidents) \in Nat
      /\ incidents' \in Seq(Incident)
      /\ Len(incidents') = Len(incidents) + 1
      /\ \A i \in 1..Len(incidents) : incidents'[i] = incidents[i]
      /\ incidents'[Len(incidents) + 1] = new
  BY <1>1 DEF new
<1>4. /\ DOMAIN open' = DOMAIN open \cup {root}
      /\ open'[root] = Len(incidents')
      /\ \A r \in DOMAIN open : r # root => open'[r] = open[r]
  BY <1>2
<1> QED BY <1>3, <1>4 DEF new

(* correlate() into the open incident: only that one changes. *)
LEMMA GrowIncidentFacts ==
    ASSUME NEW g, NEW root, NEW d, incidents \in Seq(Incident),
           GrowIncident(g, root, d), open[root] \in DOMAIN incidents,
           Grown(incidents[open[root]], d, Len(Ancestry(nodes, g))) \in Incident
    PROVE  /\ Len(incidents) \in Nat
           /\ incidents' \in Seq(Incident)
           /\ Len(incidents') = Len(incidents)
           /\ \A i \in 1..Len(incidents) : i # open[root] => incidents'[i] = incidents[i]
           /\ incidents'[open[root]] =
                 Grown(incidents[open[root]], d, Len(Ancestry(nodes, g)))
           /\ open' = open
<1> DEFINE new == Grown(incidents[open[root]], d, Len(Ancestry(nodes, g)))
           k == open[root]
<1>1. incidents' = [incidents EXCEPT ![k] = new] /\ open' = open
  BY DEF GrowIncident
<1>2. k \in 1..Len(incidents) /\ Len(incidents) \in Nat
  OBVIOUS
<1> HIDE DEF new, k
<1>3. /\ incidents' \in Seq(Incident)
      /\ Len(incidents') = Len(incidents)
      /\ \A i \in 1..Len(incidents) : incidents'[i] = IF i = k THEN new ELSE incidents[i]
  BY <1>1, <1>2, ExceptSeq DEF new
<1> QED BY <1>1, <1>2, <1>3 DEF new, k

\* What every correlate() leaves alone, and the clock it stamps with.
Stamped(d, lag) ==
    /\ d \in Detection /\ d.severity \in Severity
    /\ d.at = now - lag
    /\ lag \in Nat
    /\ late' = (late \/ lag # 0)
    /\ UNCHANGED treeVars

LEMMA OpenIncidentInv ==
    ASSUME EngineInv, NEW g, NEW root \in Guid \cup Orphan, NEW d, NEW lag, NEW fallback,
           Stamped(d, lag), ChainLen(g, fallback) \in Nat,
           OpenIncident(g, root, d, fallback)
    PROVE  EngineInv'
<1> DEFINE n == Len(incidents)
           new == Opened(root, d, ChainLen(g, fallback))
<1>1. /\ TypeOK /\ incidents \in Seq(Incident) /\ now \in Nat
      /\ d.at \in Stamp /\ d.at \in Nat
      /\ d.at = now - lag /\ lag \in Nat /\ now' = now
      /\ late' = (late \/ lag # 0) /\ late \in BOOLEAN
      /\ UNCHANGED treeVars
  BY StampNat DEF EngineInv, TypeOK, TreeTypeOK, Stamped, Detection, treeVars
<1>2. /\ new \in Incident /\ new.root = root /\ new.lastSeen = d.at
      /\ Len(new.members) = 1 /\ new.members[1] = d
  BY OpenedFacts DEF Stamped
<1>3. /\ n \in Nat
      /\ incidents' \in Seq(Incident)
      /\ Len(incidents') = n + 1
      /\ \A i \in 1..n : incidents'[i] = incidents[i]
      /\ incidents'[n + 1] = new
      /\ DOMAIN open' = DOMAIN open \cup {root}
      /\ open'[root] = n + 1
      /\ \A r \in DOMAIN open : r # root => open'[r] = open[r]
  BY <1>1, <1>2, OpenIncidentFacts
<1>4. /\ DOMAIN incidents = 1..n /\ DOMAIN incidents' = 1..(n + 1)
      /\ \A i \in 1..(n + 1) : i \in 1..n \/ i = n + 1
  BY <1>1, <1>3
<1>5. \A r \in DOMAIN open : open[r] \in 1..n /\ incidents[open[r]].root = r
  BY <1>1, <1>4 DEF TypeOK
<1>6. \A i \in 1..n : incidents[i] \in Incident /\ incidents[i].lastSeen \in Nat
  <2>1. \A i \in 1..n : incidents[i] \in Incident
    BY <1>1, <1>4
  <2>2. \A inc \in Incident : inc.lastSeen \in Stamp
    BY DEF Incident
  <2> QED BY <2>1, <2>2, StampNat
<1> HIDE DEF new, n
<1>7. TreeInv'
  BY <1>1 DEF EngineInv, TreeInv, treeVars, TreeTypeOK, ChildIndexSound,
              IndexedUnlessDetached, Known
<1>8. TypeOK'
  <2>1. DOMAIN open' \subseteq Guid \cup Orphan
    BY <1>1, <1>3 DEF TypeOK
  <2>2. ASSUME NEW r \in DOMAIN open'
        PROVE  open'[r] \in DOMAIN incidents' /\ incidents'[open'[r]].root = r
    <3>1. CASE r = root
      BY <1>2, <1>3, <1>4, <3>1
    <3>2. CASE r # root
      BY <1>3, <1>4, <1>5, <3>2
    <3> QED BY <3>1, <3>2
  <2>3. late' \in BOOLEAN
    BY <1>1
  <2> QED BY <1>3, <1>7, <2>1, <2>2, <2>3 DEF TypeOK, TreeInv
<1>9. OpenIsLatest'
  <2> SUFFICES ASSUME NEW r \in DOMAIN open', NEW i \in 1..(n + 1), incidents'[i].root = r
               PROVE  i <= open'[r]
    BY <1>4 DEF OpenIsLatest
  <2>1. CASE r = root
    BY <1>3, <2>1
  <2>2. CASE r # root
    <3>1. i \in 1..n /\ incidents[i].root = r /\ r \in DOMAIN open
      BY <1>2, <1>3, <1>4, <2>2
    <3> QED BY <1>3, <1>4, <2>2, <3>1 DEF EngineInv, OpenIsLatest
  <2> QED BY <2>1, <2>2
<1>10. LastSeenReached'
  <2> SUFFICES ASSUME NEW i \in 1..(n + 1)
               PROVE  /\ Len(incidents'[i].members) > 0
                      /\ \E m \in DOMAIN incidents'[i].members :
                            incidents'[i].members[m].at = incidents'[i].lastSeen
    BY <1>4 DEF LastSeenReached
  <2>1. CASE i = n + 1
    <3>1. new.members \in Seq(Detection) /\ 1 \in DOMAIN new.members
      BY <1>2 DEF Incident
    <3> QED BY <1>2, <1>3, <2>1, <3>1
  <2>2. CASE i \in 1..n
    BY <1>3, <1>4, <2>2 DEF EngineInv, LastSeenReached
  <2> QED BY <1>4, <2>1, <2>2
<1>11. ReachableThroughWindow'
  <2> SUFFICES ASSUME NEW i \in 1..(n + 1), NEW k \in 2..Len(incidents'[i].members)
               PROVE  \E m \in 1..(k - 1) : incidents'[i].members[k].at
                                              <= incidents'[i].members[m].at + Window
    BY <1>4 DEF ReachableThroughWindow
  <2>1. CASE i = n + 1
    BY <1>2, <1>3, <2>1
  <2>2. CASE i \in 1..n
    BY <1>3, <1>4, <2>2 DEF EngineInv, ReachableThroughWindow
  <2> QED BY <1>4, <2>1, <2>2
<1>12. ASSUME ~late'
       PROVE  /\ ~late /\ d.at = now
              /\ \A i \in 1..n : /\ incidents[i].lastSeen = Last(incidents[i].members).at
                                 /\ incidents[i].lastSeen <= now
                                 /\ incidents[i].root = root \/ i \notin Range(open)
                                      => now - incidents[i].lastSeen > Window
  <2>1. ~late /\ d.at = now
    <3>1. ~late /\ lag = 0
      BY <1>1, <1>12, Zenon
    <3> QED BY <1>1, <3>1
  <2>2. ASSUME NEW i \in 1..n
        PROVE  /\ incidents[i].lastSeen = Last(incidents[i].members).at
               /\ incidents[i].lastSeen <= now
               /\ i \notin Range(open) => now - incidents[i].lastSeen > Window
    BY <1>4, <2>1, <2>2 DEF EngineInv, ClosedIsQuiet
  <2>3. ASSUME NEW i \in 1..n, incidents[i].root = root, i \in Range(open)
        PROVE  now - incidents[i].lastSeen > Window
    <3>1. PICK r \in DOMAIN open : open[r] = i
      BY <2>3 DEF Range
    <3>2. r = root
      BY <1>5, <2>3, <3>1
    <3> QED BY <2>1, <3>1, <3>2 DEF OpenIncident, IsOpen, WentQuiet
  <2> QED BY <2>1, <2>2, <2>3
<1>13. ClosedIsQuiet'
  <2> SUFFICES ASSUME ~late', NEW i \in 1..(n + 1)
               PROVE  /\ incidents'[i].lastSeen = Last(incidents'[i].members).at
                      /\ incidents'[i].lastSeen <= now'
                      /\ i \notin Range(open') => now' - incidents'[i].lastSeen > Window
    BY <1>4 DEF ClosedIsQuiet
  <2>1. CASE i = n + 1
    <3>1. i \in Range(open')
      BY <1>3, <2>1 DEF Range
    <3>2. Last(new.members) = d
      BY <1>2 DEF Last
    <3> QED BY <1>1, <1>2, <1>3, <1>12, <2>1, <3>1, <3>2
  <2>2. CASE i \in 1..n
    <3>1. ASSUME i \notin Range(open') PROVE incidents[i].root = root \/ i \notin Range(open)
      <4> SUFFICES ASSUME i \in Range(open) PROVE incidents[i].root = root
        OBVIOUS
      <4>1. PICK r \in DOMAIN open : open[r] = i
        BY DEF Range
      <4>2. r \in DOMAIN open' /\ open'[r] # i
        BY <1>3, <3>1 DEF Range
      <4> QED BY <1>3, <1>5, <4>1, <4>2
    <3> QED BY <1>1, <1>3, <1>12, <2>2, <3>1
  <2> QED BY <1>4, <2>1, <2>2
<1>14. IncidentsAreBursts'
  <2> SUFFICES ASSUME ~late'
               PROVE  /\ \A i \in 1..(n + 1) : \A k \in 2..Len(incidents'[i].members) :
                            incidents'[i].members[k].at - incidents'[i].members[k - 1].at
                              \in 0..Window
                      /\ \A i, j \in 1..(n + 1) :
                            i < j /\ incidents'[i].root = incidents'[j].root =>
                              incidents'[j].members[1].at
                                - Last(incidents'[i].members).at > Window
    BY <1>4 DEF IncidentsAreBursts, SameRootInOrder
  <2>1. ~late
    BY <1>12
  <2>2. ASSUME NEW i \in 1..(n + 1), NEW k \in 2..Len(incidents'[i].members)
        PROVE  incidents'[i].members[k].at - incidents'[i].members[k - 1].at \in 0..Window
    <3>1. CASE i = n + 1
      BY <1>2, <1>3, <3>1
    <3>2. CASE i \in 1..n
      BY <1>3, <1>4, <2>1, <3>2 DEF EngineInv, IncidentsAreBursts
    <3> QED BY <1>4, <3>1, <3>2
  <2>3. ASSUME NEW i \in 1..(n + 1), NEW j \in 1..(n + 1), i < j,
               incidents'[i].root = incidents'[j].root
        PROVE  incidents'[j].members[1].at - Last(incidents'[i].members).at > Window
    <3>1. i \in 1..n
      BY <1>3, <2>3
    <3>2. CASE j = n + 1
      <4>1. incidents[i].root = root
        BY <1>2, <1>3, <2>3, <3>1, <3>2
      <4>2. now - incidents[i].lastSeen > Window
        BY <1>12, <3>1, <4>1
      <4> QED BY <1>2, <1>3, <1>12, <3>1, <3>2, <4>2
    <3>3. CASE j \in 1..n
      BY <1>3, <1>4, <2>1, <2>3, <3>1, <3>3
         DEF EngineInv, IncidentsAreBursts, SameRootInOrder
    <3> QED BY <1>4, <3>2, <3>3
  <2> QED BY <2>2, <2>3
<1> QED BY <1>7, <1>8, <1>9, <1>10, <1>11, <1>13, <1>14 DEF EngineInv

LEMMA AppendFacts ==
    ASSUME NEW T, NEW s \in Seq(T), NEW e \in T
    PROVE  /\ Append(s, e) \in Seq(T)
           /\ Len(s) \in Nat /\ DOMAIN s = 1..Len(s)
           /\ Len(Append(s, e)) = Len(s) + 1 /\ DOMAIN Append(s, e) = 1..(Len(s) + 1)
           /\ Append(s, e)[Len(s) + 1] = e
           /\ \A m \in 1..Len(s) : Append(s, e)[m] = s[m]
           /\ \A m \in 1..(Len(s) + 1) : m \in 1..Len(s) \/ m = Len(s) + 1
OBVIOUS

LEMMA GrowIncidentInv ==
    ASSUME EngineInv, NEW g, NEW root, NEW d, NEW lag,
           Stamped(d, lag), Len(Ancestry(nodes, g)) \in Nat,
           GrowIncident(g, root, d)
    PROVE  EngineInv'
<1> DEFINE n == Len(incidents)
           k == open[root]
           was == incidents[k]
           new == Grown(was, d, Len(Ancestry(nodes, g)))
           size == Len(was.members)
<1>1. /\ TypeOK /\ incidents \in Seq(Incident) /\ now \in Nat
      /\ d \in Detection /\ d.severity \in Severity
      /\ d.at \in Stamp /\ d.at \in Nat
      /\ d.at = now - lag /\ lag \in Nat /\ now' = now
      /\ late' = (late \/ lag # 0) /\ late \in BOOLEAN
      /\ UNCHANGED treeVars
      /\ Window \in Nat
  BY StampNat, EngineAssumption DEF EngineInv, TypeOK, TreeTypeOK, Stamped, Detection, treeVars
<1>2. /\ root \in DOMAIN open /\ k \in DOMAIN incidents /\ was.root = root
      /\ d.at - was.lastSeen <= Window
  <2>1. root \in DOMAIN open /\ ~ (d.at - was.lastSeen > Window)
    BY DEF GrowIncident, IsOpen, WentQuiet
  <2>2. k \in DOMAIN incidents /\ was.root = root
    BY <1>1, <2>1 DEF TypeOK
  <2>3. was.lastSeen \in Nat
    <3>1. was \in Incident
      BY <1>1, <2>2
    <3> QED BY <3>1, StampNat DEF Incident
  <2> QED BY <1>1, <2>1, <2>2, <2>3
<1>3. /\ was \in Incident /\ was.members \in Seq(Detection) /\ size \in Nat
      /\ was.lastSeen \in Nat
      /\ size > 0
      /\ \E m \in 1..size : was.members[m].at = was.lastSeen
  <2>1. was \in Incident
    BY <1>1, <1>2
  <2>2. was.members \in Seq(Detection) /\ was.lastSeen \in Stamp
    BY <2>1 DEF Incident
  <2>3. size > 0 /\ \E m \in DOMAIN was.members : was.members[m].at = was.lastSeen
    BY <1>2 DEF EngineInv, LastSeenReached
  <2>4. size \in Nat /\ DOMAIN was.members = 1..size
    BY <2>2
  <2> HIDE DEF size, was
  <2> QED BY <2>1, <2>2, <2>3, <2>4, StampNat DEF size
<1>4. /\ new \in Incident
      /\ new.root = was.root
      /\ new.members = Append(was.members, d)
      /\ new.lastSeen = LaterOf(was.lastSeen, d.at)
  BY <1>1, <1>3, GrownFacts
<1>5. /\ n \in Nat /\ DOMAIN incidents = 1..n /\ DOMAIN incidents' = 1..n
      /\ incidents' \in Seq(Incident)
      /\ \A i \in 1..n : i # k => incidents'[i] = incidents[i]
      /\ incidents'[k] = new
      /\ open' = open
  BY <1>1, <1>2, <1>4, GrowIncidentFacts
<1> HIDE DEF new, n
<1>6. \A i \in 1..n : incidents'[i].root = incidents[i].root
  BY <1>4, <1>5
<1> HIDE DEF was, k
<1>7. /\ Len(new.members) = size + 1
      /\ DOMAIN new.members = 1..(size + 1)
      /\ new.members[size + 1] = d
      /\ \A m \in 1..size : new.members[m] = was.members[m]
      /\ \A m \in 1..(size + 1) : m \in 1..size \/ m = size + 1
  <2> DEFINE ms == was.members
  <2>1. ms \in Seq(Detection) /\ size = Len(ms) /\ new.members = Append(ms, d)
    BY <1>3, <1>4
  <2> HIDE DEF ms, size
  <2>2. /\ Len(Append(ms, d)) = Len(ms) + 1 /\ DOMAIN Append(ms, d) = 1..(Len(ms) + 1)
        /\ Append(ms, d)[Len(ms) + 1] = d
        /\ \A m \in 1..Len(ms) : Append(ms, d)[m] = ms[m]
        /\ \A m \in 1..(Len(ms) + 1) : m \in 1..Len(ms) \/ m = Len(ms) + 1
    BY <1>1, <2>1, AppendFacts
  <2> QED BY <2>1, <2>2 DEF ms
<1>8. TreeInv'
  BY <1>1 DEF EngineInv, TreeInv, treeVars, TreeTypeOK, ChildIndexSound,
              IndexedUnlessDetached, Known
<1> HIDE DEF size
<1>9. TypeOK'
  <2>1. late' \in BOOLEAN
    BY <1>1
  <2> QED BY <1>1, <1>5, <1>6, <1>8, <2>1 DEF TypeOK, TreeInv
<1>10. OpenIsLatest'
  BY <1>5, <1>6 DEF EngineInv, OpenIsLatest
<1>11. LastSeenReached'
  <2> SUFFICES ASSUME NEW i \in 1..n
               PROVE  /\ Len(incidents'[i].members) > 0
                      /\ \E m \in DOMAIN incidents'[i].members :
                            incidents'[i].members[m].at = incidents'[i].lastSeen
    BY <1>5 DEF LastSeenReached
  <2>1. CASE i = k
    <3>1. DOMAIN new.members = 1..(size + 1) /\ Len(new.members) > 0
      BY <1>3, <1>7
    <3>2. \E m \in 1..(size + 1) : new.members[m].at = new.lastSeen
      <4>1. CASE was.lastSeen > d.at
        <5>1. new.lastSeen = was.lastSeen
          BY <1>4, <4>1 DEF LaterOf
        <5>2. PICK m \in 1..size : was.members[m].at = was.lastSeen
          BY <1>3
        <5> QED BY <1>3, <1>7, <5>1, <5>2
      <4>2. CASE ~ (was.lastSeen > d.at)
        <5>1. new.lastSeen = d.at
          BY <1>4, <4>2 DEF LaterOf
        <5> QED BY <1>3, <1>7, <5>1
      <4> QED BY <4>1, <4>2
    <3> QED BY <1>3, <1>5, <1>7, <2>1, <3>1, <3>2
  <2>2. CASE i # k
    BY <1>5, <2>2 DEF EngineInv, LastSeenReached
  <2> QED BY <2>1, <2>2
<1>12. ReachableThroughWindow'
  <2> SUFFICES ASSUME NEW i \in 1..n, NEW p \in 2..Len(incidents'[i].members)
               PROVE  \E m \in 1..(p - 1) : incidents'[i].members[p].at
                                              <= incidents'[i].members[m].at + Window
    BY <1>5 DEF ReachableThroughWindow
  <2>1. CASE i = k /\ p = size + 1
    <3>1. PICK m \in 1..size : was.members[m].at = was.lastSeen
      BY <1>3
    <3>2. m \in 1..(p - 1) /\ new.members[m].at = was.lastSeen /\ new.members[p].at = d.at
      BY <1>3, <1>7, <2>1, <3>1
    <3>3. d.at <= was.lastSeen + Window
      BY <1>1, <1>2, <1>3
    <3> QED BY <1>5, <2>1, <3>2, <3>3
  <2>2. CASE i = k /\ p # size + 1
    <3>1. p \in 2..Len(was.members) /\ p \in 1..size
      BY <1>3, <1>5, <1>7, <2>2 DEF size
    <3>2. PICK m \in 1..(p - 1) : was.members[p].at <= was.members[m].at + Window
      BY <1>2, <3>1 DEF EngineInv, ReachableThroughWindow, was
    <3>3. m \in 1..size
      BY <1>3, <3>1
    <3> QED BY <1>5, <1>7, <2>2, <3>1, <3>2, <3>3
  <2>3. CASE i # k
    BY <1>5, <2>3 DEF EngineInv, ReachableThroughWindow
  <2> QED BY <2>1, <2>2, <2>3
<1>13. ASSUME ~late'
       PROVE  /\ ~late /\ d.at = now
              /\ was.members[size].at = was.lastSeen
              /\ was.lastSeen <= now
              /\ new.lastSeen = now
  <2>1. ~late /\ lag = 0
    BY <1>1, <1>13, Zenon
  <2>2. d.at = now
    BY <1>1, <2>1
  <2>3. was.members[size].at = was.lastSeen /\ was.lastSeen <= now
    BY <1>2, <2>1 DEF EngineInv, ClosedIsQuiet, Last, was, size
  <2>4. new.lastSeen = now
    BY <1>1, <1>3, <1>4, <2>2, <2>3 DEF LaterOf
  <2> QED BY <2>1, <2>2, <2>3, <2>4
<1>14. Last(new.members) = d
  BY <1>7 DEF Last
<1>15. ClosedIsQuiet'
  <2> SUFFICES ASSUME ~late', NEW i \in 1..n
               PROVE  /\ incidents'[i].lastSeen = Last(incidents'[i].members).at
                      /\ incidents'[i].lastSeen <= now'
                      /\ i \notin Range(open') => now' - incidents'[i].lastSeen > Window
    BY <1>5 DEF ClosedIsQuiet
  <2>1. CASE i = k
    <3>1. i \in Range(open)
      BY <1>2, <2>1 DEF Range, k
    <3> QED BY <1>1, <1>5, <1>13, <1>14, <2>1, <3>1
  <2>2. CASE i # k
    BY <1>1, <1>5, <1>13, <2>2 DEF EngineInv, ClosedIsQuiet
  <2> QED BY <2>1, <2>2
<1>16. IncidentsAreBursts'
  <2> SUFFICES ASSUME ~late'
               PROVE  /\ \A i \in 1..n : \A p \in 2..Len(incidents'[i].members) :
                            incidents'[i].members[p].at - incidents'[i].members[p - 1].at
                              \in 0..Window
                      /\ \A i, j \in 1..n :
                            i < j /\ incidents'[i].root = incidents'[j].root =>
                              incidents'[j].members[1].at
                                - Last(incidents'[i].members).at > Window
    BY <1>5 DEF IncidentsAreBursts, SameRootInOrder
  <2>1. ~late
    BY <1>13
  <2>2. ASSUME NEW i \in 1..n, NEW p \in 2..Len(incidents'[i].members)
        PROVE  incidents'[i].members[p].at - incidents'[i].members[p - 1].at \in 0..Window
    <3>1. CASE i = k /\ p = size + 1
      <4>1. p - 1 = size /\ size \in 1..size
        BY <1>3, <3>1
      <4>2. incidents'[i].members[p].at = now
            /\ incidents'[i].members[p - 1].at = was.lastSeen
        BY <1>5, <1>7, <1>13, <3>1, <4>1
      <4> QED BY <1>1, <1>2, <1>3, <1>13, <4>2
    <3>2. CASE i = k /\ p # size + 1
      <4>1. p \in 2..Len(was.members) /\ p \in 1..size /\ p - 1 \in 1..size
        BY <1>3, <1>5, <1>7, <3>2 DEF size
      <4>2. was.members[p].at - was.members[p - 1].at \in 0..Window
        BY <1>2, <2>1, <4>1 DEF EngineInv, IncidentsAreBursts, was
      <4> QED BY <1>5, <1>7, <3>2, <4>1, <4>2
    <3>3. CASE i # k
      BY <1>5, <2>1, <3>3 DEF EngineInv, IncidentsAreBursts
    <3> QED BY <3>1, <3>2, <3>3
  <2>3. ASSUME NEW i \in 1..n, NEW j \in 1..n, i < j,
               incidents'[i].root = incidents'[j].root
        PROVE  incidents'[j].members[1].at - Last(incidents'[i].members).at > Window
    <3>1. incidents[i].root = incidents[j].root
      BY <1>6, <2>3
    <3>2. i # k
      <4> SUFFICES ASSUME i = k PROVE FALSE
        OBVIOUS
      <4>1. incidents[j].root = root
        BY <1>2, <3>1 DEF was
      <4>2. j <= k
        BY <1>2, <1>5, <4>1 DEF EngineInv, OpenIsLatest, k
      <4> QED BY <1>5, <2>3, <4>2
    <3>3. incidents[j].members[1].at - Last(incidents[i].members).at > Window
      BY <1>5, <2>1, <2>3, <3>1 DEF EngineInv, IncidentsAreBursts, SameRootInOrder
    <3>4. incidents'[i] = incidents[i]
      BY <1>5, <3>2
    <3>5. incidents'[j].members[1] = incidents[j].members[1]
      <4>1. CASE j = k
        <5>1. 1 \in 1..size
          BY <1>3
        <5> QED BY <1>5, <1>7, <4>1, <5>1 DEF was
      <4>2. CASE j # k
        BY <1>5, <4>2
      <4> QED BY <4>1, <4>2
    <3> QED BY <3>3, <3>4, <3>5
  <2> QED BY <2>2, <2>3
<1> QED BY <1>8, <1>9, <1>10, <1>11, <1>12, <1>15, <1>16 DEF EngineInv

(* The invariant of the engine survives whatever leaves the incidents and what
   is open alone, if time does not run backwards. *)
LEMMA TreeMovesInv ==
    ASSUME EngineInv, TreeInv', UNCHANGED engineVars, now' >= now
    PROVE  EngineInv'
<1>1. now \in Nat /\ now' \in Nat
  BY StampNat DEF EngineInv, TreeInv, TreeTypeOK
<1>2. TypeOK'
  BY DEF EngineInv, TypeOK, TreeInv, engineVars
<1>3. ClosedIsQuiet'
  <2> SUFFICES ASSUME ~late, NEW i \in DOMAIN incidents
               PROVE  /\ incidents[i].lastSeen = Last(incidents[i].members).at
                      /\ incidents[i].lastSeen <= now'
                      /\ i \notin Range(open) => now' - incidents[i].lastSeen > Window
    BY DEF ClosedIsQuiet, engineVars
  <2>1. incidents[i].lastSeen \in Nat
    <3>1. incidents[i] \in Incident
      BY DEF EngineInv, TypeOK
    <3> QED BY <3>1, StampNat DEF Incident
  <2> QED BY <1>1, <2>1, EngineAssumption DEF EngineInv, ClosedIsQuiet
<1>4. OpenIsLatest' /\ LastSeenReached' /\ ReachableThroughWindow' /\ IncidentsAreBursts'
  BY DEF EngineInv, engineVars, OpenIsLatest, LastSeenReached, ReachableThroughWindow,
         IncidentsAreBursts, SameRootInOrder
<1> QED BY <1>2, <1>3, <1>4 DEF EngineInv

(* sweep() closes only what was quiet, which is what the invariant asks of the
   closed. *)
LEMMA SweepInv ==
    ASSUME EngineInv, Sweep
    PROVE  EngineInv'
<1>1. /\ open' = [r \in DOMAIN open \ Expired |-> open[r]]
      /\ Prune /\ UNCHANGED <<now, incidents, late>>
  BY DEF Sweep
<1>2. TreeInv'
  BY <1>1, PruneInv DEF EngineInv
<1>3. /\ DOMAIN open' \subseteq DOMAIN open
      /\ \A r \in DOMAIN open' : open'[r] = open[r]
      /\ \A r \in DOMAIN open : r \notin DOMAIN open' => r \in Expired
  BY <1>1
<1>4. TypeOK'
  BY <1>1, <1>2, <1>3 DEF EngineInv, TypeOK, TreeInv
<1>5. OpenIsLatest'
  BY <1>1, <1>3 DEF EngineInv, OpenIsLatest
<1>6. ClosedIsQuiet'
  <2> SUFFICES ASSUME ~late, NEW i \in DOMAIN incidents
               PROVE  /\ incidents[i].lastSeen = Last(incidents[i].members).at
                      /\ incidents[i].lastSeen <= now
                      /\ i \notin Range(open') => now - incidents[i].lastSeen > Window
    BY <1>1 DEF ClosedIsQuiet
  <2>1. CASE i \in Range(open) /\ i \notin Range(open')
    <3>1. PICK r \in DOMAIN open : open[r] = i
      BY <2>1 DEF Range
    <3>2. r \in Expired
      BY <1>3, <2>1, <3>1 DEF Range
    <3>3. now - incidents[i].lastSeen > Window
      BY <3>1, <3>2 DEF Expired
    <3> QED BY <3>3 DEF EngineInv, ClosedIsQuiet
  <2>2. CASE i \notin Range(open) \/ i \in Range(open')
    BY <2>2 DEF EngineInv, ClosedIsQuiet
  <2> QED BY <2>1, <2>2
<1>7. LastSeenReached' /\ ReachableThroughWindow' /\ IncidentsAreBursts'
  BY <1>1 DEF EngineInv, LastSeenReached, ReachableThroughWindow,
              IncidentsAreBursts, SameRootInOrder
<1> QED BY <1>2, <1>4, <1>5, <1>6, <1>7 DEF EngineInv

LEMMA CorrelateInv ==
    ASSUME EngineInv, NEW g, NEW lag, NEW severity, NEW fallback,
           Raising(g, lag, severity, fallback), Correlate(g, lag, severity, fallback)
    PROVE  EngineInv'
<1> DEFINE d == [at |-> now - lag, severity |-> severity]
<1>1. /\ d \in Detection /\ d.severity \in Severity /\ d.at = now - lag
      /\ Root(nodes, g) \in Guid \cup Orphan
      /\ ChainLen(g, fallback) \in Nat
      /\ Len(Ancestry(nodes, g)) \in Nat
  BY DetectionFacts DEF EngineInv
<1>2. Stamped(d, lag)
  BY <1>1, EngineAssumption DEF Stamped, Correlate, Raising
<1>3. OpenIncident(g, Root(nodes, g), d, fallback) \/ GrowIncident(g, Root(nodes, g), d)
  BY DEF Correlate
<1> HIDE DEF d
<1> QED BY <1>1, <1>2, <1>3, OpenIncidentInv, GrowIncidentInv

LEMMA ObserveEventInv ==
    ASSUME EngineInv, NEW g \in Guid, NEW parent \in Guid \cup {NoGuid}, NEW lag \in Lag,
           ObserveEvent(g, parent, lag)
    PROVE  EngineInv'
<1>1. /\ Observe(g, parent, now - lag) /\ now - lag \in Stamp
      /\ UNCHANGED <<now, engineVars>>
  BY DEF ObserveEvent
<1>2. TreeInv'
  BY <1>1, ObserveNewInv, ObserveKnownInv DEF Observe, EngineInv
<1>3. now \in Nat
  BY StampNat DEF EngineInv, TreeInv, TreeTypeOK
<1> QED BY <1>1, <1>2, <1>3, TreeMovesInv

LEMMA ClockTickInv ==
    ASSUME EngineInv, ClockTick
    PROVE  EngineInv'
<1>1. Tick /\ UNCHANGED engineVars
  BY DEF ClockTick
<1>2. TreeInv'
  BY <1>1, TreeStepInv DEF EngineInv, TreeNext
<1>3. now \in Nat /\ now' = now + 1
  BY <1>1, StampNat DEF EngineInv, TreeInv, TreeTypeOK, Tick
<1>4. now' >= now
  BY <1>3
<1> QED BY <1>1, <1>2, <1>4, TreeMovesInv

LEMMA EngineInitInv == Init => EngineInv
<1> SUFFICES ASSUME Init PROVE EngineInv
  OBVIOUS
<1>1. TreeInv
  BY TreeInitInv DEF Init
<1>2. incidents = <<>> /\ DOMAIN incidents = {} /\ DOMAIN open = {} /\ late = FALSE
  BY DEF Init
<1>3. incidents \in Seq(Incident)
  BY <1>2
<1> QED BY <1>1, <1>2, <1>3 DEF EngineInv, TypeOK, TreeInv, OpenIsLatest, LastSeenReached,
               ReachableThroughWindow, ClosedIsQuiet, IncidentsAreBursts, SameRootInOrder

LEMMA EngineStepInv == EngineInv /\ [Next]_vars => EngineInv'
<1> SUFFICES ASSUME EngineInv, [Next]_vars PROVE EngineInv'
  OBVIOUS
<1>1. ASSUME NEW g \in Guid, NEW parent \in Guid \cup {NoGuid}, NEW lag \in Lag,
             ObserveEvent(g, parent, lag)
      PROVE  EngineInv'
  BY <1>1, ObserveEventInv
<1>2. ASSUME NEW g \in Guid \cup Orphan, NEW lag \in Lag, NEW severity \in Severity,
             NEW fallback \in NamedImages, Correlate(g, lag, severity, fallback)
      PROVE  EngineInv'
  <2>1. Raising(g, lag, severity, fallback)
    BY DEF Raising
  <2> QED BY <1>2, <2>1, CorrelateInv
<1>3. CASE Sweep
  BY <1>3, SweepInv
<1>4. CASE ClockTick
  BY <1>4, ClockTickInv
<1>5. CASE UNCHANGED vars
  <2>1. UNCHANGED treeVars /\ UNCHANGED engineVars
    BY <1>5 DEF vars
  <2>2. TreeInv' /\ now' = now
    BY <2>1, TreeStepInv DEF EngineInv, treeVars
  <2>3. now \in Nat
    BY StampNat DEF EngineInv, TreeInv, TreeTypeOK
  <2> QED BY <2>1, <2>2, <2>3, TreeMovesInv
<1> QED BY <1>1, <1>2, <1>3, <1>4, <1>5 DEF Next

(* What a step may do to an incident. *)
LEMMA OnlyGrowStep ==
    ASSUME EngineInv, [Next]_vars, NEW i \in DOMAIN incidents
    PROVE  /\ i \notin Range(open) => incidents'[i] = incidents[i] /\ i \notin Range(open')
           /\ IsPrefix(incidents[i].members, incidents'[i].members)
           /\ incidents'[i].score >= incidents[i].score
           /\ incidents'[i].lastSeen >= incidents[i].lastSeen
           /\ incidents'[i].chainLen >= incidents[i].chainLen
<1> DEFINE Keeps == incidents'[i] = incidents[i]
           Gains == /\ IsPrefix(incidents[i].members, incidents'[i].members)
                    /\ incidents'[i].score >= incidents[i].score
                    /\ incidents'[i].lastSeen >= incidents[i].lastSeen
                    /\ incidents'[i].chainLen >= incidents[i].chainLen
<1>1. TypeOK /\ incidents \in Seq(Incident) /\ DOMAIN incidents = 1..Len(incidents)
  BY DEF EngineInv, TypeOK
<1>2. incidents[i] \in Incident
  BY <1>1
<1>3. /\ incidents[i].members \in Seq(Detection) /\ incidents[i].score \in Nat
      /\ incidents[i].lastSeen \in Nat /\ incidents[i].chainLen \in Nat
  BY <1>2, StampNat DEF Incident
<1>4. Keeps => Gains
  BY <1>3 DEF IsPrefix
<1>5. ASSUME NEW g \in Guid \cup Orphan, NEW lag \in Lag, NEW severity \in Severity,
             NEW fallback \in NamedImages, Correlate(g, lag, severity, fallback)
      PROVE  (i \notin Range(open) => Keeps /\ i \notin Range(open')) /\ Gains
  <2> DEFINE d == [at |-> now - lag, severity |-> severity]
             root == Root(nodes, g)
             depth == Len(Ancestry(nodes, g))
  <2>1. Raising(g, lag, severity, fallback)
    BY DEF Raising
  <2>2. /\ d \in Detection /\ d.severity \in Severity
        /\ root \in Guid \cup Orphan
        /\ ChainLen(g, fallback) \in Nat /\ depth \in Nat
    BY <1>1, <1>5, <2>1, DetectionFacts
  <2>3. OpenIncident(g, root, d, fallback) \/ GrowIncident(g, root, d)
    BY <1>5 DEF Correlate
  <2> HIDE DEF d, root, depth
  <2>4. CASE OpenIncident(g, root, d, fallback)
    <3>1. Opened(root, d, ChainLen(g, fallback)) \in Incident
      BY <2>2, OpenedFacts
    <3>2. /\ Keeps
          /\ DOMAIN open' = DOMAIN open \cup {root}
          /\ open'[root] = Len(incidents) + 1 /\ Len(incidents) \in Nat
          /\ \A r \in DOMAIN open : r # root => open'[r] = open[r]
      BY <1>1, <2>4, <3>1, OpenIncidentFacts
    <3>3. ASSUME i \in Range(open') PROVE i \in Range(open)
      <4>1. PICK r \in DOMAIN open' : open'[r] = i
        BY <3>3 DEF Range
      <4>2. r # root
        BY <1>1, <3>2, <4>1
      <4> QED BY <3>2, <4>1, <4>2 DEF Range
    <3> QED BY <1>4, <3>2, <3>3
  <2>5. CASE GrowIncident(g, root, d)
    <3>1. root \in DOMAIN open /\ open[root] \in DOMAIN incidents
      BY <1>1, <2>5 DEF GrowIncident, IsOpen, TypeOK
    <3> DEFINE k == open[root]
               new == Grown(incidents[k], d, depth)
    <3>2. /\ new \in Incident
          /\ new.members = Append(incidents[k].members, d)
          /\ new.score >= incidents[k].score
          /\ new.lastSeen >= incidents[k].lastSeen
          /\ new.chainLen >= incidents[k].chainLen
      <4>1. incidents[k] \in Incident
        BY <1>1, <3>1
      <4> QED BY <2>2, <4>1, GrownFacts
    <3>3. /\ \A j \in 1..Len(incidents) : j # k => incidents'[j] = incidents[j]
          /\ incidents'[k] = new
          /\ open' = open
      BY <1>1, <2>5, <3>1, <3>2, GrowIncidentFacts DEF depth
    <3>4. k \in Range(open)
      BY <3>1 DEF Range
    <3> HIDE DEF new, k
    <3>5. CASE i = k
      <4> DEFINE ms == incidents[i].members
      <4>1. IsPrefix(ms, Append(ms, d))
        <5>1. ms \in Seq(Detection) /\ d \in Detection
          BY <1>3, <2>2
        <5> HIDE DEF ms
        <5> QED BY <5>1 DEF IsPrefix
      <4> QED BY <3>2, <3>3, <3>4, <3>5, <4>1
    <3>6. CASE i # k
      BY <1>1, <1>4, <3>3, <3>6
    <3> QED BY <3>5, <3>6
  <2> QED BY <2>3, <2>4, <2>5
<1>6. CASE Sweep
  <2>1. incidents' = incidents /\ open' = [r \in DOMAIN open \ Expired |-> open[r]]
    BY <1>6 DEF Sweep
  <2>2. i \in Range(open') => i \in Range(open)
    BY <2>1 DEF Range
  <2> QED BY <1>4, <2>1, <2>2
<1>7. CASE UNCHANGED <<incidents, open>>
  BY <1>4, <1>7 DEF Range
<1>8. \/ \E g \in Guid \cup Orphan, lag \in Lag, severity \in Severity,
            fallback \in NamedImages : Correlate(g, lag, severity, fallback)
      \/ Sweep
      \/ UNCHANGED <<incidents, open>>
  BY DEF Next, ObserveEvent, ClockTick, engineVars, vars
<1> QED BY <1>5, <1>6, <1>7, <1>8

-----------------------------------------------------------------------------
(* Theorems about the engine.                                              *)

(* Under the engine the tree only does what the tree does: whatever holds of
   the tree alone holds in the composition. *)
THEOREM EngineDrivesTree == SafetySpec => TreeSpec
<1>1. Init => TreeInit
  BY DEF Init
<1>2. [Next]_vars => [TreeNext]_treeVars
  <2> SUFFICES ASSUME [Next]_vars PROVE [TreeNext]_treeVars
    OBVIOUS
  <2>1. ASSUME NEW g \in Guid, NEW parent \in Guid \cup {NoGuid}, NEW lag \in Lag,
               ObserveEvent(g, parent, lag)
        PROVE  TreeNext
    BY <2>1 DEF ObserveEvent, TreeNext
  <2>2. CASE Sweep
    BY <2>2 DEF Sweep, TreeNext
  <2>3. CASE ClockTick
    BY <2>3 DEF ClockTick, TreeNext
  <2>4. CASE UNCHANGED treeVars
    BY <2>4
  <2> QED BY <2>1, <2>2, <2>3, <2>4 DEF Next, Correlate, vars
<1> QED BY <1>1, <1>2, PTL DEF SafetySpec, TreeSpec

(* Incidents and the open table keep their types, and an open root points at
   an incident of its own. *)
THEOREM EngineTypeCorrect == SafetySpec => []TypeOK
<1>1. EngineInv => TypeOK
  BY DEF EngineInv
<1> QED BY <1>1, EngineInitInv, EngineStepInv, PTL DEF SafetySpec

(* With a punctual feed the incidents of a root are its bursts: no gap inside
   one exceeds the window and every gap between two does, whether correlate()
   or the sweep noticed the silence first. *)
THEOREM IncidentsExactlyBursts == SafetySpec => []IncidentsAreBursts
<1>1. EngineInv => IncidentsAreBursts
  BY DEF EngineInv
<1> QED BY <1>1, EngineInitInv, EngineStepInv, PTL DEF SafetySpec

(* Late or not, a detection joins an incident only through one at most a window
   older. *)
THEOREM MembersReachable == SafetySpec => []ReachableThroughWindow
<1>1. EngineInv => ReachableThroughWindow
  BY DEF EngineInv
<1> QED BY <1>1, EngineInitInv, EngineStepInv, PTL DEF SafetySpec

(* A closed incident is final; an open one keeps its detections in order and
   never loses score, activity or chain. *)
THEOREM ClosedIsFinal == SafetySpec => IncidentsOnlyGrow
<1>1. EngineInv /\ [Next]_vars =>
        [\A i \in DOMAIN incidents :
            /\ i \notin Range(open) => incidents'[i] = incidents[i] /\ i \notin Range(open')
            /\ IsPrefix(incidents[i].members, incidents'[i].members)
            /\ incidents'[i].score >= incidents[i].score
            /\ incidents'[i].lastSeen >= incidents[i].lastSeen
            /\ incidents'[i].chainLen >= incidents[i].chainLen]_vars
  BY OnlyGrowStep
<1> QED BY <1>1, EngineInitInv, EngineStepInv, PTL DEF SafetySpec, IncidentsOnlyGrow
=============================================================================
