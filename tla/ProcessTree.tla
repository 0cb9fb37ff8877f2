------------------------------ MODULE ProcessTree ------------------------------
(***************************************************************************)
(* The in-memory process tree of backend/engine/correlator.py: the node    *)
(* table, the child index kept beside it, and the pruning of idle nodes.   *)
(* The code keys both maps by (host, guid) and resolves a parent within    *)
(* its host, so hosts never meet: a Guid here is one process of one host.  *)
(* Image and command line do not decide anything in this class.            *)
(***************************************************************************)
EXTENDS Integers, FiniteSets, Sequences, SequencesExt

CONSTANTS
    Guid,        \* process GUIDs of one host
    NoGuid,      \* an event without ParentProcessGuid
    TTL,         \* process_ttl_minutes, in clock units
    MaxDepth,    \* MAX_ANCESTRY_DEPTH
    MaxTime      \* bound of the wall clock and of event timestamps

ASSUME GuidAssumption == NoGuid \notin Guid /\ IsFiniteSet(Guid)
ASSUME TimeAssumption == TTL \in Nat /\ MaxTime \in Nat /\ MaxDepth \in Nat \ {0}

VARIABLES
    nodes,       \* _nodes: known guid -> [parent, lastSeen]
    children,    \* _children: how often guid c is listed under parent p
    detached,    \* history: live nodes whose parent's bucket was dropped under them
    now          \* wall clock

treeVars == <<nodes, children, detached, now>>

Stamp == 0..MaxTime
ProcessNode == [parent : Guid \cup {NoGuid}, lastSeen : Stamp]
Known == DOMAIN nodes

-----------------------------------------------------------------------------
(* Queries: pure functions of a node table and a child index.              *)

\* The walk of ancestry(), from a process up, at most MaxDepth nodes long;
\* a repeated or unknown guid ends it.
Climb(tbl, g) ==
    LET walk[n \in 0..MaxDepth] ==
          IF n = 0 THEN <<>>
          ELSE LET chain == walk[n - 1]
                   next  == IF chain = <<>> THEN g ELSE tbl[Last(chain)].parent
               IN  IF next \in DOMAIN tbl /\ ~Contains(chain, next)
                   THEN Append(chain, next)
                   ELSE chain
    IN  walk[MaxDepth]

\* ancestry(): the chain root-first.
Ancestry(tbl, g) == Reverse(Climb(tbl, g))

\* root(): the topmost known ancestor, or the process itself when unknown.
Root(tbl, g) ==
    LET chain == Ancestry(tbl, g)
    IN  IF chain = <<>> THEN g ELSE chain[1]

\* Mutant of Subtree: the children of the root, not their descendants.
SubtreeOneLevel(tbl, idx, root) ==
    ({root} \cup {c \in Guid : idx[root][c] > 0}) \cap DOMAIN tbl

\* subtree(): the known processes reached from a root through the child index.
Subtree(tbl, idx, root) ==
    LET reach[n \in 0..Cardinality(Guid)] ==
          IF n = 0 THEN {root}
          ELSE reach[n - 1] \cup {c \in Guid : \E p \in reach[n - 1] :
                                     p \in Guid /\ idx[p][c] > 0}
    IN  reach[Cardinality(Guid)] \cap DOMAIN tbl

-----------------------------------------------------------------------------
TreeInit ==
    /\ nodes = [g \in {} |-> NoGuid]
    /\ children = [p \in Guid |-> [c \in Guid |-> 0]]
    /\ detached = {}
    /\ now = 0

\* One more entry for guid c in the bucket of parent p.
Listed(idx, p, c) == [idx EXCEPT ![p][c] = @ + 1]

LaterOf(s, t) == IF s > t THEN s ELSE t

\* observe(): first event of a process.
ObserveNew(g, parent, ts) ==
    /\ g \notin Known
    /\ nodes' = [h \in Known \cup {g} |->
                    IF h = g THEN [parent |-> parent, lastSeen |-> ts] ELSE nodes[h]]
    /\ children' = IF parent = NoGuid THEN children ELSE Listed(children, parent, g)
    /\ UNCHANGED detached

\* Mutant of ObserveKnown: the backfilled child is not put into the index.
ObserveKnownUnindexed(g, parent, ts) ==
    /\ g \in Known
    /\ nodes' = [nodes EXCEPT
                    ![g].lastSeen = LaterOf(@, ts),
                    ![g].parent = IF @ = NoGuid THEN parent ELSE @]
    /\ UNCHANGED <<children, detached>>

\* Mutant of ObserveKnown: the event's parent replaces the recorded one.
ObserveKnownOverwrites(g, parent, ts) ==
    /\ g \in Known
    /\ nodes' = [nodes EXCEPT
                    ![g].lastSeen = LaterOf(@, ts),
                    ![g].parent = IF parent # NoGuid THEN parent ELSE @]
    /\ UNCHANGED <<children, detached>>

\* observe(): a later event of a known process refreshes it and supplies the
\* parent if no earlier event did.
ObserveKnown(g, parent, ts) ==
    LET backfills == nodes[g].parent = NoGuid /\ parent # NoGuid
    IN  /\ g \in Known
        /\ nodes' = [nodes EXCEPT
                        ![g].lastSeen = LaterOf(@, ts),
                        ![g].parent = IF backfills THEN parent ELSE @]
        /\ children' = IF backfills THEN Listed(children, parent, g) ELSE children
        /\ UNCHANGED detached

Observe(g, parent, ts) == ObserveNew(g, parent, ts) \/ ObserveKnown(g, parent, ts)

Stale(tbl, cutoff) == {g \in DOMAIN tbl : tbl[g].lastSeen < cutoff}

\* Mutant of Unlisted: a pruned guid stays in its parent's bucket.
UnlistedOwnBucketOnly(idx, tbl, stale) ==
    [p \in Guid |-> IF p \in stale THEN [c \in Guid |-> 0] ELSE idx[p]]

\* Mutant of Unlisted: removes an entry that need not be there.
UnlistedUnguarded(idx, tbl, stale) ==
    [p \in Guid |-> [c \in Guid |->
        IF p \in stale THEN 0
        ELSE IF c \in stale /\ tbl[c].parent = p THEN idx[p][c] - 1 ELSE idx[p][c]]]

\* The bucket updates of prune()'s loop; they commute over the stale set.
Unlisted(idx, tbl, stale) ==
    [p \in Guid |-> [c \in Guid |->
        IF p \in stale THEN 0
        ELSE IF c \in stale /\ tbl[c].parent = p /\ idx[p][c] > 0
             THEN idx[p][c] - 1
             ELSE idx[p][c]]]

\* prune(): drop every node idle for longer than the TTL, its own bucket, and
\* its entry in its parent's bucket.
Prune ==
    LET stale == Stale(nodes, now - TTL)
    IN  /\ nodes' = [g \in Known \ stale |-> nodes[g]]
        /\ children' = Unlisted(children, nodes, stale)
        /\ detached' = (detached \cup {g \in Known : nodes[g].parent \in stale}) \ stale

Tick ==
    /\ now < MaxTime
    /\ now' = now + 1
    /\ UNCHANGED <<nodes, children, detached>>

TreeNext ==
    \/ \E g \in Guid, parent \in Guid \cup {NoGuid}, ts \in Stamp :
          Observe(g, parent, ts) /\ UNCHANGED now
    \/ Prune /\ UNCHANGED now
    \/ Tick

TreeSpec == TreeInit /\ [][TreeNext]_treeVars

-----------------------------------------------------------------------------
(* Properties.                                                             *)

\* Type invariant of the two maps, the history variable and the clock.
TreeTypeOK ==
    /\ Known \subseteq Guid
    /\ nodes \in [Known -> ProcessNode]
    /\ children \in [Guid -> [Guid -> Nat]]
    /\ detached \subseteq Known
    /\ now \in Stamp

\* The child index never leaks and never lies: each entry is a live process
\* whose recorded parent is that bucket's owner, listed once. prune() promises
\* this (correlator.py:196-198, "otherwise a pruned guid lingers forever").
ChildIndexSound ==
    \A p, c \in Guid : children[p][c] > 0 =>
        /\ c \in Known
        /\ nodes[c].parent = p
        /\ children[p][c] = 1

\* The only way a live process goes missing from its parent's bucket is that
\* the parent was pruned while the child was alive; observe() and its backfill
\* never forget to index one.
IndexedUnlessDetached ==
    \A c \in Known : nodes[c].parent # NoGuid /\ c \notin detached =>
        children[nodes[c].parent][c] = 1

\* The child index and the parent links agree, both ways, but for the children
\* of a parent that was pruned first, however observe(), its backfill and
\* prune() follow one another (correlator.py:57-97, 184-209).
ChildIndexExact == ChildIndexSound /\ IndexedUnlessDetached

\* No bucket was dropped anywhere along the ancestry of g.
Attached(g) == Range(Climb(nodes, g)) \cap detached = {}

\* subtree() and ancestry() walk the same relation in opposite directions:
\* where no bucket was dropped and the depth cap did not cut the walk, r is an
\* ancestor of g exactly when the exported tree of r shows g.
SubtreeMirrorsAncestry ==
    \A g, r \in Known : Attached(g) /\ Len(Climb(nodes, g)) < MaxDepth =>
        (Contains(Climb(nodes, g), r) <=> g \in Subtree(nodes, children, r))

\* The exported tree of a process's root shows the process: subtree()'s
\* docstring (correlator.py:135-146), "Export every process descended from a
\* root ... a tree with holes ... is not a tree".
SubtreeComplete ==
    \A g \in Known : g \in Subtree(nodes, children, Root(nodes, g))

\* No step grafts a process onto an unrelated tree (what keying by GUID is
\* for, correlator.py:44-46): when the root of a live process changes, the new
\* root is an ancestor of the old chain or the old root lies on the new chain.
NeverGrafted ==
    [][\A g \in Known \cap DOMAIN nodes' :
          \/ Contains(Climb(nodes, g), Root(nodes', g))
          \/ Contains(Climb(nodes', g), Root(nodes, g))]_treeVars
=============================================================================
