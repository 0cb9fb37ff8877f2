---------------------------- MODULE IncidentEngine ----------------------------
(***************************************************************************)
(* The correlator of backend/engine/correlator.py on top of the process    *)
(* tree: detections are grouped into incidents by tree root inside a       *)
(* sliding window, scored, and closed by the periodic sweep.               *)
(* Two clocks meet here.  A rule detection is stamped with the wall clock  *)
(* when it is evaluated and correlated some awaits later; a statistical    *)
(* one carries its event's timestamp.  Both are the wall clock minus a     *)
(* lag: Lag = {0} is a punctual feed, a larger lag a backlog or a replay.  *)
(***************************************************************************)
EXTENDS ProcessTree, Scores, TLC

CONSTANTS
    ParentOf,      \* the process that spawned each process, NoGuid if none reports
    Orphan,        \* correlation keys "orphan:host:rule" of events without a GUID
    Lag,           \* wall clock minus event timestamp or matched_at
    Window,        \* correlation_window_minutes, in clock units
    Severity,      \* severities the detections of the model carry
    NamedImages,   \* how many of its two image names an event may carry
    MaxDetections  \* bound of the detections raised

ASSUME OrphanAssumption == Orphan \cap (Guid \cup {NoGuid}) = {}
ASSUME EngineAssumption ==
    /\ ParentOf \in [Guid -> Guid \cup {NoGuid}]
    /\ Lag \subseteq Nat
    /\ Window \in Nat /\ MaxDetections \in Nat
    /\ NamedImages \subseteq 0..2
    /\ Severity \subseteq {"info", "low", "medium", "high", "critical"}

VARIABLES
    incidents,     \* _history: every incident raised, oldest first
    open,          \* _open: root -> position of its incident in incidents
    late           \* history: some detection was correlated with a lag

engineVars == <<incidents, open, late>>
vars == <<treeVars, engineVars>>

Detection == [at : Stamp, severity : Severity]

-----------------------------------------------------------------------------
Raised == FoldLeft(LAMBDA n, i : n + Len(i.members), 0, incidents)

IsOpen(root) == root \in DOMAIN open

\* Mutant of WentQuiet: the window is never consulted when a detection arrives.
WentQuietNever(root, at) == FALSE

\* Mutant of WentQuiet: the window runs from the opening of the incident.
WentQuietSinceOpened(root, at) == at - incidents[open[root]].firstSeen > Window

\* The open incident of a root has been idle for longer than the window.
WentQuiet(root, at) == at - incidents[open[root]].lastSeen > Window

\* Length of the chain an incident shows: the ancestry, or for a process the
\* tree does not know the images the event names (_fallback_chain: 0, 1 or 2).
ChainLen(g, fallback) ==
    LET chain == Ancestry(nodes, g) IN IF chain = <<>> THEN fallback ELSE Len(chain)

\* Incident.add() on a new incident.
Opened(root, d, chainLen) ==
    [root |-> root, firstSeen |-> d.at, lastSeen |-> d.at, chainLen |-> chainLen,
     score |-> SeverityScore[d.severity], members |-> <<d>>]

\* Incident.add() on a growing one.  Its chain is replaced only by a longer
\* ancestry.
Grown(incident, d, depth) ==
    [incident EXCEPT
        !.members = Append(@, d),
        !.score = @ + SeverityScore[d.severity],
        !.lastSeen = LaterOf(@, d.at),
        !.chainLen = LaterOf(@, depth)]

\* Mutant of OpenIncident: the new incident takes over the old one's record.
OpenIncidentReuses(g, root, d, fallback) ==
    /\ IsOpen(root) => WentQuiet(root, d.at)
    /\ IF IsOpen(root)
       THEN /\ incidents' = [incidents EXCEPT ![open[root]] =
                                Opened(root, d, ChainLen(g, fallback))]
            /\ UNCHANGED open
       ELSE /\ incidents' = Append(incidents, Opened(root, d, ChainLen(g, fallback)))
            /\ open' = (root :> Len(incidents')) @@ open

\* Mutant of OpenIncident: keyed by the process instead of its root.
OpenIncidentByProcess(g, root, d, fallback) ==
    /\ IsOpen(root) => WentQuiet(root, d.at)
    /\ incidents' = Append(incidents, Opened(root, d, ChainLen(g, fallback)))
    /\ open' = (g :> Len(incidents')) @@ open

\* correlate() where the root has no open incident, or one that went quiet
\* and is closed by this very detection.
OpenIncident(g, root, d, fallback) ==
    /\ IsOpen(root) => WentQuiet(root, d.at)
    /\ incidents' = Append(incidents, Opened(root, d, ChainLen(g, fallback)))
    /\ open' = [r \in DOMAIN open \cup {root} |->
                   IF r = root THEN Len(incidents') ELSE open[r]]

\* correlate() into the open incident of the root.
GrowIncident(g, root, d) ==
    /\ IsOpen(root) /\ ~WentQuiet(root, d.at)
    /\ incidents' = [incidents EXCEPT
                        ![open[root]] = Grown(@, d, Len(Ancestry(nodes, g)))]
    /\ UNCHANGED open

\* The last clock value at which the model raises a detection: what is left of
\* the clock lets every window elapse.
LastDetection == MaxTime - Window - 1

\* correlate(): one detection on process g (or on an orphan key).
Correlate(g, lag, severity, fallback) ==
    LET d == [at |-> now - lag, severity |-> severity]
    IN  /\ Raised < MaxDetections
        /\ now <= LastDetection /\ d.at \in Stamp
        /\ \/ OpenIncident(g, Root(nodes, g), d, fallback)
           \/ GrowIncident(g, Root(nodes, g), d)
        /\ late' = (late \/ lag # 0)
        /\ UNCHANGED treeVars

\* Mutant of Expired: only roots still in the tree are swept.
ExpiredKnown ==
    {r \in DOMAIN open : r \in Known /\ now - incidents[open[r]].lastSeen > Window}

\* IncidentEngine.sweep(): the open incidents whose window has elapsed.
Expired == {r \in DOMAIN open : now - incidents[open[r]].lastSeen > Window}

\* Pipeline.sweep() as far as this engine goes: close, then prune the tree.
Sweep ==
    /\ open' = [r \in DOMAIN open \ Expired |-> open[r]]
    /\ Prune
    /\ UNCHANGED <<now, incidents, late>>

\* An event reaching the tree, stamped by its collector.  Only some event
\* types name the parent.
ObserveEvent(g, parent, lag) ==
    /\ parent \in {ParentOf[g], NoGuid}
    /\ now - lag \in Stamp
    /\ Observe(g, parent, now - lag)
    /\ UNCHANGED <<now, engineVars>>

ClockTick == Tick /\ UNCHANGED engineVars

Init == TreeInit /\ incidents = <<>> /\ open = [r \in {} |-> 0] /\ late = FALSE

Next ==
    \/ \E g \in Guid, parent \in Guid \cup {NoGuid}, lag \in Lag :
          ObserveEvent(g, parent, lag)
    \/ \E g \in Guid \cup Orphan, lag \in Lag, severity \in Severity, fallback \in NamedImages :
          Correlate(g, lag, severity, fallback)
    \/ Sweep
    \/ ClockTick

\* The background loop sweeps for the life of the app and survives a failed
\* sweep (main.py:63-78); time passes.
Fairness == WF_vars(Sweep) /\ WF_vars(ClockTick)

SafetySpec == Init /\ [][Next]_vars
Spec == SafetySpec /\ Fairness

-----------------------------------------------------------------------------
(* Properties.                                                             *)

Incident ==
    [root : Guid \cup Orphan, firstSeen : Stamp, lastSeen : Stamp, chainLen : Nat,
     score : Nat, members : Seq(Detection)]

\* Type invariant; an open root points at an incident of that root, and no
\* two roots share one.
TypeOK ==
    /\ TreeTypeOK
    /\ incidents \in Seq(Incident)
    /\ DOMAIN open \subseteq Guid \cup Orphan
    /\ \A r \in DOMAIN open :
          open[r] \in DOMAIN incidents /\ incidents[open[r]].root = r
    /\ late \in BOOLEAN

SameRootInOrder(i, j) == i < j /\ incidents[i].root = incidents[j].root

\* With a punctual feed the incidents of a root are exactly the maximal runs
\* of its detections with no gap longer than the window: inside one incident
\* no gap exceeds it, and between two incidents of a root it has elapsed
\* (correlator.py:222-227), whether correlate() or the sweep noticed first.
IncidentsAreBursts ==
    ~late =>
        /\ \A i \in DOMAIN incidents : \A k \in 2..Len(incidents[i].members) :
              incidents[i].members[k].at - incidents[i].members[k - 1].at \in 0..Window
        /\ \A i, j \in DOMAIN incidents : SameRootInOrder(i, j) =>
              incidents[j].members[1].at - Last(incidents[i].members).at > Window

\* Whatever the lags, a detection joins an incident only if some detection
\* already in it is at most one window older.
ReachableThroughWindow ==
    \A i \in DOMAIN incidents : \A k \in 2..Len(incidents[i].members) :
        \E m \in 1..(k - 1) :
            incidents[i].members[k].at <= incidents[i].members[m].at + Window

\* A closed incident is final and never reopens; an open one only gains: its
\* detections are kept in order and its score, last activity and chain never
\* go back.
IncidentsOnlyGrow ==
    [][\A i \in DOMAIN incidents :
          /\ i \notin Range(open) => incidents'[i] = incidents[i] /\ i \notin Range(open')
          /\ IsPrefix(incidents[i].members, incidents'[i].members)
          /\ incidents'[i].score >= incidents[i].score
          /\ incidents'[i].lastSeen >= incidents[i].lastSeen
          /\ incidents'[i].chainLen >= incidents[i].chainLen]_vars

\* An incident nobody adds to is eventually closed, even when its root has
\* left the tree or never was in it (correlator.py:222-225).
EventuallyClosed ==
    \A i \in 1..MaxDetections : (i \in Range(open)) ~> (i \notin Range(open))
=============================================================================
