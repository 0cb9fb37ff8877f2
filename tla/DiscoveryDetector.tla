--------------------------- MODULE DiscoveryDetector ---------------------------
(***************************************************************************)
(* backend/engine/discovery.py: the reconnaissance commands run under one  *)
(* process-tree root, one entry per ATT&CK technique, reported when enough *)
(* distinct techniques fall into a window.                                 *)
(*                                                                         *)
(* A Command is the set of signatures its command line matches.  A Root is *)
(* (host, root guid) as ProcessTree gives it when the event arrives.  The  *)
(* example command and the first time of a technique, which only feed the  *)
(* evidence of a detection, and its severity, are left out.                *)
(***************************************************************************)
EXTENDS EventClock, FiniteSetsExt, Functions

CONSTANTS
    Root,                \* roots of process trees
    Command,             \* command lines
    MinDistinct,         \* min_distinct
    DiscoveryWindow,     \* window
    DiscoveryCooldown    \* cooldown

\* The techniques of DISCOVERY_SIGNATURES, in the order of the table.
DISCOVERY_SIGNATURES ==
    <<"T1069", "T1069", "T1033", "T1087", "T1087", "T1016", "T1016", "T1082",
      "T1082", "T1018", "T1057", "T1049">>

ASSUME DiscoveryAssumption ==
    /\ Command \subseteq SUBSET DOMAIN DISCOVERY_SIGNATURES
    /\ {MinDistinct, DiscoveryWindow, DiscoveryCooldown} \subseteq Nat

VARIABLES
    bursts,          \* _bursts: root -> [last, lastAlert], last: technique -> last seen
    delayed          \* history: some event arrived with a lag

discoveryVars == <<bursts, delayed>>

Tracking == DOMAIN bursts

Technique == {DISCOVERY_SIGNATURES[i] : i \in DOMAIN DISCOVERY_SIGNATURES}

IsRecon(command) == command # {}

\* classify(): the first signature that matches wins.
Classify(command) == DISCOVERY_SIGNATURES[Min(command)]

IsBurst(techniques) == Cardinality(techniques) >= MinDistinct

DiscoveryInit ==
    /\ bursts = [r \in {} |-> Never]
    /\ delayed = FALSE
    /\ now = 0

\* _expire(): the recon of a burst last seen within the window.
KeptRecon(last, cutoff) == Restrict(last, {t \in DOMAIN last : last[t] >= cutoff})

\* observe(): classify, expire, record, assess.
Recon(root, technique, ts) ==
    LET old   == IF root \in Tracking THEN bursts[root].last ELSE [t \in {} |-> Never]
        alert == IF root \in Tracking THEN bursts[root].lastAlert ELSE Never
        kept  == KeptRecon(old, ts - DiscoveryWindow)
        last  == [t \in DOMAIN kept \cup {technique} |-> IF t = technique THEN ts ELSE kept[t]]
        fires == IsBurst(DOMAIN last) /\ ~CoolingDown(alert, ts, DiscoveryCooldown)
        burst == [last |-> last, lastAlert |-> IF fires THEN ts ELSE alert]
    IN  bursts' = [r \in Tracking \cup {root} |-> IF r = root THEN burst ELSE bursts[r]]

ProcessCreate(root, command, lag) ==
    /\ IF IsRecon(command)
       THEN Recon(root, Classify(command), now - lag)
       ELSE UNCHANGED bursts
    /\ delayed' = (delayed \/ lag # 0)
    /\ UNCHANGED now

\* Mutant of StaleBursts: one stale technique is enough.
StaleBurstsByAny(cutoff) ==
    {r \in Tracking : \E t \in DOMAIN bursts[r].last : bursts[r].last[t] < cutoff}

StaleBursts(cutoff) ==
    {r \in Tracking : \A t \in DOMAIN bursts[r].last : bursts[r].last[t] < cutoff}

\* prune().
PruneBursts ==
    /\ bursts' = Restrict(bursts, Tracking \ StaleBursts(now - DiscoveryWindow))
    /\ UNCHANGED <<delayed, now>>

DiscoveryNext ==
    \/ \E root \in Root, command \in Command, lag \in Lag :
          now - lag \in Stamp /\ ProcessCreate(root, command, lag)
    \/ PruneBursts
    \/ AdvanceClock /\ UNCHANGED discoveryVars

DiscoverySpec == DiscoveryInit /\ [][DiscoveryNext]_<<discoveryVars, now>>

-----------------------------------------------------------------------------
(* Properties.                                                             *)

\* Type invariant; a tracked burst has some recon.
DiscoveryTypeOK ==
    /\ now \in Stamp
    /\ Tracking \subseteq Root
    /\ \A r \in Tracking :
          /\ DOMAIN bursts[r].last \in (SUBSET Technique) \ {{}}
          /\ Range(bursts[r].last) \subseteq Stamp
          /\ bursts[r].lastAlert \in Stamp \cup {Never}
    /\ delayed \in BOOLEAN

\* What a burst still counts, and the report that silences it.
RecentRecon ==
    [r \in Root |-> IF r \in Tracking THEN KeptRecon(bursts[r].last, now - DiscoveryWindow)
                                      ELSE [t \in {} |-> Never]]
LastReport == [r \in Root |-> IF r \in Tracking THEN bursts[r].lastAlert ELSE Never]

DiscoveryWatch == INSTANCE BurstWatch WITH
    Key <- Root, Kind <- Technique, Broad <- IsBurst,
    WatchWindow <- DiscoveryWindow, WatchCooldown <- DiscoveryCooldown,
    recent <- RecentRecon, silenced <- LastReport

\* The detector keeps the promise of BurstWatch as long as events arrive when
\* they happen: expiry inside observe() and the sweep's prune(), which drops a
\* burst with its last_alert, are invisible (discovery.py:189-209, 257-272).
DiscoveryImplementsWatch ==
    DiscoveryWatch!WatchInit
        /\ [][delayed' \/ DiscoveryWatch!WatchNext]_(DiscoveryWatch!watchVars)
=============================================================================
