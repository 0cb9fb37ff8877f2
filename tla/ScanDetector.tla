------------------------------ MODULE ScanDetector ------------------------------
(***************************************************************************)
(* backend/engine/scan.py: the destinations each process has touched, each *)
(* with the time it was last touched, counted for breadth on every         *)
(* connection.  The key is (host, image, guid): a Process here is one such *)
(* triple.                                                                 *)
(***************************************************************************)
EXTENDS EventClock, FiniteSets, Functions

CONSTANTS
    Process,            \* scanning processes
    Destination,        \* address and port pairs
    IpOf, PortOf,       \* their two halves
    MinDistinctIps,     \* min_distinct_ips
    MinDistinctPorts,   \* min_distinct_ports
    ScanWindow,         \* window
    ScanCooldown        \* cooldown

ASSUME ScanAssumption ==
    /\ DOMAIN IpOf = Destination /\ DOMAIN PortOf = Destination
    /\ {MinDistinctIps, MinDistinctPorts, ScanWindow, ScanCooldown} \subseteq Nat

VARIABLES
    scans,        \* _scans: process -> [seen, lastAlert], seen: destination -> last touched
    late          \* history: some connection arrived with a lag

scanVars == <<scans, late>>

Scanning == DOMAIN scans

\* Distinct addresses or distinct ports: either is enough.
IsBroad(dests) ==
    \/ Cardinality({IpOf[d] : d \in dests}) >= MinDistinctIps
    \/ Cardinality({PortOf[d] : d \in dests}) >= MinDistinctPorts

-----------------------------------------------------------------------------
ScanInit ==
    /\ scans = [p \in {} |-> Never]
    /\ late = FALSE
    /\ now = 0

\* Mutant of Unexpired: a destination on the edge of the window is dropped.
UnexpiredExclusive(seen, cutoff) == {d \in DOMAIN seen : seen[d] > cutoff}

\* _expire(): what is left of the destinations seen.
Unexpired(seen, cutoff) == {d \in DOMAIN seen : seen[d] >= cutoff}

\* observe(): expire, record, assess.
ScanObserve(p, d, ts) ==
    LET old   == IF p \in Scanning THEN scans[p].seen ELSE [e \in {} |-> Never]
        alert == IF p \in Scanning THEN scans[p].lastAlert ELSE Never
        seen  == [e \in Unexpired(old, ts - ScanWindow) \cup {d} |->
                     IF e = d THEN ts ELSE old[e]]
        fires == IsBroad(DOMAIN seen) /\ ~CoolingDown(alert, ts, ScanCooldown)
        new   == [seen |-> seen, lastAlert |-> IF fires THEN ts ELSE alert]
    IN  scans' = [q \in Scanning \cup {p} |-> IF q = p THEN new ELSE scans[q]]

\* A connection reaches the detector a lag after its timestamp.
Connect(p, d, lag) ==
    /\ ScanObserve(p, d, now - lag)
    /\ late' = (late \/ lag # 0)
    /\ UNCHANGED now

IdleScans(cutoff) == {p \in Scanning : \A d \in DOMAIN scans[p].seen : scans[p].seen[d] < cutoff}

\* prune().
PruneScans == scans' = [p \in Scanning \ IdleScans(now - ScanWindow) |-> scans[p]]

ScanNext ==
    \/ \E p \in Process, d \in Destination, lag \in Lag :
          now - lag \in Stamp /\ Connect(p, d, lag)
    \/ PruneScans /\ UNCHANGED <<now, late>>
    \/ AdvanceClock /\ UNCHANGED scanVars

ScanSpec == ScanInit /\ [][ScanNext]_<<scanVars, now>>

-----------------------------------------------------------------------------
(* Properties.                                                             *)

\* Type invariant; a tracked process has touched something.
ScanTypeOK ==
    /\ now \in Stamp
    /\ Scanning \subseteq Process
    /\ \A p \in Scanning :
          /\ DOMAIN scans[p].seen \in (SUBSET Destination) \ {{}}
          /\ Range(scans[p].seen) \subseteq Stamp
          /\ scans[p].lastAlert \in Stamp \cup {Never}
    /\ late \in BOOLEAN

\* What a process still counts, and the report that silences it.
RecentTouches ==
    [p \in Process |->
        IF p \in Scanning
        THEN Restrict(scans[p].seen, Unexpired(scans[p].seen, now - ScanWindow))
        ELSE [d \in {} |-> Never]]
LastScanReport == [p \in Process |-> IF p \in Scanning THEN scans[p].lastAlert ELSE Never]

ScanWatch == INSTANCE BurstWatch WITH
    Key <- Process, Kind <- Destination, Broad <- IsBroad,
    WatchWindow <- ScanWindow, WatchCooldown <- ScanCooldown,
    recent <- RecentTouches, silenced <- LastScanReport

\* The detector keeps the promise of BurstWatch as long as connections arrive
\* when they are made, whenever it is pruned (scan.py:155-190, 240-256).
ScanImplementsWatch ==
    ScanWatch!WatchInit /\ [][late' \/ ScanWatch!WatchNext]_(ScanWatch!watchVars)
=============================================================================
