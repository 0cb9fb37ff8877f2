----------------------------- MODULE BeaconDetector -----------------------------
(***************************************************************************)
(* backend/engine/beacon.py: one bounded queue of connection timestamps    *)
(* per (host, image, destination), assessed for a machine's rhythm on      *)
(* every connection, silenced for a cooldown after an alert and dropped    *)
(* when idle.  An image on the exclusion list never reaches this state.    *)
(* Halves are avoided by working with twice the median.                    *)
(***************************************************************************)
EXTENDS EventClock, Sequences, FiniteSets

CONSTANTS
    Channel,             \* keys: host, image, destination address and port
    MinConnections,      \* min_connections
    MinPeriods,          \* min_periods
    MaxIntervalRatio,    \* max_interval_ratio
    RegularityPercent,   \* regularity_threshold, in percent
    MinInterval,         \* min_interval_seconds
    MaxInterval,         \* max_interval_seconds
    Capacity,            \* timestamps a channel keeps
    BeaconWindow,        \* window
    BeaconCooldown       \* cooldown

\* Fewer than two connections have no interval to take a median of.
ASSUME BeaconAssumption ==
    /\ MinConnections \in Nat \ {0, 1} /\ Capacity \in Nat \ {0}
    /\ RegularityPercent \in 1..100
    /\ {MinPeriods, MaxIntervalRatio, MinInterval, MaxInterval} \subseteq Nat
    /\ BeaconWindow \in Nat /\ BeaconCooldown \in Nat

VARIABLES
    channels,    \* _channels: key -> [stamps, lastAlert]
    reported     \* history: when each channel was last reported, whatever was pruned

beaconVars == <<channels, reported>>

Tracked == DOMAIN channels

-----------------------------------------------------------------------------
(* The rhythm of a sequence of connections.                                *)

Intervals(stamps) == [i \in 1..(Len(stamps) - 1) |-> stamps[i + 1] - stamps[i]]

\* The k-th smallest element of a sequence.
KthSmallest(s, k) ==
    CHOOSE v \in {s[i] : i \in DOMAIN s} :
        /\ Cardinality({i \in DOMAIN s : s[i] < v}) < k
        /\ Cardinality({i \in DOMAIN s : s[i] <= v}) >= k

\* Twice statistics.median().
TwiceMedian(s) ==
    KthSmallest(s, (Len(s) + 1) \div 2) + KthSmallest(s, (Len(s) + 2) \div 2)

Distance(a, b) == IF a > b THEN a - b ELSE b - a

\* regularity() >= regularity_threshold.
IsRegular(intervals) ==
    LET median2 == TwiceMedian(intervals)
        mad4    == TwiceMedian([i \in DOMAIN intervals |->
                                   Distance(2 * intervals[i], median2)])
    IN  /\ Len(intervals) >= 2
        /\ median2 > 0
        /\ 100 * mad4 <= (100 - RegularityPercent) * 2 * median2

\* Mutant of IsBeacon: the span has to exceed the required number of periods.
IsBeaconStrict(stamps) ==
    LET intervals == Intervals(stamps)
        median2   == TwiceMedian(intervals)
    IN  /\ Len(stamps) >= MinConnections
        /\ median2 \in (2 * MinInterval)..(2 * MaxInterval)
        /\ 2 * (stamps[Len(stamps)] - stamps[1]) > median2 * MinPeriods
        /\ \A i \in DOMAIN intervals : 2 * intervals[i] <= median2 * MaxIntervalRatio
        /\ IsRegular(intervals)

\* _assess() apart from the cooldown.
IsBeacon(stamps) ==
    LET intervals == Intervals(stamps)
        median2   == TwiceMedian(intervals)
    IN  /\ Len(stamps) >= MinConnections
        /\ median2 \in (2 * MinInterval)..(2 * MaxInterval)
        /\ 2 * (stamps[Len(stamps)] - stamps[1]) >= median2 * MinPeriods
        /\ \A i \in DOMAIN intervals : 2 * intervals[i] <= median2 * MaxIntervalRatio
        /\ IsRegular(intervals)

-----------------------------------------------------------------------------
BeaconInit ==
    /\ channels = [c \in {} |-> Never]
    /\ reported = [c \in Channel |-> Never]
    /\ now = 0

Latest(channel) == channel.stamps[Len(channel.stamps)]

\* deque(maxlen=capacity).append().
Pushed(stamps, ts) ==
    Append(IF Len(stamps) >= Capacity THEN Tail(stamps) ELSE stamps, ts)

\* A connection older than the channel's newest one is dropped.
OutOfOrder(c, ts) == c \in Tracked /\ ts < Latest(channels[c])

\* observe(): a connection that is kept, and _assess() on it.
RecordConnection(c, ts) ==
    LET old    == IF c \in Tracked THEN channels[c] ELSE [stamps |-> <<>>, lastAlert |-> Never]
        stamps == Pushed(old.stamps, ts)
        fires  == IsBeacon(stamps) /\ ~CoolingDown(old.lastAlert, ts, BeaconCooldown)
        new    == [stamps |-> stamps, lastAlert |-> IF fires THEN ts ELSE old.lastAlert]
    IN  /\ channels' = [k \in Tracked \cup {c} |-> IF k = c THEN new ELSE channels[k]]
        /\ reported' = IF fires THEN [reported EXCEPT ![c] = ts] ELSE reported

BeaconObserve(c, ts) ==
    \/ OutOfOrder(c, ts) /\ UNCHANGED beaconVars
    \/ ~OutOfOrder(c, ts) /\ RecordConnection(c, ts)

\* Mutant of IdleChannels: a channel's age is that of its oldest connection.
IdleChannelsByFirst(cutoff) == {c \in Tracked : channels[c].stamps[1] < cutoff}

IdleChannels(cutoff) == {c \in Tracked : Latest(channels[c]) < cutoff}

\* prune().
PruneChannels ==
    /\ channels' = [c \in Tracked \ IdleChannels(now - BeaconWindow) |-> channels[c]]
    /\ UNCHANGED reported

\* The detector on its own: connections at any lag, sweeps, time.
BeaconNext ==
    \/ \E c \in Channel, lag \in Lag :
          now - lag \in Stamp /\ BeaconObserve(c, now - lag) /\ UNCHANGED now
    \/ PruneChannels /\ UNCHANGED now
    \/ AdvanceClock /\ UNCHANGED beaconVars

BeaconSpec == BeaconInit /\ [][BeaconNext]_<<beaconVars, now>>

-----------------------------------------------------------------------------
(* Properties.                                                             *)

\* Type invariant; the queue of a channel is never empty, never over capacity
\* and in time order.
BeaconTypeOK ==
    /\ now \in Stamp
    /\ Tracked \subseteq Channel
    /\ \A c \in Tracked :
          /\ channels[c] \in [stamps : Seq(Stamp), lastAlert : Stamp \cup {Never}]
          /\ Len(channels[c].stamps) \in 1..Capacity
          /\ \A i, j \in DOMAIN channels[c].stamps :
                i <= j => channels[c].stamps[i] <= channels[c].stamps[j]
    /\ reported \in [Channel -> Stamp \cup {Never}]

\* No lag eats up the room the window leaves beyond the cooldown.
PruneOutlastsCooldown == \A lag \in Lag : lag + BeaconCooldown <= BeaconWindow

\* A channel already reported is not reported again within its cooldown
\* (beacon.py:198-199), although pruning an idle channel forgets when it was:
\* by then the cooldown has run out for every event still to come.
BeaconAlertsSpaced ==
    [][\A c \in Channel :
          PruneOutlastsCooldown /\ reported'[c] # reported[c] /\ reported[c] # Never =>
              reported'[c] - reported[c] >= BeaconCooldown]_<<beaconVars, now>>

\* A metronome is never missed: a channel whose kept connections are evenly
\* spaced, at an interval in range, with enough of them and over enough of
\* their own periods, has been reported within the last cooldown
\* (beacon.py:64, 129-132).
MetronomeIsReported ==
    \A c \in Tracked :
        LET intervals == Intervals(channels[c].stamps)
            n         == Len(channels[c].stamps)
        IN  /\ n >= MinConnections /\ n - 1 >= MinPeriods /\ n >= 3
            /\ \A i \in 1..(n - 1) : intervals[i] = intervals[1]
            /\ intervals[1] \in MinInterval..MaxInterval /\ intervals[1] > 0
            /\ MaxIntervalRatio >= 1
            => CoolingDown(channels[c].lastAlert, Latest(channels[c]), BeaconCooldown)
               \/ channels[c].lastAlert = Latest(channels[c])
=============================================================================
