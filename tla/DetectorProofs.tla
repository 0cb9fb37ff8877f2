----------------------------- MODULE DetectorProofs -----------------------------
(***************************************************************************)
(* Machine-checked proofs about the statistical detectors, for any keys,   *)
(* lags, thresholds, windows and cooldowns: when the beacon detector must  *)
(* and must not report, and that the two windowed detectors keep the       *)
(* promise of BurstWatch.                                                  *)
(***************************************************************************)
EXTENDS BeaconDetector, ScanDetector, DiscoveryDetector,
        SequenceTheorems, FiniteSetTheorems, DataInduction

-----------------------------------------------------------------------------
(* The beacon detector.  Up to what a metronome is, nothing depends on    *)
(* what a beacon is: IsBeacon stays an unknown predicate.                  *)

beaconAll == <<beaconVars, now>>

\* A queue as BeaconTypeOK describes it.
Ordered(s) == \A i, j \in DOMAIN s : i <= j => s[i] <= s[j]

(* Times are integers; Never is not a time. *)
LEMMA BeaconStamps == Stamp \subseteq Int /\ Never \in Int /\ Never \notin Stamp
BY ClockAssumption DEF Stamp, Never

(* Pushing a connection no older than the newest keeps a queue ordered and
   within its capacity, and makes it the newest. *)
LEMMA PushedFacts ==
    ASSUME NEW s \in Seq(Stamp), Ordered(s), Len(s) <= Capacity,
           NEW ts \in Stamp, Len(s) > 0 => s[Len(s)] <= ts
    PROVE  /\ Pushed(s, ts) \in Seq(Stamp)
           /\ Len(Pushed(s, ts)) \in 1..Capacity
           /\ Pushed(s, ts)[Len(Pushed(s, ts))] = ts
           /\ Ordered(Pushed(s, ts))
<1> DEFINE kept == IF Len(s) >= Capacity THEN Tail(s) ELSE s
<1>1. /\ kept \in Seq(Stamp)
      /\ Len(kept) < Capacity
      /\ Ordered(kept)
      /\ \A i \in 1..Len(kept) : kept[i] <= ts
  <2>1. /\ DOMAIN s = 1..Len(s)
        /\ Len(s) \in Nat
        /\ \A i \in 1..Len(s) : s[i] \in Int /\ s[i] <= ts
    <3>1. DOMAIN s = 1..Len(s) /\ Len(s) \in Nat
      OBVIOUS
    <3>2. \A i \in 1..Len(s) : s[i] \in Stamp
      OBVIOUS
    <3>3. ASSUME NEW i \in 1..Len(s) PROVE s[i] \in Int /\ s[i] <= ts
      <4>1. Len(s) \in DOMAIN s /\ i <= Len(s) /\ Len(s) > 0
        BY <3>1, <3>3
      <4>2. s[i] <= s[Len(s)]
        BY <3>1, <3>3, <4>1 DEF Ordered
      <4>3. s[i] \in Int /\ s[Len(s)] \in Int /\ ts \in Int
        BY <3>1, <3>2, <3>3, <4>1, BeaconStamps
      <4> QED BY <4>1, <4>2, <4>3
    <3> QED BY <3>1, <3>3
  <2>2. CASE Len(s) >= Capacity
    <3>1. s # <<>>
      BY <2>2, BeaconAssumption
    <3>2. /\ Tail(s) \in Seq(Stamp)
          /\ Len(Tail(s)) = Len(s) - 1
          /\ \A i \in 1..Len(Tail(s)) : Tail(s)[i] = s[i + 1]
      BY <3>1, HeadTailProperties
    <3>3. DOMAIN Tail(s) = 1..Len(Tail(s))
      BY <3>2
    <3>4. Ordered(Tail(s))
      BY <2>1, <3>2, <3>3 DEF Ordered
    <3>5. \A i \in 1..Len(Tail(s)) : Tail(s)[i] <= ts
      BY <2>1, <3>2
    <3>6. kept = Tail(s)
      BY <2>2
    <3>7. Len(Tail(s)) < Capacity
      BY <2>1, <3>2, BeaconAssumption
    <3> HIDE DEF kept
    <3> QED BY <3>2, <3>4, <3>5, <3>6, <3>7
  <2>3. CASE Len(s) < Capacity
    BY <2>1, <2>3, BeaconAssumption
  <2> QED BY <2>1, <2>2, <2>3, BeaconAssumption
<1>2. Pushed(s, ts) = Append(kept, ts)
  BY DEF Pushed
<1> HIDE DEF kept
<1>3. /\ Append(kept, ts) \in Seq(Stamp)
      /\ Len(Append(kept, ts)) = Len(kept) + 1
      /\ \A i \in 1..Len(kept) : Append(kept, ts)[i] = kept[i]
      /\ Append(kept, ts)[Len(kept) + 1] = ts
  BY <1>1, AppendProperties
<1>4. Len(kept) \in Nat /\ DOMAIN kept = 1..Len(kept)
  BY <1>1
<1>5. DOMAIN Append(kept, ts) = 1..(Len(kept) + 1)
  BY <1>3
<1>6. Ordered(Append(kept, ts))
  BY <1>1, <1>3, <1>4, <1>5, BeaconStamps DEF Ordered
<1> QED BY <1>1, <1>2, <1>3, <1>4, <1>6, BeaconAssumption

(* What one recorded connection does to the channel it arrives on. *)
LEMMA RecordFacts ==
    ASSUME BeaconTypeOK, NEW c \in Channel, NEW ts \in Stamp,
           ~OutOfOrder(c, ts), RecordConnection(c, ts)
    PROVE  /\ DOMAIN channels' = Tracked \cup {c}
           /\ \A k \in Tracked \ {c} : channels'[k] = channels[k]
           /\ channels'[c] \in [stamps : Seq(Stamp), lastAlert : Stamp \cup {Never}]
           /\ Len(channels'[c].stamps) \in 1..Capacity
           /\ Ordered(channels'[c].stamps)
           /\ Latest(channels'[c]) = ts
           /\ LET alert == IF c \in Tracked THEN channels[c].lastAlert ELSE Never
              IN  \/ /\ channels'[c].lastAlert = ts
                     /\ ~CoolingDown(alert, ts, BeaconCooldown)
                     /\ reported' = [reported EXCEPT ![c] = ts]
                  \/ channels'[c].lastAlert = alert /\ UNCHANGED reported
<1> DEFINE old == IF c \in Tracked THEN channels[c] ELSE [stamps |-> <<>>, lastAlert |-> Never]
           queue == Pushed(old.stamps, ts)
           fires == IsBeacon(queue) /\ ~CoolingDown(old.lastAlert, ts, BeaconCooldown)
           new == [stamps |-> queue, lastAlert |-> IF fires THEN ts ELSE old.lastAlert]
<1>1. /\ old.stamps \in Seq(Stamp) /\ old.lastAlert \in Stamp \cup {Never}
      /\ Ordered(old.stamps) /\ Len(old.stamps) <= Capacity
      /\ Len(old.stamps) > 0 => old.stamps[Len(old.stamps)] <= ts
  <2>1. CASE c \in Tracked
    <3>1. old = channels[c]
      BY <2>1
    <3>2. /\ channels[c] \in [stamps : Seq(Stamp), lastAlert : Stamp \cup {Never}]
          /\ Len(channels[c].stamps) \in 1..Capacity
          /\ Ordered(channels[c].stamps)
      BY <2>1 DEF BeaconTypeOK, Ordered
    <3>3. channels[c].stamps[Len(channels[c].stamps)] \in Stamp
      BY <3>2
    <3>4. channels[c].stamps[Len(channels[c].stamps)] <= ts
      <4>1. ~(ts < channels[c].stamps[Len(channels[c].stamps)])
        BY <2>1 DEF OutOfOrder, Latest
      <4>2. channels[c].stamps[Len(channels[c].stamps)] \in Int /\ ts \in Int
        BY <3>3, BeaconStamps
      <4> QED BY <4>1, <4>2
    <3> HIDE DEF old
    <3> QED BY <3>1, <3>2, <3>4, BeaconAssumption
  <2>2. CASE c \notin Tracked
    <3>1. old.stamps = <<>> /\ old.lastAlert = Never
      BY <2>2
    <3>2. <<>> \in Seq(Stamp) /\ Len(<<>>) = 0 /\ Ordered(<<>>)
      BY DEF Ordered
    <3> HIDE DEF old
    <3> QED BY <3>1, <3>2, BeaconAssumption
  <2> QED BY <2>1, <2>2
<1>2. /\ queue \in Seq(Stamp) /\ Len(queue) \in 1..Capacity
      /\ queue[Len(queue)] = ts /\ Ordered(queue)
  BY <1>1, PushedFacts
<1>3. /\ channels' = [k \in Tracked \cup {c} |-> IF k = c THEN new ELSE channels[k]]
      /\ reported' = IF fires THEN [reported EXCEPT ![c] = ts] ELSE reported
  BY DEF RecordConnection
<1>4. new.stamps = queue /\ new.lastAlert = IF fires THEN ts ELSE old.lastAlert
  OBVIOUS
<1>5. old.lastAlert = IF c \in Tracked THEN channels[c].lastAlert ELSE Never
  OBVIOUS
<1> HIDE DEF queue, old
<1>6. new \in [stamps : Seq(Stamp), lastAlert : Stamp \cup {Never}]
  BY <1>1, <1>2
<1>7. channels'[c] = new
  BY <1>3
<1> HIDE DEF new
<1>8. CASE fires
  BY <1>2, <1>3, <1>4, <1>5, <1>6, <1>7, <1>8 DEF Latest
<1>9. CASE ~fires
  BY <1>2, <1>3, <1>4, <1>5, <1>6, <1>7, <1>9 DEF Latest
<1> QED BY <1>8, <1>9

(* Every step keeps the types, the order and the capacity of the queues. *)
LEMMA BeaconTypeStep == BeaconTypeOK /\ [BeaconNext]_beaconAll => BeaconTypeOK'
<1> SUFFICES ASSUME BeaconTypeOK, [BeaconNext]_beaconAll PROVE BeaconTypeOK'
  OBVIOUS
<1>1. ASSUME NEW c \in Channel, NEW ts \in Stamp,
             ~OutOfOrder(c, ts), RecordConnection(c, ts), UNCHANGED now
      PROVE  BeaconTypeOK'
  BY <1>1, RecordFacts DEF BeaconTypeOK, Tracked, Ordered
<1>2. CASE PruneChannels /\ UNCHANGED now
  BY <1>2 DEF PruneChannels, BeaconTypeOK, Tracked
<1>3. CASE AdvanceClock /\ UNCHANGED beaconVars
  <2>1. now' \in Stamp
    BY <1>3, ClockAssumption DEF AdvanceClock, BeaconTypeOK, Stamp
  <2> QED BY <1>3, <2>1 DEF beaconVars, BeaconTypeOK, Tracked
<1>4. CASE UNCHANGED beaconAll
  BY <1>4 DEF beaconAll, beaconVars, BeaconTypeOK, Tracked
<1>5. CASE BeaconNext
  <2>1. ASSUME NEW c \in Channel, NEW lag \in Lag,
               now - lag \in Stamp, BeaconObserve(c, now - lag), UNCHANGED now
        PROVE  BeaconTypeOK'
    BY <1>1, <1>4, <2>1 DEF BeaconObserve, beaconAll
  <2> QED BY <1>2, <1>3, <1>5, <2>1 DEF BeaconNext
<1> QED BY <1>4, <1>5

(* The queue of every channel stays bounded, never empty and in time order,
   whatever order the connections arrive in (beacon.py:109-112, 177-180). *)
THEOREM BeaconTypeCorrect == BeaconSpec => []BeaconTypeOK
<1>1. BeaconInit => BeaconTypeOK
  BY ClockAssumption DEF BeaconInit, BeaconTypeOK, Tracked, Stamp
<1> QED BY <1>1, BeaconTypeStep, PTL DEF BeaconSpec, beaconAll

-----------------------------------------------------------------------------
(* Why forgetting last_alert with a pruned channel is harmless.            *)

\* What the detector remembers of a channel's last report, and why it may
\* forget it: a report it no longer remembers is older than the window.
Remembered(c) ==
    \/ reported[c] = Never
    \/ reported[c] + BeaconWindow < now
    \/ /\ c \in Tracked
       /\ channels[c].lastAlert = reported[c]
       /\ reported[c] <= Latest(channels[c])

\* An alert time is never remembered without having been a report.
SpacingInv ==
    /\ BeaconTypeOK
    /\ \A c \in Channel : Remembered(c)
    /\ \A c \in Tracked : channels[c].lastAlert # Never =>
          channels[c].lastAlert = reported[c] /\ reported[c] <= Latest(channels[c])

(* The newest connection of a tracked channel is a time. *)
LEMMA LatestIsStamp ==
    ASSUME BeaconTypeOK, NEW c \in Tracked
    PROVE  Latest(channels[c]) \in Stamp
<1>1. channels[c].stamps \in Seq(Stamp) /\ Len(channels[c].stamps) \in 1..Capacity
  BY DEF BeaconTypeOK
<1> QED BY <1>1 DEF Latest

(* A recorded connection keeps the invariant, and reports a channel only when
   its last report, remembered or not, is a cooldown away. *)
LEMMA RecordSpacing ==
    ASSUME SpacingInv, NEW c \in Channel, NEW lag \in Lag, now - lag \in Stamp,
           ~OutOfOrder(c, now - lag), RecordConnection(c, now - lag), UNCHANGED now
    PROVE  /\ SpacingInv'
           /\ \A k \in Channel :
                 PruneOutlastsCooldown /\ reported'[k] # reported[k] /\ reported[k] # Never =>
                     reported'[k] - reported[k] >= BeaconCooldown
<1> DEFINE ts == now - lag
           alert == IF c \in Tracked THEN channels[c].lastAlert ELSE Never
<1>1. BeaconTypeOK /\ BeaconTypeOK'
  <2>1. BeaconObserve(c, now - lag)
    BY DEF BeaconObserve
  <2>2. BeaconNext
    BY <2>1 DEF BeaconNext
  <2> QED BY <2>2, BeaconTypeStep DEF SpacingInv
<1>2. /\ DOMAIN channels' = Tracked \cup {c}
      /\ \A k \in Tracked \ {c} : channels'[k] = channels[k]
      /\ Latest(channels'[c]) = ts
      /\ \/ /\ channels'[c].lastAlert = ts
            /\ ~CoolingDown(alert, ts, BeaconCooldown)
            /\ reported' = [reported EXCEPT ![c] = ts]
         \/ channels'[c].lastAlert = alert /\ UNCHANGED reported
  BY <1>1, RecordFacts
<1>3. /\ now \in Int /\ ts \in Int /\ ts \in Stamp /\ lag \in Int
      /\ BeaconWindow \in Nat /\ BeaconCooldown \in Nat
      /\ reported \in [Channel -> Stamp \cup {Never}]
      /\ \A k \in Channel : reported[k] \in Int
      /\ Never \notin Stamp /\ Tracked \subseteq Channel
  BY <1>1, BeaconStamps, ClockAssumption, BeaconAssumption DEF BeaconTypeOK
<1>4. c \in Tracked => Latest(channels[c]) <= ts
  <2> SUFFICES ASSUME c \in Tracked PROVE Latest(channels[c]) <= ts
    OBVIOUS
  <2>1. Latest(channels[c]) \in Int
    BY <1>1, LatestIsStamp, BeaconStamps
  <2>2. ~(ts < Latest(channels[c]))
    BY DEF OutOfOrder
  <2> QED BY <1>3, <2>1, <2>2
<1>5. c \in Tracked => Latest(channels[c]) \in Int
  BY <1>1, LatestIsStamp, BeaconStamps
<1>6. ASSUME NEW k \in Channel, k # c
      PROVE  /\ reported'[k] = reported[k]
             /\ k \in DOMAIN channels' <=> k \in Tracked
             /\ k \in Tracked => channels'[k] = channels[k]
  BY <1>2, <1>3, <1>6
<1>7. alert # Never => alert = reported[c] /\ c \in Tracked /\ reported[c] <= Latest(channels[c])
  BY DEF SpacingInv
<1> HIDE DEF ts
<1>8. CASE /\ channels'[c].lastAlert = ts
           /\ ~CoolingDown(alert, ts, BeaconCooldown)
           /\ reported' = [reported EXCEPT ![c] = ts]
  <2>1. reported'[c] = ts
    BY <1>3, <1>8
  <2>2. Remembered(c)' /\ (channels'[c].lastAlert = reported'[c] /\ reported'[c] <= Latest(channels'[c]))
    BY <1>2, <1>3, <1>8, <2>1 DEF Remembered, Tracked
  <2>3. PruneOutlastsCooldown /\ reported[c] # Never => ts - reported[c] >= BeaconCooldown
    <3> SUFFICES ASSUME PruneOutlastsCooldown, reported[c] # Never
                 PROVE  ts - reported[c] >= BeaconCooldown
      OBVIOUS
    <3>1. CASE alert # Never
      <4>1. alert = reported[c] /\ ~(ts - alert < BeaconCooldown)
        BY <1>7, <1>8, <3>1 DEF CoolingDown
      <4> QED BY <1>3, <4>1
    <3>2. CASE alert = Never
      <4>1. reported[c] + BeaconWindow < now
        <5>1. Remembered(c)
          BY DEF SpacingInv
        <5> QED BY <3>2, <5>1 DEF Remembered
      <4>2. lag + BeaconCooldown <= BeaconWindow
        BY DEF PruneOutlastsCooldown
      <4>3. ts = now - lag
        BY DEF ts
      <4> QED BY <1>3, <4>1, <4>2, <4>3
    <3> QED BY <3>1, <3>2
  <2>4. \A k \in Channel : Remembered(k)'
    BY <1>6, <2>2 DEF SpacingInv, Remembered, Tracked
  <2>5. \A k \in DOMAIN channels' : channels'[k].lastAlert # Never =>
           channels'[k].lastAlert = reported'[k] /\ reported'[k] <= Latest(channels'[k])
    BY <1>2, <1>3, <1>6, <2>2 DEF SpacingInv
  <2> QED BY <1>1, <1>6, <2>1, <2>3, <2>4, <2>5 DEF SpacingInv, Tracked
<1>9. CASE channels'[c].lastAlert = alert /\ UNCHANGED reported
  <2>1. reported'[c] = reported[c]
    BY <1>9
  <2>2. channels'[c].lastAlert # Never =>
           channels'[c].lastAlert = reported'[c] /\ reported'[c] <= Latest(channels'[c])
    BY <1>2, <1>3, <1>4, <1>5, <1>7, <1>9, <2>1
  <2>3. Remembered(c)'
    BY <1>2, <1>3, <1>4, <1>5, <1>9, <2>1 DEF SpacingInv, Remembered, Tracked
  <2>4. \A k \in Channel : Remembered(k)'
    BY <1>6, <2>3 DEF SpacingInv, Remembered, Tracked
  <2>5. \A k \in DOMAIN channels' : channels'[k].lastAlert # Never =>
           channels'[k].lastAlert = reported'[k] /\ reported'[k] <= Latest(channels'[k])
    BY <1>2, <1>3, <1>6, <2>2 DEF SpacingInv
  <2> QED BY <1>1, <1>9, <2>4, <2>5 DEF SpacingInv, Tracked
<1> QED BY <1>2, <1>8, <1>9

(* Pruning forgets only reports that are older than the window. *)
LEMMA PruneSpacing ==
    ASSUME SpacingInv, PruneChannels, UNCHANGED now
    PROVE  SpacingInv'
<1>1. BeaconTypeOK /\ BeaconTypeOK'
  <2>1. BeaconNext
    BY DEF BeaconNext
  <2> QED BY <2>1, BeaconTypeStep DEF SpacingInv
<1>2. /\ DOMAIN channels' = Tracked \ IdleChannels(now - BeaconWindow)
      /\ \A k \in DOMAIN channels' : channels'[k] = channels[k]
      /\ reported' = reported
  BY DEF PruneChannels
<1>3. /\ now \in Int /\ BeaconWindow \in Nat /\ Tracked \subseteq Channel
      /\ \A k \in Channel : reported[k] \in Int
  BY <1>1, BeaconStamps, BeaconAssumption DEF BeaconTypeOK
<1>4. ASSUME NEW c \in Channel PROVE Remembered(c)'
  <2>1. Remembered(c)
    BY DEF SpacingInv
  <2>2. CASE c \in IdleChannels(now - BeaconWindow)
    <3>1. c \in Tracked /\ Latest(channels[c]) < now - BeaconWindow
      BY <2>2 DEF IdleChannels
    <3>2. Latest(channels[c]) \in Int
      BY <1>1, <3>1, LatestIsStamp, BeaconStamps
    <3>3. reported[c] = Never \/ reported[c] + BeaconWindow < now
      BY <1>3, <2>1, <3>1, <3>2 DEF Remembered
    <3> QED BY <1>2, <3>3 DEF Remembered
  <2>3. CASE c \notin IdleChannels(now - BeaconWindow)
    BY <1>2, <2>1, <2>3 DEF Remembered, Tracked
  <2> QED BY <2>2, <2>3
<1>5. \A c \in DOMAIN channels' : channels'[c].lastAlert # Never =>
         channels'[c].lastAlert = reported'[c] /\ reported'[c] <= Latest(channels'[c])
  BY <1>2 DEF SpacingInv, Tracked
<1> QED BY <1>1, <1>4, <1>5 DEF SpacingInv, Tracked

LEMMA SpacingStep ==
    SpacingInv /\ [BeaconNext]_beaconAll =>
        /\ SpacingInv'
        /\ [\A c \in Channel :
              PruneOutlastsCooldown /\ reported'[c] # reported[c] /\ reported[c] # Never =>
                  reported'[c] - reported[c] >= BeaconCooldown]_beaconAll
<1> DEFINE Spaced == \A c \in Channel :
              PruneOutlastsCooldown /\ reported'[c] # reported[c] /\ reported[c] # Never =>
                  reported'[c] - reported[c] >= BeaconCooldown
<1> SUFFICES ASSUME SpacingInv, [BeaconNext]_beaconAll PROVE SpacingInv' /\ Spaced
  OBVIOUS
<1>1. ASSUME NEW c \in Channel, NEW lag \in Lag,
             now - lag \in Stamp, BeaconObserve(c, now - lag), UNCHANGED now
      PROVE  SpacingInv' /\ Spaced
  <2>1. CASE OutOfOrder(c, now - lag) /\ UNCHANGED beaconVars
    BY <1>1, <2>1 DEF beaconVars, SpacingInv, BeaconTypeOK, Remembered, Tracked
  <2>2. CASE ~OutOfOrder(c, now - lag) /\ RecordConnection(c, now - lag)
    BY <1>1, <2>2, RecordSpacing
  <2> QED BY <1>1, <2>1, <2>2 DEF BeaconObserve
<1>2. CASE PruneChannels /\ UNCHANGED now
  <2>1. reported' = reported
    BY <1>2 DEF PruneChannels
  <2> QED BY <1>2, <2>1, PruneSpacing
<1>3. CASE AdvanceClock /\ UNCHANGED beaconVars
  <2>1. BeaconTypeOK'
    BY <1>3, BeaconTypeStep DEF BeaconNext, SpacingInv
  <2>2. /\ now \in Int /\ now' = now + 1 /\ BeaconWindow \in Nat
        /\ \A c \in Channel : reported[c] \in Int
    BY <1>3, BeaconStamps, BeaconAssumption DEF AdvanceClock, SpacingInv, BeaconTypeOK
  <2>3. channels' = channels /\ reported' = reported
    BY <1>3 DEF beaconVars
  <2>4. \A c \in Channel : Remembered(c)'
    BY <2>2, <2>3 DEF SpacingInv, Remembered, Tracked
  <2> QED BY <2>1, <2>3, <2>4 DEF SpacingInv, Tracked
<1>4. CASE UNCHANGED beaconAll
  BY <1>4 DEF beaconAll, beaconVars, SpacingInv, BeaconTypeOK, Remembered, Tracked
<1> QED BY <1>1, <1>2, <1>3, <1>4 DEF BeaconNext

(* Two reports on one channel are at least a cooldown apart in event time,
   although prune() forgets last_alert, whenever no event lags by more than
   the window exceeds the cooldown (90 minutes with the default settings). *)
THEOREM BeaconNeverRepeatsEarly == BeaconSpec => BeaconAlertsSpaced
<1>1. BeaconInit => SpacingInv
  <2>1. BeaconInit => BeaconTypeOK
    BY ClockAssumption DEF BeaconInit, BeaconTypeOK, Tracked, Stamp
  <2> QED BY <2>1 DEF BeaconInit, SpacingInv, Remembered, Tracked
<1> QED BY <1>1, SpacingStep, PTL DEF BeaconSpec, beaconAll, BeaconAlertsSpaced

-----------------------------------------------------------------------------
(* What a metronome is to the assessment.                                  *)

\* A sequence that holds one value only.
Steady(s, v) == \A i \in DOMAIN s : s[i] = v

(* Every order statistic of a steady sequence is its value. *)
LEMMA SteadyKth ==
    ASSUME NEW s \in Seq(Int), NEW v \in Int, Steady(s, v), NEW k \in 1..Len(s)
    PROVE  KthSmallest(s, k) = v
<1> DEFINE m == Len(s)
           Below(w) == {i \in DOMAIN s : s[i] < w}
           UpTo(w) == {i \in DOMAIN s : s[i] <= w}
           Is(w) == Cardinality(Below(w)) < k /\ Cardinality(UpTo(w)) >= k
<1>1. m \in Nat /\ DOMAIN s = 1..m /\ k \in 1..m
  OBVIOUS
<1>2. {s[i] : i \in DOMAIN s} = {v}
  BY <1>1 DEF Steady
<1>3. Below(v) = {} /\ UpTo(v) = 1..m
  BY <1>1 DEF Steady
<1> HIDE DEF m
<1>4. Cardinality({}) = 0 /\ Cardinality(1..m) = m
  <2>1. Cardinality(1..m) = IF 1 > m THEN 0 ELSE m - 1 + 1
    BY <1>1, FS_Interval
  <2> QED BY <1>1, <2>1, FS_EmptySet
<1>5. Is(v)
  <2> HIDE DEF Below, UpTo
  <2> QED BY <1>1, <1>3, <1>4
<1> HIDE DEF Is
<1>6. \A w \in {v} : Is(w) => w = v
  OBVIOUS
<1>7. KthSmallest(s, k) = CHOOSE w \in {s[i] : i \in DOMAIN s} : Is(w)
  BY Zenon DEF KthSmallest, Is, Below, UpTo
<1>8. KthSmallest(s, k) = CHOOSE w \in {v} : Is(w)
  BY <1>2, <1>7
<1> QED BY <1>5, <1>8

LEMMA SteadyMedian ==
    ASSUME NEW s \in Seq(Int), NEW v \in Int, Steady(s, v), Len(s) >= 1
    PROVE  TwiceMedian(s) = 2 * v
<1>1. Len(s) \in Nat
  OBVIOUS
<1>2. (Len(s) + 1) \div 2 \in 1..Len(s) /\ (Len(s) + 2) \div 2 \in 1..Len(s)
  BY <1>1
<1> QED BY <1>2, SteadyKth DEF TwiceMedian

(* Two products that keep their order. *)
LEMMA TimesMonotone ==
    ASSUME NEW a \in Nat, NEW b \in Nat, NEW v \in Nat, b <= a
    PROVE  b * v <= a * v /\ b * v \in Nat /\ a * v \in Nat
<1>1. (a - b) * v >= 0 /\ a * v = b * v + (a - b) * v
  OBVIOUS
<1> QED BY <1>1

\* The kept connections of a metronome, as the property describes them.
Metronome(stamps) ==
    LET intervals == Intervals(stamps)
        n         == Len(stamps)
    IN  /\ n >= MinConnections /\ n - 1 >= MinPeriods /\ n >= 3
        /\ \A i \in 1..(n - 1) : intervals[i] = intervals[1]
        /\ intervals[1] \in MinInterval..MaxInterval /\ intervals[1] > 0
        /\ MaxIntervalRatio >= 1

(* A metronome passes every test of _assess(): its median is its interval and
   its deviation is nil. *)
LEMMA MetronomeIsBeacon ==
    ASSUME NEW stamps \in Seq(Stamp), Metronome(stamps)
    PROVE  IsBeacon(stamps)
<1> DEFINE n == Len(stamps)
           intervals == Intervals(stamps)
           v == intervals[1]
<1>1. /\ n \in Nat /\ n >= MinConnections /\ n - 1 >= MinPeriods /\ n >= 3
      /\ \A i \in 1..(n - 1) : intervals[i] = v
      /\ v \in MinInterval..MaxInterval /\ v > 0
      /\ MaxIntervalRatio >= 1
  BY DEF Metronome
<1>2. \A i \in 1..n : stamps[i] \in Int
  <2>1. \A i \in 1..n : stamps[i] \in Stamp
    OBVIOUS
  <2> QED BY <2>1, BeaconStamps
<1>3. intervals = [i \in 1..(n - 1) |-> stamps[i + 1] - stamps[i]]
  BY DEF Intervals
<1>4. /\ v \in Nat /\ v > 0
      /\ MinInterval \in Nat /\ MaxInterval \in Nat
      /\ MinPeriods \in Nat /\ MaxIntervalRatio \in Nat
      /\ RegularityPercent \in 1..100
  BY <1>1, BeaconAssumption
<1> HIDE DEF n, v, intervals
<1>5. \A i \in 1..(n - 1) : stamps[i + 1] = stamps[i] + v
  BY <1>1, <1>2, <1>3, <1>4
<1>6. intervals \in Seq(Int) /\ Len(intervals) = n - 1 /\ DOMAIN intervals = 1..(n - 1)
  BY <1>1, <1>2, <1>3
<1>7. Steady(intervals, v)
  BY <1>1, <1>6 DEF Steady
<1>8. TwiceMedian(intervals) = 2 * v
  BY <1>1, <1>4, <1>6, <1>7, SteadyMedian
<1>9. stamps[n] - stamps[1] = (n - 1) * v
  <2> DEFINE Good == {k \in Nat : k + 1 <= n => stamps[k + 1] = stamps[1] + k * v}
  <2>1. 0 \in Good
    BY <1>1, <1>2, <1>4
  <2>2. ASSUME NEW k \in Nat, k \in Good PROVE k + 1 \in Good
    <3> SUFFICES ASSUME k + 2 <= n PROVE stamps[k + 2] = stamps[1] + (k + 1) * v
      OBVIOUS
    <3>1. stamps[k + 1] = stamps[1] + k * v /\ stamps[1] \in Int
      BY <1>1, <1>2, <2>2
    <3>2. stamps[k + 2] = stamps[k + 1] + v
      BY <1>1, <1>5
    <3>3. (k + 1) * v = k * v + v /\ k * v \in Int
      BY <1>4
    <3> QED BY <1>4, <3>1, <3>2, <3>3
  <2>3. n - 1 \in Good
    <3> HIDE DEF Good
    <3> QED BY <1>1, <2>1, <2>2, SetInduction
  <2>4. stamps[n] = stamps[1] + (n - 1) * v
    BY <1>1, <2>3
  <2>5. (n - 1) * v \in Int /\ stamps[1] \in Int
    BY <1>1, <1>2, <1>4
  <2> QED BY <2>4, <2>5
<1>10. 2 * (stamps[n] - stamps[1]) >= 2 * v * MinPeriods
  <2>1. MinPeriods * v <= (n - 1) * v /\ (n - 1) * v \in Nat /\ MinPeriods * v \in Nat
    BY <1>1, <1>4, TimesMonotone
  <2>2. 2 * v * MinPeriods = 2 * (MinPeriods * v)
    BY <1>4
  <2> QED BY <1>9, <2>1, <2>2
<1>11. ASSUME NEW i \in DOMAIN intervals
       PROVE  2 * intervals[i] <= 2 * v * MaxIntervalRatio
  <2>1. intervals[i] = v
    BY <1>1, <1>6
  <2>2. 1 * v <= MaxIntervalRatio * v /\ MaxIntervalRatio * v \in Nat
    BY <1>1, <1>4, TimesMonotone
  <2>3. 2 * v * MaxIntervalRatio = 2 * (MaxIntervalRatio * v)
    BY <1>4
  <2> QED BY <1>4, <2>1, <2>2, <2>3
<1>12. IsRegular(intervals)
  <2> DEFINE off == [i \in DOMAIN intervals |-> Distance(2 * intervals[i], 2 * v)]
  <2>1. \A i \in DOMAIN intervals : Distance(2 * intervals[i], 2 * v) = 0
    BY <1>1, <1>4, <1>6 DEF Distance
  <2>2. off \in Seq(Int) /\ Len(off) = n - 1 /\ Steady(off, 0)
    BY <1>1, <1>6, <2>1 DEF Steady
  <2>3. TwiceMedian(off) = 0
    <3> HIDE DEF off
    <3>1. TwiceMedian(off) = 2 * 0
      BY <1>1, <2>2, SteadyMedian
    <3> QED BY <3>1
  <2>4. (100 - RegularityPercent) * 2 * (2 * v) >= 0
    <3>1. 0 * (4 * v) <= (100 - RegularityPercent) * (4 * v)
      BY <1>4, TimesMonotone
    <3>2. (100 - RegularityPercent) * 2 * (2 * v) = (100 - RegularityPercent) * (4 * v)
      BY <1>4
    <3> QED BY <1>4, <3>1, <3>2
  <2> QED BY <1>1, <1>4, <1>6, <1>8, <2>3, <2>4 DEF IsRegular
<1>13. 2 * v \in (2 * MinInterval)..(2 * MaxInterval)
  BY <1>1, <1>4
<1> QED BY <1>1, <1>8, <1>10, <1>11, <1>12, <1>13 DEF IsBeacon, n, intervals

LEMMA MetronomeStep ==
    BeaconTypeOK /\ MetronomeIsReported /\ [BeaconNext]_beaconAll => MetronomeIsReported'
<1> DEFINE Reported(ch) == \/ CoolingDown(ch.lastAlert, Latest(ch), BeaconCooldown)
                           \/ ch.lastAlert = Latest(ch)
           Served(ch) == Metronome(ch.stamps) => Reported(ch)
<1>1. MetronomeIsReported <=> \A c \in DOMAIN channels : Served(channels[c])
  BY DEF MetronomeIsReported, Metronome, Tracked
<1>2. MetronomeIsReported' <=> \A c \in DOMAIN channels' : Served(channels'[c])
  BY DEF MetronomeIsReported, Metronome, Tracked
<1> SUFFICES ASSUME BeaconTypeOK, MetronomeIsReported, [BeaconNext]_beaconAll,
                    NEW c \in DOMAIN channels'
             PROVE  Served(channels'[c])
  BY <1>2
<1>3. CASE c \in DOMAIN channels /\ channels'[c] = channels[c]
  BY <1>1, <1>3
<1>4. ASSUME NEW k \in Channel, NEW ts \in Stamp, RecordConnection(k, ts), ~OutOfOrder(k, ts)
      PROVE  Served(channels'[c])
  <2>1. CASE c # k
    BY <1>3, <1>4, <2>1 DEF RecordConnection, Tracked
  <2>2. CASE c = k
    <3> DEFINE old == IF k \in Tracked THEN channels[k]
                      ELSE [stamps |-> <<>>, lastAlert |-> Never]
               queue == Pushed(old.stamps, ts)
               fires == IsBeacon(queue) /\ ~CoolingDown(old.lastAlert, ts, BeaconCooldown)
    <3>1. channels'[c] = [stamps |-> queue, lastAlert |-> IF fires THEN ts ELSE old.lastAlert]
      BY <1>4, <2>2 DEF RecordConnection
    <3>2. channels'[c].stamps \in Seq(Stamp) /\ Latest(channels'[c]) = ts
      BY <1>4, <2>2, RecordFacts
    <3>3. Metronome(channels'[c].stamps) => IsBeacon(channels'[c].stamps)
      BY <3>2, MetronomeIsBeacon
    <3> HIDE DEF old, queue
    <3>4. CASE fires
      <4>1. channels'[c].lastAlert = ts
        BY <3>1, <3>4
      <4> QED BY <3>2, <4>1
    <3>5. CASE ~fires
      <4>1. channels'[c].lastAlert = old.lastAlert /\ channels'[c].stamps = queue
        BY <3>1, <3>5
      <4> QED BY <3>2, <3>3, <3>5, <4>1
    <3> QED BY <3>4, <3>5
  <2> QED BY <2>1, <2>2
<1>5. CASE PruneChannels
  BY <1>3, <1>5 DEF PruneChannels, Tracked
<1>6. CASE UNCHANGED channels
  BY <1>3, <1>6
<1> QED BY <1>4, <1>5, <1>6 DEF BeaconNext, BeaconObserve, beaconVars, beaconAll

(* No metronome is missed: whichever connections were kept, however they
   lagged and whatever was pruned, an evenly spaced channel with enough
   connections has been reported within the last cooldown. *)
THEOREM MetronomesReported == BeaconSpec => []MetronomeIsReported
<1>1. BeaconInit => BeaconTypeOK /\ MetronomeIsReported
  BY ClockAssumption DEF BeaconInit, BeaconTypeOK, Tracked, Stamp, MetronomeIsReported
<1>2. BeaconTypeOK /\ [BeaconNext]_beaconAll => BeaconTypeOK'
  BY BeaconTypeStep
<1> QED BY <1>1, <1>2, MetronomeStep, PTL DEF BeaconSpec, beaconAll

-----------------------------------------------------------------------------
(* The scan detector.                                                      *)

LEMMA ScanTypeStarts == ScanInit => ScanTypeOK
<1> SUFFICES ASSUME ScanInit PROVE ScanTypeOK
  OBVIOUS
<1>1. Scanning = {} /\ now = 0 /\ late = FALSE
  BY DEF ScanInit, Scanning
<1>2. late \in BOOLEAN
  BY <1>1
<1>3. now \in Stamp
  BY <1>1, ClockAssumption DEF Stamp
<1>. QED
  BY <1>1, <1>2, <1>3 DEF ScanTypeOK

LEMMA ObserveKeepsType ==
    ASSUME ScanTypeOK, NEW p \in Process, NEW d \in Destination, NEW ts \in Stamp,
           ScanObserve(p, d, ts)
    PROVE  /\ Scanning' \subseteq Process
           /\ \A q \in Scanning' :
                 /\ DOMAIN scans'[q].seen \in (SUBSET Destination) \ {{}}
                 /\ Range(scans'[q].seen) \subseteq Stamp
                 /\ scans'[q].lastAlert \in Stamp \cup {Never}
<1> DEFINE old   == IF p \in Scanning THEN scans[p].seen ELSE [e \in {} |-> Never]
           alert == IF p \in Scanning THEN scans[p].lastAlert ELSE Never
           kept  == Unexpired(old, ts - ScanWindow)
           seen  == [e \in kept \cup {d} |-> IF e = d THEN ts ELSE old[e]]
           fires == IsBroad(DOMAIN seen) /\ ~CoolingDown(alert, ts, ScanCooldown)
           new   == [seen |-> seen, lastAlert |-> IF fires THEN ts ELSE alert]
<1>1. scans' = [q \in Scanning \cup {p} |-> IF q = p THEN new ELSE scans[q]]
  BY DEF ScanObserve
<1>2. /\ kept \subseteq Destination
      /\ \A e \in kept : old[e] \in Stamp
      /\ alert \in Stamp \cup {Never}
  BY DEF ScanTypeOK, Unexpired, Range
<1>3. DOMAIN seen \in (SUBSET Destination) \ {{}}
  <2>1. DOMAIN seen = kept \cup {d}
    OBVIOUS
  <2>. QED
    BY <1>2, <2>1
<1>3a. Range(seen) \subseteq Stamp
  <2>1. \A e \in DOMAIN seen : seen[e] \in Stamp
    BY <1>2
  <2>. QED
    BY <2>1 DEF Range
<1>4. new.seen = seen /\ new.lastAlert \in Stamp \cup {Never}
  BY <1>2
<1> HIDE DEF new, seen
<1>. QED
  BY <1>1, <1>3, <1>3a, <1>4 DEF ScanTypeOK, Scanning

LEMMA ScanTypeSteps == ScanTypeOK /\ [ScanNext]_<<scanVars, now>> => ScanTypeOK'
<1> SUFFICES ASSUME ScanTypeOK, [ScanNext]_<<scanVars, now>> PROVE ScanTypeOK'
  OBVIOUS
<1>1. ASSUME NEW p \in Process, NEW d \in Destination, NEW lag \in Lag,
             now - lag \in Stamp, Connect(p, d, lag)
      PROVE  ScanTypeOK'
  BY <1>1, ObserveKeepsType DEF Connect, ScanTypeOK, Stamp
<1>2. CASE PruneScans /\ UNCHANGED <<now, late>>
  BY <1>2 DEF PruneScans, ScanTypeOK, Scanning, Stamp
<1>3. CASE AdvanceClock /\ UNCHANGED scanVars
  BY <1>3, ClockAssumption DEF AdvanceClock, scanVars, ScanTypeOK, Scanning, Stamp
<1>4. CASE UNCHANGED <<scanVars, now>>
  BY <1>4 DEF scanVars, ScanTypeOK, Scanning, Stamp
<1>. QED
  BY <1>1, <1>2, <1>3, <1>4 DEF ScanNext

\* What the scan detector tracks stays well formed, and no tracked process has
\* touched nothing.
THEOREM ScanTypeCorrect == ScanSpec => []ScanTypeOK
  BY ScanTypeStarts, ScanTypeSteps, PTL DEF ScanSpec

\* The detector starts as the watch does.
LEMMA ScanWatchStarts == ScanInit => ScanWatch!WatchInit
  BY DEF ScanInit, ScanWatch!WatchInit, ScanWatch!Never, Never, RecentTouches, LastScanReport,
         Scanning

\* What counts a tick later is what still counts of what counts now.
LEMMA ScanCounting ==
    ASSUME NEW seen, NEW time \in Int, NEW later \in Int, later = time + 1,
           \A d \in DOMAIN seen : seen[d] \in Int
    PROVE  ScanWatch!Counting(Restrict(seen, Unexpired(seen, time - ScanWindow)), later)
             = Restrict(seen, Unexpired(seen, later - ScanWindow))
<1> DEFINE held == {d \in DOMAIN seen : seen[d] >= time - ScanWindow}
           left == {d \in DOMAIN seen : seen[d] >= later - ScanWindow}
<1>1. {d \in held : seen[d] >= later - ScanWindow} = left
  BY ScanAssumption
<1>2. \A S : S \subseteq DOMAIN seen =>
         ScanWatch!Counting([d \in S |-> seen[d]], later)
            = [d \in {e \in S : seen[e] >= later - ScanWindow} |-> seen[d]]
  BY DEF ScanWatch!Counting, ScanWatch!Restrict
<1>3. ScanWatch!Counting([d \in held |-> seen[d]], later) = [d \in left |-> seen[d]]
  BY <1>1, <1>2
<1>. QED
  BY <1>3 DEF Restrict, Unexpired

\* A punctual connection is an act of its process.
LEMMA ConnectIsAct ==
    ASSUME ScanTypeOK, NEW p \in Process, NEW d \in Destination, ScanObserve(p, d, now), now' = now
    PROVE  ScanWatch!Act(p, d)
<1> DEFINE old   == IF p \in Scanning THEN scans[p].seen ELSE [e \in {} |-> Never]
           alert == IF p \in Scanning THEN scans[p].lastAlert ELSE Never
           kept  == Unexpired(old, now - ScanWindow)
           seen  == [e \in kept \cup {d} |-> IF e = d THEN now ELSE old[e]]
           fires == IsBroad(DOMAIN seen) /\ ~CoolingDown(alert, now, ScanCooldown)
           new   == [seen |-> seen, lastAlert |-> IF fires THEN now ELSE alert]
           acts  == [k \in DOMAIN RecentTouches[p] \cup {d} |->
                        IF k = d THEN now ELSE RecentTouches[p][k]]
<1>1. /\ scans' = [q \in Scanning \cup {p} |-> IF q = p THEN new ELSE scans[q]]
      /\ Scanning' = Scanning \cup {p}
  BY DEF ScanObserve, Scanning
<1>2. now \in Nat /\ ScanWindow \in Nat
  BY ScanAssumption, ClockAssumption DEF ScanTypeOK, Stamp
<1>3. DOMAIN RecentTouches[p] = kept /\ \A e \in kept : RecentTouches[p][e] = old[e]
  BY DEF RecentTouches, Restrict, Unexpired
<1>4. acts = seen
  BY <1>3
<1>5. Unexpired(seen, now - ScanWindow) = DOMAIN seen
  BY <1>2 DEF Unexpired
<1>6. Restrict(seen, DOMAIN seen) = seen
  BY DEF Restrict
<1> HIDE DEF seen, acts
<1>7. RecentTouches' = [RecentTouches EXCEPT ![p] = acts]
  BY <1>1, <1>4, <1>5, <1>6 DEF RecentTouches
<1>8. LastScanReport[p] = alert
  BY DEF LastScanReport
<1>9. LastScanReport' = [LastScanReport EXCEPT ![p] = IF fires THEN now ELSE @]
  BY <1>1, <1>8 DEF LastScanReport
<1>. QED
  BY <1>4, <1>7, <1>8, <1>9
     DEF ScanWatch!Act, ScanWatch!CoolingDown, CoolingDown, acts, ScanWatch!Never, Never

LEMMA ScanWatchSteps ==
    ASSUME ScanTypeOK, [ScanNext]_<<scanVars, now>>
    PROVE  [late' \/ ScanWatch!WatchNext]_(ScanWatch!watchVars)
<1>1. ASSUME NEW p \in Process, NEW d \in Destination, NEW lag \in Lag,
             now - lag \in Stamp, Connect(p, d, lag)
      PROVE  late' \/ ScanWatch!WatchNext
  <2>1. CASE lag = 0
    <3>1. now - lag = now
      BY <2>1, ClockAssumption DEF ScanTypeOK, Stamp
    <3>. QED
      BY <1>1, <3>1, ConnectIsAct DEF Connect, ScanWatch!WatchNext
  <2>2. CASE lag # 0
    BY <1>1, <2>2 DEF Connect
  <2>. QED
    BY <2>1, <2>2
<1>2. CASE PruneScans /\ UNCHANGED <<now, late>>
  <2> DEFINE idle == IdleScans(now - ScanWindow)
  <2>1. idle \subseteq Process /\ Scanning' = Scanning \ idle
        /\ \A p \in Scanning' : scans'[p] = scans[p]
    BY <1>2 DEF PruneScans, IdleScans, Scanning, ScanTypeOK
  <2>2. \A p \in idle : RecentTouches[p] = [d \in {} |-> Never]
    <3> SUFFICES ASSUME NEW p \in idle PROVE RecentTouches[p] = [d \in {} |-> Never]
      OBVIOUS
    <3>1. p \in Scanning /\ Unexpired(scans[p].seen, now - ScanWindow) = {}
      <4>1. /\ p \in Scanning /\ now - ScanWindow \in Int
            /\ \A d \in DOMAIN scans[p].seen :
                  scans[p].seen[d] \in Int /\ scans[p].seen[d] < now - ScanWindow
        BY ScanAssumption, ClockAssumption DEF IdleScans, ScanTypeOK, Range, Stamp
      <4>. QED
        BY <4>1 DEF Unexpired
    <3>. QED
      BY <2>1, <3>1 DEF RecentTouches, Restrict
  <2>3. RecentTouches' = RecentTouches
    BY <1>2, <2>1, <2>2 DEF RecentTouches
  <2>4. LastScanReport' = [p \in Process |-> IF p \in idle THEN Never ELSE LastScanReport[p]]
    BY <2>1 DEF LastScanReport
  <2>5. ScanWatch!Forget(idle)
    BY <1>2, <2>2, <2>1, <2>3, <2>4 DEF ScanWatch!Forget, ScanWatch!Never, Never
  <2>. QED
    BY <2>1, <2>5 DEF ScanWatch!WatchNext
<1>3. CASE AdvanceClock /\ UNCHANGED scanVars
  <2>1. scans' = scans /\ Scanning' = Scanning /\ now' = now + 1 /\ now \in Int /\ ScanWindow \in Int
    BY <1>3, ScanAssumption, ClockAssumption DEF AdvanceClock, scanVars, Scanning, ScanTypeOK, Stamp
  <2>2. ASSUME NEW p \in Scanning
        PROVE  Restrict(scans[p].seen, Unexpired(scans[p].seen, now' - ScanWindow))
                 = ScanWatch!Counting(Restrict(scans[p].seen,
                                         Unexpired(scans[p].seen, now - ScanWindow)), now')
    <3>1. \A d \in DOMAIN scans[p].seen : scans[p].seen[d] \in Int
      BY ClockAssumption DEF ScanTypeOK, Range, Stamp
    <3>. QED
      BY <2>1, <3>1, ScanCounting
  <2>3. ScanWatch!Counting([d \in {} |-> Never], now') = [d \in {} |-> Never]
    BY DEF ScanWatch!Counting, ScanWatch!Restrict
  <2>4. RecentTouches' = [p \in Process |-> ScanWatch!Counting(RecentTouches[p], now')]
    BY <2>1, <2>2, <2>3 DEF RecentTouches
  <2>5. LastScanReport' = LastScanReport
    BY <2>1 DEF LastScanReport
  <2>. QED
    BY <1>3, <2>4, <2>5 DEF ScanWatch!Pass, ScanWatch!WatchNext, ScanWatch!AdvanceClock, AdvanceClock
<1>4. CASE UNCHANGED <<scanVars, now>>
  BY <1>4 DEF scanVars, ScanWatch!watchVars, RecentTouches, LastScanReport, Scanning
<1>. QED
  BY <1>1, <1>2, <1>3, <1>4 DEF ScanNext

\* However it is pruned, the scan detector implements the watch as long as
\* connections arrive when they are made.
THEOREM ScanRefinesWatch == ScanSpec => ScanImplementsWatch
<1>1. ScanTypeOK /\ [ScanNext]_<<scanVars, now>>
        => [late' \/ ScanWatch!WatchNext]_(ScanWatch!watchVars)
  BY ScanWatchSteps
<1>. QED
  BY <1>1, ScanWatchStarts, ScanTypeCorrect, PTL DEF ScanSpec, ScanImplementsWatch

-----------------------------------------------------------------------------
(* The discovery detector.                                                 *)

\* A command that is recon is filed under one technique of the table.
LEMMA ClassifyGivesTechnique ==
    ASSUME NEW command \in Command, IsRecon(command)
    PROVE  Classify(command) \in Technique
<1>1. /\ command \subseteq 1..12 /\ command # {}
      /\ DOMAIN DISCOVERY_SIGNATURES = 1..12
  BY DiscoveryAssumption DEF DISCOVERY_SIGNATURES, IsRecon
<1>2. \E n \in command : \A m \in command : n <= m
  <2> SUFFICES ASSUME \A n \in command : \E m \in command : m < n
               PROVE  FALSE
    <3>1. \A n, m \in command : n <= m \/ m < n
      BY <1>1
    <3>. QED
      BY <3>1
  <2>1. \A n \in command : n > 4
    BY <1>1
  <2>2. \A n \in command : n > 8
    BY <1>1, <2>1
  <2>3. \A n \in command : n > 12
    BY <1>1, <2>2
  <2>4. PICK n \in command : TRUE
    BY <1>1
  <2>. QED
    BY <1>1, <2>3, <2>4
<1>3. Min(command) \in command
  BY <1>2 DEF Min
<1>. QED
  BY <1>1, <1>3 DEF Classify, Technique

LEMMA DiscoveryTypeStarts == DiscoveryInit => DiscoveryTypeOK
<1> SUFFICES ASSUME DiscoveryInit PROVE DiscoveryTypeOK
  OBVIOUS
<1>1. Tracking = {} /\ now = 0 /\ delayed = FALSE
  BY DEF DiscoveryInit, Tracking
<1>2. delayed \in BOOLEAN
  BY <1>1
<1>3. now \in Stamp
  BY <1>1, ClockAssumption DEF Stamp
<1>. QED
  BY <1>1, <1>2, <1>3 DEF DiscoveryTypeOK

LEMMA ReconKeepsType ==
    ASSUME DiscoveryTypeOK, NEW root \in Root, NEW technique \in Technique, NEW ts \in Stamp,
           Recon(root, technique, ts)
    PROVE  /\ Tracking' \subseteq Root
           /\ \A r \in Tracking' :
                 /\ DOMAIN bursts'[r].last \in (SUBSET Technique) \ {{}}
                 /\ Range(bursts'[r].last) \subseteq Stamp
                 /\ bursts'[r].lastAlert \in Stamp \cup {Never}
<1> DEFINE old   == IF root \in Tracking THEN bursts[root].last ELSE [t \in {} |-> Never]
           alert == IF root \in Tracking THEN bursts[root].lastAlert ELSE Never
           kept  == KeptRecon(old, ts - DiscoveryWindow)
           last  == [t \in DOMAIN kept \cup {technique} |->
                        IF t = technique THEN ts ELSE kept[t]]
           fires == IsBurst(DOMAIN last) /\ ~CoolingDown(alert, ts, DiscoveryCooldown)
           burst == [last |-> last, lastAlert |-> IF fires THEN ts ELSE alert]
<1>1. bursts' = [r \in Tracking \cup {root} |-> IF r = root THEN burst ELSE bursts[r]]
  BY DEF Recon
<1>2. /\ DOMAIN old \subseteq Technique
      /\ \A t \in DOMAIN old : old[t] \in Stamp
      /\ alert \in Stamp \cup {Never}
  BY DEF DiscoveryTypeOK, Range
<1>3. DOMAIN kept \subseteq DOMAIN old /\ \A t \in DOMAIN kept : kept[t] = old[t]
  BY DEF KeptRecon, Restrict
<1>4. DOMAIN last \in (SUBSET Technique) \ {{}}
  <2>1. DOMAIN last = DOMAIN kept \cup {technique}
    OBVIOUS
  <2>. QED
    BY <1>2, <1>3, <2>1
<1>5. Range(last) \subseteq Stamp
  <2>1. \A t \in DOMAIN last : last[t] \in Stamp
    BY <1>2, <1>3
  <2>. QED
    BY <2>1 DEF Range
<1>6. burst.last = last /\ burst.lastAlert \in Stamp \cup {Never}
  BY <1>2
<1> HIDE DEF burst, last
<1>. QED
  BY <1>1, <1>4, <1>5, <1>6 DEF DiscoveryTypeOK, Tracking

LEMMA DiscoveryTypeSteps ==
    DiscoveryTypeOK /\ [DiscoveryNext]_<<discoveryVars, now>> => DiscoveryTypeOK'
<1> SUFFICES ASSUME DiscoveryTypeOK, [DiscoveryNext]_<<discoveryVars, now>>
             PROVE  DiscoveryTypeOK'
  OBVIOUS
<1>1. ASSUME NEW root \in Root, NEW command \in Command, NEW lag \in Lag,
             now - lag \in Stamp, ProcessCreate(root, command, lag)
      PROVE  DiscoveryTypeOK'
  <2>1. delayed' \in BOOLEAN /\ now' = now
    BY <1>1 DEF ProcessCreate, DiscoveryTypeOK
  <2>2. CASE IsRecon(command)
    BY <1>1, <2>1, <2>2, ReconKeepsType, ClassifyGivesTechnique
       DEF ProcessCreate, DiscoveryTypeOK, Stamp
  <2>3. CASE ~IsRecon(command)
    BY <1>1, <2>1, <2>3 DEF ProcessCreate, DiscoveryTypeOK, Tracking, Stamp
  <2>. QED
    BY <2>2, <2>3
<1>2. CASE PruneBursts
  <2>1. Tracking' \subseteq Tracking /\ \A r \in Tracking' : bursts'[r] = bursts[r]
    BY <1>2 DEF PruneBursts, Restrict, Tracking
  <2>. QED
    BY <1>2, <2>1 DEF PruneBursts, DiscoveryTypeOK, Stamp
<1>3. CASE AdvanceClock /\ UNCHANGED discoveryVars
  BY <1>3, ClockAssumption
     DEF AdvanceClock, discoveryVars, DiscoveryTypeOK, Tracking, Stamp
<1>4. CASE UNCHANGED <<discoveryVars, now>>
  BY <1>4 DEF discoveryVars, DiscoveryTypeOK, Tracking, Stamp
<1>. QED
  BY <1>1, <1>2, <1>3, <1>4 DEF DiscoveryNext

\* What the discovery detector tracks stays well formed: no burst without recon.
THEOREM DiscoveryTypeCorrect == DiscoverySpec => []DiscoveryTypeOK
  BY DiscoveryTypeStarts, DiscoveryTypeSteps, PTL DEF DiscoverySpec

LEMMA DiscoveryWatchStarts == DiscoveryInit => DiscoveryWatch!WatchInit
  BY DEF DiscoveryInit, DiscoveryWatch!WatchInit, DiscoveryWatch!Never, Never, RecentRecon,
         LastReport, Tracking

LEMMA DiscoveryCounting ==
    ASSUME NEW last, NEW time \in Int, NEW later \in Int, later = time + 1,
           \A t \in DOMAIN last : last[t] \in Int
    PROVE  DiscoveryWatch!Counting(KeptRecon(last, time - DiscoveryWindow), later)
             = KeptRecon(last, later - DiscoveryWindow)
<1> DEFINE held == {t \in DOMAIN last : last[t] >= time - DiscoveryWindow}
           left == {t \in DOMAIN last : last[t] >= later - DiscoveryWindow}
<1>1. {t \in held : last[t] >= later - DiscoveryWindow} = left
  BY DiscoveryAssumption
<1>2. \A S : S \subseteq DOMAIN last =>
         DiscoveryWatch!Counting([t \in S |-> last[t]], later)
            = [t \in {u \in S : last[u] >= later - DiscoveryWindow} |-> last[t]]
  BY DEF DiscoveryWatch!Counting, DiscoveryWatch!Restrict
<1>3. DiscoveryWatch!Counting([t \in held |-> last[t]], later) = [t \in left |-> last[t]]
  BY <1>1, <1>2
<1>. QED
  BY <1>3 DEF KeptRecon, Restrict

\* A recon command that arrives when it runs is an act of its root.
LEMMA ReconIsAct ==
    ASSUME DiscoveryTypeOK, NEW root \in Root, NEW technique \in Technique,
           Recon(root, technique, now), now' = now
    PROVE  DiscoveryWatch!Act(root, technique)
<1> DEFINE old   == IF root \in Tracking THEN bursts[root].last ELSE [t \in {} |-> Never]
           alert == IF root \in Tracking THEN bursts[root].lastAlert ELSE Never
           kept  == KeptRecon(old, now - DiscoveryWindow)
           last  == [t \in DOMAIN kept \cup {technique} |->
                        IF t = technique THEN now ELSE kept[t]]
           fires == IsBurst(DOMAIN last) /\ ~CoolingDown(alert, now, DiscoveryCooldown)
           burst == [last |-> last, lastAlert |-> IF fires THEN now ELSE alert]
           acts  == [k \in DOMAIN RecentRecon[root] \cup {technique} |->
                        IF k = technique THEN now ELSE RecentRecon[root][k]]
<1>1. /\ bursts' = [r \in Tracking \cup {root} |-> IF r = root THEN burst ELSE bursts[r]]
      /\ Tracking' = Tracking \cup {root}
  BY DEF Recon, Tracking
<1>2. now \in Nat /\ DiscoveryWindow \in Nat
  BY DiscoveryAssumption, ClockAssumption DEF DiscoveryTypeOK, Stamp
<1>3. DOMAIN RecentRecon[root] = DOMAIN kept
      /\ \A t \in DOMAIN kept : RecentRecon[root][t] = kept[t]
  BY DEF RecentRecon, KeptRecon, Restrict
<1>4. acts = last
  BY <1>3
<1>5. \A t \in DOMAIN last : last[t] >= now - DiscoveryWindow
  BY <1>2 DEF KeptRecon, Restrict
<1>6. KeptRecon(last, now - DiscoveryWindow) = last
  <2>1. {t \in DOMAIN last : last[t] >= now - DiscoveryWindow} = DOMAIN last
    BY <1>5
  <2>2. last = [t \in DOMAIN last |-> last[t]]
    OBVIOUS
  <2> HIDE DEF last
  <2>. QED
    BY <2>1, <2>2 DEF KeptRecon, Restrict
<1> HIDE DEF last, acts
<1>7. RecentRecon' = [RecentRecon EXCEPT ![root] = acts]
  BY <1>1, <1>4, <1>6 DEF RecentRecon
<1>8. LastReport[root] = alert
  BY DEF LastReport
<1>9. LastReport' = [LastReport EXCEPT ![root] = IF fires THEN now ELSE @]
  BY <1>1, <1>8 DEF LastReport
<1>. QED
  BY <1>4, <1>7, <1>8, <1>9
     DEF DiscoveryWatch!Act, DiscoveryWatch!CoolingDown, CoolingDown, acts,
         DiscoveryWatch!Never, Never

LEMMA DiscoveryWatchSteps ==
    ASSUME DiscoveryTypeOK, [DiscoveryNext]_<<discoveryVars, now>>
    PROVE  [delayed' \/ DiscoveryWatch!WatchNext]_(DiscoveryWatch!watchVars)
<1>1. ASSUME NEW root \in Root, NEW command \in Command, NEW lag \in Lag,
             now - lag \in Stamp, ProcessCreate(root, command, lag)
      PROVE  [delayed' \/ DiscoveryWatch!WatchNext]_(DiscoveryWatch!watchVars)
  <2>1. CASE lag # 0
    BY <1>1, <2>1 DEF ProcessCreate
  <2>2. CASE lag = 0 /\ IsRecon(command)
    <3>1. now - lag = now
      BY <2>2, ClockAssumption DEF DiscoveryTypeOK, Stamp
    <3>2. Classify(command) \in Technique
      BY <2>2, ClassifyGivesTechnique
    <3>. QED
      BY <1>1, <2>2, <3>1, <3>2, ReconIsAct DEF ProcessCreate, DiscoveryWatch!WatchNext
  <2>3. CASE ~IsRecon(command)
    BY <1>1, <2>3
       DEF ProcessCreate, DiscoveryWatch!watchVars, RecentRecon, LastReport, Tracking
  <2>. QED
    BY <2>1, <2>2, <2>3
<1>2. CASE PruneBursts
  <2> DEFINE stale == StaleBursts(now - DiscoveryWindow)
  <2>1. stale \subseteq Root /\ Tracking' = Tracking \ stale
        /\ \A r \in Tracking' : bursts'[r] = bursts[r]
    BY <1>2 DEF PruneBursts, StaleBursts, Tracking, DiscoveryTypeOK, Restrict
  <2>2. ASSUME NEW r \in stale PROVE RecentRecon[r] = [t \in {} |-> Never]
    <3>1. /\ r \in Tracking /\ now - DiscoveryWindow \in Int
          /\ \A t \in DOMAIN bursts[r].last :
                bursts[r].last[t] \in Int /\ bursts[r].last[t] < now - DiscoveryWindow
      BY DiscoveryAssumption, ClockAssumption DEF StaleBursts, DiscoveryTypeOK, Range, Stamp
    <3>2. KeptRecon(bursts[r].last, now - DiscoveryWindow) = [t \in {} |-> Never]
      BY <3>1 DEF KeptRecon, Restrict
    <3>. QED
      BY <2>1, <3>1, <3>2 DEF RecentRecon
  <2>3. RecentRecon' = RecentRecon
    BY <1>2, <2>1, <2>2 DEF RecentRecon, PruneBursts
  <2>4. LastReport' = [r \in Root |-> IF r \in stale THEN Never ELSE LastReport[r]]
    BY <2>1 DEF LastReport
  <2>5. DiscoveryWatch!Forget(stale)
    BY <1>2, <2>1, <2>2, <2>3, <2>4
       DEF PruneBursts, DiscoveryWatch!Forget, DiscoveryWatch!Never, Never
  <2>. QED
    BY <2>1, <2>5 DEF DiscoveryWatch!WatchNext
<1>3. CASE AdvanceClock /\ UNCHANGED discoveryVars
  <2>1. /\ bursts' = bursts /\ Tracking' = Tracking
        /\ now' = now + 1 /\ now \in Int /\ now' \in Int
    BY <1>3, ClockAssumption DEF AdvanceClock, discoveryVars, Tracking, DiscoveryTypeOK, Stamp
  <2>2. ASSUME NEW r \in Tracking
        PROVE  KeptRecon(bursts[r].last, now' - DiscoveryWindow)
                 = DiscoveryWatch!Counting(KeptRecon(bursts[r].last, now - DiscoveryWindow), now')
    <3>1. \A t \in DOMAIN bursts[r].last : bursts[r].last[t] \in Int
      BY ClockAssumption DEF DiscoveryTypeOK, Range, Stamp
    <3>. QED
      BY <2>1, <3>1, DiscoveryCounting
  <2>3. DiscoveryWatch!Counting([t \in {} |-> Never], now') = [t \in {} |-> Never]
    BY DEF DiscoveryWatch!Counting, DiscoveryWatch!Restrict
  <2>4. RecentRecon' = [r \in Root |-> DiscoveryWatch!Counting(RecentRecon[r], now')]
    BY <2>1, <2>2, <2>3 DEF RecentRecon
  <2>5. LastReport' = LastReport
    BY <2>1 DEF LastReport
  <2>. QED
    BY <1>3, <2>4, <2>5
       DEF DiscoveryWatch!Pass, DiscoveryWatch!WatchNext, DiscoveryWatch!AdvanceClock, AdvanceClock
<1>4. CASE UNCHANGED <<discoveryVars, now>>
  BY <1>4 DEF discoveryVars, DiscoveryWatch!watchVars, RecentRecon, LastReport, Tracking
<1>. QED
  BY <1>1, <1>2, <1>3, <1>4 DEF DiscoveryNext

\* However it is pruned, the discovery detector implements the watch as long as
\* events arrive when they happen.
THEOREM DiscoveryRefinesWatch == DiscoverySpec => DiscoveryImplementsWatch
<1>1. DiscoveryTypeOK /\ [DiscoveryNext]_<<discoveryVars, now>>
        => [delayed' \/ DiscoveryWatch!WatchNext]_(DiscoveryWatch!watchVars)
  BY DiscoveryWatchSteps
<1>. QED
  BY <1>1, DiscoveryWatchStarts, DiscoveryTypeCorrect, PTL
     DEF DiscoverySpec, DiscoveryImplementsWatch
=============================================================================
