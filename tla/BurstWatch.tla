------------------------------- MODULE BurstWatch -------------------------------
(***************************************************************************)
(* What the windowed detectors of backend/engine promise, whatever they    *)
(* keep and whenever they are pruned: every act of a key counts for        *)
(* exactly one window; a key is reported by the act that finds its acts of *)
(* the window broad, unless it was reported less than a cooldown ago; and  *)
(* the report may be forgotten only once the key has been quiet for a      *)
(* whole window.                                                           *)
(***************************************************************************)
EXTENDS EventClock, Functions

CONSTANTS
    Key,            \* what acts are counted for
    Kind,           \* kinds of act
    Broad(_),       \* a set of kinds worth a report
    WatchWindow,    \* how long an act counts
    WatchCooldown   \* how long a report silences the next

VARIABLES
    recent,     \* the acts of each key that count now: kind -> when last done
    silenced    \* when each key was last reported, as far as it still matters

watchVars == <<recent, silenced, now>>

Counting(acts, time) ==
    Restrict(acts, {k \in DOMAIN acts : acts[k] >= time - WatchWindow})

WatchInit ==
    /\ recent = [key \in Key |-> [k \in {} |-> Never]]
    /\ silenced = [key \in Key |-> Never]
    /\ now = 0

Act(key, kind) ==
    LET acts == [k \in DOMAIN recent[key] \cup {kind} |->
                    IF k = kind THEN now ELSE recent[key][k]]
        reports == Broad(DOMAIN acts) /\ ~CoolingDown(silenced[key], now, WatchCooldown)
    IN /\ recent' = [recent EXCEPT ![key] = acts]
       /\ silenced' = [silenced EXCEPT ![key] = IF reports THEN now ELSE @]
       /\ UNCHANGED now

\* Time passes, and the acts that leave the window stop counting.
Pass ==
    /\ AdvanceClock
    /\ recent' = [key \in Key |-> Counting(recent[key], now')]
    /\ UNCHANGED silenced

\* Keys that nothing is remembered of are started afresh.
Forget(keys) ==
    /\ \A key \in keys : DOMAIN recent[key] = {}
    /\ silenced' = [key \in Key |-> IF key \in keys THEN Never ELSE silenced[key]]
    /\ UNCHANGED <<recent, now>>

WatchNext ==
    \/ \E key \in Key, kind \in Kind : Act(key, kind)
    \/ Pass
    \/ \E keys \in SUBSET Key : Forget(keys)

WatchSpec == WatchInit /\ [][WatchNext]_watchVars
=============================================================================
