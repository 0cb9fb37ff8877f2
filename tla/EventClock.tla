------------------------------- MODULE EventClock -------------------------------
(***************************************************************************)
(* The two times every detector of backend/engine works with: the wall     *)
(* clock its prune() reads, and the timestamp an event carries, which its  *)
(* observe() reads.  An event is stamped by its collector: it arrives a    *)
(* lag after its timestamp, or, from a fast clock, before it.              *)
(***************************************************************************)
EXTENDS Integers

CONSTANTS
    MaxTime,     \* bound of the wall clock and of event timestamps
    Lag          \* wall clock minus event timestamp

ASSUME ClockAssumption == MaxTime \in Nat /\ Lag \subseteq Int

VARIABLE now     \* wall clock

Stamp == 0..MaxTime

\* A time that has not come: last_alert = None.
Never == -1

\* _assess() of the three detectors: an alert at lastAlert silences one at ts.
CoolingDown(lastAlert, ts, cooldown) == lastAlert # Never /\ ts - lastAlert < cooldown

AdvanceClock == now < MaxTime /\ now' = now + 1
=============================================================================
