------------------------------ MODULE CaseLedger ------------------------------
(***************************************************************************)
(* What the database is to its readers: a ledger of cases that only moves  *)
(* forward.  A case tells of ever more detections; a detection is filed    *)
(* under its case only once the case tells of it; a verdict is passed on a *)
(* case on its own, and nothing else changes it; and the ledger is wiped   *)
(* as a whole.                                                             *)
(***************************************************************************)
EXTENDS Naturals

CONSTANTS
    Case,      \* incidents
    Verdict    \* what an analyst may say of one

VARIABLES
    told,      \* case -> the detections its entry tells of, 0 without an entry
    filed,     \* case -> the detections filed under it
    verdict    \* case -> its triage

ledgerVars == <<told, filed, verdict>>

Blank ==
    /\ told = [c \in Case |-> 0]
    /\ filed = [c \in Case |-> 0]
    /\ verdict = [c \in Case |-> "open"]

\* The entry of a case is made, or brought up to date.
Tell(c) ==
    /\ told'[c] > told[c]
    /\ told' = [told EXCEPT ![c] = told'[c]]
    /\ UNCHANGED <<filed, verdict>>

\* A detection the case already tells of is filed.
File(c) ==
    /\ filed[c] < told[c]
    /\ filed' = [filed EXCEPT ![c] = @ + 1]
    /\ UNCHANGED <<told, verdict>>

Judge(c, v) ==
    /\ told[c] > 0
    /\ verdict' = [verdict EXCEPT ![c] = v]
    /\ UNCHANGED <<told, filed>>

LedgerNext ==
    \/ \E c \in Case : Tell(c) \/ File(c) \/ (\E v \in Verdict : Judge(c, v))
    \/ Blank'

LedgerSpec == Blank /\ [][LedgerNext]_ledgerVars
=============================================================================
