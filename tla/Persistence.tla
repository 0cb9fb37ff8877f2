----------------------------- MODULE Persistence -----------------------------
(***************************************************************************)
(* What Pipeline.process() leaves on disk.  Every POST /ingest is a task of *)
(* one event loop; it is cut at the awaits of upsert_incident() and         *)
(* save_detection(), and between two of its slices other ingests, an        *)
(* analyst, an administrator's reset or a crash may run.                    *)
(* An incident is its id and the number of its detections: score, chain     *)
(* and title are written by the same assignments from the same object.      *)
(* is_actionable() is abstracted to the number of detections that makes an  *)
(* incident actionable: like the score, it never falls as they accumulate.  *)
(***************************************************************************)
EXTENDS Integers

CONSTANTS
    Worker,          \* ingest requests served at the same time
    Root,            \* correlation keys
    ActionableAt,    \* detections that make an incident actionable
    MaxPerEvent,     \* detections one event may raise
    MaxDetections,   \* bound of the detections raised
    MaxTriage,       \* bound of the status updates
    MaxFaults,       \* bound of the database errors
    MaxResets,       \* bound of DELETE /admin/database
    MaxCrashes       \* bound of the crashes

ASSUME BoundAssumption ==
    /\ Root # {}
    /\ ActionableAt \in Nat \ {0} /\ MaxPerEvent \in Nat \ {0} /\ MaxDetections \in Nat
    /\ {MaxTriage, MaxFaults, MaxResets, MaxCrashes} \subseteq Nat

VARIABLES
    open,        \* engine: root -> id of its open incident, 0 if none
    count,       \* engine: detections attached to each incident so far
    nextId,      \* engine: the next fresh incident id
    rows,        \* table incidents: id -> row
    saved,       \* table detections: rows per incident id
    task,        \* ingest tasks
    triage,      \* the analyst's update_incident_status() in progress
    admin,       \* the reset in progress
    raised,      \* detections raised so far
    budget,      \* triages, faults, resets and crashes left
    boot,        \* first id of the current server process
    wiped,       \* first id of the current engine
    overlapped,  \* history: two ingests were in progress together
    raced        \* history: an ingest was in progress during a reset

engineVars == <<open, count, nextId, raised>>
diskVars == <<rows, saved>>
historyVars == <<boot, wiped, overlapped, raced>>
vars == <<engineVars, diskVars, task, triage, admin, budget, historyVars>>

Id == 1..MaxDetections
Status == {"open", "closed", "false_positive"}
Row == [count : Nat, actionable : BOOLEAN, status : Status]

\* What session.get() yields for an id without a row; real rows count from 1.
NoRow == [count |-> 0, actionable |-> FALSE, status |-> "open"]

Idle == [pc |-> "idle", root |-> CHOOSE r \in Root : TRUE, left |-> 0, id |-> 0,
         actionable |-> FALSE, seen |-> NoRow, snap |-> NoRow]

NoTriage == [pc |-> "idle", id |-> 0, seen |-> "open", status |-> "open"]

Busy == {w \in Worker : task[w].pc # "idle"}

Init ==
    /\ open = [r \in Root |-> 0]
    /\ count = [i \in Id |-> 0]
    /\ nextId = 1
    /\ raised = 0
    /\ rows = [i \in {} |-> NoRow]
    /\ saved = [i \in Id |-> 0]
    /\ task = [w \in Worker |-> Idle]
    /\ triage = NoTriage
    /\ admin = "idle"
    /\ budget = [triage |-> MaxTriage, fault |-> MaxFaults, reset |-> MaxResets,
                 crash |-> MaxCrashes]
    /\ boot = 1 /\ wiped = 1
    /\ overlapped = FALSE /\ raced = FALSE

-----------------------------------------------------------------------------
(* Ingest.                                                                 *)

\* The open incident of the root, or a fresh one.
Target(root) == IF open[root] # 0 THEN open[root] ELSE nextId

\* Mutant of Begun: save_detection() is called and upsert_incident() is not.
BegunAtDetection(root, left) ==
    [Idle EXCEPT !.pc = "save", !.root = root, !.left = left, !.id = Target(root)]

\* A task that has just correlated a detection and calls upsert_incident().
Begun(root, left) ==
    [pc |-> "get", root |-> root, left |-> left, id |-> Target(root),
     actionable |-> count[Target(root)] + 1 >= ActionableAt,
     seen |-> NoRow, snap |-> NoRow]

\* correlate() and is_actionable(): no await, so atomic.  Ids are drawn from
\* Id, which the bound on the detections raised makes large enough.
CorrelateOn(w, root, left) ==
    /\ Target(root) \in Id
    /\ count' = [count EXCEPT ![Target(root)] = @ + 1]
    /\ nextId' = IF open[root] = 0 THEN nextId + 1 ELSE nextId
    /\ open' = [open EXCEPT ![root] = Target(root)]
    /\ task' = [task EXCEPT ![w] = Begun(root, left)]

\* An event that raises n detections arrives.
Arrive(w, root, n) ==
    /\ task[w].pc = "idle"
    /\ raised + n <= MaxDetections
    /\ raised' = raised + n
    /\ CorrelateOn(w, root, n - 1)
    /\ overlapped' = (overlapped \/ Busy # {})
    /\ raced' = (raced \/ admin # "idle")
    /\ UNCHANGED <<diskVars, triage, admin, budget, boot, wiped>>

\* upsert_incident(): session.get() reads the row ...
Select(w) ==
    /\ task[w].pc = "get"
    /\ task' = [task EXCEPT
                   ![w].pc = "fill",
                   ![w].seen = IF task[w].id \in DOMAIN rows THEN rows[task[w].id] ELSE NoRow]
    /\ UNCHANGED <<engineVars, diskVars, triage, admin, budget, historyVars>>

\* ... the task resumes and copies the incident, as it is by now, onto it.
\* Whether it is actionable was decided when the task correlated.
Fill(w) ==
    /\ task[w].pc = "fill"
    /\ task' = [task EXCEPT
                   ![w].pc = "commit",
                   ![w].snap = [count |-> count[task[w].id],
                                actionable |-> task[w].actionable,
                                status |-> task[w].seen.status]]
    /\ UNCHANGED <<engineVars, diskVars, triage, admin, budget, historyVars>>

\* A column is written only where the new value differs from the one loaded.
Column(old, new, stored) == IF new # old THEN new ELSE stored

\* Mutant of Updated: every column is written, those loaded earlier included.
UpdatedWholeRow(t, stored) == t.snap

Updated(t, stored) ==
    [stored EXCEPT !.count = Column(t.seen.count, t.snap.count, @),
                   !.actionable = Column(t.seen.actionable, t.snap.actionable, @)]

Inserted(t) ==
    [i \in DOMAIN rows \cup {t.id} |-> IF i = t.id THEN t.snap ELSE rows[i]]

Unchanged(t) == t.seen = t.snap

\* The exception of a failed statement leaves process(): the event's other
\* detections are dropped and the collector is told 400.
Abandoned(w) == task' = [task EXCEPT ![w] = Idle]

\* Mutant of Commit: an existing row is left as it is.
CommitInsertsOnly(w) ==
    /\ task[w].pc = "commit"
    /\ LET t == task[w]
       IN  /\ rows' = IF t.id \in DOMAIN rows THEN rows ELSE Inserted(t)
           /\ task' = [task EXCEPT ![w].pc = "save"]
    /\ UNCHANGED <<engineVars, saved, triage, admin, budget, historyVars>>

\* session.commit(): the INSERT fails if the id was inserted meanwhile, the
\* UPDATE if the row was deleted meanwhile; nothing is sent if nothing changed.
Commit(w) ==
    /\ task[w].pc = "commit"
    /\ LET t == task[w]
           inserts == t.seen = NoRow
           exists  == t.id \in DOMAIN rows
       IN  \/ /\ inserts /\ ~exists
              /\ rows' = Inserted(t)
              /\ task' = [task EXCEPT ![w].pc = "save"]
           \/ /\ ~inserts /\ exists /\ ~Unchanged(t)
              /\ rows' = [rows EXCEPT ![t.id] = Updated(t, @)]
              /\ task' = [task EXCEPT ![w].pc = "save"]
           \/ /\ ~inserts /\ Unchanged(t)
              /\ task' = [task EXCEPT ![w].pc = "save"]
              /\ UNCHANGED rows
           \/ /\ (inserts /\ exists) \/ (~inserts /\ ~exists /\ ~Unchanged(t))
              /\ Abandoned(w)
              /\ UNCHANGED rows
    /\ UNCHANGED <<engineVars, saved, triage, admin, budget, historyVars>>

\* save_detection(): one row of its own.  SQLite is not asked to enforce the
\* foreign key, so a missing incident does not stop it.
Save(w) ==
    /\ task[w].pc = "save"
    /\ saved' = [saved EXCEPT ![task[w].id] = @ + 1]
    /\ task' = [task EXCEPT ![w].pc = "next"]
    /\ UNCHANGED <<engineVars, rows, triage, admin, budget, historyVars>>

\* Mutant of Continue: the end of the event's detections is not noticed.
ContinueForever(w) ==
    /\ task[w].pc = "next"
    /\ CorrelateOn(w, task[w].root, task[w].left - 1)
    /\ UNCHANGED <<raised, diskVars, triage, admin, budget, historyVars>>

\* After the broadcasts: the event's next detection, or the 202 response.
Continue(w) ==
    /\ task[w].pc = "next"
    /\ \/ /\ task[w].left > 0
          /\ CorrelateOn(w, task[w].root, task[w].left - 1)
       \/ /\ task[w].left = 0
          /\ Abandoned(w)
          /\ UNCHANGED <<open, count, nextId>>
    /\ UNCHANGED <<raised, diskVars, triage, admin, budget, historyVars>>

\* Any statement may fail ("database is locked", disk full).
DatabaseError(w) ==
    /\ task[w].pc \in {"get", "commit", "save"}
    /\ budget.fault > 0
    /\ budget' = [budget EXCEPT !.fault = @ - 1]
    /\ Abandoned(w)
    /\ UNCHANGED <<engineVars, diskVars, triage, admin, historyVars>>

\* The sweep, or the window seen by correlate(), closes an incident.
Close(root) ==
    /\ open[root] # 0
    /\ open' = [open EXCEPT ![root] = 0]
    /\ UNCHANGED <<count, nextId, raised, diskVars, task, triage, admin, budget, historyVars>>

-----------------------------------------------------------------------------
(* The analyst: update_incident_status().                                  *)

TriageSelect(id, status) ==
    /\ triage = NoTriage
    /\ id \in DOMAIN rows
    /\ budget.triage > 0
    /\ budget' = [budget EXCEPT !.triage = @ - 1]
    /\ triage' = [pc |-> "commit", id |-> id, seen |-> rows[id].status, status |-> status]
    /\ UNCHANGED <<engineVars, diskVars, task, admin, historyVars>>

TriageCommit ==
    /\ triage.pc = "commit"
    /\ rows' = IF triage.id \in DOMAIN rows
               THEN [rows EXCEPT ![triage.id].status =
                                   Column(triage.seen, triage.status, @)]
               ELSE rows
    /\ triage' = NoTriage
    /\ UNCHANGED <<engineVars, saved, task, admin, budget, historyVars>>

-----------------------------------------------------------------------------
(* The administrator: DELETE /admin/database; and the end of the process.  *)

ResetRequest ==
    /\ admin = "idle"
    /\ budget.reset > 0
    /\ budget' = [budget EXCEPT !.reset = @ - 1]
    /\ admin' = "deleting"
    /\ raced' = (raced \/ Busy # {})
    /\ UNCHANGED <<engineVars, diskVars, task, triage, boot, wiped, overlapped>>

\* Mutant of ResetDelete: the detections are not deleted with the incidents.
ResetDeleteIncidentsOnly ==
    /\ admin = "deleting"
    /\ rows' = [i \in {} |-> NoRow]
    /\ admin' = "rebuild"
    /\ UNCHANGED <<engineVars, saved, task, triage, budget, historyVars>>

\* reset_database(): both tables in one transaction.
ResetDelete ==
    /\ admin = "deleting"
    /\ rows' = [i \in {} |-> NoRow]
    /\ saved' = [i \in Id |-> 0]
    /\ admin' = "rebuild"
    /\ UNCHANGED <<engineVars, task, triage, budget, historyVars>>

\* The transaction fails: nothing is deleted and the engine stays.
ResetFails ==
    /\ admin = "deleting"
    /\ budget.fault > 0
    /\ budget' = [budget EXCEPT !.fault = @ - 1]
    /\ admin' = "idle"
    /\ UNCHANGED <<engineVars, diskVars, task, triage, historyVars>>

\* Mutant of ResetRebuild: the engine is left as it was.
ResetRebuildSkipped ==
    /\ admin = "rebuild"
    /\ wiped' = nextId
    /\ admin' = "idle"
    /\ UNCHANGED <<engineVars, diskVars, task, triage, budget, boot, overlapped, raced>>

\* Pipeline.reset(): a new engine with nothing open.
ResetRebuild ==
    /\ admin = "rebuild"
    /\ open' = [r \in Root |-> 0]
    /\ wiped' = nextId
    /\ admin' = "idle"
    /\ UNCHANGED <<count, nextId, raised, diskVars, task, triage, budget, boot, overlapped, raced>>

\* The process dies and is restarted: only the tables survive.
Crash ==
    /\ budget.crash > 0
    /\ budget' = [budget EXCEPT !.crash = @ - 1]
    /\ open' = [r \in Root |-> 0]
    /\ boot' = nextId
    /\ task' = [w \in Worker |-> Idle]
    /\ triage' = NoTriage
    /\ admin' = "idle"
    /\ UNCHANGED <<count, nextId, raised, diskVars, wiped, overlapped, raced>>

Next ==
    \/ \E w \in Worker :
          \/ \E root \in Root, n \in 1..MaxPerEvent : Arrive(w, root, n)
          \/ Select(w) \/ Fill(w) \/ Commit(w) \/ Save(w) \/ Continue(w)
          \/ DatabaseError(w)
    \/ \E root \in Root : Close(root)
    \/ \E id \in Id, status \in Status : TriageSelect(id, status)
    \/ TriageCommit
    \/ ResetRequest \/ ResetDelete \/ ResetFails \/ ResetRebuild
    \/ Crash

Spec == Init /\ [][Next]_vars

-----------------------------------------------------------------------------
(* Properties.                                                             *)

Task ==
    [pc : {"idle", "get", "fill", "commit", "save", "next"}, root : Root,
     left : 0..MaxPerEvent, id : 0..MaxDetections, actionable : BOOLEAN,
     seen : Row, snap : Row]

\* Type invariant; a busy task works for an incident the engine has created,
\* and an open incident is one too.
TypeOK ==
    /\ open \in [Root -> 0..MaxDetections]
    /\ count \in [Id -> Nat]
    /\ nextId \in 1..(MaxDetections + 1)
    /\ raised \in 0..MaxDetections
    /\ DOMAIN rows \subseteq Id /\ rows \in [DOMAIN rows -> Row]
    /\ saved \in [Id -> Nat]
    /\ task \in [Worker -> Task]
    /\ \A w \in Busy : task[w].id \in 1..(nextId - 1)
    /\ \A r \in Root : open[r] < nextId
    /\ triage \in [pc : {"idle", "commit"}, id : 0..MaxDetections, seen : Status, status : Status]
    /\ admin \in {"idle", "deleting", "rebuild"}

\* The engine inserts a row as open and never writes its status again, even
\* when an analyst's update commits between its read and its commit
\* (schemas.py:37-39, db.py:112-117, 184-210).
TriageOnlyByAnalyst ==
    [][\A i \in DOMAIN rows' :
          IF i \in DOMAIN rows
          THEN rows'[i].status # rows[i].status =>
                  triage.id = i /\ rows'[i].status = triage.status /\ triage' = NoTriage
          ELSE rows'[i].status = "open"]_vars

\* A stored detection refers to a stored incident (pipeline.py:138-139), also
\* after overlapping ingests, failed statements and crashes.
DetectionHasIncident ==
    ~raced => \A i \in Id : saved[i] > 0 => i \in DOMAIN rows

FaultsSoFar == MaxFaults - budget.fault
Live == {i \in Id : boot <= i /\ wiped <= i /\ i < nextId}

\* With one ingest at a time, the tables are exact whenever nothing is in
\* progress; at any moment, a crash included, an incident's row is ahead of
\* its stored detections by at most the one in progress and one for each
\* failed statement (db.py:185-189).
DiskAccurate ==
    ~overlapped /\ ~raced =>
        /\ \A i \in DOMAIN rows : rows[i].count - saved[i] \in 0..(1 + FaultsSoFar)
        /\ Busy = {} /\ admin = "idle" /\ FaultsSoFar = 0 => \A i \in Live :
              /\ i \in DOMAIN rows
              /\ rows[i].count = count[i] /\ saved[i] = count[i]
              /\ rows[i].actionable = (count[i] >= ActionableAt)

\* After a reset that met no ingest in progress, no row of the old engine
\* exists or comes back (admin.py:45-49, pipeline.py:42-48).
ResetWipes ==
    ~raced /\ admin = "idle" =>
        \A i \in Id : i \in DOMAIN rows \/ saved[i] > 0 => i >= wiped

\* "what is on disk is still accurate as of the last detection seen"
\* (db.py:188-189), for overlapping ingests too.
DiskAccurateWhenQuiet ==
    Busy = {} => \A i \in Live :
        i \in DOMAIN rows /\ rows[i].count = count[i] /\ saved[i] = count[i]

-----------------------------------------------------------------------------
(* The tables as a ledger.                                                 *)

ToldByRow == [i \in Id |-> IF i \in DOMAIN rows THEN rows[i].count ELSE 0]
StatusOfRow == [i \in Id |-> IF i \in DOMAIN rows THEN rows[i].status ELSE "open"]

Ledger == INSTANCE CaseLedger WITH
    Case <- Id, Verdict <- Status,
    told <- ToldByRow, filed <- saved, verdict <- StatusOfRow

\* Each commit is a step of the ledger, until two ingests overlap or a reset
\* meets one: no entry falls back to an earlier state, no detection is stored
\* before its incident tells of it (pipeline.py:136-139), triage and upserts
\* leave each other's columns alone (db.py:112-117) and a reset leaves nothing
\* behind, although statements fail and the process dies in between.
StoreIsLedger ==
    Ledger!Blank /\ [][overlapped' \/ raced' \/ Ledger!LedgerNext]_(Ledger!ledgerVars)
=============================================================================
