-------------------------- MODULE PersistenceProofs --------------------------
(***************************************************************************)
(* Machine-checked proofs about persistence, for any number of ingests in  *)
(* progress, correlation keys and detections per event, and any numbers of *)
(* triages, failed statements, resets and crashes.                         *)
(***************************************************************************)
EXTENDS Persistence, TLAPS

\* A task that is about to commit carries the status it loaded.
SnapKeepsStatus ==
    \A w \in Worker : task[w].pc = "commit" => task[w].snap.status = task[w].seen.status

\* Unless the two have met, nothing is being ingested during a reset.
ResetAlone ==
    ~raced /\ admin # "idle" => \A w \in Worker : task[w].pc = "idle"

\* A row that a task has written or read is still there.
RowsRemain ==
    ~raced => \A w \in Worker :
        /\ task[w].pc = "save" => task[w].id \in DOMAIN rows
        /\ task[w].pc \in {"fill", "commit"} /\ task[w].seen # NoRow
              => task[w].id \in DOMAIN rows

\* What is stored, attached to or being ingested is not older than the engine.
SinceWiped ==
    /\ wiped \in Int
    /\ ~raced =>
        /\ wiped <= nextId
        /\ \A r \in Root : open[r] # 0 => open[r] >= wiped
        /\ \A w \in Busy : task[w].id >= wiped
        /\ \A i \in Id : i \in DOMAIN rows \/ saved[i] > 0 => i >= wiped /\ admin # "rebuild"

StoreInv ==
    TypeOK /\ SnapKeepsStatus /\ ResetAlone /\ RowsRemain /\ DetectionHasIncident /\ SinceWiped

(* Records used as initial values have the types of their variables. *)
LEMMA ConstantFacts ==
    /\ NoRow \in Row
    /\ Idle \in Task
    /\ Idle.pc = "idle" /\ NoRow.status = "open"
    /\ NoTriage \in [pc : {"idle", "commit"}, id : 0..MaxDetections, seen : Status, status : Status]
BY BoundAssumption DEF NoRow, Row, Status, Idle, Task, NoTriage

(* The empty tables and the idle tasks satisfy the invariant. *)
LEMMA StoreInit == Init => StoreInv
<1> USE ConstantFacts, BoundAssumption
<1> SUFFICES ASSUME Init PROVE StoreInv
  OBVIOUS
<1>1. TypeOK
  BY DEF Init, TypeOK, Busy, Id
<1>2. SnapKeepsStatus /\ ResetAlone /\ RowsRemain /\ DetectionHasIncident /\ SinceWiped
  BY DEF Init, SnapKeepsStatus, ResetAlone, RowsRemain, DetectionHasIncident, SinceWiped, Busy
<1> QED BY <1>1, <1>2 DEF StoreInv

-----------------------------------------------------------------------------
(* Type correctness.                                                       *)

(* Correlating keeps the engine and the task well typed: the task's incident
   has been created, and no id is beyond the bound. *)
LEMMA CorrelateTypes ==
    ASSUME TypeOK, NEW w \in Worker, NEW root \in Root, NEW left \in 0..MaxPerEvent,
           CorrelateOn(w, root, left)
    PROVE  /\ open' \in [Root -> 0..MaxDetections]
           /\ count' \in [Id -> Nat]
           /\ nextId' \in 1..(MaxDetections + 1)
           /\ task' \in [Worker -> Task]
           /\ \A v \in Worker : task'[v].pc # "idle" => task'[v].id \in 1..(nextId' - 1)
           /\ \A r \in Root : open'[r] < nextId'
<1> USE BoundAssumption DEF Id
<1>1. /\ open \in [Root -> 0..MaxDetections] /\ open[root] \in 0..MaxDetections
      /\ open[root] < nextId /\ \A r \in Root : open[r] < nextId
      /\ nextId \in 1..(MaxDetections + 1)
      /\ count \in [Id -> Nat] /\ task \in [Worker -> Task]
  BY DEF TypeOK
<1>2. /\ Target(root) \in Id
      /\ nextId' = IF open[root] = 0 THEN nextId + 1 ELSE nextId
      /\ open' = [open EXCEPT ![root] = Target(root)]
      /\ count' = [count EXCEPT ![Target(root)] = @ + 1]
      /\ task' = [task EXCEPT ![w] = Begun(root, left)]
  BY DEF CorrelateOn
<1>3. /\ nextId' >= nextId /\ nextId' \in 1..(MaxDetections + 1)
      /\ Target(root) < nextId'
  BY <1>1, <1>2 DEF Target
<1>4. open' \in [Root -> 0..MaxDetections] /\ \A r \in Root : open'[r] < nextId'
  BY <1>1, <1>2, <1>3
<1>5. count' \in [Id -> Nat]
  BY <1>1, <1>2
<1>6. /\ Begun(root, left) \in Task
      /\ Begun(root, left).id = Target(root)
  <2> DEFINE act == count[Target(root)] + 1 >= ActionableAt
  <2>1. act \in BOOLEAN
    OBVIOUS
  <2>2. Target(root) \in 0..MaxDetections
    BY <1>2
  <2>3. Begun(root, left) =
           [pc |-> "get", root |-> root, left |-> left, id |-> Target(root),
            actionable |-> act, seen |-> NoRow, snap |-> NoRow]
    BY DEF Begun
  <2> HIDE DEF act
  <2> QED BY <2>1, <2>2, <2>3, ConstantFacts DEF Task
<1>7. task' \in [Worker -> Task]
  BY <1>1, <1>2, <1>6
<1>8. ASSUME NEW v \in Worker, task'[v].pc # "idle" PROVE task'[v].id \in 1..(nextId' - 1)
  <2>1. CASE v = w
    <3>1. task'[v] = Begun(root, left)
      BY <1>1, <1>2, <2>1
    <3> QED BY <1>1, <1>2, <1>3, <1>6, <3>1
  <2>2. CASE v # w
    <3>1. task'[v] = task[v]
      BY <1>1, <1>2, <2>2
    <3>2. task[v].id \in 1..(nextId - 1)
      BY <1>8, <3>1 DEF TypeOK, Busy
    <3>3. task[v].id \in 1..(nextId' - 1)
      BY <1>1, <1>3, <3>2
    <3> QED BY <3>1, <3>3
  <2> QED BY <2>1, <2>2
<1> QED BY <1>3, <1>4, <1>5, <1>7, <1>8

(* A step of one task that keeps its incident or ends it keeps the tasks typed. *)
LEMMA TaskTypes ==
    ASSUME TypeOK, NEW w \in Worker, NEW t \in Task, UNCHANGED nextId,
           task' = [task EXCEPT ![w] = t],
           t.pc # "idle" => task[w].pc # "idle" /\ t.id = task[w].id
    PROVE  /\ task' \in [Worker -> Task]
           /\ \A v \in Busy' : task'[v].id \in 1..(nextId' - 1)
BY DEF TypeOK, Busy

(* The conjuncts of TypeOK a step of one task leaves alone. *)
LEMMA TaskStepTypes ==
    ASSUME TypeOK, NEW w \in Worker, NEW t \in Task, UNCHANGED engineVars,
           DOMAIN rows' \subseteq Id, rows' \in [DOMAIN rows' -> Row], saved' \in [Id -> Nat],
           UNCHANGED <<triage, admin>>,
           task' = [task EXCEPT ![w] = t],
           t.pc # "idle" => task[w].pc # "idle" /\ t.id = task[w].id
    PROVE  TypeOK'
<1>1. UNCHANGED <<open, count, nextId, raised>>
  BY DEF engineVars
<1>2. /\ task' \in [Worker -> Task]
      /\ \A v \in Busy' : task'[v].id \in 1..(nextId' - 1)
  BY <1>1, TaskTypes
<1> QED BY <1>1, <1>2 DEF TypeOK

(* Every step of the system keeps every variable in its type. *)
LEMMA TypeStep == TypeOK /\ [Next]_vars => TypeOK'
<1> USE BoundAssumption, ConstantFacts
<1> SUFFICES ASSUME TypeOK, [Next]_vars PROVE TypeOK'
  OBVIOUS
<1>0. /\ task \in [Worker -> Task] /\ rows \in [DOMAIN rows -> Row] /\ DOMAIN rows \subseteq Id
      /\ saved \in [Id -> Nat] /\ count \in [Id -> Nat]
      /\ \A w \in Worker : task[w].pc # "idle" => task[w].id \in Id /\ task[w].id < nextId
      /\ nextId \in 1..(MaxDetections + 1)
  BY DEF TypeOK, Busy, Id
<1>1. ASSUME NEW w \in Worker, NEW root \in Root, NEW n \in 1..MaxPerEvent, Arrive(w, root, n)
      PROVE  TypeOK'
  <2>1. n - 1 \in 0..MaxPerEvent /\ CorrelateOn(w, root, n - 1)
    BY <1>1 DEF Arrive
  <2>2. raised' \in 0..MaxDetections /\ UNCHANGED <<diskVars, triage, admin>>
    BY <1>1 DEF Arrive, TypeOK
  <2> QED BY <2>1, <2>2, CorrelateTypes DEF TypeOK, diskVars, Busy
<1>2. ASSUME NEW w \in Worker, Select(w) PROVE TypeOK'
  <2> DEFINE seen == IF task[w].id \in DOMAIN rows THEN rows[task[w].id] ELSE NoRow
             t == [task[w] EXCEPT !.pc = "fill", !.seen = seen]
  <2>1. seen \in Row /\ task[w] \in Task /\ task[w].pc = "get"
    BY <1>0, <1>2 DEF Select
  <2>2. task' = [task EXCEPT ![w] = t]
    BY <1>2 DEF Select
  <2>3. t \in Task /\ t.id = task[w].id
    BY <2>1 DEF Task
  <2>4. UNCHANGED <<engineVars, diskVars, triage, admin>>
    BY <1>2 DEF Select
  <2> HIDE DEF t
  <2> QED BY <1>0, <2>1, <2>2, <2>3, <2>4, TaskStepTypes DEF diskVars
<1>3. ASSUME NEW w \in Worker, Fill(w) PROVE TypeOK'
  <2> DEFINE snap == [count |-> count[task[w].id], actionable |-> task[w].actionable,
                      status |-> task[w].seen.status]
             t == [task[w] EXCEPT !.pc = "commit", !.snap = snap]
  <2>1. task[w] \in Task /\ task[w].pc = "fill" /\ count[task[w].id] \in Nat
    BY <1>0, <1>3 DEF Fill
  <2>2. snap \in Row
    BY <2>1 DEF Task, Row
  <2>3. task' = [task EXCEPT ![w] = t]
    BY <1>3 DEF Fill
  <2>4. t \in Task /\ t.id = task[w].id
    <3> HIDE DEF snap
    <3> QED BY <2>1, <2>2 DEF Task
  <2>5. UNCHANGED <<engineVars, diskVars, triage, admin>>
    BY <1>3 DEF Fill
  <2> HIDE DEF t
  <2> QED BY <1>0, <2>1, <2>3, <2>4, <2>5, TaskStepTypes DEF diskVars
<1>4. ASSUME NEW w \in Worker, Commit(w) PROVE TypeOK'
  <2> DEFINE t == task[w]
             saving == [t EXCEPT !.pc = "save"]
  <2>1. /\ t \in Task /\ t.pc = "commit" /\ t.id \in Id
        /\ t.snap \in Row /\ t.seen \in Row
    BY <1>0, <1>4 DEF Commit, Task
  <2>2. saving \in Task /\ saving.id = t.id
    BY <2>1 DEF Task
  <2>3. /\ task' = [task EXCEPT ![w] = saving] \/ task' = [task EXCEPT ![w] = Idle]
        /\ UNCHANGED <<engineVars, saved, triage, admin>>
    BY <1>4 DEF Commit, Abandoned
  <2>4. DOMAIN rows' \subseteq Id /\ rows' \in [DOMAIN rows' -> Row]
    <3>1. CASE rows' = Inserted(t)
      BY <1>0, <2>1, <3>1 DEF Inserted
    <3>2. CASE t.id \in DOMAIN rows /\ rows' = [rows EXCEPT ![t.id] = Updated(t, @)]
      <4>1. Updated(t, rows[t.id]) \in Row
        BY <1>0, <2>1, <3>2 DEF Updated, Column, Row
      <4> QED BY <1>0, <3>2, <4>1
    <3>3. CASE UNCHANGED rows
      BY <1>0, <3>3
    <3> QED BY <1>4, <3>1, <3>2, <3>3 DEF Commit
  <2> HIDE DEF t, saving
  <2> QED BY <1>0, <2>1, <2>2, <2>3, <2>4, TaskStepTypes DEF t
<1>5. ASSUME NEW w \in Worker, Save(w) PROVE TypeOK'
  <2> DEFINE t == [task[w] EXCEPT !.pc = "next"]
  <2>1. /\ task[w] \in Task /\ task[w].pc = "save"
        /\ task' = [task EXCEPT ![w] = t]
        /\ saved' \in [Id -> Nat]
        /\ UNCHANGED <<engineVars, rows, triage, admin>>
    BY <1>0, <1>5 DEF Save
  <2>2. t \in Task /\ t.id = task[w].id
    BY <2>1 DEF Task
  <2> HIDE DEF t
  <2> QED BY <1>0, <2>1, <2>2, TaskStepTypes
<1>6. ASSUME NEW w \in Worker, Continue(w) PROVE TypeOK'
  <2>1. UNCHANGED <<raised, diskVars, triage, admin>>
    BY <1>6 DEF Continue
  <2>2. CASE task[w].left > 0 /\ CorrelateOn(w, task[w].root, task[w].left - 1)
    <3>1. task[w].root \in Root /\ task[w].left - 1 \in 0..MaxPerEvent
      BY <1>0, <2>2 DEF Task
    <3> QED BY <2>1, <2>2, <3>1, CorrelateTypes DEF TypeOK, diskVars, Busy
  <2>3. CASE Abandoned(w) /\ UNCHANGED <<open, count, nextId>>
    BY <1>0, <2>1, <2>3, TaskStepTypes DEF Abandoned, diskVars, engineVars
  <2> QED BY <1>6, <2>2, <2>3 DEF Continue
<1>7. ASSUME NEW w \in Worker, DatabaseError(w) PROVE TypeOK'
  BY <1>0, <1>7, TaskStepTypes DEF DatabaseError, Abandoned, diskVars
<1>8. ASSUME NEW root \in Root, Close(root) PROVE TypeOK'
  BY <1>0, <1>8 DEF Close, TypeOK, diskVars, Busy
<1>9. ASSUME NEW id \in Id, NEW status \in Status, TriageSelect(id, status) PROVE TypeOK'
  <2>1. /\ triage' = [pc |-> "commit", id |-> id, seen |-> rows[id].status, status |-> status]
        /\ rows[id].status \in Status
    BY <1>0, <1>9 DEF TriageSelect, Row
  <2>2. triage' \in [pc : {"idle", "commit"}, id : 0..MaxDetections,
                     seen : Status, status : Status]
    BY <2>1 DEF Id
  <2>3. UNCHANGED <<engineVars, diskVars, task, admin>>
    BY <1>9 DEF TriageSelect
  <2> QED BY <2>2, <2>3 DEF TypeOK, engineVars, diskVars, Busy
<1>10. ASSUME TriageCommit PROVE TypeOK'
  <2>1. triage.status \in Status /\ triage.seen \in Status
    BY DEF TypeOK
  <2>2. DOMAIN rows' = DOMAIN rows /\ rows' \in [DOMAIN rows -> Row]
    BY <1>0, <1>10, <2>1 DEF TriageCommit, Column, Row
  <2> QED BY <1>10, <2>2, ConstantFacts DEF TriageCommit, TypeOK, engineVars, Busy
<1>11. ASSUME ResetRequest \/ ResetDelete \/ ResetFails \/ ResetRebuild PROVE TypeOK'
  <2>1. CASE ResetRequest \/ ResetFails
    BY <2>1 DEF ResetRequest, ResetFails, TypeOK, engineVars, diskVars, Busy
  <2>2. CASE ResetDelete
    BY <2>2 DEF ResetDelete, TypeOK, engineVars, Busy
  <2>3. CASE ResetRebuild
    BY <2>3 DEF ResetRebuild, TypeOK, diskVars, Busy
  <2> QED BY <1>11, <2>1, <2>2, <2>3
<1>12. ASSUME Crash PROVE TypeOK'
  <2>1. task' \in [Worker -> Task] /\ Busy' = {}
    BY <1>12 DEF Crash, Busy
  <2> QED BY <1>12, <2>1 DEF Crash, TypeOK, diskVars
<1>13. ASSUME UNCHANGED vars PROVE TypeOK'
  BY <1>13 DEF vars, engineVars, diskVars, TypeOK, Busy
<1> QED
  BY <1>1, <1>2, <1>3, <1>4, <1>5, <1>6, <1>7, <1>8, <1>9, <1>10, <1>11, <1>12, <1>13
     DEF Next

-----------------------------------------------------------------------------
(* The tables.                                                             *)

Flow == SnapKeepsStatus /\ ResetAlone /\ RowsRemain /\ DetectionHasIncident /\ SinceWiped

(* Correlating a detection keeps the tables' invariants: the task has read
   nothing yet, and its incident belongs to the current engine. *)
LEMMA CorrelateFlow ==
    ASSUME StoreInv, NEW w \in Worker, NEW root \in Root, NEW left \in 0..MaxPerEvent,
           CorrelateOn(w, root, left), UNCHANGED <<diskVars, admin, wiped>>,
           ~raced' => ~raced /\ admin = "idle"
    PROVE  Flow'
<1> USE DEF diskVars
<1>1. /\ task' = [task EXCEPT ![w] = Begun(root, left)]
      /\ task \in [Worker -> Task]
  BY DEF CorrelateOn, StoreInv, TypeOK
<1>2. /\ task'[w].pc = "get" /\ task'[w].id = Target(root)
      /\ \A v \in Worker \ {w} : task'[v] = task[v]
  BY <1>1 DEF Begun
<1>3. SnapKeepsStatus' /\ ResetAlone' /\ RowsRemain' /\ DetectionHasIncident'
  BY <1>2 DEF StoreInv, SnapKeepsStatus, ResetAlone, RowsRemain, DetectionHasIncident
<1>4. ASSUME ~raced'
      PROVE  /\ wiped' <= nextId'
             /\ Target(root) >= wiped'
             /\ \A r \in Root : open'[r] # 0 => open'[r] >= wiped'
  <2>1. /\ wiped \in Int /\ wiped <= nextId
        /\ \A r \in Root : open[r] # 0 => open[r] >= wiped
        /\ open \in [Root -> 0..MaxDetections] /\ nextId \in Int
    BY <1>4 DEF StoreInv, SinceWiped, TypeOK
  <2>2. /\ open' = [open EXCEPT ![root] = Target(root)]
        /\ nextId' = IF open[root] = 0 THEN nextId + 1 ELSE nextId
    BY DEF CorrelateOn
  <2> QED BY <2>1, <2>2 DEF Target
<1>5. SinceWiped'
  BY <1>2, <1>4 DEF StoreInv, SinceWiped, Busy
<1> QED BY <1>3, <1>5 DEF Flow

(* Every step keeps the tables' invariants. *)
LEMMA StoreStep == StoreInv /\ [Next]_vars => StoreInv'
<1> SUFFICES ASSUME StoreInv, [Next]_vars PROVE StoreInv'
  OBVIOUS
<1>0. /\ TypeOK /\ TypeOK' /\ Flow
      /\ task \in [Worker -> Task] /\ rows \in [DOMAIN rows -> Row] /\ DOMAIN rows \subseteq Id
      /\ saved \in [Id -> Nat]
      /\ \A w \in Worker : task[w].pc # "idle" => task[w].id \in Id
  <2>1. TypeOK /\ TypeOK' /\ Flow
    BY TypeStep DEF StoreInv, Flow
  <2>2. ASSUME NEW w \in Worker, task[w].pc # "idle" PROVE task[w].id \in Id
    <3>1. task[w].id \in 1..(nextId - 1) /\ nextId \in 1..(MaxDetections + 1)
      BY <2>1, <2>2 DEF TypeOK, Busy
    <3> QED BY <3>1, BoundAssumption DEF Id
  <2> QED BY <2>1, <2>2 DEF TypeOK
<1>1. ASSUME NEW w \in Worker, NEW root \in Root, NEW n \in 1..MaxPerEvent, Arrive(w, root, n)
      PROVE  Flow'
  <2>1. n - 1 \in 0..MaxPerEvent
    BY BoundAssumption
  <2>2. CorrelateOn(w, root, n - 1) /\ UNCHANGED <<diskVars, admin, wiped>>
    BY <1>1 DEF Arrive
  <2>3. ~raced' => ~raced /\ admin = "idle"
    BY <1>1, Zenon DEF Arrive
  <2> QED BY <2>1, <2>2, <2>3, CorrelateFlow
<1>2. ASSUME NEW w \in Worker, Continue(w) PROVE Flow'
  <2>1. task[w].pc = "next" /\ UNCHANGED <<diskVars, admin, wiped, raced>>
    BY <1>2 DEF Continue, historyVars
  <2>2. CASE task[w].left > 0 /\ CorrelateOn(w, task[w].root, task[w].left - 1)
    <3>1. task[w].root \in Root /\ task[w].left - 1 \in 0..MaxPerEvent
      <4>1. task[w].root \in Root /\ task[w].left \in 0..MaxPerEvent
        BY <1>0 DEF Task
      <4> QED BY <2>2, <4>1, BoundAssumption
    <3>2. ~raced' => ~raced /\ admin = "idle"
      BY <1>0, <2>1 DEF Flow, ResetAlone
    <3> QED BY <2>1, <2>2, <3>1, <3>2, CorrelateFlow
  <2>3. CASE Abandoned(w) /\ UNCHANGED <<open, count, nextId>>
    <3>1. /\ task'[w].pc = "idle" /\ \A v \in Worker \ {w} : task'[v] = task[v]
      BY <1>0, <2>3, ConstantFacts DEF Abandoned
    <3> QED BY <1>0, <2>1, <2>3, <3>1
       DEF diskVars, Flow, SnapKeepsStatus, ResetAlone, RowsRemain, DetectionHasIncident,
           SinceWiped, Busy
  <2> QED BY <1>2, <2>2, <2>3 DEF Continue
<1> USE DEF Flow, SnapKeepsStatus, ResetAlone, RowsRemain, DetectionHasIncident, SinceWiped, Busy
<1>3. ASSUME NEW w \in Worker, Select(w) PROVE Flow'
  <2>1. /\ task[w].pc = "get" /\ task'[w].pc = "fill" /\ task'[w].id = task[w].id
        /\ task'[w].seen = IF task[w].id \in DOMAIN rows THEN rows[task[w].id] ELSE NoRow
        /\ \A v \in Worker \ {w} : task'[v] = task[v]
        /\ UNCHANGED <<open, nextId, rows, saved, admin, wiped, raced>>
    <3> DEFINE seen == IF task[w].id \in DOMAIN rows THEN rows[task[w].id] ELSE NoRow
    <3>1. task' = [task EXCEPT ![w] = [task[w] EXCEPT !.pc = "fill", !.seen = seen]]
      BY <1>3 DEF Select
    <3> HIDE DEF seen
    <3>2. /\ task'[w].pc = "fill" /\ task'[w].id = task[w].id /\ task'[w].seen = seen
          /\ \A v \in Worker \ {w} : task'[v] = task[v]
      BY <1>0, <3>1 DEF Task
    <3> QED BY <1>3, <3>2 DEF seen, Select, engineVars, diskVars, historyVars
  <2> QED BY <1>0, <2>1
<1>4. ASSUME NEW w \in Worker, Fill(w) PROVE Flow'
  <2>1. /\ task[w].pc = "fill" /\ task'[w].pc = "commit" /\ task'[w].id = task[w].id
        /\ task'[w].seen = task[w].seen
        /\ task'[w].snap.status = task[w].seen.status
        /\ \A v \in Worker \ {w} : task'[v] = task[v]
        /\ UNCHANGED <<open, nextId, rows, saved, admin, wiped, raced>>
    BY <1>0, <1>4 DEF Fill, Task, engineVars, diskVars, historyVars
  <2> QED BY <1>0, <2>1
<1>5. ASSUME NEW w \in Worker, Commit(w) PROVE Flow'
  <2>1. /\ task[w].pc = "commit" /\ task[w].id \in Id
        /\ task' = [task EXCEPT ![w].pc = "save"] \/ task' = [task EXCEPT ![w] = Idle]
        /\ UNCHANGED <<open, nextId, saved, admin, wiped, raced>>
    BY <1>0, <1>5 DEF Commit, Abandoned, engineVars, historyVars
  <2>2. /\ \A v \in Worker \ {w} : task'[v] = task[v]
        /\ \/ task'[w].pc = "save" /\ task'[w].id = task[w].id
           \/ task'[w].pc = "idle"
    BY <1>0, <2>1, ConstantFacts DEF Task
  <2>3. /\ DOMAIN rows \subseteq DOMAIN rows'
        /\ DOMAIN rows' \subseteq DOMAIN rows \cup {task[w].id}
        /\ ~raced /\ task'[w].pc = "save" => task[w].id \in DOMAIN rows'
    <3>1. CASE rows' = Inserted(task[w])
      BY <3>1 DEF Inserted
    <3>2. CASE task[w].id \in DOMAIN rows /\ rows' = [rows EXCEPT ![task[w].id] = Updated(task[w], @)]
      BY <1>0, <3>2
    <3>3. CASE task[w].seen # NoRow /\ UNCHANGED rows
      BY <1>0, <2>1, <3>3
    <3>4. CASE Abandoned(w) /\ UNCHANGED rows
      BY <1>0, <3>4, ConstantFacts DEF Abandoned
    <3> QED BY <1>5, <3>1, <3>2, <3>3, <3>4 DEF Commit
  <2> QED BY <1>0, <2>1, <2>2, <2>3
<1>6. ASSUME NEW w \in Worker, Save(w) PROVE Flow'
  <2>1. /\ task[w].pc = "save" /\ task[w].id \in Id
        /\ task'[w].pc = "next" /\ task'[w].id = task[w].id
        /\ \A v \in Worker \ {w} : task'[v] = task[v]
        /\ \A i \in Id : i # task[w].id => saved'[i] = saved[i]
        /\ UNCHANGED <<open, nextId, rows, admin, wiped, raced>>
    BY <1>0, <1>6 DEF Save, Task, engineVars, historyVars
  <2> QED BY <1>0, <2>1
<1>7. ASSUME NEW w \in Worker, DatabaseError(w) PROVE Flow'
  <2>1. /\ task'[w].pc = "idle" /\ \A v \in Worker \ {w} : task'[v] = task[v]
        /\ UNCHANGED <<open, nextId, rows, saved, admin, wiped, raced>>
    BY <1>0, <1>7, ConstantFacts DEF DatabaseError, Abandoned, engineVars, diskVars, historyVars
  <2> QED BY <1>0, <2>1
<1>8. ASSUME NEW root \in Root, Close(root) PROVE Flow'
  <2>1. /\ \A r \in Root : open'[r] # 0 => open'[r] = open[r]
        /\ UNCHANGED <<nextId, task, rows, saved, admin, wiped, raced>>
    BY <1>0, <1>8 DEF Close, TypeOK, diskVars, historyVars
  <2> QED BY <1>0, <2>1
<1>9. ASSUME NEW id \in Id, NEW status \in Status, TriageSelect(id, status) PROVE Flow'
  BY <1>0, <1>9 DEF TriageSelect, engineVars, diskVars, historyVars
<1>10. ASSUME TriageCommit PROVE Flow'
  <2>1. DOMAIN rows' = DOMAIN rows /\ UNCHANGED <<open, nextId, task, saved, admin, wiped, raced>>
    BY <1>10 DEF TriageCommit, engineVars, historyVars
  <2> QED BY <1>0, <2>1
<1>11. ASSUME ResetRequest PROVE Flow'
  BY <1>0, <1>11 DEF ResetRequest, engineVars, diskVars
<1>12. ASSUME ResetDelete PROVE Flow'
  <2>1. /\ DOMAIN rows' = {} /\ \A i \in Id : saved'[i] = 0
        /\ admin = "deleting" /\ admin' = "rebuild"
        /\ UNCHANGED <<open, nextId, task, wiped, raced>>
    BY <1>12 DEF ResetDelete, engineVars, historyVars
  <2> QED BY <1>0, <2>1
<1>13. ASSUME ResetFails PROVE Flow'
  BY <1>0, <1>13 DEF ResetFails, engineVars, diskVars, historyVars
<1>14. ASSUME ResetRebuild PROVE Flow'
  <2>1. nextId \in Int
    BY <1>0 DEF TypeOK
  <2> QED BY <1>0, <1>14, <2>1 DEF ResetRebuild, diskVars
<1>15. ASSUME Crash PROVE Flow'
  <2>1. /\ \A v \in Worker : task'[v].pc = "idle"
        /\ \A r \in Root : open'[r] = 0
        /\ admin' = "idle" /\ UNCHANGED <<nextId, rows, saved, wiped, raced>>
    BY <1>15, ConstantFacts DEF Crash, diskVars
  <2> QED BY <1>0, <2>1
<1>16. ASSUME UNCHANGED vars PROVE Flow'
  BY <1>0, <1>16 DEF vars, engineVars, diskVars, historyVars
<1>17. Flow'
  BY <1>1, <1>2, <1>3, <1>4, <1>5, <1>6, <1>7, <1>8, <1>9, <1>10, <1>11, <1>12, <1>13,
     <1>14, <1>15, <1>16 DEF Next
<1> QED BY <1>0, <1>17 DEF StoreInv

LEMMA StoreInvariant == Spec => []StoreInv
BY StoreInit, StoreStep, PTL DEF Spec

-----------------------------------------------------------------------------
(* The theorems.                                                           *)

(* Rows, tasks and the engine stay well formed; a busy task always works for
   an incident the engine has created. *)
THEOREM StoreTypeCorrect == Spec => []TypeOK
<1>1. StoreInv => TypeOK
  BY DEF StoreInv
<1> QED BY <1>1, StoreInvariant, PTL

(* However many ingests overlap, fail or are cut by a crash, a stored detection
   refers to a stored incident, unless a reset met an ingest in progress: the
   foreign key that SQLite does not enforce is kept by the order of
   upsert_incident() and save_detection() in process(). *)
THEOREM DetectionsHaveIncidents == Spec => []DetectionHasIncident
<1>1. StoreInv => DetectionHasIncident
  BY DEF StoreInv
<1> QED BY <1>1, StoreInvariant, PTL

(* After a reset that met no ingest, nothing older than the new engine is in
   the tables, nor comes back into them. *)
THEOREM ResetIsComplete == Spec => []ResetWipes
<1>1. StoreInv => ResetWipes
  BY DEF StoreInv, SinceWiped, ResetWipes
<1> QED BY <1>1, StoreInvariant, PTL

(* Only the analyst's own commit changes the status of a stored incident,
   whatever upserts it overlaps: an upsert carries the status it loaded, so
   the column is not written. *)
THEOREM TriageIsTheAnalysts == Spec => TriageOnlyByAnalyst
<1> DEFINE A == \A i \in DOMAIN rows' :
                   IF i \in DOMAIN rows
                   THEN rows'[i].status # rows[i].status =>
                           triage.id = i /\ rows'[i].status = triage.status /\ triage' = NoTriage
                   ELSE rows'[i].status = "open"
<1>1. StoreInv /\ [Next]_vars => [A]_vars
  <2> SUFFICES ASSUME StoreInv, Next, NEW i \in DOMAIN rows'
               PROVE  IF i \in DOMAIN rows
                      THEN rows'[i].status # rows[i].status =>
                              triage.id = i /\ rows'[i].status = triage.status /\ triage' = NoTriage
                      ELSE rows'[i].status = "open"
    OBVIOUS
  <2>0. /\ task \in [Worker -> Task] /\ rows \in [DOMAIN rows -> Row]
    BY DEF StoreInv, TypeOK
  <2>1. ASSUME NEW w \in Worker, Commit(w)
        PROVE  IF i \in DOMAIN rows THEN rows'[i].status = rows[i].status
               ELSE rows'[i].status = "open"
    <3>1. /\ task[w].pc = "commit"
          /\ task[w].snap.status = task[w].seen.status
      BY <2>1 DEF Commit, StoreInv, SnapKeepsStatus
    <3>2. CASE task[w].seen = NoRow /\ task[w].id \notin DOMAIN rows /\ rows' = Inserted(task[w])
      BY <3>1, <3>2, ConstantFacts DEF Inserted
    <3>3. CASE task[w].id \in DOMAIN rows /\ rows' = [rows EXCEPT ![task[w].id] = Updated(task[w], @)]
      <4>1. rows[task[w].id] \in Row
        BY <2>0, <3>3
      <4>2. Updated(task[w], rows[task[w].id]).status = rows[task[w].id].status
        BY <4>1 DEF Updated, Row
      <4> QED BY <2>0, <3>3, <4>2
    <3>4. CASE UNCHANGED rows
      BY <3>4
    <3> QED BY <2>1, <3>2, <3>3, <3>4 DEF Commit
  <2>2. CASE TriageCommit
    <3>1. triage.id \in DOMAIN rows => rows[triage.id] \in Row
      BY <2>0
    <3>2. CASE triage.id \in DOMAIN rows
      BY <2>0, <2>2, <3>1, <3>2 DEF TriageCommit, Column, Row
    <3>3. CASE triage.id \notin DOMAIN rows
      BY <2>2, <3>3 DEF TriageCommit
    <3> QED BY <3>2, <3>3
  <2>3. CASE ResetDelete
    BY <2>3 DEF ResetDelete
  <2>4. CASE UNCHANGED rows
    BY <2>4
  <2>5. \/ \E w \in Worker : Commit(w)
        \/ TriageCommit \/ ResetDelete \/ UNCHANGED rows
    BY DEF Next, Arrive, Select, Fill, Save, Continue, DatabaseError, Close, TriageSelect,
           ResetRequest, ResetFails, ResetRebuild, Crash, diskVars
  <2> QED BY <2>1, <2>2, <2>3, <2>4, <2>5
<1> QED BY <1>1, StoreInvariant, PTL DEF Spec, TriageOnlyByAnalyst

-----------------------------------------------------------------------------
(* How accurate the tables are while one ingest runs at a time.            *)

Actionable(n) == n >= ActionableAt

\* A detection of the incident is correlated and not yet committed, or not yet
\* saved.
Uncommitted(i) ==
    \E w \in Worker : task[w].pc \in {"get", "fill", "commit"} /\ task[w].id = i

Unsaved(i) ==
    \E w \in Worker : task[w].pc \in {"get", "fill", "commit", "save"} /\ task[w].id = i

ExactRow(i) ==
    /\ i \in DOMAIN rows /\ rows[i].count = count[i]
    /\ rows[i].actionable = Actionable(count[i])

\* What is beyond the next id has never been used; what is open or in progress
\* was created by the current process.
Fresh ==
    /\ boot \in 1..nextId
    /\ budget.fault \in 0..MaxFaults
    /\ DOMAIN budget = {"triage", "fault", "reset", "crash"}
    /\ \A i \in Id : i >= nextId => count[i] = 0 /\ saved[i] = 0 /\ i \notin DOMAIN rows
    /\ \A r \in Root : open[r] # 0 => open[r] >= boot
    /\ \A w \in Busy : task[w].id >= boot

\* What a task carries agrees with the engine and with the tables.
Knows(w) ==
    /\ task[w].pc \in {"get", "fill", "commit"} =>
          task[w].actionable = Actionable(count[task[w].id])
    /\ task[w].pc \in {"fill", "commit"} =>
          IF task[w].id \in DOMAIN rows
          THEN /\ task[w].seen.count = rows[task[w].id].count
               /\ task[w].seen.actionable = rows[task[w].id].actionable
          ELSE task[w].seen = NoRow
    /\ task[w].pc = "commit" =>
          /\ task[w].snap.count = count[task[w].id]
          /\ task[w].snap.actionable = task[w].actionable
    /\ task[w].pc = "save" => ExactRow(task[w].id)

OneIngest == \A v, w \in Busy : v = w

\* A row is ahead of its detections by the one in progress and one a fault.
RowsAhead ==
    \A i \in DOMAIN rows :
        rows[i].count >= 1 /\ rows[i].count - saved[i] \in 0..(1 + FaultsSoFar)

\* So is the engine, and its rows are exact when nothing has failed.
EngineAhead ==
    admin # "rebuild" => \A i \in Live :
        /\ count[i] - saved[i] - (IF Unsaved(i) THEN 1 ELSE 0) \in 0..FaultsSoFar
        /\ FaultsSoFar = 0 /\ ~Uncommitted(i) => ExactRow(i)

Accurate ==
    ~overlapped /\ ~raced =>
        OneIngest /\ (\A w \in Worker : Knows(w)) /\ RowsAhead /\ EngineAhead

AccuracyInv == StoreInv /\ Fresh /\ Accurate

LEMMA FreshStart == Init => Fresh
BY BoundAssumption, ConstantFacts DEF Init, Fresh, Busy

\* Correlating creates at most the next incident.
LEMMA CorrelateFresh ==
    ASSUME StoreInv, Fresh, NEW w \in Worker, NEW root \in Root, NEW left \in 0..MaxPerEvent,
           CorrelateOn(w, root, left), UNCHANGED <<diskVars, boot>>,
           budget' = budget
    PROVE  Fresh'
<1>0. /\ task \in [Worker -> Task] /\ count \in [Id -> Nat] /\ nextId \in 1..(MaxDetections + 1)
      /\ open \in [Root -> 0..MaxDetections] /\ \A r \in Root : open[r] < nextId
      /\ rows' = rows /\ saved' = saved /\ boot' = boot
  BY DEF StoreInv, TypeOK, diskVars
<1>1. /\ Target(root) \in Id
      /\ nextId' = IF open[root] = 0 THEN nextId + 1 ELSE nextId
      /\ open' = [open EXCEPT ![root] = Target(root)]
      /\ count' = [count EXCEPT ![Target(root)] = @ + 1]
      /\ task' = [task EXCEPT ![w] = Begun(root, left)]
  BY DEF CorrelateOn
<1>2. /\ Target(root) >= boot /\ Target(root) < nextId' /\ nextId' >= nextId
      /\ boot \in 1..nextId' /\ nextId' \in Int
  BY <1>0, <1>1, BoundAssumption DEF Target, Fresh
<1>3. \A i \in Id : i >= nextId' => count'[i] = 0 /\ saved'[i] = 0 /\ i \notin DOMAIN rows'
  <2> SUFFICES ASSUME NEW i \in Id, i >= nextId'
               PROVE  count'[i] = 0 /\ saved'[i] = 0 /\ i \notin DOMAIN rows'
    OBVIOUS
  <2>1. i >= nextId /\ i # Target(root)
    <3>1. i \in Int /\ nextId \in Int /\ Target(root) \in Int
      BY <1>0, <1>1, BoundAssumption DEF Id
    <3> QED BY <1>2, <3>1
  <2> QED BY <1>0, <1>1, <2>1 DEF Fresh
<1>4. \A r \in Root : open'[r] # 0 => open'[r] >= boot
  BY <1>0, <1>1, <1>2 DEF Fresh
<1>5. \A v \in Busy' : task'[v].id >= boot
  <2>1. task'[w].id = Target(root) /\ \A v \in Worker \ {w} : task'[v] = task[v]
    BY <1>0, <1>1 DEF Begun
  <2> QED BY <1>2, <2>1 DEF Fresh, Busy
<1> QED BY <1>0, <1>2, <1>3, <1>4, <1>5 DEF Fresh

(* What one slice of an ingest does to its task; the others are left alone. *)
LEMMA Slices ==
    ASSUME StoreInv, NEW w \in Worker
    PROVE  /\ Select(w) =>
                 /\ task[w].pc = "get" /\ task'[w].pc = "fill" /\ task'[w].id = task[w].id
                 /\ task'[w].actionable = task[w].actionable
                 /\ task'[w].seen = IF task[w].id \in DOMAIN rows THEN rows[task[w].id] ELSE NoRow
                 /\ \A v \in Worker \ {w} : task'[v] = task[v]
           /\ Fill(w) =>
                 /\ task[w].pc = "fill" /\ task'[w].pc = "commit" /\ task'[w].id = task[w].id
                 /\ task'[w].actionable = task[w].actionable /\ task'[w].seen = task[w].seen
                 /\ task'[w].snap.count = count[task[w].id]
                 /\ task'[w].snap.actionable = task[w].actionable
                 /\ \A v \in Worker \ {w} : task'[v] = task[v]
           /\ Commit(w) \/ Save(w) \/ DatabaseError(w) =>
                 /\ task[w].pc # "idle"
                 /\ \/ task'[w].pc = "idle"
                    \/ task'[w].pc \in {"save", "next"} /\ task'[w].id = task[w].id
                 /\ \A v \in Worker \ {w} : task'[v] = task[v]
<1>0. task \in [Worker -> Task]
  BY DEF StoreInv, TypeOK
<1>1. ASSUME Select(w)
      PROVE  /\ task[w].pc = "get" /\ task'[w].pc = "fill" /\ task'[w].id = task[w].id
             /\ task'[w].actionable = task[w].actionable
             /\ task'[w].seen = IF task[w].id \in DOMAIN rows THEN rows[task[w].id] ELSE NoRow
             /\ \A v \in Worker \ {w} : task'[v] = task[v]
  <2> DEFINE seen == IF task[w].id \in DOMAIN rows THEN rows[task[w].id] ELSE NoRow
  <2>1. task' = [task EXCEPT ![w] = [task[w] EXCEPT !.pc = "fill", !.seen = seen]]
    BY <1>1 DEF Select
  <2> HIDE DEF seen
  <2>2. /\ task'[w].pc = "fill" /\ task'[w].id = task[w].id /\ task'[w].seen = seen
        /\ task'[w].actionable = task[w].actionable
        /\ \A v \in Worker : v # w => task'[v] = task[v]
    BY <1>0, <2>1 DEF Task
  <2> QED BY <1>1, <2>2 DEF seen, Select
<1>2. ASSUME Fill(w)
      PROVE  /\ task[w].pc = "fill" /\ task'[w].pc = "commit" /\ task'[w].id = task[w].id
             /\ task'[w].actionable = task[w].actionable /\ task'[w].seen = task[w].seen
             /\ task'[w].snap.count = count[task[w].id]
             /\ task'[w].snap.actionable = task[w].actionable
             /\ \A v \in Worker \ {w} : task'[v] = task[v]
  <2> DEFINE snap == [count |-> count[task[w].id], actionable |-> task[w].actionable,
                      status |-> task[w].seen.status]
  <2>1. task' = [task EXCEPT ![w] = [task[w] EXCEPT !.pc = "commit", !.snap = snap]]
    BY <1>2 DEF Fill
  <2>2. snap.count = count[task[w].id] /\ snap.actionable = task[w].actionable
    OBVIOUS
  <2> HIDE DEF snap
  <2>3. /\ task'[w].pc = "commit" /\ task'[w].id = task[w].id /\ task'[w].seen = task[w].seen
        /\ task'[w].actionable = task[w].actionable /\ task'[w].snap = snap
        /\ \A v \in Worker : v # w => task'[v] = task[v]
    BY <1>0, <2>1 DEF Task
  <2> QED BY <1>2, <2>2, <2>3 DEF Fill
<1>3. ASSUME Commit(w) \/ Save(w) \/ DatabaseError(w)
      PROVE  /\ task[w].pc # "idle"
             /\ \/ task'[w].pc = "idle"
                \/ task'[w].pc \in {"save", "next"} /\ task'[w].id = task[w].id
             /\ \A v \in Worker \ {w} : task'[v] = task[v]
  <2>1. \/ \E p \in {"save", "next"} : task' = [task EXCEPT ![w].pc = p]
        \/ task' = [task EXCEPT ![w] = Idle]
    BY <1>3 DEF Commit, Save, DatabaseError, Abandoned
  <2>2. task[w].pc # "idle"
    BY <1>3 DEF Commit, Save, DatabaseError
  <2>3. /\ \/ task'[w].pc = "idle"
           \/ task'[w].pc \in {"save", "next"} /\ task'[w].id = task[w].id
        /\ \A v \in Worker : v # w => task'[v] = task[v]
    BY <1>0, <2>1, ConstantFacts DEF Task
  <2> QED BY <2>2, <2>3
<1> QED BY <1>1, <1>2, <1>3

(* Every step keeps the ids of the future unused and those in use current. *)
LEMMA FreshStep == StoreInv /\ Fresh /\ [Next]_vars => Fresh'
<1> SUFFICES ASSUME StoreInv, Fresh, [Next]_vars PROVE Fresh'
  OBVIOUS
<1>0. /\ task \in [Worker -> Task] /\ rows \in [DOMAIN rows -> Row] /\ DOMAIN rows \subseteq Id
      /\ saved \in [Id -> Nat] /\ count \in [Id -> Nat] /\ nextId \in 1..(MaxDetections + 1)
      /\ \A w \in Worker : task[w].pc # "idle" => task[w].id \in Id /\ task[w].id < nextId
  <2>1. ASSUME NEW w \in Worker, task[w].pc # "idle" PROVE task[w].id \in Id /\ task[w].id < nextId
    <3>1. task[w].id \in 1..(nextId - 1) /\ nextId \in 1..(MaxDetections + 1)
      BY <2>1 DEF StoreInv, TypeOK, Busy
    <3> QED BY <3>1, BoundAssumption DEF Id
  <2> QED BY <2>1 DEF StoreInv, TypeOK
<1>1. ASSUME NEW w \in Worker, NEW root \in Root, NEW n \in 1..MaxPerEvent, Arrive(w, root, n)
      PROVE  Fresh'
  <2>1. n - 1 \in 0..MaxPerEvent
    BY BoundAssumption
  <2>2. CorrelateOn(w, root, n - 1) /\ UNCHANGED <<diskVars, boot>> /\ budget' = budget
    BY <1>1 DEF Arrive
  <2> QED BY <2>1, <2>2, CorrelateFresh
<1>2. ASSUME NEW w \in Worker, Continue(w) PROVE Fresh'
  <2>1. UNCHANGED <<diskVars, boot>> /\ budget' = budget
    BY <1>2 DEF Continue, historyVars
  <2>2. CASE task[w].left > 0 /\ CorrelateOn(w, task[w].root, task[w].left - 1)
    <3>1. task[w].root \in Root /\ task[w].left - 1 \in 0..MaxPerEvent
      <4>1. task[w].root \in Root /\ task[w].left \in 0..MaxPerEvent
        BY <1>0 DEF Task
      <4> QED BY <2>2, <4>1, BoundAssumption
    <3> QED BY <2>1, <2>2, <3>1, CorrelateFresh
  <2>3. CASE Abandoned(w) /\ UNCHANGED <<open, count, nextId>>
    <3>1. task'[w].pc = "idle" /\ \A v \in Worker \ {w} : task'[v] = task[v]
      BY <1>0, <2>3, ConstantFacts DEF Abandoned
    <3> QED BY <2>1, <2>3, <3>1 DEF Fresh, Busy, diskVars
  <2> QED BY <1>2, <2>2, <2>3 DEF Continue
<1>3. ASSUME NEW w \in Worker, task[w].pc # "idle",
             Select(w) \/ Fill(w) \/ Commit(w) \/ Save(w) \/ DatabaseError(w)
      PROVE  Fresh'
  <2>1. /\ \A v \in Worker \ {w} : task'[v] = task[v]
        /\ task'[w].pc = "idle" \/ task'[w].id = task[w].id
        /\ UNCHANGED <<open, count, nextId, boot>>
    <3>1. UNCHANGED <<open, count, nextId, boot>>
      BY <1>3 DEF Select, Fill, Commit, Save, DatabaseError, engineVars, historyVars
    <3> QED BY <1>3, <3>1, Slices
  <2>2. /\ budget'.fault \in 0..MaxFaults
        /\ DOMAIN budget' = {"triage", "fault", "reset", "crash"}
    <3>1. CASE budget' = budget
      BY <3>1 DEF Fresh
    <3>2. CASE DatabaseError(w)
      BY <3>2, BoundAssumption DEF DatabaseError, Fresh
    <3> QED BY <1>3, <3>1, <3>2 DEF Select, Fill, Commit, Save
  <2>3. /\ DOMAIN rows' \subseteq DOMAIN rows \cup {task[w].id}
        /\ \A i \in Id : i >= nextId => saved'[i] = saved[i]
    <3>1. CASE Commit(w)
      <4>1. /\ \/ rows' = Inserted(task[w])
               \/ rows' = [rows EXCEPT ![task[w].id] = Updated(task[w], @)]
               \/ rows' = rows
            /\ saved' = saved
        BY <3>1 DEF Commit
      <4> QED BY <1>0, <4>1 DEF Inserted
    <3>2. CASE Save(w)
      <4>1. rows' = rows /\ saved' = [saved EXCEPT ![task[w].id] = @ + 1]
        BY <3>2 DEF Save
      <4>2. task[w].id \in Id /\ task[w].id < nextId /\ nextId \in Int /\ Id \subseteq Int
        BY <1>0, <1>3, BoundAssumption DEF Id
      <4> QED BY <1>0, <4>1, <4>2
    <3> QED BY <1>3, <3>1, <3>2 DEF Select, Fill, DatabaseError, diskVars
  <2>4. \A i \in Id : i >= nextId => i # task[w].id
    BY <1>0, <1>3, BoundAssumption DEF Id
  <2> QED BY <1>3, <2>1, <2>2, <2>3, <2>4 DEF Fresh, Busy
<1>4. ASSUME NEW root \in Root, Close(root) PROVE Fresh'
  <2>1. open \in [Root -> 0..MaxDetections]
    BY DEF StoreInv, TypeOK
  <2> QED BY <1>4, <2>1 DEF Close, Fresh, Busy, diskVars, historyVars
<1>5. ASSUME NEW id \in Id, NEW status \in Status, TriageSelect(id, status) PROVE Fresh'
  BY <1>5 DEF TriageSelect, Fresh, Busy, engineVars, diskVars, historyVars
<1>6. ASSUME TriageCommit PROVE Fresh'
  <2>1. DOMAIN rows' = DOMAIN rows
    BY <1>6 DEF TriageCommit
  <2> QED BY <1>6, <2>1 DEF TriageCommit, Fresh, Busy, engineVars, historyVars
<1>7. ASSUME ResetRequest \/ ResetFails PROVE Fresh'
  <2>1. /\ budget'.fault \in 0..MaxFaults
        /\ DOMAIN budget' = {"triage", "fault", "reset", "crash"}
    BY <1>7, BoundAssumption DEF ResetRequest, ResetFails, Fresh
  <2> QED BY <1>7, <2>1 DEF ResetRequest, ResetFails, Fresh, Busy, engineVars, diskVars, historyVars
<1>8. ASSUME ResetDelete PROVE Fresh'
  <2>1. /\ DOMAIN rows' = {} /\ \A i \in Id : saved'[i] = 0
    BY <1>8 DEF ResetDelete
  <2> QED BY <1>8, <2>1 DEF ResetDelete, Fresh, Busy, engineVars, historyVars
<1>9. ASSUME ResetRebuild PROVE Fresh'
  BY <1>9 DEF ResetRebuild, Fresh, Busy, diskVars
<1>10. ASSUME Crash PROVE Fresh'
  <2>1. /\ \A v \in Worker : task'[v].pc = "idle"
        /\ \A r \in Root : open'[r] = 0
        /\ budget'.fault = budget.fault /\ DOMAIN budget' = DOMAIN budget
    BY <1>10, ConstantFacts DEF Crash, Fresh
  <2>2. boot' \in 1..nextId'
    BY <1>0, <1>10 DEF Crash
  <2> QED BY <1>10, <2>1, <2>2 DEF Crash, Fresh, Busy, diskVars
<1>11. ASSUME UNCHANGED vars PROVE Fresh'
  BY <1>11 DEF vars, engineVars, diskVars, historyVars, Fresh, Busy
<1>12. ASSUME NEW w \in Worker,
              Select(w) \/ Fill(w) \/ Commit(w) \/ Save(w) \/ DatabaseError(w)
       PROVE  task[w].pc # "idle"
  BY <1>12 DEF Select, Fill, Commit, Save, DatabaseError
<1> QED
  BY <1>1, <1>2, <1>3, <1>4, <1>5, <1>6, <1>7, <1>8, <1>9, <1>10, <1>11, <1>12 DEF Next

Accuracy == OneIngest /\ (\A w \in Worker : Knows(w)) /\ RowsAhead /\ EngineAhead

(* Correlating adds one detection to the engine's count, which the task now
   owes to the tables. *)
LEMMA CorrelateAccurate ==
    ASSUME StoreInv, Fresh, Accuracy, ~raced, admin = "idle",
           NEW w \in Worker, NEW root \in Root, NEW left \in 0..MaxPerEvent,
           CorrelateOn(w, root, left),
           UNCHANGED <<diskVars, admin, boot, wiped>>, budget' = budget,
           task[w].pc \in {"idle", "next"},
           \A v \in Worker : v # w => task[v].pc = "idle"
    PROVE  Accuracy'
<1> DEFINE id == Target(root)
           F == FaultsSoFar
<1>0. /\ task \in [Worker -> Task] /\ count \in [Id -> Nat] /\ saved \in [Id -> Nat]
      /\ nextId \in 1..(MaxDetections + 1) /\ open \in [Root -> 0..MaxDetections]
      /\ \A r \in Root : open[r] < nextId
      /\ rows' = rows /\ saved' = saved /\ boot' = boot /\ wiped' = wiped /\ admin' = admin
      /\ FaultsSoFar' = FaultsSoFar /\ wiped \in Int /\ wiped <= nextId
      /\ \A r \in Root : open[r] # 0 => open[r] >= wiped
  BY DEF StoreInv, TypeOK, diskVars, FaultsSoFar, SinceWiped
<1>1. /\ id \in Id
      /\ nextId' = IF open[root] = 0 THEN nextId + 1 ELSE nextId
      /\ count' = [count EXCEPT ![id] = @ + 1]
      /\ task' = [task EXCEPT ![w] = Begun(root, left)]
  BY DEF CorrelateOn
<1>2. /\ id >= boot /\ id >= wiped /\ id < nextId' /\ boot \in Int
      /\ id \in Live \/ (id = nextId /\ nextId' = nextId + 1)
      /\ id \in Live => nextId' = nextId
      /\ Id \subseteq Int
  BY <1>0, <1>1, BoundAssumption DEF Target, Fresh, Live, Id
<1>3. /\ task'[w].pc = "get" /\ task'[w].id = id
      /\ task'[w].actionable = Actionable(count[id] + 1)
      /\ \A v \in Worker : v # w => task'[v] = task[v]
  BY <1>0, <1>1 DEF Begun, Actionable
<1>4. \A i \in Id : ~Unsaved(i) /\ ~Uncommitted(i)
  BY DEF Unsaved, Uncommitted
<1>5. \A i \in Id : (Unsaved(i)' <=> i = id) /\ (Uncommitted(i)' <=> i = id)
  BY <1>3 DEF Unsaved, Uncommitted
<1>6. /\ count'[id] = count[id] + 1
      /\ \A i \in Id : i # id => count'[i] = count[i]
  BY <1>0, <1>1
<1> HIDE DEF id
<1>7. OneIngest' /\ \A v \in Worker : Knows(v)'
  BY <1>3, <1>6 DEF OneIngest, Knows, Busy
<1>8. RowsAhead'
  BY <1>0 DEF Accuracy, RowsAhead
<1>9. EngineAhead'
  <2> SUFFICES ASSUME NEW i \in Live'
               PROVE  /\ count'[i] - saved'[i] - (IF Unsaved(i)' THEN 1 ELSE 0) \in 0..FaultsSoFar'
                      /\ FaultsSoFar' = 0 /\ ~Uncommitted(i)' => ExactRow(i)'
    BY DEF EngineAhead
  <2>1. CASE i = id
    <3>1. count[id] - saved[id] \in 0..FaultsSoFar
      <4>1. CASE id \in Live
        <5>1. count[id] - saved[id] - (IF Unsaved(id) THEN 1 ELSE 0) \in 0..FaultsSoFar
          BY <4>1 DEF Accuracy, EngineAhead
        <5>2. count[id] \in Int /\ saved[id] \in Int /\ ~Unsaved(id)
          BY <1>0, <1>1, <1>4
        <5> QED BY <5>1, <5>2
      <4>2. CASE id = nextId
        <5>1. count[id] = 0 /\ saved[id] = 0
          BY <1>0, <1>1, <1>2, <4>2 DEF Fresh
        <5>2. FaultsSoFar \in Nat
          BY BoundAssumption DEF FaultsSoFar, Fresh
        <5> QED BY <5>1, <5>2
      <4> QED BY <1>2, <4>1, <4>2
    <3>2. count[id] \in Int /\ saved[id] \in Int
      BY <1>0, <1>1
    <3>3. Unsaved(i)' /\ Uncommitted(i)'
      BY <1>1, <1>5, <2>1
    <3> QED BY <1>0, <1>6, <2>1, <3>1, <3>2, <3>3
  <2>2. CASE i # id
    <3>1. i \in Live
      BY <1>0, <1>2, <2>2 DEF Live
    <3>2. i \in Id
      BY <3>1 DEF Live
    <3>3. count'[i] = count[i] /\ ~Unsaved(i)' /\ ~Unsaved(i) /\ ~Uncommitted(i)
      BY <1>4, <1>5, <1>6, <2>2, <3>2
    <3>4. ExactRow(i)' <=> ExactRow(i)
      BY <1>0, <3>3 DEF ExactRow
    <3>5. /\ count[i] - saved[i] - (IF Unsaved(i) THEN 1 ELSE 0) \in 0..FaultsSoFar
          /\ FaultsSoFar = 0 /\ ~Uncommitted(i) => ExactRow(i)
      BY <3>1 DEF Accuracy, EngineAhead
    <3> QED BY <1>0, <3>3, <3>4, <3>5
  <2> QED BY <2>1, <2>2
<1> QED BY <1>7, <1>8, <1>9 DEF Accuracy

(* A slice of the ingest in progress keeps the books. *)
LEMMA SliceAccurate ==
    ASSUME StoreInv, Fresh, Accuracy, ~raced, NEW w \in Worker,
           Select(w) \/ Fill(w) \/ Commit(w) \/ Save(w) \/ DatabaseError(w),
           UNCHANGED <<open, count, nextId, boot, wiped, admin>>
    PROVE  Accuracy'
<1> DEFINE id == task[w].id
           c == count[id]
<1>0. /\ task \in [Worker -> Task] /\ count \in [Id -> Nat] /\ saved \in [Id -> Nat]
      /\ rows \in [DOMAIN rows -> Row] /\ DOMAIN rows \subseteq Id
      /\ nextId \in 1..(MaxDetections + 1) /\ Live' = Live
      /\ FaultsSoFar \in Nat
  BY BoundAssumption DEF StoreInv, TypeOK, Live, Fresh, FaultsSoFar
<1>1. task[w].pc # "idle"
  BY DEF Select, Fill, Commit, Save, DatabaseError
<1>2. /\ \A v \in Worker : v # w => task[v].pc = "idle" /\ task'[v] = task[v]
      /\ admin = "idle" /\ Knows(w)
  BY <1>1, Slices DEF Accuracy, OneIngest, Busy, StoreInv, ResetAlone
<1>3. id \in Live /\ id \in Id /\ id \in Int
  <2>1. id \in 1..(nextId - 1) /\ id >= boot /\ id >= wiped
    BY <1>1 DEF StoreInv, TypeOK, Busy, Fresh, SinceWiped
  <2> QED BY <1>0, <2>1, BoundAssumption DEF Live, Id
<1>4. \A i \in Id : /\ Unsaved(i) <=> i = id /\ task[w].pc \in {"get", "fill", "commit", "save"}
                    /\ Uncommitted(i) <=> i = id /\ task[w].pc \in {"get", "fill", "commit"}
  BY <1>2 DEF Unsaved, Uncommitted
<1>5. \A i \in Id :
        /\ Unsaved(i)' <=> i = task'[w].id /\ task'[w].pc \in {"get", "fill", "commit", "save"}
        /\ Uncommitted(i)' <=> i = task'[w].id /\ task'[w].pc \in {"get", "fill", "commit"}
  BY <1>2 DEF Unsaved, Uncommitted
<1>6. OneIngest'
  BY <1>2 DEF OneIngest, Busy
<1>7. \A v \in Worker : v # w => Knows(v)'
  BY <1>2 DEF Knows
<1>8. /\ \A i \in Live : count[i] - saved[i] - (IF Unsaved(i) THEN 1 ELSE 0) \in 0..FaultsSoFar
      /\ FaultsSoFar = 0 => \A i \in Live : ~Uncommitted(i) => ExactRow(i)
      /\ \A i \in DOMAIN rows :
            rows[i].count >= 1 /\ rows[i].count - saved[i] \in 0..(1 + FaultsSoFar)
  BY <1>2 DEF Accuracy, EngineAhead, RowsAhead
<1>9. c \in Nat /\ saved[id] \in Nat /\ (Unsaved(id) => c - saved[id] \in 1..(1 + FaultsSoFar))
  <2>1. c \in Nat /\ saved[id] \in Nat
    BY <1>0, <1>3
  <2>2. c - saved[id] - (IF Unsaved(id) THEN 1 ELSE 0) \in 0..FaultsSoFar
    BY <1>3, <1>8
  <2> QED BY <1>0, <2>1, <2>2
<1> HIDE DEF c
<1>10. CASE Select(w) \/ Fill(w)
  <2>1. /\ task'[w].id = id /\ {task[w].pc, task'[w].pc} \subseteq {"get", "fill", "commit"}
        /\ rows' = rows /\ saved' = saved /\ FaultsSoFar' = FaultsSoFar
    BY <1>10, Slices DEF Select, Fill, diskVars, FaultsSoFar
  <2>2. Knows(w)'
    <3>1. CASE Select(w)
      BY <1>2, <2>1, <3>1, Slices DEF Knows
    <3>2. CASE Fill(w)
      BY <1>2, <2>1, <3>2, Slices DEF Knows
    <3> QED BY <1>10, <3>1, <3>2
  <2>3. RowsAhead'
    BY <1>8, <2>1 DEF RowsAhead
  <2>4. \A i \in Id : (Unsaved(i)' <=> Unsaved(i)) /\ (Uncommitted(i)' <=> Uncommitted(i))
    BY <1>4, <1>5, <2>1
  <2>5. \A i \in Id : ExactRow(i)' <=> ExactRow(i)
    BY <2>1 DEF ExactRow
  <2>6. EngineAhead'
    <3> SUFFICES ASSUME NEW i \in Live
                 PROVE  /\ count[i] - saved[i] - (IF Unsaved(i)' THEN 1 ELSE 0) \in 0..FaultsSoFar
                        /\ FaultsSoFar = 0 /\ ~Uncommitted(i)' => ExactRow(i)'
      BY <1>0, <2>1 DEF EngineAhead
    <3>1. i \in Id
      BY DEF Live
    <3> QED BY <1>8, <2>4, <2>5, <3>1
  <2> QED BY <1>6, <1>7, <2>2, <2>3, <2>6 DEF Accuracy
<1>11. CASE Commit(w)
  <2>1. /\ task[w].pc = "commit" /\ saved' = saved /\ FaultsSoFar' = FaultsSoFar
        /\ Unsaved(id)
    BY <1>3, <1>4, <1>11 DEF Commit, FaultsSoFar
  <2>2. /\ task[w].snap.count = c /\ task[w].snap.actionable = Actionable(c)
        /\ IF id \in DOMAIN rows
           THEN /\ task[w].seen.count = rows[id].count
                /\ task[w].seen.actionable = rows[id].actionable
           ELSE task[w].seen = NoRow
    BY <1>2, <2>1 DEF Knows, c
  <2>3. id \in DOMAIN rows => task[w].seen # NoRow /\ rows[id] \in Row
    BY <1>0, <1>8, <2>2 DEF NoRow
  <2>4. /\ task' = [task EXCEPT ![w].pc = "save"]
        /\ DOMAIN rows' = DOMAIN rows \cup {id}
        /\ rows'[id].count = c /\ rows'[id].actionable = Actionable(c)
        /\ \A i \in DOMAIN rows : i # id => rows'[i] = rows[i]
    <3>1. CASE id \notin DOMAIN rows
      <4>1. /\ task' = [task EXCEPT ![w].pc = "save"]
            /\ rows' = Inserted(task[w])
        <5>1. c >= 1
          BY <1>9, <2>1
        <5>2. ~Unchanged(task[w])
          BY <2>2, <3>1, <5>1 DEF Unchanged, NoRow
        <5> QED BY <1>11, <2>2, <3>1, <5>2 DEF Commit
      <4> QED BY <2>2, <4>1 DEF Inserted
    <3>2. CASE id \in DOMAIN rows /\ ~Unchanged(task[w])
      <4>1. /\ task' = [task EXCEPT ![w].pc = "save"]
            /\ rows' = [rows EXCEPT ![id] = Updated(task[w], @)]
        BY <1>11, <2>3, <3>2 DEF Commit
      <4>2. /\ Updated(task[w], rows[id]).count = c
            /\ Updated(task[w], rows[id]).actionable = Actionable(c)
        BY <2>2, <2>3, <3>2 DEF Updated, Column, Row
      <4> QED BY <1>0, <3>2, <4>1, <4>2
    <3>3. CASE id \in DOMAIN rows /\ Unchanged(task[w])
      <4>1. /\ task' = [task EXCEPT ![w].pc = "save"]
            /\ rows' = rows
        BY <1>11, <2>3, <3>3 DEF Commit
      <4> QED BY <2>2, <3>3, <4>1 DEF Unchanged
    <3> QED BY <3>1, <3>2, <3>3
  <2>5. task'[w].pc = "save" /\ task'[w].id = id
    BY <1>0, <2>4 DEF Task
  <2>6. Knows(w)'
    BY <2>4, <2>5 DEF Knows, ExactRow, c
  <2>7. RowsAhead'
    <3> SUFFICES ASSUME NEW i \in DOMAIN rows'
                 PROVE  rows'[i].count >= 1 /\ rows'[i].count - saved[i] \in 0..(1 + FaultsSoFar)
      BY <2>1 DEF RowsAhead
    <3>1. CASE i = id
      BY <1>0, <1>9, <2>1, <2>4, <3>1
    <3>2. CASE i # id
      BY <1>8, <2>4, <3>2
    <3> QED BY <3>1, <3>2
  <2>8. EngineAhead'
    <3> SUFFICES ASSUME NEW i \in Live
                 PROVE  /\ count[i] - saved[i] - (IF Unsaved(i)' THEN 1 ELSE 0) \in 0..FaultsSoFar
                        /\ FaultsSoFar = 0 /\ ~Uncommitted(i)' => ExactRow(i)'
      BY <1>0, <2>1 DEF EngineAhead
    <3>1. i \in Id
      BY DEF Live
    <3>2. Unsaved(i)' <=> Unsaved(i)
      BY <1>4, <1>5, <2>1, <2>5, <3>1
    <3>3. FaultsSoFar = 0 => ExactRow(i)'
      <4>1. CASE i = id
        BY <2>4, <4>1 DEF ExactRow, c
      <4>2. CASE i # id
        BY <1>4, <1>8, <2>4, <3>1, <4>2 DEF ExactRow
      <4> QED BY <4>1, <4>2
    <3> QED BY <1>8, <3>2, <3>3
  <2> QED BY <1>6, <1>7, <2>6, <2>7, <2>8 DEF Accuracy
<1>12. CASE Save(w)
  <2>1. /\ task[w].pc = "save" /\ rows' = rows /\ FaultsSoFar' = FaultsSoFar
        /\ saved'[id] = saved[id] + 1 /\ \A i \in Id : i # id => saved'[i] = saved[i]
        /\ task'[w].pc = "next" /\ task'[w].id = id
    BY <1>0, <1>3, <1>12 DEF Save, FaultsSoFar, Task
  <2>2. ExactRow(id) /\ Unsaved(id)
    BY <1>2, <1>3, <1>4, <2>1 DEF Knows
  <2>3. Knows(w)'
    BY <2>1 DEF Knows
  <2>4. RowsAhead'
    <3> SUFFICES ASSUME NEW i \in DOMAIN rows
                 PROVE  rows[i].count >= 1 /\ rows[i].count - saved'[i] \in 0..(1 + FaultsSoFar)
      BY <2>1 DEF RowsAhead
    <3>1. CASE i = id
      <4>1. rows[i].count = c
        BY <2>2, <3>1 DEF ExactRow, c
      <4> QED BY <1>0, <1>8, <1>9, <2>1, <2>2, <3>1, <4>1
    <3>2. CASE i # id
      BY <1>0, <1>8, <2>1, <3>2
    <3> QED BY <3>1, <3>2
  <2>5. EngineAhead'
    <3> SUFFICES ASSUME NEW i \in Live
                 PROVE  /\ count[i] - saved'[i] - (IF Unsaved(i)' THEN 1 ELSE 0) \in 0..FaultsSoFar
                        /\ FaultsSoFar = 0 /\ ~Uncommitted(i)' => ExactRow(i)'
      BY <1>0, <2>1 DEF EngineAhead
    <3>1. i \in Id
      BY DEF Live
    <3>2. ~Unsaved(i)' /\ ~Uncommitted(i)
      BY <1>4, <1>5, <2>1, <3>1
    <3>3. FaultsSoFar = 0 => ExactRow(i)'
      BY <1>8, <2>1, <3>2 DEF ExactRow
    <3>4. CASE i = id
      <4>1. count[i] = c
        BY <3>4 DEF c
      <4> QED BY <1>0, <1>9, <2>1, <2>2, <3>2, <3>3, <3>4, <4>1
    <3>5. CASE i # id
      <4>1. ~Unsaved(i) /\ saved'[i] = saved[i]
        BY <1>4, <2>1, <3>1, <3>5
      <4> QED BY <1>8, <3>2, <3>3, <4>1
    <3> QED BY <3>4, <3>5
  <2> QED BY <1>6, <1>7, <2>3, <2>4, <2>5 DEF Accuracy
<1>13. CASE DatabaseError(w)
  <2>1. /\ rows' = rows /\ saved' = saved /\ FaultsSoFar' = FaultsSoFar + 1
        /\ task'[w].pc = "idle" /\ Unsaved(id)
    <3>1. rows' = rows /\ saved' = saved /\ Unsaved(id)
      BY <1>3, <1>4, <1>13 DEF DatabaseError, diskVars
    <3>2. FaultsSoFar' = FaultsSoFar + 1
      BY <1>13, BoundAssumption DEF DatabaseError, FaultsSoFar, Fresh
    <3>3. task'[w].pc = "idle"
      BY <1>0, <1>13, ConstantFacts DEF DatabaseError, Abandoned
    <3> QED BY <3>1, <3>2, <3>3
  <2>2. Knows(w)'
    BY <2>1 DEF Knows
  <2>3. RowsAhead'
    <3> SUFFICES ASSUME NEW i \in DOMAIN rows
                 PROVE  /\ rows[i].count >= 1
                        /\ rows[i].count - saved[i] \in 0..(1 + (FaultsSoFar + 1))
      BY <2>1 DEF RowsAhead
    <3>1. rows[i].count - saved[i] \in 0..(1 + FaultsSoFar) /\ rows[i].count >= 1
      BY <1>8
    <3> QED BY <1>0, <3>1
  <2>4. EngineAhead'
    <3> SUFFICES ASSUME NEW i \in Live
                 PROVE  count[i] - saved[i] - (IF Unsaved(i)' THEN 1 ELSE 0) \in 0..(FaultsSoFar + 1)
      BY <1>0, <2>1 DEF EngineAhead
    <3>1. i \in Id /\ count[i] \in Nat /\ saved[i] \in Nat
      BY <1>0 DEF Live
    <3>2. ~Unsaved(i)'
      BY <1>5, <2>1, <3>1
    <3>3. count[i] - saved[i] - (IF Unsaved(i) THEN 1 ELSE 0) \in 0..FaultsSoFar
      BY <1>8
    <3> QED BY <1>0, <3>1, <3>2, <3>3
  <2> QED BY <1>6, <1>7, <2>2, <2>3, <2>4 DEF Accuracy
<1> QED BY <1>10, <1>11, <1>12, <1>13

LEMMA AccuracyStarts == Init => AccuracyInv
<1> SUFFICES ASSUME Init PROVE AccuracyInv
  OBVIOUS
<1>1. StoreInv /\ Fresh
  BY StoreInit, FreshStart
<1>2. /\ \A w \in Worker : task[w].pc = "idle"
      /\ DOMAIN rows = {} /\ Live = {}
  BY ConstantFacts DEF Init, Live, Id
<1>3. Accuracy
  BY <1>2 DEF Accuracy, OneIngest, Busy, Knows, RowsAhead, EngineAhead
<1> QED BY <1>1, <1>3 DEF AccuracyInv, Accurate, Accuracy

(* Every step keeps the books, while no two ingests overlap and no reset meets
   one. *)
LEMMA AccuracySteps == AccuracyInv /\ [Next]_vars => AccuracyInv'
<1> SUFFICES ASSUME AccuracyInv, [Next]_vars PROVE AccuracyInv'
  OBVIOUS
<1>1. StoreInv /\ StoreInv' /\ Fresh /\ Fresh'
  BY StoreStep, FreshStep DEF AccuracyInv
<1>2. (overlapped \/ raced) => (overlapped' \/ raced')
  <2>1. ASSUME NEW w \in Worker, NEW root \in Root, NEW n \in 1..MaxPerEvent, Arrive(w, root, n)
        PROVE  (overlapped => overlapped') /\ (raced => raced')
    BY <2>1 DEF Arrive
  <2>2. ASSUME ResetRequest PROVE (overlapped => overlapped') /\ (raced => raced')
    <3>1. overlapped' = overlapped
      BY <2>2, Zenon DEF ResetRequest
    <3>2. raced => raced'
      BY <2>2, Zenon DEF ResetRequest
    <3> QED BY <3>1, <3>2
  <2>3. UNCHANGED <<overlapped, raced>> => (overlapped => overlapped') /\ (raced => raced')
    OBVIOUS
  <2>4. \/ \E w \in Worker, root \in Root, n \in 1..MaxPerEvent : Arrive(w, root, n)
        \/ ResetRequest
        \/ UNCHANGED <<overlapped, raced>>
    BY DEF Next, Select, Fill, Commit, Save, Continue, DatabaseError, Close, TriageSelect,
           TriageCommit, ResetDelete, ResetFails, ResetRebuild, Crash, historyVars, vars
  <2> QED BY <2>1, <2>2, <2>3, <2>4
<1> SUFFICES ASSUME ~overlapped', ~raced' PROVE Accuracy'
  BY <1>1 DEF AccuracyInv, Accurate, Accuracy
<1>3. ~overlapped /\ ~raced /\ Accuracy
  BY <1>2 DEF AccuracyInv, Accurate, Accuracy
<1>0. /\ task \in [Worker -> Task] /\ rows \in [DOMAIN rows -> Row] /\ DOMAIN rows \subseteq Id
      /\ saved \in [Id -> Nat] /\ count \in [Id -> Nat] /\ nextId \in 1..(MaxDetections + 1)
  BY <1>1 DEF StoreInv, TypeOK
<1>4. ASSUME NEW w \in Worker, NEW root \in Root, NEW n \in 1..MaxPerEvent, Arrive(w, root, n)
      PROVE  Accuracy'
  <2>1. n - 1 \in 0..MaxPerEvent
    BY BoundAssumption
  <2>2. /\ CorrelateOn(w, root, n - 1) /\ UNCHANGED <<diskVars, admin, boot, wiped>>
        /\ budget' = budget /\ task[w].pc \in {"idle", "next"}
    BY <1>4 DEF Arrive
  <2>3. admin = "idle" /\ \A v \in Worker : v # w => task[v].pc = "idle"
    BY <1>4 DEF Arrive, Busy
  <2> QED BY <1>1, <1>3, <2>1, <2>2, <2>3, CorrelateAccurate
<1>5. ASSUME NEW w \in Worker, Continue(w) PROVE Accuracy'
  <2>1. /\ UNCHANGED <<diskVars, admin, boot, wiped>> /\ budget' = budget
        /\ task[w].pc = "next" /\ task[w].pc # "idle"
    BY <1>5 DEF Continue, historyVars
  <2>2. admin = "idle" /\ \A v \in Worker : v # w => task[v].pc = "idle"
    BY <1>1, <1>3, <2>1 DEF StoreInv, ResetAlone, Accuracy, OneIngest, Busy
  <2>3. CASE task[w].left > 0 /\ CorrelateOn(w, task[w].root, task[w].left - 1)
    <3>1. task[w].root \in Root /\ task[w].left - 1 \in 0..MaxPerEvent
      <4>1. task[w].root \in Root /\ task[w].left \in 0..MaxPerEvent
        BY <1>0 DEF Task
      <4> QED BY <2>3, <4>1, BoundAssumption
    <3> QED BY <1>1, <1>3, <2>1, <2>2, <2>3, <3>1, CorrelateAccurate
  <2>4. CASE Abandoned(w) /\ UNCHANGED <<open, count, nextId>>
    <3>1. \A v \in Worker : task'[v].pc = "idle"
      BY <1>0, <2>2, <2>4, ConstantFacts DEF Abandoned
    <3>2. rows' = rows /\ saved' = saved /\ admin' = admin /\ Live' = Live
          /\ FaultsSoFar' = FaultsSoFar
      BY <2>1, <2>4 DEF diskVars, Live, FaultsSoFar
    <3>3. \A i \in Live : ~Unsaved(i) /\ ~Uncommitted(i) /\ ~Unsaved(i)' /\ ~Uncommitted(i)'
      BY <2>1, <2>2, <3>1 DEF Unsaved, Uncommitted
    <3>4. \A i \in Live : ExactRow(i)' <=> ExactRow(i)
      BY <2>4, <3>2 DEF ExactRow
    <3>5. OneIngest' /\ (\A v \in Worker : Knows(v)') /\ RowsAhead'
      BY <1>3, <3>1, <3>2 DEF OneIngest, Busy, Knows, RowsAhead, Accuracy
    <3>6. EngineAhead'
      BY <1>3, <2>4, <3>2, <3>3, <3>4 DEF Accuracy, EngineAhead
    <3> QED BY <3>5, <3>6 DEF Accuracy
  <2> QED BY <1>5, <2>3, <2>4 DEF Continue
<1>6. ASSUME NEW w \in Worker,
             Select(w) \/ Fill(w) \/ Commit(w) \/ Save(w) \/ DatabaseError(w)
      PROVE  Accuracy'
  <2>1. UNCHANGED <<open, count, nextId, boot, wiped, admin>>
    BY <1>6 DEF Select, Fill, Commit, Save, DatabaseError, engineVars, historyVars
  <2> QED BY <1>1, <1>3, <1>6, <2>1, SliceAccurate
<1>7. ASSUME UNCHANGED <<count, nextId, task, saved, admin, boot, wiped>>,
             budget'.fault = budget.fault,
             DOMAIN rows' = DOMAIN rows,
             \A i \in DOMAIN rows :
                rows'[i].count = rows[i].count /\ rows'[i].actionable = rows[i].actionable
      PROVE  Accuracy'
  <2>1. Live' = Live /\ FaultsSoFar' = FaultsSoFar
    BY <1>7 DEF Live, FaultsSoFar
  <2>2. OneIngest' /\ (\A v \in Worker : Knows(v)')
    BY <1>3, <1>7 DEF OneIngest, Busy, Knows, ExactRow, Accuracy
  <2>3. RowsAhead'
    BY <1>3, <1>7, <2>1 DEF RowsAhead, Accuracy
  <2>4. \A i \in Live : (Unsaved(i)' <=> Unsaved(i)) /\ (Uncommitted(i)' <=> Uncommitted(i))
    BY <1>7 DEF Unsaved, Uncommitted
  <2>5. \A i \in Live : ExactRow(i) => ExactRow(i)'
    BY <1>7 DEF ExactRow
  <2>6. EngineAhead'
    BY <1>3, <1>7, <2>1, <2>4, <2>5 DEF EngineAhead, Accuracy
  <2> QED BY <2>2, <2>3, <2>6 DEF Accuracy
<1>8. ASSUME NEW root \in Root, Close(root) PROVE Accuracy'
  BY <1>7, <1>8 DEF Close, diskVars, historyVars
<1>9. ASSUME NEW id \in Id, NEW status \in Status, TriageSelect(id, status) PROVE Accuracy'
  <2>1. budget'.fault = budget.fault
    BY <1>1, <1>9 DEF TriageSelect, Fresh
  <2> QED BY <1>7, <1>9, <2>1 DEF TriageSelect, engineVars, diskVars, historyVars
<1>10. ASSUME TriageCommit PROVE Accuracy'
  <2>1. /\ DOMAIN rows' = DOMAIN rows
        /\ \A i \in DOMAIN rows :
              rows'[i].count = rows[i].count /\ rows'[i].actionable = rows[i].actionable
    <3>1. \A i \in DOMAIN rows : rows[i] \in Row
      BY <1>0
    <3> QED BY <1>0, <1>10, <3>1 DEF TriageCommit, Row
  <2> QED BY <1>7, <1>10, <2>1 DEF TriageCommit, engineVars, historyVars
<1>11. ASSUME \A v \in Worker : task'[v].pc = "idle",
              RowsAhead', EngineAhead'
       PROVE  Accuracy'
  BY <1>11 DEF Accuracy, OneIngest, Busy, Knows
<1>12. FaultsSoFar \in Nat /\ Live' \subseteq Id
  BY <1>1, BoundAssumption DEF FaultsSoFar, Fresh, Live
<1>13. ASSUME ResetRequest PROVE Accuracy'
  <2>1. /\ \A v \in Worker : task'[v].pc = "idle" /\ task[v].pc = "idle"
        /\ admin = "idle"
    BY <1>13 DEF ResetRequest, Busy
  <2>2. /\ rows' = rows /\ saved' = saved /\ count' = count /\ Live' = Live
        /\ FaultsSoFar' = FaultsSoFar
    BY <1>1, <1>13 DEF ResetRequest, engineVars, diskVars, Live, FaultsSoFar, Fresh
  <2>3. \A i \in Live : ~Unsaved(i) /\ ~Uncommitted(i) /\ ~Unsaved(i)' /\ ~Uncommitted(i)'
    BY <2>1 DEF Unsaved, Uncommitted
  <2>4. \A i \in Live : ExactRow(i)' <=> ExactRow(i)
    BY <2>2 DEF ExactRow
  <2>5. RowsAhead'
    BY <1>3, <2>2 DEF RowsAhead, Accuracy
  <2>6. EngineAhead'
    BY <1>3, <2>1, <2>2, <2>3, <2>4 DEF EngineAhead, Accuracy
  <2> QED BY <1>11, <2>1, <2>5, <2>6
<1>14. ASSUME ResetDelete PROVE Accuracy'
  <2>1. \A v \in Worker : task'[v].pc = "idle"
    BY <1>1, <1>3, <1>14 DEF ResetDelete, StoreInv, ResetAlone
  <2>2. RowsAhead' /\ EngineAhead'
    BY <1>14 DEF ResetDelete, RowsAhead, EngineAhead
  <2> QED BY <1>11, <2>1, <2>2
<1>15. ASSUME ResetFails PROVE Accuracy'
  <2>1. \A v \in Worker : task'[v].pc = "idle" /\ task[v].pc = "idle"
    BY <1>1, <1>3, <1>15 DEF ResetFails, StoreInv, ResetAlone
  <2>2. /\ rows' = rows /\ saved' = saved /\ count' = count /\ Live' = Live
        /\ admin = "deleting"
    BY <1>15 DEF ResetFails, engineVars, diskVars, historyVars, Live
  <2>3. FaultsSoFar' = FaultsSoFar + 1
    BY <1>1, <1>15, BoundAssumption DEF ResetFails, FaultsSoFar, Fresh
  <2>4. RowsAhead'
    <3> SUFFICES ASSUME NEW i \in DOMAIN rows
                 PROVE  /\ rows[i].count >= 1
                        /\ rows[i].count - saved[i] \in 0..(1 + (FaultsSoFar + 1))
      BY <2>2, <2>3 DEF RowsAhead
    <3>1. rows[i].count >= 1 /\ rows[i].count - saved[i] \in 0..(1 + FaultsSoFar)
      BY <1>3 DEF Accuracy, RowsAhead
    <3> QED BY <1>12, <3>1
  <2>5. EngineAhead'
    <3> SUFFICES ASSUME NEW i \in Live
                 PROVE  count[i] - saved[i] - (IF Unsaved(i)' THEN 1 ELSE 0) \in 0..(FaultsSoFar + 1)
      BY <1>12, <2>2, <2>3 DEF EngineAhead
    <3>1. ~Unsaved(i)' /\ ~Unsaved(i)
      BY <2>1 DEF Unsaved
    <3>2. count[i] - saved[i] - (IF Unsaved(i) THEN 1 ELSE 0) \in 0..FaultsSoFar
      BY <1>3, <2>2 DEF Accuracy, EngineAhead
    <3>3. count[i] \in Nat /\ saved[i] \in Nat
      BY <1>0 DEF Live
    <3> QED BY <1>12, <3>1, <3>2, <3>3
  <2> QED BY <1>11, <2>1, <2>4, <2>5
<1>16. ASSUME ResetRebuild \/ Crash PROVE Accuracy'
  <2>1. \A v \in Worker : task'[v].pc = "idle"
    <3>1. CASE ResetRebuild
      BY <1>1, <1>3, <3>1 DEF ResetRebuild, StoreInv, ResetAlone
    <3>2. CASE Crash
      BY <3>2, ConstantFacts DEF Crash
    <3> QED BY <1>16, <3>1, <3>2
  <2>2. /\ rows' = rows /\ saved' = saved /\ FaultsSoFar' = FaultsSoFar
    BY <1>1, <1>16 DEF ResetRebuild, Crash, diskVars, FaultsSoFar, Fresh
  <2>3. Live' = {}
    BY <1>0, <1>16, BoundAssumption DEF ResetRebuild, Crash, Live, Id
  <2>4. RowsAhead'
    BY <1>3, <2>2 DEF RowsAhead, Accuracy
  <2>5. EngineAhead'
    BY <2>3 DEF EngineAhead
  <2> QED BY <1>11, <2>1, <2>4, <2>5
<1>17. ASSUME UNCHANGED vars PROVE Accuracy'
  BY <1>7, <1>17 DEF vars, engineVars, diskVars, historyVars
<1> QED
  BY <1>4, <1>5, <1>6, <1>8, <1>9, <1>10, <1>13, <1>14, <1>15, <1>16, <1>17 DEF Next

(* With one ingest at a time the tables are exact when nothing is in progress,
   and never further behind than the detection in progress and one for each
   failed statement, through crashes, resets and triage. *)
THEOREM DiskStaysAccurate == Spec => []DiskAccurate
<1>1. AccuracyInv => DiskAccurate
  <2> SUFFICES ASSUME AccuracyInv, ~overlapped, ~raced
               PROVE  /\ \A i \in DOMAIN rows : rows[i].count - saved[i] \in 0..(1 + FaultsSoFar)
                      /\ Busy = {} /\ admin = "idle" /\ FaultsSoFar = 0 => \A i \in Live :
                            /\ i \in DOMAIN rows
                            /\ rows[i].count = count[i] /\ saved[i] = count[i]
                            /\ rows[i].actionable = (count[i] >= ActionableAt)
    BY DEF DiskAccurate
  <2>1. RowsAhead /\ EngineAhead
    BY DEF AccuracyInv, Accurate
  <2>2. ASSUME Busy = {}, admin = "idle", FaultsSoFar = 0, NEW i \in Live
        PROVE  ExactRow(i) /\ saved[i] = count[i]
    <3>1. ~Unsaved(i) /\ ~Uncommitted(i)
      BY <2>2 DEF Unsaved, Uncommitted, Busy
    <3>2. count[i] \in Nat /\ saved[i] \in Nat
      BY DEF AccuracyInv, StoreInv, TypeOK, Live
    <3>3. /\ count[i] - saved[i] - (IF Unsaved(i) THEN 1 ELSE 0) \in 0..0
          /\ ExactRow(i)
      BY <2>1, <2>2, <3>1 DEF EngineAhead
    <3> QED BY <3>1, <3>2, <3>3
  <2> QED BY <2>1, <2>2 DEF RowsAhead, ExactRow, Actionable
<1> QED BY <1>1, AccuracyStarts, AccuracySteps, PTL DEF Spec
-----------------------------------------------------------------------------
(* The tables are a ledger.                                                *)

\* No row and no snapshot tells of more detections than the engine has seen.
Behind ==
    /\ \A i \in DOMAIN rows : rows[i].count <= count[i]
    /\ \A w \in Worker : task[w].pc = "commit" => task[w].snap.count <= count[task[w].id]

LEMMA BehindStarts == Init => Behind
BY ConstantFacts DEF Init, Behind

\* The engine's counts never fall, so what did not exceed them never does.
LEMMA CountsGrow ==
    ASSUME TypeOK, [Next]_vars
    PROVE  \A i \in Id : count'[i] >= count[i]
<1>0. count \in [Id -> Nat]
  BY DEF TypeOK
<1>1. ASSUME NEW root \in Root, Target(root) \in Id,
             count' = [count EXCEPT ![Target(root)] = @ + 1]
      PROVE  \A i \in Id : count'[i] >= count[i]
  BY <1>0, <1>1
<1>2. ASSUME UNCHANGED count PROVE \A i \in Id : count'[i] >= count[i]
  BY <1>0, <1>2
<1>3. ASSUME NEW w \in Worker, Continue(w) PROVE \A i \in Id : count'[i] >= count[i]
  <2>1. task[w].root \in Root
    BY DEF TypeOK, Task
  <2> QED BY <1>1, <1>2, <1>3, <2>1 DEF Continue, CorrelateOn
<1>4. \/ \E w \in Worker, root \in Root, n \in 1..MaxPerEvent : Arrive(w, root, n)
      \/ \E w \in Worker : Continue(w)
      \/ UNCHANGED count
  BY DEF Next, Select, Fill, Commit, Save, DatabaseError, Close, TriageSelect, TriageCommit,
         ResetRequest, ResetDelete, ResetFails, ResetRebuild, Crash, engineVars, vars
<1> QED BY <1>1, <1>2, <1>3, <1>4 DEF Arrive, CorrelateOn

(* What one step does to the snapshot of a task. *)
LEMMA SnapshotSteps ==
    ASSUME StoreInv, [Next]_vars, NEW w \in Worker, task'[w].pc = "commit"
    PROVE  \/ task'[w] = task[w]
           \/ /\ task'[w].id = task[w].id /\ task[w].pc # "idle"
              /\ task'[w].snap.count = count[task[w].id] /\ UNCHANGED count
<1>0. task \in [Worker -> Task]
  BY DEF StoreInv, TypeOK
<1>1. ASSUME NEW v \in Worker, NEW root, NEW left, CorrelateOn(v, root, left)
      PROVE  task'[w] = task[w]
  BY <1>0, <1>1 DEF CorrelateOn, Begun
<1>2. ASSUME NEW v \in Worker, Abandoned(v) PROVE task'[w] = task[w]
  BY <1>0, <1>2, ConstantFacts DEF Abandoned
<1>3. ASSUME NEW v \in Worker, Continue(v) PROVE task'[w] = task[w]
  BY <1>1, <1>2, <1>3 DEF Continue
<1>4. ASSUME NEW v \in Worker, Fill(v)
      PROVE  \/ task'[w] = task[w]
             \/ /\ task'[w].id = task[w].id /\ task[w].pc # "idle"
                /\ task'[w].snap.count = count[task[w].id] /\ UNCHANGED count
  BY <1>4, Slices DEF Fill, engineVars
<1>5. ASSUME NEW v \in Worker, Select(v) \/ Commit(v) \/ Save(v) \/ DatabaseError(v)
      PROVE  task'[w] = task[w]
  <2>1. task'[v].pc # "commit" /\ \A x \in Worker \ {v} : task'[x] = task[x]
    BY <1>5, Slices
  <2> QED BY <2>1
<1>6. ASSUME Crash PROVE FALSE
  BY <1>6, ConstantFacts DEF Crash
<1>7. \/ \E v \in Worker :
            \/ \E root \in Root, n \in 1..MaxPerEvent : Arrive(v, root, n)
            \/ Continue(v) \/ Fill(v)
            \/ Select(v) \/ Commit(v) \/ Save(v) \/ DatabaseError(v)
      \/ Crash
      \/ UNCHANGED task
  BY DEF Next, Close, TriageSelect, TriageCommit,
         ResetRequest, ResetDelete, ResetFails, ResetRebuild, vars
<1>8. ASSUME NEW v \in Worker, NEW root \in Root, NEW n \in 1..MaxPerEvent, Arrive(v, root, n)
      PROVE  task'[w] = task[w]
  BY <1>1, <1>8 DEF Arrive
<1> QED BY <1>3, <1>4, <1>5, <1>6, <1>7, <1>8

LEMMA BehindSteps == StoreInv /\ Behind /\ [Next]_vars => Behind'
<1> SUFFICES ASSUME StoreInv, Behind, [Next]_vars PROVE Behind'
  OBVIOUS
<1>0. /\ count \in [Id -> Nat] /\ count' \in [Id -> Nat] /\ \A i \in Id : count'[i] >= count[i]
      /\ rows \in [DOMAIN rows -> Row] /\ DOMAIN rows \subseteq Id
      /\ task \in [Worker -> Task]
  <2>1. TypeOK /\ TypeOK'
    BY TypeStep DEF StoreInv
  <2> QED BY <2>1, CountsGrow DEF TypeOK
<1>1. \A w \in Worker : task[w].pc # "idle" => task[w].id \in Id
  <2> SUFFICES ASSUME NEW w \in Worker, task[w].pc # "idle" PROVE task[w].id \in Id
    OBVIOUS
  <2>1. task[w].id \in 1..(nextId - 1) /\ nextId \in 1..(MaxDetections + 1)
    BY DEF StoreInv, TypeOK, Busy
  <2> QED BY <2>1, BoundAssumption DEF Id
<1>2. ASSUME NEW w \in Worker, task'[w].pc = "commit"
      PROVE  task'[w].snap.count <= count'[task'[w].id]
  <2>1. CASE task'[w] = task[w]
    <3>1. /\ task[w].snap.count <= count[task[w].id] /\ task[w].id \in Id
          /\ task[w].snap.count \in Nat
      BY <1>0, <1>1, <1>2, <2>1 DEF Behind, Task, Row
    <3> QED BY <1>0, <2>1, <3>1
  <2>2. CASE /\ task'[w].id = task[w].id /\ task[w].pc # "idle"
             /\ task'[w].snap.count = count[task[w].id] /\ UNCHANGED count
    BY <1>0, <1>1, <2>2
  <2> QED BY <1>2, <2>1, <2>2, SnapshotSteps
<1>3. ASSUME NEW i \in DOMAIN rows' PROVE rows'[i].count <= count'[i]
  <2>1. ASSUME i \in DOMAIN rows, rows'[i].count = rows[i].count PROVE rows'[i].count <= count'[i]
    <3>1. rows[i].count <= count[i] /\ rows[i].count \in Nat /\ i \in Id
      BY <1>0, <2>1 DEF Behind, Row
    <3> QED BY <1>0, <2>1, <3>1
  <2>2. ASSUME NEW w \in Worker, Commit(w) PROVE rows'[i].count <= count'[i]
    <3> DEFINE t == task[w]
    <3>1. /\ t.snap.count <= count[t.id] /\ t.id \in Id /\ t.snap.count \in Nat
          /\ t.snap \in Row
      BY <1>0, <1>1, <2>2 DEF Behind, Task, Row, Commit
    <3>2. CASE rows' = Inserted(t)
      BY <1>0, <1>3, <2>1, <3>1, <3>2 DEF Inserted
    <3>3. CASE t.id \in DOMAIN rows /\ rows' = [rows EXCEPT ![t.id] = Updated(t, @)]
      <4>1. CASE i = t.id
        <5>1. rows[i] \in Row /\ i \in DOMAIN rows
          BY <1>0, <3>3, <4>1
        <5>2. rows'[i] = Updated(t, rows[i])
          BY <1>0, <3>3, <4>1
        <5>3. rows'[i].count = t.snap.count \/ rows'[i].count = rows[i].count
          BY <5>1, <5>2 DEF Updated, Column, Row
        <5> QED BY <1>0, <2>1, <3>1, <4>1, <5>1, <5>3
      <4>2. CASE i # t.id
        BY <1>0, <1>3, <2>1, <3>3, <4>2
      <4> QED BY <4>1, <4>2
    <3>4. CASE UNCHANGED rows
      BY <1>3, <2>1, <3>4
    <3> QED BY <2>2, <3>2, <3>3, <3>4 DEF Commit
  <2>3. ASSUME TriageCommit PROVE i \in DOMAIN rows /\ rows'[i].count = rows[i].count
    <3>1. \A j \in DOMAIN rows : rows[j] \in Row
      BY <1>0
    <3> QED BY <1>0, <1>3, <2>3, <3>1 DEF TriageCommit, Row
  <2>4. ASSUME ResetDelete PROVE FALSE
    BY <1>3, <2>4 DEF ResetDelete
  <2>5. \/ \E w \in Worker : Commit(w)
        \/ TriageCommit \/ ResetDelete \/ UNCHANGED rows
    BY DEF Next, Arrive, Select, Fill, Save, Continue, DatabaseError, Close, TriageSelect,
           ResetRequest, ResetFails, ResetRebuild, Crash, diskVars, vars
  <2> QED BY <1>3, <2>1, <2>2, <2>3, <2>4, <2>5
<1> QED BY <1>2, <1>3 DEF Behind

\* What the ledger shows of an incident.
Told(i) == IF i \in DOMAIN rows THEN rows[i].count ELSE 0
Stands(i) == IF i \in DOMAIN rows THEN rows[i].status ELSE "open"

LEMMA LedgerViews ==
    /\ ToldByRow = [i \in Id |-> Told(i)] /\ ToldByRow' = [i \in Id |-> Told(i)']
    /\ StatusOfRow = [i \in Id |-> Stands(i)] /\ StatusOfRow' = [i \in Id |-> Stands(i)']
BY DEF ToldByRow, StatusOfRow, Told, Stands

LedgerStep == Ledger!LedgerNext \/ UNCHANGED Ledger!ledgerVars

(* A commit brings the entry of its incident up to date, or leaves the ledger
   as it is: the row tells of no more than the engine has counted. *)
LEMMA CommitTells ==
    ASSUME StoreInv, Fresh, Accuracy, Behind, ~raced, NEW w \in Worker, Commit(w)
    PROVE  LedgerStep
<1> DEFINE t == task[w]
<1>0. /\ count \in [Id -> Nat] /\ rows \in [DOMAIN rows -> Row] /\ DOMAIN rows \subseteq Id
      /\ saved \in [Id -> Nat] /\ nextId \in 1..(MaxDetections + 1) /\ FaultsSoFar \in Nat
      /\ t \in Task /\ t.pc = "commit" /\ saved' = saved
  BY BoundAssumption DEF StoreInv, TypeOK, Commit, Fresh, FaultsSoFar
<1>1. admin = "idle" /\ Knows(w)
  BY <1>0 DEF StoreInv, ResetAlone, Accuracy
<1>2. t.id \in Live /\ t.id \in Id
  <2>1. t.id \in 1..(nextId - 1) /\ t.id >= boot /\ t.id >= wiped
    BY <1>0 DEF StoreInv, TypeOK, Busy, Fresh, SinceWiped
  <2> QED BY <1>0, <2>1, BoundAssumption DEF Live, Id
<1>3. count[t.id] \in Nat /\ count[t.id] >= 1
  <2>1. count[t.id] - saved[t.id] - (IF Unsaved(t.id) THEN 1 ELSE 0) \in 0..FaultsSoFar
    BY <1>1, <1>2 DEF Accuracy, EngineAhead
  <2>2. Unsaved(t.id)
    BY <1>0 DEF Unsaved
  <2> QED BY <1>0, <1>2, <2>1, <2>2
<1>4. t.snap \in Row /\ t.snap.count = count[t.id] /\ t.snap.status = t.seen.status
  BY <1>0, <1>1 DEF Knows, StoreInv, SnapKeepsStatus, Task
<1>5. CASE /\ t.seen = NoRow /\ t.id \notin DOMAIN rows
           /\ rows' = Inserted(t)
  <2>1. t.snap.status = "open"
    BY <1>4, <1>5, ConstantFacts
  <2>2. \A i \in Id : /\ Told(i)' = IF i = t.id THEN count[t.id] ELSE Told(i)
                      /\ Stands(i)' = Stands(i)
    BY <1>2, <1>4, <1>5, <2>1 DEF Told, Stands, Inserted
  <2>3. Told(t.id) = 0
    BY <1>5 DEF Told
  <2>4. Ledger!Tell(t.id)
    <3> HIDE DEF t
    <3> QED BY <1>0, <1>2, <1>3, <2>2, <2>3, LedgerViews DEF Ledger!Tell
  <2> QED BY <1>2, <2>4 DEF LedgerStep, Ledger!LedgerNext
<1>6. CASE /\ t.id \in DOMAIN rows
           /\ rows' = [rows EXCEPT ![t.id] = Updated(t, @)]
  <2>1. rows[t.id] \in Row /\ rows[t.id].count <= count[t.id] /\ t.seen.count = rows[t.id].count
    BY <1>0, <1>1, <1>6 DEF Behind, Knows
  <2>2. rows'[t.id].count = count[t.id] /\ rows'[t.id].status = rows[t.id].status
    <3>1. rows'[t.id] = Updated(t, rows[t.id])
      BY <1>0, <1>6
    <3>2. Updated(t, rows[t.id]).status = rows[t.id].status
      BY <2>1 DEF Updated, Row
    <3>3. Updated(t, rows[t.id]).count = Column(t.seen.count, t.snap.count, rows[t.id].count)
      BY <2>1 DEF Updated, Row
    <3> QED BY <1>4, <2>1, <3>1, <3>2, <3>3 DEF Column
  <2>3. DOMAIN rows' = DOMAIN rows /\ \A i \in DOMAIN rows : i # t.id => rows'[i] = rows[i]
    BY <1>0, <1>6
  <2>4. \A i \in Id : /\ Told(i)' = IF i = t.id THEN count[t.id] ELSE Told(i)
                      /\ Stands(i)' = Stands(i)
    BY <1>6, <2>2, <2>3 DEF Told, Stands
  <2>5. Told(t.id) = rows[t.id].count /\ rows[t.id].count \in Nat
    BY <1>6, <2>1 DEF Told, Row
  <2> HIDE DEF t
  <2>6. CASE rows[t.id].count = count[t.id]
    <3>1. \A i \in Id : Told(i)' = Told(i) /\ Stands(i)' = Stands(i)
      BY <2>4, <2>5, <2>6
    <3> QED BY <1>0, <3>1, LedgerViews DEF LedgerStep, Ledger!ledgerVars
  <2>7. CASE rows[t.id].count < count[t.id]
    <3>1. Ledger!Tell(t.id)
      BY <1>0, <1>2, <1>3, <2>4, <2>5, <2>7, LedgerViews DEF Ledger!Tell
    <3> QED BY <1>2, <3>1 DEF LedgerStep, Ledger!LedgerNext
  <2> QED BY <1>3, <2>1, <2>5, <2>6, <2>7
<1>7. CASE UNCHANGED rows
  BY <1>0, <1>7 DEF LedgerStep, Ledger!ledgerVars, ToldByRow, StatusOfRow
<1> QED BY <1>5, <1>6, <1>7 DEF Commit

(* A detection is stored under an incident that already tells of it. *)
LEMMA SaveFiles ==
    ASSUME StoreInv, Fresh, Accuracy, ~raced, NEW w \in Worker, Save(w)
    PROVE  LedgerStep
<1> DEFINE id == task[w].id
<1>0. /\ count \in [Id -> Nat] /\ saved \in [Id -> Nat] /\ nextId \in 1..(MaxDetections + 1)
      /\ task[w].pc = "save" /\ rows' = rows /\ saved' = [saved EXCEPT ![id] = @ + 1]
      /\ FaultsSoFar \in Nat
  BY BoundAssumption DEF StoreInv, TypeOK, Save, Fresh, FaultsSoFar
<1>1. admin = "idle" /\ ExactRow(id)
  BY <1>0 DEF StoreInv, ResetAlone, Accuracy, Knows
<1>2. id \in Live /\ id \in Id
  <2>1. id \in 1..(nextId - 1) /\ id >= boot /\ id >= wiped
    BY <1>0 DEF StoreInv, TypeOK, Busy, Fresh, SinceWiped
  <2> QED BY <1>0, <2>1, BoundAssumption DEF Live, Id
<1>3. Unsaved(id)
  BY <1>0 DEF Unsaved
<1> HIDE DEF id
<1>4. saved[id] < count[id]
  <2>1. count[id] - saved[id] - (IF Unsaved(id) THEN 1 ELSE 0) \in 0..FaultsSoFar
    BY <1>1, <1>2 DEF Accuracy, EngineAhead
  <2> QED BY <1>0, <1>2, <1>3, <2>1
<1>5. ToldByRow[id] = count[id]
  BY <1>1, <1>2 DEF ToldByRow, ExactRow
<1>6. Ledger!File(id)
  BY <1>0, <1>4, <1>5 DEF Ledger!File, ToldByRow, StatusOfRow
<1> QED BY <1>2, <1>6 DEF LedgerStep, Ledger!LedgerNext

(* A triage passes a verdict on one incident that has a row, or on none. *)
LEMMA TriageJudges ==
    ASSUME StoreInv, Accuracy, TriageCommit
    PROVE  LedgerStep
<1>0. /\ rows \in [DOMAIN rows -> Row] /\ DOMAIN rows \subseteq Id /\ saved' = saved
      /\ triage.status \in Status
  BY DEF StoreInv, TypeOK, TriageCommit
<1>1. CASE triage.id \in DOMAIN rows
  <2> DEFINE v == Column(triage.seen, triage.status, rows[triage.id].status)
  <2>1. rows' = [rows EXCEPT ![triage.id].status = v]
    BY <1>0, <1>1 DEF TriageCommit
  <2>2. v \in Status /\ rows[triage.id] \in Row /\ triage.id \in Id
    <3>1. rows[triage.id] \in Row
      BY <1>0, <1>1
    <3> QED BY <1>0, <1>1, <3>1 DEF Column, Row
  <2> HIDE DEF v
  <2>3. /\ DOMAIN rows' = DOMAIN rows
        /\ \A i \in DOMAIN rows : i # triage.id => rows'[i] = rows[i]
    BY <1>0, <2>1
  <2>4. rows'[triage.id].count = rows[triage.id].count /\ rows'[triage.id].status = v
    BY <1>0, <1>1, <2>1, <2>2 DEF Row
  <2>5. \A i \in Id : /\ Told(i)' = Told(i)
                      /\ Stands(i)' = IF i = triage.id THEN v ELSE Stands(i)
    BY <1>1, <2>3, <2>4 DEF Told, Stands
  <2>6. Told(triage.id) > 0
    <3>1. rows[triage.id].count >= 1 /\ rows[triage.id].count \in Nat
      BY <1>1, <2>2 DEF Accuracy, RowsAhead, Row
    <3> QED BY <1>1, <3>1 DEF Told
  <2>7. Ledger!Judge(triage.id, v)
    BY <1>0, <2>2, <2>5, <2>6, LedgerViews DEF Ledger!Judge
  <2> QED BY <2>2, <2>7 DEF LedgerStep, Ledger!LedgerNext
<1>2. CASE triage.id \notin DOMAIN rows
  <2>1. rows' = rows
    BY <1>2 DEF TriageCommit
  <2> QED BY <1>0, <2>1 DEF LedgerStep, Ledger!ledgerVars, ToldByRow, StatusOfRow
<1> QED BY <1>1, <1>2

(* Until two ingests overlap or a reset meets one, every step of the store is
   a step of the ledger, or leaves it alone: commits tell, saves file, triage
   judges, and a reset blanks the whole of it. *)
THEOREM StoreRefinesLedger == Spec => StoreIsLedger
<1>1. Init => Ledger!Blank
  BY DEF Init, Ledger!Blank, ToldByRow, StatusOfRow
<1>2. Init => AccuracyInv /\ Behind
  BY AccuracyStarts, BehindStarts
<1>3. AccuracyInv /\ Behind /\ [Next]_vars => AccuracyInv' /\ Behind'
  BY AccuracySteps, BehindSteps DEF AccuracyInv
<1>4. AccuracyInv /\ Behind /\ [Next]_vars =>
         [overlapped' \/ raced' \/ Ledger!LedgerNext]_(Ledger!ledgerVars)
  <2> SUFFICES ASSUME AccuracyInv, Behind, [Next]_vars, ~overlapped', ~raced' PROVE LedgerStep
    BY DEF LedgerStep
  <2>1. StoreInv /\ Fresh
    BY DEF AccuracyInv
  <2>2. ASSUME NEW w \in Worker, Commit(w) \/ Save(w) PROVE LedgerStep
    <3>1. ~raced /\ Accuracy
      BY <2>2 DEF Commit, Save, historyVars, AccuracyInv, Accurate, Accuracy
    <3> QED BY <2>1, <2>2, <3>1, CommitTells, SaveFiles
  <2>3. ASSUME TriageCommit PROVE LedgerStep
    <3>1. Accuracy
      BY <2>3 DEF TriageCommit, historyVars, AccuracyInv, Accurate, Accuracy
    <3> QED BY <2>1, <2>3, <3>1, TriageJudges
  <2>4. ASSUME ResetDelete PROVE LedgerStep
    <3>1. Ledger!Blank'
      BY <2>4 DEF ResetDelete, Ledger!Blank, ToldByRow, StatusOfRow
    <3> QED BY <3>1 DEF LedgerStep, Ledger!LedgerNext
  <2>5. ASSUME UNCHANGED diskVars PROVE LedgerStep
    BY <2>5 DEF diskVars, LedgerStep, Ledger!ledgerVars, ToldByRow, StatusOfRow
  <2>6. \/ \E w \in Worker : Commit(w) \/ Save(w)
        \/ TriageCommit \/ ResetDelete \/ UNCHANGED diskVars
    BY DEF Next, Arrive, Select, Fill, Continue, DatabaseError, Close, TriageSelect,
           ResetRequest, ResetFails, ResetRebuild, Crash, diskVars, vars
  <2> QED BY <2>2, <2>3, <2>4, <2>5, <2>6
<1> QED BY <1>1, <1>2, <1>3, <1>4, PTL DEF Spec, StoreIsLedger
=============================================================================
