-------------------------------- MODULE Console --------------------------------
(***************************************************************************)
(* The live console: what backend/api/ws.py pushes, what api/incidents.py  *)
(* and api/status.py answer, and the copy of the incidents that            *)
(* frontend/static/console.js builds from both.  Pipeline.process() runs   *)
(* as tasks that await at each statement and at each client sent to;       *)
(* DELETE /admin/database as one more.                                     *)
(*                                                                         *)
(* A record is what a row, an answer and a push carry of an incident: its  *)
(* detection count and its status.  A broadcast is for the sessions that   *)
(* are connected when it starts and walks them one by one, so those that   *)
(* overlap may overtake each other.  Each session is a FIFO, delivered     *)
(* late.  Answers of requests travel on connections of their own.          *)
(* Detections are pushed before their incident and only fill the stream,   *)
(* which is left out; so is an offline period the server has not noticed   *)
(* yet.                                                                    *)
(***************************************************************************)
EXTENDS Naturals, Sequences, FiniteSets

CONSTANTS
    Incident,       \* ids of incidents
    Task,           \* events that can be in process at once
    Session,        \* browser tabs
    Status,         \* triage states, "open" among them
    MaxCount,       \* bound on the detections of an incident
    MaxFaults,      \* bound on the failed statements
    MaxResets,      \* bound on the resets
    MaxPages,       \* bound on the page loads and lost connections
    MaxTriages      \* bound on the status changes

ASSUME ConsoleAssumption ==
    /\ "open" \in Status
    /\ {MaxCount, MaxFaults, MaxResets, MaxPages, MaxTriages} \subseteq Nat

VARIABLES
    count,       \* detections of each Incident object
    engine,      \* the incidents the correlator knows
    rows,        \* IncidentRow: id -> record
    wiped,       \* history: incidents a reset has removed
    task,        \* Idle or the step and incident of a running process()
    resetting,   \* the tables are empty, the engine not yet rebuilt
    straddled,   \* history: something was in flight across a reset
    unannounced, \* history: incidents with a detection dropped since their last push
    crossed,     \* history: incidents whose last push began amid another of theirs
    session,     \* the browser tabs
    faults, resets, pages, triages

bounds  == <<faults, resets, pages, triages>>
history == <<wiped, straddled, unannounced, crossed>>
vars    == <<count, engine, rows, task, resetting, session, history, bounds>>

NoAnswer == [kind |-> "none"]
NoSession ==
    [loaded |-> FALSE, online |-> FALSE, due |-> {}, queue |-> <<>>, answer |-> NoAnswer,
     view |-> [i \in {} |-> NoAnswer], pushed |-> {}, resolved |-> {}, lost |-> FALSE]

Idle == [step |-> "idle"]
IsResolved(status) == status \in {"closed", "false_positive"}

\* ---- serializers.py
\* A stored incident, for an answer.
SerializeIncidentRow(i) == rows[i]

\* A live incident, for a push: the correlator knows nothing of its triage.
SerializeIncident(i) == [count |-> count[i], status |-> "open"]

\* ---- ConnectionManager.broadcast()
\* Mutant of Broadcast: sessions that are gone are still sent to.
BroadcastToAll(w, message) ==
    session' = [s \in Session |->
        [session[s] EXCEPT !.due = @ \cup {[by |-> w, message |-> message]}]]

\* w lists the clients: each of them is due the message.
Broadcast(w, message) ==
    session' = [s \in Session |->
        IF session[s].online
        THEN [session[s] EXCEPT !.due = @ \cup {[by |-> w, message |-> message]}]
        ELSE IF session[s].loaded THEN [session[s] EXCEPT !.lost = TRUE]
        ELSE session[s]]

\* The walk gets to a client.
Send(s, w) ==
    /\ \E d \in session[s].due :
          /\ d.by = w
          /\ session' = [session EXCEPT ![s].due = @ \ {d}, ![s].queue = Append(@, d.message)]
    /\ UNCHANGED <<count, engine, rows, task, resetting, history, bounds>>

Walking(w) == \E s \in Session : \E d \in session[s].due : d.by = w

\* ---- Pipeline.process()
\* correlate(): the open incident grows, or a new one opens.
Correlate(t, i) ==
    /\ task[t] = Idle
    /\ count[i] < MaxCount
    /\ \/ i \in engine
       \/ i \notin engine \cup wiped /\ count[i] = 0
    /\ count' = [count EXCEPT ![i] = @ + 1]
    /\ engine' = engine \cup {i}
    /\ task' = [task EXCEPT ![t] = [step |-> "store", incident |-> i, seen |-> count[i] + 1]]
    /\ UNCHANGED <<rows, resetting, session, history, bounds>>

\* Mutant of Stored: only a new incident is announced.
StoredNewOnly(t) ==
    IF task[t].incident \in DOMAIN rows THEN Idle ELSE [task[t] EXCEPT !.step = "save"]

Stored(t) == [task[t] EXCEPT !.step = "save"]

\* upsert_incident(): the engine's columns are written, the analyst's kept.
Store(t) ==
    /\ task[t].step = "store"
    /\ LET i == task[t].incident IN
       rows' = [j \in DOMAIN rows \cup {i} |->
                  IF j # i THEN rows[j]
                  ELSE [count  |-> count[i],
                        status |-> IF i \in DOMAIN rows THEN rows[i].status ELSE "open"]]
    /\ task' = [task EXCEPT ![t] = Stored(t)]
    /\ UNCHANGED <<count, engine, resetting, session, history, bounds>>

\* save_detection(): a row of its own, which no list of incidents carries.
Save(t) ==
    /\ task[t].step = "save"
    /\ task' = [task EXCEPT ![t].step = "publish"]
    /\ UNCHANGED <<count, engine, rows, resetting, session, history, bounds>>

\* Either statement fails: the exception leaves process() before _publish(),
\* but the engine has counted the detection.
Fail(t) ==
    /\ task[t].step \in {"store", "save"}
    /\ faults < MaxFaults
    /\ faults' = faults + 1
    /\ unannounced' = unannounced \cup {task[t].incident}
    /\ task' = [task EXCEPT ![t] = Idle]
    /\ UNCHANGED <<count, engine, rows, resetting, session, wiped, straddled, crossed,
                   resets, pages, triages>>

\* Mutant of PushOf: the push is what the task saw when it correlated.
PushOfSeen(t) == [count |-> task[t].seen, status |-> "open"]

\* The incident is serialized when its broadcast starts, after the awaits.
PushOf(t) == SerializeIncident(task[t].incident)

\* Mutant of PublishStep: the incident is pushed before it is stored.
PublishStepEarly == "store"

PublishStep == "publish"

\* Another broadcast of the same incident is under way.
Crosses(t) ==
    \E u \in Task \ {t} : task[u].step = "send" /\ task[u].incident = task[t].incident

\* _publish(): its broadcast of the incident starts.
Publish(t) ==
    /\ task[t].step = PublishStep
    /\ Broadcast(t, [type |-> "incident", id |-> task[t].incident, record |-> PushOf(t)])
    /\ task' = [task EXCEPT ![t].step = "send"]
    /\ unannounced' = unannounced \ {task[t].incident}
    /\ crossed' = IF Crosses(t) THEN crossed \cup {task[t].incident}
                                ELSE crossed \ {task[t].incident}
    /\ UNCHANGED <<count, engine, rows, resetting, wiped, straddled, bounds>>

\* All were sent to: process() returns.
Sent(t) ==
    /\ task[t].step = "send" /\ ~Walking(t)
    /\ task' = [task EXCEPT ![t] = Idle]
    /\ UNCHANGED <<count, engine, rows, resetting, session, history, bounds>>

\* ---- DELETE /admin/database
\* One reset at a time, its broadcast included.
ResetDelete ==
    /\ ~resetting /\ ~Walking("reset") /\ resets < MaxResets
    /\ resetting' = TRUE
    /\ wiped' = wiped \cup DOMAIN rows
    /\ rows' = [i \in {} |-> NoAnswer]
    /\ resets' = resets + 1
    /\ UNCHANGED <<count, engine, task, session, straddled, unannounced, crossed,
                   faults, pages, triages>>

\* Something that read an incident before the reset and shows it after.
InFlight ==
    \/ \E t \in Task : task[t] # Idle
    \/ \E s \in Session : session[s].answer # NoAnswer

\* Mutant of ResetPush: only the sessions that show an incident are told.
ResetPushToSome ==
    session' = [s \in Session |->
        IF session[s].online /\ DOMAIN session[s].view # {}
        THEN [session[s] EXCEPT !.due = @ \cup {[by |-> "reset", message |-> [type |-> "reset"]]}]
        ELSE session[s]]

ResetPush == Broadcast("reset", [type |-> "reset"])

\* Pipeline.reset() and the broadcast.
ResetRebuild ==
    /\ resetting
    /\ resetting' = FALSE
    /\ wiped' = wiped \cup engine
    /\ engine' = {}
    /\ straddled' = (straddled \/ InFlight)
    /\ ResetPush
    /\ UNCHANGED <<count, rows, task, unannounced, crossed, bounds>>

\* ---- console.js
Becomes(s, tab) == session' = [session EXCEPT ![s] = tab]

\* The page is opened or reloaded: bootstrap() asks for the incidents.
OpenPage(s) ==
    /\ pages < MaxPages
    /\ Becomes(s, [NoSession EXCEPT !.loaded = TRUE, !.answer = [kind |-> "asked"]])
    /\ pages' = pages + 1
    /\ UNCHANGED <<count, engine, rows, task, resetting, history, faults, resets, triages>>

\* GET /incidents is answered.
ListIncidents(s) ==
    /\ session[s].answer.kind = "asked"
    /\ Becomes(s, [session[s] EXCEPT !.answer =
            [kind |-> "list", records |-> [i \in DOMAIN rows |-> SerializeIncidentRow(i)]]])
    /\ UNCHANGED <<count, engine, rows, task, resetting, history, bounds>>

\* The answer arrives: its incidents are set, those shown already are kept.
Bootstrap(s) ==
    /\ session[s].answer.kind = "list"
    /\ LET records == session[s].answer.records
           view == session[s].view
       IN Becomes(s, [session[s] EXCEPT !.answer = NoAnswer,
                        !.view = [i \in DOMAIN records \cup DOMAIN view |->
                            IF i \in DOMAIN records THEN records[i] ELSE view[i]],
                        !.pushed = @ \ DOMAIN records])
    /\ UNCHANGED <<count, engine, rows, task, resetting, history, bounds>>

\* connect(): at once, and again after a lost connection; nothing is fetched.
Connect(s) ==
    /\ session[s].loaded /\ ~session[s].online
    /\ Becomes(s, [session[s] EXCEPT !.online = TRUE])
    /\ UNCHANGED <<count, engine, rows, task, resetting, history, bounds>>

\* The connection is lost, and what was on its way or still to be sent with it.
Drop(s) ==
    /\ session[s].online /\ pages < MaxPages
    /\ Becomes(s, [session[s] EXCEPT !.online = FALSE, !.due = {}, !.queue = <<>>,
                        !.lost = @ \/ session[s].queue # <<>> \/ session[s].due # {}])
    /\ pages' = pages + 1
    /\ UNCHANGED <<count, engine, rows, task, resetting, history, faults, resets, triages>>

\* onmessage: an incident replaces the copy whole, a reset clears everything.
OnMessage(s) ==
    /\ session[s].online /\ session[s].queue # <<>>
    /\ LET message == Head(session[s].queue)
           tab == [session[s] EXCEPT !.queue = Tail(@)]
       IN IF message.type = "reset"
          THEN Becomes(s, [tab EXCEPT !.view = NoSession.view, !.pushed = {}, !.resolved = {}])
          ELSE Becomes(s, [tab EXCEPT !.view = [i \in DOMAIN @ \cup {message.id} |->
                                                 IF i = message.id THEN message.record ELSE @[i]],
                                      !.pushed = @ \cup {message.id}])
    /\ UNCHANGED <<count, engine, rows, task, resetting, history, bounds>>

\* PUT /incidents/{id}/status reaches the server: 404 if there is no such row.
SetStatus(s, i, status) ==
    /\ triages < MaxTriages
    /\ session[s].answer = NoAnswer /\ i \in DOMAIN session[s].view
    /\ triages' = triages + 1
    /\ IF i \in DOMAIN rows
       THEN /\ rows' = [rows EXCEPT ![i].status = status]
            /\ Becomes(s, [session[s] EXCEPT !.answer =
                 [kind |-> "row", id |-> i, record |-> rows'[i]]])
       ELSE UNCHANGED <<rows, session>>
    /\ UNCHANGED <<count, engine, task, resetting, history, faults, resets, pages>>

\* setIncidentStatus(): the row answered replaces the copy.
StatusAnswered(s) ==
    /\ session[s].answer.kind = "row"
    /\ LET i == session[s].answer.id
           record == session[s].answer.record
       IN Becomes(s, [session[s] EXCEPT !.answer = NoAnswer,
            !.view = [j \in DOMAIN @ \cup {i} |-> IF j = i THEN record ELSE @[j]],
            !.pushed = @ \ {i},
            !.resolved = IF IsResolved(record.status) THEN @ \cup {i} ELSE @ \ {i}])
    /\ UNCHANGED <<count, engine, rows, task, resetting, history, bounds>>

Init ==
    /\ count = [i \in Incident |-> 0]
    /\ engine = {} /\ wiped = {}
    /\ rows = [i \in {} |-> NoAnswer]
    /\ task = [t \in Task |-> Idle]
    /\ resetting = FALSE /\ straddled = FALSE
    /\ unannounced = {} /\ crossed = {}
    /\ session = [s \in Session |-> NoSession]
    /\ faults = 0 /\ resets = 0 /\ pages = 0 /\ triages = 0

\* What process() does after it has correlated.
Proceed(t) == Store(t) \/ Save(t) \/ Fail(t) \/ Publish(t) \/ Sent(t)

Next ==
    \/ \E t \in Task : (\E i \in Incident : Correlate(t, i)) \/ Proceed(t)
    \/ ResetDelete \/ ResetRebuild
    \/ \E s \in Session :
          \/ OpenPage(s) \/ ListIncidents(s) \/ Bootstrap(s)
          \/ Connect(s) \/ Drop(s) \/ OnMessage(s) \/ StatusAnswered(s)
          \/ \E w \in Task \cup {"reset"} : Send(s, w)
          \/ \E i \in Incident, status \in Status : SetStatus(s, i, status)

\* A request that was accepted is carried through by the event loop, to its end
\* or to an exception; each send ends, a message sent on an open socket arrives,
\* and the page reconnects for ever.
Fairness ==
    /\ \A t \in Task : WF_vars(Proceed(t))
    /\ WF_vars(ResetRebuild)
    /\ \A s \in Session :
          /\ WF_vars(Connect(s)) /\ WF_vars(OnMessage(s))
          /\ \A w \in Task \cup {"reset"} : WF_vars(Send(s, w))

Spec == Init /\ [][Next]_vars /\ Fairness

-----------------------------------------------------------------------------
(* Properties.                                                             *)

\* Type invariant.
TypeOK ==
    /\ count \in [Incident -> 0..MaxCount]
    /\ engine \subseteq Incident /\ wiped \subseteq Incident
    /\ DOMAIN rows \subseteq Incident
    /\ \A i \in DOMAIN rows : rows[i] \in [count : 1..MaxCount, status : Status]
    /\ \A t \in Task : task[t].step \in {"idle", "store", "save", "publish", "send"}
    /\ unannounced \cup crossed \subseteq Incident
    /\ \A s \in Session :
          /\ DOMAIN session[s].view \subseteq Incident
          /\ session[s].pushed \subseteq DOMAIN session[s].view
          /\ ~session[s].online => session[s].queue = <<>> /\ session[s].due = {}

\* Whatever a console shows can be drilled into: an incident is shown only
\* after its row was stored, unless a reset has removed it
\* (pipeline.py:138-143, incidents.py:126-132).
ShownIsStored ==
    \A s \in Session : DOMAIN session[s].view \subseteq DOMAIN rows \cup wiped

\* A session that has received all it was sent, and is due no more.
UpToDate(s) ==
    session[s].online /\ session[s].due = {} /\ session[s].queue = <<>> /\ ~session[s].lost

\* An event has counted for the incident and not yet begun to push it.
Unpublished(t, i) ==
    task[t].step \in {"store", "save", "publish"} /\ task[t].incident = i

\* However the events of an incident interleave, once none of them has yet to
\* publish, a console whose copy came from a push shows the incident as the
\* engine knows it (pipeline.py:138-143, 170-187) - unless a failed statement
\* kept the last growth from being pushed, or the last push began while
\* another of the incident was being sent and was overtaken by it.
PushedViewIsLive ==
    \A i \in Incident \ (unannounced \cup crossed) :
        (\A t \in Task : ~Unpublished(t, i)) =>
            \A s \in Session : UpToDate(s) /\ i \in session[s].pushed =>
                session[s].view[i].count = count[i]

\* "Every connected console gets this, so no analyst is left staring at a stale
\* queue" (console.js:1015-1018): unless a request was in flight across a reset,
\* a console that lost no message shows nothing the reset removed.  (An event
\* that stores its incident between the delete and the rebuild keeps its row.)
NoGhosts ==
    ~straddled /\ ~resetting =>
        \A s \in Session : UpToDate(s) => DOMAIN session[s].view \cap wiped \subseteq DOMAIN rows

\* Growth is not lost on a console that stays connected: it shows at least the
\* count of every event the engine counted, unless the connection or the
\* incident goes first, or a statement fails and the exception skips the push.
GrowthShown ==
    \A s \in Session, i \in Incident :
        \A n \in 1..MaxCount :
            (session[s].online /\ i \in engine /\ count[i] = n
                /\ \E t \in Task : Unpublished(t, i))
            ~> \/ ~session[s].online \/ i \notin engine \/ i \in unannounced
               \/ i \in DOMAIN session[s].view /\ session[s].view[i].count >= n

\* "A closed or dismissed incident leaves Needs triage and All the moment an
\* analyst resolves it, and lives only under Closed" (console.js:770-772): what
\* this session resolved stays resolved in it while the row does.
ResolvedStaysClosed ==
    \A s \in Session : \A i \in session[s].resolved \cap DOMAIN rows :
        IsResolved(rows[i].status) => IsResolved(session[s].view[i].status)
=============================================================================
