------------------------------ MODULE ConsoleProofs ------------------------------
(* What a console shows was stored, and what a reset removed it forgets, for *)
(* any incidents, events in process, tabs, resets and lost connections.  The *)
(* invariant looks ahead: at what a tab is due, what is in its queue or in    *)
(* an answer, and at the events that are about to publish.                   *)
EXTENDS Console, SequenceTheorems, TLAPS

-----------------------------------------------------------------------------
(* The shape of the state.                                                 *)

Record == [count : 0..MaxCount, status : Status]
View == UNION {[ids -> Record] : ids \in SUBSET Incident}

USE DEF history, bounds

Message == [type : {"incident"}, id : Incident, record : Record] \cup [type : {"reset"}]

Due == [by : Task \cup {"reset"}, message : Message]

Answer ==
    [kind : {"none", "asked"}]
        \cup [kind : {"list"}, records : View]
        \cup [kind : {"row"}, id : Incident, record : Record]

Tab ==
    [loaded : BOOLEAN, online : BOOLEAN, due : SUBSET Due, queue : Seq(Message), answer : Answer,
     view : View, pushed : SUBSET Incident, resolved : SUBSET Incident, lost : BOOLEAN]

Running ==
    [step : {"store", "save", "publish", "send"}, incident : Incident, seen : 1..MaxCount]

ServerShape ==
    /\ count \in [Incident -> 0..MaxCount]
    /\ engine \subseteq Incident /\ wiped \subseteq Incident
    /\ unannounced \subseteq Incident /\ crossed \subseteq Incident
    /\ DOMAIN rows \subseteq Incident
    /\ rows \in [DOMAIN rows -> [count : 1..MaxCount, status : Status]]
    /\ task \in [Task -> {Idle} \cup Running]
    /\ \A t \in Task : task[t] # Idle => count[task[t].incident] > 0

TabShape(tab) ==
    /\ tab \in Tab
    /\ tab.pushed \subseteq DOMAIN tab.view
    /\ ~tab.online => tab.queue = <<>> /\ tab.due = {}
    /\ ~tab.loaded => tab.view = NoSession.view /\ tab.answer = NoAnswer /\ ~tab.online

Shape == ServerShape /\ session \in [Session -> Tab] /\ \A s \in Session : TabShape(session[s])

\* A step that changes one tab and nothing of the server's.
TabStep(s) ==
    \/ OpenPage(s) \/ ListIncidents(s) \/ Bootstrap(s) \/ Connect(s) \/ Drop(s)
    \/ OnMessage(s) \/ StatusAnswered(s)
    \/ \E w \in Task \cup {"reset"} : Send(s, w)

-----------------------------------------------------------------------------
(* The invariants.                                                         *)

\* What is due to a tab is of a broadcast under way.
Dues ==
    \A s \in Session : \A d \in session[s].due : d.message.type = "incident" =>
        d.by \in Task /\ task[d.by].step = "send" /\ task[d.by].incident = d.message.id

\* The incidents a console may show: stored, or removed by a reset.
Accounted == DOMAIN rows \cup wiped

\* All a tab shows, and all that is on its way to it, is among ids.
Within(tab, ids) ==
    /\ DOMAIN tab.view \subseteq ids
    /\ \A k \in 1..Len(tab.queue) : tab.queue[k].type = "incident" => tab.queue[k].id \in ids
    /\ tab.answer.kind = "list" => DOMAIN tab.answer.records \subseteq ids
    /\ tab.answer.kind = "row" => tab.answer.id \in ids

Stores ==
    /\ \A s \in Session : Within(session[s], Accounted)
    /\ \A t \in Task :
          task[t].step \in {"save", "publish", "send"} => task[t].incident \in Accounted

\* The incidents a reset removed, but for those stored again since.
Gone == wiped \ DOMAIN rows

AnswerAvoids(tab, gone) ==
    /\ tab.answer.kind = "list" => DOMAIN tab.answer.records \cap gone = {}
    /\ tab.answer.kind = "row" => tab.answer.id \notin gone

\* No message after the k-th is of an incident in gone.
QueueAvoids(tab, k, gone) ==
    \A j \in 1..Len(tab.queue) :
        j > k /\ tab.queue[j].type = "incident" => tab.queue[j].id \notin gone

\* The tab shows nothing of gone, or a reset is on its way and after it nothing,
\* or a reset is due.
Forgets(tab, gone) ==
    \/ DOMAIN tab.view \cap gone = {} /\ QueueAvoids(tab, 0, gone)
    \/ \E k \in 1..Len(tab.queue) : tab.queue[k].type = "reset" /\ QueueAvoids(tab, k, gone)
    \/ \E d \in tab.due : d.message.type = "reset"

Resets ==
    ~straddled /\ ~resetting =>
        /\ engine \cap wiped = {}
        /\ \A t \in Task : task[t] # Idle => task[t].incident \in engine
        /\ \A s \in Session :
              AnswerAvoids(session[s], Gone) /\ (~session[s].lost => Forgets(session[s], Gone))

\* No message after the k-th is of incident i.
QueueEnds(tab, k, i) ==
    \A j \in 1..Len(tab.queue) :
        j > k /\ tab.queue[j].type = "incident" => tab.queue[j].id # i

\* The last push of i that the tab received, or is to receive, carries n.
LastPush(tab, i, n) ==
    \/ QueueEnds(tab, 0, i) /\ (i \in tab.pushed => tab.view[i].count = n)
    \/ \E k \in 1..Len(tab.queue) :
          /\ tab.queue[k].type = "incident" /\ tab.queue[k].id = i
          /\ tab.queue[k].record.count = n
          /\ QueueEnds(tab, k, i)

\* The pushes of i the tab is due.
DueOf(tab, i) == {d \in tab.due : d.message.type = "incident" /\ d.message.id = i}

\* Whatever of i the tab gets last carries n.
Told(tab, i, n) ==
    /\ DueOf(tab, i) = {} => LastPush(tab, i, n)
    /\ \A d \in DueOf(tab, i) : d.message.record.count = n

Busy(i) == \E t \in Task : Unpublished(t, i)

Pushes ==
    \A s \in Session, i \in Incident :
        ~session[s].lost =>
            Busy(i) \/ i \in unannounced \cup crossed \/ Told(session[s], i, count[i])

-----------------------------------------------------------------------------
LEMMA ViewsHave ==
    ASSUME NEW view \in View
    PROVE  DOMAIN view \subseteq Incident /\ \A i \in DOMAIN view : view[i] \in Record
  BY DEF View

LEMMA IsView ==
    ASSUME NEW view, view = [i \in DOMAIN view |-> view[i]],
           DOMAIN view \subseteq Incident, \A i \in DOMAIN view : view[i] \in Record
    PROVE  view \in View
<1>1. view \in [DOMAIN view -> Record]
  OBVIOUS
<1>. QED
  BY <1>1 DEF View

LEMMA NoSessionShape == TabShape(NoSession)
<1>1. [i \in {} |-> NoAnswer] \in View
  BY DEF View
<1>2. NoAnswer \in Answer
  BY DEF NoAnswer, Answer
<1>3. <<>> \in Seq(Message)
  BY EmptySeq
<1>4. NoSession \in Tab
  BY <1>1, <1>2, <1>3 DEF NoSession, Tab
<1>. QED
  BY <1>4, NoSession.pushed = {} DEF TabShape, NoSession

\* A broadcast is due to a tab that is online.
LEMMA Delivered ==
    ASSUME NEW tab, TabShape(tab), tab.online, NEW w \in Task \cup {"reset"},
           NEW message \in Message
    PROVE  TabShape([tab EXCEPT !.due = @ \cup {[by |-> w, message |-> message]}])
<1>1. [by |-> w, message |-> message] \in Due
  BY DEF Due
<1>2. tab.due \cup {[by |-> w, message |-> message]} \in SUBSET Due
  BY <1>1 DEF TabShape, Tab
<1>. QED
  BY <1>2 DEF TabShape, Tab

LEMMA Missed ==
    ASSUME NEW tab, TabShape(tab)
    PROVE  TabShape([tab EXCEPT !.lost = TRUE])
  BY DEF TabShape, Tab

LEMMA BroadcastShape ==
    ASSUME Shape, NEW w \in Task \cup {"reset"}, NEW message \in Message, Broadcast(w, message)
    PROVE  session' \in [Session -> Tab] /\ \A s \in Session : TabShape(session'[s])
<1>1. ASSUME NEW s \in Session PROVE TabShape(session'[s])
  BY <1>1, Delivered, Missed DEF Shape, Broadcast
<1>2. \A s \in Session : session'[s] \in Tab
  BY <1>1 DEF TabShape
<1>3. DOMAIN session' = Session /\ session' = [s \in Session |-> session'[s]]
  BY DEF Broadcast
<1>. QED
  BY <1>1, <1>2, <1>3

\* A step of one tab.
LEMMA OneTab ==
    ASSUME Shape, NEW s \in Session, NEW tab, TabShape(tab),
           session' = [session EXCEPT ![s] = tab]
    PROVE  session' \in [Session -> Tab] /\ \A r \in Session : TabShape(session'[r])
  BY DEF Shape, TabShape

LEMMA ShapeImpliesTypeOK == Shape => TypeOK
<1> SUFFICES ASSUME Shape PROVE TypeOK
  OBVIOUS
<1>1. \A t \in Task : task[t].step \in {"idle", "store", "save", "publish", "send"}
  BY DEF Shape, ServerShape, Idle, Running
<1>2. \A s \in Session : DOMAIN session[s].view \subseteq Incident
  BY ViewsHave DEF Shape, Tab
<1>3. \A i \in DOMAIN rows : rows[i] \in [count : 1..MaxCount, status : Status]
  BY DEF Shape, ServerShape
<1>. QED
  BY <1>1, <1>2, <1>3 DEF Shape, ServerShape, TabShape, TypeOK

LEMMA ShapeStarts == Init => Shape
  BY NoSessionShape, ConsoleAssumption DEF Init, Shape, ServerShape, TabShape, Record, Idle

\* What each step does to a tab.
LEMMA BootstrapShape ==
    ASSUME Shape, NEW s \in Session, Bootstrap(s)
    PROVE  session' \in [Session -> Tab] /\ \A r \in Session : TabShape(session'[r])
<1> DEFINE old == session[s]
           records == old.answer.records
           view == [i \in DOMAIN records \cup DOMAIN old.view |->
                        IF i \in DOMAIN records THEN records[i] ELSE old.view[i]]
           tab == [old EXCEPT !.answer = NoAnswer, !.view = view,
                              !.pushed = old.pushed \ DOMAIN records]
<1>1. old \in Tab /\ TabShape(old)
  BY DEF Shape
<1>2. records \in View
  BY <1>1 DEF Bootstrap, Tab, Answer
<1>3. view \in View
  <2>1. /\ DOMAIN view \subseteq Incident
        /\ \A i \in DOMAIN view : view[i] \in Record
    BY <1>1, <1>2, ViewsHave DEF Tab
  <2>. QED
    BY <2>1, IsView
<1>4. NoAnswer \in Answer
  BY DEF NoAnswer, Answer
<1>5. old.loaded
  BY <1>1 DEF Bootstrap, TabShape, NoAnswer
<1>6. TabShape(tab)
  BY <1>1, <1>3, <1>4, <1>5 DEF TabShape, Tab
<1>7. session' = [session EXCEPT ![s] = tab]
  BY DEF Bootstrap, Becomes
<1>. QED
  BY <1>6, <1>7, OneTab

LEMMA OnMessageShape ==
    ASSUME Shape, NEW s \in Session, OnMessage(s)
    PROVE  session' \in [Session -> Tab] /\ \A r \in Session : TabShape(session'[r])
<1> DEFINE old == session[s]
           message == Head(old.queue)
           tab == [old EXCEPT !.queue = Tail(old.queue)]
           view == [i \in DOMAIN old.view \cup {message.id} |->
                        IF i = message.id THEN message.record ELSE old.view[i]]
<1>1. old \in Tab /\ TabShape(old) /\ old.online /\ old.loaded
  BY DEF Shape, OnMessage, TabShape
<1>2. message \in Message /\ Tail(old.queue) \in Seq(Message)
  BY <1>1, HeadTailProperties DEF OnMessage, Tab
<1>3. CASE message.type = "reset"
  <2> DEFINE new == [tab EXCEPT !.view = NoSession.view, !.pushed = {}, !.resolved = {}]
  <2>1. NoSession.view \in View
    BY NoSessionShape DEF TabShape, Tab
  <2>2. TabShape(new)
    BY <1>1, <1>2, <2>1 DEF TabShape, Tab
  <2>3. session' = [session EXCEPT ![s] = new]
    BY <1>3 DEF OnMessage, Becomes
  <2>. QED
    BY <2>2, <2>3, OneTab
<1>4. CASE message.type # "reset"
  <2> DEFINE new == [tab EXCEPT !.view = view, !.pushed = old.pushed \cup {message.id}]
  <2>1. message.id \in Incident /\ message.record \in Record
    BY <1>2, <1>4 DEF Message
  <2>2. DOMAIN view \subseteq Incident /\ \A i \in DOMAIN view : view[i] \in Record
    BY <1>1, <2>1, ViewsHave DEF Tab
  <2>3. view \in View
    BY <2>2, IsView
  <2>4. TabShape(new)
    BY <1>1, <1>2, <2>1, <2>3 DEF TabShape, Tab
  <2>5. session' = [session EXCEPT ![s] = new]
    BY <1>1, <1>4 DEF OnMessage, Becomes, Tab
  <2>. QED
    BY <2>4, <2>5, OneTab
<1>. QED
  BY <1>3, <1>4

LEMMA StatusAnsweredShape ==
    ASSUME Shape, NEW s \in Session, StatusAnswered(s)
    PROVE  session' \in [Session -> Tab] /\ \A r \in Session : TabShape(session'[r])
<1> DEFINE old == session[s]
           i == old.answer.id
           record == old.answer.record
           view == [j \in DOMAIN old.view \cup {i} |-> IF j = i THEN record ELSE old.view[j]]
           resolved == IF IsResolved(record.status) THEN old.resolved \cup {i}
                                                    ELSE old.resolved \ {i}
           tab == [old EXCEPT !.answer = NoAnswer, !.view = view,
                              !.pushed = old.pushed \ {i}, !.resolved = resolved]
<1>1. old \in Tab /\ TabShape(old)
  BY DEF Shape
<1>2. i \in Incident /\ record \in Record
  BY <1>1 DEF StatusAnswered, Tab, Answer
<1>3. view \in View
  <2>1. DOMAIN view \subseteq Incident /\ \A j \in DOMAIN view : view[j] \in Record
    BY <1>1, <1>2, ViewsHave DEF Tab
  <2>. QED
    BY <2>1, IsView
<1>4. NoAnswer \in Answer
  BY DEF NoAnswer, Answer
<1>5. old.loaded
  BY <1>1 DEF StatusAnswered, TabShape, NoAnswer
<1>6. TabShape(tab)
  BY <1>1, <1>2, <1>3, <1>4, <1>5 DEF TabShape, Tab
<1>7. session' = [session EXCEPT ![s] = tab]
  BY DEF StatusAnswered, Becomes
<1>. QED
  BY <1>6, <1>7, OneTab

LEMMA ConnectionShape ==
    ASSUME Shape, NEW s \in Session, OpenPage(s) \/ Connect(s) \/ Drop(s)
    PROVE  session' \in [Session -> Tab] /\ \A r \in Session : TabShape(session'[r])
<1> DEFINE old == session[s]
<1>1. old \in Tab /\ TabShape(old)
  BY DEF Shape
<1>2. CASE OpenPage(s)
  <2>1. [kind |-> "asked"] \in Answer
    BY DEF Answer
  <2>2. TabShape([NoSession EXCEPT !.loaded = TRUE, !.answer = [kind |-> "asked"]])
    <3>1. NoSession.queue = <<>> /\ NoSession.due = {}
      BY DEF NoSession
    <3>. QED
      BY <2>1, <3>1, NoSessionShape DEF TabShape, Tab
  <2>. QED
    BY <1>2, <2>2, OneTab DEF OpenPage, Becomes
<1>3. CASE Connect(s)
  <2>1. TabShape([old EXCEPT !.online = TRUE])
    BY <1>1, <1>3 DEF TabShape, Tab, Connect
  <2>. QED
    BY <1>3, <2>1, OneTab DEF Connect, Becomes
<1>4. CASE Drop(s)
  <2>1. old.loaded
    BY <1>1, <1>4 DEF TabShape, Drop
  <2>2. <<>> \in Seq(Message) /\ (old.lost \/ old.queue # <<>> \/ old.due # {}) \in BOOLEAN
    BY EmptySeq
  <2>3. TabShape([old EXCEPT !.online = FALSE, !.due = {}, !.queue = <<>>,
                             !.lost = old.lost \/ old.queue # <<>> \/ old.due # {}])
    BY <1>1, <2>1, <2>2 DEF TabShape, Tab
  <2>. QED
    BY <1>4, <2>3, OneTab DEF Drop, Becomes
<1>. QED
  BY <1>2, <1>3, <1>4

LEMMA ListShape ==
    ASSUME Shape, NEW s \in Session, ListIncidents(s)
    PROVE  session' \in [Session -> Tab] /\ \A r \in Session : TabShape(session'[r])
<1> DEFINE old == session[s]
<1>1. old \in Tab /\ TabShape(old)
  BY DEF Shape
<1>2. \A j \in DOMAIN rows : rows[j] \in [count : 1..MaxCount, status : Status]
  BY DEF Shape, ServerShape
<1> DEFINE records == [j \in DOMAIN rows |-> SerializeIncidentRow(j)]
           answer == [kind |-> "list", records |-> records]
<1>3. DOMAIN records \subseteq Incident /\ \A j \in DOMAIN records : records[j] \in Record
  BY <1>2, ConsoleAssumption DEF Shape, ServerShape, SerializeIncidentRow, Record
<1>4. records \in View
  BY <1>3, IsView
<1>5. answer \in Answer
  BY <1>4 DEF Answer
<1>6. old.loaded
  BY <1>1 DEF ListIncidents, TabShape, NoAnswer
<1>7. TabShape([old EXCEPT !.answer = answer])
  BY <1>1, <1>5, <1>6 DEF TabShape, Tab
<1>. QED
  BY <1>7, OneTab DEF ListIncidents, Becomes

LEMMA SendShape ==
    ASSUME Shape, NEW s \in Session, NEW w, Send(s, w)
    PROVE  session' \in [Session -> Tab] /\ \A r \in Session : TabShape(session'[r])
<1> DEFINE old == session[s]
<1>1. old \in Tab /\ TabShape(old)
  BY DEF Shape
<1>2. PICK d \in old.due :
        session' = [session EXCEPT ![s].due = @ \ {d}, ![s].queue = Append(@, d.message)]
  BY DEF Send
<1> DEFINE tab == [old EXCEPT !.due = old.due \ {d}, !.queue = Append(old.queue, d.message)]
<1>3. d.message \in Message /\ old.queue \in Seq(Message) /\ old.online
  BY <1>1 DEF TabShape, Tab, Due
<1>4. Append(old.queue, d.message) \in Seq(Message)
  BY <1>3, AppendProperties
<1>5. TabShape(tab)
  BY <1>1, <1>3, <1>4 DEF TabShape, Tab
<1>6. session' = [session EXCEPT ![s] = tab]
  BY <1>1, <1>2 DEF Shape, Tab
<1>. QED
  BY <1>5, <1>6, OneTab

LEMMA TabStepShape ==
    ASSUME Shape, NEW s \in Session, TabStep(s)
    PROVE  /\ session' \in [Session -> Tab] /\ \A r \in Session : TabShape(session'[r])
           /\ UNCHANGED <<count, engine, rows, task, resetting, history>>
<1>1. session' \in [Session -> Tab] /\ \A r \in Session : TabShape(session'[r])
  BY ListShape, BootstrapShape, OnMessageShape, StatusAnsweredShape, ConnectionShape, SendShape
     DEF TabStep
<1>2. UNCHANGED <<count, engine, rows, task, resetting, history>>
  BY DEF TabStep, OpenPage, ListIncidents, Bootstrap, Connect, Drop, OnMessage, StatusAnswered,
         Send
<1>. QED
  BY <1>1, <1>2

LEMMA SetStatusShape ==
    ASSUME Shape, NEW s \in Session, NEW i \in Incident, NEW status \in Status,
           SetStatus(s, i, status), i \in DOMAIN rows
    PROVE  session' \in [Session -> Tab] /\ \A r \in Session : TabShape(session'[r])
<1> DEFINE old == session[s]
<1>1. old \in Tab /\ TabShape(old)
  BY DEF Shape
<1>2. \A j \in DOMAIN rows : rows[j] \in [count : 1..MaxCount, status : Status]
  BY DEF Shape, ServerShape
<1> DEFINE answer == [kind |-> "row", id |-> i, record |-> rows'[i]]
<1>3. rows'[i] \in Record
  BY <1>2, ConsoleAssumption DEF SetStatus, Record
<1>4. answer \in Answer
  BY <1>3 DEF Answer
<1>5. old.loaded
  BY <1>1 DEF SetStatus, TabShape, NoSession
<1>6. TabShape([old EXCEPT !.answer = answer])
  BY <1>1, <1>4, <1>5 DEF TabShape, Tab
<1>. QED
  BY <1>6, OneTab DEF SetStatus, Becomes

LEMMA PushIsMessage ==
    ASSUME Shape, NEW t \in Task, task[t] # Idle
    PROVE  /\ task[t].incident \in Incident /\ task[t] \in Running
           /\ [type |-> "incident", id |-> task[t].incident, record |-> PushOf(t)] \in Message
<1>1. task[t] \in Running
  BY DEF Shape, ServerShape
<1>2. task[t].incident \in Incident
  BY <1>1 DEF Running
<1>3. PushOf(t) \in Record
  BY <1>2, ConsoleAssumption DEF PushOf, SerializeIncident, Record, Shape, ServerShape
<1>. QED
  BY <1>1, <1>2, <1>3 DEF Message

\* The steps of a task after it has correlated.
LEMMA OneTask ==
    ASSUME Shape, NEW t \in Task, Proceed(t)
    PROVE  /\ task[t] \in Running /\ task[t].incident \in Incident
           /\ task' \in [Task -> {Idle} \cup Running]
           /\ \A u \in Task : u # t => task'[u] = task[u]
           /\ task'[t] # Idle => task'[t].incident = task[t].incident
           /\ \A u \in Task : task'[u] # Idle =>
                 task[u] # Idle /\ task'[u].incident = task[u].incident
<1>1. task[t] # Idle
  BY DEF Proceed, Store, Save, Fail, Publish, PublishStep, Sent, Idle
<1>2. task[t] \in Running /\ task[t].incident \in Incident
  BY <1>1, PushIsMessage
<1>3. task' = [task EXCEPT ![t] = Idle]
      \/ \E step \in {"save", "publish", "send"} : task' = [task EXCEPT ![t].step = step]
  BY DEF Proceed, Store, Stored, Save, Fail, Publish, Sent
<1>4. task \in [Task -> {Idle} \cup Running]
  BY DEF Shape, ServerShape
<1>5. CASE task' = [task EXCEPT ![t] = Idle]
  BY <1>1, <1>2, <1>4, <1>5
<1>6. ASSUME NEW step \in {"save", "publish", "send"}, task' = [task EXCEPT ![t].step = step]
      PROVE  /\ task' \in [Task -> {Idle} \cup Running]
             /\ \A u \in Task : u # t => task'[u] = task[u]
             /\ task'[t].incident = task[t].incident
  <2>1. task'[t] = [task[t] EXCEPT !.step = step] /\ \A u \in Task : u # t => task'[u] = task[u]
    BY <1>4, <1>6
  <2>2. task'[t] \in Running /\ task'[t].incident = task[t].incident
    BY <1>2, <2>1 DEF Running
  <2>3. DOMAIN task' = Task /\ task' = [u \in Task |-> task'[u]]
    BY <1>4, <1>6
  <2>. QED
    BY <1>4, <2>1, <2>2, <2>3
<1>. QED
  BY <1>1, <1>2, <1>3, <1>5, <1>6

LEMMA ShapeKept == Shape /\ [Next]_vars => Shape'
<1> SUFFICES ASSUME Shape, [Next]_vars PROVE Shape'
  OBVIOUS
<1>. USE ConsoleAssumption
<1>1. ASSUME NEW t \in Task, NEW i \in Incident, Correlate(t, i) PROVE Shape'
  <2>1. count' \in [Incident -> 0..MaxCount] /\ \A j \in Incident : count'[j] >= count[j]
    BY <1>1 DEF Correlate, Shape, ServerShape
  <2>2. count'[i] = count[i] + 1 /\ count[i] + 1 \in 1..MaxCount
    BY <1>1 DEF Correlate, Shape, ServerShape
  <2>3. [step |-> "store", incident |-> i, seen |-> count[i] + 1] \in Running
    BY <2>2 DEF Running
  <2>4. task' \in [Task -> {Idle} \cup Running]
    BY <1>1, <2>3 DEF Correlate, Shape, ServerShape
  <2>5. ASSUME NEW u \in Task, task'[u] # Idle PROVE count'[task'[u].incident] > 0
    <3>1. CASE u = t
      BY <1>1, <2>2, <3>1 DEF Correlate, Shape, ServerShape
    <3>2. CASE u # t
      <4>1. task'[u] = task[u] /\ task[u].incident \in Incident /\ count[task[u].incident] > 0
        BY <1>1, <2>5, <3>2 DEF Correlate, Shape, ServerShape, Running
      <4>. QED
        BY <2>1, <4>1 DEF Shape, ServerShape
    <3>. QED
      BY <3>1, <3>2
  <2>. QED
    BY <1>1, <2>1, <2>4, <2>5 DEF Correlate, Shape, ServerShape
<1>2. ASSUME NEW t \in Task, Proceed(t) PROVE Shape'
  <2> DEFINE i == task[t].incident
  <2>1. /\ task[t] \in Running /\ i \in Incident /\ task' \in [Task -> {Idle} \cup Running]
        /\ \A u \in Task : task'[u] # Idle =>
              task[u] # Idle /\ task'[u].incident = task[u].incident
    BY <1>2, OneTask
  <2>2. count[i] \in 1..MaxCount
    <3>1. task[t] # Idle
      BY <2>1 DEF Running, Idle
    <3>. QED
      BY <2>1, <3>1 DEF Shape, ServerShape
  <2>3. UNCHANGED <<count, engine, wiped>>
    BY <1>2 DEF Proceed, Store, Save, Fail, Publish, Sent
  <2>4. unannounced' \subseteq Incident /\ crossed' \subseteq Incident
    <3>1. unannounced \subseteq Incident /\ crossed \subseteq Incident
      BY DEF Shape, ServerShape
    <3>. QED
      BY <1>2, <2>1, <3>1 DEF Proceed, Store, Save, Fail, Publish, Sent
  <2>5. /\ DOMAIN rows' \subseteq Incident
        /\ rows' \in [DOMAIN rows' -> [count : 1..MaxCount, status : Status]]
    <3>1. CASE Store(t)
      <4>1. DOMAIN rows' = DOMAIN rows \cup {i}
        BY <3>1 DEF Store
      <4>2. \A j \in DOMAIN rows : rows[j] \in [count : 1..MaxCount, status : Status]
        BY DEF Shape, ServerShape
      <4>3. \A j \in DOMAIN rows' : rows'[j] \in [count : 1..MaxCount, status : Status]
        BY <2>2, <3>1, <4>1, <4>2 DEF Store
      <4>4. rows' = [j \in DOMAIN rows' |-> rows'[j]]
        BY <3>1, <4>1 DEF Store
      <4>. QED
        BY <2>1, <4>1, <4>3, <4>4 DEF Shape, ServerShape
    <3>2. CASE ~Store(t)
      <4>1. UNCHANGED rows
        BY <1>2, <3>2 DEF Proceed, Save, Fail, Publish, Sent
      <4>. QED
        BY <4>1 DEF Shape, ServerShape
    <3>. QED
      BY <3>1, <3>2
  <2>6. session' \in [Session -> Tab] /\ \A s \in Session : TabShape(session'[s])
    <3>1. CASE Publish(t)
      <4>1. task[t] # Idle
        BY <2>1 DEF Running, Idle
      <4>. QED
        BY <3>1, <4>1, PushIsMessage, BroadcastShape DEF Publish
    <3>2. CASE ~Publish(t)
      <4>1. UNCHANGED session
        BY <1>2, <3>2 DEF Proceed, Store, Save, Fail, Sent
      <4>. QED
        BY <4>1 DEF Shape
    <3>. QED
      BY <3>1, <3>2
  <2>7. \A u \in Task : task'[u] # Idle => count'[task'[u].incident] > 0
    BY <2>1, <2>3 DEF Shape, ServerShape
  <2>8. ServerShape'
    <3>1. count' \in [Incident -> 0..MaxCount] /\ engine' \subseteq Incident
          /\ wiped' \subseteq Incident
      BY <2>3 DEF Shape, ServerShape
    <3>. QED
      BY <2>1, <2>4, <2>5, <2>7, <3>1 DEF ServerShape
  <2>. QED
    BY <2>6, <2>8 DEF Shape
<1>3. CASE ResetDelete
  <2>1. DOMAIN rows' = {} /\ rows' \in [DOMAIN rows' -> [count : 1..MaxCount, status : Status]]
    BY <1>3 DEF ResetDelete
  <2>. QED
    BY <1>3, <2>1 DEF ResetDelete, Shape, ServerShape
<1>4. CASE ResetRebuild
  <2>1. [type |-> "reset"] \in Message
    BY DEF Message
  <2>2. session' \in [Session -> Tab] /\ \A s \in Session : TabShape(session'[s])
    BY <1>4, <2>1, BroadcastShape DEF ResetRebuild, ResetPush
  <2>. QED
    BY <1>4, <2>2 DEF ResetRebuild, Shape, ServerShape
<1>5. ASSUME NEW s \in Session, TabStep(s) PROVE Shape'
  BY <1>5, TabStepShape DEF Shape, ServerShape
<1>6. ASSUME NEW s \in Session, NEW i \in Incident, NEW status \in Status,
             SetStatus(s, i, status)
      PROVE  Shape'
  <2>1. CASE i \in DOMAIN rows
    <3>1. session' \in [Session -> Tab] /\ \A r \in Session : TabShape(session'[r])
      BY <1>6, <2>1, SetStatusShape
    <3>2. /\ DOMAIN rows' = DOMAIN rows
          /\ rows' \in [DOMAIN rows -> [count : 1..MaxCount, status : Status]]
      BY <1>6, <2>1 DEF SetStatus, Shape, ServerShape
    <3>. QED
      BY <1>6, <3>1, <3>2 DEF SetStatus, Shape, ServerShape
  <2>2. CASE i \notin DOMAIN rows
    BY <1>6, <2>2 DEF SetStatus, Shape, ServerShape
  <2>. QED
    BY <2>1, <2>2
<1>7. CASE UNCHANGED vars
  BY <1>7 DEF vars, Shape, ServerShape
<1>. QED
  BY <1>1, <1>2, <1>3, <1>4, <1>5, <1>6, <1>7 DEF Next, TabStep

THEOREM ShapeAlways == Spec => []Shape
  BY ShapeStarts, ShapeKept, PTL DEF Spec

\* The type invariant, for any number of incidents, events, tabs and resets.
THEOREM ConsoleTypeOK == Spec => []TypeOK
  BY ShapeAlways, ShapeImpliesTypeOK, PTL

-----------------------------------------------------------------------------
(* Queues.                                                                 *)

\* Reading a queue that a message was appended to, or taken from.
LEMMA Appended ==
    ASSUME NEW q \in Seq(Message), NEW message \in Message
    PROVE  /\ Append(q, message) \in Seq(Message)
           /\ Len(Append(q, message)) = Len(q) + 1 /\ Len(q) \in Nat
           /\ \A k \in 1..Len(q) : Append(q, message)[k] = q[k]
           /\ Append(q, message)[Len(q) + 1] = message
  BY AppendProperties, LenProperties

LEMMA Taken ==
    ASSUME NEW q \in Seq(Message), q # <<>>
    PROVE  /\ Len(q) \in Nat \ {0} /\ Len(Tail(q)) = Len(q) - 1
           /\ Head(q) = q[1] /\ Head(q) \in Message
           /\ \A k \in 1..Len(Tail(q)) : Tail(q)[k] = q[k + 1] /\ k + 1 \in 1..Len(q)
           /\ \A k \in 2..Len(q) : k - 1 \in 1..Len(Tail(q)) /\ Tail(q)[k - 1] = q[k]
  BY HeadTailProperties, LenProperties, EmptySeq

\* Broadcast, tab by tab.
LEMMA BroadcastTab ==
    ASSUME Shape, NEW w, NEW message, Broadcast(w, message), NEW s \in Session
    PROVE  LET old == session[s]
               new == session'[s] IN
           /\ new.view = old.view /\ new.pushed = old.pushed /\ new.queue = old.queue
           /\ new.answer = old.answer
           /\ \/ new.due = old.due \cup {[by |-> w, message |-> message]} /\ new.lost = old.lost
              \/ new.due = old.due /\ new.lost = TRUE
              \/ /\ new.due = old.due /\ new.lost = old.lost
                 /\ DOMAIN new.view = {} /\ new.pushed = {} /\ new.queue = <<>> /\ new.due = {}
<1> DEFINE old == session[s]
<1>1. old \in Tab /\ TabShape(old)
  BY DEF Shape
<1>2. CASE old.online
  <2>1. session'[s] = [old EXCEPT !.due = old.due \cup {[by |-> w, message |-> message]}]
    BY <1>2 DEF Broadcast
  <2>. QED
    BY <1>1, <2>1 DEF Tab
<1>3. CASE ~old.online /\ old.loaded
  <2>1. session'[s] = [old EXCEPT !.lost = TRUE]
    BY <1>3 DEF Broadcast
  <2>. QED
    BY <1>1, <2>1 DEF Tab
<1>4. CASE ~old.online /\ ~old.loaded
  <2>1. session'[s] = old
    BY <1>4 DEF Broadcast
  <2>2. DOMAIN NoSession.view = {}
    BY DEF NoSession
  <2>. QED
    BY <1>1, <1>4, <2>1, <2>2 DEF TabShape
<1>. QED
  BY <1>2, <1>3, <1>4

-----------------------------------------------------------------------------
(* What each step does to the tab that takes it; the others stay.          *)

LEMMA OtherTabs ==
    ASSUME Shape, NEW s \in Session, NEW r \in Session, r # s,
           TabStep(s) PROVE  session'[r] = session[r]
<1>1. CASE \E w \in Task \cup {"reset"} : Send(s, w)
  BY <1>1 DEF Send, Shape
<1>2. CASE \E tab : Becomes(s, tab)
  BY <1>2 DEF Becomes, Shape
<1>. QED
  BY <1>1, <1>2 DEF TabStep, OpenPage, ListIncidents, Bootstrap, Connect, Drop, OnMessage,
                    StatusAnswered

LEMMA OpenPageTab ==
    ASSUME Shape, NEW s \in Session, OpenPage(s)
    PROVE  /\ DOMAIN session'[s].view = {} /\ session'[s].pushed = {}
           /\ session'[s].queue = <<>> /\ session'[s].due = {}
           /\ session'[s].answer.kind = "asked"
<1>1. NoSession \in Tab /\ DOMAIN NoSession.view = {}
      /\ NoSession.queue = <<>> /\ NoSession.pushed = {} /\ NoSession.due = {}
  <2>1. NoSession.queue = <<>> /\ NoSession.pushed = {} /\ NoSession.due = {}
    BY DEF NoSession
  <2>2. DOMAIN NoSession.view = {}
    BY DEF NoSession
  <2>. QED
    BY <2>1, <2>2, NoSessionShape DEF TabShape
<1>2. session'[s] = [NoSession EXCEPT !.loaded = TRUE, !.answer = [kind |-> "asked"]]
  BY DEF OpenPage, Becomes, Shape
<1>. QED
  BY <1>1, <1>2 DEF Tab

LEMMA ListIncidentsTab ==
    ASSUME Shape, NEW s \in Session, ListIncidents(s)
    PROVE  /\ session'[s].view = session[s].view /\ session'[s].pushed = session[s].pushed
           /\ session'[s].queue = session[s].queue /\ session'[s].lost = session[s].lost
           /\ session'[s].due = session[s].due
           /\ session'[s].answer.kind = "list" /\ DOMAIN session'[s].answer.records = DOMAIN rows
  BY DEF ListIncidents, Becomes, Tab, Shape

LEMMA BootstrapTab ==
    ASSUME Shape, NEW s \in Session, Bootstrap(s)
    PROVE  LET records == session[s].answer.records IN
           /\ DOMAIN session'[s].view = DOMAIN records \cup DOMAIN session[s].view
           /\ \A i \in DOMAIN session[s].view :
                 i \notin DOMAIN records => session'[s].view[i] = session[s].view[i]
           /\ session'[s].pushed = session[s].pushed \ DOMAIN records
           /\ session'[s].queue = session[s].queue /\ session'[s].lost = session[s].lost
           /\ session'[s].due = session[s].due
           /\ session'[s].answer = NoAnswer
  BY DEF Bootstrap, Becomes, Tab, Shape

LEMMA ConnectTab ==
    ASSUME Shape, NEW s \in Session, Connect(s)
    PROVE  /\ session'[s].view = session[s].view /\ session'[s].pushed = session[s].pushed
           /\ session'[s].queue = session[s].queue /\ session'[s].lost = session[s].lost
           /\ session'[s].due = session[s].due
           /\ session'[s].answer = session[s].answer
  BY DEF Connect, Becomes, Tab, Shape

LEMMA DropTab ==
    ASSUME Shape, NEW s \in Session, Drop(s)
    PROVE  /\ session'[s].view = session[s].view /\ session'[s].pushed = session[s].pushed
           /\ session'[s].queue = <<>> /\ session'[s].answer = session[s].answer
           /\ session'[s].due = {}
           /\ session'[s].lost =
                 (session[s].lost \/ session[s].queue # <<>> \/ session[s].due # {})
  BY DEF Drop, Becomes, Tab, Shape

LEMMA OnMessageTab ==
    ASSUME Shape, NEW s \in Session, OnMessage(s)
    PROVE  LET old == session[s]
               new == session'[s]
               message == Head(old.queue) IN
           /\ old.queue \in Seq(Message) /\ old.queue # <<>> /\ new.queue = Tail(old.queue)
           /\ new.answer = old.answer /\ new.lost = old.lost /\ new.due = old.due
           /\ message.type = "reset" => DOMAIN new.view = {} /\ new.pushed = {}
           /\ message.type # "reset" =>
                 /\ DOMAIN new.view = DOMAIN old.view \cup {message.id}
                 /\ new.view[message.id] = message.record
                 /\ \A i \in DOMAIN old.view : i # message.id => new.view[i] = old.view[i]
                 /\ new.pushed = old.pushed \cup {message.id}
<1> DEFINE old == session[s]
           new == session'[s]
           message == Head(old.queue)
           tab == [old EXCEPT !.queue = Tail(old.queue)]
           view == [i \in DOMAIN old.view \cup {message.id} |->
                        IF i = message.id THEN message.record ELSE old.view[i]]
<1>1. /\ old \in Tab /\ tab.view = old.view /\ tab.queue = Tail(old.queue) /\ tab.answer = old.answer
      /\ tab.lost = old.lost /\ tab.pushed = old.pushed /\ tab.due = old.due
  BY DEF Shape, Tab
<1>2. old.queue \in Seq(Message) /\ old.queue # <<>>
  BY <1>1 DEF OnMessage, Tab
<1>3. CASE message.type = "reset"
  <2>1. new = [tab EXCEPT !.view = NoSession.view, !.pushed = {}, !.resolved = {}]
    BY <1>3 DEF OnMessage, Becomes, Shape
  <2>2. DOMAIN NoSession.view = {}
    BY DEF NoSession
  <2>. QED
    BY <1>1, <1>2, <1>3, <2>1, <2>2 DEF Tab
<1>4. CASE message.type # "reset"
  <2>1. new = [tab EXCEPT !.view = view, !.pushed = old.pushed \cup {message.id}]
    BY <1>1, <1>4 DEF OnMessage, Becomes, Shape
  <2>2. new.view = view /\ new.pushed = old.pushed \cup {message.id}
        /\ new.queue = Tail(old.queue) /\ new.answer = old.answer /\ new.lost = old.lost
        /\ new.due = old.due
    BY <1>1, <2>1 DEF Tab
  <2>. QED
    BY <1>2, <1>4, <2>2
<1>. QED
  BY <1>3, <1>4

LEMMA SendTab ==
    ASSUME Shape, NEW s \in Session, NEW w, Send(s, w)
    PROVE  \E d \in session[s].due :
              /\ d.message \in Message /\ session[s].queue \in Seq(Message)
              /\ session'[s].due = session[s].due \ {d}
              /\ session'[s].queue = Append(session[s].queue, d.message)
              /\ session'[s].view = session[s].view /\ session'[s].pushed = session[s].pushed
              /\ session'[s].answer = session[s].answer /\ session'[s].lost = session[s].lost
<1> DEFINE old == session[s]
<1>1. old \in Tab
  BY DEF Shape
<1>2. PICK d \in old.due :
        session' = [session EXCEPT ![s].due = @ \ {d}, ![s].queue = Append(@, d.message)]
  BY DEF Send
<1>3. d.message \in Message /\ old.queue \in Seq(Message)
  BY <1>1 DEF Tab, Due
<1>4. session'[s] = [old EXCEPT !.due = old.due \ {d}, !.queue = Append(old.queue, d.message)]
  BY <1>1, <1>2 DEF Shape, Tab
<1>. QED
  BY <1>1, <1>3, <1>4 DEF Tab

LEMMA StatusAnsweredTab ==
    ASSUME Shape, NEW s \in Session, StatusAnswered(s)
    PROVE  LET i == session[s].answer.id IN
           /\ DOMAIN session'[s].view = DOMAIN session[s].view \cup {i}
           /\ \A j \in DOMAIN session[s].view :
                 j # i => session'[s].view[j] = session[s].view[j]
           /\ session'[s].pushed = session[s].pushed \ {i}
           /\ session'[s].queue = session[s].queue /\ session'[s].lost = session[s].lost
           /\ session'[s].due = session[s].due
           /\ session'[s].answer = NoAnswer
  BY DEF StatusAnswered, Becomes, Tab, Shape

LEMMA SetStatusTab ==
    ASSUME Shape, NEW s \in Session, NEW i \in Incident, NEW status \in Status,
           SetStatus(s, i, status), NEW r \in Session
    PROVE  /\ session'[r].view = session[r].view /\ session'[r].pushed = session[r].pushed
           /\ session'[r].queue = session[r].queue /\ session'[r].lost = session[r].lost
           /\ session'[r].due = session[r].due
           /\ \/ session'[r].answer = session[r].answer
              \/ /\ i \in DOMAIN rows /\ session'[r].answer.kind = "row"
                 /\ session'[r].answer.id = i
           /\ DOMAIN rows' = DOMAIN rows
<1>1. CASE i \in DOMAIN rows
  <2>1. session' = [session EXCEPT ![s] =
            [session[s] EXCEPT !.answer = [kind |-> "row", id |-> i, record |-> rows'[i]]]]
    BY <1>1 DEF SetStatus, Becomes
  <2>2. DOMAIN rows' = DOMAIN rows
    BY <1>1 DEF SetStatus
  <2>3. CASE r = s
    BY <1>1, <2>1, <2>2, <2>3 DEF Tab, Shape
  <2>4. CASE r # s
    BY <2>1, <2>2, <2>4 DEF Shape
  <2>. QED
    BY <2>3, <2>4
<1>2. CASE i \notin DOMAIN rows
  BY <1>2 DEF SetStatus
<1>. QED
  BY <1>1, <1>2

-----------------------------------------------------------------------------
(* What is due is of a broadcast under way.                                *)

\* No step of a tab gives it more to wait for.
LEMMA DueShrinks ==
    ASSUME Shape, NEW s \in Session, TabStep(s), NEW r \in Session
    PROVE  session'[r].due \subseteq session[r].due
<1>1. CASE r # s
  BY <1>1, OtherTabs
<1>2. CASE r = s
  <2>1. ASSUME NEW w, Send(s, w) PROVE session'[s].due \subseteq session[s].due
    BY <2>1, SendTab
  <2>2. ASSUME ~\E w \in Task \cup {"reset"} : Send(s, w)
        PROVE  session'[s].due \subseteq session[s].due
    BY <2>2, OpenPageTab, ListIncidentsTab, BootstrapTab, ConnectTab, DropTab, OnMessageTab,
       StatusAnsweredTab DEF TabStep
  <2>. QED
    BY <1>2, <2>1, <2>2
<1>. QED
  BY <1>1, <1>2

LEMMA DuesKept == Shape /\ Dues /\ [Next]_vars => Dues'
<1> SUFFICES ASSUME Shape, Dues, [Next]_vars PROVE Dues'
  OBVIOUS
<1>1. ASSUME \A s \in Session : session'[s].due \subseteq session[s].due,
             \A u \in Task : task[u].step = "send" => task'[u] = task[u]
      PROVE  Dues'
  BY <1>1 DEF Dues
<1>2. ASSUME NEW t \in Task, NEW i \in Incident, Correlate(t, i) PROVE Dues'
  <2>1. task[t].step = "idle" /\ UNCHANGED session
    BY <1>2 DEF Correlate, Idle
  <2>2. \A u \in Task : u # t => task'[u] = task[u]
    BY <1>2 DEF Correlate, Shape, ServerShape
  <2>. QED
    BY <1>1, <2>1, <2>2
<1>3. ASSUME NEW t \in Task, Store(t) \/ Save(t) \/ Fail(t) PROVE Dues'
  <2>1. task[t].step # "send" /\ UNCHANGED session
    BY <1>3 DEF Store, Save, Fail
  <2>2. \A u \in Task : u # t => task'[u] = task[u]
    BY <1>3, OneTask DEF Proceed
  <2>. QED
    BY <1>1, <2>1, <2>2
<1>4. ASSUME NEW t \in Task, Publish(t) PROVE Dues'
  <2> DEFINE message == [type |-> "incident", id |-> task[t].incident, record |-> PushOf(t)]
             push == [by |-> t, message |-> message]
  <2>1. task[t].step = "publish" /\ Broadcast(t, message)
    BY <1>4 DEF Publish, PublishStep
  <2>2. \A u \in Task : u # t => task'[u] = task[u]
    BY <1>4, OneTask DEF Proceed
  <2>3. task'[t].step = "send" /\ task'[t].incident = task[t].incident
    <3>1. task[t] \in Running /\ task' = [task EXCEPT ![t].step = "send"]
      BY <1>4, OneTask DEF Proceed, Publish
    <3>. QED
      BY <3>1 DEF Shape, ServerShape, Running
  <2> HIDE DEF push
  <2>4. ASSUME NEW s \in Session PROVE session'[s].due \subseteq session[s].due \cup {push}
    BY <2>1, BroadcastTab DEF push
  <2>5. push.by = t /\ push.message.id = task[t].incident
    BY DEF push
  <2> SUFFICES ASSUME NEW s \in Session, NEW d \in session'[s].due, d.message.type = "incident"
               PROVE  /\ d.by \in Task /\ task'[d.by].step = "send"
                      /\ task'[d.by].incident = d.message.id
    BY DEF Dues
  <2>6. CASE d = push
    BY <2>3, <2>5, <2>6
  <2>7. CASE d \in session[s].due
    <3>1. d.by \in Task /\ task[d.by].step = "send" /\ task[d.by].incident = d.message.id
      BY <2>7 DEF Dues
    <3>. QED
      BY <2>1, <2>2, <3>1
  <2>. QED
    BY <2>4, <2>6, <2>7
<1>5. ASSUME NEW t \in Task, Sent(t) PROVE Dues'
  <2>1. UNCHANGED session /\ \A s \in Session : \A d \in session[s].due : d.by # t
    BY <1>5 DEF Sent, Walking
  <2>2. \A u \in Task : u # t => task'[u] = task[u]
    BY <1>5, OneTask DEF Proceed
  <2>. QED
    BY <2>1, <2>2 DEF Dues
<1>6. CASE ResetDelete
  BY <1>1, <1>6 DEF ResetDelete
<1>7. CASE ResetRebuild
  <2>1. Broadcast("reset", [type |-> "reset"]) /\ UNCHANGED task
    BY <1>7 DEF ResetRebuild, ResetPush
  <2>2. ASSUME NEW s \in Session, NEW d \in session'[s].due, d.message.type = "incident"
        PROVE  d \in session[s].due
    <3> DEFINE push == [by |-> "reset", message |-> [type |-> "reset"]]
    <3>1. push.message.type # "incident"
      OBVIOUS
    <3>2. session'[s].due \subseteq session[s].due \cup {push}
      BY <2>1, BroadcastTab
    <3> HIDE DEF push
    <3>. QED
      BY <2>2, <3>1, <3>2
  <2>. QED
    BY <2>1, <2>2 DEF Dues
<1>8. ASSUME NEW s \in Session, TabStep(s) PROVE Dues'
  BY <1>1, <1>8, DueShrinks, TabStepShape
<1>9. ASSUME NEW s \in Session, NEW i \in Incident, NEW status \in Status,
             SetStatus(s, i, status)
      PROVE  Dues'
  <2>1. UNCHANGED task
    BY <1>9 DEF SetStatus
  <2>. QED
    BY <1>1, <1>9, <2>1, SetStatusTab
<1>10. CASE UNCHANGED vars
  BY <1>10 DEF vars, Dues
<1>. QED
  BY <1>2, <1>3, <1>4, <1>5, <1>6, <1>7, <1>8, <1>9, <1>10 DEF Next, Proceed, TabStep

THEOREM DuesAlways == Spec => []Dues
<1>1. Init => Dues
  <2>1. NoSession.due = {}
    BY DEF NoSession
  <2>. QED
    BY <2>1 DEF Init, Dues
<1>. QED
  BY <1>1, DuesKept, ShapeAlways, PTL DEF Spec

-----------------------------------------------------------------------------
(* What is shown was stored.                                               *)

LEMMA WithinMore ==
    ASSUME NEW tab, NEW ids, NEW more, Within(tab, ids), ids \subseteq more
    PROVE  Within(tab, more)
  BY DEF Within

LEMMA WithinBroadcast ==
    ASSUME Shape, NEW s \in Session, NEW ids, Within(session[s], ids),
           NEW w, NEW message, Broadcast(w, message)
    PROVE  Within(session'[s], ids)
  BY BroadcastTab DEF Within

\* The steps of one tab.
LEMMA WithinOneTab ==
    ASSUME Shape, Dues, Stores, NEW s \in Session,
           TabStep(s) PROVE  Within(session'[s], Accounted)
<1> DEFINE old == session[s]
           new == session'[s]
<1>1. Within(old, Accounted)
  BY DEF Stores
<1>2. CASE OpenPage(s)
  BY <1>2, OpenPageTab DEF Within
<1>3. CASE ListIncidents(s)
  BY <1>1, <1>3, ListIncidentsTab DEF Within, Accounted
<1>4. CASE Bootstrap(s)
  <2>1. old.answer.kind = "list" /\ NoAnswer.kind = "none"
    BY <1>4 DEF Bootstrap, NoAnswer
  <2>. QED
    BY <1>1, <1>4, <2>1, BootstrapTab DEF Within
<1>5. CASE Connect(s)
  BY <1>1, <1>5, ConnectTab DEF Within
<1>6. CASE Drop(s)
  BY <1>1, <1>6, DropTab DEF Within
<1>7. CASE OnMessage(s)
  <2> DEFINE message == Head(old.queue)
  <2>1. old.queue \in Seq(Message) /\ old.queue # <<>> /\ new.queue = Tail(old.queue)
    BY <1>7, OnMessageTab
  <2>2. DOMAIN new.view \subseteq Accounted
    <3>1. CASE message.type = "reset"
      BY <1>7, <3>1, OnMessageTab
    <3>2. CASE message.type # "reset"
      <4>1. message.type = "incident"
        BY <2>1, <3>2, Taken DEF Message
      <4>2. message.id \in Accounted
        BY <1>1, <2>1, <4>1, Taken DEF Within
      <4>. QED
        BY <1>1, <1>7, <3>2, <4>2, OnMessageTab DEF Within
    <3>. QED
      BY <3>1, <3>2
  <2>3. \A k \in 1..Len(new.queue) :
            new.queue[k] = old.queue[k + 1] /\ k + 1 \in 1..Len(old.queue)
    BY <2>1, Taken
  <2>4. new.answer = old.answer
    BY <1>7, OnMessageTab
  <2>. QED
    BY <1>1, <2>2, <2>3, <2>4 DEF Within
<1>8. CASE StatusAnswered(s)
  <2>1. old.answer.kind = "row" /\ NoAnswer.kind = "none"
    BY <1>8 DEF StatusAnswered, NoAnswer
  <2>. QED
    BY <1>1, <1>8, <2>1, StatusAnsweredTab DEF Within
<1>9. ASSUME NEW w, Send(s, w) PROVE Within(new, Accounted)
  <2>1. PICK d \in old.due :
            /\ d.message \in Message /\ old.queue \in Seq(Message)
            /\ new.queue = Append(old.queue, d.message)
            /\ new.view = old.view /\ new.answer = old.answer
    BY <1>9, SendTab
  <2>2. d.message.type = "incident" => d.message.id \in Accounted
    BY DEF Dues, Stores
  <2>. QED
    BY <1>1, <2>1, <2>2, Appended DEF Within
<1>. QED
  BY <1>2, <1>3, <1>4, <1>5, <1>6, <1>7, <1>8, <1>9 DEF TabStep

LEMMA StoresKept == Shape /\ Dues /\ Stores /\ [Next]_vars => Stores'
<1> SUFFICES ASSUME Shape, Dues, Stores, [Next]_vars PROVE Stores'
  OBVIOUS
<1> DEFINE Later == {"save", "publish", "send"}
<1>1. ASSUME NEW t \in Task, NEW i \in Incident, Correlate(t, i) PROVE Stores'
  <2>1. \A u \in Task : task'[u].step \in Later => task'[u] = task[u]
    <3>1. task' = [task EXCEPT ![t] = [step |-> "store", incident |-> i, seen |-> count[i] + 1]]
      BY <1>1 DEF Correlate
    <3>2. DOMAIN task = Task
      BY DEF Shape, ServerShape
    <3>. QED
      BY <3>1, <3>2
  <2>. QED
    BY <1>1, <2>1 DEF Correlate, Stores, Accounted
<1>2. ASSUME NEW t \in Task, Proceed(t) PROVE Stores'
  <2> DEFINE i == task[t].incident
  <2>1. /\ \A u \in Task : u # t => task'[u] = task[u]
        /\ task'[t] # Idle => task'[t].incident = i
    BY <1>2, OneTask
  <2>2. Accounted \subseteq Accounted' /\ (task'[t] # Idle => i \in Accounted')
    <3>1. CASE Store(t)
      BY <3>1 DEF Store, Accounted
    <3>2. CASE ~Store(t)
      <4>1. UNCHANGED <<rows, wiped>> /\ (task'[t] # Idle => task[t].step \in Later)
        <5>1. Fail(t) \/ Sent(t) => task'[t] = Idle
          BY DEF Fail, Sent, Shape, ServerShape
        <5>. QED
          BY <1>2, <3>2, <5>1 DEF Proceed, Save, Fail, Publish, PublishStep, Sent
      <4>. QED
        BY <4>1 DEF Stores, Accounted
    <3>. QED
      BY <3>1, <3>2
  <2>3. \A u \in Task : task'[u].step \in Later => task'[u].incident \in Accounted'
    <3>1. Idle.step \notin Later
      BY DEF Idle
    <3>. QED
      BY <2>1, <2>2, <3>1 DEF Stores
  <2>4. \A s \in Session : Within(session'[s], Accounted)
    <3>1. CASE Publish(t)
      BY <3>1, WithinBroadcast DEF Publish, Stores
    <3>2. CASE ~Publish(t)
      <4>1. UNCHANGED session
        BY <1>2, <3>2 DEF Proceed, Store, Save, Fail, Sent
      <4>. QED
        BY <4>1 DEF Stores
    <3>. QED
      BY <3>1, <3>2
  <2>5. \A s \in Session : Within(session'[s], Accounted')
    BY <2>2, <2>4, WithinMore
  <2>. QED
    BY <2>3, <2>5 DEF Stores
<1>3. CASE ResetDelete
  <2>1. Accounted' = Accounted /\ UNCHANGED <<session, task>>
    BY <1>3 DEF ResetDelete, Accounted
  <2>. QED
    BY <2>1 DEF Stores
<1>4. CASE ResetRebuild
  <2>1. Accounted \subseteq Accounted' /\ UNCHANGED task
    BY <1>4 DEF ResetRebuild, Accounted
  <2>3. \A s \in Session : Within(session'[s], Accounted)
    BY <1>4, WithinBroadcast DEF ResetRebuild, ResetPush, Stores
  <2>4. \A s \in Session : Within(session'[s], Accounted')
    BY <2>1, <2>3, WithinMore
  <2>. QED
    BY <2>1, <2>4 DEF Stores
<1>5. ASSUME NEW s \in Session, TabStep(s) PROVE  Stores'
  <2>1. UNCHANGED <<rows, wiped, task>>
    BY <1>5, TabStepShape
  <2>2. \A r \in Session : Within(session'[r], Accounted)
    BY <1>5, WithinOneTab, OtherTabs DEF Stores
  <2>. QED
    BY <2>1, <2>2 DEF Stores, Accounted
<1>6. ASSUME NEW s \in Session, NEW i \in Incident, NEW status \in Status,
             SetStatus(s, i, status)
      PROVE  Stores'
  <2>1. Accounted' = Accounted /\ UNCHANGED task
    BY <1>6, SetStatusTab DEF SetStatus, Accounted
  <2>2. \A r \in Session : Within(session'[r], Accounted)
    BY <1>6, SetStatusTab DEF Stores, Within, Accounted
  <2>. QED
    BY <2>1, <2>2 DEF Stores
<1>7. CASE UNCHANGED vars
  BY <1>7 DEF vars, Stores, Accounted
<1>. QED
  BY <1>1, <1>2, <1>3, <1>4, <1>5, <1>6, <1>7 DEF Next, TabStep

LEMMA StoresStart == Init => Stores
<1>1. DOMAIN NoSession.view = {} /\ NoSession.answer = NoAnswer
  BY DEF NoSession
<1>2. NoSession.queue = <<>>
  BY DEF NoSession
<1>. QED
  BY <1>1, <1>2 DEF Init, Stores, Within, NoAnswer, Idle

\* Whatever a console shows was stored, or was removed by a reset: for any
\* number of tabs, events in process, resets and lost connections
\* (pipeline.py:138-143, incidents.py:126-132).
THEOREM ConsoleShownIsStored == Spec => []ShownIsStored
<1>1. Stores => ShownIsStored
  BY DEF Stores, Within, Accounted, ShownIsStored
<1>2. Shape /\ Dues /\ Stores /\ [Next]_vars => Stores'
  BY StoresKept
<1>. QED
  BY <1>1, <1>2, ShapeAlways, DuesAlways, StoresStart, PTL DEF Spec

-----------------------------------------------------------------------------
(* A reset is forgotten nowhere.                                           *)

LEMMA ForgetsLess ==
    ASSUME NEW tab, NEW gone, NEW less, less \subseteq gone
    PROVE  /\ Forgets(tab, gone) => Forgets(tab, less)
           /\ AnswerAvoids(tab, gone) => AnswerAvoids(tab, less)
<1>1. \A k : QueueAvoids(tab, k, gone) => QueueAvoids(tab, k, less)
  BY DEF QueueAvoids
<1>. QED
  BY <1>1 DEF Forgets, AnswerAvoids

LEMMA ForgetsBroadcast ==
    ASSUME Shape, NEW s \in Session, NEW gone, ~session[s].lost => Forgets(session[s], gone),
           NEW w, NEW message, Broadcast(w, message)
    PROVE  ~session'[s].lost => Forgets(session'[s], gone)
<1> DEFINE old == session[s]
           new == session'[s]
<1>1. /\ new.view = old.view /\ new.queue = old.queue /\ old.due \subseteq new.due
      /\ ~new.lost => ~old.lost
  BY BroadcastTab
<1>2. \A k : QueueAvoids(old, k, gone) => QueueAvoids(new, k, gone)
  BY <1>1 DEF QueueAvoids
<1>. QED
  BY <1>1, <1>2 DEF Forgets

\* The push of a reset, whatever the tab shows.
LEMMA ForgetsReset ==
    ASSUME Shape, NEW s \in Session, NEW gone, Broadcast("reset", [type |-> "reset"])
    PROVE  ~session'[s].lost => Forgets(session'[s], gone)
<1> DEFINE old == session[s]
           new == session'[s]
           push == [by |-> "reset", message |-> [type |-> "reset"]]
<1>1. push.message.type = "reset"
  OBVIOUS
<1>2. \/ push \in new.due \/ new.lost
      \/ DOMAIN new.view = {} /\ new.queue = <<>>
  BY BroadcastTab
<1> HIDE DEF push
<1>3. new.queue = <<>> => QueueAvoids(new, 0, gone)
  BY DEF QueueAvoids
<1>. QED
  BY <1>1, <1>2, <1>3 DEF Forgets

\* The steps of one tab, while the incidents in gone have no row.
LEMMA ForgetsOneTab ==
    ASSUME Shape, NEW s \in Session, NEW gone, gone \cap DOMAIN rows = {},
           AnswerAvoids(session[s], gone), ~session[s].lost => Forgets(session[s], gone),
           \A d \in session[s].due : d.message.type = "incident" => d.message.id \notin gone,
           TabStep(s)
    PROVE  AnswerAvoids(session'[s], gone) /\ (~session'[s].lost => Forgets(session'[s], gone))
<1> DEFINE old == session[s]
           new == session'[s]
<1>1. ASSUME new.queue = old.queue, new.due = old.due,
             \A i \in DOMAIN new.view \cap gone : i \in DOMAIN old.view,
             Forgets(old, gone)
      PROVE  Forgets(new, gone)
  <2>1. \A k : QueueAvoids(old, k, gone) => QueueAvoids(new, k, gone)
    BY <1>1 DEF QueueAvoids
  <2>. QED
    BY <1>1, <2>1 DEF Forgets
<1>2. CASE OpenPage(s)
  BY <1>2, OpenPageTab DEF Forgets, AnswerAvoids, QueueAvoids
<1>3. CASE ListIncidents(s)
  BY <1>1, <1>3, ListIncidentsTab DEF AnswerAvoids
<1>4. CASE Bootstrap(s)
  <2>1. old.answer.kind = "list" /\ NoAnswer.kind = "none"
    BY <1>4 DEF Bootstrap, NoAnswer
  <2>. QED
    BY <1>1, <1>4, <2>1, BootstrapTab DEF AnswerAvoids
<1>5. CASE Connect(s)
  BY <1>1, <1>5, ConnectTab DEF AnswerAvoids
<1>6. CASE Drop(s)
  <2>1. new.answer = old.answer /\ new.view = old.view /\ new.queue = <<>> /\ new.due = {}
        /\ (~new.lost => ~old.lost /\ old.queue = <<>> /\ old.due = {})
    BY <1>6, DropTab
  <2>. QED
    BY <1>1, <2>1 DEF AnswerAvoids
<1>7. CASE OnMessage(s)
  <2> DEFINE message == Head(old.queue)
  <2>1. /\ old.queue \in Seq(Message) /\ old.queue # <<>> /\ new.queue = Tail(old.queue)
        /\ new.answer = old.answer /\ new.lost = old.lost /\ new.due = old.due
    BY <1>7, OnMessageTab
  <2>2. /\ Len(new.queue) = Len(old.queue) - 1 /\ Len(old.queue) \in Nat \ {0}
        /\ \A j \in 1..Len(new.queue) : new.queue[j] = old.queue[j + 1]
        /\ message = old.queue[1] /\ message \in Message
    BY <2>1, Taken
  <2>3. ASSUME NEW k \in Nat, NEW m \in Nat, k <= m + 1, QueueAvoids(old, k, gone)
        PROVE  QueueAvoids(new, m, gone)
    <3> SUFFICES ASSUME NEW j \in 1..Len(new.queue), j > m, new.queue[j].type = "incident"
                 PROVE  new.queue[j].id \notin gone
      BY DEF QueueAvoids
    <3>1. new.queue[j] = old.queue[j + 1] /\ j + 1 \in 1..Len(old.queue)
      BY <2>1, Taken
    <3>2. j + 1 > k
      BY <2>2, <2>3
    <3>. QED
      BY <2>3, <3>1, <3>2 DEF QueueAvoids
  <2>4. ASSUME Forgets(old, gone) PROVE Forgets(new, gone)
    <3>1. CASE DOMAIN old.view \cap gone = {} /\ QueueAvoids(old, 0, gone)
      <4>1. QueueAvoids(new, 0, gone)
        BY <2>3, <3>1
      <4>2. message.type # "reset" => message.id \notin gone
        BY <2>2, <3>1 DEF QueueAvoids, Message
      <4>3. DOMAIN new.view \cap gone = {}
        BY <1>7, <3>1, <4>2, OnMessageTab
      <4>. QED
        BY <4>1, <4>3 DEF Forgets
    <3>2. ASSUME NEW k \in 1..Len(old.queue), old.queue[k].type = "reset",
                 QueueAvoids(old, k, gone)
          PROVE  Forgets(new, gone)
      <4>1. CASE k = 1
        <5>1. DOMAIN new.view = {}
          BY <1>7, <2>2, <3>2, <4>1, OnMessageTab
        <5>2. QueueAvoids(new, 0, gone)
          BY <2>3, <3>2, <4>1
        <5>. QED
          BY <5>1, <5>2 DEF Forgets
      <4>2. CASE k # 1
        <5>1. k - 1 \in 1..Len(new.queue) /\ new.queue[k - 1].type = "reset"
          <6>1. k \in 2..Len(old.queue)
            BY <2>2, <4>2
          <6>. QED
            BY <2>1, <3>2, <6>1, Taken
        <5>2. QueueAvoids(new, k - 1, gone)
          BY <2>3, <3>2, <5>1
        <5>. QED
          BY <5>1, <5>2 DEF Forgets
      <4>. QED
        BY <4>1, <4>2
    <3>3. CASE \E d \in old.due : d.message.type = "reset"
      BY <2>1, <3>3 DEF Forgets
    <3>. QED
      BY <2>4, <3>1, <3>2, <3>3 DEF Forgets
  <2>. QED
    BY <2>1, <2>4 DEF AnswerAvoids
<1>8. CASE StatusAnswered(s)
  <2>1. old.answer.kind = "row" /\ NoAnswer.kind = "none"
    BY <1>8 DEF StatusAnswered, NoAnswer
  <2>. QED
    BY <1>1, <1>8, <2>1, StatusAnsweredTab DEF AnswerAvoids
<1>9. ASSUME NEW w, Send(s, w)
      PROVE  AnswerAvoids(new, gone) /\ (~new.lost => Forgets(new, gone))
  <2>1. PICK d \in old.due :
            /\ d.message \in Message /\ old.queue \in Seq(Message)
            /\ new.due = old.due \ {d}
            /\ new.queue = Append(old.queue, d.message)
            /\ new.view = old.view /\ new.answer = old.answer /\ new.lost = old.lost
    BY <1>9, SendTab
  <2> DEFINE last == Len(old.queue) + 1
  <2>2. /\ Len(old.queue) \in Nat /\ Len(new.queue) = last /\ new.queue[last] = d.message
        /\ last \in 1..Len(new.queue) /\ 1..Len(old.queue) \subseteq 1..Len(new.queue)
        /\ \A k \in 1..Len(old.queue) : new.queue[k] = old.queue[k]
    BY <2>1, Appended
  <2>3. ASSUME Forgets(old, gone) PROVE Forgets(new, gone)
    <3>1. CASE d.message.type = "reset"
      <4>1. QueueAvoids(new, last, gone)
        BY <2>2 DEF QueueAvoids
      <4>. QED
        BY <2>2, <3>1, <4>1 DEF Forgets
    <3>2. CASE d.message.type # "reset"
      <4>1. d.message.type = "incident" /\ d.message.id \notin gone
        BY <2>1, <3>2 DEF Message
      <4>2. ASSUME NEW k \in Nat, QueueAvoids(old, k, gone) PROVE QueueAvoids(new, k, gone)
        <5> SUFFICES ASSUME NEW j \in 1..Len(new.queue), j > k, new.queue[j].type = "incident"
                     PROVE  new.queue[j].id \notin gone
          BY DEF QueueAvoids
        <5>1. j = last \/ j \in 1..Len(old.queue)
          BY <2>2
        <5>. QED
          BY <2>2, <4>1, <4>2, <5>1 DEF QueueAvoids
      <4>3. (\E e \in old.due : e.message.type = "reset") =>
                \E e \in new.due : e.message.type = "reset"
        BY <2>1, <3>2
      <4>4. \A k \in 1..Len(old.queue) : k \in Nat
        OBVIOUS
      <4>. QED
        BY <2>1, <2>2, <2>3, <4>2, <4>3, <4>4 DEF Forgets
    <3>. QED
      BY <3>1, <3>2
  <2>. QED
    BY <2>1, <2>3 DEF AnswerAvoids
<1>. QED
  BY <1>2, <1>3, <1>4, <1>5, <1>6, <1>7, <1>8, <1>9 DEF TabStep

LEMMA ResetsKept == Shape /\ Dues /\ Resets /\ [Next]_vars => Resets'
<1> SUFFICES ASSUME Shape, Dues, Resets, [Next]_vars, ~straddled', ~resetting' PROVE Resets'
  BY DEF Resets
<1> DEFINE Kept(gone) ==
      \A s \in Session :
          AnswerAvoids(session[s], gone) /\ (~session[s].lost => Forgets(session[s], gone))
<1>1. CASE ResetRebuild
  <2>1. engine' = {} /\ ~InFlight /\ UNCHANGED task
    BY <1>1 DEF ResetRebuild
  <2>2. ASSUME NEW s \in Session PROVE AnswerAvoids(session'[s], Gone')
    <3>1. session[s] \in Tab /\ session[s].answer.kind = "none"
      BY <2>1 DEF InFlight, NoAnswer, Shape
    <3>2. session'[s].answer = session[s].answer
      BY <1>1, <3>1, BroadcastTab DEF ResetRebuild, ResetPush, Tab
    <3>. QED
      BY <3>1, <3>2 DEF AnswerAvoids
  <2>3. \A s \in Session : ~session'[s].lost => Forgets(session'[s], Gone')
    BY <1>1, ForgetsReset DEF ResetRebuild, ResetPush
  <2>. QED
    BY <2>1, <2>2, <2>3 DEF Resets, InFlight
<1>2. ASSUME ~ResetRebuild
      PROVE  /\ ~straddled /\ ~resetting /\ wiped' = wiped /\ Gone' \subseteq Gone
             /\ engine \cap wiped = {} /\ Gone \cap DOMAIN rows = {}
             /\ \A t \in Task : task[t] # Idle => task[t].incident \in engine
             /\ Kept(Gone)
             /\ \A s \in Session : \A d \in session[s].due :
                   d.message.type = "incident" => d.message.id \notin Gone
  <2>1. ~ResetDelete
    BY DEF ResetDelete
  <2>2. ~straddled /\ ~resetting /\ wiped' = wiped /\ DOMAIN rows \subseteq DOMAIN rows'
    <3>1. ASSUME NEW t \in Task, NEW i \in Incident, Correlate(t, i)
          PROVE  UNCHANGED <<straddled, resetting, wiped, rows>>
      BY <3>1 DEF Correlate
    <3>2. ASSUME NEW s \in Session, TabStep(s)
          PROVE  UNCHANGED <<straddled, resetting, wiped, rows>>
      BY <3>2, TabStepShape
    <3>3. ASSUME NEW s \in Session, NEW i \in Incident, NEW status \in Status,
                 SetStatus(s, i, status)
          PROVE  UNCHANGED <<straddled, resetting, wiped>> /\ DOMAIN rows' = DOMAIN rows
      BY <3>3, SetStatusTab DEF SetStatus
    <3>4. CASE UNCHANGED vars
      BY <3>4 DEF vars
    <3>5. ASSUME NEW t \in Task, Proceed(t)
          PROVE  /\ UNCHANGED <<straddled, resetting, wiped>>
                 /\ DOMAIN rows \subseteq DOMAIN rows'
      BY <3>5 DEF Proceed, Store, Save, Fail, Publish, Sent
    <3>. QED
      BY <1>2, <2>1, <3>1, <3>2, <3>3, <3>4, <3>5 DEF Next, TabStep
  <2>3. ASSUME NEW s \in Session, NEW d \in session[s].due, d.message.type = "incident"
        PROVE  d.message.id \notin Gone
    <3>1. d.by \in Task /\ task[d.by].step = "send" /\ task[d.by].incident = d.message.id
      BY <2>3 DEF Dues
    <3>2. task[d.by] # Idle
      BY <3>1 DEF Idle
    <3>. QED
      BY <2>2, <3>1, <3>2 DEF Resets, Gone
  <2>. QED
    BY <2>2, <2>3 DEF Resets, Gone
<1>3. ASSUME ~ResetRebuild, \A t \in Task : task'[t] # Idle => task'[t].incident \in engine',
             engine' \cap wiped = {},
             \A s \in Session : /\ AnswerAvoids(session'[s], Gone)
                                /\ ~session'[s].lost => Forgets(session'[s], Gone)
      PROVE  Resets'
  BY <1>2, <1>3, ForgetsLess DEF Resets
<1>4. ASSUME NEW t \in Task, NEW i \in Incident, Correlate(t, i) PROVE Resets'
  <2>1. ~ResetRebuild
    BY <1>4 DEF Correlate, ResetRebuild
  <2>2. engine' = engine \cup {i} /\ engine' \cap wiped = {} /\ UNCHANGED session
    BY <1>2, <1>4, <2>1 DEF Correlate
  <2>3. \A u \in Task : task'[u] = IF u = t
                          THEN [step |-> "store", incident |-> i, seen |-> count[i] + 1] ELSE task[u]
    BY <1>4 DEF Correlate, Shape, ServerShape
  <2>. QED
    BY <1>2, <1>3, <2>1, <2>2, <2>3
<1>5. ASSUME NEW t \in Task, Proceed(t) PROVE Resets'
  <2>1. ~ResetRebuild
    BY <1>5 DEF Proceed, Store, Save, Fail, Publish, Sent, ResetRebuild
  <2>2. \A u \in Task : task'[u] # Idle =>
            task[u] # Idle /\ task'[u].incident = task[u].incident
    BY <1>5, OneTask
  <2>3. UNCHANGED engine
    BY <1>5 DEF Proceed, Store, Save, Fail, Publish, Sent
  <2>4. ASSUME NEW s \in Session
        PROVE  /\ AnswerAvoids(session'[s], Gone)
               /\ ~session'[s].lost => Forgets(session'[s], Gone)
    <3>1. CASE Publish(t)
      <4>1. PICK message : Broadcast(t, message)
        BY <3>1 DEF Publish
      <4>2. session'[s].answer = session[s].answer
        BY <4>1, BroadcastTab
      <4>3. AnswerAvoids(session'[s], Gone)
        BY <1>2, <2>1, <4>2 DEF AnswerAvoids
      <4>. QED
        BY <1>2, <2>1, <4>1, <4>3, ForgetsBroadcast
    <3>2. CASE ~Publish(t)
      <4>1. UNCHANGED session
        BY <1>5, <3>2 DEF Proceed, Store, Save, Fail, Sent
      <4>. QED
        BY <1>2, <2>1, <4>1
    <3>. QED
      BY <3>1, <3>2
  <2>. QED
    BY <1>2, <1>3, <2>1, <2>2, <2>3, <2>4
<1>6. ASSUME NEW s \in Session, TabStep(s) PROVE Resets'
  <2>1. UNCHANGED <<engine, wiped, task, resetting>>
    BY <1>6, TabStepShape
  <2>2. ~ResetRebuild
    BY <2>1 DEF ResetRebuild
  <2>3. \A r \in Session : /\ AnswerAvoids(session'[r], Gone)
                           /\ ~session'[r].lost => Forgets(session'[r], Gone)
    BY <1>2, <1>6, <2>2, ForgetsOneTab, OtherTabs
  <2>. QED
    BY <1>2, <1>3, <2>1, <2>2, <2>3
<1>7. ASSUME NEW s \in Session, NEW i \in Incident, NEW status \in Status,
             SetStatus(s, i, status)
      PROVE  Resets'
  <2>1. UNCHANGED <<engine, wiped, task, resetting>>
    BY <1>7 DEF SetStatus
  <2>2. ~ResetRebuild
    BY <2>1 DEF ResetRebuild
  <2>3. ASSUME NEW r \in Session
        PROVE  /\ AnswerAvoids(session'[r], Gone)
               /\ ~session'[r].lost => Forgets(session'[r], Gone)
    <3>1. AnswerAvoids(session'[r], Gone)
      BY <1>2, <1>7, <2>2, SetStatusTab DEF AnswerAvoids
    <3>2. \A k : QueueAvoids(session[r], k, Gone) => QueueAvoids(session'[r], k, Gone)
      BY <1>7, SetStatusTab DEF QueueAvoids
    <3>. QED
      BY <1>2, <1>7, <2>2, <3>1, <3>2, SetStatusTab DEF Forgets
  <2>. QED
    BY <1>2, <1>3, <2>1, <2>2, <2>3
<1>8. CASE UNCHANGED vars
  <2>1. ~ResetRebuild
    BY <1>8 DEF vars, ResetRebuild
  <2>. QED
    BY <1>2, <1>3, <1>8, <2>1 DEF vars
<1>9. ~ResetDelete
  BY DEF ResetDelete
<1>. QED
  BY <1>1, <1>4, <1>5, <1>6, <1>7, <1>8, <1>9 DEF Next, TabStep

LEMMA ResetsStart == Init => Resets
<1>1. DOMAIN NoSession.view = {} /\ NoSession.answer = NoAnswer
  BY DEF NoSession
<1>2. NoSession.queue = <<>>
  BY DEF NoSession
<1>. QED
  BY <1>1, <1>2 DEF Init, Resets, Forgets, QueueAvoids, AnswerAvoids, NoAnswer, Gone

\* "Every connected console gets this, so no analyst is left staring at a stale
\* queue" (console.js:1015-1018): unless a request was in flight across a reset,
\* a console that has received all it was sent shows nothing a reset removed.
THEOREM ConsoleNoGhosts == Spec => []NoGhosts
<1>1. Resets => NoGhosts
  <2> SUFFICES ASSUME Resets, ~straddled, ~resetting, NEW s \in Session, UpToDate(s)
               PROVE  DOMAIN session[s].view \cap wiped \subseteq DOMAIN rows
    BY DEF NoGhosts
  <2>1. Forgets(session[s], Gone) /\ session[s].queue = <<>> /\ session[s].due = {}
    BY DEF Resets, UpToDate
  <2>. QED
    BY <2>1 DEF Forgets, Gone
<1>2. Shape /\ Dues /\ Resets /\ [Next]_vars => Resets'
  BY ResetsKept
<1>. QED
  BY <1>1, <1>2, ShapeAlways, DuesAlways, ResetsStart, PTL DEF Spec

-----------------------------------------------------------------------------
(* The last push tells the count.                                          *)

\* A tab that shows and awaits nothing of i is told all there is.
LEMMA ToldNothing ==
    ASSUME NEW tab, NEW i, NEW n, tab.due = {}, tab.queue = <<>>, i \notin tab.pushed
    PROVE  Told(tab, i, n)
  BY DEF Told, DueOf, LastPush, QueueEnds

\* The push of i itself, when no other of i is under way.
LEMMA ToldPush ==
    ASSUME Shape, NEW s \in Session, NEW w, NEW message, message.type = "incident",
           Broadcast(w, message), DueOf(session[s], message.id) = {}
    PROVE  ~session'[s].lost => Told(session'[s], message.id, message.record.count)
<1> DEFINE old == session[s]
           new == session'[s]
           push == [by |-> w, message |-> message]
<1>1. push.message = message
  OBVIOUS
<1>2. \/ new.due = old.due \cup {push}
      \/ new.lost
      \/ DOMAIN new.view = {} /\ new.pushed = {} /\ new.queue = <<>> /\ new.due = {}
  BY BroadcastTab
<1> HIDE DEF push
<1>3. CASE new.due = old.due \cup {push}
  <2>1. DueOf(new, message.id) = {push}
    BY <1>1, <1>3 DEF DueOf
  <2>. QED
    BY <1>1, <2>1 DEF Told
<1>4. CASE new.pushed = {} /\ new.queue = <<>> /\ new.due = {}
  BY <1>4, ToldNothing
<1>. QED
  BY <1>2, <1>3, <1>4

\* What the tab is told of i rests on these alone.
LEMMA ToldSame ==
    ASSUME NEW old, NEW new, NEW i, NEW n, Told(old, i, n),
           new.queue = old.queue, DueOf(new, i) = DueOf(old, i),
           i \in new.pushed => i \in old.pushed /\ new.view[i] = old.view[i]
    PROVE  Told(new, i, n)
<1>1. \A k : QueueEnds(old, k, i) => QueueEnds(new, k, i)
  BY DEF QueueEnds
<1>. QED
  BY <1>1 DEF Told, LastPush

\* The push of another incident, or of a reset.
LEMMA ToldOther ==
    ASSUME Shape, NEW s \in Session, NEW i, NEW n, ~session[s].lost => Told(session[s], i, n),
           NEW w, NEW message, message.type = "incident" => message.id # i,
           Broadcast(w, message)
    PROVE  ~session'[s].lost => Told(session'[s], i, n)
<1> DEFINE old == session[s]
           new == session'[s]
           push == [by |-> w, message |-> message]
<1>1. push.message = message
  OBVIOUS
<1>2. /\ new.view = old.view /\ new.pushed = old.pushed /\ new.queue = old.queue
      /\ \/ new.due = old.due \cup {push} /\ new.lost = old.lost
         \/ new.lost = TRUE
         \/ new.due = old.due /\ new.lost = old.lost
  BY BroadcastTab
<1> HIDE DEF push
<1>3. new.lost = TRUE \/ (DueOf(new, i) = DueOf(old, i) /\ new.lost = old.lost)
  BY <1>1, <1>2 DEF DueOf
<1>. QED
  BY <1>2, <1>3, ToldSame

\* The steps of one tab.
LEMMA ToldOneTab ==
    ASSUME Shape, NEW s \in Session, NEW i, NEW n, ~session[s].lost => Told(session[s], i, n),
           TabStep(s)
    PROVE  ~session'[s].lost => Told(session'[s], i, n)
<1> DEFINE old == session[s]
           new == session'[s]
<1>0. old.pushed \subseteq DOMAIN old.view
  BY DEF Shape, TabShape
<1>1. ASSUME new.queue = old.queue, new.due = old.due,
             i \in new.pushed => i \in old.pushed /\ new.view[i] = old.view[i],
             Told(old, i, n)
      PROVE  Told(new, i, n)
  <2>1. DueOf(new, i) = DueOf(old, i)
    BY <1>1 DEF DueOf
  <2>. QED
    BY <1>1, <2>1, ToldSame
<1>2. CASE OpenPage(s)
  BY <1>2, OpenPageTab, ToldNothing
<1>3. CASE ListIncidents(s)
  BY <1>1, <1>3, ListIncidentsTab
<1>4. CASE Bootstrap(s)
  BY <1>0, <1>1, <1>4, BootstrapTab
<1>5. CASE Connect(s)
  BY <1>1, <1>5, ConnectTab
<1>6. CASE Drop(s)
  <2>1. /\ new.pushed = old.pushed /\ new.view = old.view /\ new.queue = <<>> /\ new.due = {}
        /\ (~new.lost => ~old.lost /\ old.queue = <<>> /\ old.due = {})
    BY <1>6, DropTab
  <2>. QED
    BY <1>1, <2>1
<1>7. CASE OnMessage(s)
  <2> DEFINE message == Head(old.queue)
  <2>1. /\ old.queue \in Seq(Message) /\ old.queue # <<>> /\ new.queue = Tail(old.queue)
        /\ new.lost = old.lost /\ new.due = old.due
    BY <1>7, OnMessageTab
  <2>2. /\ Len(new.queue) = Len(old.queue) - 1 /\ Len(old.queue) \in Nat \ {0}
        /\ message = old.queue[1] /\ message \in Message
    BY <2>1, Taken
  <2>3. ASSUME NEW k \in Nat, NEW m \in Nat, k <= m + 1, QueueEnds(old, k, i)
        PROVE  QueueEnds(new, m, i)
    <3> SUFFICES ASSUME NEW j \in 1..Len(new.queue), j > m, new.queue[j].type = "incident"
                 PROVE  new.queue[j].id # i
      BY DEF QueueEnds
    <3>1. new.queue[j] = old.queue[j + 1] /\ j + 1 \in 1..Len(old.queue)
      BY <2>1, Taken
    <3>2. j + 1 > k
      BY <2>2, <2>3
    <3>. QED
      BY <2>3, <3>1, <3>2 DEF QueueEnds
  <2>4. ASSUME LastPush(old, i, n) PROVE LastPush(new, i, n)
    <3>1. CASE QueueEnds(old, 0, i) /\ (i \in old.pushed => old.view[i].count = n)
      <4>1. QueueEnds(new, 0, i)
        BY <2>3, <3>1
      <4>2. message.type # "reset" => message.id # i
        BY <2>2, <3>1 DEF QueueEnds, Message
      <4>3. i \in new.pushed => i \in old.pushed /\ new.view[i] = old.view[i]
        BY <1>0, <1>7, <4>2, OnMessageTab
      <4>. QED
        BY <3>1, <4>1, <4>3 DEF LastPush
    <3>2. ASSUME NEW k \in 1..Len(old.queue), old.queue[k].type = "incident",
                 old.queue[k].id = i, old.queue[k].record.count = n, QueueEnds(old, k, i)
          PROVE  LastPush(new, i, n)
      <4>1. CASE k = 1
        <5>1. message.type # "reset" /\ message.id = i /\ message.record.count = n
          BY <2>2, <3>2, <4>1
        <5>2. new.view[i] = message.record
          BY <1>7, <5>1, OnMessageTab
        <5>3. QueueEnds(new, 0, i)
          BY <2>3, <3>2, <4>1
        <5>. QED
          BY <5>1, <5>2, <5>3 DEF LastPush
      <4>2. CASE k # 1
        <5>1. k - 1 \in 1..Len(new.queue) /\ new.queue[k - 1] = old.queue[k]
          <6>1. k \in 2..Len(old.queue)
            BY <2>2, <4>2
          <6>. QED
            BY <2>1, <6>1, Taken
        <5>2. QueueEnds(new, k - 1, i)
          BY <2>3, <3>2, <5>1
        <5>. QED
          BY <3>2, <5>1, <5>2 DEF LastPush
      <4>. QED
        BY <4>1, <4>2
    <3>. QED
      BY <2>4, <3>1, <3>2 DEF LastPush
  <2>5. DueOf(new, i) = DueOf(old, i)
    BY <2>1 DEF DueOf
  <2>. QED
    BY <2>1, <2>4, <2>5 DEF Told
<1>8. CASE StatusAnswered(s)
  BY <1>0, <1>1, <1>8, StatusAnsweredTab
<1>9. ASSUME NEW w, Send(s, w), ~new.lost PROVE Told(new, i, n)
  <2>1. PICK d \in old.due :
            /\ d.message \in Message /\ old.queue \in Seq(Message)
            /\ new.due = old.due \ {d}
            /\ new.queue = Append(old.queue, d.message)
            /\ new.view = old.view /\ new.pushed = old.pushed /\ new.lost = old.lost
    BY <1>9, SendTab
  <2> DEFINE last == Len(old.queue) + 1
  <2>2. /\ Len(old.queue) \in Nat /\ Len(new.queue) = last /\ new.queue[last] = d.message
        /\ last \in 1..Len(new.queue) /\ 1..Len(old.queue) \subseteq 1..Len(new.queue)
        /\ \A k \in 1..Len(old.queue) : new.queue[k] = old.queue[k]
    BY <2>1, Appended
  <2>3. Told(old, i, n) /\ DueOf(new, i) = DueOf(old, i) \ {d}
    BY <1>9, <2>1 DEF DueOf
  <2>4. CASE d \in DueOf(old, i)
    <3>1. d.message.type = "incident" /\ d.message.id = i /\ d.message.record.count = n
      BY <2>3, <2>4 DEF Told, DueOf
    <3>2. QueueEnds(new, last, i)
      BY <2>2 DEF QueueEnds
    <3>3. LastPush(new, i, n)
      BY <2>2, <3>1, <3>2 DEF LastPush
    <3>. QED
      BY <2>3, <3>3 DEF Told
  <2>5. CASE d \notin DueOf(old, i)
    <3>1. d.message.type = "incident" => d.message.id # i
      BY <2>5 DEF DueOf
    <3>2. ASSUME NEW k \in Nat, QueueEnds(old, k, i) PROVE QueueEnds(new, k, i)
      <4> SUFFICES ASSUME NEW j \in 1..Len(new.queue), j > k, new.queue[j].type = "incident"
                   PROVE  new.queue[j].id # i
        BY DEF QueueEnds
      <4>1. j = last \/ j \in 1..Len(old.queue)
        BY <2>2
      <4>. QED
        BY <2>2, <3>1, <3>2, <4>1 DEF QueueEnds
    <3>3. \A k \in 1..Len(old.queue) : k \in Nat
      OBVIOUS
    <3>4. LastPush(old, i, n) => LastPush(new, i, n)
      BY <2>1, <2>2, <3>2, <3>3 DEF LastPush
    <3>. QED
      BY <2>3, <2>5, <3>4 DEF Told
  <2>. QED
    BY <2>4, <2>5
<1>. QED
  BY <1>2, <1>3, <1>4, <1>5, <1>6, <1>7, <1>8, <1>9 DEF TabStep

LEMMA PushesKept == Shape /\ Dues /\ Pushes /\ [Next]_vars => Pushes'
<1> SUFFICES ASSUME Shape, Dues, Pushes, [Next]_vars, NEW s \in Session, NEW i \in Incident,
                    ~session'[s].lost, ~Busy(i)', i \notin unannounced', i \notin crossed'
             PROVE  Told(session'[s], i, count'[i])
  BY DEF Pushes
\* A step that leaves alone what is said of i.
<1>1. ASSUME count'[i] = count[i], UNCHANGED session, Busy(i) => Busy(i)',
             i \in unannounced => i \in unannounced', i \in crossed => i \in crossed'
      PROVE  Told(session'[s], i, count'[i])
  BY <1>1 DEF Pushes
<1>2. ASSUME NEW t \in Task, NEW j \in Incident, Correlate(t, j)
      PROVE  Told(session'[s], i, count'[i])
  <2>1. \A u \in Task : task'[u] = IF u = t
                          THEN [step |-> "store", incident |-> j, seen |-> count[j] + 1] ELSE task[u]
    BY <1>2 DEF Correlate, Shape, ServerShape
  <2>2. task[t].step = "idle"
    BY <1>2 DEF Correlate, Idle
  <2>3. i # j
    BY <2>1 DEF Busy, Unpublished
  <2>4. count'[i] = count[i]
    BY <1>2, <2>3 DEF Correlate, Shape, ServerShape
  <2>5. Busy(i) => Busy(i)'
    BY <2>1, <2>2 DEF Busy, Unpublished
  <2>. QED
    BY <1>1, <1>2, <2>4, <2>5 DEF Correlate
<1>3. ASSUME NEW t \in Task, Store(t) \/ Save(t) PROVE Told(session'[s], i, count'[i])
  <2>1. task[t] \in Running /\ \A u \in Task : u # t => task'[u] = task[u]
    BY <1>3, OneTask DEF Proceed
  <2>2. task'[t].step \in {"save", "publish"} /\ task'[t].incident = task[t].incident
    BY <1>3, <2>1 DEF Store, Stored, Save, Shape, ServerShape, Running
  <2>3. Busy(i) => Busy(i)'
    BY <2>1, <2>2 DEF Busy, Unpublished
  <2>. QED
    BY <1>1, <1>3, <2>3 DEF Store, Save
<1>4. ASSUME NEW t \in Task, Fail(t) PROVE Told(session'[s], i, count'[i])
  <2>1. \A u \in Task : u # t => task'[u] = task[u]
    BY <1>4, OneTask DEF Proceed
  <2>2. task[t].incident # i
    BY <1>4 DEF Fail
  <2>3. Busy(i) => Busy(i)'
    BY <2>1, <2>2 DEF Busy, Unpublished
  <2>. QED
    BY <1>1, <1>4, <2>3 DEF Fail
<1>5. ASSUME NEW t \in Task, Publish(t) PROVE Told(session'[s], i, count'[i])
  <2> DEFINE message == [type |-> "incident", id |-> task[t].incident, record |-> PushOf(t)]
  <2>1. task[t].step = "publish" /\ Broadcast(t, message) /\ UNCHANGED count
    BY <1>5 DEF Publish, PublishStep
  <2>2. message.type = "incident" /\ message.id = task[t].incident
        /\ message.record.count = count[task[t].incident]
    BY DEF PushOf, SerializeIncident
  <2>3. \A u \in Task : u # t => task'[u] = task[u]
    BY <1>5, OneTask DEF Proceed
  <2> HIDE DEF message
  <2>4. CASE task[t].incident = i
    <3>1. ~Crosses(t)
      BY <1>5, <2>4 DEF Publish
    <3>2. DueOf(session[s], i) = {}
      <4> SUFFICES ASSUME NEW d \in DueOf(session[s], i) PROVE FALSE
        OBVIOUS
      <4>1. d.by \in Task /\ task[d.by].step = "send" /\ task[d.by].incident = i
        BY DEF DueOf, Dues
      <4>. QED
        BY <2>1, <2>4, <3>1, <4>1 DEF Crosses
    <3>. QED
      BY <2>1, <2>2, <2>4, <3>2, ToldPush
  <2>5. CASE task[t].incident # i
    <3>1. ~Busy(i)
      BY <2>3, <2>5 DEF Busy, Unpublished
    <3>2. i \notin unannounced /\ i \notin crossed
      BY <1>5, <2>5 DEF Publish
    <3>3. ~session[s].lost => Told(session[s], i, count[i])
      BY <3>1, <3>2 DEF Pushes
    <3>. QED
      BY <2>1, <2>2, <2>5, <3>3, ToldOther
  <2>. QED
    BY <2>4, <2>5
<1>6. ASSUME NEW t \in Task, Sent(t) PROVE Told(session'[s], i, count'[i])
  <2>1. task[t].step = "send" /\ \A u \in Task : u # t => task'[u] = task[u]
    BY <1>6, OneTask DEF Proceed, Sent
  <2>2. Busy(i) => Busy(i)'
    BY <2>1 DEF Busy, Unpublished
  <2>. QED
    BY <1>1, <1>6, <2>2 DEF Sent
<1>7. CASE ResetDelete
  <2>1. UNCHANGED <<count, task, session, unannounced, crossed>>
    BY <1>7 DEF ResetDelete
  <2>. QED
    BY <1>1, <2>1 DEF Busy, Unpublished
<1>8. CASE ResetRebuild
  <2> DEFINE message == [type |-> "reset"]
  <2>1. Broadcast("reset", message) /\ UNCHANGED <<count, task, unannounced, crossed>>
    BY <1>8 DEF ResetRebuild, ResetPush
  <2>2. message.type # "incident"
    OBVIOUS
  <2>3. ~session[s].lost => Told(session[s], i, count[i])
    BY <2>1 DEF Pushes, Busy, Unpublished
  <2> HIDE DEF message
  <2>. QED
    BY <2>1, <2>2, <2>3, ToldOther
<1>9. ASSUME NEW r \in Session, TabStep(r) PROVE Told(session'[s], i, count'[i])
  <2>1. UNCHANGED <<count, task, unannounced, crossed>>
    BY <1>9, TabStepShape
  <2>2. ~session[s].lost => Told(session[s], i, count[i])
    BY <2>1 DEF Pushes, Busy, Unpublished
  <2>3. CASE r = s
    BY <1>9, <2>1, <2>2, <2>3, ToldOneTab
  <2>4. CASE r # s
    BY <1>9, <2>1, <2>2, <2>4, OtherTabs
  <2>. QED
    BY <2>3, <2>4
<1>10. ASSUME NEW r \in Session, NEW j \in Incident, NEW status \in Status,
              SetStatus(r, j, status)
       PROVE  Told(session'[s], i, count'[i])
  <2>1. UNCHANGED <<count, task, unannounced, crossed>>
    BY <1>10 DEF SetStatus
  <2>2. ~session[s].lost => Told(session[s], i, count[i])
    BY <2>1 DEF Pushes, Busy, Unpublished
  <2>3. /\ session'[s].view = session[s].view /\ session'[s].pushed = session[s].pushed
        /\ session'[s].queue = session[s].queue /\ session'[s].lost = session[s].lost
        /\ session'[s].due = session[s].due
    BY <1>10, SetStatusTab
  <2>4. DueOf(session'[s], i) = DueOf(session[s], i)
    BY <2>3 DEF DueOf
  <2>. QED
    BY <2>1, <2>2, <2>3, <2>4, ToldSame
<1>11. CASE UNCHANGED vars
  <2>1. UNCHANGED <<count, task, session, unannounced, crossed>>
    BY <1>11 DEF vars
  <2>. QED
    BY <1>1, <2>1 DEF Busy, Unpublished
<1>. QED
  BY <1>2, <1>3, <1>4, <1>5, <1>6, <1>7, <1>8, <1>9, <1>10, <1>11 DEF Next, Proceed, TabStep

LEMMA PushesStart == Init => Pushes
<1>1. NoSession.pushed = {} /\ NoSession.queue = <<>> /\ NoSession.due = {}
  BY DEF NoSession
<1>. QED
  BY <1>1, ToldNothing DEF Init, Pushes

\* However the events of an incident interleave, and whatever resets, answers
\* and reconnections come between, once none of them has yet to publish, a
\* console whose copy came from a push shows the count the engine knows
\* (pipeline.py:138-143, 170-187) - unless a failed statement kept the last
\* growth from being pushed, or the last push overlapped another of the incident.
THEOREM ConsolePushedViewIsLive == Spec => []PushedViewIsLive
<1>1. Shape /\ Pushes => PushedViewIsLive
  <2> SUFFICES ASSUME Shape, Pushes, NEW i \in Incident \ (unannounced \cup crossed),
                      \A t \in Task : ~Unpublished(t, i),
                      NEW s \in Session, UpToDate(s), i \in session[s].pushed
               PROVE  session[s].view[i].count = count[i]
    BY DEF PushedViewIsLive
  <2>1. Told(session[s], i, count[i])
    BY DEF Pushes, Busy, UpToDate
  <2>2. DueOf(session[s], i) = {} /\ session[s].queue = <<>>
    BY DEF UpToDate, DueOf
  <2>. QED
    BY <2>1, <2>2 DEF Told, LastPush
<1>2. Shape /\ Dues /\ Pushes /\ [Next]_vars => Pushes'
  BY PushesKept
<1>. QED
  BY <1>1, <1>2, ShapeAlways, DuesAlways, PushesStart, PTL DEF Spec
=============================================================================
