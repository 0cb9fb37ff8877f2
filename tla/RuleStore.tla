------------------------------- MODULE RuleStore -------------------------------
(***************************************************************************)
(* The live rule set: the rule files on disk, backend/engine/              *)
(* rule_loader.py that loads them, and backend/api/admin.py that writes    *)
(* imported Sigma rules beside them and reloads.                           *)
(*                                                                         *)
(* A path is [dir, id, n]: a hand-written file, or an imported rule whose  *)
(* file is named after its id and the suffix n (0 for none).               *)
(***************************************************************************)
EXTENDS SigmaSemantics

CONSTANTS
    Handwritten,        \* the paths of hand-written rule files
    ReadBefore(_, _),   \* load() reads the one path before the other
    Contents,           \* contents a hand-written file can have
    Uploads,            \* requests: sequences of uploaded files
    Event,              \* events that reach the engine
    Requests,           \* import requests that can be open at once
    MaxImports,         \* bound on the imports of a behaviour
    MaxEdits            \* bound on the edits of hand-written files

ASSUME RuleStoreAssumption ==
    /\ IsFiniteSet(Handwritten) /\ \A p \in Handwritten : p.dir = "hand"
    /\ MaxImports \in Nat /\ MaxEdits \in Nat

\* A request has at least one upload, and a document is what YAML can hold.
ASSUME UploadAssumption ==
    \A uploads \in Uploads :
        /\ IsSequence(uploads) /\ uploads # <<>>
        /\ \A u \in ToSet(uploads) :
              /\ IsSequence(u.documents)
              /\ \A d \in ToSet(u.documents) : IsDocument(d)

ASSUME EventAssumption ==
    \A e \in Event : \A f \in DOMAIN e.fields : IsSequence(e.fields[f])

VARIABLES
    disk,        \* the content of each rule file there is
    up,          \* the application has started
    active,      \* RuleStore._all: the live rules, each with its path
    errors,      \* RuleStore._errors: the files rejected by the last load
    cut,         \* the last load raised before it had read every file
    request,     \* the open imports: ids known, uploads left, accepted so far
    reported,    \* accepted imports whose request was answered
    blind,       \* an import began that could not know all the ids in use
    stale,       \* a file was edited since the last load
    imports, edits

vars == <<disk, up, active, errors, cut, request, reported, blind, stale, imports, edits>>

\* ---- RuleStore.load()

\* Mutant of AbortsLoad: a schema violation is not caught either.
AbortsLoadOnBadSchema(content) == content.kind \in {"not_a_mapping", "invalid_schema"}

\* Rule(**document) raises TypeError, which load() does not catch, for a file
\* whose YAML is not a mapping; read_text() likewise for undecodable bytes.
AbortsLoad(content) == content.kind = "not_a_mapping"

LoadRaises(files) == \E p \in DOMAIN files : AbortsLoad(files[p])

\* The paths load() gets through: those before every file that raises.
PathsRead(files) ==
    {p \in DOMAIN files : \A q \in DOMAIN files : AbortsLoad(files[q]) => ReadBefore(p, q)}

IsEnabledRule(content) == content.kind = "rule" /\ content.rule.enabled

LoadedRules(files) ==
    {[path |-> p, rule |-> files[p].rule] : p \in {q \in PathsRead(files) : IsEnabledRule(files[q])}}

RejectedFiles(files) ==
    {p \in PathsRead(files) : files[p].kind \in {"invalid_yaml", "invalid_schema"}}

Load(files) ==
    /\ active' = LoadedRules(files)
    /\ errors' = RejectedFiles(files)
    /\ cut' = LoadRaises(files)
    /\ stale' = FALSE

\* for_event(): the live rules of the event's id.
ForEvent(event) == {a.rule : a \in {b \in active : b.rule.event_id = event.event_id}}

\* Pipeline.process(): the detections of an event; none when evaluation raises.
Detections(event) ==
    IF EvaluateRaises(event, ForEvent(event)) THEN {} ELSE Evaluate(event, ForEvent(event))

\* ---- the application starts: a load() that raises keeps it down.
Startup ==
    /\ ~up /\ ~LoadRaises(disk)
    /\ up' = TRUE
    /\ Load(disk)
    /\ UNCHANGED <<disk, request, reported, blind, imports, edits>>

\* The files after one of them is written.
Written(files, path, content) ==
    [p \in DOMAIN files \cup {path} |-> IF p = path THEN content ELSE files[p]]

\* A rule file is edited by hand; the store learns of it at the next load.
EditRuleFile(p) ==
    /\ edits < MaxEdits
    /\ \E content \in Contents : disk' = Written(disk, p, content)
    /\ disk' # disk
    /\ stale' = TRUE
    /\ edits' = edits + 1
    /\ UNCHANGED <<up, active, errors, cut, request, reported, blind, imports>>

\* ---- POST /admin/rules/import-sigma
NoRequest == [open |-> FALSE]

\* The ids the request starts from are those of the live rules.
KnownIds == {[id |-> a.rule.id, n |-> a.rule.n] : a \in active}

BeginImport(r) ==
    /\ up /\ ~request[r].open /\ imports < MaxImports
    /\ \E uploads \in Uploads :
          request' = [request EXCEPT ![r] =
                        [open |-> TRUE, known |-> KnownIds, left |-> uploads, accepted |-> {}]]
    /\ blind' = (blind \/ cut \/ \E q \in Requests : request[q].open)
    /\ imports' = imports + 1
    /\ UNCHANGED <<disk, up, active, errors, cut, reported, stale, edits>>

\* Mutant of FreshId: the document's own id is taken as it is.
DocumentId(id, known) == [id |-> id, n |-> 0]

\* The first suffix that no known id has.
FreshId(id, known) ==
    [id |-> id, n |-> CHOOSE n \in 0..Cardinality(known) :
                        /\ [id |-> id, n |-> n] \notin known
                        /\ \A k \in 0..(n - 1) : [id |-> id, n |-> k] \in known]

\* One accepted document: its id is made fresh, its file written.
WriteRule(state, document) ==
    LET fresh == FreshId(document.id, state.known)
        path  == [dir |-> "imported", id |-> fresh.id, n |-> fresh.n]
        rule  == [ConvertSigmaRule(document) EXCEPT !.n = fresh.n]
    IN [known    |-> state.known \cup {fresh},
        disk     |-> Written(state.disk, path, [kind |-> "rule", rule |-> rule]),
        accepted |-> state.accepted \cup {[path |-> path, rule |-> rule, document |-> document]}]

\* import_sigma_text() and the loop over what it accepts: the state after each
\* of the documents.
ImportDocuments(state, documents) ==
    LET after[k \in 0..Len(documents)] ==
            IF k = 0 THEN state
            ELSE IF Convertible(documents[k]) THEN WriteRule(after[k - 1], documents[k])
            ELSE after[k - 1]
    IN after

\* A file over the size limit is rejected whole.
ImportUpload(state, upload) ==
    IF upload.oversize THEN state
    ELSE ImportDocuments(state, upload.documents)[Len(upload.documents)]

\* `await upload.read()` of the first upload left, then everything up to the
\* next await: its rules are written and, after the last, the store reloaded.
ReadUpload(r) ==
    /\ request[r].open
    /\ LET state == ImportUpload([known |-> request[r].known, disk |-> disk,
                                  accepted |-> request[r].accepted],
                                 Head(request[r].left))
       IN /\ disk' = state.disk
          /\ IF Len(request[r].left) > 1
             THEN /\ request' = [request EXCEPT ![r] =
                                   [open |-> TRUE, known |-> state.known,
                                    left |-> Tail(request[r].left), accepted |-> state.accepted]]
                  /\ UNCHANGED <<active, errors, cut, stale, reported>>
             ELSE /\ Load(state.disk)
                  /\ request' = [request EXCEPT ![r] = NoRequest]
                  /\ reported' = IF LoadRaises(state.disk) THEN reported
                                 ELSE reported \cup state.accepted
    /\ UNCHANGED <<up, blind, imports, edits>>

Init ==
    /\ \E present \in SUBSET Handwritten : disk \in [present -> Contents]
    /\ up = FALSE /\ active = {} /\ errors = {} /\ cut = FALSE
    /\ request = [r \in Requests |-> NoRequest]
    /\ reported = {} /\ blind = FALSE /\ stale = FALSE /\ imports = 0 /\ edits = 0

Next ==
    \/ Startup
    \/ \E p \in Handwritten : EditRuleFile(p)
    \/ \E r \in Requests : BeginImport(r) \/ ReadUpload(r)

Spec == Init /\ [][Next]_vars
----------------------------------------------------------------------------
\* Whatever else lies in the rules directory, every sound and enabled rule
\* file is live after a load, and fires on every event it matches: a bad file
\* is skipped, never an outage (rule_loader.py:34-36).
GoodRulesFire ==
    (up /\ ~stale /\ \A r \in Requests : ~request[r].open) =>
        \A p \in DOMAIN disk, e \in Event :
            (/\ IsEnabledRule(disk[p])
             /\ disk[p].rule.event_id = e.event_id
             /\ ~MatchRaises(e, disk[p].rule) /\ Matches(e, disk[p].rule))
            => disk[p].rule \in Detections(e)

\* A rule reported as accepted stays on disk as it was converted: no later
\* import overwrites its file, whatever the ids of its documents, as long as
\* no import begins while another is open or after a load that was cut short.
AcceptedRulesSurvive ==
    ~blind => \A a \in reported :
        a.path \in DOMAIN disk /\ disk[a.path] = [kind |-> "rule", rule |-> a.rule]

\* An imported rule fires on every event its Sigma document describes, and, if
\* the document does not ask for the case of letters, on no other: dropping
\* `cased` makes it fire on more events, never on fewer (sigma_import.py:33-37,
\* 105-108).  Negations on top of negations and empty selections aside, and
\* for the first half `cased` items that exclude, which do make it fire on fewer.
SigmaFaithful ==
    \A a \in reported, e \in Event :
        e.event_id = SYSMON_EVENT_ID[a.document.category] /\ Plain(a.document) =>
            /\ ~CasedExclusion(a.document) /\ SigmaHolds(a.document, e) => Matches(e, a.rule)
            /\ ~CaseSensitive(a.document) /\ Matches(e, a.rule) => SigmaHolds(a.document, e)

\* No regular expression that is not safe to evaluate is live because an import
\* brought it in, whichever value of whichever field holds it.
NoUnsafeRegexLive ==
    \A a \in active : a.path.dir = "imported" =>
        \A k \in DOMAIN a.rule.detection :
            OperatorOf(a.rule.detection[k].mods) = "re" =>
                \A v \in a.rule.detection[k].expected : ToSet(v) \cap UnsafeTokens = {}
=============================================================================
