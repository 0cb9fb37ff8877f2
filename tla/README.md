# Sysmon Hunter in TLA+

A specification of the detection server under `backend/`: how it keeps a
process tree, turns events into detections, groups detections into incidents,
and keeps all of that consistent with its database while requests, a background
sweep, analysts and administrators act on it at the same time. The modules
are model-checked with TLC on small instances; some of their properties are
proved for every instance with TLAPS. `PROJECT.json` maps each definition to the
lines it translates.

## 1. The system

One asyncio process. A collector sends every Sysmon event to `POST /ingest`
(`backend/api/ingest.py`), which runs `Pipeline.process()`
(`backend/engine/pipeline.py`):

    normalize -> ProcessTree.observe -> rules, beacon, discovery, scan
              -> for each detection: correlate, upsert incident, save detection, broadcast

Everything up to the first database call runs without an `await`, so it is
atomic; from there on, requests interleave at every `await`. A background loop
(`main.py:63-78`) calls `Pipeline.sweep()` every 60 seconds: it closes idle
incidents and prunes the tree and the detectors. Analysts triage incidents
through `/incidents/{id}/status` and `/notes`; an administrator may empty the
database, which also rebuilds the engine. Two clocks exist: the wall clock, read
by the sweep and by rule detections, and event timestamps, read by the detectors
and carried by statistical detections. Collectors lag, replays keep old
timestamps, and clocks may be fast.

### Inventory

| Component | State | Operations | What makes it correct |
|---|---|---|---|
| Process tree (`correlator.py:41-216`) | `_nodes`, `_children` | `observe`, `ancestry`, `root`, `subtree`, `prune` | the child index agrees with the parent links and does not leak; roots move only along a chain; an exported tree has no holes |
| Incident engine (`correlator.py:219-356`, `schemas.py`) | `_open`, `_history` | `correlate`, `is_actionable`, `sweep` | incidents are bursts of one root's detections; closed is final; every incident is closed; score and severity agree |
| Beacon detector (`beacon.py`) | a bounded queue of timestamps and `last_alert` per channel | `observe`, `prune` | ordered bounded queues; a metronome is reported; no report repeats within the cooldown |
| Scan detector (`scan.py`) | last-touched time per destination and `last_alert` per process | `observe`, `prune` | what counts is exactly what was touched in the window; cooldown |
| Discovery detector (`discovery.py`) | techniques and `last_alert` per tree root | `observe`, `prune` | as the scan detector |
| Pipeline and tables (`pipeline.py`, `db.py`) | `incidents`, `detections` | `upsert_incident`, `save_detection`, `update_incident_status`, `update_incident_notes`, `reset_database` | stored detections have an incident; rows are accurate; triage survives the engine; a reset leaves nothing behind |
| Administration (`admin.py`) | none of its own | reset, Sigma import | reset and engine go together; imports do not overwrite rules |
| Rule store, matcher (`rule_loader.py`, `matcher.py`) | rules by event id | `load`, `for_event`, `evaluate` | a bad file costs one rule, not the engine |
| Sigma import (`sigma_import.py`, `redos_guard.py`) | none | `import_sigma_text`, `convert_sigma_rule` | an imported rule matches what the Sigma document describes; no unsafe regex is live |
| Live console (`ws.py`, `serializers.py`, `console.js`) | connected sockets; the console's copy | connect, broadcast, bootstrap, triage | what is shown is stored, catches up, and forgets what a reset removed |
| Rate limiter (`rate_limit.py`) | a token bucket per client, LRU | `_bucket_for`, `allow` | no client exceeds rate and burst; a client at the rate is never refused; bounded memory |
| Enrichment (`enrichment.py`) | a cache with a time to live | `enrich` | a hit makes no request; the worst verdict is shown |
| Search, noise, profile, indicators, STIX, coverage | none | pure reads | one more word narrows; resemblance is the same wherever it is shown; stories sharpen; bundles are well formed |
| Statistics, PDF report | none | pure reads | not modelled |

Hard behaviours: interleaving at awaits (ingests, triage, reset, imports,
lookups), failed statements and crashes between two commits, messages lost or
overtaken between server and console, two clocks and unordered event times,
pruning that forgets something another part still relies on, thresholds met
exactly, the sweep racing the handlers it cleans up after, conversions that must
preserve meaning. `PROJECT.json` lists them under `hazards`, each at its line
with the properties that would catch it.

## 2. Modules

    ProcessTree, Scores <- IncidentEngine <- IncidentEngineProofs
    EventClock <- BeaconDetector, ScanDetector, DiscoveryDetector, RateLimiter, Enrichment
               <- TimedComponents             EventClock <- BurstWatch
    BeaconDetector, ScanDetector, DiscoveryDetector <- DetectorProofs
    TimedComponents <- TimedComponentsProofs
    Matcher <- SigmaImport <- SigmaSemantics <- RuleStore <- RuleStoreProofs
    Scores, Story, Search, Noise, Exports <- Casebook <- CasebookProofs
    Persistence <- PersistenceProofs          Console <- ConsoleProofs
    DataInduction <- IncidentEngineProofs, DetectorProofs, RuleStoreProofs

`A <- B`: B extends A. Each `MC...` module gives the constants of one of them values.

**ProcessTree.** `nodes` is the node table, a function on the known GUIDs;
`children[p][c]` counts how often `c` is listed in the bucket of `p` (the code
keeps a list; only membership and multiplicity matter). `Observe` is `observe()`
with its two branches, the second with the parent backfill; `Prune` is `prune()`
with its whole bucket loop; `Climb`, `Root` and `Subtree` are the queries. The code
keys everything by host and never crosses hosts, so one host is modelled. Event
timestamps are arbitrary: collectors may lag or run ahead. `detached` is a
history variable: live nodes whose parent's bucket was dropped.

**IncidentEngine** extends the tree with `incidents` (`_history`) and `open`
(`_open`). `Correlate` is `correlate()` on the tree as it is at that moment,
which may be after a prune: it opens an incident, closes a quiet one and opens
the next, or grows one. `Sweep` is `Pipeline.sweep()`: close, then prune. A
detection's time is the wall clock minus a lag from `Lag`. An event without a
GUID correlates under an `Orphan` key, which the tree never knows. `ParentOf`
fixes who spawned whom; an event may omit it.

**EventClock**, **BeaconDetector**, **ScanDetector**, **DiscoveryDetector.**
`EventClock` holds the wall clock and the lag of events. A channel's `stamps` is
its deque; `IsBeacon` is `_assess()` on integers, with twice the median instead
of the median so that no fractions are needed and the regularity threshold in
percent. `ScanObserve` and `ProcessCreate` are the `observe()` of the other two:
expire, record, assess. Processes, channels, roots and destinations are keys; a
command line is the set of signatures it matches, of which `classify()` takes
the first. Excluded images leave the code before any state and are not modelled.

**BurstWatch** is the abstract specification of the two windowed detectors: acts
of a key count for exactly one window, broad acts are reported unless a report
less than a cooldown old silences them, and that report may be forgotten only
when the key has been quiet for a window. `ScanWatch` and `DiscoveryWatch`
instantiate it with what each detector counts *now* (`RecentTouches`,
`RecentRecon`), so that expiry inside `observe()` and the sweep's pruning are
stutters or `Forget` steps. The refinement is promised until the first late event
(`late`, `delayed`): a late one expires nothing and may overwrite a newer time.

**RateLimiter.** `buckets` and `idle` are the ordered dictionary: `idle` is the
number of other clients used since. `Request` is `enforce_ingest_rate_limit()`,
which has no await. A token is `Token` units, so that no refill is rounded.
`SetRate` replaces the setting while buckets of the old rate exist.

**Enrichment.** `Click` is `enrich()` up to its first await (refuse, hit, or open a
lookup), `ProviderAnswers` one provider's answer; the last one writes the cache
over whatever a concurrent lookup wrote. `completed` is a history variable.

**TimedComponents** composes those five over one clock. They share nothing else,
so a behaviour of the whole is a behaviour of each; `focus` picks the one that
moves, and `Horizon` how long each is watched, so that TLC explores the sum and
not the product of their states.

**Persistence.** Each `Worker` is an ingest in progress, cut at its awaits:
`Arrive`/`Continue` (correlate, no await), `Select` (`session.get`), `Fill` (the
attribute assignments, from the incident as it is by then), `Commit`, `Save`.
SQLAlchemy writes the columns that differ from what the session loaded
(`Column`), inserts when it loaded nothing, and raises when the insert collides
or the updated row is gone; any exception drops the rest of the event
(`Abandoned`). An incident is its id and its number of detections. `TriageSelect`
and `TriageCommit` are the analyst's update; `ResetDelete` and `ResetRebuild` are
the two halves of `DELETE /admin/database`; `Crash` keeps only the tables.
Notes are written exactly as the status is, so one analyst column stands for both.

**CaseLedger** is what the database promises its readers: a case tells of ever more
detections, a detection is filed only under a case that already tells of it, a
verdict is passed on one case and by nothing else, and the ledger is wiped whole.
`Ledger` in `Persistence` maps `told` to the counts of the incident rows, `filed` to the
stored detections and `verdict` to the status column, so that only commits move the
ledger and the awaits, failures and crashes between them are stutters. The promise
(`StoreIsLedger`) ends at the first overlap of two ingests or of one with a reset:
then a row may be overwritten by an older count, and a detection stored without one.

**Console.** Server and browser tabs. An event in process is a `Task` that awaits
after `Correlate`: `Store` (`upsert_incident()`), `Save` (`save_detection()`),
`Publish`, and each `Send` to a client until `Sent`. Either statement may `Fail`: the
exception leaves `process()` before the push, although the engine has counted
the detection. `Broadcast` lists the sessions connected then as `due` the message, and
the walk reaches them one by one while other tasks run; each session is a FIFO that
`Drop` empties. Answers to requests (`ListIncidents`, `SetStatus`) travel separately
from the pushes and are applied by `Bootstrap` and `StatusAnswered`, so either may
overtake the other. `pushed` marks the incidents whose copy came last from a push,
`lost` a session that missed a message. History: `straddled`, anything in flight across a
reset; `unannounced`, an incident with a detection that failed since its last push;
`crossed`, one whose last broadcast began while another of it was being sent.

**Matcher**, **SigmaImport**, **SigmaSemantics**, **RuleStore.** `Matcher` is
`evaluate()` over texts as sequences of characters, folded to lower case, the raising
operator included; a regular expression is a sequence of tokens, and `ReSearch` the
positions a match can have come to after each. The expected values of a field are
a set, since any of them will do. `SigmaImport` follows `sigma_import.py`: names,
merging, flattening into one level, filters, glob shapes, modifiers, what is
rejected. A list of values is the set of them, so two lists that differ in order
only count as equal (`_combine()` compares lists and rejects such a document).
`SigmaSemantics` is a reference: what a Sigma document means, defined on its
selections and on globs directly, and `IsDocument`, what YAML can hold. There an item
tells upper from lower case exactly if it says `cased`; the converter drops that
modifier, so `CaseSensitive` documents and `CasedExclusion` are told apart. `Plain`
leaves out what the conversion gets wrong (negations on top of negations, negated
alternatives of one field) and what means nothing (an empty selection). `RuleStore`
is the files on disk, `load()`, hand edits, and the import as a request that
reads its uploads one await at a time and reloads after the last. `blind` is a history
variable: an import began that could not know every id in use, because another
was open or because the last load raised before it had read every file.

**Casebook** and its operators. `Scores`, `Story` (titles, narratives, chains,
profile phases), `Search`, `Noise` and `Exports` are pure operators translated
from the reading side of the backend; `Casebook` lets incidents gain detections
and their rows, and analysts triage, and reads everything off that record.
Technique tables keep the entries of the catalog's techniques; scores of
`Noise` are integers over a unit that all small fractions divide. The history of dismissed
incidents comes in any order (it is sorted by a time that is not kept here) and is cut
at any length up to the query's limit; `Assess` cites the strongest of it, `MaxMatches` at most.

## 3. Runs

| Run | Expect | Shows |
|---|---|---|
| `process_tree` | pass | the child index is sound, complete up to the known hole, mirrors ancestry; roots never jump to another tree |
| `process_tree_hole` | violation | `SubtreeComplete`: a pruned parent that reports again has lost its children |
| `incident_windows` | pass | incidents of a punctual feed are exactly the maximal bursts; with any lag, joining needs a detection at most a window older; closed incidents are final; every incident is eventually closed |
| `persistence` | pass | stored detections have incidents, counts on disk, reset, triage, the tables as an implementation of `CaseLedger` |
| `persistence_race` | violation | `DiskAccurateWhenQuiet`: two first detections of an incident collide |
| `timed` | pass | beacons (metronomes reported, reports spaced), scan and discovery as implementations of `BurstWatch`, buckets (bounded, admissions limited, steady clients served), cache (quota spared, worst verdict shown) |
| `rules` | pass | sound rules fire, accepted imports survive unless an import was blind, imported rules fire on all that Sigma describes and, letter case aside, on nothing else, no unsafe regex is live |
| `rules_offline` | violation | `GoodRulesFire`: a misspelt operator or a file that is not a mapping silences sound rules |
| `console` | pass | what is shown is stored; a copy that came from a push is current when all is delivered, unless a statement failed or broadcasts overlapped; no ghosts after a reset; growth is eventually shown |
| `console_triage` | violation | `ResolvedStaysClosed`: a push reopens what the analyst closed |
| `casebook` | pass | search narrows, noise scores agree and cite repeats first, exports are well formed, stories sharpen, severity dominates |
| `profile_gap` | violation | `RuleIncidentsProfiled`: T1055.012 has no phase |

The five violations are disagreements between the code and its own comments or
tests; `PROJECT.json` quotes the lines under `findings`.

### Bounds, and why they are enough

* `process_tree`: three processes (a parent, a child, and one more above or
  beside: enough for a grandchild, a cycle of three and a bucket shared by two),
  TTL 1 and four clock values, so that each process can go stale and return. The
  code caps a walk at 24; with three processes a cap of 4 never cuts, and
  `SubtreeMirrorsAncestry` says so in its guard.
* `incident_windows`: a parent and a child, three detections, window 1, TTL 2, lags 0
  and 2 (less and more than the window). Three detections make a burst, a gap
  and a reopening. The last detection comes a window before the end of time
  (`LastDetection`), otherwise the bound of the clock, not the code, would keep an
  incident open.
* `persistence`: two ingests, one root, three detections, at most two per event, and
  one each of triage, database error, reset and crash. Two workers suffice for
  every pairwise race; the second detection crosses `ActionableAt`. Workers are
  symmetric; no liveness is checked with symmetry.
* `timed`: one channel, process and root, since keys share only the clock. Four
  connections over three periods make a beacon, and 12 ticks let it be reported,
  pruned and reported again; lags -1, 0 and 1 with window = cooldown + 1, the
  tightest case `BeaconAlertsSpaced` allows. Three destinations make a host sweep
  or a port scan with two; discovery has a cooldown longer than its window, as the
  code's defaults have for scans. Three clients and two buckets make evictions;
  the burst is one and a half tokens and the rates 0, half a token and a token a
  tick. Two lookups overlap; both providers have a key and answer independently, clean or
  malicious, so that they disagree, and an intranet address, an address and a hash take
  the three ways through `enrich()`. Clients
  are symmetric; the properties checked with them are safety properties.
* `rules`: texts over two letters, one of them in either case, up to length three, two fields, and a family of
  Sigma documents that goes through every shape of glob (none, prefix, suffix,
  infix, single character, doubled and lone stars, empty), lists of equal and of
  mixed shapes, every modifier (`cased` alone, with another, under `not` and in a filter) and the
  combinations that are rejected, every
  form of condition with selections that merge, conflict or are lists, filters,
  foreign log sources, negations and an oversized upload; two imports, one after the
  other or overlapping, of the same document ids, with hand-written files before
  and after them in load order. The two requests are symmetric. The model lets
  every `upload.read()` give way to other requests; the server does when the
  upload is large enough to be spooled to disk.
  Faithfulness compares events of the document's event id: the engine indexes
  rules by it.
* `console`: one incident of up to two detections and two events in process, which can
  store, fail, publish and walk the clients in either order; one tab, since every
  property is about one tab and a walk reaches each at a moment of its own; three
  page loads or lost connections, one failed statement, one triage, one reset. The
  triage run needs neither reset nor failure.
* `casebook`: three incidents on hosts with a common name part and a common root
  process, the third on the host and with the chain of the first, so that it repeats or
  resembles it; citations limited to one and the history to two, so that both
  limits cut; nine detections chosen to reach chains, narratives, signatures,
  every detector, a registry key and both technique tables, up to three on record, queries of two
  words and a third, with and without a technique index.

Deadlock is not checked in the runs of `Persistence`, `Console` and `RuleStore`,
because a server with no requests left within the bounds is simply idle. All
other runs check it.

### Fairness

`EventuallyClosed` assumes weak fairness of `Sweep` and of the clock. The loop in
`main.py:63-78` runs for the life of the app and catches every exception of a
sweep, so a sweep keeps happening; time passes. No fairness is assumed of
events, correlation or analysts.

`GrowthShown` assumes weak fairness of `Proceed` (the event loop resumes a handler whose
statement has completed or raised; which of the two it is, `Store` or `Fail`, is left
open), of `ResetRebuild` (likewise), of `Send` (each `send_json()` ends), and of
`Connect` and `OnMessage` (the page retries for ever, and a message on an open
socket arrives). Page loads, lost connections, resets and triage are not fair. An event
whose statement failed is never pushed, so the property ends there.

## 4. Proofs

**IncidentEngineProofs** has two halves. The first proves every property of
`ProcessTree` except the known hole (`TreeTypeOK`, `ChildIndexExact`,
`SubtreeMirrorsAncestry`, `NeverGrafted`) for any set of GUIDs, TTL, depth and clock
bound. The inductive invariant `TreeInv` is the type invariant and the two halves of
`ChildIndexExact`. None is inductive alone: `prune()` removes one entry per stale child,
which empties the bucket only because each child is listed once, in its recorded
parent's bucket (`ChildIndexSound`); the backfill lists a child once only because a
process without a parent is in no bucket, which is again `ChildIndexSound`; and that an
attached child is listed after a prune of others needs that it was
(`IndexedUnlessDetached`). The walks are
recursive functions: `ClimbWalk` and `SubtreeReach` turn each into a function with one
step per index, and an induction over the index says that a walk is a chain of
parent links (`ClimbFacts`). `TreeMirrors` then needs both directions between chains up
and the levels of a subtree, and that a chain without repetition fits under the cap
(`ChainFits`, a pigeonhole). `TreeNeverGrafted` follows because `observe()` only extends a
chain at its top and `prune()` only cuts it.

The second half proves `TypeOK`, `IncidentsAreBursts`, `ReachableThroughWindow` and
`IncidentsOnlyGrow` of `IncidentEngine` for any processes, windows, lags, severities
and number of detections. The inductive invariant `EngineInv` adds to `TreeInv` and the
invariants three facts about what `correlate()` consults: the open incident of a root
is its latest (`OpenIsLatest`), its last activity is that of one of its members
(`LastSeenReached`), and while the feed is punctual every closed incident has been quiet
for longer than the window (`ClosedIsQuiet`), so that no detection that arrives later
belongs to it. `EngineDrivesTree` shows that the engine's behaviours are the tree's, so the
first half holds in the second.

**DetectorProofs** proves `BeaconTypeOK`, `BeaconAlertsSpaced` and `MetronomeIsReported` for any
channels, lags (negative ones included), thresholds, capacity, window and cooldown,
from `ClockAssumption` and `BeaconAssumption`.
`PushedFacts` is the lemma about the bounded queue: evicting from the front and
appending a connection no older than the newest keeps order and capacity. The
spacing needs `SpacingInv`: a report the detector no longer remembers is older
than the window by the wall clock. Pruning establishes it, because the report is
no newer than the channel's newest connection, and it makes forgetting
harmless: an event arrives with a timestamp at least `now - lag`, so beyond the
forgotten report's cooldown whenever lag + cooldown <= window. With the default
settings (120 and 30 minutes) that is any lag up to 90 minutes. For
`MetronomesReported`, `SteadyKth` shows that every entry of a sorted steady sequence is the
period, whatever sorting does with equal values, so the median is the period, no
interval is irregular, and the thresholds are met (`MetronomeIsBeacon`).

It also proves that `ScanDetector` and `DiscoveryDetector` implement
`BurstWatch` for any keys, windows, cooldowns and lags. The refinement mapping cuts
what a detector stores down to what still counts, so each step is shown to map:
observing to an act (expiry at the event's time is expiry at `now` while events are
punctual), pruning to `Forget` or a stutter (a pruned key counts nothing), the clock to
`Pass`. The type invariants carry the fact pruning needs: what is kept is never empty.

**TimedComponentsProofs** proves `LimiterTypeOK`, `BucketsBounded`, `AdmissionBounded` and
`SteadyClientServed` for any clients, rates, burst, token size and cap, from
`LimiterAssumption`. The inductive invariant adds `ClocksAgree`: a bucket's clock is the
time of its client's last request and neither it nor the bucket's birth is ahead
of the limiter's. `AdmissionBounded` is a potential: tokens left plus tokens spent
never exceed burst plus rate times age, which a request keeps because it advances
the bucket's clock by exactly the time it credits, refused or not.
`SteadyClientServed` follows because a client's own bucket, if it survived, was
refilled for the whole gap, and a new one is full. Products of a rate and a time
are kept behind small lemmas (`RefillIsNatural` and its neighbours).

It proves `NothingDiluted` and `QuotaSpared` of `Enrichment`
(`EnrichmentInv`: an open lookup still has a provider to ask, and a lookup that ended
well is in the cache with its time), and the composition: `TimedIsEach` shows that a
behaviour of `TimedSpec` is one of each component's specification, because the
others' steps leave its variables alone or advance the clock. So every theorem
about a component holds in the composition that TLC runs; `TimedTypeCorrect` is the
type invariant of that run.

**PersistenceProofs** proves `TypeOK`, `DetectionHasIncident`, `ResetWipes`,
`TriageOnlyByAnalyst`, `DiskAccurate` and `StoreIsLedger` for any number of ingests, keys, detections per event,
faults, triages, resets and crashes, from `BoundAssumption`. The inductive
invariant `StoreInv` adds three facts to the first two. `ResetAlone`: unless
`raced` was set, no ingest is in progress during a reset, so the only action that
removes rows meets no task. `RowsRemain`: hence the row a task wrote, or read
before it commits, is still there when it calls `save_detection()`, also when its
commit had nothing to send. `SinceWiped`: what is open, in progress or stored is
no older than the engine, and nothing is stored between the two halves of a
reset; a failed reset and a crash between the halves keep it. `SnapKeepsStatus`
(a task commits the status it loaded, so the column is not written) gives
`TriageOnlyByAnalyst`. The guard `Target(root) \in Id` of `CorrelateOn` is implied by the
bound on `raised`; it is spelled out because the implication is a sum over the
tasks, which the proof would need induction for.

`DiskAccurate` needs more than the two tables: `AccuracyInv`. `Fresh`: an id not given out
yet is in neither table, and what is open or in progress was created since the last
restart. `Knows(w)`: what the only task in progress carries at each of its awaits (the
flag it computed, the row it read, the row it will write) still agrees with the engine
and with the table, which is exactly what a second ingest or a reset would break.
`RowsAhead` and `EngineAhead` are the two balances: a row, and the engine, lead the
stored detections by the one being saved and one for each failed statement so far. The
engine is compared with the rows only outside the second half of a reset, since that is
when the rows are gone and the engine is not. One lemma for a correlation, one for the
four database statements, and the rest follow because they touch no count.

`StoreRefinesLedger` shows each step of `Persistence` to be a step of `CaseLedger` or a
stutter. It adds `Behind` to the invariant: no row, and no snapshot a task is about to
commit, counts more than the engine has, which holds because the engine's counts never
fall. With it a commit writes a count no lower than the stored one (`CommitTells`); that
the stored detections of an incident stay below its row when the next one is saved is
the balance of `EngineAhead` (`SaveFiles`); that a judged row tells of something is
`RowsAhead` (`TriageJudges`).

**ConsoleProofs** proves every invariant of `Console` (`TypeOK`, `ShownIsStored`,
`NoGhosts`, `PushedViewIsLive`) for any incidents, events in process, tabs, triage
states, failed statements, resets, reloads and lost connections, from
`ConsoleAssumption`. `Shape` types the state; the others look ahead at what is on its way.
`Dues`: what a tab is still due comes from a task that is sending, one message
each, about its own incident, or from the reset. `Stores`: what a tab is due, its
queue and its pending answer carry, and what an event is about to publish, is
already stored or was removed by a reset. `Resets`: while nothing straddled a reset, a
tab that lost nothing shows no removed incident, or a reset is due to it or in its queue
and no push of one comes after it; `ResetRebuild` establishes this from nothing, because
all in-flight work is excluded and each tab either is due the message, or loses it, or
shows nothing. `Pushes`: unless an event of the incident is still on its way to
`Publish`, or the incident is `unannounced` or `crossed`, every push of it that is due
carries the engine's count, and if none is, the last one in the queue does, or else the
pushed copy (`Told`). One lemma per step states what it does to a tab.

**RuleStoreProofs** proves the four properties of the `rules` run for any files, documents,
texts, events and number of requests. The inductive invariant `RuleInv` has three
parts. `Provenance`: every imported file, live imported rule and report is the
conversion of an accepted document, under the name of its id. `NothingLost`: while no import
was blind, at most one is open, it knows the id of every imported file, and what was
accepted is on disk as it was written; when none is open and the last load was
complete, the live rules show every such id. `StoreIsLoaded`: when nothing was edited and
no import is open, the live rules are those of the files. `FreshIdIsFresh` is why an
import writes only new paths: among one more suffix than there are known ids, one
is free. `ImportsKeepAcceptedRules` and `SoundFilesFire` follow directly. The second has the
hypothesis `SoundContents`: no hand-written file holds what `load()` or the
matcher raises on. The run `rules_offline` shows that without it the property is false.
`ImportedRegexesAreSafe` needs that a regex generated from a glob has only anchors, wildcards
and characters.

`ImportIsFaithful` is an argument about meaning, built up along the structure of a document,
for the document read with letter case folded: that reading is the document's own if
nothing in it is `cased`, and weaker if a selection has such an item
(`SigmaFolds`; `LowerKeeps` says that folding leaves wildcards and regex tokens alone). Both
halves of the theorem follow from it.
`RegexIsGlob`: the anchored regex of a glob matches a text exactly when the glob does, by
induction over the positions of the glob. `StarredGlob` and `SimpleGlob`: so do the
cores of the simple shapes under their operators. `ItemMeans`: hence one converted item
holds of an event exactly when the Sigma item does, negated or not. `MergedAll` and `MergedAny`:
merging the items of one field keeps a conjunction of equal ones and a disjunction of
any. `PositiveMeans`, `FilterMeans` and `RuleMeans` put the selections and filters together for
each form of condition. The hypothesis `Plain` is used in three places only, one for each thing
it leaves out; section 5 says how the code needs them.

**CasebookProofs** proves all six properties of the `casebook` run, for any incidents,
detections, rules, hosts, chains and words that satisfy `CasebookAssumption`: severities
are those of the scale, a detection tells finitely many techniques, and the beacon and
discovery detectors raise their own (`beacon.py`, `discovery.py`), which is what
`coverage.py` takes from them. Each is a theorem about the operators of one module, on
top of the type invariant.

`SearchNarrows`: adding a word either adds a term, or a filter, or neither; each
conjunct of a hit is monotone in that; and the one case that is not a conjunct, the
switch from the wholesale match to a detection or to title and chain, only ever leaves a
weaker condition.

`SeverityDominates` is a running total. `FoldExists` shows that a left fold is a function
with one step per position, `ScoreSteps` applies it to the score, and `ScoreIsAtLeast` gives
the score of any member, from which its band follows. That a critical incident is
actionable needs a threshold of at most 16: a critical score of fewer than three
detections, none of them critical, is two high ones, 16. The default is 12 (`config.py:50`).

`ExportsSound` rests on `GatherLists`: whatever is gathered by "append if new" is listed
once and completely. So indicators, techniques and the report are distinct objects and
every reference is one of them. For the coverage report `RulesAreCounted` bounds the counts.

`NoiseSound` opens the weighted average: `SumOfFour` says that a sum over at most four
signals does not depend on the order in which they are chosen, and `ScoreIsAverage` gives
the score as a quotient. `HalfMatchIsExplained`: a score of 50 needs one signal of a
half, which is a reason and, since an overlap above zero has a witness, something
shared. `RepeatIsAMatch`: equal rules and chains score 80 or more. `StrongestAreCited`: an
entry that clears the threshold and is not cited has `MaxMatches` entries ahead of it, and
`FirstOfSort` says that then exactly that many are cited, with no lower scores. Hence the hypothesis
`ThresholdPercent \in 50..80`; section 5 says what happens outside it. The default is 60
(`config.py:151`).

`StoryOnlySharpens` is monotonicity of every operator of `Story`: a requirement met stays met
(`ChainStands`), the first kind of title that fits, and the first of that kind, only move
forward (`MinOfMore`, `TitleSharpens`), the phases told are embedded in order in the phases told
of more detections (`ToldStepwise`, `PhasesStand`), and each tells at least as much.

**DataInduction** is the induction all of this uses: the library's induction theorems take
an operator, which the provers cannot instantiate, so `SetInduction` states the
principle for a set, from well-foundedness, and `StepwiseFunction` says that a function
defined by one step per index exists, which gives a recursive function its equations.

Out of the prover's reach, and left to TLC: liveness under fairness
(`EventuallyClosed`, `GrowthShown`). Every other property of a passing run is a theorem.

## 5. Known limits of the code, stated but without a run

* A detection older than an incident by more than the window still joins it
  (`correlator.py:262` looks in one direction), although an incident is documented
  as detections "within a time window" (`schemas.py:518`). `ReachableThroughWindow`
  states what holds.
* `ScanDetector.prune()` forgets the last alert of an idle process, and the scan
  window is shorter than its cooldown by default (`config.py:128-129`), so a
  process that pauses is reported again within the cooldown. `BurstWatch` allows it.
* Two Sigma imports that overlap start from the same ids (`admin.py:80`), so both may
  write the file of one id; the comment calls a silent overwrite "a bad way to find
  that out" (`admin.py:103-105`). So may an import after a load that was cut short.
  `AcceptedRulesSurvive` excepts both (`blind`). An overlap needs an upload large enough to
  be read off the event loop.
* The importer accepts `not` in a document and then changes its meaning: `1 of` over
  selections with the same negated field merges their values, so that not-A or not-B
  becomes neither A nor B, and a filter on a negated field keeps its negation
  (`sigma_import.py:185, 268-272`). `SigmaFaithful` excepts both (`Plain`).
* The importer drops `cased`, "never fewer, never wrongly" (`sigma_import.py:105-108`). A
  selection with such an item then matches more events, which `SigmaFaithful` allows and
  the importer announces; but a filter with one, or one under `not`, excludes more, so
  the imported rule fires on fewer events than the document describes.
  `SigmaFaithful` excepts that (`CasedExclusion`). A regular expression is read as the
  importer reads it, without regard to case.
* When `upsert_incident()` or `save_detection()` raises, `process()` skips the push
  (`pipeline.py:140-143`) although the engine has counted the detection: consoles show
  the old count until the incident grows again. `PushedViewIsLive` and `GrowthShown` except
  it (`unannounced`).
* Two broadcasts of one incident that overlap may reach a client in either order
  (`ws.py:39-41`), so the older count may be what stays on its screen.
  `PushedViewIsLive` excepts it (`crossed`). Overlapping resets are not modelled.
* Only the newest 500 dismissed incidents are compared with (`db.py:235`) and the
  strongest three cited (`noise.py:193-195`): `NoiseSound` does not promise more of a repeat.
* A reset that meets an ingest leaves a detection without an incident row.
* `coverage.py:58` omits the network scan's technique T1046; `ExportsSound` excepts it.
* `search.py:149` compares `severity:` with each detection too, once a word is
  given: `severity:critical` plus a word misses a critical incident of high detections.
* `schemas.py` says signature rules outrank narratives; `title` tries narratives first.
* The list and the page of an incident may score its resemblance differently
  until its first detection row is stored.
* A profile phase reached through a technique's parent lists no technique.
* With `noise_similarity_threshold` below 0.5 an incident can be cited without a reason,
  although `noise.py:185-186` promises one; above 0.8 a repeat of a dismissed incident
  with other techniques may not be recognised. `NoiseIsSound` covers what is between.
* A console that lost a message stays behind until it is reloaded; an answer can
  overwrite a newer push.

## 6. Not modelled

The PDF layout and the statistics page, which only count and draw stored rows.
Texts: evidence, summaries, descriptions, logging. The normalizer's renaming of
fields. YAML and the grammar of Sigma conditions: documents arrive parsed. The
timing probe of `redos_guard.py`, which is a given set of unsafe tokens. Metrics,
authentication, settings, migrations and the scripts that seed, replay and build
manuals, with reasons in `PROJECT.json`.

## 7. Plan

1. The console composed with `Persistence`, where a statement is a read and a commit.
