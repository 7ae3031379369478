# ScriptScrap: verification project

TLA+ models of ScriptScrap, the TLC runs that check them on small instances, and
theorems about them that TLAPS checks. Everything is translated from the code; a
documented promise the code does not keep is a run with the expected result
*violation*, or a definition beside the checked properties (see "Where code and
words differ").

`PROJECT.json` lists components, runs, mutants, the map from definitions to
lines, hazards and theorems. Paths below are relative to `src/`; INV is
`camoufox/camoufox_investigator.py`, SS is `src/scriptscrap`.

## 1. The system

ScriptScrap watches an operator use a web application in an instrumented
Firefox, writes every observation as a numbered event to one append-only log,
and later derives what it can from that log, offline.

| Component | State | Operations | Talks to |
|---|---|---|---|
| Event log (SS/events/log.py) | `_seq`, `_since_sync`, `_closed`, lock, file | `emit`, `sensor_error`, `capture_gap`, `close` | every sensor calls `emit`; asyncio thread and one thread per extension connection |
| Event reader (SS/events/reader.py) | parsed events, problems | `_load`, `sequence_gaps`, `validate` | reads the log after the session |
| Session driver (INV: `run_capture`, `attach_engine_to_page`, `WebHarvester`) | endpoints, counters, outcome | browser callbacks, checkpoints, export | starts all sensors; every browser event is a coroutine |
| Page coverage (INV: `PageCoverage`) | tasks, closing, pages, `_was_in_scope`, `_captured` | observe, cover, scan, close, stop | page registry, lifecycle, storage and runtime sensors |
| Page registry, lifecycle (SS/sensors/identity.py, lifecycle.py) | ids of pages and frames | `page_id`, `forget_page`, open/popup/close listeners | coverage asks for ids after awaits |
| Network capture (INV: `handle_*`) | endpoints, `_http_requests` | request, response, failed | the log; the offline endpoint analysis pairs what it wrote |
| In-page probe (SS/probe) | buffer, drops, ordinal, timers, per world and document | emit, accept, flush, drain | the runtime sensor, through a Playwright binding |
| Runtime sensor (SS/sensors/runtime.py) | counters | attach, install, re-arm, ingest, drain | probe, driver, log |
| Forensic extension (SS/extension/background.js, transport.py, SS/sensors/extension.py) | buffer, socket, timer; threads, connections | batch, send, reconnect, ingest, stop | blob store, log |
| Blob store (SS/storage/blobs.py) | files by digest | `put` | several extension threads |
| Derived store, evidence index (SS/analysis/store.py, events_index.py) | SQLite file, runs, byte offsets | open, rebuild, write, prune, select, verify, serve, page | `analyze` processes and readers share the file and the log |
| Analysis (SS/analysis/pipeline.py and the analyzers it calls) | none | pure functions of the log: endpoints, schemas, dependencies, activities, states, steps, forms, tables, elements, health, findings | reads what the sensors wrote; pipeline, workspace, export |
| Export (SS/export) | pseudonyms of one export | dispositions, refusal, dataset | the result of an analysis |
| Workspace (SS/workspace, `cmd_workspace`) | serving thread, `_closed`, `lru_cache` of analyses | start, serve, shutdown; views of the store, the log and the analysis | `analyze` and `export` of other processes, a capture under way |
| Generator (SS/generate) | none | text from an analysis | the workspace, the command line |

What is hard here: callbacks interleave at every `await`; pages close under
coroutines that hold them; threads of the extension outlive the thing they
report to; buffers are bounded and their losses are only counted; files are
written by a process that may be killed, on a machine that may lose power; the
derived store is read while it is rebuilt from a log that grows; and the analysis
infers an order and a cause from records whose place in the log is not the order
in which things happened.

What makes each part correct:

- **log**: lines in the order of their numbers; an acknowledged event outlives
  the process and, up to the fsync period, the machine; a loss shows.
- **coverage**: one id, one page; no scanner on a dead page; a page that goes
  leaves a trace; stopping ends, and drains what is still open.
- **network**: every request is accounted for; nothing outside the scope is kept
  in full; no false report of a missing body; each response is counted once.
- **probe, extension**: records arrive once, in order, and losses are counted; a
  navigation or a stop leaves nothing behind.
- **derived store**: what is served is what was asked for; an absence can be
  relied on; a finished run stands; a newer store is not touched.
- **analysis**: no order is claimed that did not hold; what is kept of a session
  (an edge, an activity, a value, a verdict) agrees with what happened in it,
  whatever was held back, repeated or lost.
- **export**: what has no disposition leaves nothing; what leaves fits together.
- **workspace**: an answer is about the session as it is, not as it was; a
  shutdown returns.

## 2. Modules

| Module | Models | Composes |
|---|---|---|
| `LogReader` | how pieces of a file read back, gaps, problems | |
| `EventLog` | emit/close by threads, write and fsync failures, crash, power loss | extends `LogReader` |
| `EvidenceLog` | abstract: readable events grow at the end, the durable ones stay | |
| `EventLogProofs` | proofs, of the refinement too | extends `EventLog` |
| `PageCoverage` | `PageCoverage`, registry, page listeners, `run_capture`'s three ends | |
| `PageCoverageProofs` | proofs | extends `PageCoverage` |
| `ResponsePairing` | `EndpointAnalyzer._collect`'s pairing by position | |
| `NetworkCapture` | request, response and failure handlers | extends `ResponsePairing` |
| `NetworkCaptureProofs` | proofs | extends `NetworkCapture` |
| `BlobStore` | `put` step by step | |
| `ExtensionChannel` | background page, transport threads, sensor, engine's end | extends `BlobStore` |
| `ExtensionChannelProofs` | proofs | extends `ExtensionChannel` |
| `Sublists` | list comprehensions, sums and dictionary updates of Python, as functions | |
| `EventPages` | selection, cursor, one row too many, the walk | extends `Sublists` |
| `DerivedStore` | capture, analyze processes, SQLite file, readers | extends `EventPages` |
| `DerivedStoreProofs` | proofs | extends `DerivedStore` |
| `ProbeChannel` | probe, its installation, the sensor's ingestion | |
| `ProbeChannelProofs` | proofs | extends `ProbeChannel` |
| `Timeline` | how what happens on pages becomes the log: worlds, ordinals, clocks, flush timers, handlers that end late, documents | |
| `Routes` | templates of routes and sections | |
| `Correlation` | sightings, comparison of order, score, edges, merging | |
| `Segmentation`, `States`, `Workflow` | activities; states, visits and moves with their triggers; steps and their collapsing | extend `Routes` (and `Selectors`) |
| `FormCatalog`, `Tables`, `Selectors` | controls, options and values of forms; tables and rows; elements and their locators | |
| `Endpoints`, `Schemas` | templates by sibling paths, keys, attribution of page requests; fields and presence | `Endpoints` extends `Routes` |
| `CaptureHealth` | sensors' statuses, blind spots, matches, the verdict | |
| `ExportPolicy` | routes, names, pseudonyms, vocabularies, refusal, the shared dataset | |
| `SessionAnalysis` | `analyze_events` over the log of `Timeline`, and its properties | all of the above |
| `AnalysisProofs` | proofs | extends `SessionAnalysis` |
| `WorkspaceServer` | life of the server and its callers | |
| `Workspace` | requests, cache, views, captures, `analyze` and `export` beside them | extends `WorkspaceServer` |
| `WorkspaceProofs` | proofs | extends `Workspace` |
| `MC*` | constants for TLC only | extend the module they name |

### State and actions against the code

- **`EventLog`**. `seq, sinceSync, closed, lock` are the fields of the class, `pc`
  is where a thread stands inside `emit`, `image/flushed/synced` are the file as
  the process, the operating system and the disk have it. `Emit` takes the lock
  and the number, `WriteLine` and the three failing writes are the outcomes of
  `write` on a line-buffered file (nothing, buffered, cut short), `Sync` and
  `SyncFails` the two of `fsync`, `Close` is `close`. `Crash` and `PowerLoss` keep
  what the layer below had, with at most one cut line.
- **`PageCoverage`**. `task[p]` is the await at which `_cover_page` stands, so each
  stage is one step between awaits; `PageClosed` is both close listeners in the
  order they were registered (the lifecycle sensor forgets the page, then
  `_on_close` runs); `Stop`, `Sweep`, `Clear`, `NextTurn` and the extraction
  actions are `stop` between its awaits.
- **`NetworkCapture`**. `requestTask[r]` and `responseTask[r]` stand for the
  coroutine; each awaits once, so each handler is a start and an end, and the end
  may raise. `log[u]` is what the log holds of one URL, which is what the analysis
  pairs.
- **`ExtensionChannel`**. `page` is the background page's buffer, drop counter,
  ordinal and timer; `socket[s]`/`wire[s]` one WebSocket with the batches on it;
  `thread[s]`/`todo[s]` the transport's thread and the rest of its batch; `phase`
  how far the engine's shutdown has come.
- **`DerivedStore`**. An analyzer reads, stats and hashes the log and looks at,
  unlinks, connects to and writes the store in separate steps, because other
  processes may come between; a killed or failing writer leaves what SQLite and
  `close` leave. `files[g].runs` is the table of runs, a set of rows whose id
  SQLite gives in order and never twice (`AUTOINCREMENT`); who asks for the newest
  asks by that id. A reader's lookup is one step and the read of the payload
  another.
- **`ProbeChannel`**. `probes` are the isolated-world probes of the document shown,
  one more for each re-arming; `main` is the main world's; `task` the driver's
  coroutines. `Flush`, `Accept`, `Emit`, `FlushMutations`, `PushOut` are the
  functions of probe.js, on one probe record. `log[d][i]` is what the sensor emitted
  for the `i`th probe of document `d`: how the batches of several probes lie among
  each other in the log is left out, as no property of one probe depends on it.

- **`Timeline`**. `held`, `due` and `counted` are a page probe's buffer, timer and
  ordinals, one count for each JavaScript world; `waiting` are driver handlers that
  have been called and not yet logged. `Observe` is a record of the probe, which
  is flushed with all that is held if its type is urgent; `Tell`, `Ask`/`Finish` and
  `Load` are the driver at once, the driver after a wait and a new document. `turn`
  is when something really happened: the analysis never reads it, the properties
  compare with it.
- **`SessionAnalysis`** and the analyzers. One operator per analyzer, of the log:
  `ResultOf` is `analyze_events`, in the order of the calls, with the attribution
  pass before what needs it. A list comprehension is
  `Those` of its positions (`Sublists`); a loop that carries state (visits, merges,
  the catalog of forms) is a recursive function `upTo` from how much of the list has
  been gone through to what it has come to, so that it can be proved about. Confidence is in thousandths. The state space is that of
  `Timeline`; every state is a log to analyse, also one that is cut short.
- **`ExportPolicy`**. The policy is a table from fields to dispositions; a value
  outside a closed vocabulary puts the field's name in `Refused`, and one such name
  refuses the export. Pseudonyms are threaded through the fields in the order they
  are written.
- **`WorkspaceServer`**. `loop`, `stopping`, `ended` are socketserver's
  `serve_forever`, `__shutdown_request` and `__is_shut_down`; `caller[c]` is where a
  caller of `shutdown` stands between the lock-free statements of it.
- **`Workspace`**. `request[r].pc` is the point of a handler thread between two reads
  of shared state: a statement on the store, a `stat` of the log, a lookup in the
  cache, the reading of the log. `cache` is in the order of last use. A store is a
  file with one run; `pruned` is what a run's rows are after another process replaced
  it; a request keeps the run it selected.

Data is abstracted to what the properties tell apart: a URL is one of three model
values, a body is there or not, an event is its number.

## 3. Runs

| Run | Question | Instance |
|---|---|---|
| `event_log` | order, acknowledged events in the file and at risk, what a clean log is worth, refinement of `EvidenceLog` | 2 threads, 4 events, fsync every 2nd |
| `page_coverage` | ids, traces, scanners, stop (safety and liveness) | 2 pages, each with every life |
| `network_capture` | scope, accounting, tallies, gaps, pairing | 2 requests; application, noisy and third-party URL |
| `extension_channel` | order, drops, blobs behind references, the buffer drains | buffer 2, 2 sockets, 3 observations, 1 raising send |
| `derived_store` | served, absent, finished runs, newer stores, paged walk | 2 analyzers (1 rebuilding), 1 reader asking twice, 3 logs, 3 files |
| `probe_channel` | order, drops, navigation, arming of the first page | 2 clicks, 1 call, 1 change, buffer 2, 2 documents, 2 navigations |
| `session_analysis` | order, dependencies, endpoints, schemas, activities, moves, steps, forms, blind spots, refusal | 7 kinds of sessions of 3 or 4 happenings each |
| `workspace` | an analysis no older than the question; a shutdown returns | 3 scenarios: 2 callers of `shutdown`; one view of each kind; 2 analyses at a time. Cache 2, log 2, runs 2 |

Why these bounds: two of each actor is what a race needs; a buffer of two
overflows with the third record and holds one more than a flush of one would
show; four events with an fsync every second line let a failed fsync, a retry, a
buffered and a cut line all come before an acknowledged event; two navigations
let a coroutine started for one document run in the next. Three store files are
an old one, its replacement and a rebuild of that. A kind of session offers five to
eight happenings on one or two pages, in any order, repeated or not, with a lapse
that lets a timer or a window expire, since what relates two observations in the
analyzers is never about more than a pair and what lies between; MaxPaths,
MaxItems, MaxFields and MaxRows are small enough to be reached, and the properties
say what holds below them. In `workspace` two requests fill a cache of
two keys while the log grows once, which an entry under a stale key would need. Each bound is a CONSTANT
commented *bound of the model* or a set of the MC module. `event_log` and
`probe_channel` use symmetry in sets of threads and clicks, and check no liveness.
`CHECK_DEADLOCK FALSE` is in the models of a session that ends.

Every property of a passing run has a mutant, an operator of the same module that
changes one mapped definition the way a plausible bug would, under which TLC finds
the property violated.

### Fairness

- `PageCoverage`: weak fairness of `stop`'s own progress (asyncio resumes what is
  ready; the driver's calls return or raise) and of the delivery of a
  cancellation. None for pages: they may do nothing or never stop.
- `NetworkCapture`: weak fairness of each handler, a coroutine whose driver call
  returns or raises. None for the browser.
- `ExtensionChannel`: weak fairness of the page's timer, of sockets opening and
  closing, of reconnecting and of each server thread: timers and threads the
  platform runs. None for observations or breakage.
- `Workspace`: weak fairness of the serving thread and of each step of a `shutdown`
  that was called. None for requests, captures, `analyze`, Ctrl+C, or for starting.
- The other models assume none and check safety only.

### Where code and words differ

Four have a run that TLC must find violated:

| Run | What it shows |
|---|---|
| `page_identity` | A page that closes before its first snapshot gets its gap under a new id: the other close listener has forgotten it. |
| `export_edges` | The ends of a dependency are endpoint keys but are exported as routes: the method and its space become `{id}`, and the edge joins no endpoint of the dataset. |
| `table_rows` | A row without an id is known by its place: after paging, the row worked on at a known place is not kept. |
| `workspace_views` | A view selects a run and reads its rows in two statements; an `analyze` in between prunes it and the list is served empty, with status 200. |

Five more are stated beside the properties that are checked, and TLC refutes each
when it is put into the module's cfg:

| Definition | What TLC shows |
|---|---|
| `FailureIsVisible` (`EventLog`) | `emit` promises that a failed write is visible as a gap (SS/events/log.py:110); at the end of a session it is not, gaps are only looked for between events that were read. |
| `ClosedPageAccounted` (`PageCoverage`) | A page that closes while its scanner waits for the load event, or for the first poll, leaves nothing, though the handler is there to say so. |
| `StatusesConserved` (`NetworkCapture`) | Responses of requests that were dropped as noise reach no endpoint, so that statuses do not add up as SS/analysis/endpoints.py:88 says. |
| `SessionEndLast` (`ExtensionChannel`) | A connection's thread goes on emitting after SESSION_END, since `stop` joins the accept thread only. |
| `ActionOnce` (`ProbeChannel`, with MaxProbes = 3) | Outside the first page one document may be armed twice, and every action is then recorded twice with clashing ordinals. |

The reading and the models brought up more, which the modules keep as the code has
it and no run singles out.

- *Capture.* The gap that says the extension never connected goes by what is
  connected at the end (INV:1495). One digest of the form inventory serves all
  pages, so that two pages in turn make each other look changed (INV:1075). A session
  that failed is exported without draining (INV:2045). Two sensors that see one
  `requestSubmit` log two submissions.
- *Order.* `same_source_seq` compares records of one source across pages and
  handlers, whose place in the log is when a handler ended; `OrderTrueInDocument`
  holds because it is asked of one page and the probe alone. A record held for the
  flush interval (400 ms) is logged later than the tolerance of the wall clock (50 ms)
  allows for, so that an order by the wall clock may contradict what happened.
- *Dependencies.* The confidence of a merged edge cannot be computed from the
  evidence it keeps. A consumer seen by the page is of kind `runtime_request` when
  its value is in the URL, and its mechanism is "unknown".
- *Endpoints, schemas.* A page's GraphQL call is attributed to the plain
  `POST /graphql`. An endpoint keeps 50 paths, and a request to another is not
  attributed. A parameter is named after the raw segment before it. Past the bound
  of fields a field that is always there may be called optional.
- *States, workflow, forms, tables.* A trigger is taken by its wall time and may
  serve two moves. A control of a frame keeps the frame's id over a navigation. A row
  that is touched and visible is stored twice.
- *Health.* A structural gap changes no sensor's status; the condition on
  "handle_re" (health.py:137) names no site that is ever logged; a body capture is
  matched as if to a GET, whatever the request was; sensors that saw different
  numbers of answers from one URL are said to be in conflict.
- *Export.* health.py:32 says "unavailable", which policy.py:326 lacks: a session
  with such a sensor cannot be exported (`ExportRefusesOnlyUnavailable` states just
  that). The tied methods of an order are not in its vocabulary and are exported as a
  hole. Hash routes are cut. The pattern for names never takes `$.field`, `?query` or
  `#id`, so that these are always pseudonyms. The salt of the pseudonymizer is unused.
- *Workspace.* Of two shutdowns at once one may raise `AttributeError`; after a
  Ctrl+C that comes before the loop is entered, `shutdown` waits for ever
  (`ShutdownReturns` leaves it out); a stale index found by the constructor of the
  reader is answered with 500; the overview may mix two runs.

## 4. Theorems

All hold for every value of the constants under the assumptions the modules name.
They are proved by the usual argument: an inductive invariant `IInv`, `Init =>
IInv`, one lemma for each action, and the property as a consequence. TLC checked
each inductive invariant on the module's run before it was proved.

- **`EventLogProofs`** (threads, fsync period, number of events arbitrary).
  `LogOrdered` and `AckedInFile` are not inductive: a write must be known to come
  from the lock's holder with the last number given (`LockInv`, `NumberInv`), and a
  sync to concern a line that is in the file (`SyncInv`). `RiskTheorem`
  (`AckedLossBounded`) is by a separate invariant on the acknowledged events
  beyond `synced`, whose number `_since_sync` bounds. `CleanTheorem`
  (`CleanLogIsComplete`) joins what the writer guarantees with what the reader looks
  for: a file without problems has only whole lines (`CleanLogWhole`), and a number
  missing between two that were read makes a gap (`HoleIsGap`, by the nearest
  numbers read on either side).
  `Refinement`: `EventLog` implements `EvidenceLog` under the mapping readable
  events / durable events / closed or dead: every write, failing write, sync, close,
  crash and power loss is a step of it or stutters. It uses the invariants above.
  `Extend` needs that a line following a cut one is lost with it.
- **`PageCoverageProofs`** (any set of pages). `IInv` is `TypeOK` with `IdInv` (the
  ids in the registry were given out once and lie below the counter), `OwnerInv`
  (which of `tracked`, `closing` and `swept` owns each live task, by phase),
  `TraceInv` (what a task has reported by the stage it is in) and `HeldInv` (which
  pages the drain has still to reach). `ScannersEnded` and `DeadPageNotScanned`
  need `OwnerInv`, since `tasks.clear()` forgets tasks that pages opened meanwhile
  started; `StopDrains` needs the place of each held page in `order`.

- **`NetworkCaptureProofs`** (any requests and URLs, every safety property of the
  run). `IInv` is `TypeOK` with `TaskInv` (where each coroutine stands by what the
  browser has told), `EventInv` (what an event presupposes: its handler is through,
  its URL is the request's, a URL with a request is an endpoint), `OnceInv` and
  `GapInv`. The accounting is not inductive without `TaskInv` and `EventInv`: that a
  new event is the only one of its kind follows from its handler having still been
  under way. `TallyInv`, the finite set of recorded requests and its size, is kept
  beside it. `PairedOnce` is a fact about every log: ranks in a finite set of
  places are distinct and fill 1..n (`RankGrows`, `RankOnto`), so that each response
  has the rank of exactly one request or falls to the last.

- **`ExtensionChannelProofs`** (any buffer, batch, sockets and observations).
  `LoggedInSequence` is about the log, but what has been logged says nothing of what
  comes: `IInv` follows the records of one page over all the places they can be, from
  the buffer over each socket's wire and thread to the log. `ChainInv` says that on
  each connection log, rest of the batch and wire are one ascending sequence, without
  a hole while no send has raised; `OrderInv` that what a later socket carries is
  later, and that the buffer comes after all of it, which separates the ids of two
  connections; `PageInv`, `ThreadInv` and `QuietInv` say which of these places may
  hold anything at all by the state of socket, thread and engine. `emit`, `flush` and
  the report of drops are composed of lemmas about one page record, so that each
  handler is proved once. `DropsTheorem` needs that a report carries what was
  counted; `BlobTheorem` that a thread with its bytes stored found the blob whole.
- **`DerivedStoreProofs`** (any analyzers, readers, files, ids and schemas).
  `StoreInv` says what a file may hold: runs with ids up to the last given, at most
  one writer, a finished run with no older one of its session, rows that are lines of
  the log. `ReaderInv` is what makes `ServedIsAsked` and `AbsentIsAbsent` hold
  although the store may be rebuilt, pruned or replaced after the run was selected:
  the reader keeps a run whose rows are lines of a log that only grows, and an answer
  was preceded by a comparison of the log with that run. `NewerInv` says that
  only the file that was there at the start may be newer, and that while it is at the
  path no analyzer has got as far as unlinking, opening or writing it. `NewerStoreUntouched` is an action
  property and follows from it action by action. `WalkTheorem` (`WalkVisitsAll`) is about the recursive walk of
  the pages: whatever the size of a page, what has been collected and what is
  beyond the cursor are the list in order, by induction on the pages; that no two
  rows of a run share a seq (`RowsInv`) is what makes the cursor mean one place.
- **`ProbeChannelProofs`** (any actions, buffer, documents, probes, navigations).
  `RecordsInOrder` is not inductive, since what is still buffered will be logged
  later: `ProbeOK` says that what a probe has handed over and what it holds are one
  queue, ordered, with no ordinal beyond the counts of its two worlds. Taking a record
  needs that it comes after the whole queue, also when a report with a higher ordinal
  is put in front of it (`QueueReport`); losing a batch leaves a part of the queue
  (`QueuePart`). `LossReported` adds up the reports of a sequence, whose lemmas
  (`ReportedAppend`, `ReportedConcat`) stand first. `NothingLeft` needs `ArmInv`: the
  first page has one probe, because only the other pages' coroutines re-arm.
- **`WorkspaceProofs`** (any requests, sessions and cache size, however the log
  grows). `AnalysisNotOlder` is not inductive: `WorkspaceInv` adds that a key was
  taken after its request began and is no more than the log is now (`RequestInv`),
  and that what an entry covers is no less than its key (`CacheInv`), which rests on
  the order in which one thread stats, reads and remembers.
- **`AnalysisProofs`** (any sessions, pages, intervals, clocks, resolutions and
  values). `OrderTheorem` (`OrderTrueInDocument`) compares what the correlation says
  of two sightings with what happened: `TimelineInv` keeps, of every record that is
  logged or still held, that the ordinals of a world, the clock and the documents of
  a page go with the turns (`RecordInv`, `OrderInv`), that a page holds records of
  its present document only (`HeldInv`), and that the log has a page's documents one
  after another (`LogInv`), which is all that arrival order is trusted for. Logging
  makes copies, so that each action is a case of one lemma (`RecordsKept`). It
  assumes of the sessions (`SessionAssumption`) that only what a world of a probe
  observes has the source "runtime", and that what was logged before is none of it
  and was logged at time 0.
  `BlindSpotTheorem` (`BlindSpotNeverHidden`) holds of any log, whatever the rest of
  the analysis derives of it.
  `CompareOpposite`, `AgainBounded` and `PseudonymsApart` are about operators, not
  states: a comparison seen from the other side gives the opposite verdict; a merge
  keeps an edge within its bounds and never takes anything back; one more pseudonym
  leaves all others as they are and collides with none.

  The other theorems state what the analyzers compute from a log of any length.
  - `SaidInv`: what is held, waiting or logged says what one of the session's events
    says, up to what writer and probe fill in (`Spoken`); it carries
    `EventAssumption` to every state.
  - `OneEndpointTheorem` (`OneRequestOneEndpoint`): a template's parts are functions
    of the bucket, so that all requests to one URL are in one endpoint, and an
    observation attributed through another's keys would have another URL.
  - `PartitionTheorem` (`ActivitiesPartition`): the boundaries cut the positions of
    the markers into intervals; whatever is between two boundaries is no boundary.
  - `StepsTheorem` (`StepsReplay`): collapsing keeps a run's length as `repeats`, so
    that spreading the steps out again gives the raw ones.
  - `EdgesTheorem` (`EdgesEstablished`): what an edge has been merged from shows
    what it claims (`Shown`), by induction over the pairs, then over the candidates.
    Each repeat adds at most one citation.
  - `MovesTheorem` (`MovesAccounted`): the transitions' counts are the moves', whose
    weights telescope from the first visit to the last. That a trigger lies between the visits
    needs that the log's wall times never fall (`Rising`), which is inductive.
  - `PresenceTheorem` (`PresenceHonest`): below the bounds every field of a body is
    reached by the walk, as its parents come before it; then `present` counts the
    bodies that have the field, and is their number only if all do.
  - `ExportTheorem` (`ExportRefusesOnlyUnavailable`): each value an analyzer writes
    into a closed vocabulary is in it, but for "unavailable".
  - `FinalTheorem` (`FinalIsLastTyped`): the three passes over the log are three
    inductions: scans leave a typed control with nothing to lose, of the values that
    follow the last one wins, and clicks touch comboboxes only. That the last in the log is the last
    typed is `InTurn`, an invariant of the session's steps: the records
    of a page's probe are logged in the order in which they were made.

  They assume of the sessions that a probe tells of what is done to forms, one control
  at a time, that a script's submission has no element, that no request has the method "GRAPHQL", and
  that a body's values come after what they are in (`EventAssumption`).

Induction. The library's induction theorems take an operator as a parameter,
which the provers cannot instantiate. Where a fact about all beginnings of a list
is needed it is proved from a least counterexample (`Least`, `LeastOne`, by the
well-foundedness of `<`), or as a set of numbers that holds 0 and, with each number,
the next (`Climb`): both are first-order. That a recursive function exists and
satisfies its equation is proved from the functions on its beginnings, one for each
use. The models have no RECURSIVE operator for that reason.

Every safety property that a passing run checks is stated by a theorem. Left to TLC
is liveness, which needs ENABLED: `StopEnds`, `ResponseRecorded`, `BufferDrains` and
`ShutdownReturns`; and what the code does not keep, which TLC refutes.

## 5. What is not modelled, and why

- Text and layout: URL parsing, GraphQL documents, HTML, generated code, the
  manifest, console output, wording of titles, reasons and labels.
- Sensors that emit one event a callback and share no state (WebSocket frames,
  console, dialogs, downloads).
- Frame ids, frame lifetimes and iframes: one document a page.
- Of the analysis: technologies and scripts, which are lists of signatures;
  parameters of endpoints; formats, enumerations and examples of fields; metrics.
  The tokens of a field's name, the kinds of identifiers and the text of a value are
  constants.
- Of the export: the text report, the `Redactor` of free text, parameters.
- The contents of the workspace's views, its static files and its page.
- The superseded investigator, diagnostics, fixtures and helpers of the tests.
- After a drain `ProbeChannel` ends; a binding throws at most once in a document
  there. `DerivedStore` assumes that two sizes of the log are two contents, which
  an append-only log gives. `Workspace` assumes the same of its cache.
- `Timeline` has one frame a page and lets a timer fire on time; what the buffer
  does when it is full is in `ProbeChannel`.
- `AbsentIsAbsent` leaves out two cases the model reaches and the code allows: a
  log that grew between its reading and its fingerprint, and a reader that
  verified the log for an earlier question.

## 6. Plan

Done, in this order: event log with its abstract specification, page coverage,
network capture with pairing, extension channel with blob store, derived store,
probe; then the analysis over logs that grow as the sensors write them, the export
of its result, and the workspace. Proofs of every safety property of the passing
runs, of the refinement, and of the operators of order, merging and pseudonyms.

Next:

1. Form inventories of several pages (one digest for all), frame ids.
2. Parameters of endpoints and the reconciliation's metrics.
