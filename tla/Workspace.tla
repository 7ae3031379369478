----------------------------- MODULE Workspace -----------------------------
(***************************************************************************)
(* The workspace (workspace/server.py, api.py, session.py): requests that  *)
(* threads of their own answer from a session's log and derived store,     *)
(* while the session is still recorded, analysed again and exported.       *)
(*                                                                         *)
(* A session has a log; its sanitised twin, export/shared, has none.  A    *)
(* file at a store's path is one generation, which a connection stays on;  *)
(* it holds one run, the one that `analyze` or `export` wrote last.        *)
(***************************************************************************)
EXTENDS WorkspaceServer, Integers, SequencesExt

CONSTANTS
    Requests,   \* requests; each is one thread
    Scenarios,  \* who may shut down, and what each request may ask: [calling, asks]
    Sessions,   \* the names the workspace found
    CacheSize,  \* the size of the lru_cache
    MaxLog,     \* bound of the model: how far the log grows
    MaxRuns     \* bound of the model: how often it is analysed or exported

ASSUME SessionAssumption == Sessions # {} /\ Sessions \subseteq {"raw", "shared"}
ASSUME SizeAssumption == CacheSize \in Nat \ {0} /\ MaxLog \in Nat /\ MaxRuns \in Nat

VARIABLES
    log,        \* how much is in the session's log
    store,      \* the file at each session's path: [file, run]
    pruned,     \* the runs that are gone from their file
    runs,       \* how many runs have been written
    exporting,  \* what an export has read and not yet written, 0 if there is none
    cache,      \* _analysis_cached: [key, upTo], the last used at the end
    request     \* each request

dataVars == <<log, store, pruned, runs, exporting, cache, request>>
vars == <<owner, loop, stopping, ended, closed, listening, caller,
          log, store, pruned, runs, exporting, cache, request>>

NoRun == [id |-> 0, version |-> "current", upTo |-> 0]
NoFile == [file |-> 0, run |-> NoRun]
NoAsk == <<>>
Idle == [pc |-> "idle", ask |-> NoAsk, began |-> 0, key |-> 0, run |-> NoRun,
         shows |-> 0, status |-> 0, upTo |-> 0]

(* A workspace opens sessions that were analysed, perhaps by another       *)
(* version, and then exported.  An ask is [token, route, session].         *)
Init ==
    /\ \E scene \in Scenarios :
          /\ LifeInit(scene.calling)
          /\ \E asks \in scene.asks :
                request = [r \in Requests |-> [Idle EXCEPT !.ask = asks[r]]]
    /\ log = 1
    /\ \E version \in {"current", "older"} :
          store = [s \in Sessions |->
                      [file |-> 1, run |-> [id |-> 1, version |-> version, upTo |-> 1]]]
    /\ pruned = {} /\ runs = 1 /\ exporting = 0
    /\ cache = <<>>

-----------------------------------------------------------------------------
(* What goes on outside.                                                   *)
Record ==
    /\ log < MaxLog
    /\ log' = log + 1
    /\ UNCHANGED <<store, pruned, runs, exporting, cache, request>>

WrittenRun == [id |-> runs + 1, version |-> "current", upTo |-> log]

(* analyze: the new run and the end of the old one are one transaction.    *)
Reanalyze ==
    /\ "raw" \in Sessions /\ runs < MaxRuns
    /\ runs' = runs + 1
    /\ store' = [store EXCEPT !["raw"].run = WrittenRun]
    /\ pruned' = pruned \cup {store["raw"].run.id}
    /\ UNCHANGED <<log, exporting, cache, request>>

(* cmd_export unlinks the store of the twin and makes another.  A store    *)
(* whose schema is not yet whole is as good as none.                       *)
ExportUnlink ==
    /\ "shared" \in Sessions /\ exporting = 0 /\ runs < MaxRuns
    /\ exporting' = log
    /\ store' = [store EXCEPT !["shared"] = NoFile]
    /\ UNCHANGED <<log, pruned, runs, cache, request>>

ExportWrite ==
    /\ exporting # 0
    /\ runs' = runs + 1 /\ exporting' = 0
    /\ store' = [store EXCEPT !["shared"] =
                    [file |-> runs + 1, run |-> [WrittenRun EXCEPT !.upTo = exporting]]]
    /\ UNCHANGED <<log, pruned, cache, request>>

-----------------------------------------------------------------------------
(* Connections.                                                            *)
Set(r, new) == request' = [request EXCEPT ![r] = new]
Answer(r, status) ==
    Set(r, [Idle EXCEPT !.pc = "answered", !.ask = request[r].ask, !.status = status])
Unmoved == UNCHANGED <<log, store, pruned, runs, exporting>>

(* A connection waits in the backlog of a socket that listens, ...         *)
Connect(r) ==
    /\ request[r].pc = "idle" /\ request[r].ask # NoAsk /\ listening
    /\ Set(r, [request[r] EXCEPT !.pc = "backlog"])
    /\ Unmoved /\ UNCHANGED cache

(* ... and gets a thread from the loop, or is dropped with the socket.     *)
Accept(r) ==
    /\ request[r].pc = "backlog"
    /\ \/ /\ loop = "running"
          /\ Set(r, [request[r] EXCEPT !.pc = "accepted", !.began = log])
       \/ /\ ~listening
          /\ Answer(r, 0)
    /\ Unmoved /\ UNCHANGED cache

-----------------------------------------------------------------------------
(* Routes (api.ROUTES), by what they are answered from.                    *)
ListViews == {"list"}           \* endpoints, states, workflow, schemas, ...
DetailViews == {"detail", "overview"}
EvidenceViews == {"event", "timeline"}
AnalysisViews == {"analysis"}   \* segments, forms, tables, generate
AllSessions == "sessions"
DerivedViews == ListViews \cup DetailViews

HasLog(name) == name = "raw"

(* session: the one that is named, or the only one.                        *)
Handle(ask) == IF ask.session = "none" THEN CHOOSE s \in Sessions : TRUE ELSE ask.session
Addressed(ask) ==
    CASE ask.session = "none" -> IF Cardinality(Sessions) = 1 THEN 200 ELSE 400
      [] ask.session # "none" -> IF ask.session \in Sessions THEN 200 ELSE 404

(* do_GET: what is turned away before a handler looks at anything.         *)
Refusal(ask) ==
    CASE ask.route = "asset" -> 200
      [] ask.route # "asset" /\ ~ask.token -> 401
      [] ask.token /\ ask.route = "missing" -> 404
      [] ask.token /\ ask.route \in DerivedViews /\ Addressed(ask) # 200 -> Addressed(ask)
      [] ask.token /\ ask.route \in EvidenceViews \cup AnalysisViews ->
             IF Addressed(ask) # 200 THEN Addressed(ask)
             ELSE IF HasLog(Handle(ask)) THEN 0 ELSE 409
      [] OTHER -> 0

(* A failure of the store is answered with 500; the list of sessions needs *)
(* every store.                                                            *)
Route(r) ==
    LET ask == request[r].ask
        next == IF ask.route \in AnalysisViews THEN "stat" ELSE "open"
        there == \A s \in Sessions : store[s].file # 0
    IN  /\ request[r].pc = "accepted"
        /\ CASE ask.route = AllSessions /\ ask.token -> Answer(r, IF there THEN 200 ELSE 500)
             [] ~(ask.route = AllSessions /\ ask.token) /\ Refusal(ask) # 0 ->
                    Answer(r, Refusal(ask))
             [] OTHER -> Set(r, [request[r] EXCEPT !.pc = next])
        /\ Unmoved /\ UNCHANGED cache

-----------------------------------------------------------------------------
(* Views of the derived store: each statement sees the store as it is then.*)
Gone(run) == run.id \in pruned

(* _read and _run_id, or EventStore: the newest run of this version.  The  *)
(* absence of one is a 404, but the constructor of EventStore raises where *)
(* the handlers of evidence do not yet catch it.                           *)
Open(r) ==
    LET ask == request[r].ask
        found == store[Handle(ask)]
        evidence == ask.route \in EvidenceViews
    IN  /\ request[r].pc = "open"
        /\ CASE found.file = 0 -> Answer(r, 500)
             [] found.file # 0 /\ found.run.version # "current" ->
                    Answer(r, IF evidence THEN 500 ELSE 404)
             [] OTHER -> Set(r, [request[r] EXCEPT !.run = found.run,
                                     !.pc = IF evidence THEN "evidence"
                                            ELSE IF ask.route \in ListViews THEN "rows"
                                            ELSE "head"])
        /\ Unmoved /\ UNCHANGED cache

(* A detail begins with its own row, the overview with that of the run.    *)
FirstRow(r) ==
    /\ request[r].pc = "head"
    /\ IF Gone(request[r].run)
       THEN Answer(r, IF request[r].ask.route = "detail" THEN 404 ELSE 500)
       ELSE Set(r, [request[r] EXCEPT !.pc = "rows"])
    /\ Unmoved /\ UNCHANGED cache

(* The rows of the run, if they are still there.                           *)
Rows(r) ==
    /\ request[r].pc = "rows"
    /\ Set(r, [request[r] EXCEPT !.pc = "answered", !.status = 200,
                                 !.shows = IF Gone(request[r].run) THEN 0
                                           ELSE request[r].run.id])
    /\ Unmoved /\ UNCHANGED cache

(* The timeline is the index's alone; a payload needs a log that is still  *)
(* what it was when it was indexed.                                        *)
Evidence(r) ==
    LET run == request[r].run
    IN  /\ request[r].pc = "evidence"
        /\ IF request[r].ask.route = "event"
           THEN Answer(r, IF Gone(run) \/ log # run.upTo THEN 400 ELSE 200)
           ELSE Set(r, [request[r] EXCEPT !.pc = "answered", !.status = 200,
                                          !.shows = IF Gone(run) THEN 0 ELSE run.id])
        /\ Unmoved /\ UNCHANGED cache

-----------------------------------------------------------------------------
(* Views of the log, analysed anew and remembered under its size.          *)

(* Mutant of KeyOf: under its path alone.                                  *)
KeyOfPath(size) == 1

KeyOf(size) == size

(* _analysis_for takes the size; the same thread reads the log later.      *)
Stat(r) ==
    /\ request[r].pc = "stat"
    /\ Set(r, [request[r] EXCEPT !.pc = "lookup", !.key = KeyOf(log)])
    /\ Unmoved /\ UNCHANGED cache

Remembered(key) == {i \in DOMAIN cache : cache[i].key = key}

Analysed(r, upTo) ==
    Set(r, [request[r] EXCEPT !.pc = "answered", !.status = 200, !.key = 0, !.upTo = upTo])

Hit(r) ==
    /\ request[r].pc = "lookup"
    /\ \E i \in Remembered(request[r].key) :
          /\ cache' = Append(RemoveAt(cache, i), cache[i])
          /\ Analysed(r, cache[i].upTo)
    /\ Unmoved

Miss(r) ==
    /\ request[r].pc = "lookup" /\ Remembered(request[r].key) = {}
    /\ Set(r, [request[r] EXCEPT !.pc = "analysing"])
    /\ Unmoved /\ UNCHANGED cache

(* analyze_log reads what is in the log by now.                            *)
ReadLog(r) ==
    /\ request[r].pc = "analysing"
    /\ Set(r, [request[r] EXCEPT !.pc = "remember", !.upTo = log])
    /\ Unmoved /\ UNCHANGED cache

(* What another thread has remembered under the key since stays; the       *)
(* entry used least recently goes when there are too many.                 *)
Remember(r) ==
    LET e == [key |-> request[r].key, upTo |-> request[r].upTo]
        kept == IF Len(cache) < CacheSize THEN cache ELSE Tail(cache)
    IN  /\ request[r].pc = "remember"
        /\ cache' = IF Remembered(e.key) # {} THEN cache ELSE Append(kept, e)
        /\ Analysed(r, e.upTo)
        /\ Unmoved

Handler(r) ==
    \/ Connect(r) \/ Accept(r) \/ Route(r) \/ Open(r) \/ FirstRow(r) \/ Rows(r) \/ Evidence(r)
    \/ Stat(r) \/ Hit(r) \/ Miss(r) \/ ReadLog(r) \/ Remember(r)

Outside == Record \/ Reanalyze \/ ExportUnlink \/ ExportWrite

DataNext ==
    \/ Outside
    \/ \E r \in Requests : Handler(r)

Next ==
    \/ LifeNext /\ UNCHANGED dataVars
    \/ DataNext /\ UNCHANGED lifeVars

(* The serving thread and the callers of shutdown run when they can; a     *)
(* request, a capture and the operator's commands may never come.          *)
Fairness ==
    /\ WF_vars(Enter /\ UNCHANGED dataVars) /\ WF_vars(Leave /\ UNCHANGED dataVars)
    /\ \A c \in Callers : WF_vars(ShutdownStep(c) /\ UNCHANGED dataVars)

Spec == Init /\ [][Next]_vars /\ Fairness

-----------------------------------------------------------------------------
(* An analysis that is served covers all that was in the log when it was   *)
(* asked for: whatever was remembered by then, for whichever size, and     *)
(* however the log grew while it was analysed ("serving a generator built  *)
(* from the previous one would describe a session that no longer exists",  *)
(* api.py:96-101).                                                         *)
AnalysisNotOlder ==
    \A r \in Requests :
        request[r].ask # NoAsk /\ request[r].status = 200
        /\ request[r].ask.route \in AnalysisViews => request[r].upTo >= request[r].began

(* "A blank panel would look like an application that simply had nothing   *)
(* there" (server.py:231-235): a view of the derived store that is served  *)
(* shows the run it was asked of.                                          *)
ViewShowsRun ==
    \A r \in Requests :
        request[r].ask # NoAsk /\ request[r].status = 200
        /\ request[r].ask.route \in DerivedViews => request[r].shows = request[r].run.id
=============================================================================
