---------------------------- MODULE PageCoverage ----------------------------
(***************************************************************************)
(* One scanner per page: PageCoverage and attach_engine_to_page            *)
(* (camoufox_investigator.py), the page registry (sensors/identity.py) and *)
(* the lifecycle sensor (sensors/lifecycle.py).                            *)
(*                                                                         *)
(* Everything here runs on one asyncio thread: what happens between two    *)
(* awaits is one step.  Pages appear, navigate and close as the browser    *)
(* pleases, between any two of those steps.  A cancelled task executes     *)
(* nothing more: the cancellation is raised at the await it stands at.     *)
(***************************************************************************)
EXTENDS Integers, Sequences, FiniteSets

CONSTANTS
    Pages,      \* every page the browser may ever open
    Initial     \* the page the operator started on

ASSUME InitialAssumption == Initial \in Pages

VARIABLES
    life,       \* the page as the driver knows it: is_closed() is "closed"
    inScope,    \* whether page.url is inside the engagement scope
    registry,   \* PageRegistry._pages: the id of a page, 0 for none
    counter,    \* PageRegistry._page_counter
    task,       \* where each page's cover task waits
    cancelled,  \* the pages whose cover task has been cancelled
    tracked,    \* PageCoverage.tasks
    closing,    \* PageCoverage._closing: cancelled, awaited by a helper task
    order,      \* PageCoverage.pages
    wasInScope, \* PageCoverage._was_in_scope
    captured,   \* PageCoverage._captured
    phase,      \* how far run_capture and stop have got
    swept,      \* the tasks stop cancelled and waits for
    turn,       \* the page stop is extracting, as an index of order
    ids,        \* history: the ids page_id has answered for each page
    told,       \* history: pages with a snapshot, a gap or an error of their own
    everIn,     \* history: pages that were in scope while they were open
    held,       \* history: open and in scope since stop was called
    drained,    \* history: pages whose final state was extracted or reported
    late        \* history: pages that appeared after stop cancelled the scanners

browser == <<life, inScope>>
names   == <<registry, counter, ids>>
covers  == <<task, cancelled, tracked, closing, order, wasInScope, captured>>
main    == <<phase, swept, turn>>
history == <<told, everIn, held, drained, late>>
vars    == <<browser, names, covers, main, history>>

Stages ==
    {"load", "rearm", "seedFrames", "seedVisual", "seedStorage",  \* first snapshot
     "sleep", "content", "frames", "visual", "storage"}           \* the scan loop
Extracting == {"drain", "final", "catalogs", "world"}
Phases == {"capturing", "failed", "interrupted", "checkpoint", "awaiting", "stopped"}
            \cup Extracting

TypeOK ==
    /\ life \in [Pages -> {"unborn", "open", "closed"}]
    /\ inScope \in [Pages -> BOOLEAN]
    /\ registry \in [Pages -> Nat] /\ counter \in Nat
    /\ task \in [Pages -> Stages \cup {"none", "done"}]
    /\ cancelled \subseteq Pages /\ tracked \subseteq Pages /\ closing \subseteq Pages
    /\ order \in Seq(Pages)
    /\ wasInScope \subseteq Pages /\ captured \subseteq Pages
    /\ phase \in Phases /\ swept \subseteq Pages /\ turn \in Nat
    /\ ids \in [Pages -> SUBSET (Nat \ {0})]
    /\ told \subseteq Pages /\ everIn \subseteq Pages /\ held \subseteq Pages
    /\ drained \subseteq Pages /\ late \subseteq Pages
    /\ (phase \in Extracting => turn \in DOMAIN order)

Open(p) == life[p] = "open"
Alive(p) == task[p] \in Stages
Running(p) == Alive(p) /\ p \notin cancelled

-----------------------------------------------------------------------------
(* Mutant of IdIn: numbering by how many pages are registered now.         *)
IdByCount(reg, p) ==
    IF reg[p] # 0 THEN reg[p] ELSE Cardinality({q \in Pages : reg[q] # 0}) + 1

(* PageRegistry.page_id, applied to a registry: the id the page has, or    *)
(* the next one, which is then its.                                        *)
IdIn(reg, p) == IF reg[p] # 0 THEN reg[p] ELSE counter + 1

NameIn(reg, p) ==
    /\ registry' = [reg EXCEPT ![p] = IdIn(reg, p)]
    /\ counter' = IF reg[p] # 0 THEN counter ELSE counter + 1
    /\ ids' = [ids EXCEPT ![p] = @ \cup {IdIn(reg, p)}]

Name(p) == NameIn(registry, p)

(* PageRegistry.forget_page.                                               *)
Forget(p) == [registry EXCEPT ![p] = 0]

-----------------------------------------------------------------------------
(* Coverage starts on the initial page before the first navigation; the    *)
(* lifecycle sensor has seen it and given it the first id.                 *)
Init ==
    /\ life = [p \in Pages |-> IF p = Initial THEN "open" ELSE "unborn"]
    /\ inScope = [p \in Pages |-> FALSE]
    /\ registry = [p \in Pages |-> IF p = Initial THEN 1 ELSE 0]
    /\ counter = 1
    /\ ids = [p \in Pages |-> IF p = Initial THEN {1} ELSE {}]
    /\ task = [p \in Pages |-> IF p = Initial THEN "load" ELSE "none"]
    /\ tracked = {Initial} /\ order = <<Initial>>
    /\ cancelled = {} /\ closing = {}
    /\ wasInScope = {} /\ captured = {}
    /\ phase = "capturing" /\ swept = {} /\ turn = 0
    /\ told = {} /\ everIn = {} /\ held = {} /\ drained = {} /\ late = {}

(* The context's "page" event: the lifecycle sensor names the page, and    *)
(* coverage gives it a task, whatever phase the session is in.             *)
Appear(p) ==
    /\ life[p] = "unborn"
    /\ life' = [life EXCEPT ![p] = "open"]
    /\ \E s \in BOOLEAN :
        /\ inScope' = [inScope EXCEPT ![p] = s]
        /\ everIn' = IF s THEN everIn \cup {p} ELSE everIn
    /\ Name(p)
    /\ order' = Append(order, p)
    /\ tracked' = tracked \cup {p}
    /\ task' = [task EXCEPT ![p] = "load"]
    /\ late' = IF phase \in {"capturing", "failed", "interrupted", "checkpoint"}
               THEN late ELSE late \cup {p}
    /\ UNCHANGED <<cancelled, closing, wasInScope, captured, main, told, held, drained>>

(* The page goes from one side of the scope to the other.                  *)
Navigate(p) ==
    /\ Open(p)
    /\ inScope' = [inScope EXCEPT ![p] = ~@]
    /\ everIn' = IF inScope[p] THEN everIn ELSE everIn \cup {p}
    /\ held' = held \ {p}
    /\ UNCHANGED <<life, names, covers, main, told, drained, late>>

(* Mutant of PageClosed: the task is dropped without being cancelled.      *)
PageClosedNoCancel(p) ==
    /\ Open(p)
    /\ life' = [life EXCEPT ![p] = "closed"]
    /\ held' = held \ {p}
    /\ registry' = Forget(p)
    /\ tracked' = tracked \ {p}
    /\ UNCHANGED <<counter, ids, told, cancelled, closing, inScope, task, order,
                   wasInScope, captured, main, everIn, drained, late>>

(* The page's "close" event.  The lifecycle sensor's listener comes first  *)
(* and forgets the page; coverage then reports a page it never captured,   *)
(* asking the registry for its id again, and cancels its task if it is     *)
(* still one of `tasks`.                                                   *)
PageClosed(p) ==
    /\ Open(p)
    /\ life' = [life EXCEPT ![p] = "closed"]
    /\ held' = held \ {p}
    /\ IF p \in wasInScope \ captured
       THEN NameIn(Forget(p), p) /\ told' = told \cup {p}
       ELSE registry' = Forget(p) /\ UNCHANGED <<counter, ids, told>>
    /\ IF p \in tracked
       THEN /\ tracked' = tracked \ {p}
            /\ cancelled' = cancelled \cup {p}
            /\ closing' = closing \cup {p}
       ELSE UNCHANGED <<tracked, cancelled, closing>>
    /\ UNCHANGED <<inScope, task, order, wasInScope, captured, main,
                   everIn, drained, late>>

-----------------------------------------------------------------------------
(* The task goes on to await stage s of a pass, which takes the page's id  *)
(* first.                                                                  *)
GoOn(p, s) ==
    /\ inScope[p]
    /\ Name(p)
    /\ task' = [task EXCEPT ![p] = s]
    /\ UNCHANGED captured

(* The page has left the scope: scan_all_frames returns, and visual and    *)
(* storage capture record a gap, without an await, so the pass ends here.  *)
(* Only the storage sensor takes the page's id first.                      *)
PassOver(p) ==
    /\ ~inScope[p]
    /\ Name(p) \/ UNCHANGED names
    /\ told' = told \cup {p}
    /\ captured' = captured \cup {p}
    /\ task' = [task EXCEPT ![p] = "sleep"]

taskRest == <<browser, cancelled, tracked, closing, order, main,
              everIn, held, drained, late>>

(* Mutant of Loaded: the page is marked captured as its first pass starts. *)
LoadedAsCaptured(p) ==
    /\ Running(p) /\ task[p] = "load"
    /\ inScope[p]
    /\ wasInScope' = wasInScope \cup {p}
    /\ captured' = captured \cup {p}
    /\ task' = [task EXCEPT ![p] = "seedFrames"]
    /\ Name(p)
    /\ UNCHANGED <<taskRest, told>>

(* wait_for_load_state has returned or failed, which is not told apart.    *)
Loaded(p) ==
    /\ Running(p) /\ task[p] = "load"
    /\ IF inScope[p]
       THEN /\ wasInScope' = wasInScope \cup {p}
            /\ \/ p # Initial /\ task' = [task EXCEPT ![p] = "rearm"] /\ UNCHANGED names
               \/ p = Initial /\ task' = [task EXCEPT ![p] = "seedFrames"] /\ Name(p)
       ELSE task' = [task EXCEPT ![p] = "sleep"] /\ UNCHANGED <<names, wasInScope>>
    /\ UNCHANGED <<taskRest, captured, told>>

Rearmed(p) ==
    /\ Running(p) /\ task[p] = "rearm"
    /\ (GoOn(p, "seedFrames") /\ UNCHANGED told) \/ PassOver(p)
    /\ UNCHANGED <<taskRest, wasInScope>>

(* scan_all_frames ends with its DOM event, whatever frames failed.        *)
FramesScanned(p) ==
    /\ Running(p) /\ task[p] \in {"seedFrames", "frames"}
    /\ \/ /\ GoOn(p, IF task[p] = "frames" THEN "visual" ELSE "seedVisual")
          /\ told' = told \cup {p}
       \/ PassOver(p)
    /\ UNCHANGED <<taskRest, wasInScope>>

EndPass(p) ==
    /\ told' = told \cup {p}
    /\ captured' = captured \cup {p}
    /\ task' = [task EXCEPT ![p] = "sleep"]

(* capture_visual_state ends with a snapshot or a sensor error.  In the    *)
(* scan loop storage is read only after a navigation.                      *)
VisualCaptured(p) ==
    /\ Running(p) /\ task[p] \in {"seedVisual", "visual"}
    /\ \/ /\ GoOn(p, IF task[p] = "visual" THEN "storage" ELSE "seedStorage")
          /\ told' = told \cup {p}
       \/ PassOver(p)
       \/ task[p] = "visual" /\ EndPass(p) /\ UNCHANGED names
    /\ UNCHANGED <<taskRest, wasInScope>>

StorageRead(p) ==
    /\ Running(p) /\ task[p] \in {"seedStorage", "storage"}
    /\ EndPass(p)
    /\ UNCHANGED <<taskRest, names, wasInScope>>

(* The poll: nothing is done for a page that is out of scope.              *)
Poll(p) ==
    /\ Running(p) /\ task[p] = "sleep"
    /\ inScope[p]
    /\ task' = [task EXCEPT ![p] = "content"]
    /\ UNCHANGED <<taskRest, names, wasInScope, captured, told>>

(* page.content() answered: the page is worked again when its URL or its   *)
(* content changed.  It failed, as it must once the page has closed: the   *)
(* error is recorded and the loop goes on.                                 *)
ContentRead(p) ==
    /\ Running(p) /\ task[p] = "content"
    /\ \/ /\ Open(p)
          /\ wasInScope' = wasInScope \cup {p}
          /\ (GoOn(p, "frames") /\ UNCHANGED told) \/ PassOver(p)
       \/ /\ task' = [task EXCEPT ![p] = "sleep"]
          /\ UNCHANGED <<names, wasInScope, captured, told>>
    /\ UNCHANGED taskRest

(* An error nothing else caught in the first snapshot ends the task.       *)
CoverFails(p) ==
    /\ Running(p) /\ task[p] \in {"seedFrames", "seedVisual", "seedStorage"}
    /\ task' = [task EXCEPT ![p] = "done"]
    /\ UNCHANGED <<taskRest, names, wasInScope, captured, told>>

(* The cancellation is raised in the task.                                 *)
TaskCancelled(p) ==
    /\ Alive(p) /\ p \in cancelled
    /\ task' = [task EXCEPT ![p] = "done"]
    /\ UNCHANGED <<taskRest, names, wasInScope, captured, told>>

-----------------------------------------------------------------------------
(* Mutant of NextTurn: only the page the operator started on is drained.   *)
NextTurnInitialOnly(from) ==
    LET due == {i \in from..Len(order) : order[i] = Initial /\ Open(Initial) /\ inScope[Initial]}
    IN  IF due = {} THEN phase' = "stopped" /\ turn' = from
        ELSE phase' = "drain" /\ turn' = 1

(* stop, once it no longer waits for scanners, goes through the pages in   *)
(* the order they appeared and extracts each one that is still open and in *)
(* scope; the list may grow while it does.                                 *)
NextTurn(from) ==
    LET due == {i \in from..Len(order) : Open(order[i]) /\ inScope[order[i]]}
    IN  IF due = {} THEN phase' = "stopped" /\ turn' = from
        ELSE /\ phase' = "drain"
             /\ turn' = CHOOSE i \in due : \A j \in due : i <= j

(* run_capture leaves the browser's context with an error: every page      *)
(* closes, and only the handler of KeyboardInterrupt calls stop.           *)
Abort(outcome) ==
    /\ phase = "capturing"
    /\ phase' = outcome
    /\ UNCHANGED <<browser, names, covers, swept, turn, history>>

(* stop cancels the checkpoint task and awaits it.                         *)
Stop ==
    /\ \/ phase = "capturing"
       \/ phase = "interrupted" /\ \A p \in Pages : ~Open(p)
    /\ phase' = "checkpoint"
    /\ held' = {p \in Pages : Open(p) /\ inScope[p]}
    /\ UNCHANGED <<browser, names, covers, swept, turn, told, everIn, drained, late>>

Sweep ==
    /\ phase = "checkpoint" /\ phase' = "awaiting"
    /\ cancelled' = cancelled \cup tracked
    /\ swept' = tracked
    /\ UNCHANGED <<browser, names, task, tracked, closing, order, wasInScope, captured,
                   turn, history>>

(* Mutant of Clear: the tasks of closing pages are not awaited.            *)
ClearForgetsClosing ==
    /\ phase = "awaiting"
    /\ \A p \in swept : ~Alive(p)
    /\ tracked' = {}
    /\ NextTurn(1)
    /\ UNCHANGED <<browser, names, task, cancelled, closing, order, wasInScope, captured,
                   swept, history>>

(* Every scanner stop cancelled has ended, and every one a closing page    *)
(* cancelled, including those that closed while stop waited.               *)
Clear ==
    /\ phase = "awaiting"
    /\ \A p \in swept \cup closing : ~Alive(p)
    /\ tracked' = {}
    /\ NextTurn(1)
    /\ UNCHANGED <<browser, names, task, cancelled, closing, order, wasInScope, captured,
                   swept, history>>

-----------------------------------------------------------------------------
(* extract_active_introspection, one await after the other: the probe is   *)
(* drained, storage is read, the catalogs are, and the page's own world.   *)
DrainRest == <<browser, covers, swept, everIn, held, late>>

ProbeDrained ==
    /\ phase = "drain"
    /\ Name(order[turn])
    /\ IF inScope[order[turn]]
       THEN phase' = "final" /\ UNCHANGED told
       ELSE phase' = "catalogs" /\ told' = told \cup {order[turn]}
    /\ UNCHANGED <<DrainRest, turn, drained>>

FinalStorage ==
    /\ phase = "final" /\ phase' = "catalogs"
    /\ told' = told \cup {order[turn]}
    /\ UNCHANGED <<DrainRest, names, turn, drained>>

CatalogsRead ==
    /\ phase = "catalogs" /\ phase' = "world"
    /\ Open(order[turn])
    /\ UNCHANGED <<DrainRest, names, turn, told, drained>>

(* Mutant of DrainFails: the failed page is tried again.                   *)
DrainRetries ==
    /\ phase = "catalogs" /\ phase' = "drain"
    /\ UNCHANGED <<DrainRest, names, turn, told, drained>>

(* page.evaluate raised: stop records it and takes the next page.          *)
DrainFails ==
    /\ phase = "catalogs"
    /\ drained' = drained \cup {order[turn]}
    /\ told' = told \cup {order[turn]}
    /\ NextTurn(turn + 1)
    /\ UNCHANGED <<DrainRest, names>>

(* RUNTIME_HOOKS, with the page's id asked for only now.                   *)
WorldRead ==
    /\ phase = "world"
    /\ Name(order[turn])
    /\ drained' = drained \cup {order[turn]}
    /\ told' = told \cup {order[turn]}
    /\ NextTurn(turn + 1)
    /\ UNCHANGED DrainRest

-----------------------------------------------------------------------------
Browser == \E p \in Pages : Appear(p) \/ Navigate(p) \/ PageClosed(p)

Scanner(p) ==
    \/ Loaded(p) \/ Rearmed(p) \/ FramesScanned(p) \/ VisualCaptured(p)
    \/ StorageRead(p) \/ Poll(p) \/ ContentRead(p) \/ CoverFails(p)
    \/ TaskCancelled(p)

Stopping ==
    \/ Sweep \/ Clear
    \/ ProbeDrained \/ FinalStorage \/ CatalogsRead \/ DrainFails \/ WorldRead

Next ==
    \/ Browser
    \/ \E p \in Pages : Scanner(p)
    \/ Stop \/ Stopping
    \/ \E outcome \in {"failed", "interrupted"} : Abort(outcome)

Spec == Init /\ [][Next]_vars

(* The event loop runs what is ready and the browser answers what it was   *)
(* asked; nothing makes a page appear, close or navigate, or the operator  *)
(* stop.                                                                   *)
Fairness ==
    /\ WF_vars(Stopping)
    /\ \A p \in Pages : WF_vars(TaskCancelled(p))

FairSpec == Spec /\ Fairness

-----------------------------------------------------------------------------
(* An id means one page: whatever closes, reopens or is asked for late, no *)
(* two pages are ever given the same id, so that events grouped by id are  *)
(* events of one page (identity.py:7-10).                                  *)
UniqueIds ==
    \A p, q \in Pages : p # q => ids[p] \cap ids[q] = {}

(* A page coverage began on while it was in scope does not go in silence:  *)
(* when it has closed, the log holds a snapshot, a gap or an error about   *)
(* it (the gap of _on_close, camoufox_investigator.py:1741-1752).          *)
CoveredLeavesTrace ==
    \A p \in wasInScope \ late : life[p] = "closed" => p \in told

(* No task goes on scanning a dead page (the class docstring, lines        *)
(* 1635-1636), unless the page appeared once stop had swept the scanners.  *)
DeadPageNotScanned ==
    \A p \in Pages : life[p] = "closed" /\ Running(p) => p \in late

(* While stop extracts the pages, and ever after, the only tasks alive are *)
(* those of pages that appeared since the sweep: no cancelled one is left, *)
(* not even that of a page which closed just before or while stop waited.  *)
ScannersEnded ==
    phase \in Extracting \cup {"stopped"} =>
        \A p \in Pages : Alive(p) => p \in late

(* Every page that stays open and in scope throughout stop has its final   *)
(* state extracted, or the failure recorded, and not only the page the     *)
(* operator started on (lines 1637-1639), whatever other pages do.         *)
StopDrains == phase = "stopped" => held \subseteq drained

(* stop ends, whatever the pages do meanwhile.                             *)
StopEnds == phase = "checkpoint" ~> phase = "stopped"

(* The promise of identity.py:7-9: a page keeps its id for its lifetime.   *)
IdentityStable == \A p \in Pages : Cardinality(ids[p]) <= 1

(* The promise of camoufox_investigator.py:1741-1743: a page that was in   *)
(* scope and closed before its first snapshot is said to have been.        *)
ClosedPageAccounted ==
    \A p \in everIn : life[p] = "closed" => p \in told
=============================================================================
