---------------------------- MODULE ProbeChannel ----------------------------
(***************************************************************************)
(* The in-page probe of one page (probe/probe.js), how the driver installs *)
(* it (camoufox_investigator.py, attach_engine_to_page and _cover_page;    *)
(* probe/__init__.py), and the sensor its batches go to                    *)
(* (sensors/runtime.py).                                                   *)
(*                                                                         *)
(* A document has a probe in the isolated world from the init script, whose*)
(* listeners work on the operator's first page only; every re-arming       *)
(* evaluates the probe once more, with a buffer, a timer and a count of    *)
(* its own.  The probe in the page's own world hands what it sees to every *)
(* listening one.  A batch handed to the binding is in the log: Playwright *)
(* calls the sensor in the order of the calls, and answers a drain after.  *)
(* The log is kept by document and probe; how the batches of several       *)
(* probes lie among each other is left out.                                *)
(***************************************************************************)
EXTENDS Integers, Sequences, FiniteSets, Functions

CONSTANTS
    Clicks,     \* user actions: buffered until the timer, but for a submit
    Calls,      \* network calls and scripted submits: flushed at once
    Changes,    \* DOM mutations: gathered first
    MaxBuffer,  \* CFG.maxBuffer
    MaxDocs,    \* bound of the model: documents the page shows
    MaxProbes,  \* bound of the model: probes in one document
    Navs        \* bound of the model: navigations the driver hears of

Actions == Clicks \cup Calls \cup Changes

ASSUME BoundAssumption ==
    MaxBuffer \in Nat \ {0} /\ MaxDocs \in Nat \ {0} /\ MaxProbes \in Nat \ {0}

VARIABLES
    initial,    \* whether it is the page the operator started on
    doc,        \* the document shown
    bound,      \* whether the binding is there
    probes,     \* the document's isolated probes, in the order they came
    main,       \* the main world's probe: 0 for none, or 1 + its ordinal
    task,       \* the driver's coroutines that install probes
    log,        \* the events the sensor has emitted, of each document's probes
    acted,      \* what has happened on the page
    phase,      \* whether the page has been drained, the end of the model
    abandoned,  \* history: what documents went with, for all the binding
    undrained   \* history: what the drain left in the page, for all the binding

page == <<initial, doc, bound>>
history == <<abandoned, undrained>>
vars == <<page, probes, main, task, log, acted, phase, history>>

Worlds == {"isolated", "main"}
Tasks == {"cover"} \cup Navs
Record == [world : Worlds, ord : Nat, what : SUBSET Actions, drops : Nat]

TypeOK ==
    /\ initial \in BOOLEAN /\ doc \in 1..MaxDocs /\ bound \in BOOLEAN
    /\ DOMAIN probes = 1..Len(probes) /\ Len(probes) \in 1..MaxProbes
    /\ \A i \in DOMAIN probes :
        /\ probes[i].buffer \in Seq(Record) /\ Len(probes[i].buffer) <= MaxBuffer
        /\ probes[i].gathered \subseteq Changes
        /\ {probes[i].dropped, probes[i].ord, probes[i].lost} \subseteq Nat
        /\ {probes[i].timer, probes[i].listens, probes[i].threw} \subseteq BOOLEAN
        /\ probes[i].out = <<>>
    /\ main \in Nat
    /\ task \in [Tasks -> {"none", "main", "rearm", "done"}]
    /\ log \in [1..MaxDocs -> [1..MaxProbes -> Seq(Record)]]
    /\ acted \subseteq Actions /\ abandoned \subseteq Actions /\ undrained \subseteq Actions
    /\ phase \in {"capturing", "drained"}

-----------------------------------------------------------------------------
(* One probe.  What it hands to the binding in a step is put in out.       *)

NewProbe(listens) ==
    [buffer |-> <<>>, gathered |-> {}, dropped |-> 0, ord |-> 0, timer |-> FALSE,
     listens |-> listens, out |-> <<>>, lost |-> 0, threw |-> FALSE]

Made(world, ord, what, drops) ==
    [world |-> world, ord |-> ord, what |-> what, drops |-> drops]

(* The buffer, with the report of the drops before it.                     *)
Batch(p) ==
    IF p.dropped = 0 THEN p.buffer
    ELSE Append(p.buffer, Made("isolated", p.ord + 1, {}, p.dropped))

(* Mutants of Flush: the buffer is kept; the report is not made.           *)
FlushKeeps(p, ok) ==
    IF p.buffer = <<>> \/ ~bound THEN p
    ELSE [p EXCEPT !.dropped = 0, !.ord = @ + (IF p.dropped = 0 THEN 0 ELSE 1),
                   !.out = @ \o Batch(p)]
FlushSilent(p, ok) ==
    IF p.buffer = <<>> \/ ~bound THEN p
    ELSE [p EXCEPT !.buffer = <<>>, !.dropped = 0, !.out = @ \o p.buffer]

(* flush: nothing without a binding.  The binding may throw: the batch,    *)
(* and the report in it, then counts as dropped.                           *)
Flush(p, ok) ==
    IF p.buffer = <<>> \/ ~bound THEN p
    ELSE LET flushed == [p EXCEPT !.buffer = <<>>, !.dropped = 0,
                                  !.ord = @ + (IF p.dropped = 0 THEN 0 ELSE 1)]
         IN  IF ok THEN [flushed EXCEPT !.out = @ \o Batch(p)]
             ELSE [flushed EXCEPT !.dropped = Len(Batch(p)), !.threw = TRUE,
                                  !.lost = @ + Len(p.buffer)]

(* accept: a full buffer counts the drop before room is tried.             *)
Accept(p, record, fast, ok) ==
    LET roomy == IF Len(p.buffer) < MaxBuffer THEN p
                 ELSE Flush([p EXCEPT !.dropped = @ + 1], ok)
        taken == [roomy EXCEPT !.buffer = Append(@, record)]
    IN  IF Len(roomy.buffer) >= MaxBuffer THEN [roomy EXCEPT !.lost = @ + 1]
        ELSE IF Len(taken.buffer) >= MaxBuffer \/ fast THEN Flush(taken, ok)
        ELSE [taken EXCEPT !.timer = TRUE]

Emit(p, what, fast, ok) ==
    Accept([p EXCEPT !.ord = @ + 1], Made("isolated", p.ord + 1, what, 0), fast, ok)

FlushMutations(p, ok) ==
    IF p.gathered = {} THEN p
    ELSE Emit([p EXCEPT !.gathered = {}], p.gathered, FALSE, ok)

(* Mutant of PushOut: what is gathered stays.                              *)
PushOutBuffer(p, ok) == Flush(p, ok)

(* pagehide, beforeunload, and Python's drain.                             *)
PushOut(p, ok) == Flush(FlushMutations(p, ok), ok)

(* The probes of a step's end: the sensor takes what they put out.         *)
Logged(after) ==
    [log EXCEPT ![doc] = [i \in 1..MaxProbes |->
        IF i \in DOMAIN after THEN log[doc][i] \o after[i].out ELSE log[doc][i]]]
Settle(after) == [i \in DOMAIN after |-> [after[i] EXCEPT !.out = <<>>]]
Becomes(after) ==
    /\ probes' = Settle(after)
    /\ log' = Logged(after)
BecomesAt(i, p) == Becomes([probes EXCEPT ![i] = p])

(* Bound of the model: the binding throws once in a document.              *)
Throws == IF \E i \in DOMAIN probes : probes[i].threw THEN {TRUE} ELSE BOOLEAN

(* What probes still hold.                                                 *)
Left(after) ==
    UNION {p.gathered \cup UNION {r.what : r \in Range(p.buffer)} : p \in Range(after)}

-----------------------------------------------------------------------------
Init ==
    /\ initial \in BOOLEAN /\ doc = 1 /\ bound \in BOOLEAN
    /\ probes = <<NewProbe(initial)>> /\ main = 0
    /\ task = [t \in Tasks |-> IF t = "cover" THEN "rearm" ELSE "none"]
    /\ log = [d \in 1..MaxDocs |-> [i \in 1..MaxProbes |-> <<>>]]
    /\ acted = {} /\ phase = "capturing"
    /\ abandoned = {} /\ undrained = {}

(* The binding is exposed to the document.                                 *)
Expose ==
    /\ phase = "capturing" /\ ~bound /\ bound' = TRUE
    /\ UNCHANGED <<initial, doc, probes, main, task, log, acted, phase, history>>

(* The operator acts: every listening probe sees it, and flushes a submit  *)
(* at once.                                                                *)
Click(a) ==
    /\ phase = "capturing" /\ a \in Clicks \ acted /\ acted' = acted \cup {a}
    /\ \E ok \in Throws, submit \in BOOLEAN :
        Becomes([i \in DOMAIN probes |->
            IF probes[i].listens THEN Emit(probes[i], {a}, submit, ok) ELSE probes[i]])
    /\ UNCHANGED <<page, main, task, phase, history>>

(* The application calls what the main world's probe has replaced, which   *)
(* hands its record over the document.                                     *)
Call(a) ==
    /\ phase = "capturing" /\ a \in Calls \ acted /\ acted' = acted \cup {a}
    /\ IF main = 0 THEN UNCHANGED <<probes, log, main>>
       ELSE /\ main' = main + 1
            /\ \E ok \in Throws :
                Becomes([i \in DOMAIN probes |->
                    IF probes[i].listens
                    THEN Accept(probes[i], Made("main", main, {a}, 0), TRUE, ok)
                    ELSE probes[i]])
    /\ UNCHANGED <<page, task, phase, history>>

(* The DOM changes: the mutation waits for its timer.                      *)
Change(a) ==
    /\ phase = "capturing" /\ a \in Changes \ acted /\ acted' = acted \cup {a}
    /\ probes' = [i \in DOMAIN probes |->
            IF probes[i].listens THEN [probes[i] EXCEPT !.gathered = @ \cup {a}]
            ELSE probes[i]]
    /\ UNCHANGED <<page, main, task, log, phase, history>>

MutationTimer(i) ==
    /\ phase = "capturing" /\ i \in DOMAIN probes /\ probes[i].gathered # {}
    /\ \E ok \in Throws : BecomesAt(i, FlushMutations(probes[i], ok))
    /\ UNCHANGED <<page, main, task, acted, phase, history>>

Timer(i) ==
    /\ phase = "capturing" /\ i \in DOMAIN probes /\ probes[i].timer
    /\ \E ok \in Throws :
        BecomesAt(i, Flush([probes[i] EXCEPT !.timer = FALSE], ok))
    /\ UNCHANGED <<page, main, task, acted, phase, history>>

(* The page is hidden: every probe pushes out what it has.                 *)
Hide ==
    /\ phase = "capturing"
    /\ \E ok \in Throws :
        Becomes([i \in DOMAIN probes |-> PushOut(probes[i], ok)])
    /\ UNCHANGED <<page, main, task, acted, phase, history>>

-----------------------------------------------------------------------------
(* The driver.                                                             *)

(* framenavigated starts a coroutine.                                      *)
Heard(t) ==
    /\ t \in Navs /\ task[t] = "none"
    /\ task' = [task EXCEPT ![t] = "main"]

(* A new document: the old one is pushed out first.                        *)
Navigate(t) ==
    /\ phase = "capturing" /\ doc < MaxDocs /\ Heard(t)
    /\ doc' = doc + 1 /\ bound' \in BOOLEAN
    /\ main' = 0 /\ probes' = <<NewProbe(initial)>>
    /\ \E ok \in Throws :
        LET after == [i \in DOMAIN probes |-> PushOut(probes[i], ok)]
        IN  /\ log' = Logged(after)
            /\ abandoned' = abandoned \cup (IF bound THEN Left(after) ELSE {})
    /\ UNCHANGED <<initial, acted, phase, undrained>>

(* pushState or a fragment: the document stays, and the driver hears of a  *)
(* navigation all the same.                                                *)
NavigateWithin(t) ==
    /\ phase = "capturing" /\ Heard(t)
    /\ UNCHANGED <<page, probes, main, log, acted, phase, history>>

(* install_main_world, in whatever document is shown by now; it installs   *)
(* once a document, and may fail.  What follows is for other pages.        *)
InstallMain(t) ==
    /\ task[t] = "main" /\ phase = "capturing"
    /\ main' \in {main, IF main = 0 THEN 1 ELSE main}
    /\ task' = [task EXCEPT ![t] = IF initial THEN "done" ELSE "rearm"]
    /\ UNCHANGED <<page, probes, log, acted, phase, history>>

(* rearm_isolated deletes the flag and evaluates the probe once more: from *)
(* the coroutine of a navigation, and from coverage once the page is       *)
(* loaded.  It may fail.                                                   *)
Rearm(t) ==
    /\ task[t] = "rearm" /\ phase = "capturing"
    /\ (t = "cover" => ~initial)
    /\ task' = [task EXCEPT ![t] = "done"]
    /\ \/ Len(probes) < MaxProbes /\ probes' = Append(probes, NewProbe(TRUE))
       \/ UNCHANGED probes
    /\ UNCHANGED <<page, main, log, acted, phase, history>>

(* RuntimeSensor.drain: the drain function of the page belongs to the last *)
(* probe that was installed.                                               *)
Drain ==
    /\ phase = "capturing" /\ phase' = "drained"
    /\ \E ok \in Throws :
        LET i == Len(probes)
            after == [probes EXCEPT ![i] = PushOut(probes[i], ok)]
        IN  /\ Becomes(after)
            /\ undrained' = IF bound THEN Left(after) ELSE {}
    /\ UNCHANGED <<page, main, task, acted, abandoned>>

Observe == \E a \in Actions : Click(a) \/ Call(a) \/ Change(a)
Timers == \E i \in 1..MaxProbes : Timer(i) \/ MutationTimer(i)
Install == \E t \in Tasks : Navigate(t) \/ NavigateWithin(t) \/ InstallMain(t) \/ Rearm(t)

Next == Expose \/ Hide \/ Observe \/ Timers \/ Install \/ Drain

Spec == Init /\ [][Next]_vars

-----------------------------------------------------------------------------
(* What one probe carried of one world arrives once, and in the order of   *)
(* its ordinals, whatever overflowed or threw before, so that a gap in the *)
(* ordinals is something that was lost (probe.js:160-164).  The report of  *)
(* drops may overtake the record that made room for it, which was numbered *)
(* before (probe.js:138-142).                                              *)
RecordsInOrder ==
    \A d \in 1..MaxDocs, via \in 1..MaxProbes : \A i, j \in DOMAIN log[d][via] :
        LET x == log[d][via][i]
            y == log[d][via][j]
        IN  i < j /\ x.world = y.world => x.ord < y.ord \/ (x.drops > 0 /\ x.ord = y.ord + 1)

(* The drops that records report.                                          *)
Reported(records) ==
    LET sum[k \in 0..Len(records)] == IF k = 0 THEN 0 ELSE sum[k - 1] + records[k].drops
    IN  sum[Len(records)]

(* The drops of a probe are reported or are still to be, while its         *)
(* document lives: all of them as long as the binding never threw, and     *)
(* some of them otherwise (probe.js:91-98 and 106-109).                    *)
LossReported ==
    \A i \in DOMAIN probes :
        LET told == probes[i].dropped + Reported(log[doc][i])
        IN  IF probes[i].threw THEN probes[i].lost > 0 => told > 0
            ELSE told >= probes[i].lost

(* Everything observed before a navigation is pushed out before the        *)
(* document is torn down, the mutations still being gathered included      *)
(* (probe.js:1142-1143), and a drain leaves nothing in the first page      *)
(* (probe.js:1158), if there is a binding to take it.                      *)
NothingLeft == abandoned = {} /\ (initial => undrained = {})

RecordedTwice(a) ==
    \E d \in 1..MaxDocs, v, w \in 1..MaxProbes :
        \E i \in DOMAIN log[d][v], j \in DOMAIN log[d][w] :
            <<v, i>> # <<w, j>> /\ a \in log[d][v][i].what \cap log[d][w][j].what

(* The promise of probe/__init__.py:50-52 for every page: exactly one      *)
(* probe attaches per document, no duplicate observers accumulate.         *)
ActionOnce == \A a \in Actions : ~RecordedTwice(a)
=============================================================================
