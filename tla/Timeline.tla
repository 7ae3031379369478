------------------------------ MODULE Timeline ------------------------------
(***************************************************************************)
(* How what happens in a session becomes the log the analysis reads.       *)
(*                                                                         *)
(* The probe of a page numbers what it sees, each JavaScript world for     *)
(* itself, reads the page's clock, and holds its records until a timer, a  *)
(* record that cannot wait or the end of the document sends them.  The     *)
(* driver's handlers log at once, or after waiting for the browser, in any *)
(* order.  An event takes its place and its wall clock (seq, t_wall) when  *)
(* it is logged, whatever happened in between.                             *)
(*                                                                         *)
(* A page has one frame, and time passes only between happenings.          *)
(***************************************************************************)
EXTENDS Integers, Sequences, FiniteSets

CONSTANTS
    Sessions,       \* the kinds of sessions: [acts, lapses, length, before] for each
    Pages,
    FlushInterval   \* flushIntervalMs

Worlds == {"isolated", "main"}

(* What the writer and the probe fill in, or tell an event's origin by.    *)
Fields == {"source", "seq", "wall", "page", "turn", "moment", "doc", "world", "ordinal"}
Complete(e) == Fields \subseteq DOMAIN e

(* Only what a world of a probe observes has the source "runtime", and what*)
(* was logged before the clock starts is in its place.                     *)
Regular(s) ==
    /\ s.lapses \subseteq Nat
    /\ \A a \in s.acts : /\ a.page \in Pages /\ Complete(a.event)
                         /\ a.event.source = "runtime" <=> a.channel \in Worlds
    /\ s.before \in Seq({s.before[i] : i \in DOMAIN s.before})
    /\ \A i \in DOMAIN s.before :
          /\ Complete(s.before[i]) /\ s.before[i].source # "runtime"
          /\ s.before[i].seq = i /\ s.before[i].wall = 0

(* What the events of a session can say.                                   *)
Sayings(s) == {a.event : a \in s.acts} \cup {s.before[i] : i \in DOMAIN s.before}

ASSUME FlushAssumption == FlushInterval \in Nat
ASSUME SessionAssumption == \A k \in DOMAIN Sessions : Regular(Sessions[k])

VARIABLES
    session,    \* the kind of the session that is watched
    now,        \* the wall clock
    turn,       \* how much has happened
    doc,        \* the document each page shows (its time origin)
    counted,    \* the ordinals each world of each page's probe has given
    held,       \* the records each page's probe has not sent
    due,        \* when its timer sends them
    waiting,    \* the events whose handlers have not ended
    log         \* the events of the session, in the order of their seq

vars == <<session, now, turn, doc, counted, held, due, waiting, log>>

FastTypes == {"runtime_fetch", "runtime_xhr", "runtime_form_submit", "user_submit"}

(* An act is [channel, page, event]: the world that observes it, or how the*)
(* driver learns of it ("driver" at once, "handler" after a wait, "load"   *)
(* for a new document), and what the event says.                           *)
Init ==
    /\ session \in DOMAIN Sessions
    /\ now = 0 /\ turn = 0
    /\ doc = [p \in Pages |-> 1]
    /\ counted = [p \in Pages |-> [w \in Worlds |-> 0]]
    /\ held = [p \in Pages |-> <<>>]
    /\ due = [p \in Pages |-> 0]
    /\ waiting = {}
    /\ log = Sessions[session].before

Stamp(e, position, time) == [e EXCEPT !.seq = position, !.wall = time]

(* What is logged together is logged in order, at one time.                *)
Logged(events, time) ==
    log \o [i \in 1..Len(events) |-> Stamp(events[i], Len(log) + i, time)]

Happened(a, time) == [a.event EXCEPT !.page = a.page, !.turn = turn + 1, !.moment = time]

(* Time goes on by d to the next thing that happens, unless a timer is due *)
(* before.                                                                 *)
Passes(d) ==
    /\ turn < Sessions[session].length
    /\ \A p \in Pages : held[p] # <<>> => now + d <= due[p]
    /\ now' = now + d
    /\ turn' = turn + 1
    /\ UNCHANGED session

Recorded(a, time) ==
    [Happened(a, time) EXCEPT !.doc = doc[a.page], !.world = a.channel,
                              !.ordinal = counted[a.page][a.channel] + 1]

(* A world of the probe observes something: it is sent at once with all    *)
(* that is held, or held for at most the interval.                         *)
Observe(a, d) ==
    LET p == a.page
        records == Append(held[p], Recorded(a, now + d))
    IN  /\ a.channel \in Worlds
        /\ Passes(d)
        /\ counted' = [counted EXCEPT ![p][a.channel] = @ + 1]
        /\ \/ /\ a.event.type \in FastTypes
              /\ log' = Logged(records, now + d)
              /\ held' = [held EXCEPT ![p] = <<>>]
              /\ UNCHANGED due
           \/ /\ a.event.type \notin FastTypes
              /\ held' = [held EXCEPT ![p] = records]
              /\ due' = [due EXCEPT ![p] = IF held[p] = <<>> THEN now + d + FlushInterval ELSE @]
              /\ UNCHANGED log
        /\ UNCHANGED <<doc, waiting>>

(* The driver tells of something: a route, a scan, a gap.                  *)
Tell(a, d) ==
    /\ a.channel = "driver"
    /\ Passes(d)
    /\ log' = Logged(<<[Happened(a, now + d) EXCEPT !.doc = doc[a.page]]>>, now + d)
    /\ UNCHANGED <<doc, counted, held, due, waiting>>

(* The driver tells of a request or a response, whose handler waits.       *)
Ask(a, d) ==
    /\ a.channel = "handler"
    /\ Passes(d)
    /\ waiting' = waiting \cup {Happened(a, now + d)}
    /\ UNCHANGED <<doc, counted, held, due, log>>

(* A page loads another document: the old one sends what it holds, and the *)
(* probe of the new one counts anew.                                       *)
Load(a, d) ==
    /\ a.channel = "load"
    /\ Passes(d)
    /\ log' = Logged(held[a.page] \o <<Happened(a, now + d)>>, now + d)
    /\ held' = [held EXCEPT ![a.page] = <<>>]
    /\ doc' = [doc EXCEPT ![a.page] = @ + 1]
    /\ counted' = [counted EXCEPT ![a.page] = [w \in Worlds |-> 0]]
    /\ UNCHANGED <<due, waiting>>

Timer(p) ==
    /\ held[p] # <<>>
    /\ \A q \in Pages : held[q] # <<>> => due[p] <= due[q]
    /\ now' = IF now < due[p] THEN due[p] ELSE now
    /\ log' = Logged(held[p], now')
    /\ held' = [held EXCEPT ![p] = <<>>]
    /\ UNCHANGED <<session, turn, doc, counted, due, waiting>>

(* A handler ends, whichever began first.                                  *)
Finish(e) ==
    /\ waiting' = waiting \ {e}
    /\ log' = Logged(<<e>>, now)
    /\ UNCHANGED <<session, now, turn, doc, counted, held, due>>

Next ==
    \/ \E a \in Sessions[session].acts, d \in Sessions[session].lapses :
           Observe(a, d) \/ Tell(a, d) \/ Ask(a, d) \/ Load(a, d)
    \/ \E p \in Pages : Timer(p)
    \/ \E e \in waiting : Finish(e)

Spec == Init /\ [][Next]_vars
=============================================================================
