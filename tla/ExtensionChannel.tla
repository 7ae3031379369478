-------------------------- MODULE ExtensionChannel --------------------------
(***************************************************************************)
(* The forensic layer: the extension's background page (background.js)     *)
(* batches what it observes and sends it over a loopback WebSocket; the    *)
(* transport (extension/transport.py) gives every connection a thread,     *)
(* which hands each batch to the sensor (sensors/extension.py), which puts *)
(* bodies into the blob store and emits one event a record; the engine     *)
(* (camoufox_investigator.py) tears it all down when the browser is gone.  *)
(*                                                                         *)
(* The background page has one socket at a time, the last one it opened;   *)
(* the server may still be reading an earlier one.                         *)
(***************************************************************************)
EXTENDS BlobStore, Integers, Sequences, FiniteSets

CONSTANTS
    MaxBuffer,      \* CFG.maxBuffer
    MaxSockets,     \* bound of the model: how often connect is called
    MaxObserved,    \* bound of the model: how much there is to observe
    MaxFailures,    \* bound of the model: how many handlers' sends raise
    Observable      \* the kinds of records the page's listeners make

Sockets == 1..MaxSockets

ASSUME BufferAssumption == MaxBuffer \in Nat \ {0, 1}
ASSUME SocketAssumption == MaxSockets \in Nat \ {0} /\ Writers = Sockets
ASSUME ObservableAssumption == Observable \subseteq {"plain", "body"}

VARIABLES
    page,       \* the background page: buffer, dropped, ordinal, timer
    connected,  \* its connected flag
    opened,     \* how often it has called connect
    observed,   \* how much it has observed
    socket,     \* readyState of each socket
    wire,       \* the batches sent on each and not read yet
    thread,     \* the transport's thread for each connection
    todo,       \* the records of the batch it is ingesting
    connections,\* _connections
    started,    \* ExtensionSensor.started
    phase,      \* how far the engine has come
    log,        \* the events in the log from each connection, and, under 0,
                \*   from the engine, in order
    last,       \* the sender of the last event in the log
    tally       \* history: records lost by the page, drops reported,
                \*   sends that raised, times a socket opened

pageVars == <<page, connected, opened, observed, tally>>
serverVars == <<thread, todo, connections, started, blobVars>>
logVars == <<log, last>>
vars == <<pageVars, socket, wire, serverVars, phase, logVars>>

Kinds == {"started", "plain", "body", "overflow"}
MaxOrdinal == MaxObserved + 3 * MaxSockets
Record == [id : 1..MaxOrdinal, kind : Kinds, dropped : Nat]
Phases == {"capture", "exited", "reported", "checked", "stopped", "ended", "closed"}
Senders == Sockets \cup {0}
Entry == [kind : Kinds \cup {"error", "sensorStopped", "neverConnected", "sessionEnd"},
          id : 0..MaxOrdinal]

TypeOK ==
    /\ page.buffer \in Seq(Record) /\ Len(page.buffer) <= MaxBuffer
    /\ page.dropped \in Nat /\ page.ordinal \in 0..MaxOrdinal
    /\ page.timer \in BOOLEAN /\ page.sent = <<>>
    /\ connected \in BOOLEAN
    /\ opened \in Sockets /\ observed \in 0..MaxObserved
    /\ socket \in [Sockets -> {"none", "connecting", "open", "closing", "closed"}]
    /\ wire \in [Sockets -> Seq(Seq(Record))]
    /\ thread \in [Sockets -> {"none", "handshake", "reading", "ingesting", "ended"}]
    /\ todo \in [Sockets -> Seq(Record)]
    /\ connections \subseteq Sockets /\ started \in BOOLEAN
    /\ phase \in Phases
    /\ log \in [Senders -> Seq(Entry)] /\ last \in Senders
    /\ tally \in [lost : Nat, reported : Nat, failures : 0..MaxFailures, opens : 0..MaxSockets]
    /\ BlobTypeOK

NoPage == [buffer |-> <<>>, dropped |-> 0, ordinal |-> 0, timer |-> FALSE, sent |-> <<>>]
NoTally == [lost |-> 0, reported |-> 0, failures |-> 0, opens |-> 0]

Init ==
    /\ page = NoPage /\ tally = NoTally
    /\ connected = FALSE /\ opened = 1 /\ observed = 0
    /\ socket = [s \in Sockets |-> IF s = 1 THEN "connecting" ELSE "none"]
    /\ wire = [s \in Sockets |-> <<>>]
    /\ thread = [s \in Sockets |-> "none"]
    /\ todo = [s \in Sockets |-> <<>>]
    /\ connections = {} /\ started = FALSE
    /\ phase = "capture" /\ log = [s \in Senders |-> <<>>] /\ last = 0
    /\ BlobInit

-----------------------------------------------------------------------------
(* emit and flush are called several times by one handler of the page, so  *)
(* they are functions from what it holds, [page |-> ..., tally |-> ...],   *)
(* to what it holds then; page.sent collects what goes to the socket.      *)
(* "can" says whether flush finds a socket to send on and "throws" whether *)
(* send (or the JSON of a batch too long for a string) raises.             *)

Rec(ordinal, kind, dropped) == [id |-> ordinal, kind |-> kind, dropped |-> dropped]

Report(p) ==
    IF p.dropped = 0 THEN <<>> ELSE <<Rec(p.ordinal + 1, "overflow", p.dropped)>>

(* Mutants of Flush: the buffer is not emptied; the drops are forgotten    *)
(* whether or not they are reported.                                       *)
FlushKeepsBuffer(h, can, throws) ==
    LET p == h.page
        batch == p.buffer \o Report(p)
    IN  IF ~can \/ p.buffer = <<>> THEN h
        ELSE [h EXCEPT !.page.dropped = 0, !.page.ordinal = @ + Len(Report(p)),
                       !.page.sent = Append(@, batch),
                       !.tally.reported = @ + p.dropped]
FlushForgetsDrops(h, can, throws) ==
    LET p == h.page
    IN  IF ~can \/ p.buffer = <<>> THEN h
        ELSE [h EXCEPT !.page.buffer = <<>>, !.page.dropped = 0,
                       !.page.sent = Append(@, p.buffer)]

(* flush: the buffer goes out as one batch, with a report of the drops.    *)
(* When send raises, the batch is added to the drops; the report that was  *)
(* in it is lost, and with it the number of the drops before.              *)
Flush(h, can, throws) ==
    LET p == h.page
        batch == p.buffer \o Report(p)
        out == [p EXCEPT !.buffer = <<>>, !.ordinal = @ + Len(Report(p))]
    IN  IF ~can \/ p.buffer = <<>> THEN h
        ELSE IF throws THEN
            [page |-> [out EXCEPT !.dropped = Len(batch)],
             tally |-> [h.tally EXCEPT !.lost = @ + Len(p.buffer), !.failures = @ + 1]]
        ELSE
            [page |-> [out EXCEPT !.dropped = 0, !.sent = Append(@, batch)],
             tally |-> [h.tally EXCEPT !.reported = @ + p.dropped]]

Push(h, kind) ==
    LET p == h.page
    IN  [h EXCEPT !.page = [p EXCEPT !.ordinal = @ + 1,
                                     !.buffer = Append(@, Rec(p.ordinal + 1, kind, 0))]]

Full(h) == Len(h.page.buffer) >= MaxBuffer

(* Mutant of Pushed: no timer is set once the socket has opened.           *)
PushedNoTimer(h, can, throws) ==
    IF Full(h) THEN Flush(h, can, throws) ELSE [h EXCEPT !.page.timer = @ \/ ~can]

(* Pushed: emit once there is room; a full buffer is flushed, and anything *)
(* else by the timer.                                                      *)
Pushed(h, can, throws) ==
    IF Full(h) THEN Flush(h, can, throws) ELSE [h EXCEPT !.page.timer = TRUE]

(* emit: on a full buffer the record is counted as dropped before a flush  *)
(* is tried, and is dropped only if that made no room.                     *)
Emit(h, kind, can, throws) ==
    LET room == IF Full(h) THEN Flush([h EXCEPT !.page.dropped = @ + 1], can, throws) ELSE h
    IN  IF Full(room) THEN [room EXCEPT !.tally.lost = @ + 1]
        ELSE Pushed(Push(room, kind), can, throws)

Here == [page |-> page, tally |-> tally]

(* A handler of the page ends holding h.                                   *)
Becomes(h) ==
    /\ h.tally.failures <= MaxFailures
    /\ page' = [h.page EXCEPT !.sent = <<>>]
    /\ tally' = h.tally
    /\ wire' = [wire EXCEPT ![opened] = @ \o h.page.sent]

CanSend == connected /\ socket[opened] = "open"

-----------------------------------------------------------------------------
(* Browser.                                                                *)

(* A listener sees something and emits it.                                 *)
Observe(kind, throws) ==
    /\ phase = "capture" /\ observed < MaxObserved
    /\ observed' = observed + 1
    /\ Becomes(Emit(Here, kind, CanSend, throws))
    /\ UNCHANGED <<connected, opened, socket, serverVars, phase, logVars>>

(* The flush timer fires.                                                  *)
Tick(throws) ==
    /\ phase = "capture" /\ page.timer
    /\ Becomes(Flush([Here EXCEPT !.page.timer = FALSE], CanSend, throws))
    /\ UNCHANGED <<connected, opened, observed, socket, serverVars, phase, logVars>>

(* onopen, once the server has answered the upgrade: a started record is   *)
(* emitted and everything flushed.                                         *)
Open(throws) ==
    /\ phase = "capture"
    /\ socket[opened] = "connecting"
    /\ thread[opened] \notin {"none", "handshake"}
    /\ socket' = [socket EXCEPT ![opened] = "open"]
    /\ connected' = TRUE
    /\ LET h == [Here EXCEPT !.tally.opens = @ + 1]
       IN  Becomes(Flush(Emit(h, "started", TRUE, throws), TRUE, throws))
    /\ UNCHANGED <<opened, observed, serverVars, phase, logVars>>

(* What was sent on socket s and has not arrived when it breaks is lost:   *)
(* any of the last batches.                                                *)
LoseSome(s) ==
    \E n \in 0..Len(wire[s]) : wire' = [wire EXCEPT ![s] = SubSeq(@, 1, n)]

(* The socket breaks; its readyState changes before onclose runs.          *)
Break ==
    /\ phase = "capture"
    /\ socket[opened] \in {"connecting", "open"}
    /\ socket' = [socket EXCEPT ![opened] = "closing"]
    /\ LoseSome(opened)
    /\ UNCHANGED <<pageVars, serverVars, phase, logVars>>

(* onclose.                                                                *)
Closed ==
    /\ phase = "capture"
    /\ socket[opened] = "closing"
    /\ socket' = [socket EXCEPT ![opened] = "closed"]
    /\ connected' = FALSE
    /\ UNCHANGED <<page, opened, observed, tally, wire, serverVars, phase, logVars>>

(* Half a second after onclose: connect.                                   *)
Reconnect ==
    /\ phase = "capture"
    /\ socket[opened] = "closed" /\ opened < MaxSockets
    /\ opened' = opened + 1
    /\ socket' = [socket EXCEPT ![opened + 1] = "connecting"]
    /\ UNCHANGED <<page, connected, observed, tally, wire, serverVars, phase, logVars>>

-----------------------------------------------------------------------------
(* Transport and sensor.                                                   *)

Stopped == phase \in {"stopped", "ended", "closed"}

(* EventLog.emit; nothing is written once the log is closed.               *)
LogOne(kind, id, s) ==
    IF phase = "closed" THEN UNCHANGED logVars
    ELSE /\ log' = [log EXCEPT ![s] = Append(@, [kind |-> kind, id |-> id])]
         /\ last' = s

(* The accept thread registers a connection and starts its thread.         *)
Accept(s) ==
    /\ ~Stopped /\ thread[s] = "none" /\ socket[s] # "none"
    /\ thread' = [thread EXCEPT ![s] = "handshake"]
    /\ connections' = connections \cup {s}
    /\ UNCHANGED <<pageVars, socket, wire, todo, started, blobVars, phase, logVars>>

Handshake(s) ==
    /\ ~Stopped /\ thread[s] = "handshake"
    /\ thread' = [thread EXCEPT ![s] = "reading"]
    /\ UNCHANGED <<pageVars, socket, wire, todo, connections, started, blobVars, phase, logVars>>

(* A message is read and its batch handed to on_batch.                     *)
ReadBatch(s) ==
    /\ ~Stopped /\ thread[s] = "reading" /\ wire[s] # <<>>
    /\ todo' = [todo EXCEPT ![s] = Head(wire[s])]
    /\ wire' = [wire EXCEPT ![s] = Tail(@)]
    /\ thread' = [thread EXCEPT ![s] = "ingesting"]
    /\ UNCHANGED <<pageVars, socket, connections, started, blobVars, phase, logVars>>

(* The first record of the batch becomes an event of the kind given, and   *)
(* with the last one on_batch returns.                                     *)
RecordDone(s, kind) ==
    /\ LogOne(kind, Head(todo[s]).id, s)
    /\ todo' = [todo EXCEPT ![s] = Tail(@)]
    /\ thread' = [thread EXCEPT ![s] = IF Len(todo[s]) = 1 THEN "reading" ELSE @]

Ingesting(s) == thread[s] = "ingesting" /\ todo[s] # <<>>

(* A record that carries no bytes, or bytes over the size limit.           *)
IngestPlain(s) ==
    /\ Ingesting(s) /\ Head(todo[s]).kind # "body"
    /\ RecordDone(s, Head(todo[s]).kind)
    /\ started' = (started \/ Head(todo[s]).kind = "started")
    /\ UNCHANGED <<pageVars, socket, wire, connections, blobVars, phase>>

(* _store_body and _store_script put the bytes first.                      *)
StoreBody(s) ==
    /\ Ingesting(s) /\ Head(todo[s]).kind = "body"
    /\ PutCheck(s) \/ PutPlace(s) \/ PutFail(s)
    /\ UNCHANGED <<pageVars, socket, wire, thread, todo, connections, started, phase, logVars>>

(* ... and then the event refers to the blob; or put raised, and on_batch  *)
(* reports a sensor error in place of the record.                          *)
IngestBody(s) ==
    /\ Ingesting(s) /\ PutReturn(s)
    /\ RecordDone(s, IF putting[s] = "stored" THEN "body" ELSE "error")
    /\ UNCHANGED <<pageVars, socket, wire, connections, started, phase>>

(* The connection's end: end of file, or the transport was stopped.  A     *)
(* thread that is in on_batch gets here only after the whole batch.        *)
End(s) ==
    /\ thread[s] \in {"handshake", "reading"}
    /\ Stopped \/ (wire[s] = <<>> /\ socket[s] \in {"closing", "closed"})
    /\ thread' = [thread EXCEPT ![s] = "ended"]
    /\ connections' = connections \ {s}
    /\ UNCHANGED <<pageVars, socket, wire, todo, started, blobVars, phase, logVars>>

Thread(s) ==
    Accept(s) \/ Handshake(s) \/ ReadBatch(s) \/ IngestPlain(s) \/ StoreBody(s)
    \/ IngestBody(s) \/ End(s)

-----------------------------------------------------------------------------
(* The engine's main thread.                                               *)

Goes(from, to) == phase = from /\ phase' = to

(* The browser is closed, and with it the page, what it held and its       *)
(* socket.                                                                 *)
BrowserExit ==
    /\ Goes("capture", "exited")
    /\ page' = NoPage /\ connected' = FALSE /\ observed' = 0
    /\ tally' = [NoTally EXCEPT !.failures = tally.failures]
    /\ socket' = [socket EXCEPT ![opened] = "closed"]
    /\ LoseSome(opened)
    /\ UNCHANGED <<opened, serverVars, logVars>>

(* stop_forensic_layer: the sensor is reported as stopped,                 *)
ReportStopped ==
    /\ Goes("exited", "reported")
    /\ LogOne("sensorStopped", 0, 0)
    /\ UNCHANGED <<pageVars, socket, wire, serverVars>>

(* ... the gap is emitted if no connection is there and none ever was,     *)
CheckConnected ==
    /\ Goes("reported", "checked")
    /\ IF connections = {} /\ ~started THEN LogOne("neverConnected", 0, 0) ELSE UNCHANGED logVars
    /\ UNCHANGED <<pageVars, socket, wire, serverVars>>

(* ... and ExtensionTransport.stop closes every connection.  It joins the  *)
(* accept thread, not the threads of the connections.                      *)
StopTransport ==
    /\ Goes("checked", "stopped")
    /\ wire' = [s \in Sockets |-> <<>>]
    /\ connections' = {}
    /\ UNCHANGED <<pageVars, socket, thread, todo, started, blobVars, logVars>>

(* close_events: the end of the session is emitted and the log closed.     *)
EndSession ==
    /\ Goes("stopped", "ended")
    /\ LogOne("sessionEnd", 0, 0)
    /\ UNCHANGED <<pageVars, socket, wire, serverVars>>
CloseLog ==
    /\ Goes("ended", "closed")
    /\ UNCHANGED <<pageVars, socket, wire, serverVars, logVars>>

Teardown == ReportStopped \/ CheckConnected \/ StopTransport \/ EndSession \/ CloseLog

Next ==
    \/ \E throws \in BOOLEAN :
        \/ \E kind \in Observable : Observe(kind, throws)
        \/ Tick(throws) \/ Open(throws)
    \/ Break \/ Closed \/ Reconnect \/ BrowserExit
    \/ \E s \in Sockets : Thread(s)
    \/ Teardown

Spec == Init /\ [][Next]_vars

(* Timers fire, the browser tells the page of its sockets, and the threads *)
(* run.  Nothing is promised of what there is to observe, of sockets       *)
(* breaking, or of when the browser is closed.                             *)
FairSpec ==
    /\ Spec
    /\ WF_vars(\E throws \in BOOLEAN : Tick(throws))
    /\ WF_vars(\E throws \in BOOLEAN : Open(throws))
    /\ WF_vars(Closed) /\ WF_vars(Reconnect)
    /\ \A s \in Sockets : WF_vars(Thread(s))

-----------------------------------------------------------------------------
Ids(s) == {log[s][i].id : i \in DOMAIN log[s]}

(* Whatever breaks, and whenever the transport is stopped: what reaches    *)
(* the log from one connection keeps the page's order and, as long as no   *)
(* send raised, has no hole in its ordinals; and no record is in the log   *)
(* twice.  A reader can tell what is missing from the ordinals.            *)
LoggedInSequence ==
    /\ \A s \in Sockets : \A i \in 1..Len(log[s]) - 1 :
        /\ log[s][i].id < log[s][i + 1].id
        /\ tally.failures = 0 => log[s][i + 1].id = log[s][i].id + 1
    /\ \A s, t \in Sockets : s # t => Ids(s) \cap Ids(t) = {}

(* What the page drops for want of room is counted or has been reported;   *)
(* the count exceeds the loss by at most one for each time a socket opened *)
(* on a full buffer (emit counts before it tries to make room).  If a send *)
(* raised the count may be short, but a loss never passes unnoticed.       *)
DropsCovered ==
    LET counted == page.dropped + tally.reported
    IN  /\ tally.failures = 0 => counted \in tally.lost..(tally.lost + tally.opens)
        /\ tally.lost > 0 => counted > 0

(* An event that refers to a blob is written only when the whole blob is   *)
(* on disk, with two connections' threads putting the same bytes; every    *)
(* state is one the process may be killed in.                              *)
BlobBehindRef ==
    (\E s \in Sockets : \E i \in DOMAIN log[s] : log[s][i].kind = "body") => blob = "whole"

(* What the page has buffered goes out, over the next socket if this one   *)
(* breaks, unless the browser is closed or no further socket is opened:    *)
(* however observing, opening and breaking interleave with the timer,      *)
(* nothing is left in the buffer with no flush to come.                    *)
BufferDrains ==
    page.buffer # <<>> ~>
        \/ page.buffer = <<>>
        \/ phase # "capture"
        \/ opened = MaxSockets /\ socket[opened] \in {"closing", "closed"}

(* What a test of the full capture asserts (tests/test_full_capture_e2e.py *)
(* line 123): SESSION_END is the last event of the log.                    *)
SessionEndLast ==
    phase = "closed" => last = 0
=============================================================================
