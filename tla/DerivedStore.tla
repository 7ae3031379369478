---------------------------- MODULE DerivedStore ----------------------------
(***************************************************************************)
(* The derived store session.sqlite and the event log it points into: a    *)
(* capture appends to the log, `scriptscrap analyze` processes (cli.py,    *)
(* pipeline.py, store.py) read it, fingerprint it and write runs, and      *)
(* readers of the evidence index (events_index.py) look events up, check   *)
(* the fingerprint and read payloads by byte offset.                       *)
(*                                                                         *)
(* A line of the log is the id of the event it holds, or Bad.  The log's   *)
(* size is counted in half lines: an odd size is a log that ends in the    *)
(* middle of a line.  The log only grows, so that two sizes stand for two  *)
(* contents and a digest is the size it was computed at.                   *)
(*                                                                         *)
(* A file at the store's path is one generation; unlinking it leaves the   *)
(* open connections on the old one.  Its table of runs is a set of rows;   *)
(* an id is never given twice (AUTOINCREMENT), so ids are also the order   *)
(* in which the runs were written.                                         *)
(***************************************************************************)
EXTENDS EventPages

CONSTANTS
    Analyzers,  \* processes that run analyze once
    Readers,    \* EventStore instances
    Ids,        \* event ids, which are positive integers
    Bad,        \* a line that is not an event
    Logs,       \* what the capture may come to write
    Rebuilders, \* the analyzers called with --rebuild
    MaxFiles,   \* bound of the model: generations of the file
    MaxAsks     \* bound of the model: how much one reader asks

ASSUME IdAssumption == Ids \subseteq Nat \ {0} /\ Bad \notin Ids
ASSUME LogAssumption == Logs \subseteq Seq(Ids \cup {Bad})
ASSUME RebuildAssumption == Rebuilders \subseteq Analyzers /\ 0 \notin Analyzers
ASSUME BoundAssumption == MaxFiles \in Nat \ {0} /\ MaxAsks \in Nat

VARIABLES
    lines,      \* the lines the capture will have written
    size,       \* how much of them is in the log
    files,      \* each generation of the store
    current,    \* the generation at the store's path, 0 for no file
    made,       \* how many generations there have been
    analyzer,   \* each analyze process
    reader      \* each reader

vars == <<lines, size, files, current, made, analyzer, reader>>

Generations == 1..MaxFiles
Schemas == {"older", "current", "newer"}
Row == [line : Nat, id : Ids]
Run == [id : Nat, session : {"known", "unknown"}, version : {"older", "current"},
        read : Nat, size : Nat, digest : Nat, rows : SUBSET Row, whole : BOOLEAN]

NoRun == [id |-> 0, session |-> "known", version |-> "current", read |-> 0, size |-> 0,
          digest |-> 0, rows |-> {}, whole |-> FALSE]
OldRun == [NoRun EXCEPT !.id = 1, !.version = "older", !.whole = TRUE]

TypeOK ==
    /\ lines \in Logs /\ size \in 0..(2 * Len(lines))
    /\ \A g \in Generations :
        /\ files[g].schema \in Schemas
        /\ files[g].runs \subseteq Run /\ files[g].last \in Nat
        /\ files[g].writer \in Analyzers \cup {0}
    /\ current \in 0..made /\ made \in 0..MaxFiles
    /\ \A a \in Analyzers :
        /\ analyzer[a].pc \in {"start", "read", "sized", "result", "outdated", "connect",
                               "open", "writing", "done", "failed"}
        /\ analyzer[a].file \in 0..made
        /\ analyzer[a].pc \in {"open", "writing"} => analyzer[a].file # 0
    /\ \A r \in Readers :
        /\ reader[r].pc \in {"start", "idle", "found", "missing", "failed"}
        /\ reader[r].run \in Run /\ reader[r].file \in 0..made
        /\ reader[r].asks \in 0..MaxAsks

NewFile == [schema |-> "current", runs |-> {}, last |-> 0, writer |-> 0]
OldFile(schema) == [schema |-> schema, runs |-> {OldRun}, last |-> OldRun.id, writer |-> 0]
Blank == [pc |-> "start", read |-> 0, size |-> 0, digest |-> 0, file |-> 0]
Fresh == [pc |-> "start", file |-> 0, run |-> NoRun, verified |-> FALSE, asks |-> 0,
          id |-> 0, line |-> 0, asked |-> 0, first |-> FALSE, answer |-> "none"]

(* The store may be absent, current with a run of an older analysis, of an *)
(* older schema, or of a newer one.                                        *)
Init ==
    /\ lines \in Logs /\ size = 0
    /\ \/ made = 0 /\ files = [g \in Generations |-> NewFile]
       \/ /\ made = 1
          /\ \E schema \in Schemas :
                files = [g \in Generations |-> IF g = 1 THEN OldFile(schema) ELSE NewFile]
    /\ current = made
    /\ analyzer = [a \in Analyzers |-> Blank]
    /\ reader = [r \in Readers |-> Fresh]

(* The capture writes half a line more.                                    *)
Capture ==
    /\ size < 2 * Len(lines)
    /\ size' = size + 1
    /\ UNCHANGED <<lines, files, current, made, analyzer, reader>>

-----------------------------------------------------------------------------
(* EventLogReader: the complete lines that hold events, and where they     *)
(* are.                                                                    *)

(* Mutant of Located: an event's place is its number among the events.     *)
LocatedAmongEvents(log, n) ==
    {[line |-> Cardinality({j \in 1..i : log[j] # Bad}), id |-> log[i]] :
        i \in {k \in 1..n : log[k] # Bad}}

(* The rows of the evidence index over the first n lines of a log.         *)
Located(log, n) == {[line |-> i, id |-> log[i]] : i \in {k \in 1..n : log[k] # Bad}}

EventIds(log, n) == {log[i] : i \in 1..n} \ {Bad}
Repeats(log, n) == \E i, j \in 1..n : i # j /\ log[i] = log[j] /\ log[i] # Bad

Step(a, pc) == analyzer' = [analyzer EXCEPT ![a].pc = pc]
Stop(a, pc) == analyzer' = [analyzer EXCEPT ![a] = [Blank EXCEPT !.pc = pc]]

(* analyze_log reads the log, ...                                          *)
ReadLog(a) ==
    /\ analyzer[a].pc = "start"
    /\ analyzer' = [analyzer EXCEPT ![a].pc = "read", ![a].read = size \div 2]
    /\ UNCHANGED <<lines, size, files, current, made, reader>>

(* ... later takes its size, ...                                           *)
StatLog(a) ==
    /\ analyzer[a].pc = "read"
    /\ analyzer' = [analyzer EXCEPT ![a].pc = "sized", ![a].size = size]
    /\ UNCHANGED <<lines, size, files, current, made, reader>>

(* ... and then its digest.                                                *)
HashLog(a) ==
    /\ analyzer[a].pc = "sized"
    /\ analyzer' = [analyzer EXCEPT ![a].pc = "result", ![a].digest = size]
    /\ UNCHANGED <<lines, size, files, current, made, reader>>

(* --rebuild unlinks the store, whatever is in it.                         *)
Rebuild(a) ==
    /\ analyzer[a].pc = "result" /\ a \in Rebuilders
    /\ current' = 0
    /\ Step(a, "connect")
    /\ UNCHANGED <<lines, size, files, made, reader>>

(* Mutant of Look: whatever is not this schema is taken for outdated.      *)
LookOther(a) ==
    /\ analyzer[a].pc = "result" /\ a \notin Rebuilders
    /\ IF current # 0 /\ files[current].schema # "current"
       THEN Step(a, "outdated") ELSE Step(a, "connect")
    /\ UNCHANGED <<lines, size, files, current, made, reader>>

(* DerivedStore.__init__ reads the schema of the file: a newer one is      *)
(* refused, an older one is to be discarded, and a file of this build's    *)
(* schema, or none, is to be connected to.                                 *)
Look(a) ==
    /\ analyzer[a].pc = "result" /\ a \notin Rebuilders
    /\ LET schema == IF current = 0 THEN "current" ELSE files[current].schema
       IN  \/ schema = "newer" /\ Stop(a, "failed")
           \/ schema = "older" /\ Step(a, "outdated")
           \/ schema = "current" /\ Step(a, "connect")
    /\ UNCHANGED <<lines, size, files, current, made, reader>>

(* The file at the path is unlinked, which need no longer be the one whose *)
(* schema was read; where none is left, unlink raises.                     *)
Discard(a) ==
    /\ analyzer[a].pc = "outdated"
    /\ current' = 0
    /\ IF current = 0 THEN Stop(a, "failed") ELSE Step(a, "connect")
    /\ UNCHANGED <<lines, size, files, made, reader>>

(* Connecting makes a file where there is none; the schema is put in and   *)
(* stamped, for which nobody else may be writing.                          *)
Connect(a) ==
    /\ analyzer[a].pc = "connect"
    /\ \/ /\ current = 0 /\ made < MaxFiles
          /\ made' = made + 1 /\ current' = made + 1
       \/ /\ current # 0 /\ files[current].writer = 0
          /\ UNCHANGED <<made, current>>
    /\ analyzer' = [analyzer EXCEPT ![a].pc = "open", ![a].file = current']
    /\ UNCHANGED <<lines, size, files, reader>>

-----------------------------------------------------------------------------
(* DerivedStore.write, in one transaction.                                 *)

Opened(a) == files[analyzer[a].file]

(* The session is the one the first event names.                           *)
Session(n) == IF EventIds(lines, n) = {} THEN "unknown" ELSE "known"

NewRun(a, rows, whole) ==
    [id |-> Opened(a).last + 1, session |-> Session(analyzer[a].read), version |-> "current", read |-> analyzer[a].read,
     size |-> analyzer[a].size, digest |-> analyzer[a].digest,
     rows |-> rows, whole |-> whole]

(* The first insert takes the write lock.                                  *)
Begin(a) ==
    /\ analyzer[a].pc = "open" /\ Opened(a).writer = 0
    /\ files' = [files EXCEPT ![analyzer[a].file].writer = a]
    /\ Step(a, "writing")
    /\ UNCHANGED <<lines, size, current, made, reader>>

(* ... or, the lock being held for longer than five seconds, fails.        *)
Busy(a) ==
    /\ \/ analyzer[a].pc = "open" /\ Opened(a).writer # 0
       \/ analyzer[a].pc = "connect" /\ current # 0 /\ files[current].writer # 0
    /\ Stop(a, "failed")
    /\ UNCHANGED <<lines, size, files, current, made, reader>>

(* The run goes in behind those that are kept, and the lock goes.          *)
Write(a, kept, run) ==
    files' = [files EXCEPT ![analyzer[a].file] =
                [Opened(a) EXCEPT !.runs = kept \cup {run}, !.last = run.id, !.writer = 0]]

(* _prune, with keep = 1: the runs of other sessions stay.                 *)
Others(runs, session) == {run \in runs : run.session # session}

(* Mutant of Commit: the older runs are left.                              *)
CommitUnpruned(a) ==
    /\ analyzer[a].pc = "writing" /\ ~Repeats(lines, analyzer[a].read)
    /\ LET run == NewRun(a, Located(lines, analyzer[a].read), TRUE)
       IN  Write(a, Opened(a).runs, run)
    /\ Stop(a, "done")
    /\ UNCHANGED <<lines, size, current, made, reader>>

(* Everything is inserted, the session's older runs go, and the            *)
(* transaction is committed.                                               *)
Commit(a) ==
    /\ analyzer[a].pc = "writing" /\ ~Repeats(lines, analyzer[a].read)
    /\ LET run == NewRun(a, Located(lines, analyzer[a].read), TRUE)
       IN  Write(a, Others(Opened(a).runs, run.session), run)
    /\ Stop(a, "done")
    /\ UNCHANGED <<lines, size, current, made, reader>>

(* The log repeats an event id: the index refuses the second row, write    *)
(* raises, and __exit__ closes the store, which commits what was inserted: *)
(* the run and the rows before the repeated one.                           *)
CommitPart(a) ==
    /\ analyzer[a].pc = "writing" /\ Repeats(lines, analyzer[a].read)
    /\ LET n == CHOOSE k \in 1..analyzer[a].read : Repeats(lines, k) /\ ~Repeats(lines, k - 1)
           run == NewRun(a, Located(lines, n - 1), FALSE)
       IN  Write(a, Opened(a).runs, run)
    /\ Stop(a, "failed")
    /\ UNCHANGED <<lines, size, current, made, reader>>

(* The process is killed: its transaction is rolled back.  A process that  *)
(* is killed with nothing open is one that takes no further step.          *)
Kill(a) ==
    /\ analyzer[a].pc = "writing"
    /\ Stop(a, "failed")
    /\ files' = [files EXCEPT ![analyzer[a].file].writer = 0]
    /\ UNCHANGED <<lines, size, current, made, reader>>

Analyze(a) ==
    ReadLog(a) \/ StatLog(a) \/ HashLog(a) \/ Rebuild(a) \/ Look(a) \/ Discard(a)
    \/ Connect(a) \/ Begin(a) \/ Busy(a) \/ Commit(a) \/ CommitPart(a) \/ Kill(a)

-----------------------------------------------------------------------------
(* EventStore.                                                             *)

Usable(file) == {run \in file.runs : run.version = "current"}
Newest(file) == CHOOSE run \in Usable(file) : \A other \in Usable(file) : other.id <= run.id
Kept(file, run) == \E row \in file.runs : row.id = run.id

(* __init__: the newest run of this build's analysis, or an error.         *)
OpenReader(r) ==
    /\ reader[r].pc = "start" /\ current # 0
    /\ LET file == files[current]
       IN  reader' = [reader EXCEPT ![r] =
                IF file.schema = "current" /\ Usable(file) # {}
                THEN [@ EXCEPT !.pc = "idle", !.file = current, !.run = Newest(file)]
                ELSE [Fresh EXCEPT !.pc = "failed"]]
    /\ UNCHANGED <<lines, size, files, current, made, analyzer>>

(* get: the row of the id, if the run is still there and has one.          *)
Ask(r, id) ==
    /\ reader[r].pc = "idle" /\ reader[r].asks < MaxAsks
    /\ LET rows == IF Kept(files[reader[r].file], reader[r].run)
                   THEN {row \in reader[r].run.rows : row.id = id} ELSE {}
       IN  reader' = [reader EXCEPT ![r] =
                [reader[r] EXCEPT
                    !.pc = IF rows = {} THEN "missing" ELSE "found",
                    !.line = IF rows = {} THEN 0 ELSE (CHOOSE row \in rows : TRUE).line,
                    !.id = id, !.asks = @ + 1, !.asked = size,
                    !.first = ~reader[r].verified, !.answer = "none"]]
    /\ UNCHANGED <<lines, size, files, current, made, analyzer>>

(* _verify_log: once an instance, the size and the digest of the log are   *)
(* compared with the run's; a run that was pruned since has neither.       *)
Matches(r) ==
    \/ reader[r].verified
    \/ /\ Kept(files[reader[r].file], reader[r].run)
       /\ size = reader[r].run.size /\ size = reader[r].run.digest

(* Mutant of Absent: the log is not checked when there is no row.          *)
AbsentUnchecked(r) ==
    /\ reader[r].pc = "missing"
    /\ reader' = [reader EXCEPT ![r].pc = "idle", ![r].answer = "absent"]
    /\ UNCHANGED <<lines, size, files, current, made, analyzer>>

Absent(r) ==
    /\ reader[r].pc = "missing" /\ Matches(r)
    /\ reader' = [reader EXCEPT ![r].pc = "idle", ![r].answer = "absent", ![r].verified = TRUE]
    /\ UNCHANGED <<lines, size, files, current, made, analyzer>>

(* The payload is read at the row's offset.                                *)
Serve(r) ==
    /\ reader[r].pc = "found" /\ Matches(r)
    /\ reader' = [reader EXCEPT ![r] =
            [@ EXCEPT !.pc = "idle", !.answer = "event", !.verified = TRUE,
                      !.asked = 0, !.first = FALSE]]
    /\ UNCHANGED <<lines, size, files, current, made, analyzer>>

(* StaleIndexError.                                                        *)
Stale(r) ==
    /\ reader[r].pc \in {"found", "missing"} /\ ~Matches(r)
    /\ reader' = [reader EXCEPT ![r] = [Fresh EXCEPT !.pc = "failed"]]
    /\ UNCHANGED <<lines, size, files, current, made, analyzer>>

Read(r) ==
    \/ OpenReader(r) \/ Absent(r) \/ Serve(r) \/ Stale(r)
    \/ \E id \in Ids : Ask(r, id)

Next ==
    \/ Capture
    \/ \E a \in Analyzers : Analyze(a)
    \/ \E r \in Readers : Read(r)

Spec == Init /\ [][Next]_vars

-----------------------------------------------------------------------------
(* The payload served for an id is the event of that id, with lines that   *)
(* are not events before it, a log that grows, a store that is rebuilt and *)
(* a run that is replaced while the reader is at work.                     *)
ServedIsAsked ==
    \A r \in Readers : reader[r].answer = "event" =>
        lines[reader[r].line] = reader[r].id

(* A reader that is told that there is no such event can rely on it: the   *)
(* log held none when it asked (events_index.py:172-177).  Two cases are   *)
(* out: a run whose log grew between its reading and its fingerprint       *)
(* (pipeline.py:126-153), and a reader that verified the log for an        *)
(* earlier question.                                                       *)
AbsentIsAbsent ==
    \A r \in Readers :
        LET run == reader[r].run
        IN  reader[r].answer = "absent" /\ reader[r].first
                /\ run.read = run.size \div 2 /\ run.whole
            => reader[r].id \notin EventIds(lines, reader[r].asked \div 2)

(* What a reader can select.  A store holds at most one finished run of a  *)
(* session, with a row for every event of the log that was read; whatever  *)
(* follows it in that session is the part that a log with a repeated id    *)
(* left (store.py:330-332), killed, busy and overlapping processes         *)
(* notwithstanding.                                                        *)
FinishedRunStands ==
    \A g \in Generations : \A run \in files[g].runs :
        /\ run.whole =>
            \A other \in files[g].runs : other.id < run.id => other.session # run.session
        /\ run.version = "current" /\ run.whole =>
            {row.id : row \in run.rows} = EventIds(lines, run.read)
        /\ ~run.whole => Repeats(lines, run.read)

(* Following the cursors through a finished run visits every event once,   *)
(* in order, whatever the size of a page.                                  *)
WalkVisitsAll ==
    \A g \in Generations : \A run \in files[g].runs :
        run.whole => \A limit \in 1..3 :
            Walk(run.rows, limit, Cardinality(run.rows) + 1) = InSeqOrder(run.rows)

(* A store that a newer build wrote is never discarded nor written, unless *)
(* an operator asks for a rebuild                                          *)
(* (docs/derived-store-versioning.md, edge 6).                             *)
NewerStoreUntouched ==
    [][current # 0 /\ files[current].schema = "newer" =>
        /\ files'[current] = files[current]
        /\ current' # current => \E a \in Rebuilders : Rebuild(a)]_vars
=============================================================================
