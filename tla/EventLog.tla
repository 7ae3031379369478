------------------------------ MODULE EventLog ------------------------------
(***************************************************************************)
(* The event spine: EventLog (events/log.py) and the file it appends to.   *)
(* Sensors run on the asyncio thread and on one thread per extension       *)
(* connection; all of them call emit, which numbers, writes and now and    *)
(* then fsyncs one line under a lock.                                      *)
(*                                                                         *)
(* The file object is Python's line-buffered text file over a buffered     *)
(* writer.  A write that fails can leave nothing, can leave the line in    *)
(* the writer's buffer to go out with the next one (a short line), or can  *)
(* leave the beginning of the line in the file and drop the rest (a line   *)
(* longer than the buffer).                                                *)
(***************************************************************************)
EXTENDS LogReader, FiniteSets

CONSTANTS
    Threads,     \* the threads that emit
    FsyncEvery,  \* fsync_every: lines between two fsyncs, 0 for never
    MaxSeq,      \* bound of the model: how many events are ever numbered
    NoThread     \* the lock's holder when it is free

ASSUME FsyncAssumption  == FsyncEvery \in Nat
ASSUME MaxSeqAssumption == MaxSeq \in Nat
ASSUME ThreadAssumption == NoThread \notin Threads

VARIABLES
    seq,        \* _seq: the last number allocated
    sinceSync,  \* _since_sync
    closed,     \* _closed
    lock,       \* the thread inside `with self._lock`
    pc,         \* what each thread is about to do
    mine,       \* the number of the event each thread is emitting
    image,      \* the pieces handed to the file and not dropped, in order
    flushed,    \* how many of them the operating system has
    synced,     \* how many of them were covered by a completed fsync
    up,         \* the process is alive
    acked,      \* history: the numbers whose emit returned the Event
    refused     \* history: the numbers whose emit returned None

logVars == <<seq, sinceSync, closed, lock, pc, mine>>
fileVars == <<image, flushed, synced>>
history == <<acked, refused>>
vars == <<logVars, fileVars, up, history>>

PC == {"idle", "write", "sync", "close"}

TypeOK ==
    /\ seq \in 0..MaxSeq
    /\ sinceSync \in Nat
    /\ closed \in BOOLEAN
    /\ lock \in Threads \cup {NoThread}
    /\ pc \in [Threads -> PC]
    /\ mine \in [Threads -> 0..MaxSeq]
    /\ image \in Seq(Piece)
    /\ flushed \in 0..Len(image)
    /\ synced \in 0..flushed
    /\ up \in BOOLEAN
    /\ acked \in SUBSET (1..MaxSeq)
    /\ refused \in SUBSET (1..MaxSeq)

Init ==
    /\ seq = 0 /\ sinceSync = 0 /\ closed = FALSE
    /\ lock = NoThread
    /\ pc = [t \in Threads |-> "idle"]
    /\ mine = [t \in Threads |-> 0]
    /\ image = <<>> /\ flushed = 0 /\ synced = 0
    /\ up = TRUE
    /\ acked = {} /\ refused = {}

(* What the operating system holds, which is what a reader opens.          *)
OnDisk == SubSeq(image, 1, flushed)

Whole(n) == [seq |-> n, whole |-> TRUE]
Cut(n)   == [seq |-> n, whole |-> FALSE]

(* Leaving the lock with an answer for the caller.                         *)
Return(t) ==
    /\ pc' = [pc EXCEPT ![t] = "idle"]
    /\ lock' = NoThread
Answer(t) == Return(t) /\ acked' = acked \cup {mine[t]} /\ UNCHANGED refused
Refuse(t) == Return(t) /\ refused' = refused \cup {mine[t]} /\ UNCHANGED acked

-----------------------------------------------------------------------------
(* Mutants of Emit: without the lock; without the closed test.             *)
EmitUnlocked(t) ==
    /\ up /\ pc[t] = "idle"
    /\ ~closed
    /\ seq < MaxSeq
    /\ seq' = seq + 1
    /\ mine' = [mine EXCEPT ![t] = seq + 1]
    /\ lock' = t
    /\ pc' = [pc EXCEPT ![t] = "write"]
    /\ UNCHANGED <<sinceSync, closed, fileVars, up, history>>
EmitWhenClosed(t) ==
    /\ up /\ pc[t] = "idle" /\ lock = NoThread
    /\ seq < MaxSeq
    /\ seq' = seq + 1
    /\ mine' = [mine EXCEPT ![t] = seq + 1]
    /\ lock' = t
    /\ pc' = [pc EXCEPT ![t] = "write"]
    /\ UNCHANGED <<sinceSync, closed, fileVars, up, history>>

(* emit: the lock, the closed test and the number.  A call on a closed log *)
(* returns None and changes nothing.                                       *)
Emit(t) ==
    /\ up /\ pc[t] = "idle" /\ lock = NoThread
    /\ ~closed
    /\ seq < MaxSeq
    /\ seq' = seq + 1
    /\ mine' = [mine EXCEPT ![t] = seq + 1]
    /\ lock' = t
    /\ pc' = [pc EXCEPT ![t] = "write"]
    /\ UNCHANGED <<sinceSync, closed, fileVars, up, history>>

SyncDue == FsyncEvery # 0 /\ sinceSync + 1 >= FsyncEvery

(* Mutant of WriteLine: no line buffering.                                 *)
WriteBlockBuffered(t) ==
    /\ up /\ pc[t] = "write"
    /\ image' = Append(image, Whole(mine[t]))
    /\ sinceSync' = sinceSync + 1
    /\ IF SyncDue THEN /\ pc' = [pc EXCEPT ![t] = "sync"]
                       /\ UNCHANGED <<lock, history>>
                  ELSE Answer(t)
    /\ UNCHANGED <<seq, closed, mine, flushed, synced, up>>

(* The line goes out, and with it what an earlier failure left buffered.   *)
WriteLine(t) ==
    /\ up /\ pc[t] = "write"
    /\ image' = Append(image, Whole(mine[t]))
    /\ flushed' = Len(image')
    /\ sinceSync' = sinceSync + 1
    /\ IF SyncDue THEN /\ pc' = [pc EXCEPT ![t] = "sync"]
                       /\ UNCHANGED <<lock, history>>
                  ELSE Answer(t)
    /\ UNCHANGED <<seq, closed, mine, synced, up>>

(* to_json raises, or the write does and leaves nothing.                   *)
WriteNothing(t) ==
    /\ up /\ pc[t] = "write"
    /\ Refuse(t)
    /\ UNCHANGED <<seq, sinceSync, closed, mine, fileVars, up>>

(* The write raises and the line stays in the writer's buffer.             *)
WriteBuffered(t) ==
    /\ up /\ pc[t] = "write"
    /\ image' = Append(image, Whole(mine[t]))
    /\ Refuse(t)
    /\ UNCHANGED <<seq, sinceSync, closed, mine, flushed, synced, up>>

(* The write raises halfway through a line longer than the buffer.         *)
WriteCut(t) ==
    /\ up /\ pc[t] = "write"
    /\ image' = Append(image, Cut(mine[t]))
    /\ flushed' = Len(image')
    /\ Refuse(t)
    /\ UNCHANGED <<seq, sinceSync, closed, mine, synced, up>>

Sync(t) ==
    /\ up /\ pc[t] = "sync"
    /\ synced' = flushed
    /\ sinceSync' = 0
    /\ Answer(t)
    /\ UNCHANGED <<seq, closed, mine, image, flushed, up>>

(* Mutant of SyncFails: the counter is reset although nothing was synced.  *)
SyncFailsButCounts(t) ==
    /\ up /\ pc[t] = "sync"
    /\ sinceSync' = 0
    /\ Refuse(t)
    /\ UNCHANGED <<seq, closed, mine, fileVars, up>>

(* fsync raises: the event is in the file and the caller is told None.     *)
SyncFails(t) ==
    /\ up /\ pc[t] = "sync"
    /\ Refuse(t)
    /\ UNCHANGED <<seq, sinceSync, closed, mine, fileVars, up>>

-----------------------------------------------------------------------------
(* What is left of the pieces once only the first k survive, a piece that  *)
(* was half out being possibly cut.                                        *)
Remains(k, half) ==
    {SubSeq(image, 1, k)} \cup {Append(SubSeq(image, 1, k), Cut(n)) : n \in half}

(* The number of a line that may be partly in the file.                    *)
HalfOut == IF flushed < Len(image) THEN {image[flushed + 1].seq}
           ELSE {mine[t] : t \in {u \in Threads : pc[u] = "write"}}

(* close marks the log closed first, then flushes, fsyncs and closes.      *)
Close(t) ==
    /\ up /\ pc[t] = "idle" /\ lock = NoThread
    /\ ~closed
    /\ closed' = TRUE
    /\ lock' = t
    /\ pc' = [pc EXCEPT ![t] = "close"]
    /\ UNCHANGED <<seq, sinceSync, mine, fileVars, up, history>>

(* An error of flush or fsync is swallowed, so the caller is not told      *)
(* which of the three it was.                                              *)
CloseFile(t) ==
    /\ up /\ pc[t] = "close"
    /\ \/ flushed' = Len(image) /\ synced' = flushed' /\ UNCHANGED image
       \/ flushed' = Len(image) /\ UNCHANGED <<image, synced>>
       \/ /\ flushed < Len(image)
          /\ image' \in Remains(flushed, HalfOut)
          /\ flushed' = Len(image')
          /\ UNCHANGED synced
    /\ Return(t)
    /\ UNCHANGED <<seq, sinceSync, closed, mine, up, history>>

(* The process is killed: what it had not written is gone, what the        *)
(* operating system has stays.                                             *)
Kill ==
    /\ up /\ up' = FALSE
    /\ image' \in Remains(flushed, HalfOut)
    /\ flushed' = Len(image')
    /\ UNCHANGED <<logVars, synced, history>>

(* The machine stops: any suffix that no fsync covered may go as well.     *)
PowerLoss ==
    /\ up' = FALSE
    /\ flushed > synced \/ up
    /\ \E k \in synced..flushed :
        /\ image' \in Remains(k, IF k < flushed THEN {image[k + 1].seq} ELSE {})
        /\ flushed' = Len(image')
    /\ UNCHANGED <<logVars, synced, history>>

Next ==
    \/ \E t \in Threads :
        \/ Emit(t)
        \/ WriteLine(t) \/ WriteNothing(t) \/ WriteBuffered(t) \/ WriteCut(t)
        \/ Sync(t) \/ SyncFails(t)
        \/ Close(t) \/ CloseFile(t)
    \/ Kill
    \/ PowerLoss

Spec == Init /\ [][Next]_vars

-----------------------------------------------------------------------------
(* One writer, one order: the lock makes the pieces of the file carry      *)
(* strictly increasing numbers, whatever threads emit and whatever writes  *)
(* fail, so that `seq` is the total order log.py:9-10 says it is.          *)
LogOrdered ==
    \A i, j \in DOMAIN image : i < j => image[i].seq < image[j].seq

(* An event whose emit returned it has left the process: until the machine *)
(* itself stops, its line is in the operating system's copy of the file,   *)
(* not in a buffer that a kill would take along (log.py:43-46).            *)
AckedInFile ==
    up => \A n \in acked : \E i \in 1..flushed : image[i] = Whole(n)

(* The acknowledged events no completed fsync covers.                      *)
AtRisk == {n \in acked : \A i \in 1..synced : image[i] # Whole(n)}

(* What fsync_every promises: a power loss takes at most FsyncEvery - 1    *)
(* acknowledged events, even when fsyncs fail, because a failed one leaves *)
(* _since_sync where it was and the next write tries again.                *)
AckedLossBounded == FsyncEvery # 0 => Cardinality(AtRisk) < FsyncEvery

(* What a log the reader has no complaint about is worth: every            *)
(* acknowledged event is read back (unless power was lost), and a number   *)
(* that is missing lies before the first or after the last event read.     *)
CleanLogIsComplete ==
    Problems(OnDisk) = {} =>
        LET read == Parsed(OnDisk)
        IN  /\ up => acked \subseteq read
            /\ \A n \in (1..seq) \ read :
                (\A m \in read : m < n) \/ (\A m \in read : n < m)

(* The claim of emit's docstring (log.py:109-112): an event that was not   *)
(* written shows, as a problem the reader reports, once the log is closed. *)
FailureIsVisible ==
    up /\ closed /\ lock = NoThread =>
        (refused \subseteq Parsed(OnDisk) \/ Problems(OnDisk) # {})

-----------------------------------------------------------------------------
(* The file, seen through the reader, is an append-only record that loses  *)
(* at most an unsynced tail, and only when the machine stops.              *)
Evidence == INSTANCE EvidenceLog WITH
    recorded <- Parsed(OnDisk),
    durable  <- Parsed(SubSeq(image, 1, synced)),
    sealed   <- ~up \/ (closed /\ lock = NoThread)

Implements == Evidence!Spec
=============================================================================
