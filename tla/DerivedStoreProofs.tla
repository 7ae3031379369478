------------------------- MODULE DerivedStoreProofs -------------------------
(***************************************************************************)
(* What holds of the derived store and of the readers of its evidence      *)
(* index for any log, any number of processes and any number of files.     *)
(***************************************************************************)
EXTENDS DerivedStore, FiniteSetTheorems, WellFoundedInduction, TLAPS

(* The records, as the functions they are.                                 *)
FileType(f) ==
    DOMAIN f = {"schema", "runs", "last", "writer"} /\ f.last \in Nat
AnalyzerType(x) ==
    /\ DOMAIN x = {"pc", "read", "size", "digest", "file"} /\ x.read \in Nat
    /\ x.pc \in {"open", "writing"} => x.file \in Generations
ReaderType(now, x) ==
    /\ DOMAIN x = {"pc", "file", "run", "verified", "asks", "id", "line", "asked", "first",
                   "answer"}
    /\ x.asked \in Nat /\ x.asked <= now

TypeInv ==
    /\ lines \in Logs /\ size \in Nat
    /\ DOMAIN files = Generations /\ \A g \in Generations : FileType(files[g])
    /\ made \in 0..MaxFiles /\ current \in 0..made
    /\ DOMAIN analyzer = Analyzers /\ \A a \in Analyzers : AnalyzerType(analyzer[a])
    /\ DOMAIN reader = Readers /\ \A r \in Readers : ReaderType(size, reader[r])

(* A run locates events of the log only; a finished one of this build      *)
(* locates all that were read, and one that is not finished is what a log  *)
(* with a repeated id left.                                                *)
RunOK(log, run) ==
    /\ run.id \in Nat /\ run.read \in Nat
    /\ \A row \in run.rows : log[row.line] = row.id
    /\ run.version = "current" /\ run.whole => run.rows = Located(log, run.read)
    /\ ~run.whole => Repeats(log, run.read)

(* Ids are given in the order of writing, and a finished run has superseded *)
(* those of its session.                                                   *)
StoreOK(log, f) ==
    \A run \in f.runs :
        /\ RunOK(log, run) /\ run.id <= f.last
        /\ run.whole => \A other \in f.runs : other.id < run.id => other.session # run.session

StoreInv == \A g \in Generations : StoreOK(lines, files[g])

(* Only the file that was there at the start can be a newer build's, and   *)
(* while it is at the path no process has got as far as to unlink it for   *)
(* its schema or to open it.                                               *)
NewerInv ==
    /\ \A g \in Generations : g > made => files[g].schema = "current"
    /\ current # 0 /\ files[current].schema = "newer" =>
        \A a \in Analyzers : analyzer[a].pc \notin {"outdated", "connect", "open", "writing"}

(* The reader's run, which may be pruned meanwhile, is one its file held.  *)
HoldsRun(log, fs, x) ==
    /\ x.file \in Generations
    /\ RunOK(log, x.run) /\ x.run.version = "current"
    /\ x.run.id <= fs[x.file].last

ReaderOK(log, fs, x) ==
    /\ x.pc = "start" => x.answer = "none" /\ ~x.verified
    /\ x.pc \in {"idle", "found", "missing"} => HoldsRun(log, fs, x)
    /\ x.pc = "found" => log[x.line] = x.id
    /\ x.pc = "missing" =>
        /\ x.answer = "none"
        /\ x.first => ~x.verified
        /\ Kept(fs[x.file], x.run) => \A row \in x.run.rows : row.id # x.id
    /\ x.answer = "event" => log[x.line] = x.id
    /\ x.answer = "absent" /\ x.first /\ x.run.read = x.run.size \div 2 /\ x.run.whole =>
        x.id \notin EventIds(log, x.asked \div 2)

ReaderInv == \A r \in Readers : ReaderOK(lines, files, reader[r])

IInv == TypeInv /\ StoreInv /\ NewerInv /\ ReaderInv

-----------------------------------------------------------------------------
(* The rows of the evidence index.                                         *)

LEMMA LocatedOK ==
    ASSUME NEW log, NEW n
    PROVE  /\ \A row \in Located(log, n) : log[row.line] = row.id
           /\ {row.id : row \in Located(log, n)} = EventIds(log, n)
<1>1. \A row \in Located(log, n) :
          \E i \in 1..n : log[i] # Bad /\ row.line = i /\ row.id = log[i]
  BY DEF Located
<1>2. ASSUME NEW i \in 1..n, log[i] # Bad
      PROVE  \E row \in Located(log, n) : row.id = log[i]
  <2>1. [line |-> i, id |-> log[i]] \in Located(log, n)
    BY <1>2 DEF Located
  <2>2. QED
    BY <2>1
<1>3. QED
  BY <1>1, <1>2 DEF EventIds

(* A longer part of the log holds whatever a shorter one does.             *)
LEMMA EventIdsGrow ==
    ASSUME NEW log, NEW m \in Nat, NEW n \in Nat, m <= n
    PROVE  EventIds(log, m) \subseteq EventIds(log, n)
<1>1. 1..m \subseteq 1..n
  OBVIOUS
<1>2. QED
  BY <1>1 DEF EventIds

-----------------------------------------------------------------------------
(* How a file may change: a run that is there was there or is newer than   *)
(* any that was.                                                           *)
Grows(f, g) ==
    /\ FileType(g) /\ g.schema = f.schema /\ f.last <= g.last
    /\ \A run \in g.runs : run \in f.runs \/ run.id > f.last

LEMMA KeptBefore ==
    ASSUME NEW f, NEW g, FileType(f), Grows(f, g), NEW run, run.id \in Nat, run.id <= f.last,
           Kept(g, run)
    PROVE  Kept(f, run)
<1>1. PICK row \in g.runs : row.id = run.id
  BY DEF Kept
<1>2. ~(row.id > f.last)
  BY <1>1 DEF FileType
<1>3. row \in f.runs
  BY <1>2 DEF Grows
<1>4. QED
  BY <1>1, <1>3 DEF Kept

(* A reader is not misled by what happens to the files.                    *)
LEMMA ReaderKeeps ==
    ASSUME NEW log, NEW fs, NEW gs, NEW x, ReaderOK(log, fs, x),
           \A g \in Generations : FileType(fs[g]) /\ Grows(fs[g], gs[g])
    PROVE  ReaderOK(log, gs, x)
<1>1. ASSUME HoldsRun(log, fs, x) PROVE HoldsRun(log, gs, x)
  <2>1. /\ x.file \in Generations /\ x.run.id \in Nat /\ x.run.id <= fs[x.file].last
        /\ fs[x.file].last <= gs[x.file].last
        /\ fs[x.file].last \in Nat /\ gs[x.file].last \in Nat
    BY <1>1 DEF HoldsRun, RunOK, Grows, FileType
  <2>2. x.run.id <= gs[x.file].last
    BY <2>1
  <2>3. QED
    BY <1>1, <2>2 DEF HoldsRun
<1>2. ASSUME HoldsRun(log, fs, x), Kept(gs[x.file], x.run) PROVE Kept(fs[x.file], x.run)
  <2>1. x.file \in Generations /\ x.run.id \in Nat /\ x.run.id <= fs[x.file].last
    BY <1>2 DEF HoldsRun, RunOK
  <2>2. QED
    BY <1>2, <2>1, KeptBefore
<1>3. QED
  BY <1>1, <1>2 DEF ReaderOK

(* A transaction puts one run behind those it keeps.                       *)
LEMMA WriteRun ==
    ASSUME NEW log, NEW f, FileType(f), StoreOK(log, f), NEW keep \in SUBSET f.runs, NEW run,
           RunOK(log, run), run.id = f.last + 1,
           run.whole => \A other \in keep : other.session # run.session
    PROVE  LET g == [f EXCEPT !.runs = keep \cup {run}, !.last = run.id, !.writer = 0]
           IN  Grows(f, g) /\ StoreOK(log, g)
<1> DEFINE g == [f EXCEPT !.runs = keep \cup {run}, !.last = run.id, !.writer = 0]
<1>1. /\ FileType(g) /\ g.schema = f.schema /\ g.runs = keep \cup {run}
      /\ g.last = f.last + 1 /\ f.last \in Nat
  BY DEF FileType
<1> HIDE DEF g
<1>2. Grows(f, g)
  BY <1>1 DEF Grows
<1>3. StoreOK(log, g)
  <2> SUFFICES ASSUME NEW one \in g.runs
               PROVE  /\ RunOK(log, one) /\ one.id <= g.last
                      /\ one.whole => \A other \in g.runs :
                                          other.id < one.id => other.session # one.session
    BY DEF StoreOK
  <2>1. CASE one = run
    BY <1>1, <2>1 DEF RunOK
  <2>2. CASE one \in keep
    <3>1. /\ RunOK(log, one) /\ one.id \in Nat /\ one.id <= f.last
          /\ one.whole => \A other \in f.runs : other.id < one.id => other.session # one.session
      BY <2>2 DEF StoreOK, RunOK
    <3>2. one.id <= g.last /\ ~(run.id < one.id)
      BY <1>1, <3>1
    <3>3. QED
      BY <1>1, <3>1, <3>2
  <2>3. QED
    BY <1>1, <2>1, <2>2
<1>4. QED
  BY <1>2, <1>3 DEF g

-----------------------------------------------------------------------------
LEMMA InitIInv == Init => IInv
<1> SUFFICES ASSUME Init PROVE IInv
  OBVIOUS
<1>1. FileType(NewFile) /\ \A schema : FileType(OldFile(schema))
  BY DEF FileType, NewFile, OldFile, OldRun, NoRun
<1>2. \/ made = 0 /\ files = [g \in Generations |-> NewFile]
      \/ /\ made = 1
         /\ \E schema \in Schemas :
               files = [g \in Generations |-> IF g = 1 THEN OldFile(schema) ELSE NewFile]
  BY DEF Init
<1>3. /\ DOMAIN files = Generations
      /\ \A g \in Generations : files[g] = NewFile \/ (g = 1 /\ made = 1 /\
                                    \E schema \in Schemas : files[g] = OldFile(schema))
  BY <1>2
<1>4. TypeInv
  <2>1. \A g \in Generations : FileType(files[g])
    BY <1>1, <1>3
  <2>2. made \in 0..MaxFiles /\ current \in 0..made
    BY BoundAssumption DEF Init
  <2>3. AnalyzerType(Blank) /\ ReaderType(0, Fresh)
    BY DEF AnalyzerType, ReaderType, Blank, Fresh
  <2>4. QED
    BY <1>3, <2>1, <2>2, <2>3 DEF Init, TypeInv
<1>5. StoreInv
  <2>1. StoreOK(lines, NewFile)
    BY DEF StoreOK, NewFile
  <2>2. ASSUME NEW schema PROVE StoreOK(lines, OldFile(schema))
    <3>1. /\ OldRun.id = 1 /\ OldRun.read = 0 /\ OldRun.rows = {} /\ OldRun.whole
          /\ OldRun.version = "older"
      BY DEF OldRun, NoRun
    <3>2. /\ OldFile(schema).runs = {OldRun} /\ OldFile(schema).last = 1
      BY <3>1 DEF OldFile
    <3>3. QED
      BY <3>1, <3>2 DEF StoreOK, RunOK
  <2>3. QED
    BY <1>3, <2>1, <2>2 DEF StoreInv
<1>6. NewerInv
  <2>1. \A a \in Analyzers : analyzer[a].pc = "start"
    BY DEF Init, Blank
  <2>2. \A g \in Generations : g > made => files[g].schema = "current"
    BY <1>3 DEF NewFile
  <2>3. QED
    BY <2>1, <2>2 DEF NewerInv
<1>7. ReaderInv
  <2>1. \A r \in Readers : reader[r] = Fresh
    BY DEF Init
  <2>2. Fresh.pc = "start" /\ Fresh.answer = "none" /\ ~Fresh.verified
    BY DEF Fresh
  <2>3. QED
    BY <2>1, <2>2 DEF ReaderInv, ReaderOK
<1>8. QED
  BY <1>4, <1>5, <1>6, <1>7 DEF IInv

-----------------------------------------------------------------------------
(* A step of an analyze process that writes no file.                       *)
LEMMA AnalyzerStep ==
    ASSUME IInv, NEW a \in Analyzers, NEW x, AnalyzerType(x),
           analyzer' = [analyzer EXCEPT ![a] = x],
           UNCHANGED <<lines, size, files, reader>>,
           \/ made' = made /\ current' \in {0, current}
           \/ made < MaxFiles /\ made' = made + 1 /\ current' = made + 1,
           current' = current /\ current # 0 /\ files[current].schema = "newer" =>
               x.pc \notin {"outdated", "connect", "open", "writing"}
    PROVE  IInv'
<1>1. made \in Nat /\ MaxFiles \in Nat /\ made <= MaxFiles /\ current \in 0..made
  BY BoundAssumption DEF IInv, TypeInv
<1>2. /\ DOMAIN analyzer' = Analyzers /\ analyzer'[a] = x
      /\ \A b \in Analyzers : b # a => analyzer'[b] = analyzer[b]
  BY DEF IInv, TypeInv
<1>3. TypeInv'
  <2>1. made' \in 0..MaxFiles /\ current' \in 0..made'
    BY <1>1
  <2>2. \A b \in Analyzers : AnalyzerType(analyzer'[b])
    BY <1>2 DEF IInv, TypeInv
  <2>3. QED
    BY <1>2, <2>1, <2>2 DEF IInv, TypeInv
<1>4. StoreInv' /\ ReaderInv'
  BY DEF IInv, StoreInv, ReaderInv
<1>5. NewerInv'
  <2>1. \A g \in Generations : g > made' => files[g].schema = "current"
    BY <1>1 DEF IInv, NewerInv, Generations
  <2>2. CASE current' \in {0, current}
    BY <1>2, <2>1, <2>2 DEF IInv, NewerInv
  <2>3. CASE made < MaxFiles /\ made' = made + 1 /\ current' = made + 1
    <3>1. made + 1 \in Generations /\ made + 1 > made
      BY <1>1, <2>3 DEF Generations
    <3>2. files'[current'].schema = "current"
      BY <2>3, <3>1 DEF IInv, NewerInv
    <3>3. QED
      BY <2>1, <3>2 DEF NewerInv
  <2>4. QED
    BY <2>2, <2>3
<1>6. QED
  BY <1>3, <1>4, <1>5 DEF IInv

(* A step of one that writes to the file it has open.                      *)
LEMMA WriteStep ==
    ASSUME IInv, NEW a \in Analyzers, analyzer[a].pc \in {"open", "writing"},
           NEW x, AnalyzerType(x), analyzer' = [analyzer EXCEPT ![a] = x],
           NEW g, files' = [files EXCEPT ![analyzer[a].file] = g],
           Grows(Opened(a), g), StoreOK(lines, g),
           UNCHANGED <<lines, size, current, made, reader>>
    PROVE  IInv'
<1> DEFINE f == analyzer[a].file
<1>1. f \in Generations /\ DOMAIN files = Generations
  BY DEF IInv, TypeInv, AnalyzerType
<1>2. files'[f] = g /\ DOMAIN files' = Generations
      /\ \A h \in Generations : h # f => files'[h] = files[h]
  BY <1>1
<1>3. \A h \in Generations : FileType(files[h]) /\ Grows(files[h], files'[h])
  <2> TAKE h \in Generations
  <2>1. FileType(files[h])
    BY DEF IInv, TypeInv
  <2>2. Grows(files[h], files[h])
    BY <2>1 DEF Grows, FileType
  <2>3. CASE h = f
    BY <1>2, <2>1, <2>3 DEF Opened
  <2>4. CASE h # f
    BY <1>2, <2>1, <2>2, <2>4
  <2>5. QED
    BY <2>3, <2>4
<1>4. /\ DOMAIN analyzer' = Analyzers /\ analyzer'[a] = x
      /\ \A b \in Analyzers : b # a => analyzer'[b] = analyzer[b]
  BY DEF IInv, TypeInv
<1>5. TypeInv'
  <2>1. \A b \in Analyzers : AnalyzerType(analyzer'[b])
    BY <1>4 DEF IInv, TypeInv
  <2>2. \A h \in Generations : FileType(files'[h])
    BY <1>3 DEF Grows
  <2>3. QED
    BY <1>2, <1>4, <2>1, <2>2 DEF IInv, TypeInv
<1>6. StoreInv'
  BY <1>2 DEF IInv, StoreInv
<1>7. ReaderInv'
  BY <1>3, ReaderKeeps DEF IInv, ReaderInv
<1>8. NewerInv'
  <2>1. \A h \in Generations : files'[h].schema = files[h].schema
    BY <1>3 DEF Grows
  <2>2. ~(current # 0 /\ files[current].schema = "newer")
    BY DEF IInv, NewerInv
  <2>3. current # 0 => current \in Generations
    BY BoundAssumption DEF IInv, TypeInv, Generations
  <2>4. QED
    BY <2>1, <2>2, <2>3 DEF IInv, NewerInv
<1>9. QED
  BY <1>5, <1>6, <1>7, <1>8 DEF IInv

LEMMA StopType ==
    ASSUME NEW pc \in {"done", "failed"} PROVE AnalyzerType([Blank EXCEPT !.pc = pc])
BY DEF AnalyzerType, Blank

LEMMA FingerprintIInv ==
    ASSUME IInv, NEW a \in Analyzers, ReadLog(a) \/ StatLog(a) \/ HashLog(a)
    PROVE  IInv'
<1>1. AnalyzerType(analyzer[a]) /\ size \in Nat
  BY DEF IInv, TypeInv
<1>2. CASE ReadLog(a)
  <2> DEFINE x == [analyzer[a] EXCEPT !.pc = "read", !.read = size \div 2]
  <2>1. size \div 2 \in Nat
    BY <1>1
  <2>2. AnalyzerType(x) /\ x.pc = "read"
    BY <1>1, <2>1 DEF AnalyzerType
  <2>3. analyzer' = [analyzer EXCEPT ![a] = x]
    BY <1>2 DEF ReadLog
  <2> HIDE DEF x
  <2>4. QED
    BY <1>2, <2>2, <2>3, AnalyzerStep DEF ReadLog
<1>3. CASE StatLog(a)
  <2> DEFINE x == [analyzer[a] EXCEPT !.pc = "sized", !.size = size]
  <2>1. AnalyzerType(x) /\ x.pc = "sized"
    BY <1>1 DEF AnalyzerType
  <2>2. analyzer' = [analyzer EXCEPT ![a] = x]
    BY <1>3 DEF StatLog
  <2> HIDE DEF x
  <2>3. QED
    BY <1>3, <2>1, <2>2, AnalyzerStep DEF StatLog
<1>4. CASE HashLog(a)
  <2> DEFINE x == [analyzer[a] EXCEPT !.pc = "result", !.digest = size]
  <2>1. AnalyzerType(x) /\ x.pc = "result"
    BY <1>1 DEF AnalyzerType
  <2>2. analyzer' = [analyzer EXCEPT ![a] = x]
    BY <1>4 DEF HashLog
  <2> HIDE DEF x
  <2>3. QED
    BY <1>4, <2>1, <2>2, AnalyzerStep DEF HashLog
<1>5. QED
  BY <1>2, <1>3, <1>4

LEMMA OpeningIInv ==
    ASSUME IInv, NEW a \in Analyzers,
           Rebuild(a) \/ Look(a) \/ Discard(a) \/ Connect(a) \/ Busy(a)
    PROVE  IInv'
<1>1. AnalyzerType(analyzer[a]) /\ current \in 0..made /\ made \in 0..MaxFiles
  BY DEF IInv, TypeInv
<1> DEFINE at(pc) == [analyzer[a] EXCEPT !.pc = pc]
<1>2. \A pc \in {"connect", "outdated"} : AnalyzerType(at(pc)) /\ at(pc).pc = pc
  BY <1>1 DEF AnalyzerType
<1>3. AnalyzerType([Blank EXCEPT !.pc = "failed"]) /\ [Blank EXCEPT !.pc = "failed"].pc = "failed"
  BY StopType DEF Blank
<1>4. \A pc : /\ Step(a, pc) => analyzer' = [analyzer EXCEPT ![a] = at(pc)]
              /\ Stop(a, pc) => analyzer' = [analyzer EXCEPT ![a] = [Blank EXCEPT !.pc = pc]]
  BY DEF Step, Stop
<1>5. CASE Rebuild(a)
  <2>1. current' = 0 /\ made' = made /\ Step(a, "connect") /\ UNCHANGED <<lines, size, files, reader>>
    BY <1>5 DEF Rebuild
  <2> HIDE DEF at
  <2>2. QED
    BY <1>2, <1>4, <2>1, AnalyzerStep
<1>6. CASE Look(a)
  <2>1. current' = current /\ made' = made /\ UNCHANGED <<lines, size, files, reader>>
    BY <1>6 DEF Look
  <2>2. \/ Stop(a, "failed")
        \/ \E pc \in {"connect", "outdated"} :
              Step(a, pc) /\ ~(current # 0 /\ files[current].schema = "newer")
    BY <1>6 DEF Look
  <2> HIDE DEF at
  <2>3. QED
    BY <1>2, <1>3, <1>4, <2>1, <2>2, AnalyzerStep
<1>7. CASE Discard(a)
  <2>1. current' = 0 /\ made' = made /\ UNCHANGED <<lines, size, files, reader>>
        /\ (Stop(a, "failed") \/ Step(a, "connect"))
    BY <1>7 DEF Discard
  <2> HIDE DEF at
  <2>2. QED
    BY <1>2, <1>3, <1>4, <2>1, AnalyzerStep
<1>8. CASE Busy(a)
  <2>1. current' = current /\ made' = made /\ UNCHANGED <<lines, size, files, reader>>
        /\ Stop(a, "failed")
    BY <1>8 DEF Busy
  <2> HIDE DEF at
  <2>2. QED
    BY <1>3, <1>4, <2>1, AnalyzerStep
<1>9. CASE Connect(a)
  <2>1. /\ analyzer[a].pc = "connect" /\ UNCHANGED <<lines, size, files, reader>>
        /\ \/ current = 0 /\ made < MaxFiles /\ made' = made + 1 /\ current' = made + 1
           \/ current # 0 /\ made' = made /\ current' = current
        /\ analyzer' = [analyzer EXCEPT ![a].pc = "open", ![a].file = current']
    BY <1>9 DEF Connect
  <2>2. ~(current # 0 /\ files[current].schema = "newer")
    BY <2>1 DEF IInv, NewerInv
  <2>3. current' \in Generations
    BY <1>1, <2>1, BoundAssumption DEF Generations
  <2> DEFINE x == [analyzer[a] EXCEPT !.pc = "open", !.file = current']
  <2>4. AnalyzerType(x)
    BY <1>1, <2>3 DEF AnalyzerType
  <2>5. analyzer' = [analyzer EXCEPT ![a] = x]
    BY <2>1
  <2> HIDE DEF x, at
  <2>6. QED
    BY <2>1, <2>2, <2>4, <2>5, AnalyzerStep
<1>10. QED
  BY <1>5, <1>6, <1>7, <1>8, <1>9

LEMMA LockIInv ==
    ASSUME IInv, NEW a \in Analyzers, Begin(a) \/ Kill(a)
    PROVE  IInv'
<1>1. /\ AnalyzerType(analyzer[a]) /\ analyzer[a].pc \in {"open", "writing"}
      /\ analyzer[a].file \in Generations
      /\ FileType(Opened(a)) /\ StoreOK(lines, Opened(a))
  BY DEF IInv, TypeInv, AnalyzerType, StoreInv, Opened, Begin, Kill
<1>2. ASSUME NEW writer
      PROVE  LET g == [Opened(a) EXCEPT !.writer = writer]
             IN  Grows(Opened(a), g) /\ StoreOK(lines, g)
  BY <1>1 DEF Grows, FileType, StoreOK
<1>3. \E writer : files' = [files EXCEPT ![analyzer[a].file] = [Opened(a) EXCEPT !.writer = writer]]
  BY DEF Begin, Kill, Opened
<1>4. UNCHANGED <<lines, size, current, made, reader>>
  BY DEF Begin, Kill
<1>5. \E x : AnalyzerType(x) /\ analyzer' = [analyzer EXCEPT ![a] = x]
  <2>1. CASE Begin(a)
    <3>1. AnalyzerType([analyzer[a] EXCEPT !.pc = "writing"])
      BY <1>1 DEF AnalyzerType
    <3>2. analyzer' = [analyzer EXCEPT ![a] = [analyzer[a] EXCEPT !.pc = "writing"]]
      BY <2>1 DEF Begin, Step
    <3>3. QED
      BY <3>1, <3>2
  <2>2. CASE Kill(a)
    BY <2>2, StopType DEF Kill, Stop
  <2>3. QED
    BY <2>1, <2>2
<1>6. QED
  BY <1>1, <1>2, <1>3, <1>4, <1>5, WriteStep

LEMMA CommitIInv ==
    ASSUME IInv, NEW a \in Analyzers, Commit(a) \/ CommitPart(a)
    PROVE  IInv'
<1> DEFINE f == Opened(a)
           n == analyzer[a].read
<1>1. /\ AnalyzerType(analyzer[a]) /\ analyzer[a].pc = "writing" /\ n \in Nat
      /\ FileType(f) /\ StoreOK(lines, f) /\ f.last \in Nat
  BY DEF IInv, TypeInv, AnalyzerType, FileType, StoreInv, Opened, Commit, CommitPart
<1>2. PICK keep, run :
          /\ keep \subseteq f.runs
          /\ RunOK(lines, run) /\ run.id = f.last + 1
          /\ run.whole => \A other \in keep : other.session # run.session
          /\ files' = [files EXCEPT ![analyzer[a].file] =
                          [f EXCEPT !.runs = keep \cup {run}, !.last = run.id, !.writer = 0]]
  <2>1. CASE Commit(a)
    <3> DEFINE run == NewRun(a, Located(lines, n), TRUE)
               keep == Others(f.runs, run.session)
    <3>1. /\ run.id = f.last + 1 /\ run.rows = Located(lines, n) /\ run.whole /\ run.read = n
      BY DEF NewRun
    <3>2. files' = [files EXCEPT ![analyzer[a].file] =
                       [f EXCEPT !.runs = keep \cup {run}, !.last = run.id, !.writer = 0]]
      BY <2>1 DEF Commit, Write
    <3> HIDE DEF run
    <3>3. RunOK(lines, run)
      BY <1>1, <3>1, LocatedOK DEF RunOK
    <3>4. keep \in SUBSET f.runs /\ \A other \in keep : other.session # run.session
      BY DEF Others
    <3>5. QED
      BY <3>1, <3>2, <3>3, <3>4
  <2>2. CASE CommitPart(a)
    <3> DEFINE k == CHOOSE m \in 1..n : Repeats(lines, m) /\ ~Repeats(lines, m - 1)
               run == NewRun(a, Located(lines, k - 1), FALSE)
    <3>1. /\ run.id = f.last + 1 /\ run.rows = Located(lines, k - 1) /\ ~run.whole
          /\ run.read = n
      BY DEF NewRun
    <3>2. /\ files' = [files EXCEPT ![analyzer[a].file] =
                          [f EXCEPT !.runs = f.runs \cup {run}, !.last = run.id, !.writer = 0]]
          /\ Repeats(lines, n)
      BY <2>2 DEF CommitPart, Write
    <3> HIDE DEF run, k
    <3>3. RunOK(lines, run)
      BY <1>1, <3>1, <3>2, LocatedOK DEF RunOK
    <3>4. QED
      BY <3>1, <3>2, <3>3
  <2>3. QED
    BY <2>1, <2>2
<1> DEFINE g == [f EXCEPT !.runs = keep \cup {run}, !.last = run.id, !.writer = 0]
<1>3. Grows(f, g) /\ StoreOK(lines, g)
  BY <1>1, <1>2, WriteRun
<1>4. files' = [files EXCEPT ![analyzer[a].file] = g]
  BY <1>2
<1>5. UNCHANGED <<lines, size, current, made, reader>>
  BY DEF Commit, CommitPart
<1>6. \E x : AnalyzerType(x) /\ analyzer' = [analyzer EXCEPT ![a] = x]
  BY StopType DEF Commit, CommitPart, Stop
<1> HIDE DEF g, f
<1>7. Grows(Opened(a), g)
  BY <1>3 DEF f
<1>8. QED
  BY <1>1, <1>3, <1>4, <1>5, <1>6, <1>7, WriteStep

-----------------------------------------------------------------------------
(* The readers.                                                            *)

LEMMA Least ==
    ASSUME NEW S \in SUBSET Nat, S # {} PROVE \E x \in S : \A y \in S : x <= y
<1>1. PICK x \in S : \A y \in S : <<y, x>> \notin OpToRel(<, Nat)
  BY WFMin, NatLessThanWellFounded, Zenon
<1>2. \A y \in S : ~(y < x)
  BY <1>1, Zenon DEF OpToRel
<1>3. QED
  BY <1>2

(* There is a newest run among those of this build's analysis.             *)
LEMMA NewestOK ==
    ASSUME NEW log, NEW f, FileType(f), StoreOK(log, f), Usable(f) # {}
    PROVE  Newest(f) \in Usable(f)
<1> DEFINE S == {f.last - run.id : run \in Usable(f)}
<1>1. \A run \in Usable(f) : run.id \in Nat /\ f.last \in Nat /\ run.id <= f.last
  BY DEF Usable, StoreOK, RunOK, FileType
<1>2. S \in SUBSET Nat /\ S # {}
  <2>1. \A run \in Usable(f) : f.last - run.id \in Nat
    BY <1>1
  <2>2. QED
    BY <2>1
<1> HIDE DEF S
<1>3. PICK d \in S : \A e \in S : d <= e
  BY <1>2, Least
<1>4. PICK run \in Usable(f) : d = f.last - run.id
  BY DEF S
<1>5. ASSUME NEW other \in Usable(f) PROVE other.id <= run.id
  <2>1. f.last - other.id \in S
    BY DEF S
  <2>2. f.last - run.id <= f.last - other.id
    BY <1>3, <1>4, <2>1
  <2>3. QED
    BY <1>1, <2>2
<1>6. QED
  BY <1>5 DEF Newest

LEMMA ReaderStep ==
    ASSUME IInv, NEW r \in Readers, NEW x, ReaderType(size, x), ReaderOK(lines, files, x),
           reader' = [reader EXCEPT ![r] = x],
           UNCHANGED <<lines, size, files, current, made, analyzer>>
    PROVE  IInv'
<1>1. /\ DOMAIN reader' = Readers /\ reader'[r] = x
      /\ \A q \in Readers : q # r => reader'[q] = reader[q]
  BY DEF IInv, TypeInv
<1>2. \A q \in Readers : ReaderType(size, reader'[q]) /\ ReaderOK(lines, files, reader'[q])
  BY <1>1 DEF IInv, TypeInv, ReaderInv
<1>3. TypeInv' /\ ReaderInv'
  BY <1>1, <1>2 DEF IInv, TypeInv, ReaderInv
<1>4. StoreInv' /\ NewerInv'
  BY DEF IInv, StoreInv, NewerInv
<1>5. QED
  BY <1>3, <1>4 DEF IInv

LEMMA FailedReader ==
    ASSUME NEW log, NEW fs, NEW now \in Nat
    PROVE  LET x == [Fresh EXCEPT !.pc = "failed"]
           IN  ReaderType(now, x) /\ ReaderOK(log, fs, x)
BY DEF ReaderType, ReaderOK, Fresh

LEMMA OpenReaderIInv ==
    ASSUME IInv, NEW r \in Readers, OpenReader(r) PROVE IInv'
<1> DEFINE x == reader[r]
           f == files[current]
<1>1. /\ x.pc = "start" /\ current # 0
      /\ UNCHANGED <<lines, size, files, current, made, analyzer>>
  BY DEF OpenReader
<1>2. /\ ReaderType(size, x) /\ ReaderOK(lines, files, x) /\ size \in Nat
      /\ current \in Generations /\ FileType(f) /\ StoreOK(lines, f)
  <2>1. current \in Generations
    BY <1>1, BoundAssumption DEF IInv, TypeInv, Generations
  <2>2. QED
    BY <2>1 DEF IInv, TypeInv, ReaderInv, StoreInv
<1>3. CASE f.schema = "current" /\ Usable(f) # {}
  <2> DEFINE y == [x EXCEPT !.pc = "idle", !.file = current, !.run = Newest(f)]
  <2>1. reader' = [reader EXCEPT ![r] = y]
    BY <1>3 DEF OpenReader
  <2>2. Newest(f) \in Usable(f)
    BY <1>2, <1>3, NewestOK
  <2>3. /\ RunOK(lines, Newest(f)) /\ Newest(f).version = "current"
        /\ Newest(f).id <= f.last
    BY <1>2, <2>2 DEF Usable, StoreOK
  <2>4. /\ ReaderType(size, y) /\ y.pc = "idle" /\ y.file = current /\ y.run = Newest(f)
        /\ y.answer = x.answer
    BY <1>2 DEF ReaderType
  <2> HIDE DEF y
  <2>5. x.answer = "none"
    BY <1>1, <1>2 DEF ReaderOK
  <2>6. HoldsRun(lines, files, y)
    BY <1>2, <2>3, <2>4 DEF HoldsRun
  <2>7. ReaderOK(lines, files, y)
    BY <2>4, <2>5, <2>6 DEF ReaderOK
  <2>8. QED
    BY <1>1, <2>1, <2>4, <2>7, ReaderStep
<1>4. CASE ~(f.schema = "current" /\ Usable(f) # {})
  <2>1. reader' = [reader EXCEPT ![r] = [Fresh EXCEPT !.pc = "failed"]]
    BY <1>4 DEF OpenReader
  <2>2. QED
    BY <1>1, <1>2, <2>1, FailedReader, ReaderStep
<1>5. QED
  BY <1>3, <1>4

LEMMA AskIInv ==
    ASSUME IInv, NEW r \in Readers, NEW id \in Ids, Ask(r, id) PROVE IInv'
<1> DEFINE x == reader[r]
           rows == IF Kept(files[x.file], x.run) THEN {row \in x.run.rows : row.id = id} ELSE {}
           line == IF rows = {} THEN 0 ELSE (CHOOSE row \in rows : TRUE).line
           pc == IF rows = {} THEN "missing" ELSE "found"
           y == [x EXCEPT !.pc = pc, !.line = line, !.id = id, !.asks = @ + 1,
                          !.asked = size, !.first = ~x.verified, !.answer = "none"]
<1>1. /\ x.pc = "idle" /\ UNCHANGED <<lines, size, files, current, made, analyzer>>
      /\ reader' = [reader EXCEPT ![r] = y]
  BY DEF Ask
<1>2. ReaderType(size, x) /\ ReaderOK(lines, files, x) /\ size \in Nat
  BY DEF IInv, TypeInv, ReaderInv
<1>3. HoldsRun(lines, files, x)
  BY <1>1, <1>2 DEF ReaderOK
<1> HIDE DEF line, pc, rows
<1>4. /\ ReaderType(size, y)
      /\ y.pc = pc /\ y.line = line /\ y.id = id /\ y.first = ~x.verified
      /\ y.verified = x.verified /\ y.answer = "none" /\ y.run = x.run /\ y.file = x.file
  BY <1>2 DEF ReaderType
<1>5. HoldsRun(lines, files, y)
  BY <1>3, <1>4 DEF HoldsRun
<1>6. rows # {} => lines[line] = id
  <2>1. \A row \in rows : lines[row.line] = id
    BY <1>3 DEF HoldsRun, RunOK, rows
  <2>2. rows # {} => (CHOOSE row \in rows : TRUE) \in rows
    OBVIOUS
  <2>3. QED
    BY <2>1, <2>2 DEF line
<1>7. rows = {} /\ Kept(files[x.file], x.run) => \A row \in x.run.rows : row.id # id
  BY DEF rows
<1>8. pc \in {"missing", "found"} /\ (pc = "missing" <=> rows = {})
  BY DEF pc
<1> HIDE DEF y, x
<1>9. ReaderOK(lines, files, y)
  BY <1>4, <1>5, <1>6, <1>7, <1>8 DEF ReaderOK
<1>10. QED
  BY <1>1, <1>4, <1>9, ReaderStep

LEMMA ServeIInv ==
    ASSUME IInv, NEW r \in Readers, Serve(r) PROVE IInv'
<1> DEFINE x == reader[r]
           y == [x EXCEPT !.pc = "idle", !.answer = "event", !.verified = TRUE,
                          !.asked = 0, !.first = FALSE]
<1>1. /\ x.pc = "found" /\ UNCHANGED <<lines, size, files, current, made, analyzer>>
      /\ reader' = [reader EXCEPT ![r] = y]
  BY DEF Serve
<1>2. ReaderType(size, x) /\ ReaderOK(lines, files, x) /\ size \in Nat
  BY DEF IInv, TypeInv, ReaderInv
<1>3. /\ ReaderType(size, y) /\ y.pc = "idle" /\ y.answer = "event"
      /\ y.line = x.line /\ y.id = x.id /\ y.run = x.run /\ y.file = x.file
  BY <1>2 DEF ReaderType
<1> HIDE DEF y
<1>4. HoldsRun(lines, files, x) /\ lines[x.line] = x.id
  BY <1>1, <1>2 DEF ReaderOK
<1>5. HoldsRun(lines, files, y)
  BY <1>3, <1>4 DEF HoldsRun
<1>6. ReaderOK(lines, files, y)
  BY <1>3, <1>4, <1>5 DEF ReaderOK
<1>7. QED
  BY <1>1, <1>3, <1>6, ReaderStep

(* An answer of "no such event": what was in the log when it was asked for *)
(* had been read when the run was made.                                    *)
LEMMA AbsentIInv ==
    ASSUME IInv, NEW r \in Readers, Absent(r) PROVE IInv'
<1> DEFINE x == reader[r]
           y == [x EXCEPT !.pc = "idle", !.answer = "absent", !.verified = TRUE]
<1>1. /\ x.pc = "missing" /\ Matches(r)
      /\ UNCHANGED <<lines, size, files, current, made, analyzer>>
      /\ reader' = [reader EXCEPT ![r] = y]
  BY DEF Absent
<1>2. ReaderType(size, x) /\ ReaderOK(lines, files, x) /\ size \in Nat
  BY DEF IInv, TypeInv, ReaderInv
<1>3. /\ ReaderType(size, y) /\ y.pc = "idle" /\ y.answer = "absent" /\ y.first = x.first
      /\ y.line = x.line /\ y.id = x.id /\ y.run = x.run /\ y.file = x.file
      /\ y.asked = x.asked
  BY <1>2 DEF ReaderType
<1> HIDE DEF y
<1>4. /\ HoldsRun(lines, files, x)
      /\ x.first => ~x.verified
      /\ Kept(files[x.file], x.run) => \A row \in x.run.rows : row.id # x.id
  BY <1>1, <1>2 DEF ReaderOK
<1>5. HoldsRun(lines, files, y)
  BY <1>3, <1>4 DEF HoldsRun
<1>6. ASSUME x.first, x.run.read = x.run.size \div 2, x.run.whole
      PROVE  x.id \notin EventIds(lines, x.asked \div 2)
  <2>1. Kept(files[x.file], x.run) /\ size = x.run.size
    BY <1>1, <1>4, <1>6 DEF Matches
  <2>2. x.run.rows = Located(lines, x.run.read) /\ x.run.read \in Nat
    BY <1>4, <1>6 DEF HoldsRun, RunOK
  <2>3. x.id \notin EventIds(lines, x.run.read)
    <3>1. {row.id : row \in x.run.rows} = EventIds(lines, x.run.read)
      BY <2>2, LocatedOK
    <3>2. QED
      BY <1>4, <2>1, <3>1
  <2>4. x.asked \div 2 \in Nat /\ x.asked \div 2 <= x.run.read
    <3>1. x.asked \in Nat /\ x.asked <= size /\ x.run.read = size \div 2
      BY <1>2, <1>6, <2>1 DEF ReaderType
    <3>2. QED
      BY <1>2, <3>1
  <2>5. QED
    BY <2>2, <2>3, <2>4, EventIdsGrow
<1>7. ReaderOK(lines, files, y)
  BY <1>3, <1>5, <1>6 DEF ReaderOK
<1>8. QED
  BY <1>1, <1>3, <1>7, ReaderStep

LEMMA StaleIInv ==
    ASSUME IInv, NEW r \in Readers, Stale(r) PROVE IInv'
BY FailedReader, ReaderStep DEF Stale, IInv, TypeInv

(* The log grows, or nothing happens.                                      *)
LEMMA CaptureIInv ==
    ASSUME IInv, Capture \/ UNCHANGED vars PROVE IInv'
<1>1. /\ size \in Nat /\ size' \in {size, size + 1}
      /\ UNCHANGED <<lines, files, current, made, analyzer, reader>>
  BY DEF Capture, vars, IInv, TypeInv
<1>2. \A r \in Readers : ReaderType(size', reader[r])
  <2>1. \A r \in Readers : ReaderType(size, reader[r])
    BY DEF IInv, TypeInv
  <2>2. QED
    BY <1>1, <2>1 DEF ReaderType
<1>3. TypeInv'
  BY <1>1, <1>2 DEF IInv, TypeInv
<1>4. StoreInv' /\ NewerInv' /\ ReaderInv'
  BY <1>1 DEF IInv, StoreInv, NewerInv, ReaderInv
<1>5. QED
  BY <1>3, <1>4 DEF IInv

LEMMA NextIInv ==
    ASSUME IInv, [Next]_vars PROVE IInv'
<1>1. CASE Capture \/ UNCHANGED vars
  BY <1>1, CaptureIInv
<1>2. CASE \E a \in Analyzers : Analyze(a)
  BY <1>2, FingerprintIInv, OpeningIInv, LockIInv, CommitIInv DEF Analyze
<1>3. CASE \E r \in Readers : Read(r)
  BY <1>3, OpenReaderIInv, AskIInv, ServeIInv, AbsentIInv, StaleIInv DEF Read
<1>4. QED
  BY <1>1, <1>2, <1>3, Zenon DEF Next

-----------------------------------------------------------------------------
(* Every file is in order, and every reader holds a run that its file held *)
(* (IInv), whatever processes overlap, rebuild, wait and are killed.       *)
THEOREM StoreInvariant == Spec => []IInv
<1>1. Init => IInv
  BY InitIInv
<1>2. IInv /\ [Next]_vars => IInv'
  BY NextIInv
<1>3. QED
  BY <1>1, <1>2, PTL DEF Spec

(* The payload served for an id is the event of that id.                   *)
THEOREM ServedTheorem == Spec => []ServedIsAsked
<1>1. IInv => ServedIsAsked
  BY DEF IInv, ReaderInv, ReaderOK, ServedIsAsked
<1>2. QED
  BY <1>1, StoreInvariant, PTL

(* "No such event", said by a reader that verified the log to say it, is   *)
(* true of the log as it was when it was asked.                            *)
THEOREM AbsentTheorem == Spec => []AbsentIsAbsent
<1>1. IInv => AbsentIsAbsent
  BY DEF IInv, ReaderInv, ReaderOK, AbsentIsAbsent
<1>2. QED
  BY <1>1, StoreInvariant, PTL

(* A store holds one finished run of a session, with a row for every event *)
(* that was read, whatever follows it being what a repeated id left.       *)
THEOREM FinishedTheorem == Spec => []FinishedRunStands
<1>1. IInv => FinishedRunStands
  <2> SUFFICES ASSUME IInv, NEW g \in Generations, NEW run \in files[g].runs
               PROVE  /\ run.whole => \A other \in files[g].runs :
                                other.id < run.id => other.session # run.session
                      /\ run.version = "current" /\ run.whole =>
                             {row.id : row \in run.rows} = EventIds(lines, run.read)
                      /\ ~run.whole => Repeats(lines, run.read)
    BY DEF FinishedRunStands
  <2>1. /\ RunOK(lines, run)
        /\ run.whole => \A other \in files[g].runs :
               other.id < run.id => other.session # run.session
    BY DEF IInv, StoreInv, StoreOK
  <2>2. run.version = "current" /\ run.whole =>
            {row.id : row \in run.rows} = EventIds(lines, run.read)
    BY <2>1, LocatedOK DEF RunOK
  <2>3. QED
    BY <2>1, <2>2 DEF RunOK
<1>2. QED
  BY <1>1, StoreInvariant, PTL

(* docs/derived-store-versioning.md, edge 6: a newer build's store is      *)
(* written by nobody, and leaves its path only when a rebuild is asked for. *)
THEOREM NewerTheorem == Spec => NewerStoreUntouched
<1> DEFINE Touch == current # 0 /\ files[current].schema = "newer" =>
                        /\ files'[current] = files[current]
                        /\ current' # current => \E a \in Rebuilders : Rebuild(a)
<1>1. IInv /\ [Next]_vars => [Touch]_vars
  <2> SUFFICES ASSUME IInv, Next, current # 0, files[current].schema = "newer"
               PROVE  /\ files'[current] = files[current]
                      /\ current' # current => \E a \in Rebuilders : Rebuild(a)
    OBVIOUS
  <2>1. /\ current \in Generations /\ DOMAIN files = Generations
        /\ \A a \in Analyzers :
               analyzer[a].pc \notin {"outdated", "connect", "open", "writing"}
    BY BoundAssumption DEF IInv, TypeInv, NewerInv, Generations
  <2>2. CASE Capture \/ \E r \in Readers : Read(r)
    BY <2>2 DEF Capture, Read, OpenReader, Ask, Absent, Serve, Stale
  <2>3. CASE \E a \in Analyzers : Analyze(a)
    <3>1. PICK a \in Analyzers : Analyze(a)
      BY <2>3
    <3>2. ReadLog(a) \/ StatLog(a) \/ HashLog(a) \/ Rebuild(a) \/ Look(a) \/ Busy(a)
      BY <2>1, <3>1 DEF Analyze, Discard, Connect, Begin, Commit, CommitPart, Kill
    <3>3. CASE Rebuild(a)
      BY <3>3 DEF Rebuild
    <3>4. CASE ReadLog(a) \/ StatLog(a) \/ HashLog(a) \/ Look(a) \/ Busy(a)
      BY <3>4 DEF ReadLog, StatLog, HashLog, Look, Busy
    <3>5. QED
      BY <3>2, <3>3, <3>4
  <2>4. QED
    BY <2>2, <2>3 DEF Next
<1>2. QED
  BY <1>1, StoreInvariant, PTL DEF Spec, NewerStoreUntouched

-----------------------------------------------------------------------------
(* The walk.                                                               *)

(* Numbers in order: each of them once.                                    *)
LEMMA InOrderIs ==
    ASSUME NEW I \in SUBSET Nat, IsFiniteSet(I)
    PROVE  /\ Cardinality(I) \in Nat
           /\ InOrder(I) \in [1..Cardinality(I) -> I]
           /\ \A j, k \in 1..Cardinality(I) : j < k => InOrder(I)[j] < InOrder(I)[k]
           /\ \A i \in I : \E k \in 1..Cardinality(I) : InOrder(I)[k] = i
<1> DEFINE n == Cardinality(I)
           Under(i) == {j \in I : j < i}
           rank == [i \in I |-> Cardinality(Under(i))]
<1>1. n \in Nat
  BY FS_CardinalityType
<1>2. \A i \in I : IsFiniteSet(Under(i)) /\ Cardinality(Under(i)) \in Nat
  BY FS_Subset, FS_CardinalityType
<1>3. \A i, j \in I : i < j => rank[i] < rank[j]
  <2> SUFFICES ASSUME NEW i \in I, NEW j \in I, i < j PROVE rank[i] < rank[j]
    OBVIOUS
  <2>1. Under(i) \cup {i} \in SUBSET Under(j) /\ i \notin Under(i)
    <3>1. i \in Nat /\ j \in Nat /\ \A x \in I : x \in Nat
      OBVIOUS
    <3>2. ~(i < i) /\ \A x \in I : x < i => x < j
      BY <3>1
    <3>3. QED
      BY <3>2
  <2>2. Cardinality(Under(i) \cup {i}) = Cardinality(Under(i)) + 1
    BY <1>2, <2>1, FS_AddElement
  <2>3. Cardinality(Under(i) \cup {i}) <= Cardinality(Under(j))
    BY <1>2, <2>1, FS_Subset
  <2>4. QED
    BY <1>2, <2>2, <2>3
<1>4. \A i \in I : rank[i] \in 0..(n - 1)
  <2> SUFFICES ASSUME NEW i \in I PROVE rank[i] \in 0..(n - 1)
    OBVIOUS
  <2>1. Under(i) \in SUBSET (I \ {i})
    OBVIOUS
  <2>2. IsFiniteSet(I \ {i}) /\ Cardinality(I \ {i}) = n - 1
    BY FS_RemoveElement
  <2>3. Cardinality(Under(i)) <= n - 1
    BY <2>1, <2>2, FS_Subset
  <2>4. QED
    BY <1>1, <1>2, <2>3
<1> HIDE DEF rank, Under
<1>5. rank \in Surjection(I, 0..(n - 1))
  <2>1. rank \in [I -> 0..(n - 1)]
    BY <1>4 DEF rank
  <2>2. \A i, j \in I : rank[i] = rank[j] => i = j
    <3> SUFFICES ASSUME NEW i \in I, NEW j \in I, rank[i] = rank[j] PROVE i = j
      OBVIOUS
    <3>1. ~(rank[i] < rank[j]) /\ ~(rank[j] < rank[i])
      BY <1>1, <1>4
    <3>2. QED
      BY <1>3, <3>1
  <2>3. rank \in Injection(I, 0..(n - 1))
    BY <2>1, <2>2 DEF Injection, IsInjective
  <2>4. IsFiniteSet(0..(n - 1)) /\ Cardinality(0..(n - 1)) = n
    <3>1. PICK m \in Int : m = n - 1
      BY <1>1
    <3>2. IsFiniteSet(0..m) /\ Cardinality(0..m) = IF 0 > m THEN 0 ELSE m - 0 + 1
      BY FS_Interval
    <3>3. QED
      BY <1>1, <3>1, <3>2
  <2>5. QED
    BY <2>3, <2>4, FS_Injection
<1>6. \A k \in 1..n : InOrder(I)[k] \in I /\ rank[InOrder(I)[k]] = k - 1
  <2> SUFFICES ASSUME NEW k \in 1..n
               PROVE  InOrder(I)[k] \in I /\ rank[InOrder(I)[k]] = k - 1
    OBVIOUS
  <2>1. k - 1 \in 0..(n - 1)
    BY <1>1
  <2>2. PICK i \in I : rank[i] = k - 1
    BY <1>5, <2>1 DEF Surjection
  <2>3. InOrder(I)[k] = CHOOSE x \in I : Cardinality({j \in I : j < x}) = k - 1
    BY DEF InOrder
  <2>4. \A x \in I : rank[x] = Cardinality({j \in I : j < x})
    BY DEF rank, Under
  <2>5. QED
    BY <2>2, <2>3, <2>4
<1>7. InOrder(I) \in [1..n -> I]
  BY <1>6 DEF InOrder
<1>8. \A j, k \in 1..n : j < k => InOrder(I)[j] < InOrder(I)[k]
  <2> SUFFICES ASSUME NEW j \in 1..n, NEW k \in 1..n, j < k PROVE InOrder(I)[j] < InOrder(I)[k]
    OBVIOUS
  <2> DEFINE x == InOrder(I)[j]
             y == InOrder(I)[k]
  <2>1. x \in I /\ y \in I /\ rank[x] < rank[y]
    BY <1>1, <1>6
  <2> HIDE DEF x, y
  <2>2. ~(y < x) /\ y # x
    BY <1>1, <1>3, <1>4, <2>1
  <2>3. x < y
    BY <2>1, <2>2
  <2>4. QED
    BY <2>3 DEF x, y
<1>9. \A i \in I : \E k \in 1..n : InOrder(I)[k] = i
  <2> SUFFICES ASSUME NEW i \in I PROVE \E k \in 1..n : InOrder(I)[k] = i
    OBVIOUS
  <2>1. rank[i] + 1 \in 1..n
    BY <1>1, <1>4
  <2>2. PICK k \in 1..n : k = rank[i] + 1
    BY <2>1
  <2>3. rank[InOrder(I)[k]] = rank[i] /\ InOrder(I)[k] \in I
    BY <1>1, <1>4, <1>6, <2>2
  <2>4. PICK x \in I : x = InOrder(I)[k]
    BY <2>3
  <2>5. InOrder(I)[k] = i
    <3>1. ~(rank[x] < rank[i]) /\ ~(rank[i] < rank[x])
      BY <1>1, <1>4, <2>3, <2>4
    <3>2. ~(x < i) /\ ~(i < x) /\ x \in Nat /\ i \in Nat
      BY <1>3, <3>1
    <3>3. QED
      BY <2>4, <3>2
  <2>6. QED
    BY <2>5
<1>10. QED
  BY <1>1, <1>7, <1>8, <1>9

(* The rows of a run: finitely many, each with a seq of its own.           *)
Keyed(R) ==
    /\ IsFiniteSet(R) /\ \A r \in R : r.id \in Nat \ {0}
    /\ \A r, q \in R : r.id = q.id => r = q

(* A list of all of them in order.                                         *)
Lists(f, n, R) ==
    /\ n \in Nat /\ f \in [1..n -> R]
    /\ \A j, k \in 1..n : j < k => f[j].id < f[k].id
    /\ \A r \in R : \E k \in 1..n : f[k] = r

LEMMA SortedIs ==
    ASSUME NEW R, Keyed(R)
    PROVE  Lists(InSeqOrder(R), Cardinality(R), R)
<1> DEFINE I == {r.id : r \in R}
           order == InOrder(I)
           n == Cardinality(I)
           f == [r \in R |-> r.id]
<1>1. IsFiniteSet(R) /\ (\A r \in R : r.id \in Nat) /\ \A r, q \in R : r.id = q.id => r = q
  BY DEF Keyed
<1>2. f \in Bijection(R, I)
  BY <1>1 DEF Bijection, Injection, Surjection, IsInjective
<1>3. IsFiniteSet(I) /\ n = Cardinality(R)
  <2>1. IsFiniteSet(I)
    BY <1>1, <1>2, FS_Surjection DEF Bijection
  <2>2. ExistsBijection(R, I)
    BY <1>2 DEF ExistsBijection
  <2>3. QED
    BY <1>1, <2>1, <2>2, FS_Bijection
<1>4. I \in SUBSET Nat
  BY <1>1
<1>5. /\ n \in Nat /\ order \in [1..n -> I]
      /\ \A j, k \in 1..n : j < k => order[j] < order[k]
      /\ \A i \in I : \E k \in 1..n : order[k] = i
  <2> HIDE DEF I
  <2>1. QED
    BY <1>3, <1>4, InOrderIs
<1> HIDE DEF order, n
<1>6. InSeqOrder(R) = [k \in 1..n |-> CHOOSE r \in R : r.id = order[k]]
  BY <1>5 DEF InSeqOrder, order
<1>7. ASSUME NEW k \in 1..n PROVE InSeqOrder(R)[k] \in R /\ InSeqOrder(R)[k].id = order[k]
  <2>1. order[k] \in I
    BY <1>5
  <2>2. PICK r \in R : r.id = order[k]
    BY <2>1
  <2>3. PICK q : q = CHOOSE x \in R : x.id = order[k]
    OBVIOUS
  <2>4. q \in R /\ q.id = order[k]
    BY <2>2, <2>3
  <2>5. InSeqOrder(R)[k] = q
    BY <1>6, <2>3
  <2>6. QED
    BY <2>4, <2>5
<1>8. InSeqOrder(R) \in [1..n -> R]
  BY <1>6, <1>7
<1>9. \A j, k \in 1..n : j < k => InSeqOrder(R)[j].id < InSeqOrder(R)[k].id
  BY <1>5, <1>7
<1>10. ASSUME NEW r \in R PROVE \E k \in 1..n : InSeqOrder(R)[k] = r
  <2>1. r.id \in I
    OBVIOUS
  <2>2. PICK k \in 1..n : order[k] = r.id
    BY <1>5, <2>1
  <2>3. QED
    BY <1>1, <1>7, <2>2
<1>11. QED
  BY <1>3, <1>5, <1>8, <1>9, <1>10 DEF Lists

(* There is one such list.                                                 *)
LEMMA OneList ==
    ASSUME NEW R, Keyed(R), NEW f, NEW g, NEW m, NEW n, Lists(f, m, R), Lists(g, n, R)
    PROVE  f = g
<1>1. /\ m \in Nat /\ n \in Nat /\ f \in [1..m -> R] /\ g \in [1..n -> R]
      /\ \A k \in 1..m : f[k] \in R /\ f[k].id \in Nat
      /\ \A k \in 1..n : g[k] \in R /\ g[k].id \in Nat
  BY DEF Lists, Keyed
<1>2. \A j, k \in 1..m : j < k => f[j].id < f[k].id
  BY DEF Lists
<1>3. \A j, k \in 1..n : j < k => g[j].id < g[k].id
  BY DEF Lists
<1>4. (\A r \in R : \E k \in 1..m : f[k] = r) /\ \A r \in R : \E k \in 1..n : g[k] = r
  BY DEF Lists
<1>5. ASSUME NEW k \in Nat, k # 0, \A l \in 1..(k - 1) : l \in 1..m /\ l \in 1..n /\ f[l] = g[l]
      PROVE  k \in 1..m <=> k \in 1..n
  <2>1. ASSUME k \in 1..m, k \notin 1..n PROVE FALSE
    <3>1. PICK l \in 1..n : g[l] = f[k]
      BY <1>1, <1>4, <2>1
    <3>2. l \in 1..(k - 1) /\ l < k /\ l \in 1..m
      BY <1>1, <1>5, <2>1
    <3>3. f[l] = f[k] /\ f[l].id < f[k].id /\ f[k].id \in Nat
      BY <1>1, <1>2, <1>5, <2>1, <3>1, <3>2
    <3>4. QED
      BY <3>3
  <2>2. ASSUME k \in 1..n, k \notin 1..m PROVE FALSE
    <3>1. PICK l \in 1..m : f[l] = g[k]
      BY <1>1, <1>4, <2>2
    <3>2. l \in 1..(k - 1) /\ l < k /\ l \in 1..n
      BY <1>1, <1>5, <2>2
    <3>3. g[l] = g[k] /\ g[l].id < g[k].id /\ g[k].id \in Nat
      BY <1>1, <1>3, <1>5, <2>2, <3>1, <3>2
    <3>4. QED
      BY <3>3
  <2>3. QED
    BY <2>1, <2>2
<1>6. ASSUME NEW k \in 1..m, k \in 1..n, \A l \in 1..(k - 1) : l \in 1..m /\ l \in 1..n /\ f[l] = g[l]
      PROVE  f[k] = g[k]
  <2>1. f[k].id \in Nat /\ g[k].id \in Nat
    BY <1>1, <1>6
  <2>2. ~(f[k].id < g[k].id)
    <3>1. ASSUME f[k].id < g[k].id PROVE FALSE
      <4>1. PICK l \in 1..n : g[l] = f[k]
        BY <1>1, <1>4
      <4>2. ~(k < l) /\ l # k
        BY <1>3, <1>6, <2>1, <3>1, <4>1
      <4>3. l \in 1..(k - 1) /\ l < k /\ l \in 1..m
        BY <1>1, <1>6, <4>2
      <4>4. f[l] = f[k] /\ f[l].id < f[k].id
        BY <1>2, <1>6, <4>1, <4>3
      <4>5. QED
        BY <2>1, <4>4
    <3>2. QED
      BY <3>1
  <2>3. ~(g[k].id < f[k].id)
    <3>1. ASSUME g[k].id < f[k].id PROVE FALSE
      <4>1. PICK l \in 1..m : f[l] = g[k]
        BY <1>1, <1>4, <1>6
      <4>2. ~(k < l) /\ l # k
        BY <1>2, <1>6, <2>1, <3>1, <4>1
      <4>3. l \in 1..(k - 1) /\ l < k /\ l \in 1..n
        BY <1>1, <1>6, <4>2
      <4>4. g[l] = g[k] /\ g[l].id < g[k].id
        BY <1>3, <1>6, <4>1, <4>3
      <4>5. QED
        BY <2>1, <4>4
    <3>2. QED
      BY <3>1
  <2>4. f[k].id = g[k].id
    BY <2>1, <2>2, <2>3
  <2>5. QED
    BY <1>1, <1>6, <2>4 DEF Keyed
<1> DEFINE Apart == {k \in Nat \ {0} : ~(k \in 1..m <=> k \in 1..n) \/ (k \in 1..m /\ f[k] # g[k])}
<1>7. ASSUME Apart # {} PROVE FALSE
  <2>1. PICK k \in Apart : \A l \in Apart : k <= l
    <3>1. Apart \in SUBSET Nat
      OBVIOUS
    <3> HIDE DEF Apart
    <3>2. QED
      BY <1>7, <3>1, Least
  <2>2. k \in Nat /\ k # 0
    BY <2>1
  <2>3. k \in 1..m \/ k \in 1..n
    BY <2>1
  <2>4. ASSUME NEW l \in 1..(k - 1) PROVE l \in 1..m /\ l \in 1..n /\ f[l] = g[l]
    <3>1. l \in Nat \ {0} /\ l < k /\ l \notin Apart
      BY <2>1, <2>2
    <3>2. l \in 1..m \/ l \in 1..n
      BY <1>1, <2>2, <2>3, <3>1
    <3>3. QED
      BY <3>1, <3>2
  <2>5. k \in 1..m /\ k \in 1..n
    BY <1>5, <2>2, <2>3, <2>4
  <2>6. f[k] = g[k]
    BY <1>6, <2>4, <2>5
  <2>7. QED
    BY <2>1, <2>5, <2>6
<1>8. \A k \in Nat \ {0} : (k \in 1..m <=> k \in 1..n) /\ (k \in 1..m => f[k] = g[k])
  BY <1>7
<1> HIDE DEF Apart
<1>9. m = n
  <2>1. ~(m < n)
    <3>1. ASSUME m < n PROVE FALSE
      <4>1. n \in Nat \ {0} /\ n \in 1..n /\ n \notin 1..m
        BY <1>1, <3>1
      <4>2. QED
        BY <1>8, <4>1
    <3>2. QED
      BY <3>1
  <2>2. ~(n < m)
    <3>1. ASSUME n < m PROVE FALSE
      <4>1. m \in Nat \ {0} /\ m \in 1..m /\ m \notin 1..n
        BY <1>1, <3>1
      <4>2. QED
        BY <1>8, <4>1
    <3>2. QED
      BY <3>1
  <2>3. QED
    BY <1>1, <2>1, <2>2
<1>10. \A k \in 1..m : f[k] = g[k]
  <2>1. \A k \in 1..m : k \in Nat \ {0}
    BY <1>1
  <2>2. QED
    BY <1>8, <2>1
<1>11. QED
  BY <1>1, <1>9, <1>10

(* Where a reader is that has the first k of the rows.                     *)
CursorAt(s, k) == IF k = 0 THEN Start ELSE s[k].id

(* The rows after the cursor are the rest of the list.                     *)
LEMMA RestIs ==
    ASSUME NEW R, Keyed(R), NEW s, NEW n, Lists(s, n, R), NEW k \in 0..n
    PROVE  AfterCursor(R, CursorAt(s, k)) = [i \in 1..(n - k) |-> s[k + i]]
<1> DEFINE c == CursorAt(s, k)
           Q == {r \in R : r.id > c}
           t == [i \in 1..(n - k) |-> s[k + i]]
<1>1. /\ n \in Nat /\ s \in [1..n -> R]
      /\ \A j, l \in 1..n : j < l => s[j].id < s[l].id
      /\ \A r \in R : \E l \in 1..n : s[l] = r
      /\ \A l \in 1..n : s[l].id \in Nat \ {0}
  BY DEF Lists, Keyed
<1>2. c \in Nat /\ \A l \in 1..n : s[l].id > c <=> l > k
  <2>1. CASE k = 0
    BY <1>1, <2>1 DEF CursorAt, Start
  <2>2. CASE k # 0
    <3>1. k \in 1..n /\ c = s[k].id
      BY <1>1, <2>2 DEF CursorAt
    <3>2. ASSUME NEW l \in 1..n PROVE s[l].id > c <=> l > k
      <4>1. s[l].id \in Nat /\ s[k].id \in Nat
        BY <1>1, <3>1
      <4>2. CASE l > k
        <5>1. s[k].id < s[l].id
          BY <1>1, <3>1, <4>2
        <5>2. QED
          BY <3>1, <4>1, <4>2, <5>1
      <4>3. CASE l < k
        <5>1. s[l].id < s[k].id
          BY <1>1, <3>1, <4>3
        <5>2. QED
          BY <3>1, <4>1, <4>3, <5>1
      <4>4. CASE l = k
        BY <3>1, <4>1, <4>4
      <4>5. QED
        BY <1>1, <4>2, <4>3, <4>4
    <3>3. QED
      BY <1>1, <3>1, <3>2
  <2>3. QED
    BY <2>1, <2>2
<1> HIDE DEF c
<1>3. Keyed(Q)
  <2>1. Q \in SUBSET R /\ IsFiniteSet(R)
    BY DEF Keyed
  <2>2. IsFiniteSet(Q)
    BY <2>1, FS_Subset
  <2>3. QED
    BY <2>1, <2>2 DEF Keyed
<1>4. n - k \in Nat /\ \A i \in 1..(n - k) : k + i \in 1..n /\ k + i > k
  BY <1>1
<1>5. t \in [1..(n - k) -> Q]
  BY <1>1, <1>2, <1>4
<1>6. \A j, l \in 1..(n - k) : j < l => t[j].id < t[l].id
  BY <1>1, <1>4
<1>7. ASSUME NEW r \in Q PROVE \E l \in 1..(n - k) : t[l] = r
  <2>1. PICK l \in 1..n : s[l] = r
    BY <1>1
  <2>2. l > k
    BY <1>2, <2>1
  <2>3. l - k \in 1..(n - k) /\ k + (l - k) = l
    BY <1>1, <2>2
  <2>4. t[l - k] = r
    BY <2>1, <2>3
  <2>5. QED
    BY <2>3, <2>4
<1>8. Lists(t, n - k, Q)
  BY <1>4, <1>5, <1>6, <1>7 DEF Lists
<1> HIDE DEF t, Q
<1>9. InSeqOrder(Q) = t
  BY <1>3, <1>8, SortedIs, OneList
<1>10. QED
  BY <1>9 DEF AfterCursor, t, Q, c

(* A page of them.                                                         *)
LEMMA PageIs ==
    ASSUME NEW R, Keyed(R), NEW s, NEW n, Lists(s, n, R), NEW k \in 0..n, NEW limit \in Nat \ {0},
           NEW p, p = IF n - k > limit THEN limit ELSE n - k
    PROVE  /\ PageRows(R, CursorAt(s, k), limit) = [i \in 1..p |-> s[k + i]]
           /\ NextCursor(R, CursorAt(s, k), limit) =
                 IF n - k > limit THEN CursorAt(s, k + limit) ELSE Start
<1>1. n \in Nat /\ s \in [1..n -> R]
  BY DEF Lists
<1> DEFINE t == [i \in 1..(n - k) |-> s[k + i]]
<1>2. AfterCursor(R, CursorAt(s, k)) = t
  BY RestIs
<1>3. n - k \in Nat /\ p \in 0..(n - k)
  BY <1>1
<1>4. t \in Seq(R) /\ Len(t) = n - k
  <2>1. \A i \in 1..(n - k) : s[k + i] \in R
    BY <1>1
  <2>2. QED
    BY <1>3, <2>1
<1>5. \A i \in 1..(n - k) : t[i] = s[k + i]
  OBVIOUS
<1> HIDE DEF t
<1>6. SubSeq(t, 1, p) = [i \in 1..p |-> s[k + i]]
  <2>1. SubSeq(t, 1, p) = [i \in 1..p |-> t[i]]
    BY <1>3, <1>4
  <2>2. QED
    BY <1>3, <1>5, <2>1
<1>7. PageRows(R, CursorAt(s, k), limit) = [i \in 1..p |-> s[k + i]]
  BY <1>2, <1>4, <1>6 DEF PageRows
<1>8. NextCursor(R, CursorAt(s, k), limit) =
          IF n - k > limit THEN CursorAt(s, k + limit) ELSE Start
  <2>1. CASE n - k > limit
    <3>1. limit \in 1..(n - k) /\ k + limit # 0
      BY <1>3, <2>1
    <3>2. QED
      BY <1>2, <1>4, <1>5, <2>1, <3>1 DEF NextCursor, CursorAt
  <2>2. CASE ~(n - k > limit)
    BY <1>2, <1>4, <2>2 DEF NextCursor
  <2>3. QED
    BY <2>1, <2>2
<1>9. QED
  BY <1>7, <1>8

(* A list that is cut is joined again.                                     *)
LEMMA PagesJoin ==
    ASSUME NEW R, NEW n \in Nat, NEW s \in [1..n -> R], NEW a \in Nat, NEW b \in Nat, a + b <= n
    PROVE  [i \in 1..a |-> s[i]] \o [i \in 1..b |-> s[a + i]] = [i \in 1..(a + b) |-> s[i]]
<1> DEFINE p == [i \in 1..a |-> s[i]]
           q == [i \in 1..b |-> s[a + i]]
           r == [i \in 1..(a + b) |-> s[i]]
<1>1. p \in Seq(R) /\ Len(p) = a
  OBVIOUS
<1>2. q \in Seq(R) /\ Len(q) = b
  <2>1. \A i \in 1..b : s[a + i] \in R
    OBVIOUS
  <2>2. QED
    BY <2>1
<1>3. r \in Seq(R) /\ Len(r) = a + b
  OBVIOUS
<1>4. /\ \A i \in 1..a : p[i] = s[i]
      /\ \A i \in 1..b : q[i] = s[a + i]
      /\ \A i \in 1..(a + b) : r[i] = s[i]
  OBVIOUS
<1> HIDE DEF p, q, r
<1>5. p \o q \in Seq(R) /\ Len(p \o q) = a + b
  BY <1>1, <1>2
<1>6. ASSUME NEW i \in 1..(a + b) PROVE (p \o q)[i] = r[i]
  <2>1. CASE i <= a
    BY <1>1, <1>2, <1>4, <2>1
  <2>2. CASE ~(i <= a)
    <3>1. i - a \in 1..b /\ a + (i - a) = i
      BY <2>2
    <3>2. (p \o q)[i] = q[i - a]
      BY <1>1, <1>2, <2>2
    <3>3. QED
      BY <1>4, <3>1, <3>2
  <2>3. QED
    BY <2>1, <2>2
<1>7. p \o q = r
  <2>1. PICK u : u = p \o q
    OBVIOUS
  <2>2. u \in Seq(R) /\ Len(u) = a + b /\ \A i \in 1..(a + b) : u[i] = r[i]
    BY <1>5, <1>6, <2>1, Zenon
  <2>3. u = r
    BY <1>3, <2>2
  <2>4. QED
    BY <2>1, <2>3
<1>8. QED
  BY <1>7 DEF p, q, r

(* What a reader has and where it is, with the first k of the rows and     *)
(* more to come, and with all of them.                                     *)
Halfway(s, k) == [got |-> [i \in 1..k |-> s[i]], cursor |-> CursorAt(s, k), more |-> TRUE]
AtEnd(s) == [got |-> s, cursor |-> Start, more |-> FALSE]

LEMMA TurnIs ==
    ASSUME NEW R, Keyed(R), NEW s, NEW n, Lists(s, n, R), NEW k \in 0..n, NEW limit \in Nat \ {0}
    PROVE  TurnPage(R, limit, Halfway(s, k)) =
               IF n - k > limit THEN Halfway(s, k + limit) ELSE AtEnd(s)
<1>1. n \in Nat /\ s \in [1..n -> R] /\ \A l \in 1..n : s[l].id # 0
  BY DEF Lists, Keyed
<1> DEFINE p == IF n - k > limit THEN limit ELSE n - k
           next == NextCursor(R, CursorAt(s, k), limit)
           page == PageRows(R, CursorAt(s, k), limit)
           first == [i \in 1..k |-> s[i]]
<1>2. page = [i \in 1..p |-> s[k + i]] /\ next = IF n - k > limit THEN CursorAt(s, k + limit) ELSE Start
  BY PageIs
<1>3. TurnPage(R, limit, Halfway(s, k)) =
          [got |-> first \o page, cursor |-> next, more |-> next # Start]
  BY DEF TurnPage, Halfway
<1>4. p \in Nat /\ k + p <= n
  BY <1>1
<1>5. first \o page = [i \in 1..(k + p) |-> s[i]]
  <2> HIDE DEF p, page
  <2>1. QED
    BY <1>1, <1>2, <1>4, PagesJoin
<1> HIDE DEF next, page, first
<1>6. CASE n - k > limit
  <2>1. k + limit \in 1..n /\ p = limit
    BY <1>1, <1>6
  <2>2. CursorAt(s, k + limit) # Start
    BY <1>1, <2>1 DEF CursorAt, Start
  <2>3. QED
    BY <1>2, <1>3, <1>5, <1>6, <2>1, <2>2 DEF Halfway
<1>7. CASE ~(n - k > limit)
  <2>1. k + p = n
    BY <1>1, <1>7
  <2>2. first \o page = s
    BY <1>1, <1>5, <2>1
  <2>3. QED
    BY <1>2, <1>3, <1>7, <2>2 DEF AtEnd
<1>8. QED
  BY <1>6, <1>7

(* Following the cursors to the end.                                       *)
LEMMA WalkIs ==
    ASSUME NEW R, Keyed(R), NEW limit \in Nat \ {0}
    PROVE  Walk(R, limit, Cardinality(R) + 1) = InSeqOrder(R)
<1> DEFINE s == InSeqOrder(R)
           n == Cardinality(R)
           first == [got |-> <<>>, cursor |-> Start, more |-> TRUE]
           To(h, j) == h = [i \in 0..j |-> IF i = 0 THEN first ELSE TurnPage(R, limit, h[i - 1])]
           None == {j \in Nat : ~\E h : To(h, j)}
           chosen == CHOOSE h : To(h, n + 1)
           Fair(i) == chosen[i] = AtEnd(s) \/ \E k \in i..n : chosen[i] = Halfway(s, k)
           Wrong == {i \in 0..(n + 1) : ~Fair(i)}
<1>1. Lists(s, n, R) /\ n \in Nat
  BY SortedIs DEF Lists
<1> HIDE DEF s, n
<1>2. first = Halfway(s, 0)
  BY DEF Halfway, CursorAt
<1>3. ASSUME None # {} PROVE FALSE
  <2>1. PICK j \in None : \A l \in None : j <= l
    <3>1. None \in SUBSET Nat
      OBVIOUS
    <3> HIDE DEF None
    <3>2. QED
      BY <1>3, <3>1, Least
  <2> HIDE DEF first
  <2>2. j # 0
    <3>1. To([i \in 0..0 |-> first], 0)
      OBVIOUS
    <3>2. QED
      BY <2>1, <3>1, Zenon
  <2>3. j - 1 \in Nat /\ j - 1 \notin None
    BY <2>1, <2>2
  <2>4. PICK h : To(h, j - 1)
    BY <2>3
  <2> DEFINE f == [i \in 0..j |-> IF i = j THEN TurnPage(R, limit, h[j - 1]) ELSE h[i]]
  <2>5. ASSUME NEW i \in 0..j
        PROVE  f[i] = IF i = 0 THEN first ELSE TurnPage(R, limit, f[i - 1])
    <3>1. CASE i = j
      BY <2>2, <2>3, <3>1
    <3>2. CASE i # j
      <4>1. i \in 0..(j - 1)
        BY <2>3, <3>2
      <4>2. h[i] = IF i = 0 THEN first ELSE TurnPage(R, limit, h[i - 1])
        BY <2>4, <4>1
      <4>3. f[i] = h[i] /\ (i # 0 => f[i - 1] = h[i - 1])
        BY <3>2, <4>1
      <4>4. QED
        BY <4>2, <4>3
    <3>3. QED
      BY <3>1, <3>2
  <2>6. f = [i \in 0..j |-> f[i]]
    OBVIOUS
  <2> HIDE DEF f
  <2>7. To(f, j)
    BY <2>5, <2>6
  <2>8. QED
    BY <2>1, <2>7, Zenon
<1>4. To(chosen, n + 1)
  <2>1. n + 1 \in Nat
    BY <1>1
  <2>2. \E h : To(h, n + 1)
    <3> HIDE DEF To
    <3>1. QED
      BY <1>3, <2>1
  <2> HIDE DEF To
  <2>3. QED
    BY <2>2
<1>5. Walk(R, limit, n + 1) = chosen[n + 1].got
  BY DEF Walk
<1> HIDE DEF chosen, first
<1>6. ASSUME Wrong # {} PROVE FALSE
  <2>1. PICK i \in Wrong : \A l \in Wrong : i <= l
    <3>1. Wrong \in SUBSET Nat
      BY <1>1
    <3> HIDE DEF Wrong
    <3>2. QED
      BY <1>6, <3>1, Least
  <2>2. i \in 0..(n + 1) /\ ~Fair(i)
    BY <2>1
  <2>3. i # 0
    <3>1. chosen[0] = first
      BY <1>1, <1>4
    <3>2. QED
      BY <1>1, <1>2, <2>2, <3>1
  <2>4. i - 1 \in 0..(n + 1) /\ i - 1 < i
    BY <1>1, <2>2, <2>3
  <2>5. Fair(i - 1)
    BY <1>1, <2>1, <2>2, <2>4
  <2>6. chosen[i] = TurnPage(R, limit, chosen[i - 1])
    BY <1>4, <2>2, <2>3
  <2>7. CASE chosen[i - 1] = AtEnd(s)
    <3>1. TurnPage(R, limit, AtEnd(s)) = AtEnd(s)
      BY DEF TurnPage, AtEnd
    <3>2. QED
      BY <2>2, <2>6, <2>7, <3>1
  <2>8. CASE \E k \in (i - 1)..n : chosen[i - 1] = Halfway(s, k)
    <3>1. PICK k \in (i - 1)..n : chosen[i - 1] = Halfway(s, k)
      BY <2>8
    <3>2. k \in 0..n /\ i - 1 <= k
      BY <1>1, <2>4
    <3>3. chosen[i] = IF n - k > limit THEN Halfway(s, k + limit) ELSE AtEnd(s)
      BY <1>1, <2>6, <3>1, <3>2, TurnIs
    <3>4. CASE n - k > limit
      <4>1. k + limit \in i..n
        BY <1>1, <2>4, <3>2, <3>4
      <4>2. QED
        BY <2>2, <3>3, <3>4, <4>1
    <3>5. QED
      BY <2>2, <3>3, <3>4
  <2>9. QED
    BY <2>5, <2>7, <2>8
<1>7. chosen[n + 1] = AtEnd(s)
  <2>1. n + 1 \in 0..(n + 1) /\ \A k \in (n + 1)..n : FALSE
    BY <1>1
  <2>2. Fair(n + 1)
    BY <1>6, <2>1
  <2>3. QED
    BY <2>1, <2>2
<1>8. chosen[n + 1].got = s
  BY <1>7 DEF AtEnd
<1>9. QED
  BY <1>5, <1>8 DEF n, s

-----------------------------------------------------------------------------
(* The rows of every run: those of an unfinished one come before the event *)
(* that is repeated.                                                       *)
RowsInv ==
    /\ size \in 0..(2 * Len(lines))
    /\ \A a \in Analyzers : analyzer[a].read \in 0..Len(lines)
    /\ \A g \in Generations : \A run \in files[g].runs : run.whole => Keyed(run.rows)

(* A log that repeats no event is read into rows with seqs of their own.   *)
LEMMA LocatedKeyed ==
    ASSUME NEW log \in Seq(Ids \cup {Bad}), NEW n \in 0..Len(log), ~Repeats(log, n)
    PROVE  Keyed(Located(log, n))
<1> DEFINE I == {k \in 1..n : log[k] # Bad}
           f == [i \in I |-> [line |-> i, id |-> log[i]]]
<1>1. Len(log) \in Nat /\ \A i \in 1..n : log[i] \in Ids \cup {Bad}
  OBVIOUS
<1>2. \A i \in I : log[i] \in Nat \ {0}
  BY <1>1, IdAssumption
<1>3. Located(log, n) = {f[i] : i \in I}
  BY DEF Located
<1>4. IsFiniteSet(I)
  <2>1. IsFiniteSet(1..n)
    BY <1>1, FS_Interval
  <2>2. QED
    BY <2>1, FS_Subset
<1>5. IsFiniteSet(Located(log, n))
  <2>1. f \in Surjection(I, Located(log, n))
    BY <1>3 DEF Surjection
  <2>2. QED
    BY <1>4, <2>1, FS_Surjection
<1>6. \A r \in Located(log, n) : \E i \in I : r = f[i] /\ r.id = log[i]
  BY <1>3
<1>7. \A i, j \in I : log[i] = log[j] => i = j
  BY DEF Repeats
<1> HIDE DEF f
<1>8. \A r \in Located(log, n) : r.id \in Nat \ {0}
  BY <1>2, <1>6
<1>9. ASSUME NEW r \in Located(log, n), NEW q \in Located(log, n), r.id = q.id PROVE r = q
  BY <1>6, <1>7, <1>9
<1>10. QED
  BY <1>5, <1>8, <1>9 DEF Keyed

LEMMA InitRows == Init => RowsInv
<1> SUFFICES ASSUME Init PROVE RowsInv
  OBVIOUS
<1>1. Len(lines) \in Nat
  BY LogAssumption DEF Init
<1>2. ASSUME NEW g \in Generations, NEW run \in files[g].runs PROVE run.rows = {}
  <2>1. PICK schema : files[g] \in {NewFile, OldFile(schema)}
    BY DEF Init
  <2>2. NewFile.runs = {} /\ OldFile(schema).runs = {OldRun}
    BY DEF NewFile, OldFile
  <2>3. run = OldRun
    BY <2>1, <2>2
  <2>4. OldRun.rows = {}
    BY DEF OldRun, NoRun
  <2>5. QED
    BY <2>3, <2>4
<1>3. Keyed({})
  BY FS_EmptySet DEF Keyed
<1>4. size \in 0..(2 * Len(lines)) /\ \A a \in Analyzers : analyzer[a].read \in 0..Len(lines)
  BY <1>1 DEF Init, Blank
<1>5. QED
  BY <1>2, <1>3, <1>4 DEF RowsInv

LEMMA NextRows == IInv /\ RowsInv /\ [Next]_vars => RowsInv'
<1> SUFFICES ASSUME IInv, RowsInv, [Next]_vars PROVE RowsInv'
  OBVIOUS
<1>1. /\ lines \in Seq(Ids \cup {Bad}) /\ Len(lines) \in Nat /\ size \in 0..(2 * Len(lines))
      /\ DOMAIN analyzer = Analyzers /\ DOMAIN files = Generations
      /\ \A a \in Analyzers : DOMAIN analyzer[a] = {"pc", "read", "size", "digest", "file"}
  BY LogAssumption DEF IInv, TypeInv, RowsInv, AnalyzerType
<1>2. lines' = lines
  BY DEF Next, vars, Capture, Analyze, ReadLog, StatLog, HashLog, Rebuild, Look, Discard, Connect,
         Begin, Busy, Commit, CommitPart, Kill, Read, OpenReader, Ask, Absent, Serve, Stale
<1>3. CASE UNCHANGED <<files, analyzer>> /\ size' \in 0..(2 * Len(lines))
  BY <1>2, <1>3 DEF RowsInv
<1>4. ASSUME NEW a \in Analyzers, Analyze(a) PROVE RowsInv'
  <2>1. size' = size
    BY <1>4 DEF Analyze, ReadLog, StatLog, HashLog, Rebuild, Look, Discard, Connect,
                Begin, Busy, Commit, CommitPart, Kill
  <2>2. ASSUME NEW b \in Analyzers
        PROVE  analyzer'[b].read \in {0, analyzer[b].read, size \div 2}
    <3>1. \A pc : Step(a, pc) => analyzer'[b].read = analyzer[b].read
      BY <1>1 DEF Step
    <3>2. \A pc : Stop(a, pc) => analyzer'[b].read \in {0, analyzer[b].read}
      BY <1>1 DEF Stop, Blank
    <3>3. CASE ReadLog(a)
      BY <1>1, <3>3 DEF ReadLog
    <3>4. CASE StatLog(a) \/ HashLog(a) \/ Connect(a)
      BY <1>1, <3>4 DEF StatLog, HashLog, Connect
    <3>5. CASE Rebuild(a) \/ Look(a) \/ Discard(a) \/ Begin(a) \/ Busy(a) \/ Commit(a)
               \/ CommitPart(a) \/ Kill(a)
      <4>1. \E pc : Step(a, pc) \/ Stop(a, pc)
        BY <3>5, Zenon DEF Rebuild, Look, Discard, Begin, Busy, Commit, CommitPart, Kill
      <4>2. QED
        BY <3>1, <3>2, <4>1
    <3>6. QED
      BY <1>4, <3>3, <3>4, <3>5 DEF Analyze
  <2>3. size \div 2 \in 0..Len(lines)
    BY <1>1
  <2>4. \A b \in Analyzers : analyzer'[b].read \in 0..Len(lines')
    BY <1>1, <1>2, <2>2, <2>3 DEF RowsInv
  <2>5. ASSUME NEW g \in Generations, NEW run \in files'[g].runs, run.whole
        PROVE  run \in files[g].runs \/ Keyed(run.rows)
    <3>1. CASE ~Commit(a) /\ ~CommitPart(a)
      <4>1. CASE UNCHANGED files
        BY <2>5, <4>1
      <4>2. CASE Begin(a) \/ Kill(a)
        <5>1. FileType(Opened(a)) /\ analyzer[a].file \in Generations
          BY <4>2 DEF IInv, TypeInv, AnalyzerType, Opened, Begin, Kill
        <5>2. files'[g].runs = files[g].runs
          BY <1>1, <4>2, <5>1 DEF Begin, Kill, FileType, Opened
        <5>3. QED
          BY <2>5, <5>2
      <4>3. QED
        BY <1>4, <3>1, <4>1, <4>2 DEF Analyze, ReadLog, StatLog, HashLog, Rebuild, Look, Discard,
                Connect, Busy
    <3>2. CASE Commit(a)
      <4>1. PICK new : new = NewRun(a, Located(lines, analyzer[a].read), TRUE)
        OBVIOUS
      <4>2. new.rows = Located(lines, analyzer[a].read)
        BY <4>1 DEF NewRun
      <4>3. files' = [files EXCEPT ![analyzer[a].file] =
                [Opened(a) EXCEPT !.runs = Others(Opened(a).runs, new.session) \cup {new},
                                  !.last = new.id, !.writer = 0]]
        BY <3>2, <4>1 DEF Commit, Write
      <4>4. FileType(Opened(a)) /\ analyzer[a].file \in Generations
        BY <3>2 DEF IInv, TypeInv, AnalyzerType, Opened, Commit
      <4>5. run \in files[g].runs \/ run = new
        BY <1>1, <4>3, <4>4 DEF FileType, Others, Opened
      <4>6. Keyed(new.rows)
        <5>1. analyzer[a].read \in 0..Len(lines) /\ ~Repeats(lines, analyzer[a].read)
          BY <3>2 DEF Commit, RowsInv
        <5>2. QED
          BY <1>1, <4>2, <5>1, LocatedKeyed
      <4>7. QED
        BY <4>5, <4>6
    <3>3. CASE CommitPart(a)
      <4>1. PICK n, new : n = (CHOOSE k \in 1..analyzer[a].read : Repeats(lines, k) /\ ~Repeats(lines, k - 1))
                          /\ new = NewRun(a, Located(lines, n - 1), FALSE)
        OBVIOUS
      <4>2. new.whole = FALSE
        BY <4>1 DEF NewRun
      <4>3. files' = [files EXCEPT ![analyzer[a].file] =
                [Opened(a) EXCEPT !.runs = Opened(a).runs \cup {new},
                                  !.last = new.id, !.writer = 0]]
        BY <3>3, <4>1 DEF CommitPart, Write
      <4>4. FileType(Opened(a)) /\ analyzer[a].file \in Generations
        BY <3>3 DEF IInv, TypeInv, AnalyzerType, Opened, CommitPart
      <4>5. run \in files[g].runs \/ run = new
        BY <1>1, <4>3, <4>4 DEF FileType, Opened
      <4>6. QED
        BY <2>5, <4>2, <4>5
    <3>4. QED
      BY <3>1, <3>2, <3>3
  <2>6. QED
    BY <1>1, <1>2, <2>1, <2>4, <2>5 DEF RowsInv
<1>5. CASE Capture
  BY <1>1, <1>3, <1>5 DEF Capture
<1>6. ASSUME NEW r \in Readers, Read(r) PROVE RowsInv'
  BY <1>1, <1>3, <1>6 DEF Read, OpenReader, Ask, Absent, Serve, Stale
<1>7. CASE UNCHANGED vars
  BY <1>1, <1>3, <1>7 DEF vars
<1>8. QED
  BY <1>4, <1>5, <1>6, <1>7 DEF Next

(* The rows of a finished run have seqs of their own, whatever is written  *)
(* of a log that repeats an id.                                            *)
THEOREM RowsInvariant == Spec => []RowsInv
<1>1. Init => RowsInv
  BY InitRows
<1>2. IInv /\ RowsInv /\ [Next]_vars => RowsInv'
  BY NextRows
<1>3. QED
  BY <1>1, <1>2, StoreInvariant, PTL DEF Spec

(* Following the cursors through a finished run visits every event once,   *)
(* in order, whatever the size of a page.                                  *)
THEOREM WalkTheorem == Spec => []WalkVisitsAll
<1>1. RowsInv => WalkVisitsAll
  <2> SUFFICES ASSUME RowsInv, NEW g \in Generations, NEW run \in files[g].runs, run.whole,
                      NEW limit \in 1..3
               PROVE  Walk(run.rows, limit, Cardinality(run.rows) + 1) = InSeqOrder(run.rows)
    BY DEF WalkVisitsAll
  <2>1. PICK R : R = run.rows
    OBVIOUS
  <2>2. Keyed(R)
    BY <2>1 DEF RowsInv
  <2>3. Walk(R, limit, Cardinality(R) + 1) = InSeqOrder(R)
    BY <2>2, WalkIs
  <2>4. QED
    BY <2>1, <2>3
<1>2. QED
  BY <1>1, RowsInvariant, PTL
=============================================================================
