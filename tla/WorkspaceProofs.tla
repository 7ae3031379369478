--------------------------- MODULE WorkspaceProofs ---------------------------
(***************************************************************************)
(* What holds of the workspace for any number of requests, sessions and    *)
(* callers, any size of the cache and however the log grows: the analysis  *)
(* that is served is never older than the question.                        *)
(***************************************************************************)
EXTENDS Workspace, TLAPS

(* A request, when the log has come to a size: its key was taken after it  *)
(* began, and the log read after its key was.                              *)
RequestInv(q, size) ==
    /\ DOMAIN q = {"pc", "ask", "began", "key", "run", "shows", "status", "upTo"}
    /\ q.began \in Nat /\ q.key \in Nat /\ q.upTo \in Nat
    /\ q.began <= size
    /\ q.pc \in {"open", "head", "rows", "evidence"} => q.ask.route \notin AnalysisViews
    /\ q.pc \in {"lookup", "analysing", "remember"} => q.began <= q.key /\ q.key <= size
    /\ q.pc = "remember" => q.key <= q.upTo
    /\ q.pc # "answered" => q.status = 0
    /\ q.pc = "answered" /\ q.ask.route \in AnalysisViews => q.began <= q.upTo

(* An entry was made from no less of the log than its key says.            *)
Entry == {e \in [key : Nat, upTo : Nat] : e.key <= e.upTo}
CacheInv == cache \in Seq(Entry)

WorkspaceInv ==
    /\ log \in Nat
    /\ DOMAIN request = Requests
    /\ \A r \in Requests : RequestInv(request[r], log)
    /\ CacheInv

-----------------------------------------------------------------------------
(* What is true of a request when the log has one size is true when it has *)
(* a larger one.                                                           *)
LEMMA LogMayGrow ==
    ASSUME NEW q, NEW m \in Nat, NEW n \in Nat, m <= n, RequestInv(q, m)
    PROVE  RequestInv(q, n)
BY DEF RequestInv

(* One request is changed.                                                 *)
LEMMA OneChanges ==
    ASSUME WorkspaceInv, NEW r \in Requests, NEW new, RequestInv(new, log), Set(r, new),
           log' = log
    PROVE  /\ log' \in Nat /\ DOMAIN request' = Requests
           /\ \A q \in Requests : RequestInv(request'[q], log')
BY DEF WorkspaceInv, Set

(* An answer without an analysis covers nothing, and nothing is asked of it*)
LEMMA AnswerKeeps ==
    ASSUME WorkspaceInv, NEW r \in Requests, NEW status, Answer(r, status), Unmoved,
           UNCHANGED cache
    PROVE  WorkspaceInv'
<1> DEFINE new == [Idle EXCEPT !.pc = "answered", !.ask = request[r].ask, !.status = status]
<1>0. /\ DOMAIN new = {"pc", "ask", "began", "key", "run", "shows", "status", "upTo"}
      /\ new.pc = "answered" /\ new.began = 0 /\ new.key = 0 /\ new.upTo = 0
  BY DEF Idle
<1>1. RequestInv(new, log)
  <2>. HIDE DEF new
  <2>1. log \in Nat
    BY DEF WorkspaceInv
  <2>2. QED
    BY <1>0, <2>1 DEF RequestInv
<1>2. Set(r, new) /\ log' = log
  BY DEF Answer, Unmoved
<1>. HIDE DEF new
<1>3. QED
  BY <1>1, <1>2, OneChanges DEF WorkspaceInv, CacheInv

(* A step of a request that leaves the cache alone.                        *)
LEMMA StepKeeps ==
    ASSUME WorkspaceInv, NEW r \in Requests, NEW new, RequestInv(new, log), Set(r, new),
           Unmoved, UNCHANGED cache
    PROVE  WorkspaceInv'
<1>1. log' = log
  BY DEF Unmoved
<1>2. QED
  BY <1>1, OneChanges DEF WorkspaceInv, CacheInv

-----------------------------------------------------------------------------
(* A request that is turned away, or not yet answered.                    *)
LEMMA ConnectionKeeps ==
    ASSUME WorkspaceInv, NEW r \in Requests, Connect(r) \/ Accept(r) \/ Route(r)
    PROVE  WorkspaceInv'
<1> DEFINE q == request[r]
<1>0. RequestInv(q, log) /\ log \in Nat
  BY DEF WorkspaceInv
<1>1. CASE Connect(r)
  <2>1. q.pc = "idle"
    BY <1>1 DEF Connect
  <2>2. RequestInv([q EXCEPT !.pc = "backlog"], log)
    <3>. HIDE DEF q
    <3>1. QED
      BY <1>0, <2>1 DEF RequestInv
  <2>3. QED
    BY <1>1, <2>2, StepKeeps DEF Connect
<1>2. CASE Accept(r)
  <2>0. q.pc = "backlog"
    BY <1>2 DEF Accept
  <2>1. RequestInv([q EXCEPT !.pc = "accepted", !.began = log], log)
    <3>. HIDE DEF q
    <3>1. QED
      BY <1>0, <2>0 DEF RequestInv
  <2>2. CASE Set(r, [q EXCEPT !.pc = "accepted", !.began = log])
    BY <1>2, <2>1, <2>2, StepKeeps DEF Accept
  <2>3. CASE Answer(r, 0)
    BY <1>2, <2>3, AnswerKeeps DEF Accept
  <2>4. QED
    BY <1>2, <2>2, <2>3 DEF Accept
<1>3. CASE Route(r)
  <2>1. PICK next : /\ next = IF q.ask.route \in AnalysisViews THEN "stat" ELSE "open"
                    /\ \/ \E status : Answer(r, status)
                       \/ Set(r, [q EXCEPT !.pc = next])
    <3>1. CASE request[r].ask.route = AllSessions /\ request[r].ask.token
      BY <1>3, <3>1 DEF Route
    <3>2. CASE ~(request[r].ask.route = AllSessions /\ request[r].ask.token)
               /\ Refusal(request[r].ask) # 0
      BY <1>3, <3>2 DEF Route
    <3>3. CASE ~(request[r].ask.route = AllSessions /\ request[r].ask.token)
               /\ ~(Refusal(request[r].ask) # 0)
      BY <1>3, <3>3 DEF Route
    <3>4. QED
      BY <3>1, <3>2, <3>3
  <2>2. RequestInv([q EXCEPT !.pc = next], log)
    BY <1>0, <1>3, <2>1 DEF Route, RequestInv
  <2>3. Unmoved /\ UNCHANGED cache
    BY <1>3 DEF Route
  <2>. HIDE DEF q
  <2>4. CASE \E status : Answer(r, status)
    BY <2>3, <2>4, AnswerKeeps
  <2>5. CASE Set(r, [q EXCEPT !.pc = next])
    BY <2>2, <2>3, <2>5, StepKeeps
  <2>6. QED
    BY <2>1, <2>4, <2>5
<1>4. QED
  BY <1>1, <1>2, <1>3

-----------------------------------------------------------------------------
(* Views of the derived store are not those of an analysis.                *)
LEMMA ViewsKeep ==
    ASSUME WorkspaceInv, NEW r \in Requests, Open(r) \/ FirstRow(r) \/ Rows(r) \/ Evidence(r)
    PROVE  WorkspaceInv'
<1> DEFINE q == request[r]
<1>0. RequestInv(q, log) /\ log \in Nat
  BY DEF WorkspaceInv
<1>1. q.pc \in {"open", "head", "rows", "evidence"} /\ Unmoved /\ UNCHANGED cache
  BY DEF Open, FirstRow, Rows, Evidence
<1>2. \/ \E status : Answer(r, status)
      \/ \E run, pc : pc \in {"head", "rows", "evidence"}
                    /\ Set(r, [q EXCEPT !.run = run, !.pc = pc])
      \/ Set(r, [q EXCEPT !.pc = "rows"])
      \/ \E shows : Set(r, [q EXCEPT !.pc = "answered", !.status = 200, !.shows = shows])
  <2>1. CASE Open(r)
    BY <2>1 DEF Open
  <2>2. CASE FirstRow(r)
    BY <2>2 DEF FirstRow
  <2>3. CASE Rows(r)
    BY <2>3 DEF Rows
  <2>4. CASE Evidence(r)
    BY <2>4 DEF Evidence
  <2>5. QED
    BY <2>1, <2>2, <2>3, <2>4
<1>. HIDE DEF q
<1>3. CASE \E status : Answer(r, status)
  BY <1>1, <1>3, AnswerKeeps
<1>4. ASSUME NEW run, NEW pc, pc \in {"head", "rows", "evidence"},
             Set(r, [q EXCEPT !.run = run, !.pc = pc])
      PROVE  WorkspaceInv'
  <2>1. RequestInv([q EXCEPT !.run = run, !.pc = pc], log)
    BY <1>0, <1>1, <1>4 DEF RequestInv
  <2>2. QED
    BY <1>1, <1>4, <2>1, StepKeeps
<1>5. CASE Set(r, [q EXCEPT !.pc = "rows"])
  <2>1. RequestInv([q EXCEPT !.pc = "rows"], log)
    BY <1>0, <1>1 DEF RequestInv
  <2>2. QED
    BY <1>1, <1>5, <2>1, StepKeeps
<1>6. ASSUME NEW shows,
             Set(r, [q EXCEPT !.pc = "answered", !.status = 200, !.shows = shows])
      PROVE  WorkspaceInv'
  <2>1. RequestInv([q EXCEPT !.pc = "answered", !.status = 200, !.shows = shows], log)
    BY <1>0, <1>1 DEF RequestInv
  <2>2. QED
    BY <1>1, <1>6, <2>1, StepKeeps
<1>7. QED
  BY <1>2, <1>3, <1>4, <1>5, <1>6

-----------------------------------------------------------------------------
(* The key is the size of the log then, which has only grown since the     *)
(* request began, and what is read later is no less.                       *)
LEMMA AnalysisSteps ==
    ASSUME WorkspaceInv, NEW r \in Requests, Stat(r) \/ Miss(r) \/ ReadLog(r)
    PROVE  WorkspaceInv'
<1> DEFINE q == request[r]
<1>0. RequestInv(q, log) /\ log \in Nat
  BY DEF WorkspaceInv
<1>1. CASE Stat(r)
  <2>1. q.pc = "stat" /\ Set(r, [q EXCEPT !.pc = "lookup", !.key = log])
        /\ Unmoved /\ UNCHANGED cache
    BY <1>1 DEF Stat, KeyOf
  <2>. HIDE DEF q
  <2>2. RequestInv([q EXCEPT !.pc = "lookup", !.key = log], log)
    BY <1>0, <2>1 DEF RequestInv
  <2>3. QED
    BY <2>1, <2>2, StepKeeps
<1>2. CASE Miss(r)
  <2>1. q.pc = "lookup" /\ Set(r, [q EXCEPT !.pc = "analysing"])
        /\ Unmoved /\ UNCHANGED cache
    BY <1>2 DEF Miss
  <2>. HIDE DEF q
  <2>2. RequestInv([q EXCEPT !.pc = "analysing"], log)
    BY <1>0, <2>1 DEF RequestInv
  <2>3. QED
    BY <2>1, <2>2, StepKeeps
<1>3. CASE ReadLog(r)
  <2>1. q.pc = "analysing" /\ Set(r, [q EXCEPT !.pc = "remember", !.upTo = log])
        /\ Unmoved /\ UNCHANGED cache
    BY <1>3 DEF ReadLog
  <2>. HIDE DEF q
  <2>2. RequestInv([q EXCEPT !.pc = "remember", !.upTo = log], log)
    BY <1>0, <2>1 DEF RequestInv
  <2>3. QED
    BY <2>1, <2>2, StepKeeps
<1>4. QED
  BY <1>1, <1>2, <1>3

(* A request is answered from what an analysis covers, which is no less    *)
(* than there was when it began.                                           *)
LEMMA AnalysedKeeps ==
    ASSUME WorkspaceInv, NEW r \in Requests, request[r].pc \in {"lookup", "remember"},
           NEW upTo \in Nat, request[r].key <= upTo, Analysed(r, upTo), Unmoved, CacheInv'
    PROVE  WorkspaceInv'
<1> DEFINE q == request[r]
           new == [q EXCEPT !.pc = "answered", !.status = 200, !.key = 0, !.upTo = upTo]
<1>0. RequestInv(q, log) /\ log \in Nat
  BY DEF WorkspaceInv
<1>1. q.pc \in {"lookup", "remember"} /\ q.key <= upTo /\ Set(r, new) /\ log' = log
  BY DEF Analysed, Unmoved
<1>. HIDE DEF q
<1>2. RequestInv(new, log)
  BY <1>0, <1>1 DEF RequestInv
<1>. HIDE DEF new
<1>3. QED
  BY <1>1, <1>2, OneChanges DEF WorkspaceInv

(* The order of the entries is all that a hit changes.                     *)
LEMMA HitKeeps ==
    ASSUME WorkspaceInv, NEW r \in Requests, Hit(r)
    PROVE  WorkspaceInv'
<1>1. PICK i \in DOMAIN cache :
          /\ cache[i].key = request[r].key
          /\ cache' = Append(RemoveAt(cache, i), cache[i])
          /\ Analysed(r, cache[i].upTo)
  BY DEF Hit, Remembered
<1>2. cache \in Seq(Entry) /\ i \in 1..Len(cache)
  BY <1>1 DEF WorkspaceInv, CacheInv
<1>3. cache[i] \in Entry
  BY <1>2
<1>4. cache' \in Seq(Entry)
  <2>1. SubSeq(cache, 1, i - 1) \in Seq(Entry)
    BY <1>2
  <2>2. SubSeq(cache, i + 1, Len(cache)) \in Seq(Entry)
    BY <1>2
  <2>3. RemoveAt(cache, i) \in Seq(Entry)
    BY <2>1, <2>2 DEF RemoveAt
  <2>4. QED
    BY <1>1, <1>3, <2>3
<1>5. cache[i].upTo \in Nat /\ request[r].key <= cache[i].upTo
  BY <1>1, <1>3 DEF Entry
<1>6. request[r].pc = "lookup" /\ Unmoved
  BY DEF Hit
<1>7. QED
  BY <1>1, <1>4, <1>5, <1>6, AnalysedKeeps DEF CacheInv

(* What is remembered was read after its key was taken.                    *)
LEMMA RememberKeeps ==
    ASSUME WorkspaceInv, NEW r \in Requests, Remember(r)
    PROVE  WorkspaceInv'
<1> DEFINE e == [key |-> request[r].key, upTo |-> request[r].upTo]
           kept == IF Len(cache) < CacheSize THEN cache ELSE Tail(cache)
<1>1. request[r].pc = "remember" /\ Analysed(r, request[r].upTo) /\ Unmoved
  BY DEF Remember
<1>2. cache' = cache \/ cache' = Append(kept, e)
  BY DEF Remember
<1>3. request[r].key \in Nat /\ request[r].upTo \in Nat /\ request[r].key <= request[r].upTo
  BY <1>1 DEF WorkspaceInv, RequestInv
<1>4. e \in Entry
  BY <1>3 DEF Entry
<1>5. cache \in Seq(Entry)
  BY DEF WorkspaceInv, CacheInv
<1>6. kept \in Seq(Entry)
  <2>1. CASE Len(cache) < CacheSize
    BY <1>5, <2>1
  <2>2. CASE ~(Len(cache) < CacheSize)
    <3>1. cache # <<>>
      BY <1>5, <2>2, SizeAssumption
    <3>2. QED
      BY <1>5, <2>2, <3>1
  <2>3. QED
    BY <2>1, <2>2
<1>7. CacheInv'
  <2>. HIDE DEF kept, e
  <2>1. QED
    BY <1>2, <1>4, <1>5, <1>6 DEF CacheInv
<1>8. QED
  BY <1>1, <1>3, <1>7, AnalysedKeeps

-----------------------------------------------------------------------------
(* Of all that goes on outside, only a longer log is seen here.            *)
LEMMA OutsideKeeps ==
    ASSUME WorkspaceInv, Outside
    PROVE  WorkspaceInv'
<1>1. /\ log' = log \/ log' = log + 1
      /\ UNCHANGED <<cache, request>>
  BY DEF Outside, Record, Reanalyze, ExportUnlink, ExportWrite
<1>2. log' \in Nat /\ log <= log'
  BY <1>1 DEF WorkspaceInv
<1>3. \A r \in Requests : RequestInv(request[r], log')
  BY <1>2, LogMayGrow DEF WorkspaceInv
<1>4. QED
  BY <1>1, <1>2, <1>3 DEF WorkspaceInv, CacheInv

(* The server's own life touches neither the log nor a request.            *)
LEMMA NothingChanges ==
    ASSUME WorkspaceInv, UNCHANGED dataVars
    PROVE  WorkspaceInv'
BY DEF WorkspaceInv, CacheInv, dataVars

(* Every step of a request.                                                *)
LEMMA HandlerKeeps ==
    ASSUME WorkspaceInv, NEW r \in Requests, Handler(r)
    PROVE  WorkspaceInv'
BY ConnectionKeeps, ViewsKeep, AnalysisSteps, HitKeeps, RememberKeeps, Zenon DEF Handler

(* No request has begun, and nothing is remembered.                        *)
LEMMA InitHolds == Init => WorkspaceInv
<1>1. SUFFICES ASSUME Init PROVE WorkspaceInv
  OBVIOUS
<1>2. PICK asks : request = [r \in Requests |-> [Idle EXCEPT !.ask = asks[r]]]
  BY <1>1 DEF Init
<1>3. log = 1 /\ cache = <<>>
  BY <1>1 DEF Init
<1>4. CacheInv
  BY <1>3 DEF CacheInv
<1>5. ASSUME NEW r \in Requests
      PROVE  RequestInv(request[r], log)
  <2>1. request[r] = [Idle EXCEPT !.ask = asks[r]]
    BY <1>2
  <2>2. /\ DOMAIN request[r] = {"pc", "ask", "began", "key", "run", "shows", "status", "upTo"}
        /\ request[r].pc = "idle" /\ request[r].began = 0 /\ request[r].key = 0
        /\ request[r].status = 0 /\ request[r].upTo = 0
    BY <2>1 DEF Idle
  <2>3. QED
    BY <1>3, <2>2 DEF RequestInv
<1>6. QED
  BY <1>2, <1>3, <1>4, <1>5 DEF WorkspaceInv

(* Every step of the workspace.                                            *)
LEMMA NextKeeps == WorkspaceInv /\ [Next]_vars => WorkspaceInv'
<1>1. SUFFICES ASSUME WorkspaceInv, [Next]_vars PROVE WorkspaceInv'
  OBVIOUS
<1>2. CASE Outside
  BY <1>1, <1>2, OutsideKeeps
<1>3. CASE \E r \in Requests : Handler(r)
  BY <1>1, <1>3, HandlerKeeps
<1>4. CASE UNCHANGED dataVars
  BY <1>1, <1>4, NothingChanges
<1>5. [Next]_vars => \/ Outside \/ (\E r \in Requests : Handler(r)) \/ UNCHANGED dataVars
  BY DEF Next, DataNext, vars, dataVars
<1>6. QED
  BY <1>1, <1>2, <1>3, <1>4, <1>5

-----------------------------------------------------------------------------
(* In every state the key of a request is no older than the request, and   *)
(* what the cache holds is no older than its key.                          *)
THEOREM WorkspaceInvariance == Spec => []WorkspaceInv
<1>1. QED
  BY InitHolds, NextKeeps, PTL DEF Spec

(* An analysis that is served covers all that was in the log when it was   *)
(* asked for, however many ask at a time, whatever they made the cache hold*)
(* and drop, and however much is recorded meanwhile.                       *)
THEOREM AnalysisTheorem == Spec => []AnalysisNotOlder
<1>1. WorkspaceInv => AnalysisNotOlder
  <2>1. SUFFICES ASSUME WorkspaceInv, NEW r \in Requests, request[r].status = 200,
                        request[r].ask.route \in AnalysisViews
                 PROVE  request[r].upTo >= request[r].began
    BY DEF AnalysisNotOlder
  <2>2. RequestInv(request[r], log)
    BY <2>1 DEF WorkspaceInv
  <2>3. QED
    BY <2>1, <2>2 DEF RequestInv
<1>2. QED
  BY <1>1, WorkspaceInvariance, PTL
=============================================================================
