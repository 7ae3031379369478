------------------------ MODULE NetworkCaptureProofs ------------------------
(***************************************************************************)
(* What holds of network capture for any number of requests and URLs, and  *)
(* of the pairing of responses for every log.                              *)
(***************************************************************************)
EXTENDS NetworkCapture, FiniteSetTheorems, SequenceTheorems, WellFoundedInduction, TLAPS

(* A set of numbers has a least one, and one with a bound has a greatest.  *)
LEMMA Least ==
    ASSUME NEW S \in SUBSET Nat, S # {}
    PROVE  \E i \in S : \A j \in S : i <= j
<1>1. PICK i \in S : \A j \in S : ~ (<<j, i>> \in OpToRel(<, Nat))
  BY NatLessThanWellFounded, WFMin, Zenon
<1>2. \A j \in S : ~(j < i)
  BY <1>1 DEF OpToRel
<1>3. QED
  BY <1>2

LEMMA Greatest ==
    ASSUME NEW n \in Nat, NEW S \in SUBSET (1..n), S # {}
    PROVE  \E i \in S : \A j \in S : j <= i
<1> DEFINE B == {b \in Nat : \A j \in S : j <= b}
<1>1. B \in SUBSET Nat /\ n \in B
  OBVIOUS
<1>2. PICK b \in B : \A c \in B : b <= c
  BY <1>1, Least
<1>3. b \in S
  <2>1. ASSUME b \notin S PROVE FALSE
    <3>1. PICK j \in S : TRUE
      OBVIOUS
    <3>2. b \in Nat /\ b >= 1 /\ \A k \in S : k < b
      BY <2>1, <3>1
    <3>3. b - 1 \in B
      BY <3>2
    <3>4. QED
      BY <1>2, <3>2, <3>3
  <2>2. QED
    BY <2>1
<1>4. QED
  BY <1>3

-----------------------------------------------------------------------------
(* Positions: the k-th of a finite set of places is one, and only one.     *)

LEMMA RankType ==
    ASSUME NEW n \in Nat, NEW S \in SUBSET (1..n), NEW i \in Int
    PROVE  /\ IsFiniteSet(S) /\ IsFiniteSet({j \in S : j <= i})
           /\ Cardinality(S) \in Nat /\ Rank(i, S) \in Nat
           /\ Rank(i, S) <= Cardinality(S)
<1>1. IsFiniteSet(1..n)
  BY FS_Interval
<1>2. IsFiniteSet(S)
  BY <1>1, FS_Subset
<1>3. {j \in S : j <= i} \in SUBSET S
  OBVIOUS
<1>4. /\ IsFiniteSet({j \in S : j <= i})
      /\ Cardinality({j \in S : j <= i}) <= Cardinality(S)
  BY <1>2, <1>3, FS_Subset, Zenon
<1>5. Cardinality(S) \in Nat /\ Cardinality({j \in S : j <= i}) \in Nat
  BY <1>2, <1>4, FS_CardinalityType
<1>6. QED
  BY <1>2, <1>4, <1>5 DEF Rank

LEMMA RankGrows ==
    ASSUME NEW n \in Nat, NEW S \in SUBSET (1..n), NEW i \in S, NEW k \in S, i < k
    PROVE  Rank(i, S) < Rank(k, S)
<1> DEFINE below == {j \in S : j <= i}
           upto  == {j \in S : j <= k}
<1> i \in Int /\ k \in Int /\ \A j \in S : j \in Int
  OBVIOUS
<1>1. IsFiniteSet(below) /\ Cardinality(below) \in Nat /\ Rank(i, S) = Cardinality(below)
  BY RankType DEF Rank
<1>2. IsFiniteSet(upto) /\ Cardinality(upto) \in Nat /\ Rank(k, S) = Cardinality(upto)
  BY RankType DEF Rank
<1>3. k \notin below /\ k \in upto /\ \A j \in below : j \in upto
  OBVIOUS
<1>4. IsFiniteSet(below \cup {k}) /\ Cardinality(below \cup {k}) = Cardinality(below) + 1
  <2> HIDE DEF below
  <2> QED
    BY <1>1, <1>3, FS_AddElement
<1>5. below \cup {k} \in SUBSET upto
  <2> HIDE DEF below, upto
  <2> QED
    BY <1>3
<1>6. Cardinality(below \cup {k}) <= Cardinality(upto)
  <2> HIDE DEF below, upto
  <2> QED
    BY <1>2, <1>5, FS_Subset, Zenon
<1>7. QED
  <2> HIDE DEF below, upto
  <2> QED
    BY <1>1, <1>2, <1>4, <1>6

LEMMA RankOnto ==
    ASSUME NEW n \in Nat, NEW S \in SUBSET (1..n), NEW k \in Nat,
           1 <= k, k <= Cardinality(S)
    PROVE  \E i \in S : Rank(i, S) = k
<1> DEFINE far == {i \in S : Rank(i, S) >= k}
<1> \A j \in S : j \in Int /\ j \in Nat
  OBVIOUS
<1>1. IsFiniteSet(S) /\ Cardinality(S) \in Nat /\ \A i \in S : Rank(i, S) \in Nat
  <2>1. IsFiniteSet(S) /\ Cardinality(S) \in Nat
    <3>1. 0 \in Int
      OBVIOUS
    <3>2. QED
      BY <3>1, RankType
  <2>2. ASSUME NEW i \in S PROVE Rank(i, S) \in Nat
    BY RankType
  <2>3. QED
    BY <2>1, <2>2
<1>2. S # {}
  BY FS_EmptySet
<1>3. PICK last \in S : \A j \in S : j <= last
  BY <1>2, Greatest
<1>4. {j \in S : j <= last} = S
  BY <1>3
<1>5. last \in far
  BY <1>1, <1>4 DEF Rank
<1>6. far \in SUBSET Nat
  OBVIOUS
<1>7. PICK i \in far : \A j \in far : i <= j
  <2> HIDE DEF far
  <2> QED
    BY <1>5, <1>6, Least
<1>8. i \in S /\ Rank(i, S) >= k
  BY <1>7
<1>9. ASSUME Rank(i, S) > k PROVE FALSE
  <2> DEFINE upto   == {j \in S : j <= i}
             before == {j \in S : j < i}
  <2>1. IsFiniteSet(upto) /\ Rank(i, S) = Cardinality(upto)
    <3>1. IsFiniteSet(upto)
      BY <1>8, RankType
    <3>2. QED
      BY <3>1 DEF Rank
  <2>2. before = upto \ {i} /\ i \in upto
    <3>1. i \in Int /\ i <= i /\ \A m \in S : m < i <=> m <= i /\ m # i
      BY <1>8
    <3>2. \A m : m \in before <=> m \in upto \ {i}
      BY <3>1
    <3>3. i \in upto
      BY <1>8, <3>1
    <3>4. QED
      <4> HIDE DEF before, upto
      <4> QED
        BY <3>2, <3>3
  <2>3. IsFiniteSet(before) /\ Cardinality(before) = Cardinality(upto) - 1
    <3> HIDE DEF before, upto
    <3> QED
      BY <2>1, <2>2, FS_RemoveElement
  <2>4. Cardinality(before) >= k
    <3> HIDE DEF before, upto
    <3> QED
      BY <1>1, <1>8, <1>9, <2>1, <2>3
  <2>5. before # {}
    <3> HIDE DEF before
    <3> QED
      BY <2>3, <2>4, FS_EmptySet
  <2>6. before \in SUBSET (1..n)
    OBVIOUS
  <2>7. PICK j \in before : \A m \in before : m <= j
    <3> HIDE DEF before
    <3> QED
      BY <2>5, <2>6, Greatest
  <2>8. j \in S /\ j < i /\ {m \in S : m <= j} = before
    <3>1. j \in S /\ j < i /\ i \in Int
      BY <1>8, <2>7
    <3>2. \A m \in S : m < i => m \in before
      OBVIOUS
    <3>3. \A m \in S : m <= j <=> m < i
      BY <2>7, <3>1, <3>2
    <3>4. QED
      BY <3>1, <3>3
  <2>9. Rank(j, S) >= k
    <3> HIDE DEF before
    <3> QED
      BY <2>4, <2>8 DEF Rank
  <2>10. QED
    BY <1>7, <1>8, <2>8, <2>9
<1>10. QED
  BY <1>1, <1>8, <1>9

(* The analysis gives each response of a log with a request to exactly one *)
(* request, whatever the log (endpoints.py:80-82 and 136-142).             *)
LEMMA PairedOnce ==
    ASSUME NEW s \in Seq(Event), RequestEvents(s) # {}, NEW j \in ResponseEvents(s)
    PROVE  Cardinality({i \in RequestEvents(s) : j \in Statuses(s, i)}) = 1
<1> DEFINE Q == RequestEvents(s)
           R == ResponseEvents(s)
           turn == Rank(j, R)
<1>1. Len(s) \in Nat /\ Q \in SUBSET (1..Len(s)) /\ R \in SUBSET (1..Len(s)) /\ j \in Int
  BY DEF RequestEvents, ResponseEvents
<1>2. turn \in Nat /\ turn >= 1
  <2>1. turn \in Nat /\ IsFiniteSet({m \in R : m <= j})
    <3> HIDE DEF Q, R
    <3> QED
      BY <1>1, RankType
  <2>2. j \in {m \in R : m <= j}
    BY <1>1
  <2>3. turn # 0
    BY <2>1, <2>2, FS_EmptySet DEF Rank
  <2>4. QED
    <3> HIDE DEF turn
    <3> QED
      BY <2>1, <2>3
<1>3. Cardinality(Q) \in Nat /\ \A i \in Q : Rank(i, Q) \in Nat /\ Rank(i, Q) <= Cardinality(Q)
  <2>1. \A i \in Q : i \in Int
    BY <1>1
  <2>2. QED
    <3> HIDE DEF Q
    <3> QED
      BY <1>1, <2>1, RankType
<1>4. PICK last \in Q : \A i \in Q : i <= last
  <2> HIDE DEF Q
  <2> QED
    BY <1>1, Greatest, RequestEvents(s) # {} DEF Q
<1>5. Rank(last, Q) = Cardinality(Q)
  <2>1. {i \in Q : i <= last} = Q
    BY <1>4
  <2>2. QED
    BY <2>1 DEF Rank
<1>6. \A i, k \in Q : i # k => Rank(i, Q) # Rank(k, Q)
  <2> HIDE DEF Q
  <2>1. \A i \in Q : i \in Int
    BY <1>1
  <2>2. \A i, k \in Q : i < k => Rank(i, Q) < Rank(k, Q)
    BY <1>1, RankGrows
  <2>3. QED
    BY <1>3, <2>1, <2>2
<1>7. \A i \in Q : j \in Statuses(s, i) <=>
        turn = Rank(i, Q) \/ (i = last /\ turn > Rank(i, Q))
  <2> TAKE i \in Q
  <2>1. (\A k \in Q : k <= i) <=> i = last
    BY <1>1, <1>4
  <2>2. QED
    BY <2>1 DEF Statuses
<1>8. PICK i \in Q : \A k \in Q : j \in Statuses(s, k) <=> k = i
  <2>1. CASE turn <= Cardinality(Q)
    <3>1. PICK i \in Q : Rank(i, Q) = turn
      <4> HIDE DEF Q, turn
      <4> QED
        BY <1>1, <1>2, <2>1, RankOnto
    <3>2. \A k \in Q : j \in Statuses(s, k) <=> k = i
      <4> HIDE DEF Q, turn
      <4> QED
        BY <1>2, <1>3, <1>5, <1>6, <1>7, <2>1, <3>1
    <3>3. QED
      BY <3>2
  <2>2. CASE turn > Cardinality(Q)
    <3>1. \A k \in Q : j \in Statuses(s, k) <=> k = last
      <4> HIDE DEF Q, turn
      <4> QED
        BY <1>2, <1>3, <1>5, <1>7, <2>2
    <3>2. QED
      BY <3>1
  <2>3. QED
    <3> HIDE DEF Q, turn
    <3> QED
      BY <1>2, <1>3, <2>1, <2>2
<1>9. {k \in Q : j \in Statuses(s, k)} = {i}
  BY <1>8
<1>10. QED
  BY <1>9, FS_Singleton

-----------------------------------------------------------------------------
(* The state of a request agrees with what the browser has told of it, and *)
(* one that is through with handle_request has left something in the log.  *)
Left(r) ==
    \E i \in 1..Len(log[url[r]]) :
        /\ log[url[r]][i].req = r
        /\ log[url[r]][i].kind \in {"request", "dropped", "withheld"}

TaskOK(r) ==
    /\ url[r] = NoUrl <=> answer[r] = "none"
    /\ answer[r] = "none" => requestTask[r] = "none" /\ responseTask[r] = "none"
    /\ answer[r] = "sent" => responseTask[r] = "none"
    /\ answer[r] # "none" => requestTask[r] # "none"
    /\ requestTask[r] = "headers" => url[r] \in Scoped
    /\ responseTask[r] = "body" => url[r] \in Scoped
    /\ requestTask[r] = "done" => Left(r)

TaskInv == \A r \in Requests : TaskOK(r)

Taken == {"request", "dropped"}     \* what handle_request makes of a request in scope
Read == {"response", "bodyGap"}     \* what handle_response makes of one

(* An event is about a request to its URL, whose handler is through; of    *)
(* handle_request there is one, and a URL with requests is an endpoint.    *)
EventInv ==
    \A u \in Urls : \A i \in 1..Len(log[u]) :
        /\ url[log[u][i].req] = u
        /\ u \notin Scoped => log[u][i].kind = "withheld"
        /\ log[u][i].kind \in Taken => requestTask[log[u][i].req] = "done"
        /\ log[u][i].kind \in Read => responseTask[log[u][i].req] = "done"
        /\ log[u][i].kind = "request" => u \in endpoints

OnceInv ==
    \A u \in Urls : \A i, j \in 1..Len(log[u]) :
        /\ log[u][i].req = log[u][j].req
        /\ log[u][i].kind \in Taken /\ log[u][j].kind \in Taken
        => i = j

(* A false gap comes before every request of its endpoint.                 *)
GapInv ==
    \A u \in Urls : \A i, j, k \in 1..Len(log[u]) :
        /\ log[u][i].req = log[u][j].req
        /\ log[u][i].kind = "response" /\ log[u][i].body
        /\ log[u][j].kind = "bodyGap" /\ log[u][k].kind = "request"
        => k > j

IInv == TypeOK /\ TaskInv /\ EventInv /\ OnceInv /\ GapInv
-----------------------------------------------------------------------------
(* What an emit does to the log: it grows at one URL's end.                *)
Longer ==
    \A v \in Urls : /\ Len(log[v]) <= Len(log'[v])
                    /\ \A i \in 1..Len(log[v]) : log'[v][i] = log[v][i]

(* Appending at the end of one URL's log leaves every event where it was.  *)
LEMMA Emitted ==
    ASSUME TypeOK, NEW u \in Urls, NEW es \in Seq(Event), EmitAll(u, es)
    PROVE  /\ log' \in [Urls -> Seq(Event)]
           /\ Len(es) \in Nat /\ \A v \in Urls : Len(log[v]) \in Nat
           /\ \A v \in Urls : v # u => log'[v] = log[v]
           /\ Len(log'[u]) = Len(log[u]) + Len(es)
           /\ \A i \in 1..Len(log[u]) : log'[u][i] = log[u][i]
           /\ \A i \in 1..Len(es) : log'[u][Len(log[u]) + i] = es[i]
           /\ \A i \in 1..Len(log'[u]) :
                  i \in 1..Len(log[u]) \/ (i - Len(log[u])) \in 1..Len(es)
           /\ Longer
<1>1. /\ log \in [Urls -> Seq(Event)]
      /\ log' = [log EXCEPT ![u] = log[u] \o es]
  BY DEF TypeOK, EmitAll
<1>2. log[u] \o es \in Seq(Event)
  BY <1>1
<1>3. log'[u] = log[u] \o es /\ \A v \in Urls : v # u => log'[v] = log[v]
  BY <1>1
<1>4. /\ Len(es) \in Nat /\ \A v \in Urls : Len(log[v]) \in Nat
      /\ Len(log[u] \o es) = Len(log[u]) + Len(es)
      /\ \A i \in 1..Len(log[u]) : (log[u] \o es)[i] = log[u][i]
  BY <1>1
<1>5. \A i \in 1..Len(es) : (log[u] \o es)[Len(log[u]) + i] = es[i]
  BY <1>1
<1>6. \A i \in 1..Len(log'[u]) :
        i \in 1..Len(log[u]) \/ (i - Len(log[u])) \in 1..Len(es)
  BY <1>3, <1>4
<1>7. log' \in [Urls -> Seq(Event)]
  BY <1>1, <1>2
<1>8. Longer
  BY <1>3, <1>4 DEF Longer
<1>9. QED
  BY <1>3, <1>4, <1>5, <1>6, <1>7, <1>8

(* A request whose tasks stand where they stood is still in order.         *)
LEMMA OthersKeep ==
    ASSUME IInv, Longer, NEW q \in Requests, url'[q] = url[q], answer'[q] = answer[q],
           requestTask'[q] = requestTask[q], responseTask'[q] = responseTask[q]
    PROVE  TaskOK(q)'
<1>1. TaskOK(q)
  BY DEF IInv, TaskInv
<1>2. Left(q) /\ url[q] # NoUrl => Left(q)'
  <2> SUFFICES ASSUME Left(q), url[q] # NoUrl PROVE Left(q)'
    OBVIOUS
  <2>1. url[q] \in Urls /\ Len(log[url[q]]) \in Nat
    BY DEF IInv, TypeOK
  <2>2. PICK i \in 1..Len(log[url[q]]) :
            /\ log[url[q]][i].req = q
            /\ log[url[q]][i].kind \in {"request", "dropped", "withheld"}
    BY DEF Left
  <2>3. /\ log'[url[q]][i] = log[url[q]][i]
        /\ Len(log[url[q]]) <= Len(log'[url[q]])
    BY <2>1, <2>2 DEF Longer
  <2>4. i \in 1..Len(log'[url[q]])
    BY <2>1, <2>3
  <2>5. QED
    BY <2>2, <2>3, <2>4 DEF Left
<1>3. requestTask[q] = "done" => url[q] # NoUrl
  BY <1>1 DEF TaskOK
<1>4. QED
  BY <1>1, <1>2, <1>3 DEF TaskOK

(* The rules for events hold of a longer log if what comes new obeys them. *)
LEMMA NewEventsKeep ==
    ASSUME IInv, NEW r \in Requests, NEW u \in Urls, NEW es \in Seq(Event),
           EmitAll(u, es), url'[r] = u,
           \A q \in Requests : url[q] # NoUrl => url'[q] = url[q],
           \A q \in Requests : requestTask[q] = "done" => requestTask'[q] = "done",
           \A q \in Requests : responseTask[q] = "done" => responseTask'[q] = "done",
           endpoints \subseteq endpoints',
           \A i \in 1..Len(es) :
               /\ es[i].req = r
               /\ u \notin Scoped => es[i].kind = "withheld"
               /\ es[i].kind \in Taken =>
                      requestTask[r] # "done" /\ requestTask'[r] = "done"
               /\ es[i].kind \in Read =>
                      responseTask[r] # "done" /\ responseTask'[r] = "done"
               /\ es[i].kind = "request" => u \in endpoints',
           \A i, j \in 1..Len(es) : es[i].kind \in Taken /\ es[j].kind \in Taken => i = j,
           \A i, j \in 1..Len(es) :
               (es[i].kind = "response" /\ es[i].body /\ es[j].kind = "bodyGap") =>
                   u \notin endpoints /\ \A k \in 1..Len(es) : es[k].kind # "request"
    PROVE  EventInv' /\ OnceInv' /\ GapInv'
<1> DEFINE n == Len(log[u])
           New(i) == i - n \in 1..Len(es) /\ log'[u][i] = es[i - n]
           Old(i) == i \in 1..n /\ log'[u][i] = log[u][i]
<1>1. /\ n \in Nat /\ Len(es) \in Nat
      /\ \A v \in Urls : v # u => log'[v] = log[v]
      /\ \A i \in 1..n : log'[u][i] = log[u][i]
      /\ \A i \in 1..Len(es) : log'[u][n + i] = es[i]
      /\ \A i \in 1..Len(log'[u]) : i \in 1..n \/ (i - n) \in 1..Len(es)
  BY Emitted DEF IInv
<1>2. \A i \in 1..Len(log'[u]) : i \in Int /\ (Old(i) \/ New(i))
  <2> TAKE i \in 1..Len(log'[u])
  <2>1. i \in Int
    OBVIOUS
  <2>2. CASE i \in 1..n
    BY <1>1, <2>1, <2>2
  <2>3. CASE i - n \in 1..Len(es)
    <3>1. n + (i - n) = i
      BY <1>1, <2>1
    <3>2. log'[u][n + (i - n)] = es[i - n]
      BY <1>1, <2>3
    <3>3. QED
      BY <2>1, <2>3, <3>1, <3>2
  <2>4. QED
    BY <1>1, <2>2, <2>3
<1>3. \A v \in Urls : \A i \in 1..Len(log[v]) :
        log[v][i].req \in Requests /\ url[log[v][i].req] = v /\ v # NoUrl
  <2> TAKE v \in Urls
  <2> TAKE i \in 1..Len(log[v])
  <2>1. log[v] \in Seq(Event)
    BY DEF IInv, TypeOK
  <2>2. log[v][i] \in Event
    BY <2>1
  <2>3. QED
    BY <2>2, UrlAssumption DEF IInv, EventInv, Event
<1>4. EventInv'
  <2> SUFFICES ASSUME NEW v \in Urls, NEW i \in 1..Len(log'[v])
               PROVE  /\ url'[log'[v][i].req] = v
                      /\ v \notin Scoped => log'[v][i].kind = "withheld"
                      /\ log'[v][i].kind \in Taken => requestTask'[log'[v][i].req] = "done"
                      /\ log'[v][i].kind \in Read => responseTask'[log'[v][i].req] = "done"
                      /\ log'[v][i].kind = "request" => v \in endpoints'
    BY DEF EventInv
  <2>1. ASSUME NEW j \in 1..Len(log[v]), log'[v][i] = log[v][j]
        PROVE  /\ url'[log'[v][i].req] = v
               /\ v \notin Scoped => log'[v][i].kind = "withheld"
               /\ log'[v][i].kind \in Taken => requestTask'[log'[v][i].req] = "done"
               /\ log'[v][i].kind \in Read => responseTask'[log'[v][i].req] = "done"
               /\ log'[v][i].kind = "request" => v \in endpoints'
    BY <1>3, <2>1 DEF IInv, EventInv
  <2>2. CASE v # u
    BY <1>1, <2>1, <2>2
  <2>3. CASE v = u
    <3>1. CASE Old(i)
      BY <2>1, <2>3, <3>1
    <3>2. CASE New(i)
      BY <2>3, <3>2
    <3>3. QED
      BY <1>2, <2>3, <3>1, <3>2
  <2>4. QED
    BY <2>2, <2>3
<1>5. OnceInv'
  <2> SUFFICES ASSUME NEW v \in Urls, NEW i \in 1..Len(log'[v]), NEW j \in 1..Len(log'[v]),
                      log'[v][i].req = log'[v][j].req,
                      log'[v][i].kind \in Taken, log'[v][j].kind \in Taken
               PROVE  i = j
    BY DEF OnceInv
  <2>1. CASE v # u
    BY <1>1, <2>1 DEF IInv, OnceInv
  <2>2. CASE v = u
    <3>1. CASE Old(i) /\ Old(j)
      BY <2>2, <3>1 DEF IInv, OnceInv
    <3>2. CASE New(i) /\ New(j)
      <4>1. i - n = j - n
        BY <2>2, <3>2
      <4>2. QED
        BY <1>1, <1>2, <2>2, <4>1
    <3>3. CASE Old(i) /\ New(j)
      <4>1. log[u][i].req = r /\ log[u][i].kind \in Taken /\ requestTask[r] # "done"
        BY <2>2, <3>3
      <4>2. QED
        BY <3>3, <4>1 DEF IInv, EventInv
    <3>4. CASE New(i) /\ Old(j)
      <4>1. log[u][j].req = r /\ log[u][j].kind \in Taken /\ requestTask[r] # "done"
        BY <2>2, <3>4
      <4>2. QED
        BY <3>4, <4>1 DEF IInv, EventInv
    <3>5. QED
      BY <1>2, <2>2, <3>1, <3>2, <3>3, <3>4
  <2>3. QED
    BY <2>1, <2>2
<1>6. GapInv'
  <2> SUFFICES ASSUME NEW v \in Urls, NEW i \in 1..Len(log'[v]), NEW j \in 1..Len(log'[v]),
                      NEW k \in 1..Len(log'[v]),
                      log'[v][i].req = log'[v][j].req,
                      log'[v][i].kind = "response", log'[v][i].body,
                      log'[v][j].kind = "bodyGap", log'[v][k].kind = "request"
               PROVE  k > j
    BY DEF GapInv
  <2>1. CASE v # u
    BY <1>1, <2>1 DEF IInv, GapInv
  <2>2. CASE v = u
    <3>1. CASE Old(i) /\ Old(j)
      <4>1. CASE Old(k)
        BY <2>2, <3>1, <4>1 DEF IInv, GapInv
      <4>2. CASE New(k)
        BY <1>1, <1>2, <2>2, <3>1, <4>2
      <4>3. QED
        BY <1>2, <2>2, <4>1, <4>2
    <3>2. CASE New(i) /\ New(j)
      <4>1. /\ es[i - n].kind = "response" /\ es[i - n].body
            /\ es[j - n].kind = "bodyGap"
            /\ i - n \in 1..Len(es) /\ j - n \in 1..Len(es)
        BY <2>2, <3>2
      <4>2. u \notin endpoints /\ \A m \in 1..Len(es) : es[m].kind # "request"
        BY <4>1, Zenon
      <4>3. ~New(k)
        BY <2>2, <4>2
      <4>4. k \in 1..n /\ log[u][k].kind = "request"
        BY <1>2, <2>2, <4>3
      <4>5. QED
        BY <4>2, <4>4 DEF IInv, EventInv
    <3>3. CASE Old(i) /\ New(j)
      <4>1. log[u][i].req = r /\ log[u][i].kind \in Read /\ responseTask[r] # "done"
        BY <2>2, <3>3 DEF Read
      <4>2. QED
        BY <3>3, <4>1 DEF IInv, EventInv
    <3>4. CASE New(i) /\ Old(j)
      <4>1. log[u][j].req = r /\ log[u][j].kind \in Read /\ responseTask[r] # "done"
        BY <2>2, <3>4 DEF Read
      <4>2. QED
        BY <3>4, <4>1 DEF IInv, EventInv
    <3>5. QED
      BY <1>2, <2>2, <3>1, <3>2, <3>3, <3>4
  <2>3. QED
    BY <2>1, <2>2
<1>7. QED
  BY <1>4, <1>5, <1>6
(* A step that records nothing keeps the rules for events.                 *)
LEMMA QuietKeeps ==
    ASSUME IInv, log' = log,
           \A q \in Requests : url[q] # NoUrl => url'[q] = url[q],
           \A q \in Requests : requestTask[q] = "done" => requestTask'[q] = "done",
           \A q \in Requests : responseTask[q] = "done" => responseTask'[q] = "done",
           endpoints \subseteq endpoints'
    PROVE  EventInv' /\ OnceInv' /\ GapInv' /\ Longer
<1>1. EventInv'
  <2> SUFFICES ASSUME NEW v \in Urls, NEW i \in 1..Len(log[v])
               PROVE  /\ url'[log[v][i].req] = v
                      /\ v \notin Scoped => log[v][i].kind = "withheld"
                      /\ log[v][i].kind \in Taken => requestTask'[log[v][i].req] = "done"
                      /\ log[v][i].kind \in Read => responseTask'[log[v][i].req] = "done"
                      /\ log[v][i].kind = "request" => v \in endpoints'
    BY DEF EventInv
  <2>1. log[v] \in Seq(Event)
    BY DEF IInv, TypeOK
  <2>2. log[v][i] \in Event
    BY <2>1
  <2>3. log[v][i].req \in Requests /\ v # NoUrl
    BY <2>2, UrlAssumption DEF Event
  <2>4. QED
    BY <2>3 DEF IInv, EventInv
<1>2. OnceInv' /\ GapInv'
  BY DEF IInv, OnceInv, GapInv
<1>3. Longer
  <2>1. \A v \in Urls : Len(log[v]) \in Nat
    BY DEF IInv, TypeOK
  <2>2. QED
    BY <2>1 DEF Longer
<1>4. QED
  BY <1>1, <1>2, <1>3

(* The fields of an event of any kind.                                    *)
LEMMA EventIsEvent ==
    ASSUME NEW r \in Requests, NEW kind \in Kinds
    PROVE  /\ EventFor(r, kind, FALSE) \in Event
           /\ EventFor(r, kind, FALSE).req = r
           /\ EventFor(r, kind, FALSE).kind = kind
           /\ EventFor(r, kind, FALSE).body = FALSE
BY DEF EventFor, Event

(* One more event.                                                         *)
LEMMA OneEventKeeps ==
    ASSUME IInv, NEW r \in Requests, NEW u \in Urls, NEW e \in Event,
           EmitAll(u, <<e>>), e.req = r, url'[r] = u,
           \A q \in Requests : url[q] # NoUrl => url'[q] = url[q],
           \A q \in Requests : requestTask[q] = "done" => requestTask'[q] = "done",
           \A q \in Requests : responseTask[q] = "done" => responseTask'[q] = "done",
           endpoints \subseteq endpoints',
           u \notin Scoped => e.kind = "withheld",
           e.kind \in Taken => requestTask[r] # "done" /\ requestTask'[r] = "done",
           e.kind \in Read => responseTask[r] # "done" /\ responseTask'[r] = "done",
           e.kind = "request" => u \in endpoints'
    PROVE  /\ EventInv' /\ OnceInv' /\ GapInv' /\ Longer
           /\ log' \in [Urls -> Seq(Event)]
           /\ Len(log'[u]) \in 1..Len(log'[u]) /\ log'[u][Len(log'[u])] = e
<1> DEFINE es == <<e>>
<1>1. /\ es \in Seq(Event) /\ Len(es) = 1
      /\ \A i \in 1..Len(es) : i = 1 /\ es[i] = e
  OBVIOUS
<1>2. EmitAll(u, es)
  OBVIOUS
<1>3. /\ log' \in [Urls -> Seq(Event)] /\ Longer
      /\ Len(log[u]) \in Nat
      /\ Len(log'[u]) = Len(log[u]) + Len(es)
      /\ \A i \in 1..Len(es) : log'[u][Len(log[u]) + i] = es[i]
  <2> HIDE DEF es
  <2> QED
    BY <1>1, <1>2, Emitted DEF IInv
<1>4. Len(log'[u]) \in 1..Len(log'[u]) /\ log'[u][Len(log'[u])] = es[1]
  <2> HIDE DEF es
  <2> QED
    BY <1>1, <1>3
<1>5. EventInv' /\ OnceInv' /\ GapInv'
  <2> HIDE DEF es
  <2>1. \A i, j \in 1..Len(es) :
            ~(es[i].kind = "response" /\ es[j].kind = "bodyGap")
    BY <1>1
  <2>2. QED
    BY <1>1, <1>2, <2>1, NewEventsKeep
<1>6. QED
  BY <1>1, <1>3, <1>4, <1>5

-----------------------------------------------------------------------------
(* handle_request, up to its wait, keeps the invariant.                    *)
LEMMA RequestKeeps ==
    ASSUME IInv, NEW r \in Requests, NEW u \in Urls, Request(r, u) PROVE IInv'
<1>1. /\ answer[r] = "none" /\ url[r] = NoUrl /\ requestTask[r] = "none"
      /\ responseTask[r] = "none" /\ u # NoUrl
  BY UrlAssumption DEF Request, IInv, TaskInv, TaskOK
<1>2. /\ url' \in [Requests -> Urls \cup {NoUrl}] /\ url'[r] = u
      /\ answer' \in [Requests -> {"none", "sent", "answered", "failed"}] /\ answer'[r] = "sent"
      /\ requestTask' \in [Requests -> {"none", "headers", "done", "raised"}]
      /\ responseTask' = responseTask /\ endpoints' = endpoints
      /\ httpRequests' = httpRequests /\ open' = open
      /\ \A q \in Requests : q # r => /\ url'[q] = url[q] /\ answer'[q] = answer[q]
                                     /\ requestTask'[q] = requestTask[q]
  BY DEF Request, IInv, TypeOK
<1>3. /\ \A q \in Requests : url[q] # NoUrl => url'[q] = url[q]
      /\ \A q \in Requests : requestTask[q] = "done" => requestTask'[q] = "done"
      /\ \A q \in Requests : responseTask[q] = "done" => responseTask'[q] = "done"
      /\ endpoints \subseteq endpoints'
  BY <1>1, <1>2
<1>4. /\ EventInv' /\ OnceInv' /\ GapInv' /\ Longer /\ log' \in [Urls -> Seq(Event)]
      /\ TaskOK(r)'
  <2>1. ASSUME NEW kind \in {"withheld", "dropped"}, EmitAll(u, <<EventFor(r, kind, FALSE)>>),
               requestTask'[r] = "done", u \notin Scoped => kind = "withheld"
        PROVE  /\ EventInv' /\ OnceInv' /\ GapInv' /\ Longer /\ log' \in [Urls -> Seq(Event)]
               /\ TaskOK(r)'
    <3> DEFINE e == EventFor(r, kind, FALSE)
    <3>0. kind \in Kinds /\ kind \notin Read /\ kind # "request"
      BY <2>1 DEF Kinds, Read
    <3>1. /\ e \in Event /\ e.req = r /\ e.kind = kind /\ e.kind \notin Read
          /\ e.kind # "request" /\ EmitAll(u, <<e>>)
      BY <2>1, <3>0, EventIsEvent
    <3>2. /\ EventInv' /\ OnceInv' /\ GapInv' /\ Longer
          /\ log' \in [Urls -> Seq(Event)]
          /\ Len(log'[u]) \in 1..Len(log'[u])
          /\ log'[u][Len(log'[u])] = e
      <4> HIDE DEF e
      <4> QED
        BY <1>1, <1>2, <1>3, <2>1, <3>1, OneEventKeeps
    <3>3. Left(r)'
      <4> HIDE DEF e
      <4> QED
        BY <1>2, <3>1, <3>2 DEF Left
    <3>4. TaskOK(r)'
      BY <1>1, <1>2, <2>1, <3>3 DEF TaskOK
    <3>5. QED
      BY <3>2, <3>4
  <2>2. CASE /\ u \notin Scoped /\ EmitAll(u, <<EventFor(r, "withheld", FALSE)>>)
             /\ requestTask' = [requestTask EXCEPT ![r] = "done"]
    <3>1. requestTask'[r] = "done"
      BY <2>2 DEF IInv, TypeOK
    <3>2. QED
      BY <2>1, <2>2, <3>1
  <2>3. CASE /\ u \in Scoped \cap Noisy /\ EmitAll(u, <<EventFor(r, "dropped", FALSE)>>)
             /\ requestTask' = [requestTask EXCEPT ![r] = "done"]
    <3>1. requestTask'[r] = "done"
      BY <2>3 DEF IInv, TypeOK
    <3>2. QED
      BY <2>1, <2>3, <3>1
  <2>4. CASE /\ u \in Scoped \ Noisy /\ log' = log
             /\ requestTask' = [requestTask EXCEPT ![r] = "headers"]
    <3>1. requestTask'[r] = "headers"
      BY <2>4 DEF IInv, TypeOK
    <3>2. TaskOK(r)'
      BY <1>1, <1>2, <2>4, <3>1 DEF TaskOK
    <3>3. EventInv' /\ OnceInv' /\ GapInv' /\ Longer
      BY <1>3, <2>4, QuietKeeps
    <3>4. QED
      BY <2>4, <3>2, <3>3 DEF IInv, TypeOK
  <2>5. QED
    BY <2>2, <2>3, <2>4 DEF Request
<1>5. TaskInv'
  <2>1. ASSUME NEW q \in Requests, q # r PROVE TaskOK(q)'
    BY <1>2, <1>4, <2>1, OthersKeep
  <2>2. QED
    BY <1>4, <2>1 DEF TaskInv
<1>6. TypeOK'
  BY <1>2, <1>4 DEF IInv, TypeOK
<1>7. QED
  BY <1>4, <1>5, <1>6 DEF IInv

(* The rest of handle_request, headers read or not, keeps the invariant.   *)
LEMMA HeadersKeep ==
    ASSUME IInv, NEW r \in Requests, HeadersRead(r) \/ HeadersRaise(r) PROVE IInv'
<1>0. /\ requestTask[r] = "headers" /\ answer[r] # "none" /\ url[r] # NoUrl
      /\ url[r] \in Scoped
  BY DEF HeadersRead, HeadersRaise, IInv, TaskInv, TaskOK
<1>1. /\ requestTask[r] = "headers" /\ url' = url /\ answer' = answer
      /\ responseTask' = responseTask /\ open' = open /\ endpoints \subseteq endpoints'
      /\ requestTask' \in [Requests -> {"none", "headers", "done", "raised"}]
      /\ \A q \in Requests : q # r => requestTask'[q] = requestTask[q]
      /\ url[r] \in Urls /\ url[r] \in Scoped /\ endpoints' \subseteq Urls
      /\ httpRequests' \in Nat /\ answer[r] # "none"
  <2>1. url[r] \in Urls
    BY <1>0, UrlAssumption
  <2>2. CASE HeadersRead(r)
    BY <1>0, <2>1, <2>2 DEF HeadersRead, IInv, TypeOK
  <2>3. CASE HeadersRaise(r)
    BY <1>0, <2>1, <2>3 DEF HeadersRaise, IInv, TypeOK
  <2>4. QED
    BY <2>2, <2>3
<1>2. /\ \A q \in Requests : requestTask[q] = "done" => requestTask'[q] = "done"
      /\ \A q \in Requests : url[q] # NoUrl => url'[q] = url[q]
      /\ \A q \in Requests : responseTask[q] = "done" => responseTask'[q] = "done"
  BY <1>1
<1>3. /\ EventInv' /\ OnceInv' /\ GapInv' /\ Longer /\ log' \in [Urls -> Seq(Event)]
      /\ requestTask'[r] = "raised" \/ (requestTask'[r] = "done" /\ Left(r)')
  <2>1. CASE HeadersRead(r)
    <3> DEFINE e == EventFor(r, "request", FALSE)
    <3>1. /\ EmitAll(url[r], <<e>>) /\ requestTask'[r] = "done"
          /\ url[r] \in endpoints'
      BY <2>1 DEF HeadersRead, Emit, IInv, TypeOK
    <3>0. e \in Event /\ e.req = r /\ e.kind = "request" /\ e.kind \notin Read
      BY EventIsEvent DEF Kinds, Read
    <3>2. /\ EventInv' /\ OnceInv' /\ GapInv' /\ Longer
          /\ log' \in [Urls -> Seq(Event)]
          /\ Len(log'[url[r]]) \in 1..Len(log'[url[r]])
          /\ log'[url[r]][Len(log'[url[r]])] = e
      <4> HIDE DEF e
      <4> QED
        BY <1>1, <1>2, <3>0, <3>1, OneEventKeeps
    <3>3. QED
      <4> HIDE DEF e
      <4> QED
        BY <1>1, <3>0, <3>1, <3>2 DEF Left
  <2>2. CASE HeadersRaise(r)
    <3>1. log' = log /\ requestTask'[r] = "raised"
      BY <2>2 DEF HeadersRaise, IInv, TypeOK
    <3>2. EventInv' /\ OnceInv' /\ GapInv' /\ Longer
      BY <1>1, <1>2, <3>1, QuietKeeps
    <3>3. QED
      BY <3>1, <3>2 DEF IInv, TypeOK
  <2>3. QED
    BY <2>1, <2>2
<1>4. TaskInv'
  <2>1. ASSUME NEW q \in Requests, q # r PROVE TaskOK(q)'
    BY <1>1, <1>3, <2>1, OthersKeep
  <2>2. TaskOK(r)'
    BY <1>1, <1>3 DEF IInv, TaskInv, TaskOK
  <2>3. QED
    BY <2>1, <2>2 DEF TaskInv
<1>5. TypeOK'
  BY <1>1, <1>3 DEF IInv, TypeOK
<1>6. QED
  BY <1>3, <1>4, <1>5 DEF IInv
(* handle_response, up to its wait, keeps the invariant.                   *)
LEMMA RespondKeeps ==
    ASSUME IInv, NEW r \in Requests, Respond(r) PROVE IInv'
<1>1. url[r] \in Urls /\ url[r] # NoUrl /\ responseTask[r] = "none" /\ answer[r] = "sent"
  BY DEF Respond, IInv, TypeOK, TaskInv, TaskOK
<1>2. /\ url' = url /\ requestTask' = requestTask /\ endpoints' = endpoints
      /\ httpRequests' = httpRequests /\ open' = open
      /\ answer' \in [Requests -> {"none", "sent", "answered", "failed"}]
      /\ answer'[r] = "answered" /\ \A q \in Requests : q # r => answer'[q] = answer[q]
  BY DEF Respond, IInv, TypeOK
<1>3. /\ responseTask' \in [Requests -> {"none", "body", "done"}]
      /\ \A q \in Requests : q # r => responseTask'[q] = responseTask[q]
      /\ responseTask'[r] = "body" => url[r] \in Scoped
      /\ \A q \in Requests : responseTask[q] = "done" => responseTask'[q] = "done"
  BY <1>1 DEF Respond, IInv, TypeOK
<1>4. EventInv' /\ OnceInv' /\ GapInv' /\ Longer /\ log' \in [Urls -> Seq(Event)]
  <2>1. CASE url[r] \in Scoped
    <3>1. log' = log
      BY <2>1 DEF Respond
    <3>2. EventInv' /\ OnceInv' /\ GapInv' /\ Longer
      BY <1>2, <1>3, <3>1, QuietKeeps
    <3>3. QED
      BY <3>1, <3>2 DEF IInv, TypeOK
  <2>2. CASE url[r] \notin Scoped
    <3> DEFINE e == EventFor(r, "withheld", FALSE)
    <3>1. EmitAll(url[r], <<e>>)
      BY <2>2 DEF Respond, Emit
    <3>2. e \in Event /\ e.req = r /\ e.kind = "withheld"
      BY EventIsEvent DEF Kinds
    <3>3. e.kind \notin Read /\ e.kind \notin Taken /\ e.kind # "request"
      <4> HIDE DEF e
      <4> QED
        BY <3>2 DEF Read, Taken
    <3>4. QED
      <4> HIDE DEF e
      <4> QED
        BY <1>1, <1>2, <1>3, <3>1, <3>2, <3>3, OneEventKeeps
  <2>3. QED
    BY <2>1, <2>2
<1>5. TaskInv'
  <2>1. ASSUME NEW q \in Requests, q # r PROVE TaskOK(q)'
    BY <1>2, <1>3, <1>4, <2>1, OthersKeep
  <2>2. Left(r) => Left(r)'
    <3>1. Len(log[url[r]]) \in Nat /\ Len(log'[url[r]]) \in Nat
      BY <1>1, <1>4 DEF IInv, TypeOK
    <3>2. QED
      BY <1>1, <1>2, <1>4, <3>1 DEF Left, Longer
  <2>3. TaskOK(r)'
    BY <1>1, <1>2, <1>3, <2>2 DEF IInv, TaskInv, TaskOK
  <2>4. QED
    BY <2>1, <2>3 DEF TaskInv
<1>6. TypeOK'
  BY <1>2, <1>3, <1>4 DEF IInv, TypeOK
<1>7. QED
  BY <1>4, <1>5, <1>6 DEF IInv

(* handle_response records its response last, perhaps after a gap; with a   *)
(* body and a gap both, only where the endpoint is not known.              *)
LEMMA BodyEvents ==
    ASSUME NEW r \in Requests, BodyRead(r) \/ BodyRaises(r)
    PROVE  \E es \in Seq(Event) :
             /\ EmitAll(url[r], es)
             /\ \A i \in 1..Len(es) : es[i].req = r /\ es[i].kind \in Read
             /\ \A i, j \in 1..Len(es) :
                   (es[i].kind = "response" /\ es[i].body /\ es[j].kind = "bodyGap") =>
                       url[r] \notin endpoints
<1> DEFINE gap == EventFor(r, "bodyGap", FALSE)
           bare == EventFor(r, "response", FALSE)
           full == EventFor(r, "response", TRUE)
<1>1. /\ gap \in Event /\ gap.req = r /\ gap.kind = "bodyGap"
      /\ bare \in Event /\ bare.req = r /\ bare.kind = "response" /\ ~bare.body
      /\ full \in Event /\ full.req = r /\ full.kind = "response"
  BY DEF EventFor, Event, Kinds
<1>2. CASE BodyRaises(r)
  <2>1. EmitAll(url[r], <<gap, bare>>)
    BY <1>2 DEF BodyRaises
  <2>2. /\ <<gap, bare>> \in Seq(Event) /\ Len(<<gap, bare>>) = 2
        /\ <<gap, bare>>[1] = gap /\ <<gap, bare>>[2] = bare
    <3> HIDE DEF gap, bare
    <3> QED
      BY <1>1
  <2>3. \A i \in 1..2 : i = 1 \/ i = 2
    OBVIOUS
  <2>4. /\ \A i \in 1..2 : <<gap, bare>>[i].req = r /\ <<gap, bare>>[i].kind \in Read
        /\ \A i \in 1..2 : <<gap, bare>>[i].kind = "response" => ~<<gap, bare>>[i].body
    <3> HIDE DEF gap, bare
    <3> QED
      BY <1>1, <2>2, <2>3 DEF Read
  <2>5. QED
    <3> HIDE DEF gap, bare
    <3> QED
      BY <2>1, <2>2, <2>4
<1>3. CASE BodyRead(r) /\ url[r] \in endpoints
  <2>1. EmitAll(url[r], <<>> \o <<full>>)
    BY <1>3 DEF BodyRead
  <2>2. <<>> \o <<full>> = <<full>>
    <3> HIDE DEF full
    <3> QED
      BY <1>1
  <2>3. /\ <<full>> \in Seq(Event) /\ Len(<<full>>) = 1
        /\ \A i \in 1..Len(<<full>>) : <<full>>[i] = full
    <3> HIDE DEF full
    <3> QED
      BY <1>1
  <2>4. QED
    <3> HIDE DEF full
    <3> QED
      BY <1>1, <2>1, <2>2, <2>3 DEF Read
<1>4. CASE BodyRead(r) /\ url[r] \notin endpoints
  <2>1. EmitAll(url[r], <<gap>> \o <<full>>)
    BY <1>4 DEF BodyRead
  <2>2. /\ <<gap>> \o <<full>> \in Seq(Event) /\ Len(<<gap>> \o <<full>>) = 2
        /\ (<<gap>> \o <<full>>)[1] = gap /\ (<<gap>> \o <<full>>)[2] = full
    <3> HIDE DEF gap, full
    <3>1. <<gap>> \in Seq(Event) /\ Len(<<gap>>) = 1 /\ <<gap>>[1] = gap
      BY <1>1
    <3>2. <<gap>> \o <<full>> = Append(<<gap>>, full)
      BY <1>1, <3>1, AppendIsConcat
    <3>3. QED
      BY <1>1, <3>1, <3>2, AppendProperties
  <2>3. \A i \in 1..2 : i = 1 \/ i = 2
    OBVIOUS
  <2>4. \A i \in 1..2 : /\ (<<gap>> \o <<full>>)[i].req = r
                       /\ (<<gap>> \o <<full>>)[i].kind \in Read
    <3> HIDE DEF gap, full
    <3> QED
      BY <1>1, <2>2, <2>3 DEF Read
  <2>5. QED
    <3> HIDE DEF gap, full
    <3> QED
      BY <1>4, <2>1, <2>2, <2>4
<1>5. QED
  BY <1>2, <1>3, <1>4

(* The rest of handle_response, body read or not, keeps the invariant.     *)
LEMMA BodyKeeps ==
    ASSUME IInv, NEW r \in Requests, BodyRead(r) \/ BodyRaises(r) PROVE IInv'
<1>1. /\ responseTask[r] = "body" /\ url[r] \in Scoped /\ url[r] \in Urls
      /\ url[r] # NoUrl
  BY UrlAssumption DEF BodyRead, BodyRaises, IInv, TypeOK, TaskInv, TaskOK
<1>2. /\ url' = url /\ answer' = answer /\ requestTask' = requestTask
      /\ endpoints' = endpoints /\ httpRequests' = httpRequests /\ open' = open
      /\ responseTask' \in [Requests -> {"none", "body", "done"}] /\ responseTask'[r] = "done"
      /\ \A q \in Requests : q # r => responseTask'[q] = responseTask[q]
      /\ \A q \in Requests : responseTask[q] = "done" => responseTask'[q] = "done"
  BY DEF BodyRead, BodyRaises, IInv, TypeOK
<1>3. PICK es \in Seq(Event) :
        /\ EmitAll(url[r], es)
        /\ \A i \in 1..Len(es) : es[i].req = r /\ es[i].kind \in Read
        /\ \A i, j \in 1..Len(es) :
              (es[i].kind = "response" /\ es[i].body /\ es[j].kind = "bodyGap") =>
                  url[r] \notin endpoints
  BY BodyEvents
<1>4. EventInv' /\ OnceInv' /\ GapInv' /\ Longer /\ log' \in [Urls -> Seq(Event)]
  <2>1. Longer /\ log' \in [Urls -> Seq(Event)]
    BY <1>1, <1>3, Emitted DEF IInv
  <2>2. \A i \in 1..Len(es) : es[i].kind \notin Taken /\ es[i].kind # "request"
    BY <1>3 DEF Read, Taken
  <2>3. EventInv' /\ OnceInv' /\ GapInv'
    BY <1>1, <1>2, <1>3, <2>2, NewEventsKeep
  <2>4. QED
    BY <2>1, <2>3
<1>5. TaskInv'
  <2>1. ASSUME NEW q \in Requests, q # r PROVE TaskOK(q)'
    BY <1>2, <1>4, <2>1, OthersKeep
  <2>2. Left(r) => Left(r)'
    <3>1. Len(log[url[r]]) \in Nat /\ Len(log'[url[r]]) \in Nat
      BY <1>1, <1>4 DEF IInv, TypeOK
    <3>2. QED
      BY <1>1, <1>2, <1>4, <3>1 DEF Left, Longer
  <2>3. TaskOK(r)'
    BY <1>1, <1>2, <2>2 DEF IInv, TaskInv, TaskOK
  <2>4. QED
    BY <2>1, <2>3 DEF TaskInv
<1>6. TypeOK'
  BY <1>2, <1>4 DEF IInv, TypeOK
<1>7. QED
  BY <1>4, <1>5, <1>6 DEF IInv

(* handle_request_failed keeps the invariant.                              *)
LEMMA FailKeeps ==
    ASSUME IInv, NEW r \in Requests, Fail(r) PROVE IInv'
<1>1. url[r] \in Urls /\ url[r] # NoUrl /\ answer[r] \in {"sent", "answered"}
  BY DEF Fail, IInv, TypeOK, TaskInv, TaskOK
<1>2. /\ url' = url /\ requestTask' = requestTask /\ responseTask' = responseTask
      /\ endpoints' = endpoints /\ httpRequests' = httpRequests /\ open' = open
      /\ answer' \in [Requests -> {"none", "sent", "answered", "failed"}]
      /\ answer'[r] = "failed" /\ \A q \in Requests : q # r => answer'[q] = answer[q]
  BY DEF Fail, IInv, TypeOK
<1>3. EventInv' /\ OnceInv' /\ GapInv' /\ Longer /\ log' \in [Urls -> Seq(Event)]
  <2>1. CASE url[r] \in Scoped
    <3> DEFINE e == EventFor(r, "failed", FALSE)
    <3>1. EmitAll(url[r], <<e>>)
      BY <2>1 DEF Fail, Emit
    <3>2. e \in Event /\ e.req = r /\ e.kind = "failed"
      BY EventIsEvent DEF Kinds
    <3>3. e.kind \notin Read /\ e.kind \notin Taken /\ e.kind # "request"
      <4> HIDE DEF e
      <4> QED
        BY <3>2 DEF Read, Taken
    <3>4. QED
      <4> HIDE DEF e
      <4> QED
        BY <1>1, <1>2, <2>1, <3>1, <3>2, <3>3, OneEventKeeps
  <2>2. CASE url[r] \notin Scoped
    <3>1. log' = log
      BY <2>2 DEF Fail
    <3>2. EventInv' /\ OnceInv' /\ GapInv' /\ Longer
      BY <1>2, <3>1, QuietKeeps
    <3>3. QED
      BY <3>1, <3>2 DEF IInv, TypeOK
  <2>3. QED
    BY <2>1, <2>2
<1>4. TaskInv'
  <2>1. ASSUME NEW q \in Requests, q # r PROVE TaskOK(q)'
    BY <1>2, <1>3, <2>1, OthersKeep
  <2>2. Left(r) => Left(r)'
    <3>1. Len(log[url[r]]) \in Nat /\ Len(log'[url[r]]) \in Nat
      BY <1>1, <1>3 DEF IInv, TypeOK
    <3>2. QED
      BY <1>1, <1>2, <1>3, <3>1 DEF Left, Longer
  <2>3. TaskOK(r)'
    BY <1>1, <1>2, <2>2 DEF IInv, TaskInv, TaskOK
  <2>4. QED
    BY <2>1, <2>3 DEF TaskInv
<1>5. TypeOK'
  BY <1>2, <1>3 DEF IInv, TypeOK
<1>6. QED
  BY <1>3, <1>4, <1>5 DEF IInv

(* A step that leaves all but the end of the session alone keeps it too.   *)
LEMMA ExportKeeps ==
    ASSUME IInv, Export \/ UNCHANGED vars PROVE IInv'
<1>1. /\ url' = url /\ answer' = answer /\ requestTask' = requestTask
      /\ responseTask' = responseTask /\ endpoints' = endpoints
      /\ httpRequests' = httpRequests /\ log' = log /\ open' \in BOOLEAN
  BY DEF Export, vars, IInv, TypeOK
<1>2. EventInv' /\ OnceInv' /\ GapInv' /\ Longer
  BY <1>1, QuietKeeps
<1>3. TaskInv'
  <2>1. ASSUME NEW q \in Requests PROVE TaskOK(q)'
    BY <1>1, <1>2, OthersKeep
  <2>2. QED
    BY <2>1 DEF TaskInv
<1>4. TypeOK'
  BY <1>1 DEF IInv, TypeOK
<1>5. QED
  BY <1>2, <1>3, <1>4 DEF IInv

-----------------------------------------------------------------------------
(* The invariant holds in every state, whatever the requests and URLs.     *)
THEOREM NetworkInvariance == Spec => []IInv
<1>1. Init => IInv
  <2> SUFFICES ASSUME Init PROVE IInv
    OBVIOUS
  <2>1. \A u \in Urls : log[u] = <<>> /\ Len(log[u]) = 0
    BY DEF Init
  <2>2. EventInv /\ OnceInv /\ GapInv
    BY <2>1 DEF EventInv, OnceInv, GapInv
  <2>3. TaskInv
    BY DEF Init, TaskInv, TaskOK
  <2>4. TypeOK
    BY DEF Init, TypeOK
  <2>5. QED
    BY <2>2, <2>3, <2>4 DEF IInv
<1>2. IInv /\ [Next]_vars => IInv'
  <2> SUFFICES ASSUME IInv, [Next]_vars PROVE IInv'
    OBVIOUS
  <2>1. CASE Export \/ UNCHANGED vars
    BY <2>1, ExportKeeps
  <2>2. ASSUME NEW r \in Requests,
               (\E u \in Urls : Request(r, u)) \/ Respond(r) \/ Fail(r) \/ Handler(r)
        PROVE  IInv'
    <3>1. CASE \E u \in Urls : Request(r, u)
      BY <3>1, RequestKeeps
    <3>2. CASE Respond(r)
      BY <3>2, RespondKeeps
    <3>3. CASE Fail(r)
      BY <3>3, FailKeeps
    <3>4. CASE HeadersRead(r) \/ HeadersRaise(r)
      BY <3>4, HeadersKeep
    <3>5. CASE BodyRead(r) \/ BodyRaises(r)
      BY <3>5, BodyKeeps
    <3>6. QED
      BY <2>2, <3>1, <3>2, <3>3, <3>4, <3>5, Zenon DEF Handler
  <2>3. QED
    BY <2>1, <2>2, Zenon DEF Next
<1>3. QED
  BY <1>1, <1>2, PTL DEF Spec

(* Every variable keeps its type.                                          *)
THEOREM NetworkTypeCorrect == Spec => []TypeOK
<1>1. IInv => TypeOK
  BY DEF IInv
<1>2. QED
  BY <1>1, NetworkInvariance, PTL

(* However the three handlers interleave, nothing is recorded about a URL  *)
(* out of scope but that it was withheld.                                  *)
THEOREM NetworkScopeCorrect == Spec => []OutOfScopeWithheld
<1>1. IInv => OutOfScopeWithheld
  <2>1. ASSUME IInv, NEW u \in Urls PROVE DOMAIN log[u] = 1..Len(log[u])
    BY <2>1 DEF IInv, TypeOK
  <2>2. QED
    BY <2>1 DEF IInv, EventInv, OutOfScopeWithheld
<1>2. QED
  BY <1>1, NetworkInvariance, PTL

(* A request is recorded or dropped at most once, never both, and one that *)
(* left no trace is having its headers read or had that fail.              *)
THEOREM NetworkRequestsAccounted == Spec => []RequestAccounted
<1>1. IInv => RequestAccounted
  <2> SUFFICES ASSUME IInv, NEW r \in Made
               PROVE  /\ Cardinality(About(r, "request") \cup About(r, "dropped")) <= 1
                      /\ About(r, "request") \cup About(r, "dropped")
                             \cup About(r, "withheld") = {}
                          => requestTask[r] \in {"headers", "raised"}
    BY DEF RequestAccounted
  <2> DEFINE taken == About(r, "request") \cup About(r, "dropped")
  <2>1. /\ r \in Requests /\ url[r] # NoUrl /\ url[r] \in Urls
        /\ DOMAIN log[url[r]] = 1..Len(log[url[r]])
    BY DEF Made, IInv, TypeOK
  <2>2. \A i, j \in taken : i = j
    BY <2>1 DEF About, Taken, IInv, OnceInv
  <2>3. Cardinality(taken) <= 1
    <3> HIDE DEF taken
    <3>1. CASE taken = {}
      BY <3>1, FS_EmptySet
    <3>2. CASE taken # {}
      <4>1. PICK i \in taken : taken = {i}
        BY <2>2, <3>2
      <4>2. QED
        BY <4>1, FS_Singleton
    <3>3. QED
      BY <3>1, <3>2
  <2>4. ASSUME taken \cup About(r, "withheld") = {}
        PROVE  requestTask[r] \in {"headers", "raised"}
    <3>1. ~Left(r)
      <4>1. \A kind \in {"request", "dropped", "withheld"} : About(r, kind) = {}
        BY <2>4
      <4>2. QED
        BY <2>1, <4>1 DEF About, Left
    <3>2. requestTask[r] \notin {"none", "done"}
      BY <2>1, <3>1 DEF IInv, TaskInv, TaskOK
    <3>3. QED
      BY <2>1, <3>2 DEF IInv, TypeOK
  <2>5. QED
    BY <2>3, <2>4
<1>2. QED
  BY <1>1, NetworkInvariance, PTL

(* A response recorded with its body is also reported as having none only  *)
(* where it overtook every request of its endpoint.                        *)
THEOREM NetworkGapsHonest == Spec => []FalseGapOnlyUnregistered
<1>1. IInv => FalseGapOnlyUnregistered
  <2> SUFFICES ASSUME IInv, NEW r \in Made, NEW i \in About(r, "response"),
                      NEW j \in About(r, "bodyGap"), log[url[r]][i].body,
                      NEW k \in RequestEvents(log[url[r]])
               PROVE  k > j
    BY DEF FalseGapOnlyUnregistered
  <2>1. r \in Made /\ url[r] \in Urls /\ DOMAIN log[url[r]] = 1..Len(log[url[r]])
    BY DEF Made, IInv, TypeOK
  <2>2. QED
    BY <2>1 DEF About, RequestEvents, IInv, GapInv
<1>2. QED
  BY <1>1, NetworkInvariance, PTL

(* In every log the capture can write, each response of a URL that has a   *)
(* recorded request is given to exactly one request.                       *)
THEOREM NetworkPairingExact == Spec => []EachResponseOnce
<1>1. TypeOK => EachResponseOnce
  BY PairedOnce DEF TypeOK, EachResponseOnce
<1>2. QED
  BY <1>1, NetworkTypeCorrect, PTL

-----------------------------------------------------------------------------
(* The requests of the log, each as a URL and a place, and their number.   *)
Recorded == UNION {{u} \X RequestEvents(log[u]) : u \in Urls}

TallyInv == IsFiniteSet(Recorded) /\ httpRequests = Cardinality(Recorded)

(* Events of other kinds leave the recorded requests as they were.         *)
LEMMA OthersUnrecorded ==
    ASSUME TypeOK, NEW u \in Urls, NEW es \in Seq(Event), EmitAll(u, es),
           \A i \in 1..Len(es) : es[i].kind # "request"
    PROVE  Recorded' = Recorded
<1>1. /\ log' \in [Urls -> Seq(Event)]
      /\ Len(es) \in Nat /\ Len(log[u]) \in Nat
      /\ \A v \in Urls : v # u => log'[v] = log[v]
      /\ Len(log'[u]) = Len(log[u]) + Len(es)
      /\ \A i \in 1..Len(log[u]) : log'[u][i] = log[u][i]
      /\ \A i \in 1..Len(es) : log'[u][Len(log[u]) + i] = es[i]
      /\ \A i \in 1..Len(log'[u]) :
             i \in 1..Len(log[u]) \/ (i - Len(log[u])) \in 1..Len(es)
  BY Emitted
<1>2. \A i \in 1..Len(log'[u]) : log'[u][i].kind = "request" => i \in 1..Len(log[u])
  <2> SUFFICES ASSUME NEW i \in 1..Len(log'[u]), i \notin 1..Len(log[u])
               PROVE  log'[u][i].kind # "request"
    OBVIOUS
  <2>1. (i - Len(log[u])) \in 1..Len(es) /\ Len(log[u]) + (i - Len(log[u])) = i
    BY <1>1
  <2>2. log'[u][Len(log[u]) + (i - Len(log[u]))] = es[i - Len(log[u])]
    BY <1>1, <2>1
  <2>3. QED
    BY <2>1, <2>2
<1>3. DOMAIN log[u] = 1..Len(log[u]) /\ DOMAIN log'[u] = 1..Len(log'[u])
  BY <1>1 DEF TypeOK
<1>4. RequestEvents(log'[u]) = RequestEvents(log[u])
  BY <1>1, <1>2, <1>3 DEF RequestEvents
<1>5. \A v \in Urls : RequestEvents(log'[v]) = RequestEvents(log[v])
  BY <1>1, <1>4
<1>6. QED
  BY <1>5 DEF Recorded

(* A request that is recorded is one more.                                 *)
LEMMA OneRecorded ==
    ASSUME TypeOK, TallyInv, NEW u \in Urls, NEW e \in Event, EmitAll(u, <<e>>),
           e.kind = "request"
    PROVE  IsFiniteSet(Recorded') /\ Cardinality(Recorded') = httpRequests + 1
<1> DEFINE es == <<e>>
           place == Len(log[u]) + 1
<1>1. es \in Seq(Event) /\ Len(es) = 1 /\ es[1] = e /\ EmitAll(u, es)
  OBVIOUS
<1>2. /\ log' \in [Urls -> Seq(Event)] /\ Len(log[u]) \in Nat
      /\ \A v \in Urls : v # u => log'[v] = log[v]
      /\ Len(log'[u]) = place
      /\ \A i \in 1..Len(log[u]) : log'[u][i] = log[u][i]
      /\ log'[u][place] = e
  <2> HIDE DEF es
  <2>1. /\ log' \in [Urls -> Seq(Event)] /\ Len(log[u]) \in Nat
        /\ \A v \in Urls : v # u => log'[v] = log[v]
        /\ Len(log'[u]) = Len(log[u]) + Len(es)
        /\ \A i \in 1..Len(log[u]) : log'[u][i] = log[u][i]
        /\ \A i \in 1..Len(es) : log'[u][Len(log[u]) + i] = es[i]
    BY <1>1, Emitted
  <2>2. 1 \in 1..Len(es) /\ log'[u][Len(log[u]) + 1] = es[1]
    BY <1>1, <2>1
  <2>3. QED
    BY <1>1, <2>1, <2>2
<1>3. DOMAIN log[u] = 1..Len(log[u]) /\ DOMAIN log'[u] = 1..place
  BY <1>2 DEF TypeOK
<1>4. /\ RequestEvents(log'[u]) = RequestEvents(log[u]) \cup {place}
      /\ place \notin RequestEvents(log[u])
  <2>1. place \in Nat /\ 1..place = (1..Len(log[u])) \cup {place}
        /\ place \notin 1..Len(log[u])
    BY <1>2
  <2>2. QED
    <3> HIDE DEF place
    <3> QED
      BY <1>2, <1>3, <2>1 DEF RequestEvents
<1>5. Recorded' = Recorded \cup {<<u, place>>} /\ <<u, place>> \notin Recorded
  <2> HIDE DEF place
  <2>1. \A p : p \in Recorded <=>
              \E v \in Urls : \E i \in RequestEvents(log[v]) : p = <<v, i>>
    BY DEF Recorded
  <2>2. \A p : p \in Recorded' <=>
              \E v \in Urls : \E i \in RequestEvents(log'[v]) : p = <<v, i>>
    BY DEF Recorded
  <2>3. \A v \in Urls : v # u => RequestEvents(log'[v]) = RequestEvents(log[v])
    BY <1>2
  <2>4. <<u, place>> \notin Recorded
    BY <1>4, <2>1
  <2>5. \A p : p \in Recorded' <=> p \in Recorded \/ p = <<u, place>>
    BY <1>4, <2>1, <2>2, <2>3
  <2>6. QED
    BY <2>4, <2>5
<1>6. QED
  <2> HIDE DEF place
  <2> QED
    BY <1>5, FS_AddElement DEF TallyInv

(* network_events counts the requests of the log, whichever coroutines are *)
(* under way (camoufox_investigator.py:877-896).                           *)
THEOREM NetworkTallyExact == Spec => []TallyMatchesLog
<1>1. Init => TallyInv
  <2> SUFFICES ASSUME Init PROVE TallyInv
    OBVIOUS
  <2>1. \A u \in Urls : RequestEvents(log[u]) = {}
    BY DEF Init, RequestEvents
  <2>2. Recorded = {}
    BY <2>1 DEF Recorded
  <2>3. QED
    BY <2>2, FS_EmptySet DEF Init, TallyInv
<1>2. IInv /\ TallyInv /\ [Next]_vars => TallyInv'
  <2> SUFFICES ASSUME IInv, TallyInv, [Next]_vars PROVE TallyInv'
    OBVIOUS
  <2> TypeOK
    BY DEF IInv
  <2>1. ASSUME log' = log, httpRequests' = httpRequests PROVE TallyInv'
    BY <2>1 DEF TallyInv, Recorded
  <2>2. ASSUME NEW u \in Urls, NEW es \in Seq(Event), EmitAll(u, es),
               \A i \in 1..Len(es) : es[i].kind # "request",
               httpRequests' = httpRequests
        PROVE  TallyInv'
    BY <2>2, OthersUnrecorded DEF TallyInv
  <2>3. ASSUME NEW r \in Requests, NEW u \in Urls,
               NEW kind \in {"withheld", "dropped", "failed"},
               EmitAll(u, <<EventFor(r, kind, FALSE)>>), httpRequests' = httpRequests
        PROVE  TallyInv'
    <3> DEFINE e  == EventFor(r, kind, FALSE)
               es == <<e>>
    <3>1. e \in Event /\ e.kind # "request"
      <4>1. kind \in Kinds /\ kind # "request"
        BY DEF Kinds
      <4>2. QED
        BY <4>1, EventIsEvent
    <3>2. es \in Seq(Event) /\ \A i \in 1..Len(es) : es[i].kind # "request"
      <4> HIDE DEF e
      <4> QED
        BY <3>1
    <3>3. EmitAll(u, es)
      BY <2>3
    <3>4. QED
      <4> HIDE DEF es
      <4> QED
        BY <2>2, <2>3, <3>2, <3>3
  <2>4. CASE Export \/ UNCHANGED vars
    BY <2>1, <2>4 DEF Export, vars
  <2>5. ASSUME NEW r \in Requests,
               (\E u \in Urls : Request(r, u)) \/ Respond(r) \/ Fail(r) \/ Handler(r)
        PROVE  TallyInv'
    <3>0. answer[r] # "none" => url[r] \in Urls
      BY DEF IInv, TypeOK, TaskInv, TaskOK
    <3>1. CASE \E u \in Urls : Request(r, u)
      BY <2>1, <2>3, <3>1 DEF Request
    <3>2. CASE Respond(r)
      BY <2>1, <2>3, <3>0, <3>2 DEF Respond, Emit
    <3>3. CASE Fail(r)
      BY <2>1, <2>3, <3>0, <3>3 DEF Fail, Emit
    <3>4. CASE HeadersRead(r)
      <4> DEFINE e == EventFor(r, "request", FALSE)
      <4>1. /\ EmitAll(url[r], <<e>>) /\ httpRequests' = httpRequests + 1
            /\ url[r] \in Urls
        BY <3>0, <3>4 DEF HeadersRead, Emit, IInv, TaskInv, TaskOK
      <4>2. e \in Event /\ e.kind = "request"
        BY EventIsEvent DEF Kinds
      <4>3. IsFiniteSet(Recorded') /\ Cardinality(Recorded') = httpRequests + 1
        <5> HIDE DEF e
        <5> QED
          BY <4>1, <4>2, OneRecorded
      <4>4. QED
        BY <4>1, <4>3 DEF TallyInv
    <3>5. CASE HeadersRaise(r)
      BY <2>1, <3>5 DEF HeadersRaise
    <3>6. CASE BodyRead(r) \/ BodyRaises(r)
      <4>1. url[r] \in Urls /\ httpRequests' = httpRequests
        BY <3>0, <3>6 DEF BodyRead, BodyRaises, IInv, TaskInv, TaskOK
      <4>2. PICK es \in Seq(Event) :
              EmitAll(url[r], es) /\ \A i \in 1..Len(es) : es[i].kind \in Read
        BY <3>6, BodyEvents
      <4>3. QED
        BY <2>2, <4>1, <4>2 DEF Read
    <3>7. QED
      BY <2>5, <3>1, <3>2, <3>3, <3>4, <3>5, <3>6, Zenon DEF Handler
  <2>6. QED
    BY <2>4, <2>5, Zenon DEF Next
<1>3. TallyInv => TallyMatchesLog
  BY DEF TallyInv, Recorded, TallyMatchesLog
<1>4. QED
  BY <1>1, <1>2, <1>3, NetworkInvariance, PTL DEF Spec
=============================================================================
