-------------------------- MODULE ResponsePairing --------------------------
(***************************************************************************)
(* How the offline analysis gives statuses to requests                     *)
(* (analysis/endpoints.py, EndpointAnalyzer._collect).  The capture writes *)
(* no request_id, so responses are paired by position: the first response  *)
(* to a URL belongs to the first request for it, and what is left over     *)
(* goes to the last.                                                       *)
(*                                                                         *)
(* A log here is the part of the event log that is about one URL, since    *)
(* nothing is paired across URLs: a sequence of events [kind |-> ...,      *)
(* req |-> r].  The request a response answers stands for its status.      *)
(***************************************************************************)
EXTENDS Integers, Sequences, FiniteSets

RequestEvents(log)  == {i \in DOMAIN log : log[i].kind = "request"}
ResponseEvents(log) == {i \in DOMAIN log : log[i].kind = "response"}

Rank(i, places) == Cardinality({j \in places : j <= i})

(* Mutant of Statuses: what is left over is dropped.                       *)
StatusesFirstOnly(log, i) ==
    {j \in ResponseEvents(log) : Rank(j, ResponseEvents(log)) = Rank(i, RequestEvents(log))}

(* The responses whose status the request event at place i is given.       *)
Statuses(log, i) ==
    LET rank == Rank(i, RequestEvents(log))
        last == \A j \in RequestEvents(log) : j <= i
    IN  {j \in ResponseEvents(log) :
            LET turn == Rank(j, ResponseEvents(log))
            IN  turn = rank \/ (last /\ turn > rank)}

(* The responses some endpoint counts.                                     *)
Attributed(log) == UNION {Statuses(log, i) : i \in RequestEvents(log)}
=============================================================================
