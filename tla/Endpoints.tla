----------------------------- MODULE Endpoints -----------------------------
(***************************************************************************)
(* Endpoints (analysis/endpoints.py): requests are grouped under a method  *)
(* and a template, in which the segments that vary are parameters, and     *)
(* every observation of a request is attributed to the endpoint that covers*)
(* its path (endpoint_key_for_request, pipeline._attribute_events).        *)
(*                                                                         *)
(* The text of a key is cut at the slashes: its first segment is the method*)
(* with the space after it.  An operation is what a GraphQL body asks for, *)
(* which only the driver's requests tell.                                  *)
(***************************************************************************)
EXTENDS Routes, FiniteSetsExt, SequencesExt

CONSTANTS
    KindOf,         \* the kind of each identifier
    ParameterAfter, \* the parameter that is named after a segment
    MinSiblings,    \* MIN_SIBLINGS_TO_TEMPLATE
    MaxPaths        \* how many concrete paths an endpoint keeps

ASSUME PathsAssumption == MinSiblings \in Nat /\ MaxPaths \in Nat \ {0}

NoOperation == "none"

KeyText(method, path) == <<method>> \o path
OperationKey(e) == <<"GRAPHQL", e.operation>>

Requests(events) == {e \in ToSet(events) : e.type = "http_request"}
RestRequests(events) == {e \in Requests(events) : e.operation = NoOperation}

(* _template_bucket: a segment is a parameter if all that is seen there are*)
(* identifiers, several of them or of a kind that is never a word.         *)
Bucket(events, e) ==
    {x \in RestRequests(events) : x.method = e.method /\ Len(x.url.path) = Len(e.url.path)}

Varies(events, e, i) ==
    LET seen == {x.url.path[i] : x \in Bucket(events, e)}
    IN  /\ seen \subseteq Identifiers
        /\ \/ Cardinality(seen) >= MinSiblings
           \/ {KindOf[s] : s \in seen} \subseteq {"uuid", "hash"}

(* _param_name: the name is that of the segment before, as it was asked.   *)
Template(events, e) ==
    [i \in DOMAIN e.url.path |->
        IF ~Varies(events, e, i) THEN e.url.path[i]
        ELSE IF i = 1 THEN "{id}" ELSE ParameterAfter[e.url.path[i - 1]]]

(* An endpoint keeps only so many of its paths: their text says which.     *)
Kept(paths) ==
    IF Cardinality(paths) <= MaxPaths THEN paths
    ELSE CHOOSE kept \in SUBSET paths : Cardinality(kept) = MaxPaths

(* An endpoint is templated if its key is none of its paths.               *)
Endpoint(key, method, group) ==
    [key |-> key, method |-> method, seen |-> Cardinality(group),
     templated |-> method # "GRAPHQL" /\ \A e \in group : key # KeyText(method, e.url.path),
     paths |-> Kept({e.url.path : e \in group}), cites |-> {e.seq : e \in group}]

EndpointsOf(events) ==
    LET rest == RestRequests(events)
        asked == Requests(events) \ rest
        template == [e \in rest |-> Template(events, e)]
        Alike(e) == {x \in rest : x.method = e.method /\ template[x] = template[e]}
    IN  {Endpoint(KeyText(e.method, template[e]), e.method, Alike(e)) : e \in rest}
        \cup {Endpoint(OperationKey(e), "GRAPHQL", {x \in asked : x.operation = e.operation}) :
              e \in asked}

(* endpoint_key_for_request: a path that no endpoint kept is its own.      *)
KeyForRequest(e, endpoints) ==
    LET covering == {p \in endpoints : p.method = e.method /\ e.url.path \in p.paths}
    IN  IF e.operation # NoOperation THEN OperationKey(e)
        ELSE IF covering = {} THEN KeyText(e.method, e.url.path)
        ELSE (CHOOSE p \in covering : TRUE).key

(* _attribute_events: a response inherits the endpoint of the last request *)
(* of its method and URL; an observation reduced at the edge of the scope  *)
(* has none.                                                               *)
Asked(events, e) ==
    SelectLastInSeq(events, LAMBDA x :
        x.type = "http_request" /\ x.method = e.method /\ x.url = e.url)

(* Mutant of KeyOf: what the page tells of a call is its own endpoint.     *)
KeyOfApart(events, endpoints, e) ==
    CASE e.type = "http_request" -> KeyForRequest(e, endpoints)
      [] e.type = "http_response" ->
             IF Asked(events, e) = 0 THEN <<>>
             ELSE KeyForRequest(events[Asked(events, e)], endpoints)
      [] e.type \in {"runtime_fetch", "runtime_xhr"} /\ ~e.reduced ->
             KeyText(e.method, e.url.path)
      [] OTHER -> <<>>

KeyOf(events, endpoints, e) ==
    CASE e.type = "http_request" -> KeyForRequest(e, endpoints)
      [] e.type = "http_response" ->
             IF Asked(events, e) = 0 THEN <<>>
             ELSE KeyForRequest(events[Asked(events, e)], endpoints)
      [] e.type \in {"runtime_fetch", "runtime_xhr"} /\ ~e.reduced -> KeyForRequest(e, endpoints)
      [] OTHER -> <<>>

Attributed(events) ==
    LET endpoints == EndpointsOf(events)
    IN  [i \in DOMAIN events |->
            [events[i] EXCEPT !.endpoint = KeyOf(events, endpoints, events[i])]]
=============================================================================
