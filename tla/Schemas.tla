------------------------------ MODULE Schemas ------------------------------
(***************************************************************************)
(* Schemas inferred from bodies (analysis/schema.py).                      *)
(*                                                                         *)
(* A body is what _walk meets in it, depth first: nodes [path, parent,     *)
(* item, type], where a path merges the items of a list, parent is the     *)
(* position of the object or list the node is in (0: the body itself) and  *)
(* item its place in a list, from 1 (0 in an object).                      *)
(***************************************************************************)
EXTENDS Sublists

CONSTANTS
    MaxItems,   \* MAX_ARRAY_ITEMS
    MaxFields   \* MAX_FIELDS

ASSUME FieldsAssumption == MaxFields \in Nat \ {0} /\ MaxItems \in Nat

NewField == [present |-> 0, occurrences |-> 0, nulls |-> 0, types |-> <<>>]
NewSchema == [fields |-> <<>>, samples |-> 0]

FieldOf(fields, path) == IF path \in DOMAIN fields THEN fields[path] ELSE NewField

(* _FieldAccumulator.observe.                                              *)
WithValue(field, type) ==
    [field EXCEPT !.occurrences = @ + 1, !.nulls = @ + (IF type = "null" THEN 1 ELSE 0),
                  !.types = Put(@, type, 1 + (IF type \in DOMAIN @ THEN @[type] ELSE 0))]

(* _walk: what is inside a value is not looked at once there are as many   *)
(* fields as there may be.                                                 *)
(* Mutant: it is looked at only while one more field fits.                 *)
HasRoomForOne(fields) == Cardinality(DOMAIN fields) + 1 < MaxFields

HasRoom(fields) == Cardinality(DOMAIN fields) < MaxFields

(* One value of an object or list, unless that was not entered.            *)
Meet(state, node, i) ==
    LET known == Put(state.fields, node.path,
                     WithValue(FieldOf(state.fields, node.path), node.type))
    IN  IF node.parent \notin state.entered \/ node.item > MaxItems THEN state
        ELSE [fields |-> known, met |-> state.met \cup {node.path},
              entered |-> IF HasRoom(known) THEN state.entered \cup {i} ELSE state.entered]

Walk(fields, body) ==
    LET start == [fields |-> fields, met |-> {}, entered |-> IF HasRoom(fields) THEN {0} ELSE {}]
        upTo[i \in 0..Len(body)] == IF i = 0 THEN start ELSE Meet(upTo[i - 1], body[i], i)
    IN  upTo[Len(body)]

(* SchemaInferrer.observe: a field is present once a body, however often it*)
(* occurs there.                                                           *)
Counting(walked) ==
    [p \in DOMAIN walked.fields |->
        [walked.fields[p] EXCEPT !.present = @ + (IF p \in walked.met THEN 1 ELSE 0)]]

Observed(schema, body) ==
    [samples |-> schema.samples + 1, fields |-> Counting(Walk(schema.fields, body))]

SchemaOf(bodies) ==
    LET upTo[i \in 0..Len(bodies)] ==
            IF i = 0 THEN NewSchema ELSE Observed(upTo[i - 1], bodies[i])
    IN  upTo[Len(bodies)]

ObservedOptional(schema, path) == schema.fields[path].present < schema.samples

(* _infer_schemas: one for the requests of an endpoint and one for each    *)
(* status of its responses.                                                *)
Bodied(events) ==
    Those(events, {i \in DOMAIN events :
        /\ events[i].type \in {"http_request", "http_response"}
        /\ events[i].endpoint # <<>> /\ events[i].body # <<>>})

SchemaKey(e) == <<e.endpoint, e.type, IF e.type = "http_response" THEN e.status ELSE 0>>

BodiesUnder(bodied, k) ==
    LET own == Those(bodied, {i \in DOMAIN bodied : SchemaKey(bodied[i]) = k})
    IN  [i \in DOMAIN own |-> own[i].body]

Inferred(bodied) ==
    [k \in {SchemaKey(bodied[i]) : i \in DOMAIN bodied} |-> SchemaOf(BodiesUnder(bodied, k))]

SchemasOf(events) == Inferred(Bodied(events))
=============================================================================
