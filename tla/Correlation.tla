---------------------------- MODULE Correlation ----------------------------
(***************************************************************************)
(* Dependency hypotheses between endpoints (analysis/correlation.py): where*)
(* each identifying value was seen, which sighting can have come before    *)
(* which, and how much the evidence is worth, in thousandths.              *)
(*                                                                         *)
(* An event's leaves are what it carries, each [field, depth, item, query, *)
(* value]: how deep in a body it is, its last place in the lists it is in, *)
(* and whether it is a parameter of the URL instead.                       *)
(***************************************************************************)
EXTENDS Integers, FiniteSets, Sublists, SequencesExt

CONSTANTS
    Resolution,     \* PROBE_CLOCK_RESOLUTION_MS
    Tolerance,      \* CLOCK_TOLERANCE_MS
    Window,         \* PROXIMITY_WINDOW_MS
    Close,          \* the distance that counts as close
    MaxEndpoints,   \* MAX_ENDPOINTS_FOR_CANDIDATE
    Stopwords,      \* STOPWORD_VALUES
    Tokens          \* the normalised tokens of each field

ASSUME ClockAssumption == Resolution \in Nat /\ Tolerance \in Nat
ASSUME TokensAssumption == \A f \in DOMAIN Tokens : IsFiniteSet(Tokens[f])

AmbiguousCeiling == 600
MinConfidence == 350

-----------------------------------------------------------------------------
(* What is observed.  A value is [kind, text, size]: a small whole number  *)
(* is a "flag", and text without a letter or a digit is "punctuation".     *)
Identifying(v) ==
    /\ v.kind \in {"text", "number"}
    /\ v.size \in 4..200
    /\ v.text \notin Stopwords

Reached(leaf) == leaf.depth <= 8 /\ leaf.item <= 25

Producing == {"http_response", "storage_change", "user_input", "user_change"}
Consuming == {"http_request", "runtime_fetch", "runtime_xhr"}

(* An input is never attributed, so that its endpoint is its kind; of the  *)
(* changes of a storage only those that set a value carry leaves.          *)
ObservedKind(e, leaf) ==
    CASE e.type = "http_response" -> "response"
      [] e.type = "http_request" -> "request"
      [] e.type \in {"runtime_fetch", "runtime_xhr"} ->
             IF leaf.query THEN "runtime_request" ELSE "runtime"
      [] e.type = "storage_change" -> "storage"
      [] e.type \in {"user_input", "user_change"} -> "user_input"

Sighting(e, leaf) ==
    [seq |-> e.seq, source |-> e.source, field |-> leaf.field, value |-> leaf.value,
     endpoint |-> IF e.endpoint = <<>> THEN <<ObservedKind(e, leaf)>> ELSE e.endpoint,
     role |-> IF e.type \in Producing THEN "producer" ELSE "consumer",
     kind |-> ObservedKind(e, leaf), wall |-> e.wall, ordinal |-> e.ordinal,
     document |-> <<e.page, e.doc>>, moment |-> e.moment, world |-> e.world,
     page |-> e.page, trace |-> e.trace, turn |-> e.turn]

(* Only the probe's records carry its clock and its ordinal; an observation*)
(* reduced at the edge of the scope carries no values.                     *)
SightingsIn(e) ==
    LET kept == Those(e.leaves, {i \in DOMAIN e.leaves : /\ Reached(e.leaves[i])
                                                         /\ Identifying(e.leaves[i].value)})
    IN  IF e.type \in Producing \cup Consuming /\ ~e.reduced
        THEN [j \in DOMAIN kept |-> Sighting(e, kept[j])]
        ELSE <<>>

Sightings(events) == FlattenSeq([i \in DOMAIN events |-> SightingsIn(events[i])])

-----------------------------------------------------------------------------
(* _Ordering.compare: the strongest evidence of order there is for a pair. *)
TieOf == [probe_ordinal |-> "probe_ordinal_tie", same_source_seq |-> "same_source_seq_tie",
          same_document_clock |-> "within_probe_clock_resolution",
          wall_clock |-> "within_clock_uncertainty"]

Relation(method, tie, before, delta) ==
    [relation |-> IF tie THEN "ambiguous" ELSE IF before THEN "precedes" ELSE "contradicted",
     method |-> IF tie THEN TieOf[method] ELSE method, delta |-> delta]

ByClock(method, delta, unsure) == Relation(method, delta \in (-unsure)..unsure, delta > 0, delta)

FromProbe(o) == o.source = "runtime"

(* Mutant of SameDocument: a page is taken for its document.               *)
SamePage(a, b) == FromProbe(a) /\ FromProbe(b) /\ a.page = b.page

SameDocument(a, b) == FromProbe(a) /\ FromProbe(b) /\ a.document = b.document

CompareSightings(a, b) ==
    CASE SameDocument(a, b) /\ a.world = b.world ->
             Relation("probe_ordinal", a.ordinal = b.ordinal, a.ordinal < b.ordinal,
                      b.moment - a.moment)
      [] SameDocument(a, b) /\ a.world # b.world ->
             ByClock("same_document_clock", b.moment - a.moment, Resolution)
      [] ~SameDocument(a, b) /\ a.source = b.source /\ a.world = b.world ->
             Relation("same_source_seq", a.seq = b.seq, a.seq < b.seq, b.wall - a.wall)
      [] OTHER -> ByClock("wall_clock", b.wall - a.wall, Tolerance)

-----------------------------------------------------------------------------
(* field_name_similarity: the shared part of the two fields' tokens.       *)
Similarity(f, g) ==
    IF Tokens[f] = {} \/ Tokens[g] = {} THEN 0
    ELSE (1000 * Cardinality(Tokens[f] \cap Tokens[g])) \div Cardinality(Tokens[f] \cup Tokens[g])

Supported(p, c, touched) == touched <= 2 /\ Similarity(p.field, c.field) >= 500

Near(delta, reach) == delta \in (-reach)..reach
Lesser(x, y) == IF x < y THEN x ELSE y
Greater(x, y) == IF x < y THEN y ELSE x

(* _score, and the mechanism that _mechanism reads off the kinds.          *)
MethodScore(method) ==
    CASE method \in {"probe_ordinal", "same_document_clock"} -> 150
      [] method = "same_source_seq" -> 100
      [] method = "wall_clock" -> 50
      [] OTHER -> 0

Score(p, c, order, touched) ==
    LET sum == 300 + (IF touched <= 2 THEN 250 ELSE 0) + Similarity(p.field, c.field) \div 5
               + MethodScore(order.method) + (IF Near(order.delta, Close) THEN 50 ELSE 0)
               + (IF p.page = c.page THEN 50 ELSE 0) + (IF c.trace THEN 50 ELSE 0)
    IN  Lesser(990, IF order.relation = "ambiguous" THEN Lesser(sum - 200, AmbiguousCeiling)
                    ELSE sum)

Mechanism(p, c) ==
    CASE p.kind = "response" /\ c.kind \in {"request", "runtime"} -> "response_to_request"
      [] p.kind = "storage" -> "storage_to_request"
      [] p.kind = "user_input" -> "user_input_to_request"
      [] OTHER -> "unknown"

Edge(p, c, touched) ==
    LET order == CompareSightings(p, c)
    IN  [from |-> <<p.endpoint, p.field>>, to |-> <<c.endpoint, c.field>>,
         relation |-> order.relation, method |-> order.method, delta |-> order.delta,
         confidence |-> Score(p, c, order, touched), mechanism |-> Mechanism(p, c),
         uniqueness |-> touched, repeats |-> 1, cites |-> {<<p.seq, c.seq>>}]

(* _pair: the sightings that may have given a consumer its value.          *)
Plausible(p, c, touched) ==
    LET order == CompareSightings(p, c)
    IN  /\ <<p.endpoint, p.field>> # <<c.endpoint, c.field>>
        /\ order.relation # "contradicted"
        /\ Near(order.delta, Window)
        /\ order.relation = "ambiguous" => Supported(p, c, touched)
        /\ Score(p, c, order, touched) >= MinConfidence

Worse(e, f) ==
    \/ e.relation # "precedes" /\ f.relation = "precedes"
    \/ (e.relation = "precedes") = (f.relation = "precedes") /\ e.confidence < f.confidence

BestOf(edges) ==
    edges[CHOOSE i \in DOMAIN edges :
              /\ \A j \in DOMAIN edges : ~Worse(edges[i], edges[j])
              /\ \A j \in 1..(i - 1) : Worse(edges[j], edges[i])]

(* analyze, for one value: an edge for each consumer that has a producer,  *)
(* unless the value is ambient.                                            *)
EdgesOf(sightings) ==
    LET touched == Cardinality({o.endpoint : o \in ToSet(sightings)})
        Gives(i, c) == sightings[i].role = "producer" /\ Plausible(sightings[i], c, touched)
        Givers(c) == Those(sightings, {i \in DOMAIN sightings : Gives(i, c)})
        given == Those(sightings, {i \in DOMAIN sightings :
                                       /\ touched <= MaxEndpoints
                                       /\ sightings[i].role = "consumer"
                                       /\ Givers(sightings[i]) # <<>>})
    IN  [i \in DOMAIN given |->
            BestOf([j \in DOMAIN Givers(given[i]) |-> Edge(Givers(given[i])[j], given[i], touched)])]

(* _merge: repeats of one relationship raise its confidence.  One proven   *)
(* order is the order of all; without it the ceiling stays.                *)
(* Mutant: the ceiling is forgotten when a relationship is seen again.     *)
AgainUncapped(known, edge) ==
    LET order == IF edge.relation = "precedes" THEN edge ELSE known
    IN  [known EXCEPT !.repeats = @ + 1, !.cites = @ \cup edge.cites,
                      !.relation = order.relation, !.method = order.method, !.delta = order.delta,
                      !.confidence = Lesser(990, Greater(@, edge.confidence) + 30 * known.repeats)]

Again(known, edge) ==
    LET order == IF edge.relation = "precedes" THEN edge ELSE known
        ceiling == IF order.relation = "ambiguous" THEN AmbiguousCeiling ELSE 990
    IN  [known EXCEPT !.repeats = @ + 1, !.cites = @ \cup edge.cites,
                      !.relation = order.relation, !.method = order.method, !.delta = order.delta,
                      !.confidence = Lesser(ceiling,
                                            Greater(@, edge.confidence) + 30 * known.repeats)]

Joined(known, edge) ==
    LET same == SelectInSeq(known, LAMBDA k : k.from = edge.from /\ k.to = edge.to)
    IN  IF same = 0 THEN Append(known, edge)
        ELSE [known EXCEPT ![same] = Again(@, edge)]

Merged(edges) ==
    LET upTo[i \in 0..Len(edges)] ==
            IF i = 0 THEN <<>> ELSE Joined(upTo[i - 1], edges[i])
    IN  upTo[Len(edges)]

(* CorrelationAnalyzer.analyze, value by value in the order they were seen.*)
Dependencies(events) ==
    LET seen == Sightings(events)
        values == Distinct([i \in DOMAIN seen |-> seen[i].value])
        Of(v) == Those(seen, {i \in DOMAIN seen : seen[i].value = v})
    IN  Merged(FlattenSeq([k \in DOMAIN values |-> EdgesOf(Of(values[k]))]))
=============================================================================
