-------------------------- MODULE SessionAnalysis --------------------------
(***************************************************************************)
(* A session and what is derived of its log (analysis/pipeline.py): the    *)
(* sensors and the driver write, and whatever has been written is analysed.*)
(***************************************************************************)
EXTENDS Timeline, Correlation, Segmentation, States, Workflow, FormCatalog, Tables, Schemas,
        Endpoints, Selectors, CaptureHealth, ExportPolicy

-----------------------------------------------------------------------------
(* Events.  Every event has every field; most say nothing.                 *)
NoElement == [name |-> "", tag |-> "", input |-> "", role |-> "", label |-> "", path |-> "none",
              locators |-> <<>>]
NoAria == [role |-> "", controls |-> "", haspopup |-> "", listbox |-> "", region |-> ""]

Blank ==
    [type |-> "none", source |-> "engine", seq |-> 0, wall |-> 0, page |-> "none", turn |-> 0,
     moment |-> 0, doc |-> 0, world |-> "none", ordinal |-> 0, endpoint |-> <<>>,
     leaves |-> <<>>, reduced |-> FALSE, trace |-> FALSE, url |-> NoUrl, method |-> "",
     operation |-> NoOperation, status |-> 0, resource |-> "", body |-> <<>>, form |-> "",
     formPath |-> "", via |-> "", element |-> NoElement, key |-> "", fields |-> <<>>,
     forms |-> <<>>, aria |-> NoAria, table |-> NoTable, reason |-> ""]

(* A form that a script submits is told of without an element.             *)
Elementless(e) == e.type = "runtime_form_submit" => e.element.tag = ""

(* What an event carries is a list, and every field of it has a name; what *)
(* is in an object or list of a body comes after it.                       *)
Carrying(e) ==
    /\ e.leaves \in Seq(ToSet(e.leaves))
    /\ \A leaf \in ToSet(e.leaves) : leaf.field \in DOMAIN Tokens
    /\ e.body \in Seq(ToSet(e.body))
    /\ \A i \in DOMAIN e.body : e.body[i].parent \in 0..(i - 1) /\ e.body[i].item \in Nat
    /\ e.fields \in Seq(ToSet(e.fields)) /\ e.forms \in Seq(ToSet(e.forms))
    /\ \A form \in ToSet(e.forms) : form.fields \in Seq(ToSet(form.fields))

(* A probe tells of what is done to a form, and of one control at a time   *)
(* what is put in.                                                         *)
ToldByProbe(e) ==
    /\ e.type \in ValueTypes \cup SubmitTypes => e.source = "runtime"
    /\ e.type \in ValueTypes => Len(e.fields) = 1

ASSUME EventAssumption ==
    \A k \in DOMAIN Sessions : \A e \in Sayings(Sessions[k]) :
        DOMAIN e = DOMAIN Blank /\ e.method # "GRAPHQL" /\ Elementless(e) /\ Carrying(e) /\ ToldByProbe(e)

-----------------------------------------------------------------------------
(* _findings: what a reader must know to judge the rest.                   *)
Critical == {"service_worker_visibility_unavailable", "runtime_probe_unavailable"}
Warned == {"response_body_unavailable"}

FindingOf(kind, severity, about, count, cites) ==
    [kind |-> kind, severity |-> severity, about |-> about, count |-> count, cites |-> cites]

CaptureFindings(events) ==
    LET Citing(type, reason) == {e.seq : e \in {x \in OfType(events, {type}) : x.reason = reason}}
        Severity(r) == IF r \in Critical THEN "critical" ELSE IF r \in Warned THEN "warning" ELSE "info"
    IN  {FindingOf("capture_gap", Severity(r), r, CountOf(events, "capture_gap", r),
                   Citing("capture_gap", r)) : r \in Gaps(events)}
        \cup {FindingOf("sensor_error", "warning", r, CountOf(events, "sensor_error", r),
                        Citing("sensor_error", r)) : r \in Errors(events)}

(* What the derived parts say of themselves, if there is any of it.        *)
DerivedFindings(result) ==
    LET Told(kind, severity, S) ==
            IF S = {} THEN {} ELSE {FindingOf(kind, severity, "all", Cardinality(S), {})}
        Step(Test(_)) == {i \in DOMAIN result.workflow : Test(result.workflow[i])}
        unlocated == {u.key : u \in {x \in result.elements : DOMAIN x.locators = {}}}
    IN  {FindingOf("sensor_blind_spot", "critical", spot, 1, {}) :
             spot \in UNION {s.spots : s \in result.health.sensors}}
        \cup Told("thin_sample", "info",
                  {k \in DOMAIN result.schemas : result.schemas[k].samples < 3})
        \cup Told("weak_templating", "info",
                  {p \in result.endpoints : p.templated /\ Cardinality(p.paths) < 2})
        \cup Told("unreplayable_step", "warning", Step(LAMBDA s : s.step.element \in unlocated))
        \cup Told("workflow_value_gap", "info", Step(LAMBDA s : s.valued))

(* analyze_events.                                                         *)
ResultOf(events) ==
    LET known == Attributed(events)
        derived ==
            [endpoints |-> EndpointsOf(events), schemas |-> SchemasOf(known),
             dependencies |-> Dependencies(known), elements |-> UsedElements(events),
             states |-> VisitedStates(events), transitions |-> Transitions(events),
             workflow |-> Steps(events), segments |-> Activities(events),
             forms |-> Catalog(known), tables |-> TablesOf(events),
             activities |-> Matches(events), health |-> Health(events), findings |-> {}]
    IN  [derived EXCEPT !.findings = CaptureFindings(events) \cup DerivedFindings(derived)]

Result == ResultOf(log)
Known == Attributed(log)

-----------------------------------------------------------------------------
(* Within one page, an order that the probe establishes is the order in    *)
(* which things happened: whether by the ordinals of one world, the clock  *)
(* of one document, or the order of arrival from one document to the next. *)
(* Batches, timers and navigations must not bring two records of a world   *)
(* out of order, and ordinals of two worlds must not be compared           *)
(* (correlation.py's _Ordering against probe.js's flushes).                *)
OrderTrueInDocument ==
    LET seen == UNION {{o \in ToSet(SightingsIn(e)) : FromProbe(o)} : e \in ToSet(Known)}
    IN  \A a, b \in seen :
            LET order == CompareSightings(a, b)
            IN  a.page = b.page /\ order.method \in DOMAIN TieOf \ {"wall_clock"} =>
                    /\ order.relation = "precedes" => a.turn < b.turn
                    /\ order.relation = "contradicted" => b.turn < a.turn

(* A dependency rests on the pairs of observations it cites: it claims an  *)
(* order only if one of them shows it, none of them contradicts it, and    *)
(* without one its confidence stays under the ceiling of what is unproven, *)
(* however often it is seen (CorrelationAnalyzer._pair and _merge).  A pair*)
(* of events may hold it more than once, in two leaves of one field.       *)
EdgesEstablished ==
    LET seen == ToSet(Sightings(Known))
        Relations(edge, pair) ==
            {CompareSightings(p, c).relation :
                p \in {o \in seen : o.seq = pair[1] /\ <<o.endpoint, o.field>> = edge.from},
                c \in {o \in seen : o.seq = pair[2] /\ <<o.endpoint, o.field>> = edge.to}}
    IN  \A edge \in ToSet(Dependencies(Known)) :
            LET shown == UNION {Relations(edge, pair) : pair \in edge.cites}
            IN  /\ shown \subseteq {"precedes", "ambiguous"}
                /\ edge.relation = "precedes" <=> "precedes" \in shown
                /\ edge.relation = "ambiguous" => edge.confidence <= AmbiguousCeiling
                /\ edge.cites # {} /\ Cardinality(edge.cites) <= edge.repeats

(* What the driver and the page saw of one call is attributed to the       *)
(* endpoint that the requests to its URL are counted under, so that a value*)
(* in it was seen in one place (the reason pipeline._attribute_events      *)
(* gives); unless the URL is also asked for another GraphQL operation, of  *)
(* which the page's record tells nothing, or the endpoint has more paths   *)
(* than it keeps.                                                          *)
OneRequestOneEndpoint ==
    LET calls == {e \in ToSet(Known) : /\ e.type \in Consuming \cup {"http_response"}
                                      /\ ~e.reduced /\ e.endpoint # <<>>}
        Asks(e) == {x \in Requests(log) : x.method = e.method /\ x.url = e.url}
        Paths(p) == {x.url.path : x \in {y \in Requests(log) : y.seq \in p.cites}}
    IN  \A e \in calls :
            (\A x \in Asks(e) : x.operation = e.operation) =>
                \A p \in EndpointsOf(log) :
                    /\ \E x \in Asks(e) : x.seq \in p.cites
                    /\ Cardinality(Paths(p)) <= MaxPaths
                    => e.endpoint = p.key

(* A field is called optional only if a body lacked it ("absence in a      *)
(* sample proves optional", schema.py): true below the bounds on fields and*)
(* on the items of a list, past which bodies are no longer looked through. *)
PresenceHonest ==
    LET bodies(k) == {e \in ToSet(Known) :
                         /\ e.type = k[2] /\ e.endpoint = k[1] /\ e.body # <<>>
                         /\ k[2] = "http_response" => e.status = k[3]}
        Holds(e, p) == \E i \in DOMAIN e.body : e.body[i].path = p
        Short(e) == \A i \in DOMAIN e.body : e.body[i].item <= MaxItems
        schemas == SchemasOf(Known)
    IN  \A k \in DOMAIN schemas :
            LET paths == UNION {{e.body[i].path : i \in DOMAIN e.body} : e \in bodies(k)}
            IN  Cardinality(paths) < MaxFields /\ (\A e \in bodies(k) : Short(e)) =>
                    /\ DOMAIN schemas[k].fields = paths
                    /\ \A p \in paths : ObservedOptional(schemas[k], p)
                                        <=> \E e \in bodies(k) : ~Holds(e, p)

(* The activities share out what the operator did: every action and        *)
(* navigation is in exactly one; none goes on after a submission, over a   *)
(* pause or into another section; and a call of the application is counted *)
(* under the activity it was logged in (SegmentationAnalyzer).             *)
ActivitiesPartition ==
    LET activities == Activities(log)
        Within(a, e) == a.start <= e.seq /\ e.seq <= a.end
        Before(a, e) == {x \in a.cites : x.seq < e.seq}
        Called1(e) == e.type \in RequestTypes /\ ~e.reduced
    IN  /\ UNION {a.cites : a \in ToSet(activities)} = ToSet(Markers(log))
        /\ \A i, j \in DOMAIN activities : i < j => activities[i].end < activities[j].start
        /\ \A a \in ToSet(activities) :
               /\ a.cites = {e \in ToSet(Markers(log)) : Within(a, e)}
               /\ \A e \in a.cites :
                     /\ IsSubmit(e) => e.seq = a.end
                     /\ e.seq # a.start => \E x \in Before(a, e) : e.wall - x.wall <= IdleGap
                     /\ \A x \in a.cites : IsNavigation(x) /\ IsNavigation(e)
                                           => FirstSection(x.url) = FirstSection(e.url)
               /\ \A e \in {x \in ToSet(log) : Called1(x) /\ Within(a, x)} :
                     RouteShape(e.url) \in ToSet(a.endpoints)

(* The moves between states add up: into every state as often as out of it,*)
(* but for the first and the last one, and what is said to have triggered a*)
(* move was logged between the two, or at their time (StateAnalyzer).      *)
MovesAccounted ==
    LET Weight(t, s) == (IF t.from = s THEN t.count ELSE 0) - (IF t.to = s THEN t.count ELSE 0)
        Ends(visits, s) == (IF visits[1].state = s THEN 1 ELSE 0)
                           - (IF visits[Len(visits)].state = s THEN 1 ELSE 0)
        Balanced(visits, transitions) ==
            \A s \in {v.state : v \in ToSet(visits)} :
                Total([k \in DOMAIN transitions |-> Weight(transitions[k], s)]) = Ends(visits, s)
        Triggered(visits, moves) ==
            \A m \in moves : m.trigger # 0 =>
                LET at == {v \in ToSet(visits) : v.seq \in m.cites}
                IN  \E v, w \in at : v.wall <= log[m.trigger].wall /\ log[m.trigger].wall <= w.wall
        visits == Occupancies(log)
    IN  visits # <<>> => /\ Balanced(visits, Transitions(log))
                         /\ Triggered(visits, ToSet(Moves(log)))

(* The steps of a workflow, each as often as it is repeated, are what the  *)
(* operator did in that order, no two neighbours are one step, and every   *)
(* element they need is in the catalog of elements, as pipeline._findings  *)
(* takes for granted (WorkflowAnalyzer._collapse, SelectorAnalyzer).       *)
StepsReplay ==
    LET Repeated(s) == [i \in 1..s.repeats |-> s.step]
        Bare(s) == [s EXCEPT !.valued = FALSE]
        Replay(steps) == FlattenSeq([k \in DOMAIN steps |-> Repeated(steps[k])])
        Replays(steps, raw, replayed, used) ==
            /\ Len(replayed) = Len(raw)
            /\ \A i \in DOMAIN raw : Bare(replayed[i]) = Bare(StepOf(raw[i]))
            /\ \A k \in 1..(Len(steps) - 1) : ~Alike(steps[k].step, steps[k + 1].step)
            /\ \A s \in ToSet(steps) : s.step.element # <<>> =>
                  \E u \in used : u.key = s.step.element /\ s.cites \subseteq u.cites
    IN  Replays(Steps(log), RawSteps(log), Replay(Steps(log)), UsedElements(log))

(* The value the catalog gives a control is the one the operator typed or  *)
(* chose last in that document, whatever was scanned, submitted or typed in*)
(* the same form of another document of the page since, and however the    *)
(* page's records were held back; unless a secret or a radio button has    *)
(* since been told of under the control's key (FormCatalogAnalyzer).       *)
FinalIsLastTyped ==
    LET acts == {e \in ToSet(Known) : e.type \in ValueTypes \cup SubmitTypes}
        TypesText(e) == /\ e.type \in ValueTypes /\ e.fields[1].type = "text"
                     /\ e.fields[1].value # NoValue /\ ~e.fields[1].secret
                     /\ ControlKey(e.fields[1]) # NoControl
        forms == Catalog(Known)
        Place(e) == Occurrence(e, FormIdentity(OwnForm(e)))
        Tells(x, f) == \/ f.type = "radio"
                       \/ x.type \in ValueTypes /\ (f.value # NoValue \/ f.secret)
        Later(e, x) == /\ x.turn > e.turn /\ Place(x) = Place(e)
                       /\ \E f \in ToSet(x.fields) : /\ ControlKey(f) = ControlKey(e.fields[1])
                                                    /\ Tells(x, f)
    IN  \A e \in acts : TypesText(e) /\ (\A x \in acts : ~Later(e, x)) =>
            /\ Place(e) \in DOMAIN forms
            /\ ControlKey(e.fields[1]) \in DOMAIN forms[Place(e)].controls
            /\ forms[Place(e)].controls[ControlKey(e.fields[1])].final = e.fields[1].value

(* Calls that the driver saw and of which the page's patches told nothing  *)
(* are never hidden: the session is said to have a blind spot, whatever    *)
(* other sensor is missing, and a critical finding says so (health.py's    *)
(* _runtime and _overall, pipeline._findings).                             *)
BlindSpotNeverHidden ==
    LET silent == /\ \E e \in Requests(log) : e.resource \in {"xhr", "fetch"}
                  /\ OfType(log, PatchedTypes) = {}
                  /\ \E e \in ToSet(log) : e.source = "runtime"
                  /\ "runtime_probe_unavailable" \notin Gaps(log)
    IN  silent => /\ "SENSOR BLIND SPOT" \in Health(log).overall
                  /\ \E f \in Result.findings : f.kind = "sensor_blind_spot" /\ f.severity = "critical"

(* A session can be exported unless one of its sensors was unavailable,    *)
(* which health.py says and policy.py's vocabulary lacks; nothing else that*)
(* the analysis derives is outside the vocabularies that policy.py closes  *)
(* over it ("read off the real pipeline rather than guessed", :318-321).   *)
ExportRefusesOnlyUnavailable ==
    Refused(Result) = IF \E s \in Health(log).sensors : s.status = Unavailable
                      THEN {"health.sensors.status"} ELSE {}

-----------------------------------------------------------------------------
(* What the comments promise and the code does not keep.                   *)

(* "... and the edge survives" (redact.py:9-15): the endpoints of an edge  *)
(* in the shared dataset are endpoints of the dataset, as they were.       *)
EdgesSurvive ==
    LET known == {p.key : p \in EndpointsOf(log)}
        shared == {KeyText(Head(k), SafeRoute(Tail(k))) : k \in known}
        edges == Dependencies(Known)
        safe == SafeEdges(edges)
    IN  \A i \in DOMAIN edges : edges[i].to[1] \in known => safe[i].to[1] \in shared

(* "The rows actually observed (deduplicated)" (tables.py:5-7): a row that *)
(* the operator worked on is in the catalog of its table.                  *)
WorkedRowsKept ==
    LET worked == {e \in ToSet(log) : /\ e.type \in TableActionTypes \ {"user_scroll"}
                                      /\ e.table # NoTable /\ ~e.table.onHeader
                                      /\ e.table.row.cells # ""}
        tables == TablesOf(log)
        Rows(e) == tables[<<e.page, e.table.id>>].rows
    IN  Cardinality({e.table.row : e \in worked}) <= MaxRows =>
            \A e \in worked : \E r \in DOMAIN Rows(e) : Rows(e)[r].cells = e.table.row.cells
=============================================================================
