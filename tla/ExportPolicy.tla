---------------------------- MODULE ExportPolicy ----------------------------
(***************************************************************************)
(* What leaves the machine (export/policy.py, redact.py and dataset.py): a *)
(* disposition for each field of the derived model, which keeps a word that*)
(* is declared, replaces one that is not by a pseudonym or a hole, drops it*)
(* or refuses the whole export.                                            *)
(*                                                                         *)
(* An endpoint's key is its text cut at the slashes, so that the method and*)
(* the space after it are the first segment.  The result is what the other *)
(* modules of the analysis derive.                                         *)
(***************************************************************************)
EXTENDS Sublists, FiniteSetsExt, SequencesExt

CONSTANTS
    RouteWords,         \* the segments that read as route words or the templater's own
    PlainNames,         \* the names that look like an authored identifier
    CredentialNames     \* the names is_credential_name takes

-----------------------------------------------------------------------------
(* Pseudonymizer: a value keeps the pseudonym it was first given.          *)
NoPseudonyms == [assigned |-> <<>>, counters |-> <<>>]

WithPseudonym(p, value, kind) ==
    LET n == 1 + (IF kind \in DOMAIN p.counters THEN p.counters[kind] ELSE 0)
    IN  IF value \in DOMAIN p.assigned THEN p
        ELSE [assigned |-> Put(p.assigned, value, <<kind, n>>),
              counters |-> Put(p.counters, kind, n)]

(* _route, which drops a hash route with the fragment, and _name.          *)
SafeRoute(segments) ==
    LET hash == SelectInSeq(segments, LAMBDA s : s = "#")
        path == IF hash = 0 THEN segments ELSE SubSeq(segments, 1, hash - 1)
    IN  [i \in DOMAIN path |-> IF path[i] \in RouteWords THEN path[i] ELSE "{id}"]

NameNeedsPseudonym(name) == name \notin PlainNames \cup CredentialNames

WithName(p, name) == IF NameNeedsPseudonym(name) THEN WithPseudonym(p, name, "NAME") ELSE p

SafeName(p, name) ==
    CASE name \in CredentialNames -> <<"redacted">>
      [] name \in PlainNames \ CredentialNames -> <<name>>
      [] OTHER -> p.assigned[name]

-----------------------------------------------------------------------------
(* The closed vocabularies.                                                *)
Mechanisms == {"response_to_request", "storage_to_request", "user_input_to_request",
               "response_to_dom_to_request", "unknown"}
OrderingMethods == {"probe_ordinal", "same_document_clock", "same_source_seq",
                    "same_timeline_seq", "wall_clock", "unordered"}
OrderingRelations == {"precedes", "ambiguous", "contradicted"}
WorkflowKinds == {"navigate", "click", "double_click", "right_click", "fill", "select", "check",
                  "press", "submit"}
WarningCodes == {"framework_generated", "value_varied"}
FindingKinds == {"capture_gap", "sensor_error", "sensor_blind_spot", "thin_sample",
                 "weak_templating", "unreplayable_step", "workflow_value_gap",
                 "duplicate_event_id", "log_integrity"}

(* health.py's; an overall code is the set of its parts.                   *)
SensorNames == {"playwright_network", "runtime_probe", "dom_sensor", "storage_sensor",
                "websocket_sensor", "extension_network"}
SensorStatuses == {"healthy", "degraded", "blind", "not_enabled", "not_applicable"}

(* Mutant: the phrase of a session that lost nothing is not declared.      *)
OverallCodesOfCaptures == {{"HIGH COVERAGE"}, {"SENSOR BLIND SPOT"}, {"SENSOR UNAVAILABLE"}}

OverallCodes == {{"COMPLETE"}, {"HIGH COVERAGE"}, {"SENSOR BLIND SPOT"}, {"SENSOR UNAVAILABLE"},
                 {"SENSOR BLIND SPOT", "SENSOR UNAVAILABLE"}, {"unknown"}}

CaptureGapCodes ==
    {"out_of_scope", "frame_out_of_scope", "visual_capture_out_of_scope",
     "response_body_unavailable", "stylesheet_not_readable", "indexed_db_not_captured",
     "cache_storage_not_captured", "indexed_db_values_not_captured",
     "cache_storage_bodies_not_captured", "dialog_choice_unobservable",
     "page_closed_before_capture", "websocket_handshake_headers_unavailable",
     "websocket_payload_truncated", "service_worker_visibility_unavailable",
     "runtime_probe_unavailable", "runtime_buffers_read_once_at_exit"}
SensorErrorSites ==
    {"background_dom_scanner", "capture_visual_state", "console_text", "cookie_snapshot",
     "extension_record_ingest", "forensic_layer_start", "lifecycle_attach_context",
     "runtime_batch_decode", "runtime_main_world_install", "runtime_record_ingest",
     "runtime_sensor_attach", "storage_snapshot", "websocket_attach", "runtime_drain",
     "scan_all_frames"}
ReconciledRelations == {"same_activity", "unmatched", "conflicts_with"}
SensorSources == {"playwright", "runtime", "extension", "engine"}

(* _reason_code: the fields whose value is in no vocabulary; one that is   *)
(* made of the event types themselves, or of the digits of a status, is    *)
(* not looked at.                                                          *)
Refused(result) ==
    LET Outside(where, values, allowed) == IF values \subseteq allowed THEN {} ELSE {where}
    IN  Outside("DependencyEdge.mechanism", {d.mechanism : d \in ToSet(result.dependencies)},
                Mechanisms)
        \cup Outside("WorkflowStep.kind", {s.step.kind : s \in ToSet(result.workflow)},
                     WorkflowKinds)
        \cup Outside("LocatorCandidate.warning_code",
                     (UNION {{u.locators[l].warning : l \in DOMAIN u.locators} :
                                u \in result.elements}) \ {"none"}, WarningCodes)
        \cup Outside("Finding.kind", {f.kind : f \in result.findings}, FindingKinds)
        \cup Outside("health.overall", {result.health.overall}, OverallCodes)
        \cup Outside("health.sensors.sensor", {s.name : s \in result.health.sensors}, SensorNames)
        \cup Outside("health.sensors.status", {s.status : s \in result.health.sensors},
                     SensorStatuses)

-----------------------------------------------------------------------------
(* The fields of the edges take their pseudonyms in the order of the edges.*)
EdgePseudonyms(edges) ==
    FoldLeft(LAMBDA p, d : WithName(WithName(p, d.from[2]), d.to[2]), NoPseudonyms, edges)

(* _signals: an undeclared code is dropped with its key.                   *)
SafeEdge(p, d) ==
    [from |-> <<SafeRoute(d.from[1]), SafeName(p, d.from[2])>>,
     to |-> <<SafeRoute(d.to[1]), SafeName(p, d.to[2])>>,
     mechanism |-> d.mechanism, confidence |-> d.confidence, repeats |-> d.repeats,
     relation |-> IF d.relation \in OrderingRelations THEN d.relation ELSE "dropped",
     method |-> IF d.method \in OrderingMethods THEN d.method ELSE "dropped"]

SafeEdges(edges) ==
    LET p == EdgePseudonyms(edges) IN [i \in DOMAIN edges |-> SafeEdge(p, edges[i])]

(* The key of an endpoint is made again from its method and its template.  *)
SafeEndpoints(endpoints) == {<<Head(e.key)>> \o SafeRoute(Tail(e.key)) : e \in endpoints}

(* _health and _reconciliation: what is undeclared is dropped and counted. *)
Declared(counts, allowed) ==
    [kept |-> [k \in DOMAIN counts \cap allowed |-> counts[k]],
     undeclared |-> Cardinality(DOMAIN counts \ allowed)]

SafeHealth(health) ==
    LET r == health.reconciliation
    IN  [overall |-> health.overall, sensors |-> health.sensors,
         gaps |-> Declared(health.gaps, CaptureGapCodes),
         errors |-> Declared(health.errors, SensorErrorSites),
         reconciliation |->
             [activities |-> r.activities, multiSensor |-> r.multiSensor, conflicts |-> r.conflicts,
              byRelation |-> Declared(r.byRelation, ReconciledRelations),
              bySensor |-> Declared(r.bySensor, SensorSources),
              unmatched |-> Declared(r.unmatched, SensorSources)]]

(* A state keeps its shape, a transition its type, a step its kind and its *)
(* key; forms, labels and texts are dropped, and a semantic key is hashed, *)
(* which keeps it the join it is.                                          *)
SafeTransition(t) == [from |-> t.from, to |-> t.to, type |-> t.type, element |-> t.element,
                      count |-> t.count]
SafeStep(s) == [kind |-> s.step.kind, key |-> s.step.key, element |-> s.step.element,
                url |-> SafeRoute(s.step.url), ordinal |-> s.ordinal, repeats |-> s.repeats]
SafeLocator(strategy, l) ==
    [l EXCEPT !.value = IF strategy \in {"id", "name", "css"} THEN @ ELSE "omitted"]

(* sanitise, and what dataset.py serialises of it.                         *)
Dataset(result) ==
    [endpoints |-> SafeEndpoints(result.endpoints),
     dependencies |-> SafeEdges(result.dependencies),
     states |-> {SafeRoute(s[1]) : s \in DOMAIN result.states},
     transitions |-> [i \in DOMAIN result.transitions |-> SafeTransition(result.transitions[i])],
     workflow |-> [i \in DOMAIN result.workflow |-> SafeStep(result.workflow[i])],
     elements |-> {[key |-> u.key, actions |-> u.actions,
                    locators |-> [l \in DOMAIN u.locators |-> SafeLocator(l, u.locators[l])]] :
                   u \in result.elements},
     findings |-> {[kind |-> f.kind, count |-> f.count] : f \in result.findings},
     health |-> SafeHealth(result.health)]
=============================================================================
