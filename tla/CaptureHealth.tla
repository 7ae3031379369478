--------------------------- MODULE CaptureHealth ---------------------------
(***************************************************************************)
(* What a session says of its own capture (analysis/health.py) and how the *)
(* sensors' observations of one request are related (analysis/reconcile.py)*)
(*                                                                         *)
(* A gap's or an error's reason is the code it is counted under.           *)
(***************************************************************************)
EXTENDS FiniteSetsExt, SequencesExt

Healthy == "healthy"
Degraded == "degraded"
Unavailable == "unavailable"
NotApplicable == "not_applicable"

(* _STRUCTURAL_GAPS.                                                       *)
StructuralGaps ==
    {"runtime_probe_unavailable", "service_worker_visibility_unavailable",
     "context_page_events_unavailable", "websocket_events_unavailable", "extension_disconnected"}

OfType(events, types) == {e \in ToSet(events) : e.type \in types}
Gaps(events) == {e.reason : e \in OfType(events, {"capture_gap"})}
Errors(events) == {e.reason : e \in OfType(events, {"sensor_error"})}
CountOf(events, type, reason) ==
    Cardinality({e \in OfType(events, {type}) : e.reason = reason})

-----------------------------------------------------------------------------
(* Reconciler: observations of one method and URL, whatever the order.  A  *)
(* body capture names no method and is taken for a GET.                    *)
SensorOf ==
    [http_request |-> "playwright", http_response |-> "playwright",
     extension_request |-> "extension", extension_response |-> "extension",
     runtime_fetch |-> "runtime", runtime_xhr |-> "runtime",
     response_body_captured |-> "extension"]

ResponseTypes == {"http_response", "extension_response"}

ReconcileKey(e) == IF e.type = "response_body_captured" THEN <<"GET", e.url>>
                   ELSE <<e.method, e.url>>

(* _build: alone, agreeing or disagreeing on the status.                   *)
Match(events, key) ==
    LET seen == {e \in OfType(events, DOMAIN SensorOf) : ReconcileKey(e) = key}
        sensors == {SensorOf[e.type] : e \in seen}
        Told(s) == {e.status : e \in {x \in seen : x.type \in ResponseTypes /\ SensorOf[x.type] = s}}
        telling == {s \in sensors : Told(s) # {}}
        agreed == Cardinality({Told(s) : s \in telling}) = 1
        alone == Cardinality(sensors) = 1
        bodied == \E e \in seen : e.type = "response_body_captured"
    IN  [key |-> key, sensors |-> sensors, cites |-> {e.seq : e \in seen},
         relation |-> CASE alone -> "unmatched"
                        [] ~alone /\ Cardinality(telling) > 1 /\ ~agreed -> "conflicts_with"
                        [] OTHER -> "same_activity",
         corroborations |->
             IF alone THEN {}
             ELSE (IF Cardinality(telling) > 1 /\ agreed THEN {"status"} ELSE {})
                  \cup (IF bodied /\ "playwright" \in sensors
                        THEN {"body_available_from_extension"} ELSE {}),
         confidence |-> IF alone THEN 40 ELSE 60 + 15 * Cardinality(sensors)]

Matches(events) ==
    {Match(events, key) : key \in {ReconcileKey(e) : e \in OfType(events, DOMAIN SensorOf)}}

(* summarise.                                                              *)
Summary(matches) ==
    LET Of(test) == Cardinality({m \in matches : test[m]})
        Tally(S, Test(_, _)) == [x \in S |-> Cardinality({m \in matches : Test(m, x)})]
        sensors == UNION {m.sensors : m \in matches}
        alone == {m \in matches : m.relation = "unmatched"}
    IN  [activities |-> Cardinality(matches),
         byRelation |-> Tally({m.relation : m \in matches}, LAMBDA m, r : m.relation = r),
         bySensor |-> Tally(sensors, LAMBDA m, s : s \in m.sensors),
         unmatched |-> Tally(UNION {m.sensors : m \in alone},
                             LAMBDA m, s : m \in alone /\ s \in m.sensors),
         conflicts |-> Of([m \in matches |-> m.relation = "conflicts_with"]),
         multiSensor |-> Of([m \in matches |-> Cardinality(m.sensors) > 1])]

-----------------------------------------------------------------------------
(* The sensors.  Each says whether it lost something, and its blind spots: *)
(* the families of evidence it should have and has not.                    *)
Sensor(name, status) == [name |-> name, status |-> status, spots |-> {}]
Lossy(name, lost) == Sensor(name, IF lost THEN Degraded ELSE Healthy)

(* The error sites of which a sensor looks for a part.                     *)
HandlerErrors == {"handle_request", "handle_response", "handle_request_failed"}
RuntimeErrors == {"runtime_sensor_attach", "runtime_main_world_install", "runtime_batch_decode",
                  "runtime_record_ingest", "runtime_drain"}
SnapshotErrors == {"scan_all_frames", "capture_visual_state"}
StorageErrors == {"storage_snapshot", "cookie_snapshot"}
ExtensionErrors == {"extension_record_ingest", "extension_body_decode", "filterResponseData",
                    "filter_stream"}

PlaywrightHealth(events) ==
    IF OfType(events, {"http_request"}) = {} THEN Sensor("playwright_network", Unavailable)
    ELSE Lossy("playwright_network", Errors(events) \cap HandlerErrors # {})

PatchedTypes == {"runtime_fetch", "runtime_xhr", "runtime_beacon", "runtime_form_submit"}

RuntimeProbeMissing(events) ==
    \/ "runtime_probe_unavailable" \in Gaps(events)
    \/ \A e \in ToSet(events) : e.source # "runtime"

(* Mutant of RuntimeHealth: what the patches missed is not asked.          *)
RuntimeHealthOfPresence(events) ==
    IF RuntimeProbeMissing(events) THEN Sensor("runtime_probe", Unavailable)
    ELSE Lossy("runtime_probe", Errors(events) \cap RuntimeErrors # {})

RuntimeHealth(events) ==
    LET called == \E e \in OfType(events, {"http_request"}) : e.resource \in {"xhr", "fetch"}
        spots == (IF called /\ OfType(events, PatchedTypes) = {} THEN {"patches_silent"} ELSE {})
                 \cup (Gaps(events) \cap {"runtime_main_world_unavailable",
                                          "runtime_patches_not_installed"})
    IN  IF RuntimeProbeMissing(events) THEN Sensor("runtime_probe", Unavailable)
        ELSE [Lossy("runtime_probe", spots # {} \/ Errors(events) \cap RuntimeErrors # {})
                 EXCEPT !.spots = spots]

DomHealth(events) ==
    IF OfType(events, {"dom_snapshot"}) = {} THEN Sensor("dom_sensor", Unavailable)
    ELSE Lossy("dom_sensor", Errors(events) \cap SnapshotErrors # {})

WebSocketHealth(events) ==
    CASE "websocket_events_unavailable" \in Gaps(events) -> Sensor("websocket_sensor", Unavailable)
      [] "websocket_events_unavailable" \notin Gaps(events) /\ OfType(events, {"ws_open"}) = {} ->
             Sensor("websocket_sensor", NotApplicable)
      [] OTHER -> Lossy("websocket_sensor",
                        Gaps(events) \cap {"websocket_payload_truncated",
                                           "websocket_handshake_headers_unavailable"} # {})

StorageHealth(events) ==
    IF OfType(events, {"storage_snapshot"}) = {} THEN Sensor("storage_sensor", Unavailable)
    ELSE Lossy("storage_sensor",
               \/ Gaps(events) \cap {"indexed_db_not_captured", "cache_storage_not_captured",
                                     "service_worker_visibility_unavailable"} # {}
               \/ Errors(events) \cap StorageErrors # {})

(* Forensic mode is inferred from the log: pipeline.py gives none.         *)
Forensic(events) ==
    OfType(events, {"forensic_sensor_started", "extension_request", "extension_response"}) # {}

ExtensionHealth(events) ==
    CASE ~Forensic(events) -> Sensor("extension_network", NotApplicable)
      [] Forensic(events) /\ OfType(events, {"forensic_sensor_started"}) = {} ->
             Sensor("extension_network", Unavailable)
      [] OTHER -> Lossy("extension_network",
                        \/ OfType(events, {"response_body_skipped"}) # {}
                        \/ "extension_disconnected" \in Gaps(events)
                        \/ Errors(events) \cap ExtensionErrors # {})

Sensors(events) ==
    {PlaywrightHealth(events), RuntimeHealth(events), DomHealth(events), WebSocketHealth(events),
     StorageHealth(events), ExtensionHealth(events)}

(* _overall: what is missing is composed, not ranked.                      *)
Overall(sensors) ==
    LET considered == {s \in sensors : s.status # NotApplicable}
        missing == (IF \E s \in considered : s.spots # {} THEN {"SENSOR BLIND SPOT"} ELSE {})
                   \cup (IF \E s \in considered : s.status = Unavailable
                         THEN {"SENSOR UNAVAILABLE"} ELSE {})
    IN  CASE considered = {} -> {"unknown"}
          [] considered # {} /\ missing # {} -> missing
          [] considered # {} /\ missing = {} /\ (\E s \in considered : s.status = Degraded) ->
                 {"HIGH COVERAGE"}
          [] OTHER -> {"COMPLETE"}

(* _notes: the structural gaps and what was not cross-checked.             *)
Notes(events) ==
    LET summary == Summary(Matches(events))
    IN  [structural |-> Gaps(events) \cap StructuralGaps, alone |-> summary.unmatched,
         unchecked |-> summary.activities > 0 /\ summary.multiSensor = 0,
         conflicts |-> summary.conflicts,
         rewritten |-> OfType(events, {"source_rewrite"}) # {}]

Health(events) ==
    LET sensors == Sensors(events)
    IN  [overall |-> Overall(sensors), sensors |-> sensors,
         gaps |-> [r \in Gaps(events) |-> CountOf(events, "capture_gap", r)],
         errors |-> [r \in Errors(events) |-> CountOf(events, "sensor_error", r)],
         reconciliation |-> Summary(Matches(events)), notes |-> Notes(events)]
=============================================================================
