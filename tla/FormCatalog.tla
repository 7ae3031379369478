---------------------------- MODULE FormCatalog ----------------------------
(***************************************************************************)
(* The catalog of forms (analysis/forms.py): every control the DOM scans   *)
(* saw, then the operator's values and submissions in the order of seq,    *)
(* then the comboboxes, under one entry for each occurrence of a form.     *)
(*                                                                         *)
(* A field is [type, name, id, path, value, checked, options, chosen,      *)
(* secret]: as a scan, a value event or a submission describes a control.  *)
(* Labels, placeholders and flags are left out.                            *)
(***************************************************************************)
EXTENDS Routes, FiniteSetsExt, SequencesExt

CONSTANTS
    RequestWindow,  \* _REQUEST_WINDOW
    ComboWindow     \* _COMBO_WINDOW

NoValue == "no value"
Absent == ""

-----------------------------------------------------------------------------
(* Identities: _identity, _key and _control_key.  An occurrence is one form*)
(* at one exact route of one document.                                     *)
FormIdentity(form) ==
    CASE form.id \notin {Absent, "(unnamed)"} -> <<"id", form.id>>
      [] form.id \in {Absent, "(unnamed)"} /\ form.path # Absent -> <<"path", form.path>>
      [] OTHER -> <<"index", form.index>>

Occurrence(e, identity) == [page |-> e.page, doc |-> e.doc, route |-> e.url, form |-> identity]

NoControl == <<"none">>

CheckboxKey(f) ==
    CASE f.id # Absent -> <<"checkbox", f.id>>
      [] f.id = Absent /\ f.path # Absent -> <<"checkbox", f.name, f.value, f.path>>
      [] f.id = Absent /\ f.path = Absent /\ f.name # Absent -> <<"checkbox", f.name, f.value>>
      [] OTHER -> NoControl

ControlKey(f) ==
    CASE f.type = "radio" /\ f.name # Absent -> <<"radio", f.name>>
      [] f.type = "checkbox" -> CheckboxKey(f)
      [] OTHER -> IF f.id # Absent THEN <<"id", f.id>>
                  ELSE IF f.name # Absent THEN <<"name", f.name>>
                  ELSE IF f.path # Absent THEN <<"path", f.path>>
                  ELSE NoControl

-----------------------------------------------------------------------------
(* What one more description changes in a control.                         *)
NewControl == [kind |-> "native", final |-> NoValue, checked |-> FALSE, choice |-> NoValue,
               options |-> <<>>, complete |-> FALSE, selected |-> NoValue, secret |-> FALSE,
               listbox |-> Absent, connection |-> "none"]

(* _radio_option: options are a function from values to whether checked.   *)
Radio(c, f) ==
    LET known == DOMAIN c.options \cup {f.value}
        Was(v) == v \in DOMAIN c.options /\ c.options[v]
    IN  [c EXCEPT !.kind = "radio_group",
                  !.options = [v \in known |-> IF f.checked THEN v = f.value ELSE Was(v)],
                  !.selected = IF f.checked THEN f.value ELSE @,
                  !.final = IF f.checked THEN f.value ELSE @]

Checkbox(c, f) == [c EXCEPT !.choice = IF f.value = NoValue THEN @ ELSE f.value,
                            !.checked = f.checked]

(* A scan sees every option, and the value only if none is known.          *)
Seeded(c, f) ==
    LET marked == [c EXCEPT !.secret = @ \/ f.secret]
    IN  CASE f.type = "radio" -> Radio(c, f)
          [] f.type = "checkbox" -> Checkbox(marked, f)
          [] OTHER ->
               [marked EXCEPT !.checked = f.checked,
                              !.options = IF f.options = {} THEN @
                                          ELSE [v \in f.options |-> v = f.chosen],
                              !.complete = @ \/ f.options # {},
                              !.selected = IF f.chosen = NoValue THEN @ ELSE f.chosen,
                              !.final = IF @ = NoValue THEN f.value ELSE @]

(* An operator's value replaces what was there.                            *)
(* Mutant: it is kept only if there is none, as a scan's is.               *)
ValuedOnce(c, f) == [c EXCEPT !.final = IF @ = NoValue THEN f.value ELSE @]

Valued(c, f) ==
    CASE f.type = "radio" -> Radio(c, f)
      [] f.type # "radio" /\ f.secret -> [c EXCEPT !.secret = TRUE, !.final = NoValue]
      [] f.type = "checkbox" /\ ~f.secret -> Checkbox(c, f)
      [] OTHER -> [c EXCEPT !.checked = f.checked,
                            !.selected = IF f.chosen = NoValue THEN @ ELSE f.chosen,
                            !.final = IF f.value = NoValue THEN @ ELSE f.value]

(* A submitted value fills in what nothing else told.                      *)
Submitted(c, f) ==
    CASE f.type = "radio" -> Radio(c, f)
      [] f.type # "radio" /\ f.secret -> [c EXCEPT !.secret = TRUE]
      [] f.type = "checkbox" /\ ~f.secret -> Checkbox(c, f)
      [] OTHER -> [c EXCEPT !.final = IF @ = NoValue THEN f.value ELSE @]

-----------------------------------------------------------------------------
(* _entry and _control: a catalog is a function from occurrences to        *)
(* [controls, submitted, request, outcome, cites].                         *)
NewEntry == [controls |-> <<>>, submitted |-> FALSE, request |-> 0, outcome |-> 0, cites |-> {}]
EntryOf(catalog, key) == IF key \in DOMAIN catalog THEN catalog[key] ELSE NewEntry
ControlOf(entry, ck) == IF ck \in DOMAIN entry.controls THEN entry.controls[ck] ELSE NewControl

FromSource(source, c, f) ==
    CASE source = "scan" -> Seeded(c, f)
      [] source = "input" -> Valued(c, f)
      [] source = "submission" -> Submitted(c, f)

Describe(entry, f, source) ==
    LET ck == ControlKey(f)
    IN  IF ck = NoControl THEN entry
        ELSE [entry EXCEPT !.controls = Put(@, ck, FromSource(source, ControlOf(entry, ck), f))]

DescribeAll(entry, fields, source) ==
    LET upTo[i \in 0..Len(fields)] ==
            IF i = 0 THEN entry ELSE Describe(upTo[i - 1], fields[i], source)
    IN  upTo[Len(fields)]

Cite(entry, seqs) == [entry EXCEPT !.cites = @ \cup seqs]

(* _seed_from_dom: a scan names its forms by id, path or index.            *)
ScannedForm(catalog, e, form) ==
    LET key == Occurrence(e, FormIdentity(form))
    IN  Put(catalog, key, DescribeAll(Cite(EntryOf(catalog, key), {e.seq}), form.fields, "scan"))

Scanned(catalog, e) ==
    LET upTo[i \in 0..Len(e.forms)] ==
            IF i = 0 THEN catalog ELSE ScannedForm(upTo[i - 1], e, e.forms[i])
    IN  upTo[Len(e.forms)]

ScannedAll(scans) ==
    LET upTo[i \in 0..Len(scans)] == IF i = 0 THEN <<>> ELSE Scanned(upTo[i - 1], scans[i])
    IN  upTo[Len(scans)]

OwnForm(e) == [id |-> e.form, path |-> e.formPath, index |-> 0]

(* _merge_value.                                                           *)
Typed(catalog, e) ==
    LET key == Occurrence(e, FormIdentity(OwnForm(e)))
    IN  IF ControlKey(e.fields[1]) = NoControl THEN catalog
        ELSE Put(catalog, key, Describe(Cite(EntryOf(catalog, key), {e.seq}), e.fields[1], "input"))

(* _correlate: the first request, and the first navigation or the response *)
(* to that request, that the page logged soon after.                       *)
RequestEvents == {"http_request", "runtime_fetch", "runtime_xhr"}

Earliest(S) == IF S = {} THEN 0 ELSE Min({x.seq : x \in S})

Correlated(entry, e, events) ==
    LET soon == {x \in ToSet(events) :
                     e.seq < x.seq /\ x.seq <= e.seq + RequestWindow /\ x.page = e.page}
        request == Earliest({x \in soon : x.type \in RequestEvents /\ ~x.reduced})
        navigation == Earliest({x \in soon : x.type = "navigation_committed" /\ x.url # NoUrl})
        response == Earliest({x \in soon :
                        /\ x.type = "http_response"
                        /\ request # 0 => x.endpoint = events[request].endpoint})
        told == IF navigation # 0 THEN navigation ELSE response
    IN  [entry EXCEPT !.request = IF request = 0 THEN @ ELSE request,
                      !.outcome = IF told = 0 THEN @ ELSE told,
                      !.cites = @ \cup ({request, told} \ {0})]

(* _merge_submit: the wrapper's record of a requestSubmit repeats the      *)
(* native one.                                                             *)
ToldTwice(e) == e.type = "runtime_form_submit" /\ e.via = "requestSubmit"

Nameable(fields) ==
    Those(fields, {i \in DOMAIN fields : fields[i].name # Absent \/ fields[i].id # Absent})

Sent(catalog, e, events) ==
    LET form == OwnForm(e)
        key == Occurrence(e, FormIdentity(form))
        entry == [EntryOf(catalog, key) EXCEPT !.submitted = TRUE, !.cites = @ \cup {e.seq}]
    IN  IF ToldTwice(e) \/ (form.id = Absent /\ form.path = Absent) THEN catalog
        ELSE Put(catalog, key,
                 Correlated(DescribeAll(entry, Nameable(e.fields), "submission"), e, events))

ValueTypes == {"user_input", "user_change"}
SubmitTypes == {"user_submit", "runtime_form_submit"}

Acted(catalog, e, events) ==
    IF e.type \in ValueTypes THEN Typed(catalog, e) ELSE Sent(catalog, e, events)

ActedAll(catalog, acts, events) ==
    LET upTo[i \in 0..Len(acts)] ==
            IF i = 0 THEN catalog ELSE Acted(upTo[i - 1], acts[i], events)
    IN  upTo[Len(acts)]

-----------------------------------------------------------------------------
(* _merge_comboboxes: a click on an option belongs to the last trigger     *)
(* clicked on the page, unless too many clicks came between.  An aria is   *)
(* [role, controls, haspopup, listbox, region].                            *)
IsTrigger(e) ==
    \/ e.aria.role = "combobox" \/ e.aria.haspopup = "listbox"
    \/ e.aria.controls # Absent /\ e.aria.role # "option"

Region(e) ==
    CASE e.form \notin {Absent, "(unnamed)"} -> <<"id", e.form>>
      [] e.form \in {Absent, "(unnamed)"} /\ e.aria.region # Absent -> <<"region", e.aria.region>>
      [] OTHER -> <<"own", e.element.name>>

Chosen(catalog, trigger, e) ==
    LET key == Occurrence(trigger, Region(trigger))
        ck == <<"combobox", trigger.element.name>>
        entry == Cite(EntryOf(catalog, key), {trigger.seq, e.seq})
        exact == trigger.aria.controls # Absent /\ trigger.aria.controls = e.aria.listbox
        c == ControlOf(entry, ck)
        chosen == [c EXCEPT !.kind = "combobox", !.listbox = e.aria.listbox, !.complete = FALSE,
                            !.connection = IF exact THEN "aria-controls" ELSE "proximity_same_frame",
                            !.selected = e.element.name, !.options = Put(@, e.element.name, TRUE)]
    IN  Put(catalog, key, [entry EXCEPT !.controls = Put(@, ck, chosen)])

(* Waiting triggers and the clicks since, by page.                         *)
Clicked(state, e) ==
    LET p == e.page
        trigger == state.pending[p]
        live == trigger # <<>> /\ state.since[p] < ComboWindow
    IN  CASE IsTrigger(e) -> [state EXCEPT !.pending[p] = <<e>>, !.since[p] = 0]
          [] ~IsTrigger(e) /\ e.aria.role = "option" /\ live ->
                 [state EXCEPT !.catalog = Chosen(@, trigger[1], e), !.pending[p] = <<>>,
                               !.since[p] = @ + 1]
          [] OTHER -> [state EXCEPT !.since[p] = @ + 1]

ClickTypes == {"user_click", "user_dblclick", "user_rightclick"}

ClickedAll(catalog, clicks) ==
    LET pages == {clicks[i].page : i \in DOMAIN clicks}
        start == [catalog |-> catalog, pending |-> [p \in pages |-> <<>>],
                  since |-> [p \in pages |-> 0]]
        upTo[i \in 0..Len(clicks)] == IF i = 0 THEN start ELSE Clicked(upTo[i - 1], clicks[i])
    IN  upTo[Len(clicks)].catalog

-----------------------------------------------------------------------------
(* FormCatalogAnalyzer.analyze.                                            *)
Catalog(events) ==
    LET OfTypes(types) == Those(events, {i \in DOMAIN events : events[i].type \in types})
    IN  ClickedAll(ActedAll(ScannedAll(OfTypes({"dom_forms"})),
                            OfTypes(ValueTypes \cup SubmitTypes), events),
                   OfTypes(ClickTypes))
=============================================================================
