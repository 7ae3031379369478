------------------------------ MODULE Workflow ------------------------------
(***************************************************************************)
(* The ordered steps of a session (analysis/workflow.py): what the operator*)
(* did, repeats of one step that follow each other counted together.       *)
(*                                                                         *)
(* An element is known by its semantic key, as the catalog of elements     *)
(* knows it.                                                               *)
(***************************************************************************)
EXTENDS Routes, Sublists, Selectors

CONSTANT SafeKeys   \* SAFE_KEYS

ToggleTypes == {"checkbox", "radio"}

(* _kind: the action, from the event's type and what it was performed on.  *)
StepKind(e) ==
    LET toggled == e.element.input \in ToggleTypes
    IN  CASE e.type \in {"user_submit", "runtime_form_submit"} -> "submit"
          [] e.type = "user_dblclick" -> "double_click"
          [] e.type = "user_rightclick" -> "right_click"
          [] e.type = "user_key" -> "press"
          [] e.type = "user_input" -> "fill"
          [] e.type = "user_change" /\ e.element.tag = "select" -> "select"
          [] e.type = "user_change" /\ e.element.tag # "select" ->
                 IF toggled THEN "check" ELSE "fill"
          [] OTHER -> IF toggled THEN "check" ELSE "click"

(* An element that cannot be found again is not a step.                    *)
IsStep(e) ==
    \/ e.type \in {"navigation_committed", "runtime_history"} /\ e.url # NoUrl
    \/ /\ e.type \in {"user_click", "user_dblclick", "user_rightclick", "user_input",
                      "user_change", "user_submit", "user_key", "runtime_form_submit"}
       /\ e.element.tag # ""

StepOf(e) ==
    IF e.type \in {"navigation_committed", "runtime_history"}
    THEN [kind |-> "navigate", element |-> <<>>, url |-> RouteShape(e.url), key |-> "",
          valued |-> FALSE]
    ELSE LET kind == StepKind(e)
         IN  [kind |-> kind, element |-> SemanticKey(e.element), url |-> <<"none">>,
              key |-> IF kind = "press" /\ e.key \in SafeKeys THEN e.key ELSE "",
              valued |-> e.type \in {"user_input", "user_change"}]

RawSteps(events) == Those(events, {i \in DOMAIN events : IsStep(events[i])})
Items(raw) == [i \in DOMAIN raw |-> StepOf(raw[i])]

Alike(s, t) == <<s.kind, s.element, s.url, s.key>> = <<t.kind, t.element, t.url, t.key>>

(* _collapse: a step is a longest run of observations that are alike.      *)
(* Mutant: alike observations are counted together wherever they are.      *)
StepsApart(events) ==
    LET raw == RawSteps(events)
        items == Items(raw)
        firsts == InOrder({i \in DOMAIN raw : \A j \in 1..(i - 1) : ~Alike(items[i], items[j])})
    IN  [k \in DOMAIN firsts |->
            LET run == {i \in DOMAIN raw : Alike(items[i], items[firsts[k]])}
            IN  [step |-> items[firsts[k]], ordinal |-> k - 1, seq |-> raw[firsts[k]].seq,
                 repeats |-> Cardinality(run), valued |-> \E i \in run : items[i].valued,
                 cites |-> {raw[i].seq : i \in run}]]

Fresh(items) == {i \in DOMAIN items : i = 1 \/ ~Alike(items[i], items[i - 1])}

Collapsed(raw, items, firsts) ==
    LET End(k) == IF k = Len(firsts) THEN Len(raw) ELSE firsts[k + 1] - 1
    IN  [k \in DOMAIN firsts |->
            LET run == firsts[k]..End(k)
            IN  [step |-> items[firsts[k]], ordinal |-> k - 1, seq |-> raw[firsts[k]].seq,
                 repeats |-> Cardinality(run), valued |-> \E i \in run : items[i].valued,
                 cites |-> {raw[i].seq : i \in run}]]

Steps(events) ==
    LET raw == RawSteps(events)
    IN  Collapsed(raw, Items(raw), InOrder(Fresh(Items(raw))))
=============================================================================
