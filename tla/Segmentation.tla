---------------------------- MODULE Segmentation ----------------------------
(***************************************************************************)
(* The activities of a session (analysis/segmentation.py): windows over the*)
(* log between boundaries that a submission, a pause, a return home or a   *)
(* change of section draws, in the order of seq.                           *)
(***************************************************************************)
EXTENDS Routes, Sublists, FiniteSetsExt, SequencesExt

CONSTANTS
    IdleGap,        \* IDLE_GAP_MS
    HomeSections    \* HOME_SECTIONS

ASSUME IdleAssumption == IdleGap \in Nat

ActionKind ==
    [user_click |-> "click", user_dblclick |-> "double_click", user_rightclick |-> "right_click",
     user_input |-> "fill", user_change |-> "change", user_submit |-> "submit",
     user_key |-> "press", runtime_form_submit |-> "submit"]

NavigationTypes == {"navigation_committed", "runtime_history"}
RequestTypes == {"http_request", "runtime_fetch", "runtime_xhr"}

IsAction(e) == e.type \in DOMAIN ActionKind
IsNavigation(e) == e.type \in NavigationTypes /\ e.url # NoUrl
IsSubmit(e) == IsAction(e) /\ ActionKind[e.type] = "submit"

Marked(events) == {i \in DOMAIN events : IsAction(events[i]) \/ IsNavigation(events[i])}
Markers(events) == Those(events, Marked(events))

(* The section the markers before i left the operator in, if any did.      *)
SectionBefore(markers, i) ==
    LET navigations == {j \in 1..(i - 1) : IsNavigation(markers[j])}
    IN  IF navigations = {} THEN {} ELSE {FirstSection(markers[Max(navigations)].url)}

(* _boundary: why an activity begins at marker i.                          *)
(* Mutant: an activity that ends by a submission keeps the next marker     *)
(* when that is a navigation.                                              *)
BoundaryKeepsNavigation(markers, i) ==
    LET e == markers[i]
        here == FirstSection(e.url)
        was == SectionBefore(markers, i)
    IN  CASE i = 1 -> "session_start"
          [] i > 1 /\ IsSubmit(markers[i - 1]) /\ ~IsNavigation(e) -> "after_form_submission"
          [] i > 1 /\ e.wall - markers[i - 1].wall > IdleGap -> "idle_gap"
          [] i > 1 /\ IsNavigation(e) /\ was \notin {{}, {here}} -> "route_section_change"
          [] OTHER -> "none"

Boundary(markers, i) ==
    LET e == markers[i]
        here == FirstSection(e.url)
        was == SectionBefore(markers, i)
        before == markers[i - 1]
        pause == e.wall - before.wall > IdleGap
    IN  IF i = 1 THEN "session_start"
        ELSE CASE IsSubmit(before) -> "after_form_submission"
               [] ~IsSubmit(before) /\ pause -> "idle_gap"
               [] ~IsSubmit(before) /\ ~pause /\ IsNavigation(e)
                    /\ here \in HomeSections /\ was \cap HomeSections = {} -> "return_to_home"
               [] ~IsSubmit(before) /\ ~pause /\ IsNavigation(e)
                    /\ ~(here \in HomeSections /\ was \cap HomeSections = {})
                    /\ was \notin {{}, {here}} -> "route_section_change"
               [] OTHER -> "none"

OutcomeOf ==
    [after_form_submission |-> "form_submitted", return_to_home |-> "returned_to_home",
     route_section_change |-> "navigated_away", idle_gap |-> "idle"]

(* In hundredths; an activity that goes on would add nothing, but every one*)
(* is ended by its successor or by the session.                            *)
BoundaryConfidence ==
    [session_start |-> 50, after_form_submission |-> 85, return_to_home |-> 80,
     route_section_change |-> 70, idle_gap |-> 60]

(* A form's marks are its own identity or that of the form its control is  *)
(* in; a path that is one of the site's is templated.                      *)
Shapes(events) == Distinct([i \in DOMAIN events |-> RouteShape(events[i].url)])

Routed(events) == Shapes(Those(events, {i \in DOMAIN events : IsNavigation(events[i])}))

Called(events) ==
    Shapes(Those(events, {i \in DOMAIN events : events[i].type \in RequestTypes
                                                /\ ~events[i].reduced}))

Named(markers) ==
    LET forms == Those(markers, {i \in DOMAIN markers : IsAction(markers[i])
                                                       /\ markers[i].form # ""})
    IN  Distinct([i \in DOMAIN forms |-> forms[i].form])

(* SegmentationAnalyzer.analyze: the activity that begins at marker i, when*)
(* the next begins at marker j (past the end for the last).                *)
Activity(events, markers, i, j) ==
    LET last == j > Len(markers)
        own == SubSeq(markers, i, j - 1)
        reason == Boundary(markers, i)
        outcome == IF last THEN "session_end" ELSE OutcomeOf[Boundary(markers, j)]
        window == Those(events, {x \in DOMAIN events :
                                     /\ events[x].seq >= markers[i].seq
                                     /\ ~last => events[x].seq < markers[j].seq})
        kinds == {ActionKind[e.type] : e \in {x \in ToSet(own) : IsAction(x)}}
    IN  [start |-> markers[i].seq, end |-> markers[j - 1].seq, cites |-> ToSet(own),
         reason |-> reason, outcome |-> outcome,
         kinds |-> [k \in kinds |-> Quantify(DOMAIN own, LAMBDA x :
                                        IsAction(own[x]) /\ ActionKind[own[x].type] = k)],
         actions |-> Quantify(DOMAIN own, LAMBDA x : IsAction(own[x])),
         routes |-> Routed(window), endpoints |-> Called(window), forms |-> Named(own),
         confidence |-> BoundaryConfidence[reason] + 10]

Activities(events) ==
    LET markers == Markers(events)
        starts == InOrder({i \in DOMAIN markers : Boundary(markers, i) # "none"})
    IN  [k \in DOMAIN starts |->
            Activity(events, markers, starts[k],
                     IF k = Len(starts) THEN Len(markers) + 1 ELSE starts[k + 1])]
=============================================================================
