------------------------------- MODULE States -------------------------------
(***************************************************************************)
(* The states a session visited and what moved it between them             *)
(* (analysis/states.py).  A state is the shape of a route and the forms    *)
(* seen there; its hash is the pair itself.                                *)
(***************************************************************************)
EXTENDS Routes, Sublists, Selectors

TriggerTypes == {"user_submit", "user_click", "user_dblclick", "user_rightclick",
                 "runtime_history", "runtime_form_submit"}

(* A submission names its form, a typed or chosen value the form it is in. *)
FormsAt(events, shape) ==
    {e.form : e \in {x \in ToSet(events) :
        /\ x.type \in {"user_submit", "user_input", "user_change"}
        /\ x.form # "" /\ RouteShape(x.url) = shape}}

(* The occupancies of states, one for each navigation.                     *)
Navigations(events) ==
    Those(events, {i \in DOMAIN events :
        events[i].type \in {"navigation_committed", "runtime_history"}
        /\ events[i].url # NoUrl})

Occupying(events, navigations) ==
    [i \in DOMAIN navigations |->
        LET shape == RouteShape(navigations[i].url)
        IN  [state |-> <<shape, FormsAt(events, shape)>>,
             seq |-> navigations[i].seq, wall |-> navigations[i].wall]]

Occupancies(events) == Occupying(events, Navigations(events))

VisitedStates(events) ==
    LET visits == Occupancies(events)
        states == {visits[i].state : i \in DOMAIN visits}
    IN  [s \in states |-> Quantify(DOMAIN visits, LAMBDA i : visits[i].state = s)]

(* _candidate_trigger: the last trigger logged between two occupancies, or *)
(* else the last whose wall clock lies between theirs; 0 if there is none. *)
(* Mutant: the last trigger before the second occupancy, wherever.         *)
CandidateUnbounded(triggers, previous, current) ==
    SelectLastInSeq(triggers, LAMBDA e : e.seq < current.seq)

Candidate(triggers, previous, current) ==
    LET bySeq == SelectLastInSeq(triggers, LAMBDA e :
                     previous.seq < e.seq /\ e.seq < current.seq)
        byClock == SelectLastInSeq(triggers, LAMBDA e :
                     previous.wall <= e.wall /\ e.wall <= current.wall)
    IN  IF bySeq # 0 THEN bySeq ELSE byClock

Method(triggers, previous, current) ==
    CASE \E e \in ToSet(triggers) : previous.seq < e.seq /\ e.seq < current.seq
             -> "same_timeline_seq"
      [] Candidate(triggers, previous, current) = 0 -> "unordered"
      [] OTHER -> "wall_clock"

(* The element of a trigger, and the part of the trigger's label that names*)
(* it: its id, or else its name.                                           *)
NoTrigger == [type |-> "unknown", target |-> "", element |-> <<>>, seq |-> 0]

TriggerOf(e) ==
    [type |-> e.type, seq |-> e.seq,
     target |-> IF "id" \in DOMAIN e.element.locators THEN e.element.locators.id
                ELSE e.element.name,
     element |-> IF e.element.tag = "" THEN <<>> ELSE SemanticKey(e.element)]

Triggers(events) ==
    Those(events, {i \in DOMAIN events : events[i].type \in TriggerTypes})

Cause(triggers, previous, current) ==
    LET c == Candidate(triggers, previous, current)
    IN  IF c = 0 THEN NoTrigger ELSE TriggerOf(triggers[c])

(* The visits after which the state is another.                            *)
Changes(visits) ==
    {i \in 1..(Len(visits) - 1) : visits[i].state # visits[i + 1].state}

(* _transitions: the moves from one state to another, those with the same  *)
(* trigger counted together, which keep the first one's evidence.          *)
MoveOf(visits, triggers, i) ==
    LET cause == Cause(triggers, visits[i], visits[i + 1])
    IN  [from |-> visits[i].state, to |-> visits[i + 1].state,
         type |-> cause.type, target |-> cause.target, element |-> cause.element,
         trigger |-> cause.seq,
         method |-> Method(triggers, visits[i], visits[i + 1]), count |-> 1,
         cites |-> {visits[i].seq, visits[i + 1].seq, cause.seq}]

Moving(visits, triggers, changes) ==
    [k \in DOMAIN changes |-> MoveOf(visits, triggers, changes[k])]

Moves(events) ==
    LET visits == Occupancies(events)
    IN  Moving(visits, Triggers(events), InOrder(Changes(visits)))

SameMove(t, u) ==
    /\ t.from = u.from /\ t.to = u.to
    /\ t.type = u.type /\ t.target = u.target /\ t.element = u.element

(* A move that is known is counted again.                                  *)
Counted(known, t) ==
    LET same == SelectInSeq(known, LAMBDA k : SameMove(k, t))
    IN  IF same = 0 THEN Append(known, t)
        ELSE [known EXCEPT ![same].count = @ + 1, ![same].cites = @ \cup t.cites]

Tallied(moves) ==
    LET upTo[i \in 0..Len(moves)] ==
            IF i = 0 THEN <<>> ELSE Counted(upTo[i - 1], moves[i])
    IN  upTo[Len(moves)]

Transitions(events) == Tallied(Moves(events))
=============================================================================
