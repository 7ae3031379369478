----------------------------- MODULE Selectors -----------------------------
(***************************************************************************)
(* How the elements an operator used can be found again                    *)
(* (analysis/selectors.py): an element's observations are grouped by what a*)
(* rendering is unlikely to change, and each strategy is worth how often   *)
(* its best value held.                                                    *)
(*                                                                         *)
(* An element is [name, tag, input, role, label, path, locators]: what its *)
(* name, text and accessible name say is one name, and locators is a       *)
(* function from the strategies it offers to their values.  Of values that *)
(* held equally often the code takes the one seen first, the model any one.*)
(***************************************************************************)
EXTENDS FiniteSetsExt, SequencesExt

CONSTANT Generated      \* the values generated_id_warning warns of

UserActionTypes == {"user_click", "user_dblclick", "user_rightclick", "user_input",
                    "user_change", "user_submit", "user_key"}

(* semantic_key: an element without a name of its own is known by where it *)
(* is; its id is no part of the key.                                       *)
SemanticKey(element) ==
    <<element.tag, element.name, element.input, IF element.name = "" THEN element.path ELSE "none">>

Measured(group) ==
    LET Values(s) == {e.element.locators[s] : e \in {x \in group : s \in DOMAIN x.element.locators}}
        Held(s, v) == Cardinality({e \in group : s \in DOMAIN e.element.locators
                                                 /\ e.element.locators[s] = v})
        strategies == UNION {DOMAIN e.element.locators : e \in group}
        Best(s) == CHOOSE v \in Values(s) : \A w \in Values(s) : Held(s, w) <= Held(s, v)
        framework(s) == s \in {"id", "css", "structural"} /\ Best(s) \in Generated
    IN  [s \in strategies |->
            [value |-> Best(s), resolved |-> Held(s, Best(s)), samples |-> Cardinality(group),
             warning |-> CASE framework(s) -> "framework_generated"
                           [] ~framework(s) /\ Cardinality(Values(s)) > 1 -> "value_varied"
                           [] OTHER -> "none"]]

UsedElements(events) ==
    LET used == {e \in ToSet(events) : e.type \in UserActionTypes /\ e.element.tag # ""}
        Group(key) == {e \in used : SemanticKey(e.element) = key}
        types(key) == {e.type : e \in Group(key)}
    IN  {[key |-> key, observations |-> Cardinality(Group(key)),
          actions |-> [t \in types(key) |-> Cardinality({e \in Group(key) : e.type = t})],
          locators |-> Measured(Group(key)), cites |-> {e.seq : e \in Group(key)}] :
         key \in {SemanticKey(e.element) : e \in used}}
=============================================================================
