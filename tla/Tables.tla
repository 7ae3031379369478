------------------------------- MODULE Tables -------------------------------
(***************************************************************************)
(* The catalog of the tables an operator worked (analysis/tables.py).      *)
(*                                                                         *)
(* An event's table is NoTable or [id, columns, onHeader, row, visible]: a *)
(* row is [id, index, cells], with cells "" where there are none, and      *)
(* visible the rows in the viewport, which tell no place (index -1).       *)
(***************************************************************************)
EXTENDS Naturals, FiniteSetsExt, SequencesExt, TLC

CONSTANTS
    MaxRows,    \* _MAX_ROWS_PER_TABLE
    PagingNames \* the names of controls that hold one of _PAGINATION_WORDS

NoTable == [id |-> "none"]
NoRow == [id |-> "", index |-> -1, cells |-> ""]

TableActionTypes == {"user_click", "user_dblclick", "user_rightclick", "user_input",
                     "user_change", "user_submit", "user_scroll"}

(* _row_identity: the row's own id, its place, or else what it says.       *)
RowIdentity(row) ==
    CASE row.id # "" -> <<"id", row.id>>
      [] row.id = "" /\ row.index # -1 -> <<"index", row.index>>
      [] OTHER -> <<"cells", row.cells>>

(* _store_row: the first sighting of a row is kept, up to a bound.         *)
WithRow(rows, row, via) ==
    LET id == RowIdentity(row)
    IN  IF row.cells = "" \/ id \in DOMAIN rows \/ Cardinality(DOMAIN rows) >= MaxRows
        THEN rows ELSE (id :> [cells |-> row.cells, via |-> via]) @@ rows

(* _operation, with the filter control that was typed in last.             *)
Operation(e, lastFilter) ==
    LET control == <<e.page, e.table.id, e.element.name>>
        header == e.table.onHeader \/ e.element.tag = "th" \/ e.element.role = "columnheader"
        typed == e.type \in {"user_input", "user_change"}
        pages == e.element.label \in PagingNames
    IN  CASE e.type = "user_scroll" -> [name |-> "scroll", filter |-> lastFilter]
          [] e.type # "user_scroll" /\ header -> [name |-> "sort", filter |-> <<>>]
          [] e.type # "user_scroll" /\ ~header /\ typed ->
                 [name |-> IF control = lastFilter THEN "none" ELSE "filter", filter |-> control]
          [] e.type # "user_scroll" /\ ~header /\ ~typed /\ pages ->
                 [name |-> "paginate", filter |-> <<>>]
          [] OTHER -> [name |-> "none", filter |-> lastFilter]

IsRowAction(e) ==
    /\ e.type \in {"user_click", "user_dblclick", "user_rightclick"}
    /\ ~e.table.onHeader
    /\ e.element.tag \in {"button", "a"} \/ e.element.role # ""

NewTable == [columns |-> <<>>, rows |-> <<>>, actions |-> {}, operations |-> <<>>, cites |-> {}]

(* One interaction: the row it is in unless that is the header, then what  *)
(* the viewport shows.                                                     *)
Worked(state, e) ==
    LET key == <<e.page, e.table.id>>
        known == IF key \in DOMAIN state.tables THEN state.tables[key] ELSE NewTable
        op == Operation(e, state.filter)
        via == IF op.name = "none" THEN "open" ELSE op.name
        own == IF e.type = "user_scroll" \/ e.table.onHeader THEN known.rows
               ELSE WithRow(known.rows, e.table.row, via)
        counted == op.name :> (1 + (IF op.name \in DOMAIN known.operations
                                    THEN known.operations[op.name] ELSE 0))
        table == [columns |-> IF Len(e.table.columns) >= Len(known.columns) THEN e.table.columns
                              ELSE known.columns,
                  rows |-> FoldLeft(LAMBDA rows, r : WithRow(rows, r, via), own, e.table.visible),
                  actions |-> IF op.name = "none" /\ IsRowAction(e) /\ e.element.label # ""
                              THEN known.actions \cup {e.element.label} ELSE known.actions,
                  operations |-> IF op.name = "none" THEN known.operations
                                 ELSE counted @@ known.operations,
                  cites |-> known.cites \cup {e.seq}]
    IN  [tables |-> (key :> table) @@ state.tables, filter |-> op.filter]

TablesOf(events) ==
    FoldLeft(Worked, [tables |-> <<>>, filter |-> <<>>],
             SelectSeq(events, LAMBDA e : e.type \in TableActionTypes /\ e.table # NoTable)).tables
=============================================================================
