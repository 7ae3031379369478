----------------------------- MODULE EventPages -----------------------------
(***************************************************************************)
(* The filtered walk of the evidence index (analysis/events_index.py,      *)
(* EventStore._select): rows in seq order, one page after a cursor, one    *)
(* row fetched past the page to tell whether there is another.             *)
(*                                                                         *)
(* A row is [line |-> ..., id |-> ...]; ids stand for seqs too, for the    *)
(* capture makes both from one count.                                      *)
(***************************************************************************)
EXTENDS Integers, SequencesExt, Sublists

(* A run has one row of an id at most: the two are the key of the table.   *)
InSeqOrder(rows) ==
    LET order == InOrder({r.id : r \in rows})
    IN  [k \in DOMAIN order |-> CHOOSE r \in rows : r.id = order[k]]

Start == 0      \* no cursor: seqs begin at 1

AfterCursor(rows, cursor) == InSeqOrder({r \in rows : r.id > cursor})

(* Mutant of NextCursor: the row fetched past the page becomes the cursor. *)
NextCursorPeeked(rows, cursor, limit) ==
    LET found == AfterCursor(rows, cursor)
    IN  IF Len(found) > limit THEN found[limit + 1].id ELSE Start

PageRows(rows, cursor, limit) ==
    LET found == AfterCursor(rows, cursor)
    IN  SubSeq(found, 1, IF Len(found) > limit THEN limit ELSE Len(found))

(* next_seq: the seq of the page's last row if there are more, none (Start *)
(* here) otherwise.                                                        *)
NextCursor(rows, cursor, limit) ==
    LET found == AfterCursor(rows, cursor)
    IN  IF Len(found) > limit THEN found[limit].id ELSE Start

(* A reader that follows the cursors to the end: what it has collected, at *)
(* which cursor it is and whether there is more.                           *)
TurnPage(rows, limit, was) ==
    LET next == NextCursor(rows, was.cursor, limit)
    IN  IF was.more
        THEN [got |-> was.got \o PageRows(rows, was.cursor, limit), cursor |-> next,
              more |-> next # Start]
        ELSE was

(* What it collects of n pages at most.                                    *)
Walk(rows, limit, n) ==
    LET after[i \in 0..n] ==
            IF i = 0 THEN [got |-> <<>>, cursor |-> Start, more |-> TRUE]
            ELSE TurnPage(rows, limit, after[i - 1])
    IN  after[n].got
=============================================================================
