--------------------------- MODULE MCDerivedStore ---------------------------
(***************************************************************************)
(* Two analyze processes, one of them called with --rebuild, one reader    *)
(* that asks twice, and three logs: one that grows, one with a line that   *)
(* is not an event before one that is, one that repeats an id.             *)
(***************************************************************************)
EXTENDS DerivedStore

CONSTANT bad

MCAnalyzers == {1, 2}
MCReaders == {1}
MCIds == {1, 2}
MCLogs == {<<1, 2>>, <<bad, 1>>, <<1, 1>>}
MCRebuilders == {2}
MCMaxFiles == 3
MCMaxAsks == 2
=============================================================================
