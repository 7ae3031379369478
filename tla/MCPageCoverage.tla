--------------------------- MODULE MCPageCoverage ---------------------------
(***************************************************************************)
(* The page the operator started on and one that the application opens:    *)
(* enough for a page to close while stop waits for the other, to appear    *)
(* only once the scanners have been swept, or to take its id after the     *)
(* other has given its own up.                                             *)
(***************************************************************************)
EXTENDS PageCoverage

CONSTANTS p1, p2

MCPages == {p1, p2}
=============================================================================
