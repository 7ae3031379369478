--------------------------- MODULE MCProbeChannel ---------------------------
(***************************************************************************)
(* One page, first or not, with two documents, two navigations the driver  *)
(* hears of, at most two probes in a document and a buffer of two: two     *)
(* clicks, a call and a change, in any order.                              *)
(***************************************************************************)
EXTENDS ProbeChannel, TLC

CONSTANTS c1, c2, f1, m1

MCClicks == {c1, c2}
MCCalls == {f1}
MCChanges == {m1}
MCNavs == {"nav1", "nav2"}
MCSymmetry == Permutations(MCClicks)
=============================================================================
