---------------------------- MODULE MCEventLog ----------------------------
(***************************************************************************)
(* Two emitting threads, four events and an fsync every second line: the   *)
(* smallest instance where a failed fsync, a retry, a buffered line and a  *)
(* cut line can all precede an acknowledged event.                         *)
(***************************************************************************)
EXTENDS EventLog, TLC

CONSTANTS t1, t2

MCThreads == {t1, t2}
Symmetry == Permutations(MCThreads)
=============================================================================
