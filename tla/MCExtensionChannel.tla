------------------------- MODULE MCExtensionChannel -------------------------
(***************************************************************************)
(* A buffer of two records, three things to observe and two sockets: the   *)
(* buffer overflows before the first socket opens and between the two, and *)
(* both connections' threads can be storing the same body.                 *)
(***************************************************************************)
EXTENDS ExtensionChannel

MCMaxBuffer == 2
MCMaxSockets == 2
MCMaxObserved == 3
MCMaxFailures == 1
MCObservable == {"body"}
MCWriters == 1..2
=============================================================================
