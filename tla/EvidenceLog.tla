---------------------------- MODULE EvidenceLog ----------------------------
(***************************************************************************)
(* What the event spine promises to whoever reads it later: the readable   *)
(* events only ever grow at the end, what has been made durable is never   *)
(* lost, and once the log is sealed it does not grow again.  It says       *)
(* nothing of locks, buffers or failed writes: EventLog implements it.     *)
(***************************************************************************)
EXTENDS Integers

VARIABLES
    recorded,   \* the sequence numbers a reader of the file gets back
    durable,    \* those that a power loss can no longer take
    sealed      \* the log has been closed, or its process is gone

vars == <<recorded, durable, sealed>>

Init == recorded = {} /\ durable = {} /\ sealed = FALSE

(* New events come after every event there is.                             *)
Extend ==
    /\ recorded \subseteq recorded'
    /\ \A n \in recorded' \ recorded, m \in recorded : m < n

Record == ~sealed /\ Extend /\ UNCHANGED <<durable, sealed>>

Harden == ~sealed /\ durable' = recorded /\ UNCHANGED <<recorded, sealed>>

(* Sealing may bring the last events and may make them durable.            *)
Seal ==
    /\ ~sealed /\ sealed' = TRUE
    /\ Extend
    /\ durable' \in {durable, recorded'}

(* A power loss cuts the end of the log, never what is durable.            *)
LosePower ==
    /\ sealed' = TRUE
    /\ recorded' \subseteq recorded
    /\ durable \subseteq recorded'
    /\ \A n \in recorded', m \in recorded \ recorded' : n < m
    /\ UNCHANGED durable

Next == Record \/ Harden \/ Seal \/ LosePower

Spec == Init /\ [][Next]_vars
=============================================================================
