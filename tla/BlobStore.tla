----------------------------- MODULE BlobStore -----------------------------
(***************************************************************************)
(* The content-addressed store of response bodies (storage/blobs.py), as   *)
(* the extension's client threads use it, with no lock: put looks for the  *)
(* digest's path, and if nothing is there writes a temporary file, fsyncs  *)
(* it and renames it into place.                                           *)
(*                                                                         *)
(* One digest: puts of different contents share nothing.  A body over the  *)
(* size limit is refused before any of this and is not put here.           *)
(***************************************************************************)
CONSTANT Writers    \* the threads that put

VARIABLES
    blob,       \* what the digest's path holds
    putting     \* how far each thread's put has come

blobVars == <<blob, putting>>

BlobTypeOK ==
    /\ blob \in {"absent", "partial", "whole"}
    /\ putting \in [Writers -> {"idle", "writing", "stored", "failed"}]

BlobInit == blob = "absent" /\ putting = [w \in Writers |-> "idle"]

(* Mutant of PutCheck: the target itself is opened for writing.            *)
PutCheckInPlace(w) ==
    /\ putting[w] = "idle"
    /\ IF blob = "absent"
       THEN putting' = [putting EXCEPT ![w] = "writing"] /\ blob' = "partial"
       ELSE putting' = [putting EXCEPT ![w] = "stored"] /\ UNCHANGED blob

(* target.exists(): what is there already is referred to, and a temporary  *)
(* file is made otherwise.                                                 *)
PutCheck(w) ==
    /\ putting[w] = "idle"
    /\ putting' = [putting EXCEPT ![w] = IF blob = "absent" THEN "writing" ELSE "stored"]
    /\ UNCHANGED blob

(* The temporary file is whole and synced, and is renamed over the path.   *)
PutPlace(w) ==
    /\ putting[w] = "writing"
    /\ putting' = [putting EXCEPT ![w] = "stored"]
    /\ blob' = "whole"

(* Writing, syncing or renaming raises OSError: the temporary file goes.   *)
PutFail(w) ==
    /\ putting[w] = "writing"
    /\ putting' = [putting EXCEPT ![w] = "failed"]
    /\ UNCHANGED blob

(* The caller has seen the outcome.                                        *)
PutReturn(w) ==
    /\ putting[w] \in {"stored", "failed"}
    /\ putting' = [putting EXCEPT ![w] = "idle"]
    /\ UNCHANGED blob
=============================================================================
