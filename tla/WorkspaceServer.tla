-------------------------- MODULE WorkspaceServer --------------------------
(***************************************************************************)
(* The life of the workspace's server (workspace/server.py, cli.py's       *)
(* cmd_workspace): a thread serves until one of several shuts it down.     *)
(*                                                                         *)
(* The loop is socketserver's serve_forever: it clears an event when it is *)
(* entered, looks for a request to stop, and sets the event at the end,    *)
(* which is what socketserver's shutdown waits for.                        *)
(***************************************************************************)
EXTENDS Naturals, FiniteSets

CONSTANT Callers    \* threads that call shutdown; "main" started the server

ASSUME CallerAssumption == "main" \in Callers

VARIABLES
    owner,      \* _thread: "none", "main", or "daemon" for a thread of its own
    loop,       \* where the serving thread is
    stopping,   \* the request to stop
    ended,      \* the event
    closed,     \* _closed
    listening,  \* the socket is open
    caller      \* where each caller of shutdown is

lifeVars == <<owner, loop, stopping, ended, closed, listening, caller>>

LifeTypeOK ==
    /\ owner \in {"none", "main", "daemon"}
    /\ loop \in {"outside", "starting", "running", "ended", "missed"}
    /\ stopping \in BOOLEAN /\ ended \in BOOLEAN /\ closed \in BOOLEAN /\ listening \in BOOLEAN
    /\ caller \in [Callers -> {"absent", "idle", "marking", "waiting", "joining", "closing",
                               "done", "raised"}]

(* A constructed server listens, and nobody serves; only some may ever shut*)
(* it down.                                                                *)
LifeInit(calling) ==
    /\ owner = "none" /\ loop = "outside"
    /\ stopping = FALSE /\ ended = FALSE /\ closed = FALSE /\ listening = TRUE
    /\ caller = [c \in Callers |-> IF c \in calling THEN "idle" ELSE "absent"]

-----------------------------------------------------------------------------
(* start: a thread of its own will serve.                                  *)
Start ==
    /\ loop = "outside" /\ owner = "none" /\ caller["main"] \in {"absent", "idle"}
    /\ owner' = "daemon" /\ loop' = "starting"
    /\ UNCHANGED <<stopping, ended, closed, listening, caller>>

(* serve_forever: the calling thread will, whatever there was before.      *)
ServeForever ==
    /\ loop = "outside" /\ caller["main"] \in {"absent", "idle"}
    /\ owner' = "main" /\ loop' = "starting"
    /\ UNCHANGED <<stopping, ended, closed, listening, caller>>

(* The loop is entered; a socket that was closed before cannot be waited   *)
(* for, and the loop ends at once.                                         *)
Enter ==
    /\ loop = "starting"
    /\ loop' = IF listening THEN "running" ELSE "ended"
    /\ ended' = ~listening
    /\ stopping' = (stopping /\ listening)
    /\ UNCHANGED <<owner, closed, listening, caller>>

Leave ==
    /\ loop = "running" /\ stopping
    /\ loop' = "ended" /\ ended' = TRUE /\ stopping' = FALSE
    /\ UNCHANGED <<owner, closed, listening, caller>>

(* Ctrl+C while the main thread serves: within the loop it ends as it does *)
(* otherwise; before it is entered, it never is.                           *)
Interrupt ==
    /\ owner = "main"
    /\ \/ /\ loop = "running"
          /\ loop' = "ended" /\ ended' = TRUE /\ stopping' = FALSE
       \/ /\ loop = "starting"
          /\ loop' = "missed"
          /\ UNCHANGED <<ended, stopping>>
    /\ UNCHANGED <<owner, closed, listening, caller>>

-----------------------------------------------------------------------------
(* shutdown, of which a main thread that serves is kept until it no longer *)
(* does.                                                                   *)
Goes(c, place) == caller' = [caller EXCEPT ![c] = place]

Check(c) ==
    /\ caller[c] = "idle"
    /\ c = "main" /\ owner = "main" => loop \in {"ended", "missed"}
    /\ Goes(c, IF closed THEN "done" ELSE "marking")
    /\ UNCHANGED <<owner, loop, stopping, ended, closed, listening>>

(* Mutant of Mark: a server that never served is asked to stop as well.    *)
MarkAlways(c) ==
    /\ caller[c] = "marking"
    /\ closed' = TRUE /\ stopping' = TRUE
    /\ Goes(c, "waiting")
    /\ UNCHANGED <<owner, loop, ended, listening>>

Mark(c) ==
    /\ caller[c] = "marking"
    /\ closed' = TRUE
    /\ \/ owner = "none" /\ Goes(c, "closing") /\ UNCHANGED stopping
       \/ owner # "none" /\ Goes(c, "waiting") /\ stopping' = TRUE
    /\ UNCHANGED <<owner, loop, ended, listening>>

Released(c) ==
    /\ caller[c] = "waiting" /\ ended
    /\ Goes(c, "joining")
    /\ UNCHANGED <<owner, loop, stopping, ended, closed, listening>>

(* Another caller that came as far as this may have forgotten the thread.  *)
Join(c) ==
    /\ caller[c] = "joining"
    /\ \/ owner = "none" /\ Goes(c, "raised") /\ UNCHANGED owner
       \/ owner # "none" /\ Goes(c, "closing") /\ owner' = "none"
    /\ UNCHANGED <<loop, stopping, ended, closed, listening>>

CloseSocket(c) ==
    /\ caller[c] = "closing"
    /\ listening' = FALSE
    /\ Goes(c, "done")
    /\ UNCHANGED <<owner, loop, stopping, ended, closed>>

ShutdownStep(c) == Mark(c) \/ Released(c) \/ Join(c) \/ CloseSocket(c)

LifeNext ==
    \/ Start \/ ServeForever \/ Enter \/ Leave \/ Interrupt
    \/ \E c \in Callers : Check(c) \/ ShutdownStep(c)

-----------------------------------------------------------------------------
(* A shutdown that was begun returns, or raises, on a server that never    *)
(* started, one about to serve and one that serves, and whoever else shuts *)
(* it down; unless Ctrl+C came between the main thread's registration and  *)
(* its loop, when nobody will ever set the event (server.py:360-380).      *)
ShutdownReturns ==
    \A c \in Callers :
        caller[c] = "marking" ~> caller[c] \in {"done", "raised"} \/ loop = "missed"
=============================================================================
