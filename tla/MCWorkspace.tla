---------------------------- MODULE MCWorkspace ----------------------------
(***************************************************************************)
(* A small workspace for TLC: a session and its twin, two who may shut it  *)
(* down, and requests for its kinds of views.                              *)
(***************************************************************************)
EXTENDS Workspace

For(route, session) == [token |-> TRUE, route |-> route, session |-> session]

Alone(asks) == {[r \in Requests |-> IF r = "r1" THEN ask ELSE NoAsk] : ask \in asks}
Both(asks) == [Requests -> asks]

(* A server that two shut down while it serves, one view of every kind,    *)
(* and two analyses at a time.                                             *)
MCScenarios ==
    {[calling |-> {"main", "other"}, asks |-> Alone({NoAsk})],
     [calling |-> {"main"},
      asks |-> Alone({For("overview", "raw"), For("list", "shared"), For("event", "raw"),
                      For("timeline", "raw"), For("analysis", "shared"),
                      For("sessions", "none"), For("detail", "none"),
                      [For("list", "raw") EXCEPT !.token = FALSE]})],
     [calling |-> {}, asks |-> Both({For("analysis", "raw")})]}

PanelScenarios == {[calling |-> {"main"}, asks |-> Alone({For("list", "raw")})]}
=============================================================================
