-------------------------- MODULE MCNetworkCapture --------------------------
(***************************************************************************)
(* Two requests to an application URL, a noisy one or a third party's:     *)
(* enough for two requests to one URL to overlap, for a response to        *)
(* overtake either, and for one request to be lost while both are answered.*)
(***************************************************************************)
EXTENDS NetworkCapture

CONSTANTS r1, r2, api, noise, other

MCRequests == {r1, r2}
MCUrls == {api, noise, other}
MCScoped == {api, noise}
MCNoisy == {noise}
=============================================================================
