------------------------------- MODULE Routes -------------------------------
(***************************************************************************)
(* What a URL tells of the application (analysis/states.py and             *)
(* segmentation.py).  A URL is the segments of its path and of its hash    *)
(* route, and its query; scheme and host are left out.                     *)
(***************************************************************************)
EXTENDS Naturals, Sequences, Sublists

CONSTANT Identifiers    \* the segments identifier_kind takes for data

NoUrl == [path |-> <<>>, hash |-> <<>>, query |-> "none"]

Templated(segments) ==
    [i \in DOMAIN segments |-> IF segments[i] \in Identifiers THEN "{id}" ELSE segments[i]]

RouteShape(url) == Templated(url.path) \o
                   (IF url.hash = <<>> THEN <<>> ELSE <<"#">> \o Templated(url.hash))

FirstSection(url) ==
    LET segments == Templated(url.path) \o Templated(url.hash)
        named == Those(segments, {i \in DOMAIN segments : segments[i] # "{id}"})
    IN  IF named = <<>> THEN "" ELSE named[1]
=============================================================================
