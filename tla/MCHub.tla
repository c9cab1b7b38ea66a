------------------------------- MODULE MCHub --------------------------------
(***************************************************************************)
(* Model checking of Hub.  Connections, sessions and names are model       *)
(* values; connections are interchangeable, so are the sessions of a name. *)
(***************************************************************************)
EXTENDS Hub, TLC

CONSTANTS p, q      \* two working directories, one inside the other

NoMatches   == {}
BothMatch   == {p, q} \X {p, q}

Symmetry == Permutations(Conns) \cup Permutations(Sessions)
=============================================================================
