--------------------------- MODULE MCRobotsCache ---------------------------
(***************************************************************************)
(* Two checks of one origin, whose robots.txt opens and closes a path as   *)
(* time goes by.                                                           *)
(***************************************************************************)
EXTENDS RobotsCache, TLC

CONSTANTS c1, c2

OpenOrClosed == {{}, Paths}
Symmetry == Permutations({c1, c2})
=============================================================================
