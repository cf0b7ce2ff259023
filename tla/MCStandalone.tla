---------------------------- MODULE MCStandalone ----------------------------
(***************************************************************************)
(* Instances of Standalone for TLC: commands that yield two events, one,   *)
(* and none.                                                               *)
(***************************************************************************)
EXTENDS Standalone

CONSTANTS c1, c2, c3, c4

Requests == {c1, c2, c3, c4}
Counts == [c \in Requests |-> CASE c = c1 -> 2 [] c = c2 -> 1 [] c = c3 -> 1 [] c = c4 -> 0]
=============================================================================
