----------------------------- MODULE MCSegment -----------------------------
(***************************************************************************)
(* Segment with entries short and long, with and without a key version.    *)
(***************************************************************************)
EXTENDS Segment

MCEntry ==
  {[term |-> 1, length |-> 1, version |-> 0],
   [term |-> 1, length |-> 1, version |-> 1],
   [term |-> 2, length |-> 2, version |-> 2]}
=============================================================================
