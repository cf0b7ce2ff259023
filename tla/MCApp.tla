-------------------------------- MODULE MCApp --------------------------------
(***************************************************************************)
(* Instances of App for TLC.                                               *)
(***************************************************************************)
EXTENDS App

CONSTANTS a1, a2, a3, a4

Methods == {"CreateAccount", "ConfigureAccountMetadata"}
Addresses == {a1, a2, a3, a4}

Served == [mode |-> "distributed", store |-> "raft", version |-> "v2", monitorPort |-> 9091,
           benchmark |-> FALSE, total |-> 0]
\* The configurations that the constructor accepts, and one for each of its assertions.
EveryConfig ==
  {Served,
   [Served EXCEPT !.benchmark = TRUE, !.total = 1],
   [Served EXCEPT !.benchmark = TRUE],
   [Served EXCEPT !.monitorPort = -1],
   [Served EXCEPT !.mode = "standalone"],
   [Served EXCEPT !.store = "sqlite"],
   [Served EXCEPT !.version = "v1"]}
=============================================================================
