------------------------------ MODULE MpscQueue ------------------------------
(***************************************************************************)
(* What infra/mpscqueue/MpscQueue.h promises its users: a first-in         *)
(* first-out queue of many producers and one consumer, in which shutdown   *)
(* stops new requests and lets the consumer take every entry that is in    *)
(* the queue before dequeue throws QueueStoppedException.                  *)
(*                                                                         *)
(* A producer that enqueue has admitted may still insert its entry when    *)
(* the queue has been shut down meanwhile, as the interface lets enqueue   *)
(* take its time ("This method will block until the item has been          *)
(* successfully inserted").                                                *)
(***************************************************************************)
EXTENDS Sequences

CONSTANTS
  Producer,   \* the threads that call enqueue
  Item        \* what they put into the queue

VARIABLES
  items,      \* the entries in the queue, the next one to leave first
  taken,      \* what dequeue has returned so far
  stopped,    \* shutdown has been called
  admitted,   \* the producers inside enqueue
  finished    \* dequeue has thrown QueueStoppedException

vars == <<items, taken, stopped, admitted, finished>>

Init ==
  /\ items = <<>>
  /\ taken = <<>>
  /\ stopped = FALSE
  /\ admitted = {}
  /\ finished = FALSE

\* enqueue: it throws once the queue is stopped.
Admit(p) ==
  /\ ~stopped
  /\ p \notin admitted
  /\ admitted' = admitted \cup {p}
  /\ UNCHANGED <<items, taken, stopped, finished>>

Insert(p, i) ==
  /\ p \in admitted
  /\ items' = Append(items, i)
  /\ admitted' = admitted \ {p}
  /\ UNCHANGED <<taken, stopped, finished>>

\* dequeue: the head of the queue, or the exception of an empty stopped queue.
Remove ==
  /\ ~finished
  /\ items # <<>>
  /\ taken' = Append(taken, Head(items))
  /\ items' = Tail(items)
  /\ UNCHANGED <<stopped, admitted, finished>>

Finish ==
  /\ ~finished
  /\ stopped
  /\ items = <<>>
  /\ finished' = TRUE
  /\ UNCHANGED <<items, taken, stopped, admitted>>

Shutdown ==
  /\ stopped' = TRUE
  /\ UNCHANGED <<items, taken, admitted, finished>>

Next ==
  \/ \E p \in Producer : Admit(p) \/ \E i \in Item : Insert(p, i)
  \/ Remove
  \/ Finish
  \/ Shutdown

Spec == Init /\ [][Next]_vars

=============================================================================
