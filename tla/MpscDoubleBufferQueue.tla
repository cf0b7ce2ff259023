------------------------ MODULE MpscDoubleBufferQueue ------------------------
(***************************************************************************)
(* The queue of infra/mpscqueue/MpscDoubleBufferQueue.cpp: producers       *)
(* append to one buffer under a mutex, the consumer drains the other one   *)
(* without it and swaps the two when its own is empty.                     *)
(*                                                                         *)
(* The threads take a step wherever another thread can get between: at the *)
(* unlocked tests of mShouldExit, at mQueueSize, at the mutex, and between *)
(* the predicate of the condition variable and the wait that follows it.   *)
(* A thread inside the mutex is one whose program counter says so; the     *)
(* locked sections that nobody can look into are one step.                 *)
(*                                                                         *)
(* The consumer calls dequeue at once, as CommandProcessLoop does, or only *)
(* after empty() has returned false, as RaftCore::receiveMessage and       *)
(* RaftLogStore::persistLoopMain do: they must not be blocked.             *)
(***************************************************************************)
EXTENDS Integers, Sequences

CONSTANTS
  Producer,        \* the threads that call enqueue
  MaxItems         \* bound: how often each of them calls it

ASSUME MaxItemsAssumption == MaxItems \in Nat

VARIABLES
  producerQueue,   \* mProducerQueue
  consumerQueue,   \* mConsumerQueue
  queueSize,       \* mQueueSize
  shouldExit,      \* mShouldExit
  ppc,             \* where each producer is in enqueue
  wasEmpty,        \* isEmpty of the producer that is inside the mutex
  calls,           \* how many calls of enqueue each producer has made
  cpc,             \* where the consumer is in dequeue
  polled,          \* empty() returned false before this call of dequeue
  spc,             \* where the thread that calls shutdown is
  taken            \* history: what dequeue has returned

vars == <<producerQueue, consumerQueue, queueSize, shouldExit, ppc, wasEmpty, calls,
          cpc, polled, spc, taken>>
producerVars == <<ppc, wasEmpty, calls>>

Item == Producer \X (1..MaxItems)

TypeOK ==
  /\ producerQueue \in Seq(Item)
  /\ consumerQueue \in Seq(Item)
  /\ queueSize \in Nat
  /\ shouldExit \in BOOLEAN
  /\ ppc \in [Producer -> {"outside", "admitted", "counting"}]
  /\ wasEmpty \in BOOLEAN
  /\ calls \in [Producer -> 0..MaxItems]
  /\ cpc \in {"idle", "dequeue", "testing", "blocking", "waiting", "woken", "take", "stopped"}
  /\ polled \in BOOLEAN
  /\ spc \in {"running", "notify", "done"}
  /\ taken \in Seq(Item)

MutexFree ==
  /\ \A p \in Producer : ppc[p] # "counting"
  /\ cpc \notin {"testing", "blocking"}

\* notify_one, to a consumer that waits or to nobody.
NotifyOne == cpc' = IF cpc = "waiting" THEN "woken" ELSE cpc

-----------------------------------------------------------------------------
(* enqueue *)

Admit(p) ==
  /\ ppc[p] = "outside"
  /\ calls[p] < MaxItems
  /\ ~shouldExit
  /\ ppc' = [ppc EXCEPT ![p] = "admitted"]
  /\ calls' = [calls EXCEPT ![p] = @ + 1]
  /\ UNCHANGED <<producerQueue, consumerQueue, queueSize, shouldExit, wasEmpty, cpc, polled,
                 spc, taken>>

\* QueueStoppedException
Refuse(p) ==
  /\ ppc[p] = "outside"
  /\ calls[p] < MaxItems
  /\ shouldExit
  /\ calls' = [calls EXCEPT ![p] = @ + 1]
  /\ UNCHANGED <<producerQueue, consumerQueue, queueSize, shouldExit, ppc, wasEmpty, cpc,
                 polled, spc, taken>>

Push(p) ==
  /\ ppc[p] = "admitted"
  /\ MutexFree
  /\ wasEmpty' = (producerQueue = <<>>)
  /\ producerQueue' = Append(producerQueue, <<p, calls[p]>>)
  /\ ppc' = [ppc EXCEPT ![p] = "counting"]
  /\ UNCHANGED <<consumerQueue, queueSize, shouldExit, calls, cpc, polled, spc, taken>>

\* Faulty variant: the consumer is notified of all entries but the first.
NotifyIfNotEmpty(p) ==
  /\ ppc[p] = "counting"
  /\ queueSize' = queueSize + 1
  /\ ppc' = [ppc EXCEPT ![p] = "outside"]
  /\ IF wasEmpty THEN UNCHANGED cpc ELSE NotifyOne
  /\ UNCHANGED <<producerQueue, consumerQueue, shouldExit, wasEmpty, calls, polled, spc, taken>>

Count(p) ==
  /\ ppc[p] = "counting"
  /\ queueSize' = queueSize + 1
  /\ ppc' = [ppc EXCEPT ![p] = "outside"]
  /\ IF wasEmpty THEN NotifyOne ELSE UNCHANGED cpc
  /\ UNCHANGED <<producerQueue, consumerQueue, shouldExit, wasEmpty, calls, polled, spc, taken>>

-----------------------------------------------------------------------------
(* dequeue *)

\* A step of the consumer that touches neither of the queues.
MoveConsumer(from, to) ==
  /\ cpc = from
  /\ cpc' = to
  /\ UNCHANGED <<producerQueue, consumerQueue, queueSize, shouldExit, producerVars, polled,
                 spc, taken>>

CallDequeue ==
  /\ cpc = "idle"
  /\ cpc' = "dequeue"
  /\ polled' = FALSE
  /\ UNCHANGED <<producerQueue, consumerQueue, queueSize, shouldExit, producerVars, spc, taken>>

\* if (!queue.empty()) queue.dequeue()
PollAndCallDequeue ==
  /\ cpc = "idle"
  /\ queueSize # 0
  /\ cpc' = "dequeue"
  /\ polled' = TRUE
  /\ UNCHANGED <<producerQueue, consumerQueue, queueSize, shouldExit, producerVars, spc, taken>>

UseConsumerQueue ==
  /\ MoveConsumer("dequeue", "take")
  /\ consumerQueue # <<>>

\* The consumer is inside the mutex, at pc, and the producer queue is not empty.
SwapQueues(pc) ==
  /\ cpc = pc
  /\ consumerQueue = <<>>
  /\ MutexFree
  /\ producerQueue # <<>>
  /\ producerQueue' = consumerQueue
  /\ consumerQueue' = producerQueue
  /\ cpc' = "take"
  /\ UNCHANGED <<queueSize, shouldExit, producerVars, polled, spc, taken>>

FindStopped ==
  /\ MoveConsumer("dequeue", "stopped")
  /\ consumerQueue = <<>>
  /\ MutexFree
  /\ producerQueue = <<>>
  /\ shouldExit

FindEmpty ==
  /\ MoveConsumer("dequeue", "testing")
  /\ consumerQueue = <<>>
  /\ MutexFree
  /\ producerQueue = <<>>
  /\ ~shouldExit

\* The predicate of wait, with the mutex held since the producer queue was found empty.
TestPredicate == MoveConsumer("testing", IF shouldExit THEN "stopped" ELSE "blocking")

\* The wait proper: the mutex is released and the thread blocks, in one step.
Block == MoveConsumer("blocking", "waiting")

\* A condition variable may wake its waiter for no reason.
WakeSpuriously == MoveConsumer("waiting", "woken")

\* Faulty variant: a woken consumer that sees mShouldExit leaves the last requests behind.
ResumeStoppedFirst ==
  /\ MoveConsumer("woken", "stopped")
  /\ MutexFree
  /\ shouldExit

ResumeStopped ==
  /\ MoveConsumer("woken", "stopped")
  /\ MutexFree
  /\ producerQueue = <<>>
  /\ shouldExit

ResumeWaiting ==
  /\ MoveConsumer("woken", "blocking")
  /\ MutexFree
  /\ producerQueue = <<>>
  /\ ~shouldExit

\* Faulty variant: the entry that leaves is still counted.
TakeUncounted ==
  /\ cpc = "take"
  /\ taken' = Append(taken, Head(consumerQueue))
  /\ consumerQueue' = Tail(consumerQueue)
  /\ cpc' = "idle"
  /\ UNCHANGED <<producerQueue, queueSize, shouldExit, producerVars, polled, spc>>

Take ==
  /\ cpc = "take"
  /\ queueSize' = queueSize - 1
  /\ taken' = Append(taken, Head(consumerQueue))
  /\ consumerQueue' = Tail(consumerQueue)
  /\ cpc' = "idle"
  /\ UNCHANGED <<producerQueue, shouldExit, producerVars, polled, spc>>

-----------------------------------------------------------------------------
(* shutdown, which takes no mutex *)

SetShouldExit ==
  /\ spc = "running"
  /\ shouldExit' = TRUE
  /\ spc' = "notify"
  /\ UNCHANGED <<producerQueue, consumerQueue, queueSize, producerVars, cpc, polled, taken>>

NotifyExit ==
  /\ spc = "notify"
  /\ spc' = "done"
  /\ NotifyOne
  /\ UNCHANGED <<producerQueue, consumerQueue, queueSize, shouldExit, producerVars, polled, taken>>

-----------------------------------------------------------------------------
Init ==
  /\ producerQueue = <<>>
  /\ consumerQueue = <<>>
  /\ queueSize = 0
  /\ shouldExit = FALSE
  /\ ppc = [p \in Producer |-> "outside"]
  /\ wasEmpty = FALSE
  /\ calls = [p \in Producer |-> 0]
  /\ cpc = "idle"
  /\ polled = FALSE
  /\ spc = "running"
  /\ taken = <<>>

Dequeue ==
  \/ UseConsumerQueue
  \/ SwapQueues("dequeue") \/ SwapQueues("woken")
  \/ FindStopped \/ FindEmpty \/ TestPredicate \/ Block
  \/ ResumeStopped \/ ResumeWaiting
  \/ Take

Next ==
  \/ \E p \in Producer : Admit(p) \/ Refuse(p) \/ Push(p) \/ Count(p)
  \/ CallDequeue \/ PollAndCallDequeue \/ Dequeue \/ WakeSpuriously
  \/ SetShouldExit \/ NotifyExit

Spec == Init /\ [][Next]_vars

\* Threads inside the queue run on, and the consumer keeps calling dequeue.
\* Nothing makes a producer call enqueue or an administrator shut down.
FairSpec ==
  /\ Spec
  /\ WF_vars(CallDequeue)
  /\ WF_vars(Dequeue)
  /\ \A p \in Producer : WF_vars(Push(p)) /\ WF_vars(Count(p))
  /\ WF_vars(NotifyExit)

-----------------------------------------------------------------------------
\* The entries of both buffers, in the order they leave.
Items == consumerQueue \o producerQueue

Abstract == INSTANCE MpscQueue WITH
  items    <- Items,
  stopped  <- shouldExit,
  admitted <- {p \in Producer : ppc[p] = "admitted"},
  finished <- cpc = "stopped"

\* The double buffer is a first-in first-out queue: the swap, the wake-ups and a
\* shutdown at any point neither reorder, lose nor repeat an entry, and dequeue
\* throws QueueStoppedException only when nothing is left in either buffer.
ImplementsMpscQueue == Abstract!Spec

\* A consumer that saw empty() return false is never blocked in dequeue: the raft
\* loop and the batching loop poll their queues this way because they have other
\* work to do.
PolledNeverBlocks == polled => cpc \notin {"testing", "blocking", "waiting", "woken", "stopped"}

InQueue(i) == \E k \in 1..Len(Items) : Items[k] = i
Taken(i) == \E k \in 1..Len(taken) : taken[k] = i

\* Entries already in the queue are all consumed: what enqueue has put into the queue
\* before it is shut down leaves it, although the consumer is notified only of an
\* entry that finds the producer queue empty.
EntriesAreConsumed == \A i \in Item : (InQueue(i) /\ ~shouldExit) ~> Taken(i)

\* The interface says of dequeue that it throws QueueStoppedException "if queue has
\* been shut down": a consumer that is in dequeue when the queue is shut down gets out.
ShutdownReleasesConsumer == (shouldExit /\ cpc = "waiting") ~> (cpc # "waiting")

=============================================================================
