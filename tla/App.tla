-------------------------------- MODULE App --------------------------------
(***************************************************************************)
(* The process of the ledger application:                                  *)
(* app_ledger/should_be_generated/app/App.cpp starts the request receiver  *)
(* of module RequestReceiver, the server for administrators, the loops,    *)
(* and a benchmark that sends commands of its own, and joins them.         *)
(* App::shutdown is called by a thread of its own, at any time.            *)
(*                                                                         *)
(* What happens to a command between the loop that processes it and its    *)
(* answer is module CommandPipeline; here its answer comes eventually.     *)
(* The store has no thread of its own and nothing to shut down:            *)
(* RaftCommandEventStore::run and shutdown are empty.                      *)
(***************************************************************************)
EXTENDS RequestReceiver

CONSTANT Configs    \* the configuration files that the process may be started with

VARIABLES
  config,           \* the one it is started with
  main,             \* where the thread of App::App and App::run is
  threads,          \* the threads that run() starts and joins
  netAdmin,         \* NetAdminServer: mServer and mIsShutdown
  benchmark,        \* cnt, and whether the thread is between the two halves of enqueue
  exits,            \* mShouldExit of the two loops
  stopper           \* where the thread that calls App::shutdown is

appVars == <<config, main, threads, netAdmin, benchmark, exits, stopper>>
vars == <<receiverVars, appVars>>

Thread == {"netAdmin", "persist", "eal", "cpl", "benchmark"}

AppInit ==
  /\ ReceiverInit
  /\ config \in Configs
  /\ main = "construct"
  /\ threads = [t \in Thread |-> "none"]
  /\ netAdmin = [server |-> FALSE, isShutdown |-> FALSE]
  /\ benchmark = [cnt |-> 0, admitted |-> FALSE]
  /\ exits = [cpl |-> FALSE, eal |-> FALSE]
  /\ stopper = "idle"

\* The process has ended: an assertion, a null pointer or an exception that nobody catches.
Aborted == main = "aborted"

-----------------------------------------------------------------------------
(* App::App *)

\* What the steps of the constructor assert.
InitDeploymentMode == config.mode = "distributed"
InitMonitor == config.monitorPort > 0
InitCommandEventStore == config.store = "raft" /\ InitDeploymentMode
InitBenchmark == config.benchmark => config.total > 0

Construct ==
  /\ main = "construct"
  /\ main' = IF InitDeploymentMode /\ InitMonitor /\ InitCommandEventStore /\ InitBenchmark
                /\ config.version = "v2"
             THEN "run" ELSE "aborted"
  /\ UNCHANGED <<receiverVars, config, threads, netAdmin, benchmark, exits, stopper>>

-----------------------------------------------------------------------------
(* App::run *)

MainMoves(from, to) ==
  /\ main = from
  /\ main' = to

\* if (mIsShutdown): an application that has been shut down does not run.
CheckRun ==
  /\ MainMoves("run", IF stopper = "idle" THEN "startListen" ELSE "returned")
  /\ UNCHANGED <<receiverVars, config, threads, netAdmin, benchmark, exits, stopper>>

StartRequestReceiver ==
  /\ \/ MainMoves("startListen", "preSpawn") /\ BuildAndStart
     \/ MainMoves("preSpawn", "startReceiving") /\ PreSpawn
     \/ MainMoves("startReceiving", "startNetAdmin") /\ StartReceiver
  /\ UNCHANGED <<config, threads, netAdmin, benchmark, exits, stopper>>

\* A CallData needs a completion queue that has not been shut down.
PreSpawnTooLate ==
  /\ receiver.server = "drained"
  /\ MainMoves("preSpawn", "aborted")
  /\ UNCHANGED <<receiverVars, config, threads, netAdmin, benchmark, exits, stopper>>

StartThread(t, from, to) ==
  /\ MainMoves(from, to)
  /\ threads' = [threads EXCEPT ![t] = "running"]
  /\ UNCHANGED <<receiverVars, config, netAdmin, benchmark, exits, stopper>>

StartNetAdminServer == StartThread("netAdmin", "startNetAdmin", "startPersist")
StartPersistLoop == StartThread("persist", "startPersist", "startEal")
StartEventApplyLoop == StartThread("eal", "startEal", "startCpl")
StartProcessCommandLoop ==
  StartThread("cpl", "startCpl", IF config.benchmark THEN "startBenchmark" ELSE "joinCpl")
StartBenchmark == StartThread("benchmark", "startBenchmark", "joinBenchmark")

JoinThread(t, from, to) ==
  /\ threads[t] = "ended"
  /\ MainMoves(from, to)
  /\ UNCHANGED <<receiverVars, config, threads, netAdmin, benchmark, exits, stopper>>

\* mServerThread has never been started: to join it throws.
JoinServerThread ==
  /\ MainMoves("joinServer", "aborted")
  /\ UNCHANGED <<receiverVars, config, threads, netAdmin, benchmark, exits, stopper>>

Run ==
  \/ CheckRun
  \/ StartRequestReceiver
  \/ PreSpawnTooLate
  \/ StartNetAdminServer
  \/ StartPersistLoop
  \/ StartEventApplyLoop
  \/ StartProcessCommandLoop
  \/ StartBenchmark
  \/ JoinThread("benchmark", "joinBenchmark", "joinCpl")
  \/ JoinThread("cpl", "joinCpl", "joinEal")
  \/ JoinThread("eal", "joinEal", "joinPersist")
  \/ JoinThread("persist", "joinPersist", "joinNetAdmin")
  \/ JoinThread("netAdmin", "joinNetAdmin", "joinServer")
  \/ JoinServerThread

-----------------------------------------------------------------------------
(* The threads *)

ThreadEnds(t) == threads' = [threads EXCEPT ![t] = "ended"]

\* NetAdminServer::run builds the server and returns.
RunNetAdmin ==
  /\ threads["netAdmin"] = "running"
  /\ netAdmin' = [netAdmin EXCEPT !.server = ~netAdmin.isShutdown]
  /\ ThreadEnds("netAdmin")
  /\ UNCHANGED <<receiverVars, config, main, benchmark, exits, stopper>>

RunPersist ==
  /\ threads["persist"] = "running"
  /\ ThreadEnds("persist")
  /\ UNCHANGED <<receiverVars, config, main, netAdmin, benchmark, exits, stopper>>

RunEventApplyLoop ==
  /\ threads["eal"] = "running"
  /\ exits.eal
  /\ ThreadEnds("eal")
  /\ UNCHANGED <<receiverVars, config, main, netAdmin, benchmark, exits, stopper>>

\* The command process loop tests mShouldExit before it waits for the next command.
TestShouldExit ==
  /\ threads["cpl"] = "running"
  /\ threads' = [threads EXCEPT !["cpl"] = IF exits.cpl THEN "ended" ELSE "dequeue"]
  /\ UNCHANGED <<receiverVars, config, main, netAdmin, benchmark, exits, stopper>>

\* It takes a command and processes it; its answer is on its way.
RunDistributed ==
  /\ threads["cpl"] = "dequeue"
  /\ commandQueue.items # <<>>
  /\ commandQueue' = [commandQueue EXCEPT !.items = Tail(@)]
  /\ inFlight' = inFlight \cup ({Head(commandQueue.items)} \ {NoAddress})
  /\ threads' = [threads EXCEPT !["cpl"] = "running"]
  /\ UNCHANGED <<calls, receiver, config, main, netAdmin, benchmark, exits, stopper>>

\* QueueStoppedException, when nothing is left in a stopped queue
DequeueStopped ==
  /\ threads["cpl"] = "dequeue"
  /\ commandQueue = [items |-> <<>>, stopped |-> TRUE]
  /\ exits' = [exits EXCEPT !.cpl = TRUE]
  /\ threads' = [threads EXCEPT !["cpl"] = "running"]
  /\ UNCHANGED <<receiverVars, config, main, netAdmin, benchmark, stopper>>

\* A thread of the reply loop answers: fillResultAndReply through the handle.
Reply(a) ==
  /\ a \in inFlight
  /\ inFlight' = inFlight \ {a}
  /\ calls' = FillResultAndReply(calls, a)
  /\ UNCHANGED <<receiver, commandQueue, appVars>>

\* The benchmark counts, and enqueues unless the queue has been stopped: then it goes on
\* counting.  It waits while this node is not the leader.  cnt is capped past the total.
BenchmarkCounts ==
  /\ threads["benchmark"] = "running"
  /\ ~benchmark.admitted
  /\ benchmark' = [cnt |-> IF benchmark.cnt > config.total THEN benchmark.cnt
                           ELSE benchmark.cnt + 1,
                   admitted |-> ~commandQueue.stopped]
  /\ UNCHANGED <<receiverVars, config, main, threads, netAdmin, exits, stopper>>

BenchmarkEnqueues ==
  /\ threads["benchmark"] = "running"
  /\ benchmark.admitted
  /\ commandQueue' = [commandQueue EXCEPT !.items = Append(@, NoAddress)]
  /\ benchmark' = [benchmark EXCEPT !.admitted = FALSE]
  /\ IF benchmark.cnt = config.total THEN ThreadEnds("benchmark") ELSE UNCHANGED threads
  /\ UNCHANGED <<calls, receiver, inFlight, config, main, netAdmin, exits, stopper>>

-----------------------------------------------------------------------------
(* App::shutdown *)

StopperMoves(from, to) ==
  /\ stopper = from
  /\ stopper' = to

ShutdownQueue ==
  /\ main # "construct"
  /\ StopperMoves("idle", "receiver")
  /\ commandQueue' = [commandQueue EXCEPT !.stopped = TRUE]
  /\ UNCHANGED <<calls, receiver, inFlight, config, main, threads, netAdmin, benchmark, exits>>

\* mRequestReceiver->stop(), which has no server to shut down before startListen, and no
\* thread to join before start has emplaced it
StopReceiver ==
  \/ /\ BeginStop
     /\ StopperMoves("receiver", "serverShutdown")
     /\ UNCHANGED <<config, main, threads, netAdmin, benchmark, exits>>
  \/ /\ receiver.server = "none"
     /\ StopperMoves("receiver", "receiver")
     /\ main' = "aborted"
     /\ UNCHANGED <<receiverVars, config, threads, netAdmin, benchmark, exits>>
  \/ /\ ShutdownCompletionQueue
     /\ StopperMoves("serverShutdown", "drain")
     /\ UNCHANGED <<config, main, threads, netAdmin, benchmark, exits>>
  \/ /\ stopper = "drain"
     /\ \E a \in Address : Drain(a)
     /\ UNCHANGED appVars
  \/ /\ NoTagLeft
     /\ receiver.thread = "none"
     /\ StopperMoves("drain", "drain")
     /\ main' = "aborted"
     /\ UNCHANGED <<receiverVars, config, threads, netAdmin, benchmark, exits>>
  \/ /\ NoTagLeft
     /\ receiver.thread = "ended"
     /\ StopperMoves("drain", "netAdmin")
     /\ UNCHANGED <<receiverVars, config, main, threads, netAdmin, benchmark, exits>>

\* mNetAdminServer->shutdown(), which has no server before its thread has built it
ShutdownNetAdmin ==
  /\ StopperMoves("netAdmin", "loops")
  /\ netAdmin' = [netAdmin EXCEPT !.isShutdown = TRUE]
  /\ main' = IF netAdmin.server THEN main ELSE "aborted"
  /\ UNCHANGED <<receiverVars, config, threads, benchmark, exits>>

ShutdownLoops ==
  /\ StopperMoves("loops", "done")
  /\ exits' = [cpl |-> TRUE, eal |-> TRUE]
  /\ UNCHANGED <<receiverVars, config, main, threads, netAdmin, benchmark>>

Shutdown == ShutdownQueue \/ StopReceiver \/ ShutdownNetAdmin \/ ShutdownLoops

-----------------------------------------------------------------------------
HandleRpcs ==
  /\ \/ \E a \in Address : HandleTag(a)
     \/ Enqueue
     \/ EndReceiver
  /\ UNCHANGED appVars

Grpc == (\E a \in Address : Arrive(a) \/ Finish(a)) /\ UNCHANGED appVars

Next ==
  /\ ~Aborted
  /\ \/ Construct
     \/ Run
     \/ RunNetAdmin
     \/ RunPersist
     \/ RunEventApplyLoop
     \/ TestShouldExit
     \/ RunDistributed
     \/ DequeueStopped
     \/ \E a \in Address : Reply(a)
     \/ BenchmarkCounts
     \/ BenchmarkEnqueues
     \/ Shutdown
     \/ HandleRpcs
     \/ Grpc

Spec == AppInit /\ [][Next]_vars

-----------------------------------------------------------------------------
(* Properties *)

(***************************************************************************)
(* Command keeps its RequestHandle as a raw pointer.  Whatever clients and *)
(* App::shutdown do, a command on its way holds the only handle to a       *)
(* CallData that is alive and waits for just this answer.                  *)
(***************************************************************************)
HandlesAreAlive ==
  LET held == inFlight \cup (Range(commandQueue.items) \ {NoAddress})
                \cup ({receiver.at} \ {NoAddress})
  IN /\ \A a \in Address : calls[a].at = "commanded" <=> a \in held
     /\ \A i, j \in 1 .. Len(commandQueue.items) :
          commandQueue.items[i] = commandQueue.items[j] =>
            i = j \/ commandQueue.items[i] = NoAddress
     /\ \A i \in 1 .. Len(commandQueue.items) :
          commandQueue.items[i] \notin inFlight \cup ({receiver.at} \ {NoAddress})

(***************************************************************************)
(* While the receiver is not stopped, every method has a CallData that     *)
(* listens or one whose tag will spawn the next: clients that send what is *)
(* refused, or leave before their answer, cannot make the server deaf.     *)
(***************************************************************************)
EveryMethodIsServed ==
  receiver.server = "up" /\ receiver.thread # "none" =>
    \A m \in Method : \E a \in Address : calls[a].method = m
                                         /\ calls[a].at \in {"listening", "arrived"}
=============================================================================
