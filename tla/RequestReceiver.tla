--------------------------- MODULE RequestReceiver ---------------------------
(***************************************************************************)
(* The request receiver of the ledger application:                         *)
(* app_ledger/should_be_generated/app/RequestReceiver.cpp and the CallData *)
(* objects of app/calldatas.  gRPC (external) keeps, for every CallData,   *)
(* at most one tag on its way to the completion queue.                     *)
(*                                                                         *)
(* A CallData listens for a request, is handed to the command that the     *)
(* request becomes as a raw pointer (RequestHandle), answers it, and       *)
(* deletes itself when its answer has left.  The model keeps, for every    *)
(* address that a CallData can have, what is there: addresses are used     *)
(* again.                                                                  *)
(***************************************************************************)
EXTENDS Integers, Sequences, FiniteSets, Functions

CONSTANTS
  Address,      \* bound: where CallData objects can be allocated
  Method,       \* the methods that startListen spawns a CallData for
  NoAddress     \* a command that nobody waits for, and an idle receiver

ASSUME AddressAssumption ==
  /\ IsFiniteSet(Address)
  /\ NoAddress \notin Address
  /\ \E f \in [Method -> Address] : IsInjective(f)

VARIABLES
  calls,        \* what is at each address
  receiver,     \* the server and its flags, and the thread in handleRpcs
  commandQueue, \* mCommandQueue, module MpscDoubleBufferQueue
  inFlight      \* the handles of commands between the queue and their answer

receiverVars == <<calls, receiver, commandQueue, inFlight>>

Free == [at |-> "free", method |-> NoAddress]

\* at       listening : registered with the server; its tag comes with a request
\*          refused   : its tag is in the queue, not ok
\*          arrived   : its tag is in the queue, with a request
\*          commanded : its handle is with a command
\*          answering : Finish has been called
\*          answered, cutOff : the tag of Finish is in the queue, ok or not
\*          leaked    : nobody will look at it again
ReceiverInit ==
  /\ calls = [a \in Address |-> Free]
  /\ receiver = [server |-> "none", isShutdown |-> FALSE, thread |-> "none", at |-> NoAddress]
  /\ commandQueue = [items |-> <<>>, stopped |-> FALSE]
  /\ inFlight = {}

-----------------------------------------------------------------------------
(* CallData *)

\* new CallData: its constructor calls proceed, which registers it.  A server that shuts
\* down refuses it at once.
Spawned(table, a, method) ==
  [table EXCEPT ![a] = [at |-> IF receiver.server = "up" THEN "listening" ELSE "refused",
                        method |-> method]]

Deleted(table, a) == [table EXCEPT ![a] = Free]

\* fillResultAndReply
FillResultAndReply(table, a) == [table EXCEPT ![a].at = "answering"]

\* Addresses are interchangeable, so an allocation may take any one that is free.
FreeAddresses == {a \in Address : calls[a] = Free}
FreeAddress == CHOOSE a \in FreeAddresses : TRUE

\* Bound: the tags on their way still find an address for the CallData they spawn.
HasRoom == Cardinality(FreeAddresses)
             > Cardinality({a \in Address : calls[a].at \in {"arrived", "cutOff"}})

\* The thread is between two calls of Next.
AtNext == receiver.thread = "running" /\ receiver.at = NoAddress

\* Mutant of Process: the next CallData is spawned once the request is accepted.
ProcessWithLateSpawn(a, valid) ==
  LET b == FreeAddress IN
    /\ calls' = IF valid /\ ~commandQueue.stopped
                THEN [Spawned(calls, b, calls[a].method) EXCEPT ![a].at = "commanded"]
                ELSE FillResultAndReply(calls, a)
    /\ receiver' = IF valid /\ ~commandQueue.stopped THEN [receiver EXCEPT !.at = a]
                   ELSE receiver

\* Mutant of Process: the return after BAD_REQUEST is missing.
ProcessWithoutReturn(a, valid) ==
  LET b == FreeAddress IN
    /\ calls' = IF valid /\ ~commandQueue.stopped
                THEN [Spawned(calls, b, calls[a].method) EXCEPT ![a].at = "commanded"]
                ELSE FillResultAndReply(Spawned(calls, b, calls[a].method), a)
    /\ receiver' = IF ~commandQueue.stopped THEN [receiver EXCEPT !.at = a] ELSE receiver

\* proceed with a request: a CallData is spawned for the next client, and the request
\* becomes a command.  One that verifyCommand refuses is answered BAD_REQUEST, and one
\* that finds the queue stopped SERVICE_UNAVAILABLE; enqueue has only looked at the flag.
Process(a, valid) ==
  LET b == FreeAddress IN
    /\ calls' = IF valid /\ ~commandQueue.stopped
                THEN [Spawned(calls, b, calls[a].method) EXCEPT ![a].at = "commanded"]
                ELSE FillResultAndReply(Spawned(calls, b, calls[a].method), a)
    /\ receiver' = IF valid /\ ~commandQueue.stopped THEN [receiver EXCEPT !.at = a]
                   ELSE receiver

\* proceed on the tag of a request, of either method
Proceed(a, method) ==
  /\ AtNext
  /\ calls[a] = [at |-> "arrived", method |-> method]
  /\ \E valid \in BOOLEAN : Process(a, valid)
  /\ UNCHANGED <<commandQueue, inFlight>>

ProceedCreateAccount(a) == Proceed(a, "CreateAccount")
ProceedConfigureAccountMetadata(a) == Proceed(a, "ConfigureAccountMetadata")

\* enqueue, past its test of the flag
Enqueue ==
  /\ receiver.thread = "running"
  /\ receiver.at # NoAddress
  /\ commandQueue' = [commandQueue EXCEPT !.items = Append(@, receiver.at)]
  /\ receiver' = [receiver EXCEPT !.at = NoAddress]
  /\ UNCHANGED <<calls, inFlight>>

\* proceed on the tag of Finish
ProceedFinished(a) ==
  /\ AtNext
  /\ calls[a].at = "answered"
  /\ calls' = Deleted(calls, a)
  /\ UNCHANGED <<receiver, commandQueue, inFlight>>

\* A tag that is not ok.  While the server runs that is an answer that the client did not
\* wait for, and failOver spawns one more CallData.
FailOver(a) ==
  /\ AtNext
  /\ calls[a].at \in {"refused", "cutOff"}
  /\ IF receiver.isShutdown
     THEN calls' = [calls EXCEPT ![a].at = "leaked"]
     ELSE calls' = Deleted(Spawned(calls, FreeAddress, calls[a].method), a)
  /\ UNCHANGED <<receiver, commandQueue, inFlight>>

-----------------------------------------------------------------------------
(* gRPC *)

\* A client calls.
Arrive(a) ==
  /\ receiver.server = "up"
  /\ calls[a].at = "listening"
  /\ HasRoom
  /\ calls' = [calls EXCEPT ![a].at = "arrived"]
  /\ UNCHANGED <<receiver, commandQueue, inFlight>>

\* Finish comes to its end, ok unless the client has gone.
Finish(a) ==
  /\ calls[a].at = "answering"
  /\ \E at \in {"answered"} \cup {x \in {"cutOff"} : HasRoom} :
       calls' = [calls EXCEPT ![a].at = at]
  /\ UNCHANGED <<receiver, commandQueue, inFlight>>

-----------------------------------------------------------------------------
(* start and stop *)

\* startListen builds the server ...
BuildAndStart ==
  /\ ~receiver.isShutdown
  /\ receiver.server = "none"
  /\ receiver' = [receiver EXCEPT !.server = "up"]
  /\ UNCHANGED <<calls, commandQueue, inFlight>>

\* ... and spawns one CallData for each method.
PreSpawn ==
  /\ receiver.server \in {"up", "shutdown"}
  /\ LET place == CHOOSE f \in [Method -> Address] : IsInjective(f)
     IN calls' = [a \in Address |->
                    IF a \in Range(place)
                    THEN Spawned(calls, a, CHOOSE m \in Method : place[m] = a)[a]
                    ELSE Free]
  /\ UNCHANGED <<receiver, commandQueue, inFlight>>

StartReceiver ==
  /\ receiver.thread = "none"
  /\ receiver' = [receiver EXCEPT !.thread = "running"]
  /\ UNCHANGED <<calls, commandQueue, inFlight>>

\* mIsShutdown is set, and Server::Shutdown refuses whoever listens.
BeginStop ==
  /\ receiver.server = "up"
  /\ receiver' = [receiver EXCEPT !.isShutdown = TRUE, !.server = "shutdown"]
  /\ calls' = [a \in Address |-> IF calls[a].at = "listening"
                                 THEN [calls[a] EXCEPT !.at = "refused"] ELSE calls[a]]
  /\ UNCHANGED <<commandQueue, inFlight>>

\* Server::Shutdown returns when no call is left, and the completion queue is shut down.
CallsAreOver == \A a \in Address : calls[a].at \notin {"arrived", "commanded", "answering"}

ShutdownCompletionQueue ==
  /\ receiver.server = "shutdown"
  /\ CallsAreOver
  /\ receiver' = [receiver EXCEPT !.server = "drained"]
  /\ UNCHANGED <<calls, commandQueue, inFlight>>

\* The loop of stop takes the tags that the thread has not taken, and drops them.
Drain(a) ==
  /\ receiver.server = "drained"
  /\ calls[a].at \in {"refused", "answered", "cutOff"}
  /\ calls' = [calls EXCEPT ![a].at = "leaked"]
  /\ UNCHANGED <<receiver, commandQueue, inFlight>>

NoTagLeft == \A a \in Address : calls[a].at \notin {"refused", "answered", "cutOff"}

\* Next returns false.
EndReceiver ==
  /\ AtNext
  /\ receiver.server = "drained"
  /\ NoTagLeft
  /\ receiver' = [receiver EXCEPT !.thread = "ended"]
  /\ UNCHANGED <<calls, commandQueue, inFlight>>

\* handleRpcs
HandleTag(a) ==
  \/ ProceedCreateAccount(a)
  \/ ProceedConfigureAccountMetadata(a)
  \/ ProceedFinished(a)
  \/ FailOver(a)
=============================================================================
