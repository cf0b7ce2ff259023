---------------------------- MODULE RaftTransport ----------------------------
(***************************************************************************)
(* How a node of the raft cluster reaches one of its peers:                *)
(* infra/raft/v2/RaftService.h and RaftService.cpp, with the parts of      *)
(* RaftCore.cpp that decide when the next request may leave.               *)
(*                                                                         *)
(* The node keeps a switch for the peer (mNextRequestTimeInNano): off once *)
(* a request has left, on again when its response, or its failure, has     *)
(* come back through RaftClient and the event queue.  RaftServer at the    *)
(* peer keeps CallData objects that listen, one request each.              *)
(*                                                                         *)
(* Module RaftCore says what the messages do; here they are only told      *)
(* apart by their kind, and roles change as RaftCore lets them.            *)
(***************************************************************************)
EXTENDS Integers, Sequences, FiniteSets, Functions

CONSTANTS
  Call,           \* bound: the requests that may be on their way at one time
  HostAddress,    \* what the host name of the peer may resolve to
  MaxFaults,      \* bound: on restarts of the peer, and on requests that time out
  MaxElections    \* bound: on election timeouts of the node

ASSUME TransportAssumption ==
  IsFiniteSet(Call) /\ HostAddress # {} /\ MaxFaults \in Nat /\ MaxElections \in Nat

VARIABLES
  role,           \* mRaftRole of the node
  peer,           \* the fields of Peer that are about requests
  channel,        \* mResolvedPeerAddress: where mStub leads
  clientCalls,    \* AsyncClientCall objects
  events,         \* the responses in mAeRvQueue of the node
  host,           \* the peer: where it is, and its server
  listening,      \* how many CallData listen at the peer, for each kind
  served,         \* the CallData that holds a request, by request
  requests,       \* the requests in mAeRvQueue of the peer
  bounds          \* how often faults and elections have happened

nodeVars == <<role, peer, channel, clientCalls, events>>
peerVars == <<host, listening, served, requests>>
vars == <<nodeVars, peerVars, bounds>>

Kind == {"AE", "RV"}
NotServed == [at |-> "none", kind |-> "AE"]
NoCall == [at |-> "none", kind |-> "AE", address |-> CHOOSE a \in HostAddress : TRUE]

\* clientCalls[c].at  sent             : Finish has been called
\*                    answered, failed : its tag is in the completion queue
\*                    event            : its event is in the queue, ok or not
\* served[c].at       arrived          : its tag is in the completion queue of the server
\*                    queued           : its event is in the queue of the peer
\*                    ok, error        : reply has been called, with this status
\*                    finished, cutOff : the tag of Finish is in the completion queue
TypeOK ==
  /\ role \in {"Follower", "Candidate", "Leader"}
  /\ peer \in [switch : {"on", "off"}, suppress : BOOLEAN, voteDone : BOOLEAN]
  /\ channel \in HostAddress
  /\ clientCalls \in [Call -> [at : {"none", "sent", "answered", "failed", "event"},
                               kind : Kind, address : HostAddress]]
  /\ events \in Seq([call : Call, ok : BOOLEAN])
  /\ host \in [address : HostAddress, server : {"down", "built", "up"}]
  /\ listening \in [Kind -> Nat]
  /\ served \in [Call -> [at : {"none", "arrived", "queued", "ok", "error", "finished",
                                "cutOff"}, kind : Kind]]
  /\ requests \in Seq(Call)
  /\ bounds \in [faults : 0 .. MaxFaults, elections : 0 .. MaxElections]

\* initService: the server of the peer is built, and the client resolves its address.
Init ==
  /\ role = "Follower"
  /\ peer = [switch |-> "on", suppress |-> TRUE, voteDone |-> FALSE]
  /\ host \in [address : HostAddress, server : {"built"}]
  /\ channel = host.address
  /\ clientCalls = [c \in Call |-> NoCall]
  /\ events = <<>>
  /\ listening = [k \in Kind |-> 0]
  /\ served = [c \in Call |-> NotServed]
  /\ requests = <<>>
  /\ bounds = [faults |-> 0, elections |-> 0]

-----------------------------------------------------------------------------
(* The node: its raft loop *)

\* RaftClient sends a request on the channel it has, with a deadline.
Unused(c) == clientCalls[c] = NoCall /\ served[c] = NotServed
Sent(c, kind) ==
  clientCalls' = [clientCalls EXCEPT ![c] = [at |-> "sent", kind |-> kind, address |-> channel]]

RequestVote(c) ==
  /\ role = "Candidate"
  /\ ~peer.voteDone
  /\ peer.switch = "on"
  /\ Unused(c)
  /\ Sent(c, "RV")
  /\ peer' = [peer EXCEPT !.switch = "off"]
  /\ UNCHANGED <<role, channel, events, peerVars, bounds>>

AppendEntries(c) ==
  /\ role = "Leader"
  /\ peer.switch = "on"
  /\ Unused(c)
  /\ Sent(c, "AE")
  /\ peer' = [peer EXCEPT !.switch = "off"]
  /\ UNCHANGED <<role, channel, events, peerVars, bounds>>

\* Mutant of TurnedOn: only a response turns the switch on, as it updates the timers.
TurnedOnByResponse(ok) == IF ok THEN "on" ELSE peer.switch

\* receiveMessage turns the switch on whatever has become of the request.
TurnedOn(ok) == "on"

\* handleAppendEntriesResponse: what RaftCore makes of a response depends on its terms.
HandleAppendEntriesResponse(ok) ==
  IF ok
  THEN \/ /\ \E suppress \in {FALSE, peer.suppress} :
               peer' = [peer EXCEPT !.switch = TurnedOn(ok), !.suppress = suppress]
          /\ UNCHANGED role
       \/ /\ peer' = [peer EXCEPT !.switch = TurnedOn(ok)]
          /\ role' = "Follower"
  ELSE /\ peer' = [peer EXCEPT !.switch = TurnedOn(ok), !.suppress = TRUE]
       /\ UNCHANGED role

HandleRequestVoteResponse(ok) ==
  IF ok
  THEN \/ /\ \E done \in {TRUE, peer.voteDone} :
               peer' = [peer EXCEPT !.switch = TurnedOn(ok), !.voteDone = done]
          /\ UNCHANGED role
       \/ /\ peer' = [peer EXCEPT !.switch = TurnedOn(ok)]
          /\ role' = "Follower"
  ELSE /\ peer' = [peer EXCEPT !.switch = TurnedOn(ok)]
       /\ UNCHANGED role

ReceiveMessage ==
  /\ events # <<>>
  /\ LET e == Head(events)
     IN /\ IF clientCalls[e.call].kind = "AE" THEN HandleAppendEntriesResponse(e.ok)
           ELSE HandleRequestVoteResponse(e.ok)
        /\ clientCalls' = [clientCalls EXCEPT ![e.call] = NoCall]
  /\ events' = Tail(events)
  /\ UNCHANGED <<channel, peerVars, bounds>>

ElectionTimeout ==
  /\ role # "Leader"
  /\ bounds.elections < MaxElections
  /\ role' = "Candidate"
  /\ peer' = [peer EXCEPT !.switch = "on", !.voteDone = FALSE]
  /\ bounds' = [bounds EXCEPT !.elections = @ + 1]
  /\ UNCHANGED <<channel, clientCalls, events, peerVars>>

BecomeLeader ==
  /\ role = "Candidate"
  /\ role' = "Leader"
  /\ peer' = [peer EXCEPT !.switch = "on", !.suppress = TRUE]
  /\ UNCHANGED <<channel, clientCalls, events, peerVars, bounds>>

\* A request of another node, or leadershipTimeout.
StepDown ==
  /\ role # "Follower"
  /\ role' = "Follower"
  /\ UNCHANGED <<peer, channel, clientCalls, events, peerVars, bounds>>

-----------------------------------------------------------------------------
(* The node: RaftClient *)

\* Mutant of RefressChannel: the address is resolved in the constructor alone.
RefressChannelNever == channel

RefressChannel == host.address

ClientLoopMain(c) ==
  /\ clientCalls[c].at \in {"answered", "failed"}
  /\ channel' = IF clientCalls[c].at = "failed" THEN RefressChannel ELSE channel
  /\ events' = Append(events, [call |-> c, ok |-> clientCalls[c].at = "answered"])
  /\ clientCalls' = [clientCalls EXCEPT ![c].at = "event"]
  /\ UNCHANGED <<role, peer, peerVars, bounds>>

-----------------------------------------------------------------------------
(* gRPC, and the network *)

Reaches(c) == host.server # "down" /\ clientCalls[c].address = host.address

Arrive(c) ==
  /\ clientCalls[c].at = "sent"
  /\ Reaches(c)
  /\ served[c] = NotServed
  /\ listening[clientCalls[c].kind] > 0
  /\ listening' = [listening EXCEPT ![clientCalls[c].kind] = @ - 1]
  /\ served' = [served EXCEPT ![c] = [at |-> "arrived", kind |-> clientCalls[c].kind]]
  /\ UNCHANGED <<nodeVars, host, requests, bounds>>

\* The deadline of a request passes: sooner or later when it cannot reach the peer, and
\* now and then when it can.
Deadline(c) ==
  /\ clientCalls[c].at = "sent"
  /\ clientCalls' = [clientCalls EXCEPT ![c].at = "failed"]
  /\ IF Reaches(c)
     THEN /\ bounds.faults < MaxFaults
          /\ bounds' = [bounds EXCEPT !.faults = @ + 1]
     ELSE UNCHANGED bounds
  /\ UNCHANGED <<role, peer, channel, events, peerVars>>

\* Finish: the response leaves, or finds nobody who waits for it.
Finish(c) ==
  /\ served[c].at \in {"ok", "error"}
  /\ IF clientCalls[c].at = "sent"
     THEN /\ served' = [served EXCEPT ![c].at = "finished"]
          /\ clientCalls' = [clientCalls EXCEPT
               ![c].at = IF served[c].at = "ok" THEN "answered" ELSE "failed"]
     ELSE /\ \E at \in {"finished", "cutOff"} : served' = [served EXCEPT ![c].at = at]
          /\ UNCHANGED clientCalls
  /\ UNCHANGED <<role, peer, channel, events, host, listening, requests, bounds>>

\* The peer goes down with all that it holds, and comes back, perhaps elsewhere.
PeerGoesDown ==
  /\ host.server # "down"
  /\ bounds.faults < MaxFaults
  /\ bounds' = [bounds EXCEPT !.faults = @ + 1]
  /\ \E a \in HostAddress : host' = [address |-> a, server |-> "down"]
  /\ listening' = [k \in Kind |-> 0]
  /\ served' = [c \in Call |-> NotServed]
  /\ requests' = <<>>
  /\ clientCalls' = [c \in Call |->
       IF clientCalls[c].at = "sent" /\ served[c] # NotServed
       THEN [clientCalls[c] EXCEPT !.at = "failed"] ELSE clientCalls[c]]
  /\ UNCHANGED <<role, peer, channel, events>>

-----------------------------------------------------------------------------
(* The peer: RaftServer and its raft loop *)

StartServer ==
  /\ host.server = "down"
  /\ host' = [host EXCEPT !.server = "built"]
  /\ UNCHANGED <<nodeVars, listening, served, requests, bounds>>

\* serverLoopMain spawns one CallData of each kind.
SpawnCallData ==
  /\ host.server = "built"
  /\ host' = [host EXCEPT !.server = "up"]
  /\ listening' = [k \in Kind |-> 1]
  /\ UNCHANGED <<nodeVars, served, requests, bounds>>

\* Mutant of Spawned: no CallData is spawned in the place of the one that proceeds.
NotSpawned(kind) == listening

\* new CallData: its constructor calls proceed, which registers it.
Spawned(kind) == [listening EXCEPT ![kind] = @ + 1]

\* proceed, on the tag of a request
Proceed(c, kind) ==
  /\ host.server = "up"
  /\ served[c] = [at |-> "arrived", kind |-> kind]
  /\ listening' = Spawned(kind)
  /\ served' = [served EXCEPT ![c].at = "queued"]
  /\ requests' = Append(requests, c)
  /\ UNCHANGED <<nodeVars, host, bounds>>

ProceedAppendEntries(c) == Proceed(c, "AE")
ProceedRequestVote(c) == Proceed(c, "RV")

\* proceed, on the tag of Finish
ProceedFinished(c) ==
  /\ served[c].at = "finished"
  /\ served' = [served EXCEPT ![c] = NotServed]
  /\ UNCHANGED <<nodeVars, host, listening, requests, bounds>>

\* A tag that is not ok: one more CallData is spawned.
FailOver(c) ==
  /\ served[c].at = "cutOff"
  /\ served' = [served EXCEPT ![c] = NotServed]
  /\ listening' = Spawned(served[c].kind)
  /\ UNCHANGED <<nodeVars, host, requests, bounds>>

\* The raft loop of the peer handles a request, and replies with the status it returns:
\* an error while it is a Syncer.
HandleRequest ==
  /\ requests # <<>>
  /\ \/ /\ served' = [served EXCEPT ![Head(requests)].at = "ok"]
        /\ UNCHANGED bounds
     \/ /\ bounds.faults < MaxFaults
        /\ served' = [served EXCEPT ![Head(requests)].at = "error"]
        /\ bounds' = [bounds EXCEPT !.faults = @ + 1]
  /\ requests' = Tail(requests)
  /\ UNCHANGED <<nodeVars, host, listening>>

-----------------------------------------------------------------------------
CallStep(c) ==
  \/ RequestVote(c)
  \/ AppendEntries(c)
  \/ ClientLoopMain(c)
  \/ Arrive(c)
  \/ Deadline(c)
  \/ Finish(c)
  \/ ProceedAppendEntries(c)
  \/ ProceedRequestVote(c)
  \/ ProceedFinished(c)
  \/ FailOver(c)

Next ==
  \/ \E c \in Call : CallStep(c)
  \/ ReceiveMessage
  \/ ElectionTimeout
  \/ BecomeLeader
  \/ StepDown
  \/ PeerGoesDown
  \/ StartServer
  \/ SpawnCallData
  \/ HandleRequest

Spec == Init /\ [][Next]_vars

(***************************************************************************)
(* The loops of both nodes go on, gRPC delivers what reaches a server that *)
(* listens and fails the rest at their deadline, and a peer that has gone  *)
(* down is started again.                                                  *)
(***************************************************************************)
FairSpec ==
  /\ Spec
  /\ WF_vars(\E c \in Call : AppendEntries(c))
  /\ WF_vars(ReceiveMessage)
  /\ WF_vars(StartServer \/ SpawnCallData)
  /\ WF_vars(HandleRequest)
  /\ \A c \in Call : /\ WF_vars(ClientLoopMain(c) \/ (Deadline(c) /\ ~Reaches(c)))
                     /\ WF_vars(Arrive(c) \/ Finish(c) \/ ProceedAppendEntries(c)
                                \/ ProceedRequestVote(c) \/ ProceedFinished(c) \/ FailOver(c))

-----------------------------------------------------------------------------
(* Properties *)

(***************************************************************************)
(* A switch that is off is turned on by the end of the last request.  So   *)
(* whatever responses fail, come late or cross an election, a request is   *)
(* on its way while the switch is off, or the peer would never be sent     *)
(* anything again.                                                         *)
(***************************************************************************)
NoPeerIsMuted == peer.switch = "off" => \E c \in Call : clientCalls[c].at # "none"

(***************************************************************************)
(* The server of the peer never runs out of CallData: a request of each    *)
(* kind finds one that listens, or one whose tag spawns the next.  And the *)
(* pointers in the queue of the peer lead to CallData that wait for their  *)
(* reply, each of them once.                                               *)
(***************************************************************************)
PeerKeepsListening ==
  /\ host.server = "up" =>
       \A k \in Kind : listening[k] > 0
                       \/ \E c \in Call : served[c] = [at |-> "arrived", kind |-> k]
  /\ \A c \in Call : served[c].at = "queued" <=> c \in Range(requests)
  /\ IsInjective(requests)

(***************************************************************************)
(* A leader that stays leader hears from the peer again and again, though  *)
(* requests have timed out and the peer has been restarted at another      *)
(* address.                                                                *)
(***************************************************************************)
LeaderHearsPeer ==
  <>[](role = "Leader") => []<>(\E c \in Call : clientCalls[c].at = "answered")
=============================================================================
