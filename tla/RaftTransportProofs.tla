------------------------- MODULE RaftTransportProofs -------------------------
(***************************************************************************)
(* A peer is never muted and its server never runs out of CallData, for    *)
(* every number of requests on their way, of addresses, of faults and of   *)
(* elections.  The two properties and the types are inductive together:    *)
(* that a CallData is in the queue of the peer exactly while it waits for  *)
(* its reply is what keeps the raft loop of the peer away from one whose   *)
(* tag has still to spawn the next.                                        *)
(*                                                                         *)
(* The queue that carries the requests and the events, with its two        *)
(* buffers, implements the queue that MpscQueue.h promises, and a consumer *)
(* that has seen empty() return false is never blocked, for every set of   *)
(* producers and every number of calls.  QueueInv says who is inside the   *)
(* mutex, which buffers are empty where the consumer stands, and that      *)
(* mQueueSize lags the buffers by the one entry that its producer has      *)
(* pushed and not counted yet.                                             *)
(***************************************************************************)
EXTENDS RaftTransport, SequenceTheorems, TLAPS

\* A leaf that names no prover is tried with SMT, with Zenon, and again with SMT and ever more time.
USE SMT, Zenon, SMTT(10), SMTT(20), SMTT(30), SMTT(40), SMTT(60)

TransportInv == TypeOK /\ NoPeerIsMuted /\ PeerKeepsListening

CallRecord == [at : {"none", "sent", "answered", "failed", "event"}, kind : Kind, address : HostAddress]
ServedRecord == [at : {"none", "arrived", "queued", "ok", "error", "finished", "cutOff"}, kind : Kind]

-----------------------------------------------------------------------------
(* Sequences without repetition *)

\* An element that is not in a sequence may be appended to it.
LEMMA AppendNew ==
  ASSUME NEW S, NEW s \in Seq(S), NEW e \in S, IsInjective(s), e \notin Range(s)
  PROVE  /\ Append(s, e) \in Seq(S)
         /\ Range(Append(s, e)) = Range(s) \cup {e}
         /\ IsInjective(Append(s, e))
<1>1. /\ Append(s, e) \in Seq(S)
      /\ Len(Append(s, e)) = Len(s) + 1
      /\ \A i \in 1..Len(s) : Append(s, e)[i] = s[i]
      /\ Append(s, e)[Len(s) + 1] = e
  BY AppendProperties
<1>2. /\ DOMAIN s = 1..Len(s) /\ Len(s) \in Nat
      /\ DOMAIN Append(s, e) = 1..(Len(s) + 1)
  BY <1>1, LenProperties
<1>3. Range(Append(s, e)) = Range(s) \cup {e}
  BY <1>1, <1>2 DEF Range
<1>4. IsInjective(Append(s, e))
  BY <1>1, <1>2 DEF IsInjective, Range
<1> QED
  BY <1>1, <1>3, <1>4

\* The tail of a sequence without repetition is without its head.
LEMMA TailWithoutHead ==
  ASSUME NEW S, NEW s \in Seq(S), s # <<>>, IsInjective(s)
  PROVE  /\ Tail(s) \in Seq(S)
         /\ Head(s) \in S /\ Head(s) \in Range(s)
         /\ Range(Tail(s)) = Range(s) \ {Head(s)}
         /\ IsInjective(Tail(s))
<1>1. /\ Head(s) \in S /\ Head(s) = s[1]
      /\ Tail(s) \in Seq(S)
      /\ Len(Tail(s)) = Len(s) - 1
      /\ \A i \in 1..Len(Tail(s)) : Tail(s)[i] = s[i + 1]
  BY HeadTailProperties
<1>2. /\ DOMAIN s = 1..Len(s) /\ Len(s) \in Nat \ {0}
      /\ DOMAIN Tail(s) = 1..(Len(s) - 1)
  BY <1>1, LenProperties, EmptySeq
<1>3. Range(Tail(s)) = Range(s) \ {Head(s)}
  <2>1. ASSUME NEW x \in Range(Tail(s))
        PROVE  x \in Range(s) /\ x # Head(s)
    <3>1. PICK i \in 1..(Len(s) - 1) : x = s[i + 1]
      BY <1>1, <1>2 DEF Range
    <3> QED
      BY <1>1, <1>2, <3>1 DEF Range, IsInjective
  <2>2. ASSUME NEW x \in Range(s), x # Head(s)
        PROVE  x \in Range(Tail(s))
    <3>1. PICK i \in 1..Len(s) : x = s[i]
      BY <1>2 DEF Range
    <3>2. i - 1 \in 1..(Len(s) - 1) /\ Tail(s)[i - 1] = x
      BY <1>1, <1>2, <2>2, <3>1
    <3> QED
      BY <1>2, <3>2 DEF Range
  <2> QED
    BY <2>1, <2>2
<1>4. IsInjective(Tail(s))
  BY <1>1, <1>2 DEF IsInjective
<1>5. Head(s) \in Range(s)
  BY <1>1, <1>2 DEF Range
<1> QED
  BY <1>1, <1>3, <1>4, <1>5

-----------------------------------------------------------------------------
(* The node *)

\* Faults and elections are counted within their bounds.
LEMMA BoundsType ==
  ASSUME TypeOK,
         \/ UNCHANGED bounds
         \/ bounds.faults < MaxFaults /\ bounds' = [bounds EXCEPT !.faults = @ + 1]
         \/ bounds.elections < MaxElections /\ bounds' = [bounds EXCEPT !.elections = @ + 1]
  PROVE  bounds' \in [faults : 0 .. MaxFaults, elections : 0 .. MaxElections]
<1>1. bounds \in [faults : 0 .. MaxFaults, elections : 0 .. MaxElections]
  BY DEF TypeOK
<1> QED
  BY <1>1, TransportAssumption

\* The record of no request is one.
LEMMA NoCallType == NoCall \in CallRecord /\ NoCall.at = "none"
BY TransportAssumption DEF NoCall, CallRecord, Kind

\* A step that only adds requests, or moves them on, leaves one where one was.
LEMMA CallsMoveOn ==
  ASSUME NoPeerIsMuted, peer' = peer,
         \A c \in Call : clientCalls[c].at # "none" => clientCalls'[c].at # "none"
  PROVE  NoPeerIsMuted'
BY DEF NoPeerIsMuted

\* A request that leaves is on its way when the switch is off.
LEMMA SendKeepsInv ==
  ASSUME TransportInv, NEW c \in Call, RequestVote(c) \/ AppendEntries(c)
  PROVE  TransportInv'
<1>1. PICK kind \in Kind : Sent(c, kind)
  BY DEF RequestVote, AppendEntries, Kind
<1>2. /\ peer' = [peer EXCEPT !.switch = "off"]
      /\ UNCHANGED <<role, channel, events, peerVars, bounds>>
  BY DEF RequestVote, AppendEntries
<1>3. clientCalls' \in [Call -> CallRecord] /\ clientCalls'[c].at = "sent"
  <2>1. clientCalls \in [Call -> CallRecord] /\ channel \in HostAddress
    BY DEF TransportInv, TypeOK, CallRecord
  <2> QED
    BY <1>1, <2>1 DEF Sent, CallRecord
<1>4. peer' \in [switch : {"on", "off"}, suppress : BOOLEAN, voteDone : BOOLEAN]
  <2>1. peer \in [switch : {"on", "off"}, suppress : BOOLEAN, voteDone : BOOLEAN]
    BY DEF TransportInv, TypeOK
  <2> QED
    BY <1>2, <2>1, Zenon
<1>5. TypeOK'
  BY <1>2, <1>3, <1>4 DEF TransportInv, TypeOK, CallRecord, peerVars
<1>6. NoPeerIsMuted'
  BY <1>3 DEF NoPeerIsMuted
<1>7. PeerKeepsListening'
  BY <1>2 DEF TransportInv, PeerKeepsListening, peerVars
<1> QED
  BY <1>5, <1>6, <1>7 DEF TransportInv

\* RaftClient makes an event of a request that has ended, and loses none.
LEMMA ClientKeepsInv ==
  ASSUME TransportInv, NEW c \in Call, ClientLoopMain(c) \/ Deadline(c)
  PROVE  TransportInv'
<1>1. PICK at \in {"event", "failed"} : clientCalls' = [clientCalls EXCEPT ![c].at = at]
  BY DEF ClientLoopMain, Deadline
<1>2. UNCHANGED <<role, peer, peerVars>>
  BY DEF ClientLoopMain, Deadline
<1>3. clientCalls' \in [Call -> CallRecord]
      /\ \A d \in Call : clientCalls[d].at # "none" => clientCalls'[d].at # "none"
  <2>1. clientCalls \in [Call -> CallRecord]
    BY DEF TransportInv, TypeOK, CallRecord
  <2> QED
    BY <1>1, <2>1 DEF CallRecord
<1>4. channel' \in HostAddress /\ events' \in Seq([call : Call, ok : BOOLEAN])
  <2>1. CASE ClientLoopMain(c)
    <3>1. [call |-> c, ok |-> clientCalls[c].at = "answered"] \in [call : Call, ok : BOOLEAN]
      OBVIOUS
    <3>2. events' \in Seq([call : Call, ok : BOOLEAN])
      BY <2>1, <3>1, AppendProperties DEF ClientLoopMain, TransportInv, TypeOK
    <3> QED
      BY <2>1, <3>2 DEF ClientLoopMain, RefressChannel, TransportInv, TypeOK
  <2>2. CASE Deadline(c)
    BY <2>2 DEF Deadline, TransportInv, TypeOK
  <2> QED
    BY <2>1, <2>2
<1>5. bounds' \in [faults : 0 .. MaxFaults, elections : 0 .. MaxElections]
  BY BoundsType DEF ClientLoopMain, Deadline, TransportInv
<1>6. TypeOK'
  BY <1>2, <1>3, <1>4, <1>5 DEF TransportInv, TypeOK, CallRecord, peerVars
<1>7. NoPeerIsMuted'
  BY <1>2, <1>3, CallsMoveOn DEF TransportInv
<1>8. PeerKeepsListening'
  BY <1>2 DEF TransportInv, PeerKeepsListening, peerVars
<1> QED
  BY <1>6, <1>7, <1>8 DEF TransportInv

\* Every event turns the switch on.
LEMMA ReceiveKeepsInv ==
  ASSUME TransportInv, ReceiveMessage
  PROVE  TransportInv'
<1>1. events \in Seq([call : Call, ok : BOOLEAN]) /\ events # <<>>
  BY DEF ReceiveMessage, TransportInv, TypeOK
<1>2. /\ Head(events) \in [call : Call, ok : BOOLEAN]
      /\ Tail(events) \in Seq([call : Call, ok : BOOLEAN])
  BY <1>1, HeadTailProperties
<1>3. /\ events' = Tail(events)
      /\ clientCalls' = [clientCalls EXCEPT ![Head(events).call] = NoCall]
      /\ UNCHANGED <<channel, peerVars, bounds>>
  BY DEF ReceiveMessage
<1>4. HandleAppendEntriesResponse(Head(events).ok) \/ HandleRequestVoteResponse(Head(events).ok)
  BY DEF ReceiveMessage
<1>5. /\ peer' \in [switch : {"on", "off"}, suppress : BOOLEAN, voteDone : BOOLEAN]
      /\ peer'.switch = "on"
      /\ role' \in {"Follower", "Candidate", "Leader"}
  <2>1. /\ peer \in [switch : {"on", "off"}, suppress : BOOLEAN, voteDone : BOOLEAN]
        /\ role \in {"Follower", "Candidate", "Leader"}
    BY DEF TransportInv, TypeOK
  <2>2. CASE HandleAppendEntriesResponse(Head(events).ok)
    BY <2>1, <2>2, Zenon DEF HandleAppendEntriesResponse, TurnedOn
  <2>3. CASE HandleRequestVoteResponse(Head(events).ok)
    BY <2>1, <2>3, Zenon DEF HandleRequestVoteResponse, TurnedOn
  <2> QED
    BY <1>4, <2>2, <2>3
<1>6. clientCalls' \in [Call -> CallRecord]
  <2>1. clientCalls \in [Call -> CallRecord]
    BY DEF TransportInv, TypeOK, CallRecord
  <2> QED
    BY <1>2, <1>3, <2>1, NoCallType
<1>7. TypeOK'
  BY <1>2, <1>3, <1>5, <1>6 DEF TransportInv, TypeOK, CallRecord, peerVars
<1>8. NoPeerIsMuted'
  BY <1>5 DEF NoPeerIsMuted
<1>9. PeerKeepsListening'
  BY <1>3 DEF TransportInv, PeerKeepsListening, peerVars
<1> QED
  BY <1>7, <1>8, <1>9 DEF TransportInv

\* An election turns the switch on, and stepping down leaves it alone.
LEMMA RoleKeepsInv ==
  ASSUME TransportInv, ElectionTimeout \/ BecomeLeader \/ StepDown
  PROVE  TransportInv'
<1>1. UNCHANGED <<channel, clientCalls, events, peerVars>>
  BY DEF ElectionTimeout, BecomeLeader, StepDown
<1>2. /\ peer' \in [switch : {"on", "off"}, suppress : BOOLEAN, voteDone : BOOLEAN]
      /\ peer'.switch = "on" \/ peer' = peer
      /\ role' \in {"Follower", "Candidate", "Leader"}
  <2>1. /\ peer \in [switch : {"on", "off"}, suppress : BOOLEAN, voteDone : BOOLEAN]
        /\ role \in {"Follower", "Candidate", "Leader"}
    BY DEF TransportInv, TypeOK
  <2>2. CASE ElectionTimeout
    BY <2>1, <2>2, Zenon DEF ElectionTimeout
  <2>3. CASE BecomeLeader
    BY <2>1, <2>3, Zenon DEF BecomeLeader
  <2>4. CASE StepDown
    BY <2>1, <2>4, Zenon DEF StepDown
  <2> QED
    BY <2>2, <2>3, <2>4
<1>3. bounds' \in [faults : 0 .. MaxFaults, elections : 0 .. MaxElections]
  BY BoundsType DEF ElectionTimeout, BecomeLeader, StepDown, TransportInv
<1>4. TypeOK'
  BY <1>1, <1>2, <1>3 DEF TransportInv, TypeOK, peerVars
<1>5. NoPeerIsMuted'
  BY <1>1, <1>2 DEF TransportInv, NoPeerIsMuted
<1>6. PeerKeepsListening'
  BY <1>1 DEF TransportInv, PeerKeepsListening, peerVars
<1> QED
  BY <1>4, <1>5, <1>6 DEF TransportInv

-----------------------------------------------------------------------------
(* The peer *)

\* A step of the peer that leaves the node alone has the types and the server to keep.
LEMMA PeerStepKeepsInv ==
  ASSUME TransportInv, UNCHANGED <<nodeVars, host>>,
         bounds' \in [faults : 0 .. MaxFaults, elections : 0 .. MaxElections],
         listening' \in [Kind -> Nat],
         served' \in [Call -> ServedRecord],
         requests' \in Seq(Call),
         PeerKeepsListening'
  PROVE  TransportInv'
<1>1. TypeOK'
  BY DEF TransportInv, TypeOK, nodeVars, ServedRecord
<1>2. NoPeerIsMuted'
  BY DEF TransportInv, NoPeerIsMuted, nodeVars
<1> QED
  BY <1>1, <1>2 DEF TransportInv

\* The CallData that a request takes has a tag that spawns the next.
LEMMA ArriveKeepsInv ==
  ASSUME TransportInv, NEW c \in Call, Arrive(c)
  PROVE  TransportInv'
<1> DEFINE kind == clientCalls[c].kind
<1>1. /\ served[c] = NotServed
      /\ listening[kind] > 0
      /\ listening' = [listening EXCEPT ![kind] = @ - 1]
      /\ served' = [served EXCEPT ![c] = [at |-> "arrived", kind |-> kind]]
      /\ UNCHANGED <<nodeVars, host, requests, bounds>>
  BY DEF Arrive
<1>2. /\ kind \in Kind /\ listening \in [Kind -> Nat] /\ served \in [Call -> ServedRecord]
      /\ requests \in Seq(Call)
      /\ bounds \in [faults : 0 .. MaxFaults, elections : 0 .. MaxElections]
  BY DEF TransportInv, TypeOK, ServedRecord
<1> HIDE DEF kind
<1>3. listening' \in [Kind -> Nat] /\ \A k \in Kind \ {kind} : listening'[k] = listening[k]
  BY <1>1, <1>2
<1>4. /\ served' \in [Call -> ServedRecord]
      /\ served'[c] = [at |-> "arrived", kind |-> kind]
      /\ \A d \in Call \ {c} : served'[d] = served[d]
  BY <1>1, <1>2 DEF ServedRecord
<1>5. served[c].at = "none" /\ served'[c].at = "arrived"
  BY <1>1, <1>4 DEF NotServed
<1>6. PeerKeepsListening'
  <2>1. ASSUME host'.server = "up", NEW k \in Kind
        PROVE  listening'[k] > 0 \/ \E d \in Call : served'[d] = [at |-> "arrived", kind |-> k]
    <3>1. CASE k = kind
      BY <3>1, <1>4
    <3>2. CASE k # kind
      <4>1. listening[k] > 0 \/ \E d \in Call : served[d] = [at |-> "arrived", kind |-> k]
        BY <1>1, <2>1 DEF TransportInv, PeerKeepsListening
      <4>2. ASSUME NEW d \in Call, served[d] = [at |-> "arrived", kind |-> k]
            PROVE  served'[d] = [at |-> "arrived", kind |-> k]
        BY <4>2, <1>4, <1>5
      <4> QED
        BY <4>1, <4>2, <3>2, <1>3
    <3> QED
      BY <3>1, <3>2
  <2>2. ASSUME NEW d \in Call
        PROVE  served'[d].at = "queued" <=> d \in Range(requests')
    <3>1. served[d].at = "queued" <=> d \in Range(requests)
      BY DEF TransportInv, PeerKeepsListening
    <3> QED
      BY <3>1, <1>1, <1>4, <1>5
  <2>3. IsInjective(requests')
    BY <1>1 DEF TransportInv, PeerKeepsListening
  <2> QED
    BY <2>1, <2>2, <2>3 DEF PeerKeepsListening
<1> QED
  BY <1>1, <1>2, <1>3, <1>4, <1>6, PeerStepKeepsInv

\* A tag of a request spawns the next CallData, and puts the request into the queue.
LEMMA ProceedKeepsInv ==
  ASSUME TransportInv, NEW c \in Call, NEW kind \in Kind, Proceed(c, kind)
  PROVE  TransportInv'
<1>1. /\ served[c] = [at |-> "arrived", kind |-> kind]
      /\ listening' = [listening EXCEPT ![kind] = @ + 1]
      /\ served' = [served EXCEPT ![c].at = "queued"]
      /\ requests' = Append(requests, c)
      /\ UNCHANGED <<nodeVars, host, bounds>>
  BY DEF Proceed, Spawned
<1>2. /\ listening \in [Kind -> Nat] /\ served \in [Call -> ServedRecord]
      /\ requests \in Seq(Call)
      /\ bounds \in [faults : 0 .. MaxFaults, elections : 0 .. MaxElections]
  BY DEF TransportInv, TypeOK, ServedRecord
<1>3. /\ listening' \in [Kind -> Nat] /\ listening'[kind] > 0
      /\ \A k \in Kind \ {kind} : listening'[k] = listening[k]
  BY <1>1, <1>2
<1>4. /\ served' \in [Call -> ServedRecord]
      /\ served'[c].at = "queued"
      /\ \A d \in Call \ {c} : served'[d] = served[d]
  BY <1>1, <1>2 DEF ServedRecord
<1>5. served[c].at = "arrived" /\ served[c].kind = kind
  BY <1>1
<1>6. c \notin Range(requests) /\ IsInjective(requests)
  BY <1>5 DEF TransportInv, PeerKeepsListening
<1>7. /\ requests' \in Seq(Call) /\ IsInjective(requests')
      /\ Range(requests') = Range(requests) \cup {c}
  BY <1>1, <1>2, <1>6, AppendNew
<1>8. PeerKeepsListening'
  <2>1. ASSUME host'.server = "up", NEW k \in Kind
        PROVE  listening'[k] > 0 \/ \E d \in Call : served'[d] = [at |-> "arrived", kind |-> k]
    <3>1. CASE k = kind
      BY <3>1, <1>3
    <3>2. CASE k # kind
      <4>1. listening[k] > 0 \/ \E d \in Call : served[d] = [at |-> "arrived", kind |-> k]
        BY <1>1, <2>1 DEF TransportInv, PeerKeepsListening
      <4>2. ASSUME NEW d \in Call, served[d] = [at |-> "arrived", kind |-> k]
            PROVE  served'[d] = [at |-> "arrived", kind |-> k]
        BY <4>2, <3>2, <1>4, <1>5
      <4> QED
        BY <4>1, <4>2, <3>2, <1>3
    <3> QED
      BY <3>1, <3>2
  <2>2. ASSUME NEW d \in Call
        PROVE  served'[d].at = "queued" <=> d \in Range(requests')
    <3>1. served[d].at = "queued" <=> d \in Range(requests)
      BY DEF TransportInv, PeerKeepsListening
    <3> QED
      BY <3>1, <1>4, <1>7
  <2> QED
    BY <2>1, <2>2, <1>7 DEF PeerKeepsListening
<1> QED
  BY <1>1, <1>2, <1>3, <1>4, <1>7, <1>8, PeerStepKeepsInv

\* What becomes of a CallData after its reply does not matter to the others.
LEMMA AfterReplyKeepsListening ==
  ASSUME TransportInv, NEW c \in Call, UNCHANGED <<host, requests>>,
         served' \in [Call -> ServedRecord],
         \A d \in Call \ {c} : served'[d] = served[d],
         served[c].at \notin {"arrived", "queued"},
         served'[c].at \notin {"arrived", "queued"},
         \A k \in Kind : listening[k] > 0 => listening'[k] > 0
  PROVE  PeerKeepsListening'
<1>1. ASSUME host'.server = "up", NEW k \in Kind
      PROVE  listening'[k] > 0 \/ \E d \in Call : served'[d] = [at |-> "arrived", kind |-> k]
  <2>1. listening[k] > 0 \/ \E d \in Call : served[d] = [at |-> "arrived", kind |-> k]
    BY <1>1 DEF TransportInv, PeerKeepsListening
  <2>2. ASSUME NEW d \in Call, served[d] = [at |-> "arrived", kind |-> k]
        PROVE  served'[d] = [at |-> "arrived", kind |-> k]
    BY <2>2
  <2> QED
    BY <2>1, <2>2
<1>2. ASSUME NEW d \in Call
      PROVE  served'[d].at = "queued" <=> d \in Range(requests')
  <2>1. served[d].at = "queued" <=> d \in Range(requests)
    BY DEF TransportInv, PeerKeepsListening
  <2> QED
    BY <2>1
<1>3. IsInjective(requests')
  BY DEF TransportInv, PeerKeepsListening
<1> QED
  BY <1>1, <1>2, <1>3 DEF PeerKeepsListening

\* A CallData is deleted, with one more spawned when its Finish has failed.
LEMMA ReleaseKeepsInv ==
  ASSUME TransportInv, NEW c \in Call, ProceedFinished(c) \/ FailOver(c)
  PROVE  TransportInv'
<1>1. /\ served[c].at \in {"finished", "cutOff"}
      /\ served' = [served EXCEPT ![c] = NotServed]
      /\ listening' = listening \/ listening' = [listening EXCEPT ![served[c].kind] = @ + 1]
      /\ UNCHANGED <<nodeVars, host, requests, bounds>>
  BY DEF ProceedFinished, FailOver, Spawned
<1>2. /\ listening \in [Kind -> Nat] /\ served \in [Call -> ServedRecord]
      /\ requests \in Seq(Call)
      /\ bounds \in [faults : 0 .. MaxFaults, elections : 0 .. MaxElections]
  BY DEF TransportInv, TypeOK, ServedRecord
<1>3. /\ listening' \in [Kind -> Nat]
      /\ \A k \in Kind : listening[k] > 0 => listening'[k] > 0
  <2>1. PICK kind \in Kind : listening' = listening \/ listening' = [listening EXCEPT ![kind] = @ + 1]
    BY <1>1, <1>2 DEF ServedRecord
  <2>2. CASE listening' = listening
    BY <2>2, <1>2
  <2>3. CASE listening' = [listening EXCEPT ![kind] = @ + 1]
    BY <2>3, <1>2
  <2> QED
    BY <2>1, <2>2, <2>3
<1>4. NotServed \in ServedRecord /\ NotServed.at = "none"
  BY DEF NotServed, ServedRecord, Kind
<1>5. /\ served' \in [Call -> ServedRecord]
      /\ served'[c] = NotServed
      /\ \A d \in Call \ {c} : served'[d] = served[d]
  BY <1>1, <1>2, <1>4
<1>6. PeerKeepsListening'
  BY <1>1, <1>3, <1>4, <1>5, AfterReplyKeepsListening
<1> QED
  BY <1>1, <1>2, <1>3, <1>5, <1>6, PeerStepKeepsInv

\* A response ends the request, or finds that it has ended.
LEMMA FinishKeepsInv ==
  ASSUME TransportInv, NEW c \in Call, Finish(c)
  PROVE  TransportInv'
<1>1. /\ served[c].at \in {"ok", "error"}
      /\ UNCHANGED <<role, peer, channel, events, host, listening, requests, bounds>>
  BY DEF Finish
<1>2. PICK at \in {"finished", "cutOff"} : served' = [served EXCEPT ![c].at = at]
  BY DEF Finish
<1>3. \/ UNCHANGED clientCalls
      \/ \E to \in {"answered", "failed"} : clientCalls' = [clientCalls EXCEPT ![c].at = to]
  BY DEF Finish
<1>4. served \in [Call -> ServedRecord] /\ clientCalls \in [Call -> CallRecord]
  BY DEF TransportInv, TypeOK, ServedRecord, CallRecord
<1>5. /\ served' \in [Call -> ServedRecord]
      /\ served'[c].at \in {"finished", "cutOff"}
      /\ \A d \in Call \ {c} : served'[d] = served[d]
  BY <1>2, <1>4 DEF ServedRecord
<1>6. /\ clientCalls' \in [Call -> CallRecord]
      /\ \A d \in Call : clientCalls[d].at # "none" => clientCalls'[d].at # "none"
  BY <1>3, <1>4 DEF CallRecord
<1>7. TypeOK'
  BY <1>1, <1>5, <1>6 DEF TransportInv, TypeOK, ServedRecord, CallRecord
<1>8. NoPeerIsMuted'
  BY <1>1, <1>6, CallsMoveOn DEF TransportInv
<1>9. PeerKeepsListening'
  BY <1>1, <1>5, AfterReplyKeepsListening
<1> QED
  BY <1>7, <1>8, <1>9 DEF TransportInv

\* The raft loop of the peer replies to the head of its queue, which is waiting for it.
LEMMA HandleRequestKeepsInv ==
  ASSUME TransportInv, HandleRequest
  PROVE  TransportInv'
<1> DEFINE c == Head(requests)
<1>1. /\ requests # <<>>
      /\ requests' = Tail(requests)
      /\ UNCHANGED <<nodeVars, host, listening>>
  BY DEF HandleRequest
<1>2. PICK at \in {"ok", "error"} : served' = [served EXCEPT ![c].at = at]
  BY DEF HandleRequest
<1>3. bounds' \in [faults : 0 .. MaxFaults, elections : 0 .. MaxElections]
  BY BoundsType DEF HandleRequest, TransportInv
<1>4. /\ served \in [Call -> ServedRecord] /\ requests \in Seq(Call)
      /\ listening \in [Kind -> Nat] /\ IsInjective(requests)
  BY DEF TransportInv, TypeOK, PeerKeepsListening, ServedRecord
<1>5. /\ requests' \in Seq(Call) /\ IsInjective(requests')
      /\ c \in Call /\ c \in Range(requests)
      /\ Range(requests') = Range(requests) \ {c}
  BY <1>1, <1>4, TailWithoutHead
<1> HIDE DEF c
<1>6. /\ served' \in [Call -> ServedRecord]
      /\ served'[c].at \in {"ok", "error"}
      /\ \A d \in Call \ {c} : served'[d] = served[d]
  BY <1>2, <1>4, <1>5 DEF ServedRecord
<1>7. served[c].at = "queued"
  BY <1>5 DEF TransportInv, PeerKeepsListening
<1>8. PeerKeepsListening'
  <2>1. ASSUME host'.server = "up", NEW k \in Kind
        PROVE  listening'[k] > 0 \/ \E d \in Call : served'[d] = [at |-> "arrived", kind |-> k]
    <3>1. listening[k] > 0 \/ \E d \in Call : served[d] = [at |-> "arrived", kind |-> k]
      BY <1>1, <2>1 DEF TransportInv, PeerKeepsListening
    <3>2. ASSUME NEW d \in Call, served[d] = [at |-> "arrived", kind |-> k]
          PROVE  served'[d] = [at |-> "arrived", kind |-> k]
      BY <3>2, <1>6, <1>7
    <3> QED
      BY <3>1, <3>2, <1>1
  <2>2. ASSUME NEW d \in Call
        PROVE  served'[d].at = "queued" <=> d \in Range(requests')
    <3>1. served[d].at = "queued" <=> d \in Range(requests)
      BY DEF TransportInv, PeerKeepsListening
    <3> QED
      BY <3>1, <1>5, <1>6
  <2> QED
    BY <2>1, <2>2, <1>5 DEF PeerKeepsListening
<1> QED
  BY <1>1, <1>3, <1>4, <1>5, <1>6, <1>8, PeerStepKeepsInv

\* A server that is not up may have any CallData, and one that has just come up has all.
LEMMA ServerKeepsInv ==
  ASSUME TransportInv, StartServer \/ SpawnCallData
  PROVE  TransportInv'
<1>1. UNCHANGED <<nodeVars, served, requests, bounds>>
  BY DEF StartServer, SpawnCallData
<1>2. /\ host' \in [address : HostAddress, server : {"down", "built", "up"}]
      /\ listening' \in [Kind -> Nat]
      /\ host'.server = "up" => \A k \in Kind : listening'[k] > 0
  <2>1. /\ host \in [address : HostAddress, server : {"down", "built", "up"}]
        /\ listening \in [Kind -> Nat]
    BY DEF TransportInv, TypeOK
  <2>2. CASE StartServer
    BY <2>1, <2>2 DEF StartServer
  <2>3. CASE SpawnCallData
    BY <2>1, <2>3 DEF SpawnCallData
  <2> QED
    BY <2>2, <2>3
<1>3. TypeOK'
  BY <1>1, <1>2 DEF TransportInv, TypeOK, nodeVars
<1>4. NoPeerIsMuted'
  BY <1>1 DEF TransportInv, NoPeerIsMuted, nodeVars
<1>5. PeerKeepsListening'
  BY <1>1, <1>2 DEF TransportInv, PeerKeepsListening
<1> QED
  BY <1>3, <1>4, <1>5 DEF TransportInv

\* A peer that holds nothing: Init, and after it has gone down.
LEMMA EmptyPeerListens ==
  ASSUME served = [c \in Call |-> NotServed], requests = <<>>, host.server # "up"
  PROVE  PeerKeepsListening
<1>1. Range(requests) = {} /\ IsInjective(requests)
  BY DEF Range, IsInjective
<1>2. \A c \in Call : served[c].at # "queued"
  BY DEF NotServed
<1> QED
  BY <1>1, <1>2 DEF PeerKeepsListening

\* A peer that goes down fails the requests it holds, and they come back as events.
LEMMA GoesDownKeepsInv ==
  ASSUME TransportInv, PeerGoesDown
  PROVE  TransportInv'
<1>1. /\ served' = [c \in Call |-> NotServed]
      /\ requests' = <<>>
      /\ listening' = [k \in Kind |-> 0]
      /\ UNCHANGED <<role, peer, channel, events>>
  BY DEF PeerGoesDown
<1>2. PICK a \in HostAddress : host' = [address |-> a, server |-> "down"]
  BY DEF PeerGoesDown
<1>3. bounds' \in [faults : 0 .. MaxFaults, elections : 0 .. MaxElections]
  BY BoundsType DEF PeerGoesDown, TransportInv
<1>4. /\ clientCalls' \in [Call -> CallRecord]
      /\ \A d \in Call : clientCalls[d].at # "none" => clientCalls'[d].at # "none"
  <2>1. clientCalls \in [Call -> CallRecord]
    BY DEF TransportInv, TypeOK, CallRecord
  <2>2. clientCalls' = [c \in Call |->
          IF clientCalls[c].at = "sent" /\ served[c] # NotServed
          THEN [clientCalls[c] EXCEPT !.at = "failed"] ELSE clientCalls[c]]
    BY DEF PeerGoesDown
  <2> QED
    BY <2>1, <2>2 DEF CallRecord
<1>5. NotServed \in ServedRecord
  BY DEF NotServed, ServedRecord, Kind
<1>6. TypeOK'
  <2>1. host' \in [address : HostAddress, server : {"down", "built", "up"}]
    BY <1>2
  <2>2. served' \in [Call -> ServedRecord] /\ listening' \in [Kind -> Nat] /\ requests' \in Seq(Call)
    BY <1>1, <1>5
  <2> QED
    BY <1>1, <1>3, <1>4, <2>1, <2>2 DEF TransportInv, TypeOK, ServedRecord, CallRecord
<1>7. NoPeerIsMuted'
  BY <1>1, <1>4, CallsMoveOn DEF TransportInv
<1>8. PeerKeepsListening'
  <2>1. Range(requests') = {} /\ IsInjective(requests')
    BY <1>1 DEF Range, IsInjective
  <2>2. \A c \in Call : served'[c].at # "queued"
    BY <1>1 DEF NotServed
  <2>3. host'.server # "up"
    BY <1>2
  <2> QED
    BY <2>1, <2>2, <2>3 DEF PeerKeepsListening
<1> QED
  BY <1>6, <1>7, <1>8 DEF TransportInv

-----------------------------------------------------------------------------
(* The invariant *)

\* The invariant holds at the start.
LEMMA InitHasInv ==
  ASSUME Init
  PROVE  TransportInv
<1>1. /\ host \in [address : HostAddress, server : {"built"}]
      /\ channel = host.address
      /\ served = [c \in Call |-> NotServed] /\ requests = <<>>
      /\ peer = [switch |-> "on", suppress |-> TRUE, voteDone |-> FALSE]
  BY DEF Init
<1>2. TypeOK
  <2>1. NotServed \in ServedRecord
    BY DEF NotServed, ServedRecord, Kind
  <2>2. clientCalls \in [Call -> CallRecord] /\ served \in [Call -> ServedRecord]
    BY <2>1, NoCallType DEF Init
  <2>3. bounds \in [faults : 0 .. MaxFaults, elections : 0 .. MaxElections]
    BY TransportAssumption DEF Init
  <2>4. listening \in [Kind -> Nat] /\ events = <<>> /\ requests = <<>> /\ role = "Follower"
    BY DEF Init
  <2> QED
    BY <1>1, <2>2, <2>3, <2>4 DEF TypeOK, ServedRecord, CallRecord
<1>3. NoPeerIsMuted
  BY <1>1 DEF NoPeerIsMuted
<1>4. PeerKeepsListening
  BY <1>1, EmptyPeerListens
<1> QED
  BY <1>2, <1>3, <1>4 DEF TransportInv

\* Every step keeps the invariant.
LEMMA NextKeepsInv ==
  ASSUME TransportInv, [Next]_vars
  PROVE  TransportInv'
<1>1. ASSUME NEW c \in Call, CallStep(c)
      PROVE  TransportInv'
  <2>1. CASE RequestVote(c) \/ AppendEntries(c)
    BY <2>1, SendKeepsInv
  <2>2. CASE ClientLoopMain(c) \/ Deadline(c)
    BY <2>2, ClientKeepsInv
  <2>3. CASE Arrive(c)
    BY <2>3, ArriveKeepsInv
  <2>4. CASE Finish(c)
    BY <2>4, FinishKeepsInv
  <2>5. CASE ProceedAppendEntries(c) \/ ProceedRequestVote(c)
    BY <2>5, ProceedKeepsInv DEF ProceedAppendEntries, ProceedRequestVote, Kind
  <2>6. CASE ProceedFinished(c) \/ FailOver(c)
    BY <2>6, ReleaseKeepsInv
  <2> QED
    BY <1>1, <2>1, <2>2, <2>3, <2>4, <2>5, <2>6 DEF CallStep
<1>2. CASE ReceiveMessage
  BY <1>2, ReceiveKeepsInv
<1>3. CASE ElectionTimeout \/ BecomeLeader \/ StepDown
  BY <1>3, RoleKeepsInv
<1>4. CASE PeerGoesDown
  BY <1>4, GoesDownKeepsInv
<1>5. CASE StartServer \/ SpawnCallData
  BY <1>5, ServerKeepsInv
<1>6. CASE HandleRequest
  BY <1>6, HandleRequestKeepsInv
<1>7. CASE UNCHANGED vars
  BY <1>7 DEF TransportInv, TypeOK, NoPeerIsMuted, PeerKeepsListening, vars, nodeVars, peerVars
<1> QED
  BY <1>1, <1>2, <1>3, <1>4, <1>5, <1>6, <1>7 DEF Next

(***************************************************************************)
(* The types and the two properties, which are inductive together.         *)
(***************************************************************************)
THEOREM TransportInvariant == Spec => []TransportInv
BY InitHasInv, NextKeepsInv, PTL DEF Spec

(***************************************************************************)
(* While the switch of a peer is off, a request to it is on its way,       *)
(* whatever fails and whoever is elected: RaftClient makes an event of     *)
(* every end of a request, and receiveMessage turns the switch on.         *)
(***************************************************************************)
THEOREM PeerIsNeverMuted == Spec => []NoPeerIsMuted
<1>1. TransportInv => NoPeerIsMuted
  BY DEF TransportInv
<1> QED
  BY <1>1, TransportInvariant, PTL

(***************************************************************************)
(* RaftServer never runs out of CallData that listen, and the queue of the *)
(* peer holds those that wait for their reply, each of them once.          *)
(***************************************************************************)
THEOREM ServerKeepsListening == Spec => []PeerKeepsListening
<1>1. TransportInv => PeerKeepsListening
  BY DEF TransportInv
<1> QED
  BY <1>1, TransportInvariant, PTL

-----------------------------------------------------------------------------
(* The queue of MpscDoubleBufferQueue, which carries the requests and the  *)
(* events of the transport (mAeRvQueue).                                   *)

CONSTANTS Producer, MaxItems

VARIABLES producerQueue, consumerQueue, queueSize, shouldExit, ppc, wasEmpty, calls, cpc,
          polled, spc, taken

Q == INSTANCE MpscDoubleBufferQueue

Counting == \E p \in Producer : ppc[p] = "counting"

MutexIsExclusive ==
  /\ \A p, q \in Producer : ppc[p] = "counting" /\ ppc[q] = "counting" => p = q
  /\ Counting => cpc \notin {"testing", "blocking"}

CallsAreCounted == \A p \in Producer : ppc[p] = "admitted" => calls[p] > 0

QueuesFitConsumer ==
  /\ cpc \in {"testing", "blocking", "waiting", "woken"} => consumerQueue = <<>>
  /\ cpc \in {"testing", "blocking"} => producerQueue = <<>>
  /\ cpc = "take" => consumerQueue # <<>>

SizeIsExact ==
  /\ Len(consumerQueue) + Len(producerQueue) = queueSize + IF Counting THEN 1 ELSE 0
  /\ Counting => producerQueue # <<>>

PolledIsNotEmpty == polled /\ cpc = "dequeue" => queueSize > 0

QueueInv ==
  /\ MaxItems \in Nat
  /\ Q!TypeOK
  /\ MutexIsExclusive
  /\ CallsAreCounted
  /\ QueuesFitConsumer
  /\ SizeIsExact
  /\ PolledIsNotEmpty
  /\ Q!PolledNeverBlocks

-----------------------------------------------------------------------------
(* Sequences *)

\* Appending to the second part of a concatenation appends to the whole.
LEMMA ConcatAppend ==
  ASSUME NEW S, NEW s \in Seq(S), NEW t \in Seq(S), NEW e \in S
  PROVE  s \o Append(t, e) = Append(s \o t, e)
<1>1. <<e>> \in Seq(S) /\ s \o t \in Seq(S)
  BY ConcatProperties
<1>2. Append(t, e) = t \o <<e>> /\ Append(s \o t, e) = (s \o t) \o <<e>>
  BY <1>1, AppendIsConcat
<1> QED
  BY <1>1, <1>2, ConcatAssociative

\* Head and Tail of a concatenation are those of its first part, unless that is empty.
LEMMA HeadTailConcat ==
  ASSUME NEW S, NEW s \in Seq(S), NEW t \in Seq(S), s # <<>>
  PROVE  /\ s \o t # <<>>
         /\ Head(s \o t) = Head(s)
         /\ Tail(s \o t) = Tail(s) \o t
<1>1. /\ s \o t \in Seq(S) /\ Len(s \o t) = Len(s) + Len(t) /\ s \o t # <<>>
      /\ Len(s) \in Nat \ {0} /\ Len(t) \in Nat
      /\ \A i \in 1..Len(s) + Len(t) : (s \o t)[i] = IF i <= Len(s) THEN s[i] ELSE t[i - Len(s)]
  BY ConcatProperties, EmptySeq, LenProperties, ConcatEqualIffEmpty
<1>2. /\ Tail(s) \in Seq(S) /\ Len(Tail(s)) = Len(s) - 1
      /\ \A i \in 1..Len(Tail(s)) : Tail(s)[i] = s[i + 1]
  BY HeadTailProperties
<1>3. /\ Tail(s \o t) \in Seq(S) /\ Len(Tail(s \o t)) = Len(s \o t) - 1
      /\ \A i \in 1..Len(Tail(s \o t)) : Tail(s \o t)[i] = (s \o t)[i + 1]
  BY <1>1, HeadTailProperties
<1>4. /\ Tail(s) \o t \in Seq(S) /\ Len(Tail(s) \o t) = Len(Tail(s)) + Len(t)
      /\ \A i \in 1..Len(Tail(s)) + Len(t) :
           (Tail(s) \o t)[i] = IF i <= Len(Tail(s)) THEN Tail(s)[i] ELSE t[i - Len(Tail(s))]
  BY <1>2, ConcatProperties
<1>5. Head(s \o t) = Head(s)
  BY <1>1
<1>6. ASSUME NEW i \in 1..Len(Tail(s \o t)) PROVE Tail(s \o t)[i] = (Tail(s) \o t)[i]
  <2>1. Len(Tail(s \o t)) = Len(s) + Len(t) - 1
    BY <1>1, <1>3
  <2>2. i \in Nat /\ i + 1 \in 1..Len(s) + Len(t) /\ i \in 1..Len(Tail(s)) + Len(t)
    BY <2>1, <1>1, <1>2
  <2>3. Tail(s \o t)[i] = IF i + 1 <= Len(s) THEN s[i + 1] ELSE t[i + 1 - Len(s)]
    BY <2>2, <1>1, <1>3
  <2>4. (Tail(s) \o t)[i] = IF i <= Len(s) - 1 THEN Tail(s)[i] ELSE t[i - (Len(s) - 1)]
    BY <2>2, <1>2, <1>4
  <2>5. i <= Len(s) - 1 => Tail(s)[i] = s[i + 1]
    BY <2>2, <1>1, <1>2
  <2>6. i + 1 - Len(s) = i - (Len(s) - 1) /\ (i + 1 <= Len(s) <=> i <= Len(s) - 1)
    BY <2>2, <1>1
  <2> QED
    BY <2>3, <2>4, <2>5, <2>6
<1>7. Len(Tail(s \o t)) = Len(Tail(s) \o t)
  BY <1>1, <1>2, <1>3, <1>4
<1>8. Tail(s \o t) = Tail(s) \o t
  BY <1>3, <1>4, <1>6, <1>7, SeqEqual
<1> QED
  BY <1>1, <1>5, <1>8

-----------------------------------------------------------------------------
(* The invariant *)

\* QueueInv holds at first.
LEMMA QueueInvInit ==
  ASSUME MaxItems \in Nat, Q!Init
  PROVE  QueueInv
<1>1. Q!TypeOK
  <2>1. <<>> \in Seq(Q!Item)
    BY EmptySeq
  <2>2. calls \in [Producer -> 0..MaxItems]
    BY DEF Q!Init
  <2> QED
    BY <2>1, <2>2 DEF Q!Init, Q!TypeOK
<1>2. ~Counting /\ MutexIsExclusive /\ CallsAreCounted
  BY DEF Q!Init, Counting, MutexIsExclusive, CallsAreCounted
<1>3. SizeIsExact
  BY <1>2 DEF Q!Init, SizeIsExact
<1> QED
  BY <1>1, <1>2, <1>3 DEF Q!Init, QueueInv, QueuesFitConsumer, PolledIsNotEmpty, Q!PolledNeverBlocks

\* A producer that enqueue admits or refuses keeps it.
LEMMA AdmitKeepsQueueInv ==
  ASSUME QueueInv, NEW p \in Producer, Q!Admit(p) \/ Q!Refuse(p)
  PROVE  QueueInv'
<1>1. /\ UNCHANGED <<producerQueue, consumerQueue, queueSize, shouldExit, wasEmpty, cpc, polled,
                     spc, taken>>
      /\ calls[p] < MaxItems /\ calls' = [calls EXCEPT ![p] = @ + 1]
      /\ ppc[p] = "outside" /\ (ppc' = ppc \/ ppc' = [ppc EXCEPT ![p] = "admitted"])
  BY DEF Q!Admit, Q!Refuse
<1>2. calls[p] \in 0..MaxItems /\ ppc \in [Producer -> {"outside", "admitted", "counting"}]
      /\ calls \in [Producer -> 0..MaxItems]
  BY DEF QueueInv, Q!TypeOK
<1>3. calls' \in [Producer -> 0..MaxItems] /\ calls'[p] > 0
      /\ \A q \in Producer : calls'[q] >= calls[q]
  BY <1>1, <1>2 DEF QueueInv
<1>4. /\ ppc' \in [Producer -> {"outside", "admitted", "counting"}]
      /\ \A q \in Producer : ppc'[q] = "counting" <=> ppc[q] = "counting"
      /\ \A q \in Producer : ppc'[q] = "admitted" => ppc[q] = "admitted" \/ q = p
  BY <1>1, <1>2
<1>5. Q!TypeOK'
  BY <1>1, <1>3, <1>4 DEF QueueInv, Q!TypeOK
<1>6. CallsAreCounted'
  <2> SUFFICES ASSUME NEW q \in Producer, ppc'[q] = "admitted" PROVE calls'[q] > 0
    BY DEF CallsAreCounted
  <2>1. CASE q = p
    BY <2>1, <1>3
  <2>2. CASE q # p
    <3>1. calls[q] > 0 /\ calls[q] \in Int /\ calls'[q] \in Int
      BY <2>2, <1>2, <1>3, <1>4 DEF QueueInv, CallsAreCounted
    <3> QED
      BY <3>1, <1>3
  <2> QED
    BY <2>1, <2>2
<1>7. Counting' <=> Counting
  BY <1>4 DEF Counting
<1>8. MutexIsExclusive'
  BY <1>1, <1>4, <1>7 DEF QueueInv, MutexIsExclusive
<1>9. SizeIsExact'
  BY <1>1, <1>7 DEF QueueInv, SizeIsExact
<1> QED
  BY <1>1, <1>5, <1>6, <1>8, <1>9
     DEF QueueInv, QueuesFitConsumer, PolledIsNotEmpty, Q!PolledNeverBlocks

\* So does the push under the mutex, which appends an entry of its producer.
LEMMA PushKeepsQueueInv ==
  ASSUME QueueInv, NEW p \in Producer, Q!Push(p)
  PROVE  QueueInv' /\ <<p, calls[p]>> \in Q!Item
<1>1. /\ UNCHANGED <<consumerQueue, queueSize, shouldExit, calls, cpc, polled, spc, taken>>
      /\ wasEmpty' = (producerQueue = <<>>)
      /\ producerQueue' = Append(producerQueue, <<p, calls[p]>>)
      /\ ppc[p] = "admitted" /\ ppc' = [ppc EXCEPT ![p] = "counting"]
      /\ ~Counting /\ cpc \notin {"testing", "blocking"}
  BY DEF Q!Push, Q!MutexFree, Counting
<1>2. /\ calls[p] \in 1..MaxItems /\ ppc \in [Producer -> {"outside", "admitted", "counting"}]
      /\ producerQueue \in Seq(Q!Item)
  BY <1>1 DEF QueueInv, Q!TypeOK, CallsAreCounted
<1>3. <<p, calls[p]>> \in Q!Item
  BY <1>2 DEF Q!Item
<1>4. /\ producerQueue' \in Seq(Q!Item) /\ producerQueue' # <<>>
      /\ Len(producerQueue') = Len(producerQueue) + 1
  BY <1>1, <1>2, <1>3, AppendProperties
<1>5. /\ ppc' \in [Producer -> {"outside", "admitted", "counting"}]
      /\ \A q \in Producer : ppc'[q] = "counting" <=> q = p
      /\ \A q \in Producer : ppc'[q] = "admitted" => ppc[q] = "admitted"
  BY <1>1, <1>2 DEF Counting
<1>6. Q!TypeOK'
  <2>1. wasEmpty' \in BOOLEAN
    BY <1>1
  <2> QED
    BY <1>1, <1>4, <1>5, <2>1 DEF QueueInv, Q!TypeOK
<1>7. Counting' /\ MutexIsExclusive' /\ CallsAreCounted'
  BY <1>1, <1>5 DEF QueueInv, Counting, MutexIsExclusive, CallsAreCounted
<1>8. SizeIsExact'
  <2>1. Len(consumerQueue) + Len(producerQueue) = queueSize
        /\ Len(consumerQueue) \in Nat /\ Len(producerQueue) \in Nat /\ queueSize \in Nat
    BY <1>1, LenProperties DEF QueueInv, SizeIsExact, Q!TypeOK
  <2>2. consumerQueue' = consumerQueue /\ queueSize' = queueSize
    BY <1>1
  <2>3. Len(consumerQueue) + (Len(producerQueue) + 1) = queueSize + 1
    BY <2>1
  <2> QED
    BY <2>2, <2>3, <1>4, <1>7 DEF SizeIsExact
<1> QED
  BY <1>1, <1>3, <1>6, <1>7, <1>8
     DEF QueueInv, QueuesFitConsumer, PolledIsNotEmpty, Q!PolledNeverBlocks

\* So does the increment of mQueueSize that follows it.
LEMMA CountKeepsQueueInv ==
  ASSUME QueueInv, NEW p \in Producer, Q!Count(p)
  PROVE  QueueInv'
<1>1. /\ UNCHANGED <<producerQueue, consumerQueue, shouldExit, wasEmpty, calls, polled, spc, taken>>
      /\ queueSize' = queueSize + 1
      /\ ppc[p] = "counting" /\ ppc' = [ppc EXCEPT ![p] = "outside"]
      /\ cpc' = cpc \/ (cpc = "waiting" /\ cpc' = "woken")
  BY DEF Q!Count, Q!NotifyOne
<1>2. /\ ppc \in [Producer -> {"outside", "admitted", "counting"}]
      /\ queueSize \in Nat /\ Counting
      /\ \A q \in Producer : ppc[q] = "counting" => q = p
  BY <1>1 DEF QueueInv, Q!TypeOK, Counting, MutexIsExclusive
<1>3. /\ ppc' \in [Producer -> {"outside", "admitted", "counting"}]
      /\ \A q \in Producer : ppc'[q] # "counting"
      /\ \A q \in Producer : ppc'[q] = "admitted" => ppc[q] = "admitted"
  BY <1>1, <1>2
<1>4. Q!TypeOK'
  BY <1>1, <1>2, <1>3 DEF QueueInv, Q!TypeOK
<1>5. ~Counting' /\ MutexIsExclusive' /\ CallsAreCounted'
  BY <1>1, <1>3 DEF QueueInv, Counting, MutexIsExclusive, CallsAreCounted
<1>6. SizeIsExact'
  <2>1. Len(consumerQueue) + Len(producerQueue) = queueSize + 1
    BY <1>2 DEF QueueInv, SizeIsExact
  <2>2. Len(consumerQueue') + Len(producerQueue') = queueSize' + 0
    BY <2>1, <1>1, <1>2
  <2>3. ~Counting'
    BY <1>5
  <2> QED
    BY <2>2, <2>3 DEF SizeIsExact
<1>7. QueuesFitConsumer'
  BY <1>1 DEF QueueInv, QueuesFitConsumer
<1>8. PolledIsNotEmpty' /\ Q!PolledNeverBlocks'
  BY <1>1, <1>2 DEF QueueInv, PolledIsNotEmpty, Q!PolledNeverBlocks
<1> QED
  BY <1>4, <1>5, <1>6, <1>7, <1>8 DEF QueueInv

\* A step of the consumer from one place in dequeue to the next.
LEMMA MoveKeepsQueueInv ==
  ASSUME QueueInv, NEW from, NEW to, Q!MoveConsumer(from, to),
         to \in {"take", "testing", "blocking", "waiting", "woken", "stopped"},
         to = "take" => consumerQueue # <<>>,
         to # "take" => ~polled,
         to \in {"testing", "blocking", "waiting", "woken"} => consumerQueue = <<>>,
         to \in {"testing", "blocking"} => producerQueue = <<>> /\ ~Counting
  PROVE  QueueInv'
<1>1. /\ UNCHANGED <<producerQueue, consumerQueue, queueSize, shouldExit, ppc, wasEmpty, calls,
                     polled, spc, taken>>
      /\ cpc' = to
  BY DEF Q!MoveConsumer, Q!producerVars
<1>2. Counting' <=> Counting
  BY <1>1 DEF Counting
<1>3. Q!TypeOK'
  BY <1>1 DEF QueueInv, Q!TypeOK
<1>4. MutexIsExclusive' /\ CallsAreCounted' /\ SizeIsExact'
  BY <1>1, <1>2 DEF QueueInv, MutexIsExclusive, CallsAreCounted, SizeIsExact
<1>5. QueuesFitConsumer' /\ PolledIsNotEmpty' /\ Q!PolledNeverBlocks'
  BY <1>1 DEF QueuesFitConsumer, PolledIsNotEmpty, Q!PolledNeverBlocks
<1> QED
  BY <1>3, <1>4, <1>5 DEF QueueInv

\* With both buffers empty and nobody counting, empty() cannot have returned false.
LEMMA EmptyQueuesAreNotPolled ==
  ASSUME QueueInv, cpc = "dequeue", consumerQueue = <<>>, producerQueue = <<>>, Q!MutexFree
  PROVE  ~polled /\ ~Counting
<1>1. ~Counting
  BY DEF Q!MutexFree, Counting
<1>2. queueSize = 0
  <2>1. Len(consumerQueue) = 0 /\ Len(producerQueue) = 0 /\ queueSize \in Nat
    BY EmptySeq DEF QueueInv, Q!TypeOK
  <2> QED
    BY <1>1, <2>1 DEF QueueInv, SizeIsExact
<1> QED
  BY <1>1, <1>2 DEF QueueInv, PolledIsNotEmpty

\* A call of dequeue keeps it, polled or not.
LEMMA CallKeepsQueueInv ==
  ASSUME QueueInv, Q!CallDequeue \/ Q!PollAndCallDequeue
  PROVE  QueueInv'
<1>1. /\ UNCHANGED <<producerQueue, consumerQueue, queueSize, shouldExit, ppc, wasEmpty, calls,
                     spc, taken>>
      /\ cpc' = "dequeue" /\ polled' \in BOOLEAN /\ (polled' => queueSize # 0)
  BY DEF Q!CallDequeue, Q!PollAndCallDequeue, Q!producerVars
<1>2. Counting' <=> Counting
  BY <1>1 DEF Counting
<1>3. Q!TypeOK'
  BY <1>1 DEF QueueInv, Q!TypeOK
<1>4. MutexIsExclusive' /\ CallsAreCounted' /\ SizeIsExact' /\ QueuesFitConsumer'
  BY <1>1, <1>2 DEF QueueInv, MutexIsExclusive, CallsAreCounted, SizeIsExact, QueuesFitConsumer
<1>5. Q!PolledNeverBlocks'
  BY <1>1 DEF Q!PolledNeverBlocks
<1>6. PolledIsNotEmpty'
  <2>1. queueSize \in Nat
    BY DEF QueueInv, Q!TypeOK
  <2> QED
    BY <1>1, <2>1 DEF PolledIsNotEmpty
<1> QED
  BY <1>3, <1>4, <1>5, <1>6 DEF QueueInv

\* So does the swap of the buffers.
LEMMA SwapKeepsQueueInv ==
  ASSUME QueueInv, NEW pc, Q!SwapQueues(pc)
  PROVE  QueueInv'
<1>1. /\ UNCHANGED <<queueSize, shouldExit, ppc, wasEmpty, calls, polled, spc, taken>>
      /\ producerQueue # <<>> /\ producerQueue' = consumerQueue /\ consumerQueue' = producerQueue
      /\ cpc' = "take" /\ ~Counting
  BY DEF Q!SwapQueues, Q!producerVars, Q!MutexFree, Counting
<1>2. ~Counting'
  BY <1>1 DEF Counting
<1>3. Q!TypeOK'
  BY <1>1 DEF QueueInv, Q!TypeOK
<1>4. SizeIsExact'
  <2>1. Len(consumerQueue) \in Nat /\ Len(producerQueue) \in Nat
    BY LenProperties DEF QueueInv, Q!TypeOK
  <2>2. Len(producerQueue) + Len(consumerQueue) = Len(consumerQueue) + Len(producerQueue)
    BY <2>1
  <2> QED
    BY <1>1, <1>2, <2>2 DEF QueueInv, SizeIsExact
<1>5. MutexIsExclusive' /\ CallsAreCounted' /\ QueuesFitConsumer'
  BY <1>1, <1>2 DEF QueueInv, MutexIsExclusive, CallsAreCounted, QueuesFitConsumer
<1>6. PolledIsNotEmpty' /\ Q!PolledNeverBlocks'
  BY <1>1 DEF PolledIsNotEmpty, Q!PolledNeverBlocks
<1> QED
  BY <1>3, <1>4, <1>5, <1>6 DEF QueueInv

\* So does taking the head of mConsumerQueue.
LEMMA TakeKeepsQueueInv ==
  ASSUME QueueInv, Q!Take
  PROVE  QueueInv'
<1>1. /\ UNCHANGED <<producerQueue, shouldExit, ppc, wasEmpty, calls, polled, spc>>
      /\ cpc = "take" /\ cpc' = "idle"
      /\ queueSize' = queueSize - 1
      /\ taken' = Append(taken, Head(consumerQueue)) /\ consumerQueue' = Tail(consumerQueue)
  BY DEF Q!Take, Q!producerVars
<1>2. /\ consumerQueue \in Seq(Q!Item) /\ producerQueue \in Seq(Q!Item) /\ taken \in Seq(Q!Item)
      /\ queueSize \in Nat /\ consumerQueue # <<>>
  BY <1>1 DEF QueueInv, Q!TypeOK, QueuesFitConsumer
<1>3. /\ Head(consumerQueue) \in Q!Item /\ consumerQueue' \in Seq(Q!Item)
      /\ Len(consumerQueue') = Len(consumerQueue) - 1
      /\ Len(consumerQueue) \in Nat \ {0} /\ Len(producerQueue) \in Nat
  BY <1>1, <1>2, HeadTailProperties, EmptySeq, LenProperties
<1>4. taken' \in Seq(Q!Item)
  BY <1>1, <1>2, <1>3, AppendProperties
<1>5. Counting' <=> Counting
  BY <1>1 DEF Counting
<1>6. SizeIsExact' /\ queueSize' \in Nat
  <2>1. CASE Counting
    <3>1. /\ Len(consumerQueue) + Len(producerQueue) = queueSize + 1
          /\ producerQueue # <<>>
      BY <2>1 DEF QueueInv, SizeIsExact
    <3>2. Len(producerQueue) \in Nat \ {0}
      BY <3>1, <1>2, EmptySeq
    <3>3. queueSize' \in Nat /\ Len(consumerQueue') + Len(producerQueue) = queueSize' + 1
      BY <3>1, <3>2, <1>1, <1>2, <1>3
    <3> QED
      BY <3>1, <3>3, <2>1, <1>1, <1>5 DEF SizeIsExact
  <2>2. CASE ~Counting
    <3>1. Len(consumerQueue) + Len(producerQueue) = queueSize
      BY <2>2, <1>2 DEF QueueInv, SizeIsExact
    <3>2. queueSize' \in Nat /\ Len(consumerQueue') + Len(producerQueue) = queueSize' + 0
      BY <3>1, <1>1, <1>2, <1>3
    <3> QED
      BY <3>2, <2>2, <1>1, <1>5 DEF SizeIsExact
  <2> QED
    BY <2>1, <2>2
<1>7. Q!TypeOK'
  BY <1>1, <1>3, <1>4, <1>6 DEF QueueInv, Q!TypeOK
<1>8. MutexIsExclusive' /\ CallsAreCounted' /\ QueuesFitConsumer'
  BY <1>1, <1>5 DEF QueueInv, MutexIsExclusive, CallsAreCounted, QueuesFitConsumer
<1>9. PolledIsNotEmpty' /\ Q!PolledNeverBlocks'
  BY <1>1 DEF PolledIsNotEmpty, Q!PolledNeverBlocks
<1> QED
  BY <1>6, <1>7, <1>8, <1>9 DEF QueueInv

\* So does shutdown.
LEMMA ShutdownKeepsQueueInv ==
  ASSUME QueueInv, Q!SetShouldExit \/ Q!NotifyExit
  PROVE  QueueInv'
<1>1. /\ UNCHANGED <<producerQueue, consumerQueue, queueSize, ppc, wasEmpty, calls, polled, taken>>
      /\ shouldExit' \in BOOLEAN /\ spc' \in {"notify", "done"}
      /\ cpc' = cpc \/ (cpc = "waiting" /\ cpc' = "woken")
  BY DEF Q!SetShouldExit, Q!NotifyExit, Q!NotifyOne, Q!producerVars, QueueInv, Q!TypeOK
<1>2. Counting' <=> Counting
  BY <1>1 DEF Counting
<1>3. Q!TypeOK'
  BY <1>1 DEF QueueInv, Q!TypeOK
<1>4. MutexIsExclusive' /\ CallsAreCounted' /\ SizeIsExact' /\ QueuesFitConsumer'
  BY <1>1, <1>2 DEF QueueInv, MutexIsExclusive, CallsAreCounted, SizeIsExact, QueuesFitConsumer
<1>5. PolledIsNotEmpty' /\ Q!PolledNeverBlocks'
  BY <1>1 DEF QueueInv, PolledIsNotEmpty, Q!PolledNeverBlocks
<1> QED
  BY <1>3, <1>4, <1>5 DEF QueueInv

\* Every step of dequeue keeps it.
LEMMA DequeueKeepsQueueInv ==
  ASSUME QueueInv, Q!Dequeue \/ Q!WakeSpuriously
  PROVE  QueueInv'
<1>1. CASE Q!UseConsumerQueue
  BY <1>1, MoveKeepsQueueInv DEF Q!UseConsumerQueue
<1>2. CASE Q!SwapQueues("dequeue") \/ Q!SwapQueues("woken")
  BY <1>2, SwapKeepsQueueInv
<1>3. CASE Q!FindStopped
  <2>1. cpc = "dequeue" /\ Q!MoveConsumer("dequeue", "stopped") /\ ~polled
    BY <1>3, EmptyQueuesAreNotPolled DEF Q!FindStopped, Q!MoveConsumer
  <2> QED
    BY <2>1, MoveKeepsQueueInv
<1>4. CASE Q!FindEmpty
  <2>1. /\ Q!MoveConsumer("dequeue", "testing") /\ ~polled /\ ~Counting
        /\ consumerQueue = <<>> /\ producerQueue = <<>>
    BY <1>4, EmptyQueuesAreNotPolled DEF Q!FindEmpty, Q!MoveConsumer
  <2> QED
    BY <2>1, MoveKeepsQueueInv
<1>5. CASE Q!TestPredicate
  <2>1. PICK to \in {"stopped", "blocking"} : Q!MoveConsumer("testing", to)
    BY <1>5 DEF Q!TestPredicate
  <2>2. ~polled /\ ~Counting /\ consumerQueue = <<>> /\ producerQueue = <<>>
    BY <2>1 DEF Q!MoveConsumer, QueueInv, Q!TypeOK, Q!PolledNeverBlocks, MutexIsExclusive, QueuesFitConsumer
  <2> QED
    BY <2>1, <2>2, MoveKeepsQueueInv
<1>6. CASE Q!Block
  <2>1. Q!MoveConsumer("blocking", "waiting") /\ ~polled /\ consumerQueue = <<>>
    BY <1>6 DEF Q!Block, Q!MoveConsumer, QueueInv, Q!TypeOK, Q!PolledNeverBlocks, QueuesFitConsumer
  <2> QED
    BY <2>1, MoveKeepsQueueInv
<1>7. CASE Q!WakeSpuriously
  <2>1. Q!MoveConsumer("waiting", "woken") /\ ~polled /\ consumerQueue = <<>>
    BY <1>7 DEF Q!WakeSpuriously, Q!MoveConsumer, QueueInv, Q!TypeOK, Q!PolledNeverBlocks, QueuesFitConsumer
  <2> QED
    BY <2>1, MoveKeepsQueueInv
<1>8. CASE Q!ResumeStopped
  <2>1. Q!MoveConsumer("woken", "stopped") /\ ~polled
    BY <1>8 DEF Q!ResumeStopped, Q!MoveConsumer, QueueInv, Q!TypeOK, Q!PolledNeverBlocks
  <2> QED
    BY <2>1, MoveKeepsQueueInv
<1>9. CASE Q!ResumeWaiting
  <2>1. /\ Q!MoveConsumer("woken", "blocking") /\ ~polled /\ ~Counting
        /\ consumerQueue = <<>> /\ producerQueue = <<>>
    BY <1>9 DEF Q!ResumeWaiting, Q!MoveConsumer, Q!MutexFree, Counting, QueueInv, Q!TypeOK,
                Q!PolledNeverBlocks, QueuesFitConsumer
  <2> QED
    BY <2>1, MoveKeepsQueueInv
<1>10. CASE Q!Take
  BY <1>10, TakeKeepsQueueInv
<1> QED
  BY <1>1, <1>2, <1>3, <1>4, <1>5, <1>6, <1>7, <1>8, <1>9, <1>10 DEF Q!Dequeue

\* Every step of the queue keeps it.
LEMMA QueueInvStep == QueueInv /\ [Q!Next]_(Q!vars) => QueueInv'
<1> SUFFICES ASSUME QueueInv, [Q!Next]_(Q!vars) PROVE QueueInv'
  OBVIOUS
<1>1. ASSUME NEW p \in Producer, Q!Admit(p) \/ Q!Refuse(p) \/ Q!Push(p) \/ Q!Count(p) PROVE QueueInv'
  BY <1>1, AdmitKeepsQueueInv, PushKeepsQueueInv, CountKeepsQueueInv
<1>2. CASE UNCHANGED Q!vars
  BY <1>2 DEF Q!vars, QueueInv, Q!TypeOK, Counting, MutexIsExclusive, CallsAreCounted,
              QueuesFitConsumer, SizeIsExact, PolledIsNotEmpty, Q!PolledNeverBlocks
<1> QED
  BY <1>1, <1>2, CallKeepsQueueInv, DequeueKeepsQueueInv, ShutdownKeepsQueueInv DEF Q!Next

\* The raft loop and the batching loop, which call dequeue only after empty() has
\* returned false, are never blocked by it, whatever the producers do.
THEOREM PolledDequeueNeverBlocks ==
  ASSUME MaxItems \in Nat
  PROVE  Q!Spec => []Q!PolledNeverBlocks
<1>1. QueueInv => Q!PolledNeverBlocks
  BY DEF QueueInv
<1> QED
  BY <1>1, QueueInvInit, QueueInvStep, PTL DEF Q!Spec

-----------------------------------------------------------------------------
(* The refinement *)

\* A push appends its entry to what the queue holds.
LEMMA ItemsOfProducer ==
  ASSUME QueueInv, NEW p \in Producer, Q!Push(p)
  PROVE  Q!Items' = Append(Q!Items, <<p, calls[p]>>)
<1>1. producerQueue' = Append(producerQueue, <<p, calls[p]>>) /\ consumerQueue' = consumerQueue
  BY DEF Q!Push
<1>2. <<p, calls[p]>> \in Q!Item
  BY PushKeepsQueueInv
<1>3. producerQueue \in Seq(Q!Item) /\ consumerQueue \in Seq(Q!Item)
  BY DEF QueueInv, Q!TypeOK
<1> QED
  BY <1>1, <1>2, <1>3, ConcatAppend DEF Q!Items

\* A step of a producer is one of the abstract queue.
LEMMA ProducerStepRefines ==
  ASSUME QueueInv, NEW p \in Producer, Q!Admit(p) \/ Q!Refuse(p) \/ Q!Push(p) \/ Q!Count(p)
  PROVE  [Q!Abstract!Next]_(Q!Abstract!vars)
<1> DEFINE Inside == {q \in Producer : ppc[q] = "admitted"}
<1>0. ppc \in [Producer -> {"outside", "admitted", "counting"}]
  BY DEF QueueInv, Q!TypeOK
<1>1. CASE Q!Admit(p)
  <2>1. /\ ~shouldExit /\ p \notin Inside
        /\ Inside' = Inside \cup {p}
    BY <1>0, <1>1 DEF Q!Admit
  <2>2. Q!Items' = Q!Items /\ taken' = taken /\ shouldExit' = shouldExit /\ cpc' = cpc
    BY <1>1 DEF Q!Admit, Q!Items
  <2>3. Q!Abstract!Admit(p)
    BY <2>1, <2>2 DEF Q!Abstract!Admit
  <2> QED
    BY <2>3 DEF Q!Abstract!Next
<1>2. CASE Q!Refuse(p)
  BY <1>2 DEF Q!Refuse, Q!Items, Q!Abstract!vars
<1>3. CASE Q!Push(p)
  <2>1. p \in Inside /\ Inside' = Inside \ {p}
    BY <1>0, <1>3 DEF Q!Push
  <2>2. taken' = taken /\ shouldExit' = shouldExit /\ cpc' = cpc
    BY <1>3 DEF Q!Push
  <2>3. Q!Items' = Append(Q!Items, <<p, calls[p]>>) /\ <<p, calls[p]>> \in Q!Item
    BY <1>3, ItemsOfProducer, PushKeepsQueueInv
  <2>4. PICK i \in Q!Item : Q!Items' = Append(Q!Items, i)
    BY <2>3
  <2>5. Q!Abstract!Insert(p, i)
    BY <2>1, <2>2, <2>4 DEF Q!Abstract!Insert
  <2> QED
    BY <2>5 DEF Q!Abstract!Next
<1>4. CASE Q!Count(p)
  <2>1. Inside' = Inside
    BY <1>0, <1>4 DEF Q!Count
  <2>2. Q!Items' = Q!Items /\ taken' = taken /\ shouldExit' = shouldExit
    BY <1>4 DEF Q!Count, Q!Items
  <2>3. (cpc' = "stopped") = (cpc = "stopped")
    BY <1>4 DEF Q!Count, Q!NotifyOne
  <2> QED
    BY <2>1, <2>2, <2>3 DEF Q!Abstract!vars
<1> QED
  BY <1>1, <1>2, <1>3, <1>4

\* The consumer moves on inside dequeue: a stuttering step, unless it gives up.
LEMMA MoveRefines ==
  ASSUME QueueInv, NEW from, NEW to, Q!MoveConsumer(from, to), from # "stopped",
         to = "stopped" => shouldExit /\ consumerQueue = <<>> /\ producerQueue = <<>>
  PROVE  [Q!Abstract!Next]_(Q!Abstract!vars)
<1>1. /\ UNCHANGED <<producerQueue, consumerQueue, shouldExit, ppc, taken>>
      /\ cpc = from /\ cpc' = to
  BY DEF Q!MoveConsumer, Q!producerVars
<1>2. CASE to # "stopped"
  BY <1>1, <1>2 DEF Q!Items, Q!Abstract!vars
<1>3. CASE to = "stopped"
  <2>1. Q!Items = <<>>
    BY <1>3, ConcatEmptySeq, EmptySeq DEF Q!Items
  <2>2. Q!Abstract!Finish
    BY <1>1, <1>3, <2>1 DEF Q!Abstract!Finish, Q!Items
  <2> QED
    BY <2>2 DEF Q!Abstract!Next
<1> QED
  BY <1>2, <1>3

\* The swap leaves the entries of the queue, and their order, alone.
LEMMA SwapRefines ==
  ASSUME QueueInv, NEW pc, Q!SwapQueues(pc), pc # "stopped"
  PROVE  [Q!Abstract!Next]_(Q!Abstract!vars)
<1>1. /\ UNCHANGED <<shouldExit, ppc, taken>>
      /\ consumerQueue = <<>> /\ producerQueue' = <<>> /\ consumerQueue' = producerQueue
      /\ cpc = pc /\ cpc' = "take"
  BY DEF Q!SwapQueues, Q!producerVars
<1>2. producerQueue \in Seq(Q!Item)
  BY DEF QueueInv, Q!TypeOK
<1>3. producerQueue \o <<>> = <<>> \o producerQueue
  BY <1>2, ConcatEmptySeq
<1>4. Q!Items' = Q!Items
  BY <1>1, <1>3 DEF Q!Items
<1> QED
  BY <1>1, <1>4 DEF Q!Abstract!vars

\* Taking the head of mConsumerQueue takes the head of the abstract queue.
LEMMA TakeRefines ==
  ASSUME QueueInv, Q!Take
  PROVE  Q!Abstract!Remove
<1>1. /\ UNCHANGED <<producerQueue, shouldExit, ppc>>
      /\ cpc = "take" /\ cpc' = "idle"
      /\ taken' = Append(taken, Head(consumerQueue)) /\ consumerQueue' = Tail(consumerQueue)
  BY DEF Q!Take, Q!producerVars
<1>2. consumerQueue \in Seq(Q!Item) /\ producerQueue \in Seq(Q!Item) /\ consumerQueue # <<>>
  BY <1>1 DEF QueueInv, Q!TypeOK, QueuesFitConsumer
<1>3. /\ Q!Items # <<>> /\ Head(Q!Items) = Head(consumerQueue)
      /\ Tail(Q!Items) = Tail(consumerQueue) \o producerQueue
  BY <1>2, HeadTailConcat DEF Q!Items
<1>4. taken' = Append(taken, Head(Q!Items)) /\ Q!Items' = Tail(Q!Items)
  BY <1>1, <1>3 DEF Q!Items
<1> QED
  BY <1>1, <1>3, <1>4 DEF Q!Abstract!Remove

\* A step of the consumer is one of the abstract queue.
LEMMA ConsumerStepRefines ==
  ASSUME QueueInv, Q!CallDequeue \/ Q!PollAndCallDequeue \/ Q!Dequeue \/ Q!WakeSpuriously
  PROVE  [Q!Abstract!Next]_(Q!Abstract!vars)
<1>1. CASE Q!CallDequeue \/ Q!PollAndCallDequeue
  BY <1>1 DEF Q!CallDequeue, Q!PollAndCallDequeue, Q!producerVars, Q!Items, Q!Abstract!vars
<1>2. CASE Q!UseConsumerQueue \/ Q!FindEmpty \/ Q!Block \/ Q!ResumeWaiting \/ Q!WakeSpuriously
  BY <1>2, MoveRefines DEF Q!UseConsumerQueue, Q!FindEmpty, Q!Block, Q!ResumeWaiting, Q!WakeSpuriously
<1>3. CASE Q!SwapQueues("dequeue") \/ Q!SwapQueues("woken")
  BY <1>3, SwapRefines
<1>4. CASE Q!FindStopped
  BY <1>4, MoveRefines DEF Q!FindStopped
<1>5. CASE Q!TestPredicate
  <2>1. PICK to \in {"stopped", "blocking"} : Q!MoveConsumer("testing", to)
                                              /\ (to = "stopped" => shouldExit)
    BY <1>5 DEF Q!TestPredicate
  <2>2. consumerQueue = <<>> /\ producerQueue = <<>>
    BY <2>1 DEF Q!MoveConsumer, QueueInv, QueuesFitConsumer
  <2> QED
    BY <2>1, <2>2, MoveRefines
<1>6. CASE Q!ResumeStopped
  <2>1. consumerQueue = <<>>
    BY <1>6 DEF Q!ResumeStopped, Q!MoveConsumer, QueueInv, QueuesFitConsumer
  <2> QED
    BY <1>6, <2>1, MoveRefines DEF Q!ResumeStopped
<1>7. CASE Q!Take
  BY <1>7, TakeRefines DEF Q!Abstract!Next
<1> QED
  BY <1>1, <1>2, <1>3, <1>4, <1>5, <1>6, <1>7 DEF Q!Dequeue

\* So is a step of shutdown.
LEMMA ShutdownRefines ==
  ASSUME QueueInv, Q!SetShouldExit \/ Q!NotifyExit
  PROVE  [Q!Abstract!Next]_(Q!Abstract!vars)
<1>1. CASE Q!SetShouldExit
  <2>1. Q!Abstract!Shutdown
    BY <1>1 DEF Q!SetShouldExit, Q!producerVars, Q!Items, Q!Abstract!Shutdown
  <2> QED
    BY <2>1 DEF Q!Abstract!Next
<1>2. CASE Q!NotifyExit
  BY <1>2 DEF Q!NotifyExit, Q!NotifyOne, Q!producerVars, Q!Items, Q!Abstract!vars
<1> QED
  BY <1>1, <1>2

\* Every behaviour of the double buffer is one of the queue that MpscQueue.h promises:
\* first in, first out, nothing lost or repeated by the swap, and dequeue throws only
\* when the queue has been shut down and is empty.
THEOREM DoubleBufferImplementsQueue ==
  ASSUME MaxItems \in Nat
  PROVE  Q!Spec => Q!ImplementsMpscQueue
<1>1. Q!Init => Q!Abstract!Init
  <2>1. Q!Init => Q!Items = <<>>
    BY ConcatEmptySeq, EmptySeq DEF Q!Init, Q!Items
  <2> QED
    BY <2>1 DEF Q!Init, Q!Abstract!Init
<1>2. QueueInv /\ [Q!Next]_(Q!vars) => [Q!Abstract!Next]_(Q!Abstract!vars)
  <2> SUFFICES ASSUME QueueInv, [Q!Next]_(Q!vars) PROVE [Q!Abstract!Next]_(Q!Abstract!vars)
    OBVIOUS
  <2>1. CASE UNCHANGED Q!vars
    BY <2>1 DEF Q!vars, Q!Items, Q!Abstract!vars
  <2> QED
    BY <2>1, ProducerStepRefines, ConsumerStepRefines, ShutdownRefines DEF Q!Next
<1> QED
  BY <1>1, <1>2, QueueInvInit, QueueInvStep, PTL DEF Q!Spec, Q!ImplementsMpscQueue, Q!Abstract!Spec
=============================================================================
