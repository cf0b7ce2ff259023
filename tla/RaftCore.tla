------------------------------- MODULE RaftCore -------------------------------
(***************************************************************************)
(* The Raft v2 main loop of infra/raft/v2/RaftCore.cpp.                    *)
(*                                                                         *)
(* One server runs one loop thread; every action below is one call that    *)
(* raftLoopMain makes (send, receive one event, advance, time out) with    *)
(* everything the callee does.  The order in which the loop makes its      *)
(* calls is left open, and so is time: a timer may have expired whenever   *)
(* the code tests it.                                                      *)
(*                                                                         *)
(* An RPC is one record of rpcs.  It is a request until the callee has     *)
(* handled it and a response after that; the caller sees each of its calls *)
(* complete exactly once, with the response or with an error status.  A    *)
(* request whose call failed, or whose caller crashed, is no longer open   *)
(* but may still reach the callee.                                         *)
(***************************************************************************)
EXTENDS Integers, Sequences, FiniteSets

CONSTANTS
  Server,          \* the node ids of the cluster
  Nobody,          \* the id 0: no vote, no leader
  MaxBatchSize,    \* mMaxBatchSize: entries of one AE_req
  MaxDecrStep,     \* mMaxDecrStep: largest step back of mNextIndex
  Electable,       \* bound: the servers whose election timer ever expires
  Crashable,       \* bound: the servers that ever crash
  Links,           \* bound: the pairs of servers that can reach each other
  MaxTerm,         \* bound on terms
  MaxLogLen,       \* bound on the length of a log
  MaxCalls,        \* bound on the RPCs in flight from one server to another
  MaxErrors,       \* bound on the RPCs that end with an error status
  MaxCrashes,      \* bound on crashes
  MaxTruncations   \* bound on truncatePrefix requests of the administrator

ASSUME ServerAssumption == IsFiniteSet(Server) /\ Server # {} /\ Nobody \notin Server
ASSUME ConfigurableVarsAssumption == MaxBatchSize \in Nat \ {0} /\ MaxDecrStep \in Nat \ {0}
ASSUME BoundAssumption ==
  /\ Electable \subseteq Server
  /\ Crashable \subseteq Server
  /\ Links \subseteq Server \X Server
  /\ MaxTerm \in Nat
  /\ MaxLogLen \in Nat
  /\ MaxCalls \in Nat
  /\ MaxErrors \in Nat
  /\ MaxCrashes \in Nat
  /\ MaxTruncations \in Nat

VARIABLES
  role,            \* mRaftRole
  currentTerm,     \* persistent: current_term of the log's meta storage
  voteFor,         \* persistent: vote_for of the log's meta storage
  log,             \* persistent: the term of every entry ever kept at 1, 2, ...
  firstIndex,      \* persistent: entries below it are discarded
  commitIndex,     \* mCommitIndex
  leaderId,        \* mLeaderId
  peers,           \* mPeers
  pending,         \* mPendingClientRequests, <<index, term>> of each handle
  rpcs,            \* the RPCs in flight
  votes,           \* history: <<voter, term, candidate>> of every vote cast
  elected,         \* history: <<term, server>> of every becomeLeader
  committed,       \* history: <<index, term>> of every advanceCommitIndex
  acked,           \* history: <<index, term>> answered with code 200
  failedAsserts,   \* history: the assertions that aborted a process
  leaderLog,       \* history: the log of the leader of each term, as far as it got
  electors,        \* history: the servers whose votes made the leader of each term
  errors, crashes, truncations   \* bounded counters

persistent == <<currentTerm, voteFor, log, firstIndex>>
volatile   == <<role, commitIndex, leaderId, peers, pending>>
history    == <<votes, elected, committed, acked, failedAsserts, leaderLog, electors>>
counters   == <<errors, crashes, truncations>>
vars       == <<persistent, volatile, rpcs, history, counters>>

Term  == 0 .. MaxTerm
Index == 0 .. MaxLogLen
CallId == 1 .. MaxCalls
Role  == {"Follower", "Candidate", "Leader"}
Assertion == {"LeaderId", "TruncateCommitted", "StillLeader", "MatchIncreases",
              "MatchWithinLog", "Gap", "TermOfLogEntry", "CommitWithinLog"}

Peer == [requestVoteDone : BOOLEAN, haveVote : BOOLEAN, matchIndex : Index,
         nextIndex : 1 .. MaxLogLen + 1, suppressBulkData : BOOLEAN, switchOn : BOOLEAN]

\* std::min and std::max
Min(S) == CHOOSE x \in S : \A y \in S : x <= y
Max(S) == CHOOSE x \in S : \A y \in S : x >= y

-----------------------------------------------------------------------------
(* The log, as Log.h and SegmentLog.cpp answer the questions asked of it.  *)

LastLogIndex(s) == Len(log[s])

HasTerm(s, i) == firstIndex[s] - 1 <= i /\ i <= LastLogIndex(s)

\* getTerm: 0 just below the first index, whatever entry once stood there.
TermOfLogEntryAt(s, i) == IF i = firstIndex[s] - 1 THEN 0 ELSE log[s][i]

LastLogTerm(s) == TermOfLogEntryAt(s, LastLogIndex(s))

\* getEntries: nothing for a heartbeat or for a discarded start index.
GetEntries(s, start) ==
  IF start < firstIndex[s] THEN <<>>
  ELSE SubSeq(log[s], start, Min({LastLogIndex(s), start + MaxBatchSize - 1}))

-----------------------------------------------------------------------------
(* RPCs.                                                                   *)

NewPeer == [requestVoteDone |-> FALSE, haveVote |-> FALSE, matchIndex |-> 0,
            nextIndex |-> 1, suppressBulkData |-> TRUE, switchOn |-> TRUE]

FreeCalls(s, p) == {c \in CallId : \A m \in rpcs : ~(m.src = s /\ m.dst = p /\ m.call = c)}

IsRequest(m) == m.kind \in {"AE_req", "RV_req"}
IsResponse(m) == m.kind \in {"AE_resp", "RV_resp"}
Awaited(m) == IF IsRequest(m) THEN m.open ELSE TRUE
Arrived(m, kind) == m \in rpcs /\ m.kind = kind

\* The callee answers: an open call turns into its response, any other is forgotten.
Reply(m, response) ==
  rpcs' = (rpcs \ {m}) \union (IF m.open THEN {response} ELSE {})

\* What is left of the RPCs when s dies: nobody waits for its calls any more.
Orphaned(s, R) ==
  {IF m.src = s /\ IsRequest(m) THEN [m EXCEPT !.open = FALSE] ELSE m :
     m \in {r \in R : ~(r.src = s /\ IsResponse(r))}}

\* receiveMessage turns the switch of the peer on for every response or error.
SwitchedOn(m) == [peers EXCEPT ![m.src][m.dst].switchOn = TRUE]

-----------------------------------------------------------------------------
(* Pieces shared by several handlers.                                      *)

\* Role, term, vote and leader hint after stepDown(newTerm).
StepDown(s, newTerm) ==
  /\ role' = [role EXCEPT ![s] = "Follower"]
  /\ currentTerm' = [currentTerm EXCEPT ![s] = newTerm]
  /\ voteFor' = [voteFor EXCEPT ![s] = IF newTerm > currentTerm[s] THEN Nobody ELSE @]
  /\ leaderId' = [leaderId EXCEPT ![s] = IF newTerm > currentTerm[s] THEN Nobody ELSE @]
  /\ pending' = [pending EXCEPT ![s] = IF role[s] = "Leader" THEN {} ELSE @]

\* A new process has the members' initial values; only the log and its meta survive.
LoseVolatile(s) ==
  /\ role' = [role EXCEPT ![s] = "Follower"]
  /\ commitIndex' = [commitIndex EXCEPT ![s] = 0]
  /\ leaderId' = [leaderId EXCEPT ![s] = Nobody]
  /\ peers' = [peers EXCEPT ![s] = [p \in Server |-> NewPeer]]
  /\ pending' = [pending EXCEPT ![s] = {}]

\* assert() is compiled into every build: the process aborts and is started again.
Abort(s, assertion, R) ==
  /\ failedAsserts' = failedAsserts \union {assertion}
  /\ LoseVolatile(s)
  /\ rpcs' = Orphaned(s, R)
  /\ UNCHANGED <<persistent, votes, elected, committed, acked, leaderLog, electors, counters>>

-----------------------------------------------------------------------------
(* Sending.                                                                *)

\* requestVote() for one peer whose switch is on.
RequestVote(s, p) ==
  /\ role[s] = "Candidate" /\ p # s /\ <<s, p>> \in Links
  /\ ~peers[s][p].requestVoteDone
  /\ peers[s][p].switchOn
  /\ FreeCalls(s, p) # {}
  /\ rpcs' = rpcs \union
       {[kind |-> "RV_req", call |-> Min(FreeCalls(s, p)), src |-> s, dst |-> p, open |-> TRUE,
         term |-> currentTerm[s], lastLogIndex |-> LastLogIndex(s),
         lastLogTerm |-> LastLogTerm(s)]}
  /\ peers' = [peers EXCEPT ![s][p].switchOn = FALSE]
  /\ UNCHANGED <<persistent, role, commitIndex, leaderId, pending, history, counters>>

\* (a faulty variant: the leader's own index, however far the follower is)
SendOwnCommitIndex(s, prev, n) == commitIndex[s]

\* A follower may commit no further than the entries this request vouches for.
CommitIndexToSend(s, prev, n) == Min({commitIndex[s], prev + n})

\* appendEntries() for one peer whose switch is on.
AppendEntries(s, p) ==
  LET prev    == peers[s][p].nextIndex - 1
      entries == IF peers[s][p].suppressBulkData THEN <<>> ELSE GetEntries(s, prev + 1)
  IN
  /\ role[s] = "Leader" /\ p # s /\ <<s, p>> \in Links
  /\ peers[s][p].switchOn
  /\ FreeCalls(s, p) # {}
  /\ IF HasTerm(s, prev)
     THEN /\ rpcs' = rpcs \union
               {[kind |-> "AE_req", call |-> Min(FreeCalls(s, p)), src |-> s, dst |-> p,
                 open |-> TRUE, term |-> currentTerm[s],
                 prevLogIndex |-> prev, prevLogTerm |-> TermOfLogEntryAt(s, prev),
                 entries |-> entries,
                 commitIndex |-> CommitIndexToSend(s, prev, Len(entries))]}
          /\ peers' = [peers EXCEPT ![s][p].switchOn = FALSE]
          /\ UNCHANGED <<persistent, role, commitIndex, leaderId, pending, history, counters>>
     ELSE Abort(s, "TermOfLogEntry", rpcs)

-----------------------------------------------------------------------------
(* Votes.                                                                  *)

\* (a faulty variant: the longer log wins, whatever its last term)
LongerLogIsUpToDate(s, m) == m.lastLogIndex >= LastLogIndex(s)

LogIsUpToDate(s, m) ==
  \/ m.lastLogTerm > LastLogTerm(s)
  \/ m.lastLogTerm = LastLogTerm(s) /\ m.lastLogIndex >= LastLogIndex(s)

RequestVoteResponse(m, term, granted) ==
  [kind |-> "RV_resp", call |-> m.call, src |-> m.src, dst |-> m.dst,
   term |-> term, voteGranted |-> granted, savedTerm |-> m.term]

\* (a faulty variant: a vote already given in the term is forgotten)
GrantsSecondVote(s, m) == m.term >= currentTerm[s] /\ LogIsUpToDate(s, m)

\* A vote is due when the log is good enough and the vote of the term is free,
\* as it is in every newer term.
GrantsVote(s, m) ==
  /\ m.term >= currentTerm[s]
  /\ LogIsUpToDate(s, m)
  /\ m.term > currentTerm[s] \/ voteFor[s] \in {Nobody, m.src}

HandleRequestVoteRequest(m) ==
  LET s == m.dst
      granted == GrantsVote(s, m)
  IN
  /\ Arrived(m, "RV_req")
  /\ Reply(m, RequestVoteResponse(m, Max({m.term, currentTerm[s]}), granted))
  /\ IF m.term > currentTerm[s]
     THEN /\ role' = [role EXCEPT ![s] = "Follower"]
          /\ currentTerm' = [currentTerm EXCEPT ![s] = m.term]
          /\ leaderId' = [leaderId EXCEPT ![s] = Nobody]
          /\ pending' = [pending EXCEPT ![s] = IF role[s] = "Leader" THEN {} ELSE @]
          /\ voteFor' = [voteFor EXCEPT ![s] = IF granted THEN m.src ELSE Nobody]
     ELSE /\ voteFor' = [voteFor EXCEPT ![s] = IF granted THEN m.src ELSE @]
          /\ UNCHANGED <<role, currentTerm, leaderId, pending>>
  /\ votes' = IF granted THEN votes \union {<<s, m.term, m.src>>} ELSE votes
  /\ UNCHANGED <<log, firstIndex, commitIndex, peers, elected, committed, acked,
                 failedAsserts, leaderLog, electors, counters>>

\* handleRequestVoteResponse, the three ways it goes.
IgnoreRequestVoteResponse(m) ==
  /\ Arrived(m, "RV_resp")
  /\ currentTerm[m.src] # m.savedTerm \/ role[m.src] # "Candidate"
  /\ peers' = SwitchedOn(m)
  /\ rpcs' = rpcs \ {m}
  /\ UNCHANGED <<persistent, role, commitIndex, leaderId, pending, history, counters>>

StepDownOnRequestVoteResponse(m) ==
  /\ Arrived(m, "RV_resp")
  /\ currentTerm[m.src] = m.savedTerm /\ role[m.src] = "Candidate"
  /\ m.term > currentTerm[m.src]
  /\ StepDown(m.src, m.term)
  /\ peers' = SwitchedOn(m)
  /\ rpcs' = rpcs \ {m}
  /\ UNCHANGED <<log, firstIndex, commitIndex, history, counters>>

CountRequestVoteResponse(m) ==
  /\ Arrived(m, "RV_resp")
  /\ currentTerm[m.src] = m.savedTerm /\ role[m.src] = "Candidate"
  /\ m.term <= currentTerm[m.src]
  /\ peers' = [SwitchedOn(m) EXCEPT
                            ![m.src][m.dst].requestVoteDone = TRUE,
                            ![m.src][m.dst].haveVote = @ \/ m.voteGranted]
  /\ rpcs' = rpcs \ {m}
  /\ UNCHANGED <<persistent, role, commitIndex, leaderId, pending, history, counters>>

Majority == Cardinality(Server) \div 2 + 1

BecomeLeader(s) ==
  LET voters == {s} \union {p \in Server : peers[s][p].haveVote} IN
  /\ role[s] = "Candidate"
  /\ Cardinality(voters) >= Majority
  /\ LastLogIndex(s) < MaxLogLen
  /\ role' = [role EXCEPT ![s] = "Leader"]
  /\ peers' = [peers EXCEPT ![s] = [p \in Server |->
       [@[p] EXCEPT !.nextIndex = LastLogIndex(s) + 1, !.matchIndex = 0,
                    !.suppressBulkData = TRUE, !.switchOn = TRUE]]]
  /\ log' = [log EXCEPT ![s] = Append(@, currentTerm[s])]
  /\ elected' = elected \union {<<currentTerm[s], s>>}
  /\ leaderLog' = [leaderLog EXCEPT ![currentTerm[s]] = log'[s]]
  /\ electors' = [electors EXCEPT ![currentTerm[s]] = voters]
  /\ UNCHANGED <<currentTerm, voteFor, firstIndex, commitIndex, leaderId, pending, rpcs,
                 votes, committed, acked, failedAsserts, counters>>

-----------------------------------------------------------------------------
(* Replication, follower side.                                             *)

AppendEntriesResponse(m, term, success, last, match) ==
  [kind |-> "AE_resp", call |-> m.call, src |-> m.src, dst |-> m.dst, term |-> term,
   success |-> success, savedTerm |-> m.term, savedPrevLogIndex |-> m.prevLogIndex,
   lastLogIndex |-> last, matchIndex |-> match]

RejectStaleAppendEntriesRequest(m) ==
  /\ Arrived(m, "AE_req")
  /\ m.term < currentTerm[m.dst]
  /\ Reply(m, AppendEntriesResponse(m, currentTerm[m.dst], FALSE, LastLogIndex(m.dst), 0))
  /\ UNCHANGED <<persistent, volatile, history, counters>>

\* (a faulty variant: the term of the previous entry is not compared)
PrevLogExists(s, m) == m.prevLogIndex <= LastLogIndex(s)

PrevLogIsOk(s, m) ==
  \/ m.prevLogIndex < firstIndex[s]
  \/ m.prevLogIndex <= LastLogIndex(s) /\ TermOfLogEntryAt(s, m.prevLogIndex) = m.prevLogTerm

\* Positions of the entries of m that s does not hold already: the loop skips
\* the discarded and the matching ones.
NewEntries(s, m) ==
  {k \in 1 .. Len(m.entries) :
     LET i == m.prevLogIndex + k IN
     i >= firstIndex[s] /\ (i > LastLogIndex(s) \/ log[s][i] # m.entries[k])}

\* The first new entry replaces whatever follows it.
LogAfterAppend(s, m) ==
  IF NewEntries(s, m) = {} THEN log[s]
  ELSE LET k == Min(NewEntries(s, m)) IN
       SubSeq(log[s], 1, m.prevLogIndex + k - 1) \o SubSeq(m.entries, k, Len(m.entries))

TruncatesCommitted(s, m) ==
  /\ NewEntries(s, m) # {}
  /\ m.prevLogIndex + Min(NewEntries(s, m)) <= Min({LastLogIndex(s), commitIndex[s]})

\* The assertion of handleAppendEntriesRequest that m would trip, if any.
AppendEntriesRequestAssert(s, m) ==
  IF m.term = currentTerm[s] /\ leaderId[s] \notin {Nobody, m.src} THEN {"LeaderId"}
  ELSE IF PrevLogIsOk(s, m) /\ TruncatesCommitted(s, m) THEN {"TruncateCommitted"}
  ELSE IF PrevLogIsOk(s, m) /\ m.commitIndex > Len(LogAfterAppend(s, m))
       THEN {"CommitWithinLog"}
  ELSE {}

\* Role, hint and requests after stepDown (for a newer term, or for a candidate of
\* this one) and the new mLeaderId.
FollowLeader(s, m) ==
  /\ role' = [role EXCEPT ![s] =
       IF m.term > currentTerm[s] \/ @ = "Candidate" THEN "Follower" ELSE @]
  /\ leaderId' = [leaderId EXCEPT ![s] = m.src]
  /\ pending' = [pending EXCEPT ![s] =
       IF m.term > currentTerm[s] /\ role[s] = "Leader" THEN {} ELSE @]

\* (a faulty variant: everything in the follower's log counts as matching)
WholeLogVerified(s, m) == Len(LogAfterAppend(s, m))

\* The match index of the response: the last entry this request has verified.
VerifiedIndex(s, m) == m.prevLogIndex + Len(m.entries)

\* The tail of the handler: append, commit and answer, or reject.
ApplyAppendEntriesRequest(s, m) ==
  /\ IF PrevLogIsOk(s, m)
     THEN /\ log' = [log EXCEPT ![s] = LogAfterAppend(s, m)]
          /\ commitIndex' = [commitIndex EXCEPT ![s] = Max({@, m.commitIndex})]
          /\ Reply(m, AppendEntriesResponse(m, m.term, TRUE, Len(LogAfterAppend(s, m)),
                                            VerifiedIndex(s, m)))
     ELSE /\ Reply(m, AppendEntriesResponse(m, m.term, FALSE, LastLogIndex(s), 0))
          /\ UNCHANGED <<log, commitIndex>>
  /\ UNCHANGED <<peers, failedAsserts>>

HandleAppendEntriesRequest(m) ==
  LET s == m.dst
      failed == AppendEntriesRequestAssert(s, m)
  IN
  /\ Arrived(m, "AE_req")
  /\ m.term >= currentTerm[s]
  /\ currentTerm' = [currentTerm EXCEPT ![s] = m.term]
  /\ voteFor' = [voteFor EXCEPT ![s] = IF m.term > currentTerm[s] THEN Nobody ELSE @]
  /\ IF failed = {}
     THEN FollowLeader(s, m) /\ ApplyAppendEntriesRequest(s, m)
     ELSE /\ LoseVolatile(s)
          /\ rpcs' = Orphaned(s, rpcs \ {m})
          /\ log' = [log EXCEPT ![s] = IF failed = {"CommitWithinLog"}
                                       THEN LogAfterAppend(s, m) ELSE @]
          /\ failedAsserts' = failedAsserts \union failed
  /\ UNCHANGED <<firstIndex, votes, elected, committed, acked, leaderLog, electors, counters>>

-----------------------------------------------------------------------------
(* Replication, leader side: handleAppendEntriesResponse, case by case.    *)

IgnoreAppendEntriesResponse(m) ==
  /\ Arrived(m, "AE_resp")
  /\ \/ currentTerm[m.src] # m.savedTerm
     \/ /\ role[m.src] = "Leader"
        /\ m.term <= currentTerm[m.src]
        /\ m.savedPrevLogIndex # peers[m.src][m.dst].nextIndex - 1
  /\ peers' = SwitchedOn(m)
  /\ rpcs' = rpcs \ {m}
  /\ UNCHANGED <<persistent, role, commitIndex, leaderId, pending, history, counters>>

StepDownOnAppendEntriesResponse(m) ==
  /\ Arrived(m, "AE_resp")
  /\ currentTerm[m.src] = m.savedTerm /\ role[m.src] = "Leader"
  /\ m.term > currentTerm[m.src]
  /\ StepDown(m.src, m.term)
  /\ peers' = SwitchedOn(m)
  /\ rpcs' = rpcs \ {m}
  /\ UNCHANGED <<log, firstIndex, commitIndex, history, counters>>

\* A response of this term to the latest probe of the peer.
Answers(m) ==
  /\ Arrived(m, "AE_resp")
  /\ currentTerm[m.src] = m.savedTerm /\ role[m.src] = "Leader"
  /\ m.term <= currentTerm[m.src]
  /\ m.savedPrevLogIndex = peers[m.src][m.dst].nextIndex - 1

AppendEntriesResponseAssert(m) ==
  LET peer == peers[m.src][m.dst] IN
  IF currentTerm[m.src] = m.savedTerm /\ role[m.src] # "Leader" THEN {"StillLeader"}
  ELSE IF ~Answers(m) THEN {}
  ELSE IF m.success
       THEN IF peer.matchIndex <= m.matchIndex THEN {} ELSE {"MatchIncreases"}
       ELSE IF peer.matchIndex > m.lastLogIndex THEN {"MatchWithinLog"}
       ELSE IF peer.matchIndex + 1 < peer.nextIndex THEN {} ELSE {"Gap"}

AcceptAppendEntriesResponse(m) ==
  /\ Answers(m) /\ AppendEntriesResponseAssert(m) = {}
  /\ m.success
  /\ peers' = [SwitchedOn(m) EXCEPT
                            ![m.src][m.dst].matchIndex = m.matchIndex,
                            ![m.src][m.dst].nextIndex = m.matchIndex + 1,
                            ![m.src][m.dst].suppressBulkData = FALSE]
  /\ rpcs' = rpcs \ {m}
  /\ UNCHANGED <<persistent, role, commitIndex, leaderId, pending, history, counters>>

\* (a faulty variant: a third of the gap, which is nothing once the gap is small)
NextProbeThird(peer, last) ==
  IF peer.nextIndex > last + 1 THEN last + 1
  ELSE peer.nextIndex - Min({(peer.nextIndex - peer.matchIndex) \div 3, MaxDecrStep})

\* The next probe: just behind a shorter log, else half the gap back.
NextProbe(peer, last) ==
  IF peer.nextIndex > last + 1 THEN last + 1
  ELSE peer.nextIndex - Min({(peer.nextIndex - peer.matchIndex) \div 2, MaxDecrStep})

BackOffOnAppendEntriesResponse(m) ==
  /\ Answers(m) /\ AppendEntriesResponseAssert(m) = {}
  /\ ~m.success
  /\ peers' = [SwitchedOn(m) EXCEPT
       ![m.src][m.dst].nextIndex = NextProbe(peers[m.src][m.dst], m.lastLogIndex)]
  /\ rpcs' = rpcs \ {m}
  /\ UNCHANGED <<persistent, role, commitIndex, leaderId, pending, history, counters>>

AbortOnAppendEntriesResponse(m) ==
  /\ Arrived(m, "AE_resp")
  /\ \E a \in AppendEntriesResponseAssert(m) : Abort(m.src, a, rpcs \ {m})

\* A call ends with an error status; its request may be lost or merely late.
FailRpc(m) ==
  /\ m \in rpcs /\ Awaited(m)
  /\ errors < MaxErrors
  /\ errors' = errors + 1
  /\ \/ rpcs' = rpcs \ {m}
     \/ IsRequest(m) /\ rpcs' = (rpcs \ {m}) \union {[m EXCEPT !.open = FALSE]}
  /\ peers' = [SwitchedOn(m) EXCEPT
       ![m.src][m.dst].suppressBulkData = @ \/ m.kind \in {"AE_req", "AE_resp"}]
  /\ UNCHANGED <<persistent, role, commitIndex, leaderId, pending, history, crashes,
                 truncations>>

\* A request nobody waits for may also never arrive.
LoseRequest(m) ==
  /\ m \in rpcs /\ IsRequest(m) /\ ~m.open
  /\ rpcs' = rpcs \ {m}
  /\ UNCHANGED <<persistent, volatile, history, counters>>

MatchIndexes(s) == [p \in Server |-> IF p = s THEN LastLogIndex(s) ELSE peers[s][p].matchIndex]

\* Element Cardinality(Server) \div 2 of the match indexes sorted downwards.
MajorityIndex(s) ==
  Max({i \in 0 .. LastLogIndex(s) :
         Cardinality({p \in Server : MatchIndexes(s)[p] >= i}) >= Majority})

\* (a faulty variant: a majority suffices, whatever the term of the entry)
CommitAnyTerm(s, n) == n > commitIndex[s]

MayCommit(s, n) == n > commitIndex[s] /\ TermOfLogEntryAt(s, n) = currentTerm[s]

\* The pending requests that a commit index of n answers.
Answered(s, n) == {e \in pending[s] : e[1] <= n}

AdvanceCommitIndex(s) ==
  LET n == MajorityIndex(s) IN
  /\ role[s] = "Leader"
  /\ MayCommit(s, n)
  /\ commitIndex' = [commitIndex EXCEPT ![s] = n]
  /\ committed' = committed \union {<<n, log[s][n]>>}
  /\ acked' = acked \union Answered(s, n)
  /\ pending' = [pending EXCEPT ![s] = @ \ Answered(s, n)]
  /\ UNCHANGED <<persistent, role, leaderId, peers, rpcs, votes, elected, failedAsserts,
                 leaderLog, electors, counters>>

\* handleClientRequests, for an entry the log store prepared for the next index and
\* this term; every other entry is discarded without effect on the Raft state.
HandleClientRequests(s) ==
  /\ role[s] = "Leader"
  /\ LastLogIndex(s) < MaxLogLen
  /\ log' = [log EXCEPT ![s] = Append(@, currentTerm[s])]
  /\ pending' = [pending EXCEPT ![s] = @ \union {<<LastLogIndex(s) + 1, currentTerm[s]>>}]
  /\ leaderLog' = [leaderLog EXCEPT ![currentTerm[s]] = log'[s]]
  /\ UNCHANGED <<currentTerm, voteFor, firstIndex, role, commitIndex, leaderId, peers, rpcs,
                 votes, elected, committed, acked, failedAsserts, electors, counters>>

-----------------------------------------------------------------------------
(* Timeouts, crashes and the administrator.                                *)

ElectionTimeout(s) ==
  /\ role[s] # "Leader"
  /\ s \in Electable
  /\ currentTerm[s] < MaxTerm
  /\ role' = [role EXCEPT ![s] = "Candidate"]
  /\ currentTerm' = [currentTerm EXCEPT ![s] = @ + 1]
  /\ voteFor' = [voteFor EXCEPT ![s] = s]
  /\ leaderId' = [leaderId EXCEPT ![s] = Nobody]
  /\ peers' = [peers EXCEPT ![s] = [p \in Server |->
       [@[p] EXCEPT !.requestVoteDone = FALSE, !.haveVote = FALSE, !.switchOn = TRUE]]]
  /\ votes' = votes \union {<<s, currentTerm[s] + 1, s>>}
  /\ UNCHANGED <<log, firstIndex, commitIndex, pending, rpcs, elected, committed, acked,
                 failedAsserts, leaderLog, electors, counters>>

\* A majority has not answered for the maximal election timeout; one server
\* alone always has its majority.
LeadershipTimeout(s) ==
  /\ role[s] = "Leader"
  /\ Cardinality(Server) > 1
  /\ currentTerm[s] < MaxTerm
  /\ StepDown(s, currentTerm[s] + 1)
  /\ UNCHANGED <<log, firstIndex, commitIndex, peers, rpcs, history, counters>>

Crash(s) ==
  /\ crashes < MaxCrashes /\ s \in Crashable
  /\ crashes' = crashes + 1
  /\ LoseVolatile(s)
  /\ rpcs' = Orphaned(s, rpcs)
  /\ UNCHANGED <<persistent, history, errors, truncations>>

\* The terms that stepDown or electionTimeout could be persisting in s right now.
NewTerms(s) ==
  {t \in Term : t > currentTerm[s] /\ (\/ t = currentTerm[s] + 1
                                       \/ \E m \in rpcs : m.term = t /\ s \in {m.src, m.dst})}

\* (a faulty variant: the vote is written before the term)
CrashBetweenVoteAndTerm(s) ==
  /\ crashes < MaxCrashes /\ s \in Crashable
  /\ crashes' = crashes + 1
  /\ NewTerms(s) # {}
  /\ voteFor' = [voteFor EXCEPT ![s] = Nobody]
  /\ LoseVolatile(s)
  /\ rpcs' = Orphaned(s, rpcs)
  /\ UNCHANGED <<currentTerm, log, firstIndex, history, errors, truncations>>

\* current_term and vote_for are two files: a crash between the two writes keeps the
\* old vote under the new term; a crash after both, but before the vote that the
\* handler was about to grant, leaves the vote free.
CrashBetweenTermAndVote(s) ==
  /\ crashes < MaxCrashes /\ s \in Crashable
  /\ crashes' = crashes + 1
  /\ \E t \in NewTerms(s) : currentTerm' = [currentTerm EXCEPT ![s] = t]
  /\ \E v \in {voteFor[s], Nobody} : voteFor' = [voteFor EXCEPT ![s] = v]
  /\ LoseVolatile(s)
  /\ rpcs' = Orphaned(s, rpcs)
  /\ UNCHANGED <<log, firstIndex, history, errors, truncations>>

\* A crash after truncateSuffix and before appendEntries of handleAppendEntriesRequest.
CrashBetweenTruncateAndAppend(m) ==
  LET s == m.dst IN
  /\ Arrived(m, "AE_req")
  /\ crashes < MaxCrashes /\ s \in Crashable
  /\ m.term = currentTerm[s] /\ role[s] = "Follower"
  /\ PrevLogIsOk(s, m) /\ NewEntries(s, m) # {} /\ ~TruncatesCommitted(s, m)
  /\ m.prevLogIndex + Min(NewEntries(s, m)) <= LastLogIndex(s)
  /\ crashes' = crashes + 1
  /\ log' = [log EXCEPT ![s] = SubSeq(@, 1, m.prevLogIndex + Min(NewEntries(s, m)) - 1)]
  /\ LoseVolatile(s)
  /\ rpcs' = Orphaned(s, rpcs \ {m})
  /\ UNCHANGED <<currentTerm, voteFor, firstIndex, history, errors, truncations>>

\* (a faulty variant: the commit index is not consulted)
TruncatePrefixUnchecked(s, firstIndexKept) ==
  /\ truncations < MaxTruncations
  /\ firstIndex[s] < firstIndexKept
  /\ firstIndex' = [firstIndex EXCEPT ![s] = firstIndexKept]
  /\ truncations' = truncations + 1
  /\ UNCHANGED <<currentTerm, voteFor, log, volatile, rpcs, history, errors, crashes>>

\* truncatePrefix, which asserts firstIndexKept <= mCommitIndex.
TruncatePrefix(s, firstIndexKept) ==
  /\ truncations < MaxTruncations
  /\ firstIndex[s] < firstIndexKept /\ firstIndexKept <= commitIndex[s]
  /\ firstIndex' = [firstIndex EXCEPT ![s] = firstIndexKept]
  /\ truncations' = truncations + 1
  /\ UNCHANGED <<currentTerm, voteFor, log, volatile, rpcs, history, errors, crashes>>

-----------------------------------------------------------------------------

Init ==
  /\ role = [s \in Server |-> "Follower"]
  /\ currentTerm = [s \in Server |-> 0]
  /\ voteFor = [s \in Server |-> Nobody]
  /\ log = [s \in Server |-> <<>>]
  /\ firstIndex = [s \in Server |-> 1]
  /\ commitIndex = [s \in Server |-> 0]
  /\ leaderId = [s \in Server |-> Nobody]
  /\ peers = [s \in Server |-> [p \in Server |-> NewPeer]]
  /\ pending = [s \in Server |-> {}]
  /\ rpcs = {}
  /\ votes = {} /\ elected = {} /\ committed = {} /\ acked = {} /\ failedAsserts = {}
  /\ leaderLog = [t \in Term |-> <<>>] /\ electors = [t \in Term |-> {}]
  /\ errors = 0 /\ crashes = 0 /\ truncations = 0

Receive(m) ==
  \/ HandleRequestVoteRequest(m)
  \/ IgnoreRequestVoteResponse(m)
  \/ StepDownOnRequestVoteResponse(m)
  \/ CountRequestVoteResponse(m)
  \/ RejectStaleAppendEntriesRequest(m)
  \/ HandleAppendEntriesRequest(m)
  \/ IgnoreAppendEntriesResponse(m)
  \/ StepDownOnAppendEntriesResponse(m)
  \/ AcceptAppendEntriesResponse(m)
  \/ BackOffOnAppendEntriesResponse(m)
  \/ AbortOnAppendEntriesResponse(m)

Next ==
  \/ \E s, p \in Server : RequestVote(s, p)
  \/ \E s, p \in Server : AppendEntries(s, p)
  \/ \E m \in rpcs : Receive(m)
  \/ \E m \in rpcs : FailRpc(m)
  \/ \E m \in rpcs : LoseRequest(m)
  \/ \E s \in Server : BecomeLeader(s)
  \/ \E s \in Server : AdvanceCommitIndex(s)
  \/ \E s \in Server : HandleClientRequests(s)
  \/ \E s \in Server : ElectionTimeout(s)
  \/ \E s \in Server : LeadershipTimeout(s)
  \/ \E s \in Server : Crash(s)
  \/ \E s \in Server : CrashBetweenTermAndVote(s)
  \/ \E m \in rpcs : CrashBetweenTruncateAndAppend(m)
  \/ \E s \in Server : \E i \in Index : TruncatePrefix(s, i)

Spec == Init /\ [][Next]_vars

\* The loop never stops sending, receiving and advancing, and each call in flight
\* is eventually handled: gRPC delivers it or ends it with an error, and MaxErrors
\* makes errors finitely many.  No timeout is fair: a timer may be reset for ever.
Fairness ==
  /\ \A s, p \in Server : WF_vars(AppendEntries(s, p))
  /\ \A s, p \in Server : \A c \in CallId :
       WF_vars(\E m \in rpcs : m.src = s /\ m.dst = p /\ m.call = c /\ Receive(m))
  /\ \A s \in Server : WF_vars(AdvanceCommitIndex(s))

FairSpec == Spec /\ Fairness

-----------------------------------------------------------------------------
(* Properties.                                                             *)

Message ==
  [kind : {"RV_req"}, call : CallId, src : Server, dst : Server, open : BOOLEAN,
   term : Term, lastLogIndex : Index, lastLogTerm : Term]
  \union
  [kind : {"RV_resp"}, call : CallId, src : Server, dst : Server, term : Term,
   voteGranted : BOOLEAN, savedTerm : Term]
  \union
  [kind : {"AE_req"}, call : CallId, src : Server, dst : Server, open : BOOLEAN,
   term : Term, prevLogIndex : Index, prevLogTerm : Term, entries : Seq(Term),
   commitIndex : Index]
  \union
  [kind : {"AE_resp"}, call : CallId, src : Server, dst : Server, term : Term,
   success : BOOLEAN, savedTerm : Term, savedPrevLogIndex : Index, lastLogIndex : Index,
   matchIndex : Index]

\* Every variable stays within its range: in particular mNextIndex never falls
\* below 1 ("Minimum value is 1", Peer in RaftCore.h), whatever responses do to it.
TypeOK ==
  /\ role \in [Server -> Role]
  /\ currentTerm \in [Server -> Term]
  /\ voteFor \in [Server -> Server \union {Nobody}]
  /\ log \in [Server -> Seq(Term)]
  /\ firstIndex \in [Server -> 1 .. MaxLogLen + 1]
  /\ commitIndex \in [Server -> Index]
  /\ leaderId \in [Server -> Server \union {Nobody}]
  /\ peers \in [Server -> [Server -> Peer]]
  /\ pending \in [Server -> SUBSET (Index \X Term)]
  /\ rpcs \subseteq Message
  /\ votes \subseteq Server \X Term \X Server
  /\ elected \subseteq Term \X Server
  /\ committed \subseteq Index \X Term
  /\ acked \subseteq Index \X Term
  /\ failedAsserts \subseteq Assertion
  /\ errors \in 0 .. MaxErrors
  /\ crashes \in 0 .. MaxCrashes
  /\ truncations \in 0 .. MaxTruncations

\* The indexes of a server and of an AE_req stay inside the log they speak of: no
\* AE_req reaches beyond the bound, and neither the commit index nor the first index
\* ever points past the end of the log, whatever suffixes and prefixes are cut.
IndexesWithinLog ==
  /\ \A s \in Server : /\ Len(log[s]) <= MaxLogLen
                        /\ commitIndex[s] <= Len(log[s])
                        /\ firstIndex[s] <= Len(log[s]) + 1
  /\ \A m \in rpcs : m.kind = "AE_req" => m.prevLogIndex + Len(m.entries) <= MaxLogLen

\* A server gives its vote to one candidate per term at most, over all the crashes
\* that may separate the writes of current_term and vote_for.
OneVotePerTerm ==
  \A v, w \in votes : v[1] = w[1] /\ v[2] = w[2] => v[3] = w[3]

\* becomeLeader makes at most one server leader of a term, ever.
ElectionSafety ==
  \A e, f \in elected : e[1] = f[1] => e[2] = f[2]

\* Two logs that hold an entry of one term at one index agree up to that index:
\* what the <prevLogIndex, prevLogTerm> check of handleAppendEntriesRequest buys.
LogMatching ==
  \A s, p \in Server : \A i \in DOMAIN log[s] \intersect DOMAIN log[p] :
    log[s][i] = log[p][i] => SubSeq(log[s], 1, i) = SubSeq(log[p], 1, i)

\* An entry that advanceCommitIndex committed in some term is in the log of every
\* leader of that term and of later ones.
LeaderCompleteness ==
  \A c \in committed : \A s \in Server :
    role[s] = "Leader" /\ currentTerm[s] >= c[2]
      => Len(log[s]) >= c[1] /\ log[s][c[1]] = c[2]

\* Entries that two servers both hold committed are the same entries: the state
\* machines fed by getEntry never diverge.
StateMachineSafety ==
  \A s, p \in Server : \A i \in 1 .. Min({commitIndex[s], commitIndex[p]}) :
    log[s][i] = log[p][i]

\* The entry of a request that was answered 200 "Success" is in the log of every
\* leader of a later term: what the client was told stays true.
AckedEntriesSurvive ==
  \A a \in acked : \A s \in Server :
    role[s] = "Leader" /\ currentTerm[s] >= a[2]
      => Len(log[s]) >= a[1] /\ log[s][a[1]] = a[2]

\* While a follower is in its leader's term, mMatchIndex counts only entries that
\* the two logs really share, in whatever order responses came back.
MatchIndexIsShared ==
  \A s, p \in Server :
    role[s] = "Leader" /\ p # s /\ currentTerm[p] = currentTerm[s]
      => LET n == peers[s][p].matchIndex IN
         Len(log[p]) >= n /\ SubSeq(log[p], 1, n) = SubSeq(log[s], 1, n)

\* A leader that stays leader brings every follower it reaches to its own log and
\* commits all of it, whether the follower has a prefix of that log or entries of a
\* leader in between, and whatever responses of an earlier probe come back: backing
\* mNextIndex off terminates at a common entry.
StableLeaderReplicates ==
  \A s \in Server :
    <>[](role[s] = "Leader") =>
      <>[](/\ commitIndex[s] = Len(log[s])
           /\ \A p \in Server : <<s, p>> \in Links =>
                log[p] = log[s] /\ commitIndex[p] = Len(log[s]))

\* The assertions of handleAppendEntriesResponse on a rejected probe, "there should
\* be a gap between matchIndex and nextIndex" and mMatchIndex <= last_log_index.
ProbeAssertionsHold == failedAsserts \intersect {"Gap", "MatchWithinLog"} = {}

\* The other assertions of the handlers never abort a server: a term has one leader to
\* follow, no committed entry is overwritten, no commit index arrives that the log does
\* not reach, and whoever is answered in its own term still leads it.
HandlerAssertionsHold ==
  failedAsserts \intersect {"LeaderId", "TruncateCommitted", "CommitWithinLog", "StillLeader"} = {}
=============================================================================
