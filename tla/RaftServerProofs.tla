------------------------- MODULE RaftServerProofs --------------------------
(*****************************************************************************)
(* Types and votes: what every action of RaftCore does to TypeInv and        *)
(* VoteInv.                                                                  *)
(*****************************************************************************)
EXTENDS RaftLemmas

\* A leaf that names no prover is tried with SMT, with Zenon, and again with SMT and ever more time.
USE SMT, Zenon, SMTT(10), SMTT(20), SMTT(30), SMTT(40), SMTT(60)

-----------------------------------------------------------------------------
(* Messages.                                                               *)

\* The RPCs that a crash leaves behind are RPCs, and it takes no AE_req out of bounds.
LEMMA OrphanedType ==
  ASSUME NEW s \in Server, NEW R, R \subseteq Message,
         \A m \in R : m.kind = "AE_req" => m.prevLogIndex + Len(m.entries) <= MaxLogLen
  PROVE  /\ Orphaned(s, R) \subseteq Message
         /\ \A m \in Orphaned(s, R) :
              m.kind = "AE_req" => m.prevLogIndex + Len(m.entries) <= MaxLogLen
<1> SUFFICES ASSUME NEW m \in Orphaned(s, R)
             PROVE  m \in Message /\ (m.kind = "AE_req" => m.prevLogIndex + Len(m.entries) <= MaxLogLen)
  OBVIOUS
<1>1. PICK r \in R : m = IF r.src = s /\ IsRequest(r) THEN [r EXCEPT !.open = FALSE] ELSE r
  BY DEF Orphaned
<1>2. CASE r.src = s /\ IsRequest(r)
  <2>1. r \in Message /\ m = [r EXCEPT !.open = FALSE]
    BY <1>1, <1>2
  <2>2. CASE r.kind = "RV_req"
    BY Zenon, <2>1, <2>2 DEF Message
  <2>3. CASE r.kind = "AE_req"
    <3>1. m \in Message
      BY Zenon, <2>1, <2>3 DEF Message
    <3>2. m.prevLogIndex = r.prevLogIndex /\ m.entries = r.entries
      BY <2>1, <2>3 DEF Message
    <3> QED
      BY <3>1, <3>2, <2>3
  <2> QED
    BY <1>2, <2>2, <2>3 DEF IsRequest
<1>3. CASE ~(r.src = s /\ IsRequest(r))
  BY <1>1, <1>3
<1> QED
  BY <1>2, <1>3

-----------------------------------------------------------------------------
(* The log.                                                                *)

\* getTerm answers with a term wherever it answers.
LEMMA TermOfLogEntryType ==
  ASSUME TypeInv, NEW s \in Server, NEW i \in Int, HasTerm(s, i)
  PROVE  TermOfLogEntryAt(s, i) \in Term
<1>1. log[s] \in Seq(Term) /\ firstIndex[s] \in 1 .. MaxLogLen + 1
  BY DEF TypeInv, TypeOK
<1>2. firstIndex[s] - 1 <= i /\ i <= Len(log[s])
  BY DEF HasTerm, LastLogIndex
<1>3. 0 \in Term
  BY BoundAssumption DEF Term
<1>4. CASE i = firstIndex[s] - 1
  BY <1>3, <1>4 DEF TermOfLogEntryAt
<1>5. CASE i # firstIndex[s] - 1
  <2>1. i \in 1 .. Len(log[s])
    BY <1>1, <1>2, <1>5, BoundAssumption
  <2> QED
    BY <1>1, <1>5, <2>1 DEF TermOfLogEntryAt
<1> QED
  BY <1>4, <1>5

\* What handleAppendEntriesRequest leaves in the log: as much as the request vouches
\* for, nothing lost below the first index, and nothing committed lost unless the
\* assertion on truncated entries fails.
LEMMA LogAfterAppendType ==
  ASSUME CountingFacts, TypeInv, NEW m \in rpcs, m.kind = "AE_req", PrevLogIsOk(m.dst, m)
  PROVE  LET q == LogAfterAppend(m.dst, m) IN
         /\ q \in Seq(Term)
         /\ Len(q) <= MaxLogLen
         /\ firstIndex[m.dst] <= Len(q) + 1
         /\ ~TruncatesCommitted(m.dst, m) => commitIndex[m.dst] <= Len(q)
<1> DEFINE s == m.dst
           k == Min(NewEntries(s, m))
<1>1. /\ s \in Server /\ m.prevLogIndex \in Nat /\ m.entries \in Seq(Term)
      /\ log[s] \in Seq(Term) /\ firstIndex[s] \in Nat /\ commitIndex[s] \in Nat
      /\ Len(log[s]) <= MaxLogLen /\ firstIndex[s] <= Len(log[s]) + 1
      /\ commitIndex[s] <= Len(log[s])
      /\ m.prevLogIndex + Len(m.entries) <= MaxLogLen
      /\ Len(log[s]) \in Nat /\ Len(m.entries) \in Nat
  BY MessageFields, BoundAssumption DEF TypeInv, TypeOK, IndexesWithinLog, Index
<1>2. CASE NewEntries(s, m) = {}
  BY <1>1, <1>2 DEF LogAfterAppend
<1>3. CASE NewEntries(s, m) # {}
  <2> DEFINE kept == SubSeq(log[s], 1, m.prevLogIndex + k - 1)
             new  == SubSeq(m.entries, k, Len(m.entries))
  <2>1. /\ k \in 1 .. Len(m.entries)
        /\ m.prevLogIndex + k >= firstIndex[s]
        /\ m.prevLogIndex + k - 1 <= Len(log[s])
    BY Zenon, <1>3, FirstNewEntry
  <2>2. kept \in Seq(Term) /\ Len(kept) = m.prevLogIndex + k - 1
    <3>1. m.prevLogIndex + k - 1 \in Nat
      BY <1>1, <2>1
    <3> QED
      BY <1>1, <2>1, <3>1, CutLog
  <2>3. new \in Seq(Term) /\ Len(new) = Len(m.entries) - k + 1
    BY <1>1, <2>1, CutLog
  <2>4. LogAfterAppend(s, m) = kept \o new
    BY Zenon, <1>3 DEF LogAfterAppend
  <2> HIDE DEF kept, new, k
  <2>5. /\ kept \o new \in Seq(Term)
        /\ Len(kept \o new) = m.prevLogIndex + Len(m.entries)
    <3>1. kept \o new \in Seq(Term) /\ Len(kept \o new) = Len(kept) + Len(new)
      BY <2>2, <2>3
    <3>2. k \in Int /\ m.prevLogIndex \in Int /\ Len(m.entries) \in Int
      BY <1>1, <2>1
    <3>3. Len(kept) = m.prevLogIndex + k - 1 /\ Len(new) = Len(m.entries) - k + 1
      BY <2>2, <2>3
    <3>4. Len(kept) + Len(new) = m.prevLogIndex + Len(m.entries)
      BY <3>2, <3>3
    <3> QED
      BY <3>1, <3>4
  <2>6. ASSUME ~TruncatesCommitted(s, m)
        PROVE  commitIndex[s] <= m.prevLogIndex + Len(m.entries)
    <3>1. ~(m.prevLogIndex + k <= Min({LastLogIndex(s), commitIndex[s]}))
      BY <1>3, <2>6 DEF TruncatesCommitted, k
    <3>2. Min({LastLogIndex(s), commitIndex[s]}) = commitIndex[s]
      BY <1>1, MinOfTwo DEF LastLogIndex
    <3> QED
      BY <1>1, <2>1, <3>1, <3>2
  <2> QED
    BY <1>1, <2>1, <2>4, <2>5, <2>6
<1> QED
  BY <1>2, <1>3

-----------------------------------------------------------------------------
(* Type correctness, action by action.                                     *)

\* A fresh process has the right types.
LEMMA LoseVolatileType ==
  ASSUME TypeInv, NEW s \in Server, LoseVolatile(s)
  PROVE  /\ role' \in [Server -> Role]
         /\ commitIndex' \in [Server -> Index]
         /\ leaderId' \in [Server -> Server \union {Nobody}]
         /\ peers' \in [Server -> [Server -> Peer]]
         /\ pending' \in [Server -> SUBSET (Index \X Term)]
         /\ \A p \in Server : commitIndex'[p] = IF p = s THEN 0 ELSE commitIndex[p]
<1>1. NewPeer \in Peer
  BY BoundAssumption DEF NewPeer, Peer, Index
<1>2. 0 \in Index
  BY BoundAssumption DEF Index
<1> QED
  BY <1>1, <1>2 DEF TypeInv, TypeOK, LoseVolatile, Role

\* stepDown has the right types.
LEMMA StepDownType ==
  ASSUME TypeInv, NEW s \in Server, NEW t \in Term, StepDown(s, t)
  PROVE  /\ role' \in [Server -> Role]
         /\ currentTerm' \in [Server -> Term]
         /\ voteFor' \in [Server -> Server \union {Nobody}]
         /\ leaderId' \in [Server -> Server \union {Nobody}]
         /\ pending' \in [Server -> SUBSET (Index \X Term)]
BY DEF TypeInv, TypeOK, StepDown, Role

\* So has the switch of a peer that is sent a request.
LEMMA SwitchOffType ==
  ASSUME TypeInv, NEW s \in Server, NEW p \in Server
  PROVE  [peers EXCEPT ![s][p].switchOn = FALSE] \in [Server -> [Server -> Peer]]
<1>1. peers[s][p] \in Peer
  BY DEF TypeInv, TypeOK
<1>2. [peers[s][p] EXCEPT !.switchOn = FALSE] \in Peer
  BY Zenon, <1>1 DEF Peer
<1> QED
  BY <1>2 DEF TypeInv, TypeOK

\* An abort in an assertion keeps TypeInv.
LEMMA AbortType ==
  ASSUME TypeInv, NEW s \in Server, NEW a \in Assertion, NEW R, R \subseteq rpcs, Abort(s, a, R)
  PROVE  TypeInv'
<1>1. /\ Orphaned(s, R) \subseteq Message
      /\ \A m \in Orphaned(s, R) : m.kind = "AE_req" => m.prevLogIndex + Len(m.entries) <= MaxLogLen
  <2>1. /\ R \subseteq Message
        /\ \A m \in R : m.kind = "AE_req" => m.prevLogIndex + Len(m.entries) <= MaxLogLen
    BY DEF TypeInv, TypeOK, IndexesWithinLog
  <2> QED
    BY <2>1, OrphanedType
<1>2. LoseVolatile(s)
  BY DEF Abort
<1>3. TypeOK'
  BY Zenon, <1>1, <1>2, LoseVolatileType DEF Abort, TypeInv, TypeOK, persistent, counters
<1>4. IndexesWithinLog'
  <2>1. log' = log /\ firstIndex' = firstIndex /\ rpcs' = Orphaned(s, R)
    BY DEF Abort, persistent
  <2>2. \A p \in Server : Len(log[p]) \in Nat
    BY DEF TypeInv, TypeOK
  <2> QED
    BY <1>1, <1>2, <2>1, <2>2, LoseVolatileType DEF TypeInv, IndexesWithinLog
<1> QED
  BY <1>3, <1>4 DEF TypeInv

\* A free call id is a call id.
LEMMA FreeCallType ==
  ASSUME CountingFacts, NEW s, NEW p, FreeCalls(s, p) # {}
  PROVE  Min(FreeCalls(s, p)) \in CallId
<1>1. FreeCalls(s, p) \subseteq Nat /\ FreeCalls(s, p) \subseteq CallId
  BY BoundAssumption DEF FreeCalls, CallId
<1> QED
  BY <1>1, MinOfNaturals

\* Sending a vote request keeps TypeInv.
LEMMA RequestVoteType ==
  ASSUME CountingFacts, TypeInv, NEW s \in Server, NEW p \in Server, RequestVote(s, p)
  PROVE  TypeInv'
<1>1. Min(FreeCalls(s, p)) \in CallId
  BY FreeCallType DEF RequestVote
<1>2. LastLogIndex(s) \in Index
  BY BoundAssumption DEF TypeInv, TypeOK, IndexesWithinLog, LastLogIndex, Index
<1>3. LastLogTerm(s) \in Term
  <2>1. HasTerm(s, LastLogIndex(s)) /\ LastLogIndex(s) \in Int
    BY BoundAssumption DEF TypeInv, TypeOK, IndexesWithinLog, LastLogIndex, HasTerm
  <2> QED
    BY <2>1, TermOfLogEntryType DEF LastLogTerm
<1>4. PICK r \in Message : r.kind = "RV_req" /\ rpcs' = rpcs \union {r}
  <2> DEFINE r == [kind |-> "RV_req", call |-> Min(FreeCalls(s, p)), src |-> s, dst |-> p,
                   open |-> TRUE, term |-> currentTerm[s], lastLogIndex |-> LastLogIndex(s),
                   lastLogTerm |-> LastLogTerm(s)]
  <2>1. r \in Message
    BY <1>1, <1>2, <1>3 DEF Message, TypeInv, TypeOK
  <2>2. rpcs' = rpcs \union {r}
    BY DEF RequestVote
  <2> QED
    BY Zenon, <2>1, <2>2
<1>5. peers' \in [Server -> [Server -> Peer]]
  BY SwitchOffType DEF RequestVote
<1>6. UNCHANGED <<persistent, role, commitIndex, leaderId, pending, history, counters>>
  BY DEF RequestVote
<1>7. TypeOK'
  BY <1>4, <1>5, <1>6 DEF TypeInv, TypeOK, persistent, history, counters
<1>8. IndexesWithinLog'
  BY <1>4, <1>6 DEF TypeInv, TypeOK, IndexesWithinLog, persistent
<1> QED
  BY <1>7, <1>8 DEF TypeInv

\* Sending an AE_req keeps TypeInv.
LEMMA AppendEntriesType ==
  ASSUME CountingFacts, TypeInv, NEW s \in Server, NEW p \in Server, AppendEntries(s, p)
  PROVE  TypeInv'
<1> DEFINE prev    == peers[s][p].nextIndex - 1
           entries == IF peers[s][p].suppressBulkData THEN <<>> ELSE GetEntries(s, prev + 1)
           r       == [kind |-> "AE_req", call |-> Min(FreeCalls(s, p)), src |-> s, dst |-> p,
                       open |-> TRUE, term |-> currentTerm[s],
                       prevLogIndex |-> prev, prevLogTerm |-> TermOfLogEntryAt(s, prev),
                       entries |-> entries,
                       commitIndex |-> CommitIndexToSend(s, prev, Len(entries))]
<1>1. CASE ~HasTerm(s, prev)
  <2>1. Abort(s, "TermOfLogEntry", rpcs)
    BY <1>1 DEF AppendEntries
  <2> QED
    BY <2>1, AbortType DEF Assertion
<1>2. CASE HasTerm(s, prev)
  <2>1. /\ rpcs' = rpcs \union {r}
        /\ peers' = [peers EXCEPT ![s][p].switchOn = FALSE]
        /\ UNCHANGED <<persistent, role, commitIndex, leaderId, pending, history, counters>>
        /\ FreeCalls(s, p) # {}
    BY <1>2 DEF AppendEntries
  <2>2. peers[s][p].nextIndex \in 1 .. MaxLogLen + 1
    BY DEF TypeInv, TypeOK, Peer
  <2>3. Len(log[s]) \in Nat /\ Len(log[s]) <= MaxLogLen /\ commitIndex[s] \in Nat
    BY BoundAssumption DEF TypeInv, TypeOK, IndexesWithinLog, Index
  <2>4. prev \in Nat /\ prev <= Len(log[s]) /\ prev \in Index
    BY <1>2, <2>2, <2>3, BoundAssumption DEF HasTerm, LastLogIndex, Index
  <2>5. TermOfLogEntryAt(s, prev) \in Term
    BY <1>2, <2>4, TermOfLogEntryType
  <2> HIDE DEF prev
  <2>6. entries \in Seq(Term) /\ prev + Len(entries) <= Len(log[s])
    <3>1. GetEntries(s, prev + 1) \in Seq(Term) /\ prev + Len(GetEntries(s, prev + 1)) <= Len(log[s])
      BY <2>3, <2>4, GetEntriesType
    <3>2. <<>> \in Seq(Term) /\ Len(<<>>) = 0
      OBVIOUS
    <3> QED
      BY <2>4, <3>1, <3>2
  <2> HIDE DEF entries
  <2>7. CommitIndexToSend(s, prev, Len(entries)) \in Index
    BY <2>3, <2>4, <2>6, MinOfTwo, BoundAssumption DEF CommitIndexToSend, Index
  <2>8. r \in Message /\ r.kind = "AE_req" /\ r.prevLogIndex + Len(r.entries) <= MaxLogLen
    <3>1. Min(FreeCalls(s, p)) \in CallId
      BY <2>1, FreeCallType
    <3>2. r \in Message
      BY <2>4, <2>5, <2>6, <2>7, <3>1 DEF Message, TypeInv, TypeOK
    <3> QED
      BY <2>3, <2>4, <2>6, <3>2, BoundAssumption
  <2> HIDE DEF r
  <2>9. TypeOK'
    BY Zenon, <2>1, <2>8, SwitchOffType DEF TypeInv, TypeOK, persistent, history, counters
  <2>10. IndexesWithinLog'
    BY <2>1, <2>8 DEF TypeInv, TypeOK, IndexesWithinLog, persistent
  <2> QED
    BY <2>9, <2>10 DEF TypeInv
<1> QED
  BY <1>1, <1>2

\* Answering a call keeps the RPCs typed.
LEMMA ReplyType ==
  ASSUME TypeInv, NEW m \in rpcs, NEW r \in Message, r.kind # "AE_req", Reply(m, r)
  PROVE  /\ rpcs' \subseteq Message
         /\ \A x \in rpcs' : x.kind = "AE_req" => x.prevLogIndex + Len(x.entries) <= MaxLogLen
BY DEF TypeInv, TypeOK, IndexesWithinLog, Reply

\* Handling a vote request keeps TypeInv.
LEMMA HandleRequestVoteRequestType ==
  ASSUME TypeInv, NEW m \in rpcs, HandleRequestVoteRequest(m)
  PROVE  TypeInv'
<1> DEFINE s == m.dst
           t == Max({m.term, currentTerm[s]})
           granted == GrantsVote(s, m)
<1>1. s \in Server /\ m.src \in Server /\ m.term \in Term /\ currentTerm[s] \in Term /\ m.call \in CallId
  BY MessageFields DEF TypeInv, TypeOK
<1>2. t \in Term
  BY <1>1, MaxOfTwo, BoundAssumption DEF Term
<1>3. granted \in BOOLEAN
  BY DEF GrantsVote
<1> HIDE DEF t, granted
<1>4. RequestVoteResponse(m, t, granted) \in Message /\ RequestVoteResponse(m, t, granted).kind # "AE_req"
  BY <1>1, <1>2, <1>3 DEF RequestVoteResponse, Message
<1>5. /\ rpcs' \subseteq Message
      /\ \A x \in rpcs' : x.kind = "AE_req" => x.prevLogIndex + Len(x.entries) <= MaxLogLen
  BY <1>4, ReplyType DEF HandleRequestVoteRequest, t, granted
<1>6. /\ role' \in [Server -> Role] /\ currentTerm' \in [Server -> Term]
      /\ voteFor' \in [Server -> Server \union {Nobody}]
      /\ leaderId' \in [Server -> Server \union {Nobody}]
      /\ pending' \in [Server -> SUBSET (Index \X Term)]
  <2>1. CASE m.term > currentTerm[s]
    <3>1. /\ role' = [role EXCEPT ![s] = "Follower"]
          /\ currentTerm' = [currentTerm EXCEPT ![s] = m.term]
          /\ leaderId' = [leaderId EXCEPT ![s] = Nobody]
          /\ pending' = [pending EXCEPT ![s] = IF role[s] = "Leader" THEN {} ELSE @]
          /\ voteFor' = [voteFor EXCEPT ![s] = IF granted THEN m.src ELSE Nobody]
      BY <2>1 DEF HandleRequestVoteRequest, granted
    <3> QED
      BY <1>1, <3>1 DEF TypeInv, TypeOK, Role
  <2>2. CASE ~(m.term > currentTerm[s])
    <3>1. /\ voteFor' = [voteFor EXCEPT ![s] = IF granted THEN m.src ELSE @]
          /\ UNCHANGED <<role, currentTerm, leaderId, pending>>
      BY <2>2 DEF HandleRequestVoteRequest, granted
    <3> QED
      BY <1>1, <3>1 DEF TypeInv, TypeOK
  <2> QED
    BY <2>1, <2>2
<1>7. votes' \subseteq Server \X Term \X Server
  BY <1>1 DEF HandleRequestVoteRequest, TypeInv, TypeOK
<1>8. UNCHANGED <<log, firstIndex, commitIndex, peers, elected, committed, acked, failedAsserts, counters>>
  BY DEF HandleRequestVoteRequest
<1> QED
  BY <1>5, <1>6, <1>7, <1>8 DEF TypeInv, TypeOK, IndexesWithinLog, counters

\* The responses to vote requests keep TypeInv, whichever way they go.
LEMMA RequestVoteResponseType ==
  ASSUME TypeInv, NEW m \in rpcs,
         \/ IgnoreRequestVoteResponse(m)
         \/ StepDownOnRequestVoteResponse(m)
         \/ CountRequestVoteResponse(m)
  PROVE  TypeInv'
<1>1. m.src \in Server /\ m.dst \in Server /\ m.term \in Term
  BY MessageFields DEF TypeInv, TypeOK
<1>2. CASE IgnoreRequestVoteResponse(m)
  BY Zenon, <1>2, SwitchedOnType
     DEF IgnoreRequestVoteResponse, TypeInv, TypeOK, IndexesWithinLog, persistent, history, counters
<1>3. CASE StepDownOnRequestVoteResponse(m)
  <2>1. StepDown(m.src, m.term)
    BY <1>3 DEF StepDownOnRequestVoteResponse
  <2> QED
    BY ZenonT(30), <1>1, <1>3, <2>1, SwitchedOnType, StepDownType
       DEF StepDownOnRequestVoteResponse, TypeInv, TypeOK, IndexesWithinLog, history, counters
<1>4. CASE CountRequestVoteResponse(m)
  <2> DEFINE P == SwitchedOn(m)
             Q == [P EXCEPT ![m.src][m.dst].requestVoteDone = TRUE]
  <2>1. P \in [Server -> [Server -> Peer]] /\ m.voteGranted \in BOOLEAN
    BY <1>4, SwitchedOnType, MessageFields DEF CountRequestVoteResponse, Arrived, TypeInv, TypeOK
  <2>2. peers' = [Q EXCEPT ![m.src][m.dst].haveVote = @ \/ m.voteGranted]
    BY Zenon, <1>4 DEF CountRequestVoteResponse
  <2> HIDE DEF P
  <2>3. Q \in [Server -> [Server -> Peer]]
    <3>1. P[m.src][m.dst] \in Peer
      BY <1>1, <2>1
    <3>2. [P[m.src][m.dst] EXCEPT !.requestVoteDone = TRUE] \in Peer
      BY Zenon, <3>1 DEF Peer
    <3> QED
      BY <1>1, <2>1, <3>2
  <2> HIDE DEF Q
  <2>4. peers' \in [Server -> [Server -> Peer]]
    <3> DEFINE v == Q[m.src][m.dst].haveVote \/ m.voteGranted
    <3>1. Q[m.src][m.dst] \in Peer
      BY <1>1, <2>3
    <3>2. v \in BOOLEAN
      OBVIOUS
    <3> HIDE DEF v
    <3>3. [Q[m.src][m.dst] EXCEPT !.haveVote = v] \in Peer
      BY <3>1, <3>2 DEF Peer
    <3> QED
      BY <1>1, <2>2, <2>3, <3>3 DEF v
  <2> QED
    BY Zenon, <1>4, <2>4
       DEF CountRequestVoteResponse, TypeInv, TypeOK, IndexesWithinLog, persistent, history, counters
<1> QED
  BY <1>2, <1>3, <1>4

\* becomeLeader keeps TypeInv.
LEMMA BecomeLeaderType ==
  ASSUME TypeInv, NEW s \in Server, BecomeLeader(s)
  PROVE  TypeInv'
<1>1. log[s] \in Seq(Term) /\ Len(log[s]) \in Nat /\ Len(log[s]) < MaxLogLen /\ currentTerm[s] \in Term
  <2>1. LastLogIndex(s) < MaxLogLen
    BY Zenon DEF BecomeLeader
  <2> QED
    BY <2>1 DEF TypeInv, TypeOK, LastLogIndex
<1>2. Append(log[s], currentTerm[s]) \in Seq(Term) /\ Len(Append(log[s], currentTerm[s])) = Len(log[s]) + 1
  BY <1>1
<1>3. peers' \in [Server -> [Server -> Peer]]
  <2> DEFINE reset(p) == [peers[s][p] EXCEPT !.nextIndex = LastLogIndex(s) + 1, !.matchIndex = 0,
                                             !.suppressBulkData = TRUE, !.switchOn = TRUE]
  <2>1. ASSUME NEW p \in Server PROVE reset(p) \in Peer
    <3>1. peers[s][p] \in Peer
      BY DEF TypeInv, TypeOK
    <3>2. LastLogIndex(s) + 1 \in 1 .. MaxLogLen + 1 /\ 0 \in Index
      BY <1>1, BoundAssumption DEF Index, LastLogIndex
    <3> QED
      BY Zenon, <3>1, <3>2 DEF Peer
  <2>2. peers' = [peers EXCEPT ![s] = [p \in Server |-> reset(p)]]
    BY Zenon DEF BecomeLeader, TypeInv, TypeOK
  <2> HIDE DEF reset
  <2> QED
    BY <2>1, <2>2 DEF TypeInv, TypeOK
<1>4. elected' \subseteq Term \X Server /\ role' \in [Server -> Role]
  <2>1. role' = [role EXCEPT ![s] = "Leader"] /\ elected' = elected \union {<<currentTerm[s], s>>}
    BY ZenonT(30) DEF BecomeLeader
  <2> QED
    BY <1>1, <2>1 DEF TypeInv, TypeOK, Role
<1>5. /\ log' = [log EXCEPT ![s] = Append(log[s], currentTerm[s])]
      /\ UNCHANGED <<currentTerm, voteFor, firstIndex, commitIndex, leaderId, pending, rpcs,
                     votes, committed, acked, failedAsserts, counters>>
  BY Zenon DEF BecomeLeader
<1>6. TypeOK'
  BY <1>2, <1>3, <1>4, <1>5 DEF TypeInv, TypeOK, counters
<1>7. IndexesWithinLog'
  <2>1. \A p \in Server : Len(log'[p]) = IF p = s THEN Len(log[s]) + 1 ELSE Len(log[p])
    BY <1>2, <1>5 DEF TypeInv, TypeOK
  <2> QED
    BY <1>1, <1>5, <2>1, BoundAssumption DEF TypeInv, TypeOK, IndexesWithinLog, Index
<1> QED
  BY <1>6, <1>7 DEF TypeInv

\* A response to an AE_req is a message.
LEMMA AppendEntriesResponseType ==
  ASSUME NEW m \in Message, m.kind = "AE_req", NEW t \in Term, NEW success \in BOOLEAN,
         NEW last \in Index, NEW match \in Index
  PROVE  /\ AppendEntriesResponse(m, t, success, last, match) \in Message
         /\ AppendEntriesResponse(m, t, success, last, match).kind # "AE_req"
<1>1. m.call \in CallId /\ m.src \in Server /\ m.dst \in Server /\ m.term \in Term /\ m.prevLogIndex \in Index
  BY MessageFields
<1> QED
  BY <1>1 DEF AppendEntriesResponse, Message

\* Rejecting a stale AE_req keeps TypeInv.
LEMMA RejectStaleType ==
  ASSUME TypeInv, NEW m \in rpcs, RejectStaleAppendEntriesRequest(m)
  PROVE  TypeInv'
<1>1. m \in Message /\ m.kind = "AE_req" /\ m.dst \in Server
  BY MessageFields DEF RejectStaleAppendEntriesRequest, Arrived, TypeInv, TypeOK
<1>2. currentTerm[m.dst] \in Term /\ LastLogIndex(m.dst) \in Index /\ 0 \in Index
  BY <1>1, BoundAssumption DEF TypeInv, TypeOK, IndexesWithinLog, LastLogIndex, Index
<1>3. Reply(m, AppendEntriesResponse(m, currentTerm[m.dst], FALSE, LastLogIndex(m.dst), 0))
  BY Zenon DEF RejectStaleAppendEntriesRequest
<1>4. /\ rpcs' \subseteq Message
      /\ \A x \in rpcs' : x.kind = "AE_req" => x.prevLogIndex + Len(x.entries) <= MaxLogLen
  BY Zenon, <1>1, <1>2, <1>3, AppendEntriesResponseType, ReplyType
<1>5. UNCHANGED <<persistent, volatile, history, counters>>
  BY DEF RejectStaleAppendEntriesRequest
<1> QED
  BY <1>4, <1>5 DEF TypeInv, TypeOK, IndexesWithinLog, persistent, volatile, history, counters

\* Handling an AE_req keeps TypeInv: what is appended fits, and the commit index it
\* brings lies in the log, or an assertion stops the process before it is served.
LEMMA HandleAppendEntriesRequestType ==
  ASSUME CountingFacts, TypeInv, NEW m \in rpcs, HandleAppendEntriesRequest(m)
  PROVE  TypeInv'
<1> DEFINE s == m.dst
           failed == AppendEntriesRequestAssert(s, m)
           q == LogAfterAppend(s, m)
<1>1. /\ m \in Message /\ m.kind = "AE_req" /\ s \in Server /\ m.src \in Server /\ m.term \in Term
      /\ m.prevLogIndex \in Index /\ m.entries \in Seq(Term) /\ m.commitIndex \in Index
  BY MessageFields DEF HandleAppendEntriesRequest, Arrived, TypeInv, TypeOK
<1>2. /\ currentTerm' = [currentTerm EXCEPT ![s] = m.term]
      /\ voteFor' = [voteFor EXCEPT ![s] = IF m.term > currentTerm[s] THEN Nobody ELSE @]
      /\ UNCHANGED <<firstIndex, votes, elected, committed, acked, counters>>
  BY DEF HandleAppendEntriesRequest
<1>3. /\ currentTerm' \in [Server -> Term] /\ voteFor' \in [Server -> Server \union {Nobody}]
  BY <1>1, <1>2 DEF TypeInv, TypeOK
<1>4. PrevLogIsOk(s, m) => /\ q \in Seq(Term) /\ Len(q) <= MaxLogLen
                           /\ firstIndex[s] <= Len(q) + 1
                           /\ ~TruncatesCommitted(s, m) => commitIndex[s] <= Len(q)
  BY <1>1, LogAfterAppendType
<1> HIDE DEF q
<1>5. CASE failed = {}
  <2>1. FollowLeader(s, m) /\ ApplyAppendEntriesRequest(s, m)
    BY <1>5 DEF HandleAppendEntriesRequest
  <2>2. /\ role' \in [Server -> Role] /\ leaderId' \in [Server -> Server \union {Nobody}]
        /\ pending' \in [Server -> SUBSET (Index \X Term)]
    BY <1>1, <2>1 DEF FollowLeader, TypeInv, TypeOK, Role
  <2>3. peers' = peers /\ failedAsserts' = failedAsserts
    BY <2>1 DEF ApplyAppendEntriesRequest
  <2>4. CASE ~PrevLogIsOk(s, m)
    <3>1. /\ Reply(m, AppendEntriesResponse(m, m.term, FALSE, LastLogIndex(s), 0))
          /\ UNCHANGED <<log, commitIndex>>
      BY Zenon, <2>1, <2>4 DEF ApplyAppendEntriesRequest
    <3>2. LastLogIndex(s) \in Index /\ 0 \in Index
      BY <1>1, BoundAssumption DEF TypeInv, TypeOK, IndexesWithinLog, LastLogIndex, Index
    <3>3. /\ rpcs' \subseteq Message
          /\ \A x \in rpcs' : x.kind = "AE_req" => x.prevLogIndex + Len(x.entries) <= MaxLogLen
      BY Zenon, <1>1, <3>1, <3>2, AppendEntriesResponseType, ReplyType
    <3> QED
      BY Zenon, <1>2, <1>3, <2>2, <2>3, <3>1, <3>3 DEF TypeInv, TypeOK, IndexesWithinLog, counters
  <2>5. CASE PrevLogIsOk(s, m)
    <3>1. /\ log' = [log EXCEPT ![s] = q]
          /\ commitIndex' = [commitIndex EXCEPT ![s] = Max({commitIndex[s], m.commitIndex})]
          /\ Reply(m, AppendEntriesResponse(m, m.term, TRUE, Len(q), VerifiedIndex(s, m)))
      BY Zenon, <2>1, <2>5 DEF ApplyAppendEntriesRequest, q
    <3>2. Len(q) \in Index /\ VerifiedIndex(s, m) \in Index
      BY <1>1, <1>4, <2>5, BoundAssumption DEF TypeInv, IndexesWithinLog, Index, VerifiedIndex
    <3>3. /\ rpcs' \subseteq Message
          /\ \A x \in rpcs' : x.kind = "AE_req" => x.prevLogIndex + Len(x.entries) <= MaxLogLen
      BY Zenon, <1>1, <3>1, <3>2, AppendEntriesResponseType, ReplyType
    <3>4. ~TruncatesCommitted(s, m) /\ ~(m.commitIndex > Len(q))
      BY <1>5, <2>5 DEF AppendEntriesRequestAssert, q
    <3>5. commitIndex[s] \in Nat /\ m.commitIndex \in Nat /\ Len(q) \in Nat
      BY <1>1, <3>2, BoundAssumption DEF TypeInv, TypeOK, Index
    <3>6. Max({commitIndex[s], m.commitIndex}) \in Index /\ Max({commitIndex[s], m.commitIndex}) <= Len(q)
      BY <1>4, <2>5, <3>2, <3>4, <3>5, MaxOfTwo, BoundAssumption DEF Index
    <3>7. TypeOK'
      BY <1>1, <1>2, <1>3, <1>4, <2>2, <2>3, <2>5, <3>1, <3>3, <3>6 DEF TypeInv, TypeOK, counters
    <3>8. IndexesWithinLog'
      BY <1>1, <1>2, <1>4, <2>5, <3>1, <3>3, <3>6 DEF TypeInv, TypeOK, IndexesWithinLog
    <3> QED
      BY <3>7, <3>8 DEF TypeInv
  <2> QED
    BY <2>4, <2>5
<1>6. CASE failed # {}
  <2>1. /\ LoseVolatile(s)
        /\ rpcs' = Orphaned(s, rpcs \ {m})
        /\ log' = [log EXCEPT ![s] = IF failed = {"CommitWithinLog"} THEN q ELSE log[s]]
        /\ failedAsserts' = failedAsserts \union failed
    BY <1>6 DEF HandleAppendEntriesRequest, q
  <2>2. failed \subseteq Assertion /\ (failed = {"CommitWithinLog"} => PrevLogIsOk(s, m))
    BY DEF AppendEntriesRequestAssert, Assertion
  <2>3. /\ rpcs' \subseteq Message
        /\ \A x \in rpcs' : x.kind = "AE_req" => x.prevLogIndex + Len(x.entries) <= MaxLogLen
    BY Zenon, <1>1, <2>1, OrphanedType DEF TypeInv, TypeOK, IndexesWithinLog
  <2> HIDE DEF failed
  <2>4. /\ log' \in [Server -> Seq(Term)]
        /\ \A p \in Server : Len(log'[p]) \in Nat /\ Len(log'[p]) <= MaxLogLen /\ firstIndex[p] <= Len(log'[p]) + 1
        /\ \A p \in Server : p # s => log'[p] = log[p]
    BY <1>1, <1>4, <2>1, <2>2 DEF TypeInv, TypeOK, IndexesWithinLog
  <2>5. TypeOK'
    BY ZenonT(30), <1>1, <1>2, <1>3, <2>1, <2>2, <2>3, <2>4, LoseVolatileType DEF TypeInv, TypeOK, counters
  <2>6. IndexesWithinLog'
    <3>1. \A p \in Server : commitIndex'[p] = IF p = s THEN 0 ELSE commitIndex[p]
      BY <1>1, <2>1, LoseVolatileType
    <3>2. \A p \in Server : commitIndex'[p] <= Len(log'[p])
      BY <2>4, <3>1 DEF TypeInv, IndexesWithinLog
    <3> QED
      BY <1>2, <2>3, <2>4, <3>2 DEF IndexesWithinLog
  <2> QED
    BY <2>5, <2>6 DEF TypeInv
<1> QED
  BY <1>5, <1>6

\* The responses to AE_reqs keep TypeInv: backing off never takes mNextIndex below 1
\* and accepting never takes it beyond the log.
LEMMA AppendEntriesResponsesType ==
  ASSUME TypeInv, NEW m \in rpcs,
         \/ IgnoreAppendEntriesResponse(m)
         \/ StepDownOnAppendEntriesResponse(m)
         \/ AcceptAppendEntriesResponse(m)
         \/ BackOffOnAppendEntriesResponse(m)
         \/ AbortOnAppendEntriesResponse(m)
  PROVE  TypeInv'
<1>1. m \in Message /\ m.src \in Server /\ m.dst \in Server /\ m.term \in Term
  BY MessageFields DEF TypeInv, TypeOK
<1>2. CASE IgnoreAppendEntriesResponse(m)
  BY Zenon, <1>2, SwitchedOnType
     DEF IgnoreAppendEntriesResponse, TypeInv, TypeOK, IndexesWithinLog, persistent, history, counters
<1>3. CASE StepDownOnAppendEntriesResponse(m)
  <2>1. StepDown(m.src, m.term)
    BY Zenon, <1>3 DEF StepDownOnAppendEntriesResponse
  <2> QED
    BY ZenonT(30), <1>1, <1>3, <2>1, SwitchedOnType, StepDownType
       DEF StepDownOnAppendEntriesResponse, TypeInv, TypeOK, IndexesWithinLog, history, counters
<1>4. CASE AcceptAppendEntriesResponse(m)
  <2> DEFINE P == SwitchedOn(m)
             v == [[[P[m.src][m.dst] EXCEPT !.matchIndex = m.matchIndex]
                                     EXCEPT !.nextIndex = m.matchIndex + 1]
                                     EXCEPT !.suppressBulkData = FALSE]
  <2>1. P \in [Server -> [Server -> Peer]] /\ m.matchIndex \in Index
    BY ZenonT(30), <1>1, <1>4, SwitchedOnType, MessageFields
       DEF AcceptAppendEntriesResponse, Answers, Arrived
  <2>2. peers' = [P EXCEPT ![m.src][m.dst].matchIndex = m.matchIndex,
                           ![m.src][m.dst].nextIndex = m.matchIndex + 1,
                           ![m.src][m.dst].suppressBulkData = FALSE]
    BY Zenon, <1>4 DEF AcceptAppendEntriesResponse
  <2> HIDE DEF P
  <2>3. v \in Peer
    <3>1. P[m.src][m.dst] \in Peer
      BY Zenon, <1>1, <2>1
    <3>2. m.matchIndex + 1 \in 1 .. MaxLogLen + 1
      BY <2>1, BoundAssumption DEF Index
    <3> QED
      BY Zenon, <2>1, <3>1, <3>2 DEF Peer
  <2>4. peers' = [P EXCEPT ![m.src] = [P[m.src] EXCEPT ![m.dst] = v]]
    BY Zenon, <1>1, <2>1, <2>2
  <2> HIDE DEF v
  <2>5. peers' \in [Server -> [Server -> Peer]]
    BY <1>1, <2>1, <2>3, <2>4
  <2> QED
    BY ZenonT(30), <1>4, <2>5
       DEF AcceptAppendEntriesResponse, TypeInv, TypeOK, IndexesWithinLog, persistent, history, counters
<1>5. CASE BackOffOnAppendEntriesResponse(m)
  <2> DEFINE peer == peers[m.src][m.dst]
             next == NextProbe(peer, m.lastLogIndex)
  <2>1. /\ Answers(m) /\ AppendEntriesResponseAssert(m) = {} /\ ~m.success
        /\ peers' = [SwitchedOn(m) EXCEPT ![m.src][m.dst].nextIndex = next]
    BY <1>5 DEF BackOffOnAppendEntriesResponse
  <2>2. peer \in Peer /\ m.lastLogIndex \in Index
    BY <1>1, <2>1, MessageFields DEF Answers, Arrived, TypeInv, TypeOK
  <2>3. peer.matchIndex \in Nat /\ peer.nextIndex \in 1 .. MaxLogLen + 1 /\ m.lastLogIndex \in 0 .. MaxLogLen
    <3> HIDE DEF peer
    <3> QED
      BY <2>2, BoundAssumption DEF Peer, Index
  <2>4. peer.matchIndex + 1 < peer.nextIndex
    BY <2>1 DEF AppendEntriesResponseAssert, Answers
  <2> HIDE DEF peer
  <2>5. next \in 1 .. MaxLogLen + 1
    <3> DEFINE half == (peer.nextIndex - peer.matchIndex) \div 2
    <3>1. half \in Nat /\ half < peer.nextIndex
      BY <2>3, <2>4, BoundAssumption
    <3>2. next = IF peer.nextIndex > m.lastLogIndex + 1 THEN m.lastLogIndex + 1
                 ELSE peer.nextIndex - Min({half, MaxDecrStep})
      BY DEF NextProbe
    <3> HIDE DEF half, next
    <3>3. Min({half, MaxDecrStep}) \in Nat /\ Min({half, MaxDecrStep}) <= half
      BY <3>1, MinOfTwo, ConfigurableVarsAssumption
    <3> QED
      BY <2>3, <3>1, <3>2, <3>3, BoundAssumption
  <2> HIDE DEF next
  <2>6. peers' \in [Server -> [Server -> Peer]]
    <3>1. SwitchedOn(m)[m.src][m.dst] \in Peer
      BY <1>1, SwitchedOnType
    <3>2. [SwitchedOn(m)[m.src][m.dst] EXCEPT !.nextIndex = next] \in Peer
      BY <2>5, <3>1 DEF Peer
    <3> QED
      BY <1>1, <2>1, <3>2, SwitchedOnType
  <2> QED
    BY <1>5, <2>6
       DEF BackOffOnAppendEntriesResponse, TypeInv, TypeOK, IndexesWithinLog, persistent, history, counters
<1>6. CASE AbortOnAppendEntriesResponse(m)
  <2>1. PICK a \in AppendEntriesResponseAssert(m) : Abort(m.src, a, rpcs \ {m})
    BY <1>6 DEF AbortOnAppendEntriesResponse
  <2>2. a \in Assertion
    BY <2>1 DEF AppendEntriesResponseAssert, Assertion
  <2>3. rpcs \ {m} \subseteq rpcs
    OBVIOUS
  <2> QED
    BY <1>1, <2>1, <2>2, <2>3, AbortType
<1> QED
  BY <1>2, <1>3, <1>4, <1>5, <1>6

\* A failed call and a lost request keep TypeInv.
LEMMA FailRpcType ==
  ASSUME TypeInv, NEW m \in rpcs, FailRpc(m) \/ LoseRequest(m)
  PROVE  TypeInv'
<1>1. m \in Message /\ m.src \in Server /\ m.dst \in Server
  BY MessageFields DEF TypeInv, TypeOK
<1>2. CASE FailRpc(m)
  <2> DEFINE v == SwitchedOn(m)[m.src][m.dst].suppressBulkData \/ m.kind \in {"AE_req", "AE_resp"}
             late == [m EXCEPT !.open = FALSE]
  <2>1. IsRequest(m) => /\ late \in Message
                        /\ late.kind = m.kind
                        /\ m.kind = "AE_req" =>
                             late.prevLogIndex = m.prevLogIndex /\ late.entries = m.entries
    <3>1. CASE m.kind = "RV_req"
      BY Zenon, <1>1, <3>1 DEF Message
    <3>2. CASE m.kind = "AE_req"
      BY Zenon, <1>1, <3>2 DEF Message
    <3> QED
      BY <3>1, <3>2 DEF IsRequest
  <2>2. \/ rpcs' = rpcs \ {m}
        \/ IsRequest(m) /\ rpcs' = (rpcs \ {m}) \union {late}
    BY <1>2 DEF FailRpc
  <2> HIDE DEF late
  <2>3. /\ rpcs' \subseteq Message
        /\ \A x \in rpcs' : x.kind = "AE_req" => x.prevLogIndex + Len(x.entries) <= MaxLogLen
    BY <2>1, <2>2 DEF TypeInv, TypeOK, IndexesWithinLog
  <2>4. peers' \in [Server -> [Server -> Peer]]
    <3>1. SwitchedOn(m)[m.src][m.dst] \in Peer
      BY <1>1, SwitchedOnType
    <3>2. peers' = [SwitchedOn(m) EXCEPT ![m.src][m.dst].suppressBulkData = v]
      BY <1>2 DEF FailRpc
    <3>3. v \in BOOLEAN
      OBVIOUS
    <3> HIDE DEF v
    <3>4. [SwitchedOn(m)[m.src][m.dst] EXCEPT !.suppressBulkData = v] \in Peer
      BY <3>1, <3>3 DEF Peer
    <3> QED
      BY <1>1, <3>2, <3>4, SwitchedOnType
  <2>5. errors' \in 0 .. MaxErrors
    BY <1>2, BoundAssumption DEF FailRpc, TypeInv, TypeOK
  <2> QED
    BY <1>2, <2>3, <2>4, <2>5
       DEF FailRpc, TypeInv, TypeOK, IndexesWithinLog, persistent, history
<1>3. CASE LoseRequest(m)
  BY <1>3 DEF LoseRequest, TypeInv, TypeOK, IndexesWithinLog, persistent, volatile, history, counters
<1> QED
  BY <1>2, <1>3

\* Advancing the commit index keeps TypeInv.
LEMMA AdvanceCommitIndexType ==
  ASSUME CountingFacts, TypeInv, NEW s \in Server, AdvanceCommitIndex(s)
  PROVE  TypeInv'
<1> DEFINE n == MajorityIndex(s)
<1>1. n \in 0 .. Len(log[s])
  BY Zenon, MajorityIndexType
<1> HIDE DEF n
<1>2. /\ MayCommit(s, n)
      /\ commitIndex' = [commitIndex EXCEPT ![s] = n]
      /\ committed' = committed \union {<<n, log[s][n]>>}
      /\ acked' = acked \union Answered(s, n)
      /\ pending' = [pending EXCEPT ![s] = pending[s] \ Answered(s, n)]
      /\ UNCHANGED <<persistent, role, leaderId, peers, rpcs, votes, elected, failedAsserts, counters>>
  BY Zenon DEF AdvanceCommitIndex, n
<1>3. log[s] \in Seq(Term) /\ Len(log[s]) \in Nat /\ Len(log[s]) <= MaxLogLen /\ commitIndex[s] \in Nat
  <2>1. log[s] \in Seq(Term) /\ commitIndex[s] \in Index
    BY DEF TypeInv, TypeOK
  <2>2. Len(log[s]) <= MaxLogLen
    BY ZenonT(30) DEF TypeInv, IndexesWithinLog
  <2>3. Len(log[s]) \in Nat /\ commitIndex[s] \in Nat
    BY Zenon, <2>1, LengthsAreNatural, IndicesAreNatural
  <2> QED
    BY <2>1, <2>2, <2>3
<1>4. n \in 1 .. Len(log[s]) /\ n \in Index
  <2>1. n > commitIndex[s]
    BY <1>2 DEF MayCommit
  <2> QED
    BY <1>1, <1>3, <2>1, BoundAssumption DEF Index
<1>5. log[s][n] \in Term
  BY <1>3, <1>4
<1>6. Answered(s, n) \subseteq Index \X Term
  BY DEF Answered, TypeInv, TypeOK
<1>7. TypeOK'
  <2>1. TypeOK
    BY DEF TypeInv
  <2>2. /\ commitIndex' \in [Server -> Index]
        /\ pending' \in [Server -> SUBSET (Index \X Term)]
    BY <1>2, <1>4, <2>1 DEF TypeOK
  <2>3. committed' \subseteq Index \X Term /\ acked' \subseteq Index \X Term
    BY <1>2, <1>4, <1>5, <1>6, <2>1 DEF TypeOK
  <2> QED
    BY <1>2, <2>1, <2>2, <2>3 DEF TypeOK, persistent, counters
<1>8. IndexesWithinLog'
  <2>1. \A p \in Server : commitIndex'[p] = IF p = s THEN n ELSE commitIndex[p]
    BY <1>2 DEF TypeInv, TypeOK
  <2>2. n <= Len(log[s])
    BY <1>1, <1>3
  <2>3. \A p \in Server : commitIndex'[p] <= Len(log[p])
    BY <2>1, <2>2 DEF TypeInv, IndexesWithinLog
  <2> QED
    BY <1>2, <2>3 DEF TypeInv, IndexesWithinLog, persistent
<1> QED
  BY <1>7, <1>8 DEF TypeInv

\* Appending a client's entry keeps TypeInv.
LEMMA HandleClientRequestsType ==
  ASSUME TypeInv, NEW s \in Server, HandleClientRequests(s)
  PROVE  TypeInv'
<1>1. /\ LastLogIndex(s) < MaxLogLen
      /\ log' = [log EXCEPT ![s] = Append(log[s], currentTerm[s])]
      /\ pending' = [pending EXCEPT ![s] = pending[s] \union {<<LastLogIndex(s) + 1, currentTerm[s]>>}]
      /\ UNCHANGED <<currentTerm, voteFor, firstIndex, role, commitIndex, leaderId, peers, rpcs,
                     votes, elected, committed, acked, failedAsserts, counters>>
  BY Zenon DEF HandleClientRequests
<1>2. log[s] \in Seq(Term) /\ Len(log[s]) \in Nat /\ Len(log[s]) < MaxLogLen /\ currentTerm[s] \in Term
  BY <1>1 DEF TypeInv, TypeOK, LastLogIndex
<1>3. Append(log[s], currentTerm[s]) \in Seq(Term) /\ Len(Append(log[s], currentTerm[s])) = Len(log[s]) + 1
  BY <1>2
<1>4. <<LastLogIndex(s) + 1, currentTerm[s]>> \in Index \X Term
  BY <1>2, BoundAssumption DEF LastLogIndex, Index
<1>5. TypeOK'
  BY <1>1, <1>3, <1>4 DEF TypeInv, TypeOK, counters
<1>6. IndexesWithinLog'
  <2>1. \A p \in Server : Len(log'[p]) = IF p = s THEN Len(log[s]) + 1 ELSE Len(log[p])
    BY <1>1, <1>3 DEF TypeInv, TypeOK
  <2> QED
    BY <1>1, <1>2, <2>1, BoundAssumption DEF TypeInv, TypeOK, IndexesWithinLog, Index
<1> QED
  BY <1>5, <1>6 DEF TypeInv

\* The two timeouts keep TypeInv.
LEMMA TimeoutType ==
  ASSUME TypeInv, NEW s \in Server, ElectionTimeout(s) \/ LeadershipTimeout(s)
  PROVE  TypeInv'
<1>1. CASE ElectionTimeout(s)
  <2>1. currentTerm[s] + 1 \in Term
    <3>1. currentTerm[s] < MaxTerm
      BY Zenon, <1>1 DEF ElectionTimeout
    <3> QED
      BY <3>1, BoundAssumption DEF TypeInv, TypeOK, Term
  <2>2. peers' \in [Server -> [Server -> Peer]]
    <3> DEFINE reset(p) == [peers[s][p] EXCEPT !.requestVoteDone = FALSE, !.haveVote = FALSE,
                                               !.switchOn = TRUE]
    <3>1. ASSUME NEW p \in Server PROVE reset(p) \in Peer
      <4>1. peers[s][p] \in Peer
        BY DEF TypeInv, TypeOK
      <4> QED
        BY ZenonT(30), <4>1 DEF Peer
    <3>2. peers' = [peers EXCEPT ![s] = [p \in Server |-> reset(p)]]
      BY Zenon, <1>1 DEF ElectionTimeout, TypeInv, TypeOK
    <3> HIDE DEF reset
    <3> QED
      BY <3>1, <3>2 DEF TypeInv, TypeOK
  <2>3. /\ role' = [role EXCEPT ![s] = "Candidate"]
        /\ currentTerm' = [currentTerm EXCEPT ![s] = currentTerm[s] + 1]
        /\ voteFor' = [voteFor EXCEPT ![s] = s]
        /\ leaderId' = [leaderId EXCEPT ![s] = Nobody]
        /\ votes' = votes \union {<<s, currentTerm[s] + 1, s>>}
        /\ UNCHANGED <<log, firstIndex, commitIndex, pending, rpcs, elected, committed, acked,
                       failedAsserts, counters>>
    BY ZenonT(30), <1>1 DEF ElectionTimeout
  <2>4. TypeOK'
    <3>1. /\ role' \in [Server -> Role] /\ currentTerm' \in [Server -> Term]
          /\ voteFor' \in [Server -> Server \union {Nobody}]
          /\ leaderId' \in [Server -> Server \union {Nobody}]
      BY <2>1, <2>3 DEF TypeInv, TypeOK, Role
    <3>2. votes' \subseteq Server \X Term \X Server
      <4>1. <<s, currentTerm[s] + 1, s>> \in Server \X Term \X Server
        BY <2>1
      <4> QED
        BY <2>3, <4>1 DEF TypeInv, TypeOK
    <3>3. TypeOK
      BY DEF TypeInv
    <3> QED
      BY <2>2, <2>3, <3>1, <3>2, <3>3 DEF TypeOK, counters
  <2>5. IndexesWithinLog'
    BY Zenon, <2>3 DEF TypeInv, IndexesWithinLog
  <2> QED
    BY <2>4, <2>5 DEF TypeInv
<1>2. CASE LeadershipTimeout(s)
  <2>1. currentTerm[s] + 1 \in Term /\ StepDown(s, currentTerm[s] + 1)
    <3>1. currentTerm[s] < MaxTerm /\ StepDown(s, currentTerm[s] + 1)
      BY <1>2 DEF LeadershipTimeout
    <3>2. currentTerm[s] \in Term
      BY DEF TypeInv, TypeOK
    <3> QED
      BY <3>1, <3>2, BoundAssumption DEF Term
  <2> QED
    BY Zenon, <1>2, <2>1, StepDownType
       DEF LeadershipTimeout, TypeInv, TypeOK, IndexesWithinLog, history, counters
<1> QED
  BY <1>1, <1>2

\* A crash keeps TypeInv, wherever it strikes.
LEMMA CrashType ==
  ASSUME TypeInv, NEW s \in Server, Crash(s) \/ CrashBetweenTermAndVote(s)
  PROVE  TypeInv'
<1>1. /\ LoseVolatile(s) /\ rpcs' = Orphaned(s, rpcs) /\ crashes' \in 0 .. MaxCrashes
      /\ UNCHANGED <<log, firstIndex, history, errors, truncations>>
  <2>1. /\ LoseVolatile(s) /\ rpcs' = Orphaned(s, rpcs)
        /\ crashes < MaxCrashes /\ crashes' = crashes + 1
        /\ UNCHANGED <<log, firstIndex, history, errors, truncations>>
    BY DEF Crash, CrashBetweenTermAndVote, persistent
  <2>2. crashes \in 0 .. MaxCrashes
    BY DEF TypeInv, TypeOK
  <2>3. crashes' \in 0 .. MaxCrashes
    BY <2>1, <2>2, BoundAssumption
  <2> QED
    BY <2>1, <2>3
<1>2. currentTerm' \in [Server -> Term] /\ voteFor' \in [Server -> Server \union {Nobody}]
  <2>1. CASE Crash(s)
    BY <2>1 DEF Crash, persistent, TypeInv, TypeOK
  <2>2. CASE CrashBetweenTermAndVote(s)
    <3>1. PICK t \in NewTerms(s) : currentTerm' = [currentTerm EXCEPT ![s] = t]
      BY Zenon, <2>2 DEF CrashBetweenTermAndVote
    <3>2. PICK v \in {voteFor[s], Nobody} : voteFor' = [voteFor EXCEPT ![s] = v]
      BY Zenon, <2>2 DEF CrashBetweenTermAndVote
    <3>3. t \in Term
      BY <3>1 DEF NewTerms
    <3> QED
      BY <3>1, <3>2, <3>3 DEF TypeInv, TypeOK
  <2> QED
    BY <2>1, <2>2
<1>3. /\ rpcs' \subseteq Message
      /\ \A x \in rpcs' : x.kind = "AE_req" => x.prevLogIndex + Len(x.entries) <= MaxLogLen
  BY Zenon, <1>1, OrphanedType DEF TypeInv, TypeOK, IndexesWithinLog
<1>4. TypeOK'
  BY Zenon, <1>1, <1>2, <1>3, LoseVolatileType DEF TypeInv, TypeOK, history
<1>5. IndexesWithinLog'
  <2>1. \A p \in Server : commitIndex'[p] = IF p = s THEN 0 ELSE commitIndex[p]
    BY <1>1, LoseVolatileType
  <2>2. \A p \in Server : Len(log[p]) \in Nat
    BY DEF TypeInv, TypeOK
  <2>3. ASSUME NEW p \in Server
        PROVE  /\ Len(log'[p]) <= MaxLogLen /\ commitIndex'[p] <= Len(log'[p])
               /\ firstIndex'[p] <= Len(log'[p]) + 1
    <3>1. /\ Len(log[p]) <= MaxLogLen /\ commitIndex[p] <= Len(log[p])
          /\ firstIndex[p] <= Len(log[p]) + 1
      BY DEF TypeInv, IndexesWithinLog
    <3>2. log' = log /\ firstIndex' = firstIndex
      BY <1>1
    <3>3. commitIndex'[p] = 0 \/ commitIndex'[p] = commitIndex[p]
      BY <2>1
    <3>4. Len(log[p]) \in Nat
      BY <2>2
    <3> QED
      BY <3>1, <3>2, <3>3, <3>4
  <2> QED
    BY <1>3, <2>3 DEF IndexesWithinLog
<1> QED
  BY <1>4, <1>5 DEF TypeInv

\* So does a crash in the middle of handleAppendEntriesRequest.
LEMMA CrashBetweenTruncateAndAppendType ==
  ASSUME CountingFacts, TypeInv, NEW m \in rpcs, CrashBetweenTruncateAndAppend(m)
  PROVE  TypeInv'
<1> DEFINE s == m.dst
           n == m.prevLogIndex + Min(NewEntries(s, m)) - 1
           q == SubSeq(log[s], 1, n)
<1>1. /\ m \in Message /\ m.kind = "AE_req" /\ s \in Server /\ m.prevLogIndex \in Nat
      /\ log[s] \in Seq(Term) /\ Len(log[s]) \in Nat /\ Len(log[s]) <= MaxLogLen
      /\ firstIndex[s] \in Nat
  <2>1. m \in Message /\ m.kind = "AE_req"
    BY Zenon DEF CrashBetweenTruncateAndAppend, Arrived, TypeInv, TypeOK
  <2>2. s \in Server /\ m.prevLogIndex \in Index
    BY <2>1, MessageFields
  <2>3. log[s] \in Seq(Term) /\ firstIndex[s] \in 1 .. MaxLogLen + 1
    BY <2>2 DEF TypeInv, TypeOK
  <2>4. Len(log[s]) <= MaxLogLen
    BY Zenon, <2>2 DEF TypeInv, IndexesWithinLog
  <2>5. m.prevLogIndex \in Nat /\ Len(log[s]) \in Nat /\ firstIndex[s] \in Nat
    BY <2>2, <2>3, BoundAssumption DEF Index
  <2> QED
    BY <2>1, <2>2, <2>3, <2>4, <2>5
<1>2. /\ PrevLogIsOk(s, m) /\ NewEntries(s, m) # {}
      /\ LoseVolatile(s) /\ rpcs' = Orphaned(s, rpcs \ {m})
      /\ log' = [log EXCEPT ![s] = q]
      /\ crashes' \in 0 .. MaxCrashes
      /\ UNCHANGED <<currentTerm, voteFor, firstIndex, history, errors, truncations>>
  <2>1. /\ PrevLogIsOk(s, m) /\ NewEntries(s, m) # {}
        /\ LoseVolatile(s) /\ rpcs' = Orphaned(s, rpcs \ {m})
        /\ log' = [log EXCEPT ![s] = q]
        /\ crashes < MaxCrashes /\ crashes' = crashes + 1
        /\ UNCHANGED <<currentTerm, voteFor, firstIndex, history, errors, truncations>>
    BY DEF CrashBetweenTruncateAndAppend
  <2>2. crashes \in 0 .. MaxCrashes
    BY DEF TypeInv, TypeOK
  <2>3. crashes' \in 0 .. MaxCrashes
    BY <2>1, <2>2, BoundAssumption
  <2> QED
    BY <2>1, <2>3
<1>3. n \in Nat /\ n <= Len(log[s]) /\ firstIndex[s] <= n + 1
  <2> DEFINE k == Min(NewEntries(s, m))
  <2>1. k \in 1 .. Len(m.entries) /\ m.prevLogIndex + k >= firstIndex[s] /\ m.prevLogIndex + k - 1 <= Len(log[s])
    BY Zenon, <1>1, <1>2, FirstNewEntry
  <2>2. n = m.prevLogIndex + k - 1
    OBVIOUS
  <2> HIDE DEF k, n
  <2> QED
    BY <1>1, <2>1, <2>2
<1> HIDE DEF n
<1>4. q \in Seq(Term) /\ Len(q) = n
  BY <1>1, <1>3, CutLog
<1> HIDE DEF q
<1>5. /\ rpcs' \subseteq Message
      /\ \A x \in rpcs' : x.kind = "AE_req" => x.prevLogIndex + Len(x.entries) <= MaxLogLen
  BY Zenon, <1>1, <1>2, OrphanedType DEF TypeInv, TypeOK, IndexesWithinLog
<1>6. TypeOK'
  BY ZenonT(30), <1>1, <1>2, <1>4, <1>5, LoseVolatileType DEF TypeInv, TypeOK, history
<1>7. IndexesWithinLog'
  <2>1. \A p \in Server : commitIndex'[p] = IF p = s THEN 0 ELSE commitIndex[p]
    BY <1>1, <1>2, LoseVolatileType
  <2>2. \A p \in Server : Len(log'[p]) = IF p = s THEN n ELSE Len(log[p])
    BY <1>1, <1>2, <1>4 DEF TypeInv, TypeOK
  <2>3. \A p \in Server : /\ Len(log'[p]) <= MaxLogLen /\ commitIndex'[p] <= Len(log'[p])
                          /\ firstIndex[p] <= Len(log'[p]) + 1
    BY <1>1, <1>3, <2>1, <2>2, BoundAssumption DEF TypeInv, IndexesWithinLog
  <2> QED
    BY ZenonT(30), <1>2, <1>5, <2>3 DEF IndexesWithinLog
<1> QED
  BY <1>6, <1>7 DEF TypeInv

\* Discarding a prefix keeps TypeInv.
LEMMA TruncatePrefixType ==
  ASSUME TypeInv, NEW s \in Server, NEW i \in Index, TruncatePrefix(s, i)
  PROVE  TypeInv'
<1>1. /\ firstIndex[s] < i /\ i <= commitIndex[s]
      /\ firstIndex' = [firstIndex EXCEPT ![s] = i]
      /\ truncations' \in 0 .. MaxTruncations
      /\ UNCHANGED <<currentTerm, voteFor, log, volatile, rpcs, history, errors, crashes>>
  <2>1. /\ firstIndex[s] < i /\ i <= commitIndex[s]
        /\ firstIndex' = [firstIndex EXCEPT ![s] = i]
        /\ truncations < MaxTruncations /\ truncations' = truncations + 1
        /\ UNCHANGED <<currentTerm, voteFor, log, volatile, rpcs, history, errors, crashes>>
    BY DEF TruncatePrefix
  <2>2. truncations \in 0 .. MaxTruncations
    BY DEF TypeInv, TypeOK
  <2>3. truncations' \in 0 .. MaxTruncations
    BY <2>1, <2>2, BoundAssumption
  <2> QED
    BY <2>1, <2>3
<1>2. /\ firstIndex[s] \in 1 .. MaxLogLen + 1 /\ commitIndex[s] \in Nat /\ commitIndex[s] <= Len(log[s])
      /\ i \in 0 .. MaxLogLen /\ Len(log[s]) \in Nat
  <2>1. firstIndex[s] \in 1 .. MaxLogLen + 1 /\ commitIndex[s] \in Index /\ log[s] \in Seq(Term)
    BY DEF TypeInv, TypeOK
  <2>2. commitIndex[s] <= Len(log[s])
    BY DEF TypeInv, IndexesWithinLog
  <2>3. commitIndex[s] \in Nat /\ i \in 0 .. MaxLogLen /\ Len(log[s]) \in Nat
    BY <2>1 DEF Index
  <2> QED
    BY <2>1, <2>2, <2>3
<1>3. i \in 1 .. MaxLogLen + 1 /\ i <= Len(log[s]) + 1
  BY <1>1, <1>2, BoundAssumption
<1>4. TypeOK'
  BY <1>1, <1>3 DEF TypeInv, TypeOK, volatile, history
<1>5. IndexesWithinLog'
  BY <1>1, <1>3 DEF TypeInv, TypeOK, IndexesWithinLog, volatile
<1> QED
  BY <1>4, <1>5 DEF TypeInv

\* TypeInv is inductive.
LEMMA TypeInvStep ==
  ASSUME CountingFacts, TypeInv, [Next]_vars
  PROVE  TypeInv'
<1>1. ASSUME NEW s \in Server, NEW p \in Server, RequestVote(s, p)
      PROVE  TypeInv'
  BY <1>1, RequestVoteType
<1>2. ASSUME NEW s \in Server, NEW p \in Server, AppendEntries(s, p)
      PROVE  TypeInv'
  BY <1>2, AppendEntriesType
<1>3. ASSUME NEW m \in rpcs, Receive(m)
      PROVE  TypeInv'
  BY <1>3, HandleRequestVoteRequestType, RequestVoteResponseType, RejectStaleType,
     HandleAppendEntriesRequestType, AppendEntriesResponsesType DEF Receive
<1>4. ASSUME NEW m \in rpcs, FailRpc(m) \/ LoseRequest(m)
      PROVE  TypeInv'
  BY <1>4, FailRpcType
<1>5. ASSUME NEW s \in Server, BecomeLeader(s)
      PROVE  TypeInv'
  BY <1>5, BecomeLeaderType
<1>6. ASSUME NEW s \in Server, AdvanceCommitIndex(s)
      PROVE  TypeInv'
  BY <1>6, AdvanceCommitIndexType
<1>7. ASSUME NEW s \in Server, HandleClientRequests(s)
      PROVE  TypeInv'
  BY <1>7, HandleClientRequestsType
<1>8. ASSUME NEW s \in Server, ElectionTimeout(s) \/ LeadershipTimeout(s)
      PROVE  TypeInv'
  BY <1>8, TimeoutType
<1>9. ASSUME NEW s \in Server, Crash(s) \/ CrashBetweenTermAndVote(s)
      PROVE  TypeInv'
  BY <1>9, CrashType
<1>10. ASSUME NEW m \in rpcs, CrashBetweenTruncateAndAppend(m)
       PROVE  TypeInv'
  BY <1>10, CrashBetweenTruncateAndAppendType
<1>11. ASSUME NEW s \in Server, NEW i \in Index, TruncatePrefix(s, i)
       PROVE  TypeInv'
  BY <1>11, TruncatePrefixType
<1>12. CASE UNCHANGED vars
  BY <1>12 DEF vars, persistent, volatile, history, counters, TypeInv, TypeOK, IndexesWithinLog
<1> QED
  BY <1>1, <1>2, <1>3, <1>4, <1>5, <1>6, <1>7, <1>8, <1>9, <1>10, <1>11, <1>12 DEF Next

\* The initial state is typed.
LEMMA TypeInvInit ==
  ASSUME Init
  PROVE  TypeInv
<1>1. NewPeer \in Peer
  BY BoundAssumption DEF NewPeer, Peer, Index
<1>2. 0 \in Index /\ 0 \in Term /\ 1 \in 1 .. MaxLogLen + 1
  BY BoundAssumption DEF Index, Term
<1>3. TypeOK
  <2>1. /\ role \in [Server -> Role] /\ currentTerm \in [Server -> Term]
        /\ voteFor \in [Server -> Server \union {Nobody}] /\ leaderId \in [Server -> Server \union {Nobody}]
    BY <1>2 DEF Init, Role
  <2>2. log \in [Server -> Seq(Term)]
    BY DEF Init
  <2>3. firstIndex \in [Server -> 1 .. MaxLogLen + 1] /\ commitIndex \in [Server -> Index]
    BY <1>2 DEF Init
  <2>4. peers \in [Server -> [Server -> Peer]] /\ pending \in [Server -> SUBSET (Index \X Term)]
    BY <1>1 DEF Init
  <2>5. /\ rpcs = {} /\ votes = {} /\ elected = {} /\ committed = {} /\ acked = {} /\ failedAsserts = {}
        /\ errors = 0 /\ crashes = 0 /\ truncations = 0
    BY DEF Init
  <2>6. errors \in 0 .. MaxErrors /\ crashes \in 0 .. MaxCrashes /\ truncations \in 0 .. MaxTruncations
    BY <2>5, BoundAssumption
  <2> QED
    BY <2>1, <2>2, <2>3, <2>4, <2>5, <2>6 DEF TypeOK
<1>4. IndexesWithinLog
  BY BoundAssumption DEF Init, IndexesWithinLog
<1> QED
  BY <1>3, <1>4 DEF TypeInv

\* A recorded vote names a voter and a term, and the voter's own term is a number, now and
\* after the step.
LEMMA VoteTypes ==
  ASSUME TypeInv, TypeInv', NEW v \in votes
  PROVE  /\ v[1] \in Server /\ v[2] \in Int
         /\ currentTerm[v[1]] \in Int /\ currentTerm'[v[1]] \in Int
<1>1. votes \subseteq Server \X Term \X Server
  BY Zenon DEF TypeInv, TypeOK
<1>2. currentTerm \in [Server -> Term] /\ currentTerm' \in [Server -> Term]
  BY Zenon DEF TypeInv, TypeOK
<1>3. Term \subseteq Int
  BY BoundAssumption DEF Term
<1>4. v[1] \in Server /\ v[2] \in Term
  BY ONLY <1>1, v \in votes
<1>5. currentTerm[v[1]] \in Term /\ currentTerm'[v[1]] \in Term
  BY Zenon, <1>2, <1>4
<1> QED
  BY Zenon, <1>3, <1>4, <1>5

\* A timid step keeps VoteInv.
LEMMA TimidStepKeepsVoteInv ==
  ASSUME TypeInv, TypeInv', VoteInv, TimidStep
  PROVE  VoteInv'
<1>1. votes' = votes /\ elected' = elected
  BY DEF TimidStep
<1>2. VotesArePersistent'
  <2> SUFFICES ASSUME NEW v \in votes
               PROVE  /\ v[2] <= currentTerm'[v[1]]
                      /\ v[2] = currentTerm'[v[1]] => voteFor'[v[1]] = v[3]
    BY <1>1 DEF VotesArePersistent
  <2>1. /\ v[1] \in Server /\ v[2] \in Int /\ currentTerm[v[1]] \in Int /\ currentTerm'[v[1]] \in Int
    BY Zenon, VoteTypes
  <2>2. /\ currentTerm'[v[1]] >= currentTerm[v[1]]
        /\ currentTerm'[v[1]] = currentTerm[v[1]] => voteFor'[v[1]] = voteFor[v[1]]
    BY <2>1 DEF TimidStep
  <2>3. /\ v[2] <= currentTerm[v[1]]
        /\ v[2] = currentTerm[v[1]] => voteFor[v[1]] = v[3]
    BY DEF VoteInv, VotesArePersistent
  <2> QED
    BY <2>1, <2>2, <2>3
<1>3. OneVotePerTerm'
  BY <1>1 DEF VoteInv, OneVotePerTerm
<1>4. VotesAreCast'
  BY <1>1 DEF VoteInv, VotesAreCast, TimidStep
<1>5. LeadersHaveMajorities'
  BY <1>1 DEF VoteInv, LeadersHaveMajorities
<1> QED
  BY <1>2, <1>3, <1>4, <1>5 DEF VoteInv

-----------------------------------------------------------------------------
(* The timid actions.                                                      *)

\* Sending is timid.
LEMMA SendingIsTimid ==
  ASSUME TypeInv, NEW s \in Server, NEW p \in Server, RequestVote(s, p) \/ AppendEntries(s, p)
  PROVE  TimidStep
<1>1. CASE Abort(s, "TermOfLogEntry", rpcs)
  BY <1>1, AbortIsTimid
<1>2. CASE ~Abort(s, "TermOfLogEntry", rpcs)
  <2>1. PICK r : r.kind # "RV_resp" /\ rpcs' = rpcs \union {r}
    BY Zenon, <1>2 DEF RequestVote, AppendEntries
  <2>2. /\ peers' = [peers EXCEPT ![s][p].switchOn = FALSE]
        /\ UNCHANGED <<votes, elected, currentTerm, voteFor, role>>
    BY <1>2 DEF RequestVote, AppendEntries, persistent, history
  <2>3. \A q, x \in Server : peers'[q][x].haveVote = peers[q][x].haveVote
    <3>1. peers[s][p] \in Peer
      BY DEF TypeInv, TypeOK
    <3>2. [peers[s][p] EXCEPT !.switchOn = FALSE].haveVote = peers[s][p].haveVote
      BY <3>1 DEF Peer
    <3> QED
      BY <2>2, <3>2 DEF TypeInv, TypeOK
  <2> QED
    BY <2>1, <2>2, <2>3, QuietIsTimid
<1> QED
  BY <1>1, <1>2

\* Changing one peer without its vote changes no tally.
LEMMA PeerUpdateTally ==
  ASSUME NEW P \in [Server -> [Server -> Peer]], NEW s \in Server, NEW p \in Server,
         NEW v, v.haveVote = P[s][p].haveVote, NEW q \in Server, NEW x \in Server
  PROVE  [P EXCEPT ![s] = [P[s] EXCEPT ![p] = v]][q][x].haveVote = P[q][x].haveVote
OBVIOUS

\* Replication and failed calls are timid.
LEMMA ReplicationIsTimid ==
  ASSUME TypeInv, NEW m \in rpcs,
         AcceptAppendEntriesResponse(m) \/ BackOffOnAppendEntriesResponse(m) \/ FailRpc(m)
  PROVE  TimidStep
<1> DEFINE P == SwitchedOn(m)
           peer == P[m.src][m.dst]
<1>1. m \in Message /\ m.src \in Server /\ m.dst \in Server /\ P \in [Server -> [Server -> Peer]]
  BY ZenonT(30), MessageFields, SwitchedOnType DEF TypeInv, TypeOK
<1>2. UNCHANGED <<votes, elected, currentTerm, voteFor, role>>
  BY ZenonT(30) DEF AcceptAppendEntriesResponse, BackOffOnAppendEntriesResponse, FailRpc, persistent, history
<1>3. \A x \in rpcs' : x.kind = "RV_resp" => x \in rpcs
  <2>1. IsRequest(m) => [m EXCEPT !.open = FALSE].kind # "RV_resp"
    BY <1>1 DEF Message, IsRequest
  <2> QED
    BY Zenon, <2>1 DEF AcceptAppendEntriesResponse, BackOffOnAppendEntriesResponse, FailRpc
<1>4. PICK v : v.haveVote = peer.haveVote /\ peers' = [P EXCEPT ![m.src] = [P[m.src] EXCEPT ![m.dst] = v]]
  <2>1. peer \in Peer
    BY <1>1
  <2>2. CASE AcceptAppendEntriesResponse(m)
    <3> DEFINE v == [[[peer EXCEPT !.matchIndex = m.matchIndex]
                            EXCEPT !.nextIndex = m.matchIndex + 1]
                            EXCEPT !.suppressBulkData = FALSE]
    <3>1. peers' = [P EXCEPT ![m.src][m.dst].matchIndex = m.matchIndex,
                             ![m.src][m.dst].nextIndex = m.matchIndex + 1,
                             ![m.src][m.dst].suppressBulkData = FALSE]
      BY Zenon, <2>2 DEF AcceptAppendEntriesResponse
    <3> HIDE DEF P
    <3>2. peers' = [P EXCEPT ![m.src] = [P[m.src] EXCEPT ![m.dst] = v]]
      BY Zenon, <1>1, <3>1
    <3>3. v.haveVote = peer.haveVote
      <4> HIDE DEF peer
      <4> QED
        BY <2>1 DEF Peer
    <3> QED
      BY ZenonT(30), <3>2, <3>3
  <2>3. CASE BackOffOnAppendEntriesResponse(m)
    <3> DEFINE n == NextProbe(peers[m.src][m.dst], m.lastLogIndex)
               v == [peer EXCEPT !.nextIndex = n]
    <3>1. peers' = [P EXCEPT ![m.src] = [P[m.src] EXCEPT ![m.dst] = v]]
      BY <2>3 DEF BackOffOnAppendEntriesResponse
    <3>2. v.haveVote = peer.haveVote
      <4> HIDE DEF peer, n
      <4> QED
        BY <2>1 DEF Peer
    <3> QED
      BY Zenon, <3>1, <3>2
  <2>4. CASE FailRpc(m)
    <3> DEFINE b == peer.suppressBulkData \/ m.kind \in {"AE_req", "AE_resp"}
               v == [peer EXCEPT !.suppressBulkData = b]
    <3>1. peers' = [P EXCEPT ![m.src] = [P[m.src] EXCEPT ![m.dst] = v]]
      BY <2>4 DEF FailRpc
    <3>2. v.haveVote = peer.haveVote
      <4> HIDE DEF peer, b
      <4> QED
        BY <2>1 DEF Peer
    <3> QED
      BY Zenon, <3>1, <3>2
  <2> QED
    BY Zenon, <2>2, <2>3, <2>4
<1> HIDE DEF P
<1>5. \A q, x \in Server : peers'[q][x].haveVote = P[q][x].haveVote
  BY <1>1, <1>4, PeerUpdateTally
<1>6. \A q, x \in Server : peers'[q][x].haveVote = peers[q][x].haveVote
  BY <1>5, SwitchedOnTally DEF P
<1> QED
  BY ZenonT(30), <1>2, <1>3, <1>6, QuietIsTimid

\* So are the remaining steps of a message.
LEMMA OtherMessageStepsAreTimid ==
  ASSUME TypeInv, NEW m \in rpcs,
         \/ RejectStaleAppendEntriesRequest(m) \/ LoseRequest(m)
         \/ AbortOnAppendEntriesResponse(m) \/ CrashBetweenTruncateAndAppend(m)
  PROVE  TimidStep
<1>1. \A p \in Server : currentTerm[p] \in Int
  BY BoundAssumption DEF TypeInv, TypeOK, Term
<1>2. m.src \in Server /\ m.dst \in Server /\ rpcs \ {m} \subseteq rpcs
  BY ZenonT(30), MessageFields DEF TypeInv, TypeOK
<1>3. CASE RejectStaleAppendEntriesRequest(m)
  BY <1>3, QuietIsTimid
     DEF RejectStaleAppendEntriesRequest, Reply, AppendEntriesResponse, persistent, volatile, history
<1>4. CASE LoseRequest(m)
  BY ZenonT(30), <1>4, QuietIsTimid DEF LoseRequest, persistent, volatile, history
<1>5. CASE AbortOnAppendEntriesResponse(m)
  BY ZenonT(30), <1>2, <1>5, AbortIsTimid DEF AbortOnAppendEntriesResponse
<1>6. CASE CrashBetweenTruncateAndAppend(m)
  <2>1. /\ LoseVolatile(m.dst) /\ rpcs' = Orphaned(m.dst, rpcs \ {m})
        /\ UNCHANGED <<currentTerm, voteFor, votes, elected>>
    BY Zenon, <1>6 DEF CrashBetweenTruncateAndAppend, history
  <2>2. \A p \in Server : currentTerm'[p] >= currentTerm[p] /\ currentTerm'[p] = currentTerm[p]
    BY Zenon, <1>1, <2>1, NotLessThanItself
  <2>3. \A p \in Server : /\ currentTerm'[p] >= currentTerm[p]
                          /\ currentTerm'[p] = currentTerm[p] => voteFor'[p] = voteFor[p]
    BY Zenon, <2>1, <2>2
  <2>4. \A p \in Server : p # m.dst => currentTerm'[p] = currentTerm[p]
    BY Zenon, <2>2
  <2>5. UNCHANGED <<votes, elected>>
    BY Zenon, <2>1
  <2> QED
    BY Zenon, <1>2, <2>1, <2>3, <2>4, <2>5, RestartIsTimid
<1> QED
  BY Zenon, <1>3, <1>4, <1>5, <1>6

-----------------------------------------------------------------------------
(* The bold actions.                                                       *)

\* More votes leave a majority a majority.
LEMMA MajoritiesStay ==
  ASSUME LeadersHaveMajorities, votes \subseteq votes', elected' = elected
  PROVE  LeadersHaveMajorities'
BY DEF LeadersHaveMajorities

\* A vote of s for c in term t that its term and its vote allow keeps the history of
\* votes sound.
LEMMA CastVote ==
  ASSUME TypeInv, TypeInv', VoteInv, NEW s \in Server, NEW t \in Term, NEW c \in Server,
         votes' = votes \union {<<s, t, c>>},
         \/ t > currentTerm[s]
         \/ t = currentTerm[s] /\ voteFor[s] \in {Nobody, c},
         currentTerm' = [currentTerm EXCEPT ![s] = t],
         voteFor' = [voteFor EXCEPT ![s] = c]
  PROVE  VotesArePersistent' /\ OneVotePerTerm'
<1>1. /\ t \in Int /\ \A p \in Server : currentTerm[p] \in Int
      /\ \A v \in votes : v[1] \in Server /\ v[2] \in Int /\ v[3] \in Server
      /\ currentTerm'[s] = t /\ voteFor'[s] = c
      /\ \A p \in Server : p # s => currentTerm'[p] = currentTerm[p] /\ voteFor'[p] = voteFor[p]
  <2>1. t \in Int /\ \A p \in Server : currentTerm[p] \in Int
    BY Zenon, TermsAreNatural DEF TypeInv, TypeOK
  <2>2. ASSUME NEW v \in votes PROVE v[1] \in Server /\ v[2] \in Int /\ v[3] \in Server
    <3>1. v \in Server \X Term \X Server /\ Term \subseteq Int
      BY Zenon, TermsAreNatural DEF TypeInv, TypeOK
    <3> QED
      BY Zenon, <3>1
  <2>3. /\ currentTerm'[s] = t /\ voteFor'[s] = c
        /\ \A p \in Server : p # s => currentTerm'[p] = currentTerm[p] /\ voteFor'[p] = voteFor[p]
    BY Zenon DEF TypeInv, TypeOK
  <2> QED
    BY <2>1, <2>2, <2>3
<1>2. \A v \in votes : /\ v[2] <= currentTerm[v[1]]
                       /\ v[2] = currentTerm[v[1]] => voteFor[v[1]] = v[3]
  BY DEF VoteInv, VotesArePersistent
<1>3. \A v \in votes : v[1] = s => v[2] <= t /\ (v[2] = t => v[3] = c)
  BY <1>1, <1>2, ServerAssumption
<1>4. VotesArePersistent'
  <2> SUFFICES ASSUME NEW v \in votes'
               PROVE  /\ v[2] <= currentTerm'[v[1]]
                      /\ v[2] = currentTerm'[v[1]] => voteFor'[v[1]] = v[3]
    BY DEF VotesArePersistent
  <2>1. CASE v = <<s, t, c>>
    BY <1>1, <2>1
  <2>2. CASE v \in votes /\ v[1] = s
    BY <1>1, <1>3, <2>2
  <2>3. CASE v \in votes /\ v[1] # s
    BY <1>1, <1>2, <2>3
  <2> QED
    BY <2>1, <2>2, <2>3
<1>5. OneVotePerTerm'
  <2> SUFFICES ASSUME NEW v \in votes', NEW w \in votes', v[1] = w[1], v[2] = w[2]
               PROVE  v[3] = w[3]
    BY DEF OneVotePerTerm
  <2>1. CASE v \in votes /\ w \in votes
    BY <2>1 DEF VoteInv, OneVotePerTerm
  <2>2. CASE v = <<s, t, c>> /\ w \in votes
    BY <1>3, <2>2
  <2>3. CASE w = <<s, t, c>> /\ v \in votes
    BY <1>3, <2>3
  <2>4. CASE v = <<s, t, c>> /\ w = <<s, t, c>>
    BY <2>4
  <2> QED
    BY <2>1, <2>2, <2>3, <2>4
<1> QED
  BY <1>4, <1>5

\* electionTimeout: a candidate votes for itself in a term it has never been in.
LEMMA ElectionTimeoutKeepsVoteInv ==
  ASSUME TypeInv, TypeInv', VoteInv, NEW s \in Server, ElectionTimeout(s)
  PROVE  VoteInv'
<1>1. /\ role' = [role EXCEPT ![s] = "Candidate"]
      /\ currentTerm' = [currentTerm EXCEPT ![s] = currentTerm[s] + 1]
      /\ voteFor' = [voteFor EXCEPT ![s] = s]
      /\ peers' = [peers EXCEPT ![s] = [p \in Server |->
           [peers[s][p] EXCEPT !.requestVoteDone = FALSE, !.haveVote = FALSE, !.switchOn = TRUE]]]
      /\ votes' = votes \union {<<s, currentTerm[s] + 1, s>>}
      /\ UNCHANGED <<rpcs, elected>>
  BY Zenon DEF ElectionTimeout
<1>2. currentTerm[s] + 1 \in Term /\ currentTerm[s] + 1 > currentTerm[s]
  <2>1. currentTerm[s] < MaxTerm
    BY ZenonT(30) DEF ElectionTimeout
  <2> QED
    BY <2>1, BoundAssumption DEF TypeInv, TypeOK, Term
<1>3. VotesArePersistent' /\ OneVotePerTerm'
  BY ZenonT(30), <1>1, <1>2, CastVote
<1>4. VotesAreCast'
  <2>1. \A p \in Server : peers'[s][p].haveVote = FALSE
    <3> SUFFICES ASSUME NEW p \in Server PROVE peers'[s][p].haveVote = FALSE
      BY ZenonT(30)
    <3>1. peers[s][p] \in Peer
      BY DEF TypeInv, TypeOK
    <3>2. [peers[s][p] EXCEPT !.requestVoteDone = FALSE, !.haveVote = FALSE, !.switchOn = TRUE].haveVote = FALSE
      BY <3>1 DEF Peer
    <3> QED
      BY Zenon, <1>1, <3>2 DEF TypeInv, TypeOK
  <2>2. currentTerm'[s] = currentTerm[s] + 1
    BY Zenon, <1>1 DEF TypeInv, TypeOK
  <2>3. \A q \in Server : q # s => role'[q] = role[q] /\ currentTerm'[q] = currentTerm[q] /\ peers'[q] = peers[q]
    BY ZenonT(30), <1>1 DEF TypeInv, TypeOK
  <2>4. \A m \in rpcs' : m.kind = "RV_resp" /\ m.voteGranted => <<m.dst, m.savedTerm, m.src>> \in votes'
    BY Zenon, <1>1 DEF VoteInv, VotesAreCast
  <2>5. ASSUME NEW q \in Server, role'[q] = "Candidate"
        PROVE  /\ <<q, currentTerm'[q], q>> \in votes'
               /\ \A p \in Server : peers'[q][p].haveVote => <<p, currentTerm'[q], q>> \in votes'
    <3>1. CASE q = s
      <4>1. <<s, currentTerm[s] + 1, s>> \in votes'
        BY Zenon, <1>1
      <4> QED
        BY Zenon, <2>1, <2>2, <3>1, <4>1
    <3>2. CASE q # s
      <4>1. votes \subseteq votes'
        BY Zenon, <1>1
      <4>2. /\ <<q, currentTerm[q], q>> \in votes
            /\ \A p \in Server : peers[q][p].haveVote => <<p, currentTerm[q], q>> \in votes
        BY <2>3, <2>5, <3>2 DEF VoteInv, VotesAreCast
      <4> QED
        BY <2>3, <3>2, <4>1, <4>2
    <3> QED
      BY ZenonT(30), <3>1, <3>2
  <2> QED
    BY <2>4, <2>5 DEF VotesAreCast
<1>5. LeadersHaveMajorities'
  BY Zenon, <1>1, MajoritiesStay DEF VoteInv
<1> QED
  BY <1>3, <1>4, <1>5 DEF VoteInv

\* handleRequestVoteRequest: a vote is granted in a newer term, or in this term if it
\* is still free or already the candidate's.
LEMMA HandleRequestVoteRequestKeepsVoteInv ==
  ASSUME TypeInv, TypeInv', VoteInv, NEW m \in rpcs, HandleRequestVoteRequest(m)
  PROVE  VoteInv'
<1> DEFINE s == m.dst
           granted == GrantsVote(s, m)
           response == RequestVoteResponse(m, Max({m.term, currentTerm[s]}), granted)
<1>1. s \in Server /\ m.src \in Server /\ m.term \in Term /\ m.term \in Int /\ currentTerm[s] \in Int
  BY MessageFields, BoundAssumption DEF TypeInv, TypeOK, Term
<1>2. /\ Reply(m, response)
      /\ votes' = IF granted THEN votes \union {<<s, m.term, m.src>>} ELSE votes
      /\ UNCHANGED <<peers, elected>>
  BY ZenonT(30) DEF HandleRequestVoteRequest
<1>3. /\ m.term > currentTerm[s] =>
           /\ role' = [role EXCEPT ![s] = "Follower"]
           /\ currentTerm' = [currentTerm EXCEPT ![s] = m.term]
           /\ voteFor' = [voteFor EXCEPT ![s] = IF granted THEN m.src ELSE Nobody]
      /\ ~(m.term > currentTerm[s]) =>
           /\ voteFor' = [voteFor EXCEPT ![s] = IF granted THEN m.src ELSE voteFor[s]]
           /\ UNCHANGED <<role, currentTerm>>
  BY ZenonT(30) DEF HandleRequestVoteRequest
<1>4. /\ response.kind = "RV_resp" /\ response.dst = s /\ response.src = m.src
      /\ response.savedTerm = m.term /\ response.voteGranted = granted
  BY ZenonT(30) DEF RequestVoteResponse
<1>5. \A x \in rpcs' : x \in rpcs \/ x = response
  BY <1>2 DEF Reply
<1>6. granted => m.term >= currentTerm[s] /\ (m.term > currentTerm[s] \/ voteFor[s] \in {Nobody, m.src})
  BY DEF GrantsVote
<1> HIDE DEF granted, response
<1>7. VotesArePersistent' /\ OneVotePerTerm'
  <2>1. CASE granted
    <3>1. /\ currentTerm' = [currentTerm EXCEPT ![s] = m.term]
          /\ voteFor' = [voteFor EXCEPT ![s] = m.src]
      <4>1. CASE m.term > currentTerm[s]
        BY <1>3, <2>1, <4>1
      <4>2. CASE ~(m.term > currentTerm[s])
        <5>1. m.term = currentTerm[s]
          BY <1>1, <1>6, <2>1, <4>2
        <5>2. [currentTerm EXCEPT ![s] = m.term] = currentTerm
          BY <1>1, <5>1 DEF TypeInv, TypeOK
        <5> QED
          BY <1>3, <2>1, <4>2, <5>2
      <4> QED
        BY <4>1, <4>2
    <3>2. \/ m.term > currentTerm[s]
          \/ m.term = currentTerm[s] /\ voteFor[s] \in {Nobody, m.src}
      BY <1>1, <1>6, <2>1
    <3>3. votes' = votes \union {<<s, m.term, m.src>>}
      BY <1>2, <2>1
    <3> QED
      BY Zenon, <1>1, <3>1, <3>2, <3>3, CastVote
  <2>2. CASE ~granted
    <3>1. votes' = votes
      BY <1>2, <2>2
    <3>2. \A p \in Server : /\ currentTerm'[p] >= currentTerm[p]
                            /\ currentTerm'[p] = currentTerm[p] => voteFor'[p] = voteFor[p]
      <4>1. \A p \in Server : currentTerm[p] \in Int
        BY BoundAssumption DEF TypeInv, TypeOK, Term
      <4>2. CASE m.term > currentTerm[s]
        <5>1. \A p \in Server : /\ currentTerm'[p] = IF p = s THEN m.term ELSE currentTerm[p]
                                /\ p # s => voteFor'[p] = voteFor[p]
          BY Zenon, <1>1, <1>3, <4>2 DEF TypeInv, TypeOK
        <5> QED
          BY <1>1, <4>1, <4>2, <5>1
      <4>3. CASE ~(m.term > currentTerm[s])
        <5>1. currentTerm' = currentTerm /\ voteFor' = [voteFor EXCEPT ![s] = voteFor[s]]
          BY <1>3, <2>2, <4>3
        <5>2. \A p \in Server : voteFor'[p] = voteFor[p]
          BY <5>1 DEF TypeInv, TypeOK
        <5> QED
          BY <4>1, <5>1, <5>2
      <4> QED
        BY <4>2, <4>3
    <3>3. VotesArePersistent'
      <4> SUFFICES ASSUME NEW v \in votes
                   PROVE  /\ v[2] <= currentTerm'[v[1]]
                          /\ v[2] = currentTerm'[v[1]] => voteFor'[v[1]] = v[3]
        BY <3>1 DEF VotesArePersistent
      <4>1. v[1] \in Server /\ v[2] \in Int /\ currentTerm[v[1]] \in Int /\ currentTerm'[v[1]] \in Int
        BY Zenon, VoteTypes
      <4>2. /\ v[2] <= currentTerm[v[1]]
            /\ v[2] = currentTerm[v[1]] => voteFor[v[1]] = v[3]
        BY DEF VoteInv, VotesArePersistent
      <4> QED
        BY <3>2, <4>1, <4>2
    <3> QED
      BY <3>1, <3>3 DEF VoteInv, OneVotePerTerm
  <2> QED
    BY <2>1, <2>2
<1>8. VotesAreCast'
  <2>1. votes \subseteq votes'
    BY <1>2
  <2>2. \A q \in Server : role'[q] = "Candidate" => role[q] = "Candidate" /\ currentTerm'[q] = currentTerm[q]
    BY Zenon, <1>1, <1>3 DEF TypeInv, TypeOK
  <2>3. \A x \in rpcs' : x.kind = "RV_resp" /\ x.voteGranted => <<x.dst, x.savedTerm, x.src>> \in votes'
    <3> SUFFICES ASSUME NEW x \in rpcs', x.kind = "RV_resp", x.voteGranted
                 PROVE  <<x.dst, x.savedTerm, x.src>> \in votes'
      OBVIOUS
    <3>1. CASE x \in rpcs
      BY <2>1, <3>1 DEF VoteInv, VotesAreCast
    <3>2. CASE x = response
      BY <1>2, <1>4, <3>2
    <3> QED
      BY <1>5, <3>1, <3>2
  <2> QED
    BY Zenon, <1>2, <2>1, <2>2, <2>3 DEF VoteInv, VotesAreCast
<1>9. LeadersHaveMajorities'
  BY <1>2, MajoritiesStay DEF VoteInv
<1> QED
  BY <1>7, <1>8, <1>9 DEF VoteInv

\* handleRequestVoteResponse: what is counted has been cast.
LEMMA CountRequestVoteResponseKeepsVoteInv ==
  ASSUME TypeInv, VoteInv, NEW m \in rpcs, CountRequestVoteResponse(m)
  PROVE  VoteInv'
<1> DEFINE P == SwitchedOn(m)
           peer == P[m.src][m.dst]
           b == peer.haveVote \/ m.voteGranted
           v == [[peer EXCEPT !.requestVoteDone = TRUE] EXCEPT !.haveVote = b]
<1>1. /\ m.src \in Server /\ m.dst \in Server /\ m.kind = "RV_resp" /\ m.voteGranted \in BOOLEAN
      /\ currentTerm[m.src] = m.savedTerm /\ role[m.src] = "Candidate"
      /\ P \in [Server -> [Server -> Peer]]
  BY MessageFields, SwitchedOnType DEF CountRequestVoteResponse, Arrived, TypeInv, TypeOK
<1>2. /\ rpcs' = rpcs \ {m}
      /\ UNCHANGED <<currentTerm, voteFor, role, votes, elected>>
  BY DEF CountRequestVoteResponse, persistent, history
<1>3. peers' = [P EXCEPT ![m.src] = [P[m.src] EXCEPT ![m.dst] = v]]
  <2>1. peers' = [P EXCEPT ![m.src][m.dst].requestVoteDone = TRUE,
                           ![m.src][m.dst].haveVote = @ \/ m.voteGranted]
    BY DEF CountRequestVoteResponse
  <2>2. peer \in Peer
    BY <1>1
  <2>3. [peer EXCEPT !.requestVoteDone = TRUE].haveVote = peer.haveVote
    <3> HIDE DEF peer
    <3> QED
      BY <2>2 DEF Peer
  <2> HIDE DEF P
  <2> QED
    BY ZenonT(30), <1>1, <2>1, <2>3
<1>4. v.haveVote = b
  <2>1. peer \in Peer
    BY <1>1
  <2> HIDE DEF peer, b
  <2> QED
    BY <2>1 DEF Peer
<1>5. \A q, p \in Server : peers'[q][p].haveVote =>
        peers[q][p].haveVote \/ (q = m.src /\ p = m.dst /\ m.voteGranted)
  <2>1. \A q, p \in Server : P[q][p].haveVote = peers[q][p].haveVote
    BY SwitchedOnTally
  <2> HIDE DEF P, v
  <2> QED
    BY <1>1, <1>3, <1>4, <2>1
<1>6. VotesAreCast'
  BY <1>1, <1>2, <1>5 DEF VoteInv, VotesAreCast
<1> QED
  BY <1>2, <1>6 DEF VoteInv, VotesArePersistent, OneVotePerTerm, LeadersHaveMajorities

\* becomeLeader: the tally of a candidate, with its own vote, is a majority.
LEMMA BecomeLeaderKeepsVoteInv ==
  ASSUME TypeInv, VoteInv, NEW s \in Server, BecomeLeader(s)
  PROVE  VoteInv'
<1> DEFINE Q == {s} \union {p \in Server : peers[s][p].haveVote}
<1>1. /\ role[s] = "Candidate" /\ Cardinality(Q) >= Majority
      /\ role' = [role EXCEPT ![s] = "Leader"]
      /\ elected' = elected \union {<<currentTerm[s], s>>}
      /\ UNCHANGED <<currentTerm, voteFor, rpcs, votes>>
  BY ZenonT(30) DEF BecomeLeader
<1>2. Q \in SUBSET Server /\ \A q \in Q : <<q, currentTerm[s], s>> \in votes
  BY ZenonT(30), <1>1 DEF VoteInv, VotesAreCast
<1> HIDE DEF Q
<1>3. LeadersHaveMajorities'
  <2> SUFFICES ASSUME NEW e \in elected'
               PROVE  \E R \in SUBSET Server :
                        Cardinality(R) >= Majority /\ \A q \in R : <<q, e[1], e[2]>> \in votes
    BY <1>1 DEF LeadersHaveMajorities
  <2>1. CASE e \in elected
    BY <2>1 DEF VoteInv, LeadersHaveMajorities
  <2>2. CASE e = <<currentTerm[s], s>>
    BY <1>1, <1>2, <2>2
  <2> QED
    BY <1>1, <2>1, <2>2
<1>4. \A q \in Server : role'[q] = "Candidate" => role[q] = "Candidate" /\ peers'[q] = peers[q]
  BY Zenon, <1>1 DEF BecomeLeader, TypeInv, TypeOK
<1>5. VotesAreCast'
  BY <1>1, <1>4 DEF VoteInv, VotesAreCast
<1> QED
  BY <1>1, <1>3, <1>5 DEF VoteInv, VotesArePersistent, OneVotePerTerm

-----------------------------------------------------------------------------
(* The theorems.                                                           *)

\* VoteInv is inductive.
LEMMA VoteInvStep ==
  ASSUME TypeInv, TypeInv', VoteInv, [Next]_vars
  PROVE  VoteInv'
<1>1. ASSUME NEW s \in Server, NEW p \in Server, RequestVote(s, p) \/ AppendEntries(s, p)
      PROVE  VoteInv'
  BY <1>1, SendingIsTimid, TimidStepKeepsVoteInv
<1>2. ASSUME NEW m \in rpcs, Receive(m)
      PROVE  VoteInv'
  <2>1. CASE HandleRequestVoteRequest(m)
    BY <2>1, HandleRequestVoteRequestKeepsVoteInv
  <2>2. CASE CountRequestVoteResponse(m)
    BY <2>2, CountRequestVoteResponseKeepsVoteInv
  <2>3. CASE ~(HandleRequestVoteRequest(m) \/ CountRequestVoteResponse(m))
    <3>1. TimidStep
      BY <1>2, <2>3, ResponsesAreTimid, ReplicationIsTimid, HandleAppendEntriesRequestIsTimid,
         OtherMessageStepsAreTimid DEF Receive
    <3> QED
      BY <3>1, TimidStepKeepsVoteInv
  <2> QED
    BY <2>1, <2>2, <2>3
<1>3. ASSUME NEW m \in rpcs, FailRpc(m) \/ LoseRequest(m) \/ CrashBetweenTruncateAndAppend(m)
      PROVE  VoteInv'
  BY <1>3, ReplicationIsTimid, OtherMessageStepsAreTimid, TimidStepKeepsVoteInv
<1>4. ASSUME NEW s \in Server, BecomeLeader(s)
      PROVE  VoteInv'
  BY <1>4, BecomeLeaderKeepsVoteInv
<1>5. ASSUME NEW s \in Server, ElectionTimeout(s)
      PROVE  VoteInv'
  BY <1>5, ElectionTimeoutKeepsVoteInv
<1>6. ASSUME NEW s \in Server,
             \/ AdvanceCommitIndex(s) \/ HandleClientRequests(s) \/ LeadershipTimeout(s)
             \/ Crash(s) \/ CrashBetweenTermAndVote(s)
             \/ \E i \in Index : TruncatePrefix(s, i)
      PROVE  VoteInv'
  BY <1>6, OtherServerStepsAreTimid, TimidStepKeepsVoteInv
<1>7. CASE UNCHANGED vars
  BY <1>7, QuietIsTimid, TimidStepKeepsVoteInv DEF vars, persistent, volatile, history
<1> QED
  BY <1>1, <1>2, <1>3, <1>4, <1>5, <1>6, <1>7 DEF Next

\* Votes that bind their voters let only one candidate of a term have a majority.
LEMMA OneMajorityPerTerm ==
  ASSUME CountingFacts, TypeInv, VoteInv
  PROVE  ElectionSafety
<1> SUFFICES ASSUME NEW e \in elected, NEW f \in elected, e[1] = f[1]
             PROVE  e[2] = f[2]
  BY DEF ElectionSafety
<1>1. PICK P \in SUBSET Server :
        Cardinality(P) >= Majority /\ \A q \in P : <<q, e[1], e[2]>> \in votes
  BY DEF VoteInv, LeadersHaveMajorities
<1>2. PICK Q \in SUBSET Server :
        Cardinality(Q) >= Majority /\ \A q \in Q : <<q, f[1], f[2]>> \in votes
  BY DEF VoteInv, LeadersHaveMajorities
<1>3. PICK q : q \in P /\ q \in Q
  <2>1. P \intersect Q # {}
    BY <1>1, <1>2, MajoritiesIntersect
  <2> QED
    BY <2>1
<1>4. <<q, e[1], e[2]>> \in votes /\ <<q, f[1], f[2]>> \in votes
  BY <1>1, <1>2, <1>3
<1> QED
  BY <1>4 DEF VoteInv, OneVotePerTerm

=============================================================================
