---------------------------- MODULE RaftLemmas -----------------------------
(*****************************************************************************)
(* Facts about numbers, majorities, types and logs that the proofs of        *)
(* RaftCore share.                                                           *)
(*****************************************************************************)
EXTENDS RaftInvariants, TLAPS

\* A leaf that names no prover is tried with SMT, with Zenon, and again with SMT and ever more time.
USE SMT, Zenon, SMTT(10), SMTT(20), SMTT(30), SMTT(40), SMTT(60)

\* std::min of two numbers.
LEMMA MinOfTwo ==
  ASSUME NEW a \in Int, NEW b \in Int
  PROVE  Min({a, b}) = IF a <= b THEN a ELSE b
BY DEF Min

\* std::max of two numbers.
LEMMA MaxOfTwo ==
  ASSUME NEW a \in Int, NEW b \in Int
  PROVE  Max({a, b}) = IF a >= b THEN a ELSE b
BY DEF Max

\* A nonempty set of natural numbers has a least element, and Min is it.
LEMMA MinOfNaturals ==
  ASSUME CountingFacts, NEW S, S \subseteq Nat, S # {}
  PROVE  Min(S) \in S /\ \A x \in S : Min(S) <= x
BY Zenon DEF CountingFacts

\* A nonempty set of natural numbers below a bound has a greatest element.
LEMMA MaxOfNaturals ==
  ASSUME CountingFacts, NEW n \in Nat, NEW S, S \subseteq 0 .. n, S # {}
  PROVE  Max(S) \in S /\ \A x \in S : Max(S) >= x
<1> DEFINE D == {n - x : x \in S}
<1>1. D \subseteq Nat /\ D # {}
  <2>1. PICK x : x \in S
    OBVIOUS
  <2>2. n - x \in D
    BY <2>1
  <2>3. \A y \in S : n - y \in Nat
    OBVIOUS
  <2> QED
    BY <2>2, <2>3
<1>2. Min(D) \in D /\ \A d \in D : Min(D) <= d
  BY Zenon, <1>1, MinOfNaturals
<1>3. PICK x \in S : Min(D) = n - x
  BY Zenon, <1>2
<1>4. \A y \in S : x >= y
  <2> SUFFICES ASSUME NEW y \in S PROVE x >= y
    OBVIOUS
  <2>1. n - y \in D
    OBVIOUS
  <2>2. n - x <= n - y
    BY Zenon, <1>2, <1>3, <2>1
  <2> QED
    BY <2>2
<1> QED
  BY Zenon, <1>4 DEF Max

\* Two majorities of the servers have a member in common.
LEMMA MajoritiesIntersect ==
  ASSUME CountingFacts, NEW P \in SUBSET Server, NEW Q \in SUBSET Server,
         Cardinality(P) >= Majority, Cardinality(Q) >= Majority
  PROVE  P \intersect Q # {}
BY Zenon DEF CountingFacts

-----------------------------------------------------------------------------
(* Messages.                                                               *)

\* The length of a log is a natural number.
LEMMA LengthsAreNatural == ASSUME NEW T, NEW q \in Seq(T) PROVE Len(q) \in Nat
OBVIOUS

\* A term that stays the same has not gone down.
LEMMA NotLessThanItself == \A a \in Int : a >= a
OBVIOUS

\* A term that is counted up has grown.
LEMMA LessThanSuccessor == \A a \in Nat : a + 1 > a
OBVIOUS

\* An empty log has no entry.
LEMMA EmptyHasNothing == \A i, t : ~Has(<<>>, i, t)
BY DEF Has

\* A log that got one more entry still has the others.
LEMMA LongerHas ==
  ASSUME NEW q, NEW r, Len(q) \in Nat, Len(r) = Len(q) + 1, \A i \in 1 .. Len(q) : r[i] = q[i]
  PROVE  \A i, t : Has(q, i, t) => Has(r, i, t)
BY DEF Has

\* A term is a natural number.
LEMMA TermsAreNatural == Term \subseteq Nat /\ Term \subseteq Int /\ 0 \in Term
BY BoundAssumption DEF Term

\* Log positions are natural numbers.
LEMMA IndicesAreNatural == Index \subseteq Nat /\ Index \subseteq Int /\ 0 \in Index
BY BoundAssumption DEF Index

\* What a message carries, by its kind.
LEMMA MessageFields ==
  ASSUME NEW m \in Message
  PROVE  /\ m.kind \in {"RV_req", "RV_resp", "AE_req", "AE_resp"}
         /\ m.call \in CallId /\ m.src \in Server /\ m.dst \in Server /\ m.term \in Term
         /\ m.kind = "RV_req" =>
              m.open \in BOOLEAN /\ m.lastLogIndex \in Index /\ m.lastLogTerm \in Term
         /\ m.kind = "RV_resp" => m.voteGranted \in BOOLEAN /\ m.savedTerm \in Term
         /\ m.kind = "AE_req" =>
              /\ m.open \in BOOLEAN /\ m.prevLogIndex \in Index /\ m.prevLogTerm \in Term
              /\ m.entries \in Seq(Term) /\ m.commitIndex \in Index
         /\ m.kind = "AE_resp" =>
              /\ m.success \in BOOLEAN /\ m.savedTerm \in Term
              /\ m.savedPrevLogIndex \in Index /\ m.lastLogIndex \in Index
              /\ m.matchIndex \in Index
BY DEF Message

-----------------------------------------------------------------------------
(* The log.                                                                *)

\* Cutting a log keeps it a log.
LEMMA CutLog ==
  ASSUME NEW q \in Seq(Term), NEW i \in Nat, NEW n \in Nat, i >= 1, n <= Len(q)
  PROVE  /\ SubSeq(q, i, n) \in Seq(Term)
         /\ Len(SubSeq(q, i, n)) = IF i <= n THEN n - i + 1 ELSE 0
         /\ \A k \in 1 .. Len(SubSeq(q, i, n)) : SubSeq(q, i, n)[k] = q[i + k - 1]
OBVIOUS

\* The previous entry of an accepted AE_req lies in the log or below its first index.
LEMMA PrevLogWithinLog ==
  ASSUME TypeInv, NEW m \in rpcs, m.kind = "AE_req", PrevLogIsOk(m.dst, m)
  PROVE  m.prevLogIndex <= Len(log[m.dst])
BY MessageFields, BoundAssumption
   DEF TypeInv, TypeOK, IndexesWithinLog, PrevLogIsOk, LastLogIndex, Index

\* The first new entry of an AE_req directly extends the part of the log that is kept.
LEMMA FirstNewEntry ==
  ASSUME CountingFacts, TypeInv, NEW m \in rpcs, m.kind = "AE_req", PrevLogIsOk(m.dst, m),
         NewEntries(m.dst, m) # {}
  PROVE  LET k == Min(NewEntries(m.dst, m)) IN
         /\ k \in 1 .. Len(m.entries)
         /\ m.prevLogIndex + k >= firstIndex[m.dst]
         /\ m.prevLogIndex + k - 1 <= Len(log[m.dst])
<1> DEFINE s == m.dst
           N == NewEntries(s, m)
           k == Min(N)
<1>1. /\ s \in Server /\ m.prevLogIndex \in Nat /\ m.entries \in Seq(Term)
      /\ log[s] \in Seq(Term) /\ firstIndex[s] \in Nat /\ firstIndex[s] <= Len(log[s]) + 1
  BY MessageFields, BoundAssumption DEF TypeInv, TypeOK, IndexesWithinLog, Index
<1>2. N \subseteq Nat
  BY DEF NewEntries
<1>3. k \in N /\ \A x \in N : k <= x
  BY <1>2, MinOfNaturals
<1>4. /\ k \in 1 .. Len(m.entries)
      /\ m.prevLogIndex + k >= firstIndex[s]
  BY Zenon, <1>3 DEF NewEntries
<1> HIDE DEF k, N
<1>5. m.prevLogIndex + k - 1 <= Len(log[s])
  <2>1. CASE k = 1
    BY <1>1, <2>1, PrevLogWithinLog
  <2>2. CASE k # 1
    <3>1. k - 1 \in 1 .. Len(m.entries) /\ k - 1 \notin N
      BY <1>1, <1>3, <1>4, <2>2
    <3> DEFINE j == k - 1
    <3>2. ~ (/\ m.prevLogIndex + j >= firstIndex[s]
             /\ \/ m.prevLogIndex + j > LastLogIndex(s)
                \/ log[s][m.prevLogIndex + j] # m.entries[j])
      <4> HIDE DEF j
      <4> QED
        BY <3>1 DEF NewEntries, N, j
    <3> QED
      BY <1>1, <1>4, <3>2 DEF LastLogIndex
  <2> QED
    BY <2>1, <2>2
<1> QED
  BY <1>4, <1>5 DEF k, N

-----------------------------------------------------------------------------
(* Type correctness, action by action.                                     *)

\* receiveMessage's switch has the right type.
LEMMA SwitchedOnType ==
  ASSUME TypeInv, NEW m \in rpcs
  PROVE  SwitchedOn(m) \in [Server -> [Server -> Peer]]
<1>1. m.src \in Server /\ m.dst \in Server
  BY MessageFields DEF TypeInv, TypeOK
<1>2. peers[m.src][m.dst] \in Peer
  BY <1>1 DEF TypeInv, TypeOK
<1>3. [peers[m.src][m.dst] EXCEPT !.switchOn = TRUE] \in Peer
  BY Zenon, <1>2 DEF Peer
<1> QED
  BY <1>1, <1>3 DEF TypeInv, TypeOK, SwitchedOn

\* getEntries answers with entries that lie in the log.
LEMMA GetEntriesType ==
  ASSUME TypeInv, NEW s \in Server, NEW i \in Nat, i >= 1, i <= Len(log[s]) + 1
  PROVE  GetEntries(s, i) \in Seq(Term) /\ i - 1 + Len(GetEntries(s, i)) <= Len(log[s])
<1>1. log[s] \in Seq(Term) /\ Len(log[s]) \in Nat
  BY DEF TypeInv, TypeOK
<1>2. CASE i < firstIndex[s]
  BY <1>1, <1>2 DEF GetEntries
<1>3. CASE ~(i < firstIndex[s])
  <2> DEFINE n == Min({LastLogIndex(s), i + MaxBatchSize - 1})
  <2>1. n \in Nat /\ n <= Len(log[s])
    BY <1>1, MinOfTwo, ConfigurableVarsAssumption DEF LastLogIndex
  <2>2. GetEntries(s, i) = SubSeq(log[s], i, n)
    BY Zenon, <1>3 DEF GetEntries
  <2> HIDE DEF n
  <2>3. /\ SubSeq(log[s], i, n) \in Seq(Term)
        /\ Len(SubSeq(log[s], i, n)) = IF i <= n THEN n - i + 1 ELSE 0
    BY <1>1, <2>1, CutLog
  <2> QED
    BY <1>1, <2>1, <2>2, <2>3
<1> QED
  BY <1>2, <1>3

\* The majority index lies in the leader's log, and a majority has told the leader that
\* it holds the entry there.
LEMMA MajorityIndexType ==
  ASSUME CountingFacts, TypeInv, NEW s \in Server
  PROVE  /\ MajorityIndex(s) \in 0 .. Len(log[s])
         /\ Cardinality({p \in Server : MatchIndexes(s)[p] >= MajorityIndex(s)}) >= Majority
<1> DEFINE S == {i \in 0 .. LastLogIndex(s) :
                   Cardinality({p \in Server : MatchIndexes(s)[p] >= i}) >= Majority}
<1>1. LastLogIndex(s) \in Nat /\ LastLogIndex(s) = Len(log[s])
  BY DEF TypeInv, TypeOK, LastLogIndex
<1>2. \A p \in Server : MatchIndexes(s)[p] >= 0
  BY <1>1, BoundAssumption DEF MatchIndexes, TypeInv, TypeOK, Peer, Index
<1>3. {p \in Server : MatchIndexes(s)[p] >= 0} = Server
  BY <1>2
<1>5. Cardinality(Server) >= Majority
  BY Zenon DEF CountingFacts
<1>6. 0 \in S
  <2>1. 0 \in 0 .. LastLogIndex(s)
    BY <1>1
  <2>2. Cardinality({p \in Server : MatchIndexes(s)[p] >= 0}) >= Majority
    BY <1>3, <1>5
  <2> QED
    BY <2>1, <2>2, Zenon
<1>7. Max(S) \in S
  <2>1. S \subseteq 0 .. LastLogIndex(s)
    OBVIOUS
  <2> HIDE DEF S
  <2> QED
    BY Zenon, <1>1, <1>6, <2>1, MaxOfNaturals
<1> QED
  BY Zenon, <1>1, <1>7 DEF MajorityIndex

-----------------------------------------------------------------------------
(* The timid actions.                                                      *)

\* A crash leaves no new response behind.
LEMMA OrphanedResponses ==
  ASSUME NEW s, NEW R, R \subseteq Message, NEW m \in Orphaned(s, R), m.kind = "RV_resp"
  PROVE  m \in R
<1>1. PICK r \in R : m = IF r.src = s /\ IsRequest(r) THEN [r EXCEPT !.open = FALSE] ELSE r
  BY DEF Orphaned
<1>2. CASE r.src = s /\ IsRequest(r)
  <2>1. m.kind = r.kind
    BY <1>1, <1>2 DEF Message, IsRequest
  <2> QED
    BY <1>2, <2>1 DEF IsRequest
<1> QED
  BY <1>1, <1>2

\* A restart is timid when the persistent vote and term allow it.
LEMMA RestartIsTimid ==
  ASSUME TypeInv, NEW s \in Server, LoseVolatile(s),
         NEW R, R \subseteq rpcs, rpcs' = Orphaned(s, R),
         UNCHANGED <<votes, elected>>,
         \A p \in Server : /\ currentTerm'[p] >= currentTerm[p]
                           /\ currentTerm'[p] = currentTerm[p] => voteFor'[p] = voteFor[p],
         \A p \in Server : p # s => currentTerm'[p] = currentTerm[p]
  PROVE  TimidStep
<1>1. \A m \in rpcs' : m.kind = "RV_resp" => m \in rpcs
  <2>1. R \subseteq Message
    BY DEF TypeInv, TypeOK
  <2> QED
    BY <2>1, OrphanedResponses
<1>2. role' = [role EXCEPT ![s] = "Follower"] /\ peers' = [peers EXCEPT ![s] = [p \in Server |-> NewPeer]]
  BY DEF LoseVolatile
<1>3. \A p \in Server : role'[p] = "Candidate" =>
        p # s /\ role[p] = "Candidate" /\ peers'[p] = peers[p]
  BY <1>2 DEF TypeInv, TypeOK
<1> QED
  BY <1>1, <1>3 DEF TimidStep

\* A step that touches neither votes, terms nor roles is timid.
LEMMA QuietIsTimid ==
  ASSUME TypeInv, UNCHANGED <<votes, elected, currentTerm, voteFor, role>>,
         \A s, p \in Server : peers'[s][p].haveVote = peers[s][p].haveVote,
         \A m \in rpcs' : m.kind = "RV_resp" => m \in rpcs
  PROVE  TimidStep
<1>1. \A s \in Server : currentTerm[s] \in Int
  BY BoundAssumption DEF TypeInv, TypeOK, Term
<1> QED
  BY <1>1 DEF TimidStep

\* stepDown to a newer term is timid.
LEMMA StepDownIsTimid ==
  ASSUME TypeInv, NEW s \in Server, NEW t \in Term, t > currentTerm[s], StepDown(s, t),
         UNCHANGED <<votes, elected>>,
         \A q, p \in Server : peers'[q][p].haveVote = peers[q][p].haveVote,
         \A m \in rpcs' : m.kind = "RV_resp" => m \in rpcs
  PROVE  TimidStep
<1>1. /\ role' = [role EXCEPT ![s] = "Follower"]
      /\ currentTerm' = [currentTerm EXCEPT ![s] = t]
      /\ \A p \in Server : p # s => voteFor'[p] = voteFor[p]
  BY DEF StepDown, TypeInv, TypeOK
<1>2. \A p \in Server : currentTerm[p] \in Int /\ t \in Int
  BY BoundAssumption DEF TypeInv, TypeOK, Term
<1>3. \A p \in Server : /\ currentTerm'[p] >= currentTerm[p]
                        /\ currentTerm'[p] = currentTerm[p] => voteFor'[p] = voteFor[p]
  BY <1>1, <1>2 DEF TypeInv, TypeOK
<1>4. \A p \in Server : role'[p] = "Candidate" => role[p] = "Candidate" /\ currentTerm'[p] = currentTerm[p]
  BY <1>1 DEF TypeInv, TypeOK
<1> QED
  BY <1>3, <1>4 DEF TimidStep

\* receiveMessage's switch changes no tally.
LEMMA SwitchedOnTally ==
  ASSUME TypeInv, NEW m \in rpcs, NEW s \in Server, NEW p \in Server
  PROVE  SwitchedOn(m)[s][p].haveVote = peers[s][p].haveVote
<1>1. m.src \in Server /\ m.dst \in Server
  BY MessageFields DEF TypeInv, TypeOK
<1>2. peers[m.src][m.dst] \in Peer
  BY <1>1 DEF TypeInv, TypeOK
<1>3. [peers[m.src][m.dst] EXCEPT !.switchOn = TRUE].haveVote = peers[m.src][m.dst].haveVote
  BY <1>2 DEF Peer
<1> QED
  BY <1>1, <1>3 DEF TypeInv, TypeOK, SwitchedOn

\* An abort in an assertion is timid.
LEMMA AbortIsTimid ==
  ASSUME TypeInv, NEW s \in Server, NEW a, NEW R, R \subseteq rpcs, Abort(s, a, R)
  PROVE  TimidStep
<1>1. /\ LoseVolatile(s) /\ rpcs' = Orphaned(s, R)
      /\ UNCHANGED <<currentTerm, voteFor, votes, elected>>
  BY DEF Abort, persistent
<1>2. \A p \in Server : currentTerm[p] \in Int
  BY BoundAssumption DEF TypeInv, TypeOK, Term
<1> QED
  BY <1>1, <1>2, RestartIsTimid

\* Ignoring a response and stepping down on one are timid.
LEMMA ResponsesAreTimid ==
  ASSUME TypeInv, NEW m \in rpcs,
         \/ IgnoreRequestVoteResponse(m)
         \/ StepDownOnRequestVoteResponse(m)
         \/ IgnoreAppendEntriesResponse(m)
         \/ StepDownOnAppendEntriesResponse(m)
  PROVE  TimidStep
<1>1. peers' = SwitchedOn(m) /\ rpcs' = rpcs \ {m} /\ UNCHANGED <<votes, elected>>
  BY DEF IgnoreRequestVoteResponse, StepDownOnRequestVoteResponse, IgnoreAppendEntriesResponse,
         StepDownOnAppendEntriesResponse, history
<1>2. \A q, p \in Server : peers'[q][p].haveVote = peers[q][p].haveVote
  BY <1>1, SwitchedOnTally
<1>3. m.src \in Server /\ m.term \in Term
  BY MessageFields DEF TypeInv, TypeOK
<1>4. CASE IgnoreRequestVoteResponse(m) \/ IgnoreAppendEntriesResponse(m)
  <2>1. UNCHANGED <<currentTerm, voteFor, role>>
    BY ZenonT(30), <1>4 DEF IgnoreRequestVoteResponse, IgnoreAppendEntriesResponse, persistent
  <2> QED
    BY <1>1, <1>2, <2>1, QuietIsTimid
<1>5. CASE StepDownOnRequestVoteResponse(m) \/ StepDownOnAppendEntriesResponse(m)
  <2>1. m.term > currentTerm[m.src] /\ StepDown(m.src, m.term)
    BY Zenon, <1>5 DEF StepDownOnRequestVoteResponse, StepDownOnAppendEntriesResponse
  <2> QED
    BY <1>1, <1>2, <1>3, <2>1, StepDownIsTimid
<1> QED
  BY <1>4, <1>5

\* Handling an AE_req is timid.
LEMMA HandleAppendEntriesRequestIsTimid ==
  ASSUME TypeInv, NEW m \in rpcs, HandleAppendEntriesRequest(m)
  PROVE  TimidStep
<1> DEFINE s == m.dst
<1>1. m \in Message /\ m.kind = "AE_req" /\ s \in Server /\ m.term \in Term
  BY ZenonT(30), MessageFields DEF HandleAppendEntriesRequest, Arrived, TypeInv, TypeOK
<1>2. /\ m.term >= currentTerm[s]
      /\ currentTerm' = [currentTerm EXCEPT ![s] = m.term]
      /\ voteFor' = [voteFor EXCEPT ![s] = IF m.term > currentTerm[s] THEN Nobody ELSE @]
      /\ UNCHANGED <<votes, elected>>
  BY DEF HandleAppendEntriesRequest
<1>3. /\ \A p \in Server : /\ currentTerm'[p] >= currentTerm[p]
                           /\ currentTerm'[p] = currentTerm[p] => voteFor'[p] = voteFor[p]
      /\ \A p \in Server : p # s => currentTerm'[p] = currentTerm[p]
  <2>1. /\ currentTerm \in [Server -> Term] /\ voteFor \in [Server -> Server \cup {Nobody}]
        /\ Term \subseteq Nat
    BY Zenon, TermsAreNatural DEF TypeInv, TypeOK
  <2>2. /\ currentTerm'[s] = m.term /\ m.term \in Nat /\ currentTerm[s] \in Nat
        /\ voteFor'[s] = IF m.term > currentTerm[s] THEN Nobody ELSE voteFor[s]
    BY Zenon, <1>1, <1>2, <2>1
  <2>3. ASSUME NEW p \in Server, p # s
        PROVE  currentTerm'[p] = currentTerm[p] /\ voteFor'[p] = voteFor[p] /\ currentTerm[p] \in Nat
    BY Zenon, <1>2, <2>1, <2>3
  <2> QED
    BY <1>2, <2>2, <2>3
<1>4. CASE AppendEntriesRequestAssert(s, m) = {}
  <2>1. FollowLeader(s, m) /\ ApplyAppendEntriesRequest(s, m)
    BY <1>4 DEF HandleAppendEntriesRequest
  <2>2. \A x \in rpcs' : x.kind = "RV_resp" => x \in rpcs
    BY <2>1 DEF ApplyAppendEntriesRequest, Reply, AppendEntriesResponse
  <2>3. peers' = peers
    BY <2>1 DEF ApplyAppendEntriesRequest
  <2>4. \A p \in Server : role'[p] = "Candidate" => p # s /\ role[p] = "Candidate"
    BY <1>1, <2>1 DEF FollowLeader, TypeInv, TypeOK
  <2> QED
    BY Zenon, <1>2, <1>3, <2>2, <2>3, <2>4 DEF TimidStep
<1>5. CASE AppendEntriesRequestAssert(s, m) # {}
  <2>1. LoseVolatile(s) /\ rpcs' = Orphaned(s, rpcs \ {m})
    BY <1>5 DEF HandleAppendEntriesRequest
  <2>2. rpcs \ {m} \subseteq rpcs
    OBVIOUS
  <2> QED
    BY <1>1, <1>2, <1>3, <2>1, <2>2, RestartIsTimid
<1> QED
  BY <1>4, <1>5

\* Whatever else happens without a vote is timid.
LEMMA OtherServerStepsAreTimid ==
  ASSUME TypeInv, NEW s \in Server,
         \/ AdvanceCommitIndex(s) \/ HandleClientRequests(s) \/ LeadershipTimeout(s)
         \/ Crash(s) \/ CrashBetweenTermAndVote(s)
         \/ \E i \in Index : TruncatePrefix(s, i)
  PROVE  TimidStep
<1>1. \A p \in Server : currentTerm[p] \in Int
  BY BoundAssumption DEF TypeInv, TypeOK, Term
<1>2. CASE AdvanceCommitIndex(s)
  BY ZenonT(30), <1>2, QuietIsTimid DEF AdvanceCommitIndex, persistent
<1>3. CASE HandleClientRequests(s)
  BY Zenon, <1>3, QuietIsTimid DEF HandleClientRequests, history
<1>4. CASE \E i \in Index : TruncatePrefix(s, i)
  BY <1>4, QuietIsTimid DEF TruncatePrefix, volatile, history
<1>5. CASE LeadershipTimeout(s)
  <2>1. /\ StepDown(s, currentTerm[s] + 1) /\ currentTerm[s] + 1 \in Term
        /\ currentTerm[s] + 1 > currentTerm[s]
        /\ UNCHANGED <<peers, rpcs, votes, elected>>
    BY <1>5, BoundAssumption DEF LeadershipTimeout, history, TypeInv, TypeOK, Term
  <2> QED
    BY ZenonT(30), <2>1, StepDownIsTimid
<1>6. CASE Crash(s)
  <2>1. LoseVolatile(s) /\ rpcs' = Orphaned(s, rpcs) /\ UNCHANGED <<currentTerm, voteFor, votes, elected>>
    BY Zenon, <1>6 DEF Crash, persistent, history
  <2>2. \A p \in Server : currentTerm'[p] >= currentTerm[p] /\ voteFor'[p] = voteFor[p]
    BY <1>1, <2>1
  <2>3. \A p \in Server : p # s => currentTerm'[p] = currentTerm[p]
    BY Zenon, <2>1
  <2> QED
    BY Zenon, <2>1, <2>2, <2>3, RestartIsTimid
<1>7. CASE CrashBetweenTermAndVote(s)
  <2>1. PICK t \in NewTerms(s) : currentTerm' = [currentTerm EXCEPT ![s] = t]
    BY Zenon, <1>7 DEF CrashBetweenTermAndVote
  <2>2. PICK v \in {voteFor[s], Nobody} : voteFor' = [voteFor EXCEPT ![s] = v]
    BY Zenon, <1>7 DEF CrashBetweenTermAndVote
  <2>3. t > currentTerm[s] /\ t \in Int
    BY BoundAssumption DEF NewTerms, Term
  <2>4. \A p \in Server : /\ currentTerm'[p] >= currentTerm[p]
                          /\ currentTerm'[p] = currentTerm[p] => voteFor'[p] = voteFor[p]
    BY <1>1, <2>1, <2>2, <2>3 DEF TypeInv, TypeOK
  <2>5. \A p \in Server : p # s => currentTerm'[p] = currentTerm[p]
    BY <2>1 DEF TypeInv, TypeOK
  <2>6. LoseVolatile(s) /\ rpcs' = Orphaned(s, rpcs) /\ UNCHANGED <<votes, elected>>
    BY <1>7 DEF CrashBetweenTermAndVote, history
  <2> QED
    BY ZenonT(30), <2>4, <2>5, <2>6, RestartIsTimid
<1> QED
  BY <1>2, <1>3, <1>4, <1>5, <1>6, <1>7

-----------------------------------------------------------------------------
(* Facts about logs.                                                       *)

\* Logs that agree with a third agree with each other.
LEMMA AgreeTransitive ==
  ASSUME NEW q, NEW r, NEW w, NEW n, Agree(q, r, n), Agree(r, w, n)
  PROVE  Agree(q, w, n)
BY DEF Agree

\* Agreement is mutual.
LEMMA AgreeSymmetric ==
  ASSUME NEW q, NEW r, NEW n, Agree(q, r, n)
  PROVE  Agree(r, q, n)
BY DEF Agree

\* Agreement reaches down.
LEMMA AgreeBelow ==
  ASSUME NEW q \in Seq(Term), NEW r \in Seq(Term), NEW n \in Int, NEW k \in Int,
         Agree(q, r, n), k <= n
  PROVE  Agree(q, r, k)
<1>1. Len(q) \in Nat /\ Len(r) \in Nat
  OBVIOUS
<1> QED
  BY <1>1 DEF Agree

\* Every log agrees with itself.
LEMMA AgreeReflexive ==
  ASSUME NEW q \in Seq(Term), NEW n \in Int, n <= Len(q)
  PROVE  Agree(q, q, n)
BY DEF Agree

\* An entry below the agreement is in both logs.
LEMMA AgreeHas ==
  ASSUME NEW q \in Seq(Term), NEW r \in Seq(Term), NEW n \in Int, NEW i, NEW t,
         Agree(q, r, n), Has(q, i, t), i <= n
  PROVE  Has(r, i, t)
<1>1. Len(q) \in Nat /\ Len(r) \in Nat /\ i \in 1 .. Len(q)
  BY DEF Has
<1> QED
  BY <1>1 DEF Agree, Has

\* Two logs that are put together from logs of leaders and share an entry agree up to it.
LEMMA TracedMeet ==
  ASSUME NEW L, NEW q, NEW r, NEW i, NEW t,
         Traced(L, q), Traced(L, r), Has(q, i, t), Has(r, i, t)
  PROVE  Agree(q, r, i)
<1>1. Agree(q, L[t], i) /\ Agree(r, L[t], i)
  BY DEF Traced, Has
<1> QED
  BY <1>1, AgreeTransitive, AgreeSymmetric

\* The terms of such a log never fall.
LEMMA TracedMonotone ==
  ASSUME NEW L \in [Term -> Seq(Term)], \A u \in Term : Bounded(L[u], u),
         NEW q \in Seq(Term), Traced(L, q),
         NEW i \in 1 .. Len(q), NEW j \in 1 .. Len(q), i <= j
  PROVE  q[i] <= q[j]
<1>1. q[j] \in Term /\ q[i] \in Term /\ Len(q) \in Nat
  OBVIOUS
<1>2. Agree(q, L[q[j]], j)
  BY DEF Traced
<1>3. Len(L[q[j]]) \in Nat
  BY <1>1
<1>4. i \in 1 .. Len(L[q[j]]) /\ L[q[j]][i] = q[i]
  BY <1>1, <1>2, <1>3 DEF Agree
<1> QED
  BY <1>1, <1>4 DEF Bounded

\* An entry of its own term is in the log of the leader of that term.
LEMMA TracedHas ==
  ASSUME NEW L, NEW q, Traced(L, q), NEW i, NEW t, Has(q, i, t)
  PROVE  Has(L[t], i, t) /\ L[t] # <<>> /\ Agree(q, L[t], i)
<1>1. i \in 1 .. Len(q) /\ q[i] = t
  BY DEF Has
<1>2. Agree(q, L[t], i)
  BY <1>1 DEF Traced
<1>3. i \in 1 .. Len(L[t]) /\ L[t][i] = t
  BY <1>1, <1>2 DEF Agree
<1>4. L[t] # <<>>
  BY <1>3
<1> QED
  BY <1>2, <1>3, <1>4 DEF Has

-----------------------------------------------------------------------------
(* Voting.                                                                 *)

\* The last term of a log is a term, and 0 only if the log is empty.
LEMMA LastTermType ==
  ASSUME NEW q \in Seq(Term)
  PROVE  /\ LastTermOf(q) \in Term /\ LastTermOf(q) \in Nat
         /\ LastTermOf(q) >= 1 => Len(q) >= 1
         /\ Len(q) >= 1 => LastTermOf(q) = q[Len(q)] /\ Has(q, Len(q), LastTermOf(q))
<1>1. Len(q) \in Nat /\ 0 \in Term /\ Term \subseteq Nat
  BY TermsAreNatural
<1>2. CASE Len(q) = 0
  BY <1>1, <1>2 DEF LastTermOf
<1>3. CASE Len(q) # 0
  <2>1. Len(q) \in 1 .. Len(q)
    BY <1>1, <1>3
  <2>2. q[Len(q)] \in Term /\ LastTermOf(q) = q[Len(q)]
    BY <1>3, <2>1 DEF LastTermOf
  <2> QED
    <3>1. LastTermOf(q) \in Nat
      BY <1>1, <2>2, Zenon
    <3>2. Len(q) >= 1
      BY <1>1, <1>3
    <3> QED
      BY <2>1, <2>2, <3>1, <3>2 DEF Has
<1> QED
  BY <1>2, <1>3

\* A log as complete as one that has an entry has it too, or ends in a term whose
\* leader did not have it.
LEMMA UpToDateHas ==
  ASSUME NEW L \in [Term -> Seq(Term)],
         \A u \in Term : Traced(L, L[u]) /\ Bounded(L[u], u),
         NEW q \in Seq(Term), NEW r \in Seq(Term), Traced(L, q), Traced(L, r),
         UpToDate(q, r), NEW i, NEW t \in Term, Has(r, i, t)
  PROVE  \/ Has(q, i, t)
         \/ LET T == LastTermOf(q) IN T \in Term /\ t < T /\ Has(q, Len(q), T) /\ Misses(L, T, i, t)
<1> DEFINE T == LastTermOf(q)
<1>1. /\ Len(q) \in Nat /\ Len(r) \in Nat /\ t \in Nat /\ i \in 1 .. Len(r) /\ r[i] = t
      /\ Term \subseteq Nat
  BY TermsAreNatural DEF Has
<1>2. LastTermOf(r) = r[Len(r)] /\ LastTermOf(r) \in Nat /\ Len(r) \in 1 .. Len(r)
  <2>1. Len(r) >= 1 /\ Len(r) \in 1 .. Len(r)
    BY <1>1
  <2> QED
    BY Zenon, <2>1, LastTermType
<1>3. t <= LastTermOf(r) /\ t >= 1
  <2>1. r[i] <= r[Len(r)]
    <3>1. i <= Len(r)
      BY <1>1
    <3> QED
      BY <1>1, <1>2, <3>1, TracedMonotone, Zenon
  <2> QED
    BY <1>1, <1>2, <2>1 DEF Traced
<1> HIDE DEF T
<1>4. T \in Nat /\ T \in Term /\ (T >= 1 => Len(q) >= 1)
  BY LastTermType DEF T
<1>4a. T > LastTermOf(r) \/ (T = LastTermOf(r) /\ Len(q) >= Len(r))
  BY DEF UpToDate, T
<1>5. Len(q) >= 1 /\ t <= T
  BY <1>1, <1>2, <1>3, <1>4, <1>4a
<1>6. Has(q, Len(q), T)
  BY <1>5, LastTermType DEF T
<1>7. Agree(q, L[T], Len(q)) /\ Has(L[T], Len(q), T)
  BY <1>6, TracedHas
<1>8. L[T] \in Seq(Term) /\ L[T] # <<>> /\ Len(L[T]) \in Nat
  BY <1>4, <1>6, TracedHas
<1>9. CASE T = t
  <2>1. Len(q) >= i
    BY <1>1, <1>2, <1>3, <1>4a, <1>9
  <2>2. Has(L[T], i, t)
    BY <1>9, TracedHas
  <2> QED
    BY <1>1, <1>7, <1>8, <2>1, <2>2, AgreeHas, AgreeSymmetric
<1>10. CASE T # t
  <2>1. t < T
    BY <1>1, <1>4, <1>5, <1>10
  <2>2. CASE Has(L[T], i, t)
    <3>1. i < Len(q)
      <4> SUFFICES ASSUME i >= Len(q) PROVE FALSE
        BY <1>1
      <4>1. Len(q) \in 1 .. Len(L[T]) /\ i \in 1 .. Len(L[T]) /\ L[T][Len(q)] = T /\ L[T][i] = t
        BY <1>7, <2>2 DEF Has
      <4>2. L[T][Len(q)] <= L[T][i]
        BY Zenon, <1>1, <1>4, <1>8, <4>1, TracedMonotone
      <4> QED
        BY <1>1, <1>4, <2>1, <4>1, <4>2
    <3>2. Agree(L[T], q, Len(q)) /\ Len(q) \in Int /\ i <= Len(q)
      BY <1>1, <1>7, <3>1, AgreeSymmetric
    <3> QED
      BY <1>8, <2>2, <3>2, AgreeHas
  <2>3. CASE ~Has(L[T], i, t)
    BY <1>4, <1>6, <1>8, <2>1, <2>3 DEF Misses, T
  <2> QED
    BY <2>2, <2>3
<1> QED
  BY <1>9, <1>10

-----------------------------------------------------------------------------
(* How the logs of leaders grow.                                           *)

\* An elected leader stays elected.
LEMMA GrownIsNonempty ==
  ASSUME NEW L \in [Term -> Seq(Term)], NEW M \in [Term -> Seq(Term)], LogsGrow(L, M),
         NEW u \in Term, L[u] # <<>>
  PROVE  M[u] # <<>> /\ Agree(L[u], M[u], Len(L[u])) /\ Len(L[u]) >= 1
<1>1. L[u] \in Seq(Term) /\ M[u] \in Seq(Term) /\ Len(L[u]) \in Nat /\ Len(M[u]) \in Nat
  OBVIOUS
<1>2. Len(L[u]) >= 1
  BY <1>1
<1>3. Agree(L[u], M[u], Len(L[u]))
  BY DEF LogsGrow, Grown
<1> QED
  BY <1>1, <1>2, <1>3 DEF Agree

\* What a leader's log has, it keeps.
LEMMA GrownHas ==
  ASSUME NEW L \in [Term -> Seq(Term)], NEW M \in [Term -> Seq(Term)], LogsGrow(L, M),
         NEW u \in Term, NEW i, NEW t, Has(L[u], i, t)
  PROVE  Has(M[u], i, t)
<1>1. L[u] \in Seq(Term) /\ M[u] \in Seq(Term) /\ i \in 1 .. Len(L[u]) /\ Len(L[u]) \in Nat
  BY DEF Has
<1>2. L[u] # <<>>
  BY <1>1
<1>3. Agree(L[u], M[u], Len(L[u]))
  BY Zenon, <1>2, GrownIsNonempty
<1> QED
  BY <1>1, <1>3, AgreeHas

\* What it misses of an earlier term, it misses for ever.
LEMMA GrownMisses ==
  ASSUME NEW L \in [Term -> Seq(Term)], NEW M \in [Term -> Seq(Term)], LogsGrow(L, M),
         NEW u \in Term, NEW i, NEW t, t # u, Misses(L, u, i, t)
  PROVE  Misses(M, u, i, t)
<1>1. L[u] \in Seq(Term) /\ M[u] \in Seq(Term) /\ Len(L[u]) \in Nat /\ Len(M[u]) \in Nat
  OBVIOUS
<1>2. L[u] # <<>> /\ ~Has(L[u], i, t) /\ Grown(L[u], M[u], u)
  BY DEF Misses, LogsGrow
<1>3. M[u] # <<>>
  BY Zenon, <1>2, GrownIsNonempty
<1>4. ASSUME Has(M[u], i, t) PROVE FALSE
  <2>1. i \in 1 .. Len(M[u]) /\ M[u][i] = t
    BY <1>4 DEF Has
  <2>2. CASE i > Len(L[u])
    BY <1>2, <2>1, <2>2 DEF Grown
  <2>3. CASE i <= Len(L[u])
    <3>1. \A k \in 1 .. Len(L[u]) : L[u][k] = M[u][k]
      BY Zenon, <1>2, GrownIsNonempty DEF Agree
    <3>2. i \in 1 .. Len(L[u])
      BY <1>1, <2>1, <2>3
    <3> QED
      BY Zenon, <1>2, <2>1, <3>1, <3>2 DEF Has
  <2> QED
    BY <1>1, <2>1, <2>2, <2>3
<1> QED
  BY <1>3, <1>4 DEF Misses

\* So an entry that was missed stays missed.
LEMMA GrownMissedBefore ==
  ASSUME NEW L \in [Term -> Seq(Term)], NEW M \in [Term -> Seq(Term)], LogsGrow(L, M),
         NEW i, NEW t \in Term, NEW w \in Int, NEW x \in Int, w <= x, MissedBefore(L, i, t, w)
  PROVE  MissedBefore(M, i, t, x)
<1>1. PICK u \in Term : t < u /\ u < w /\ Misses(L, u, i, t)
  BY DEF MissedBefore
<1>2. t \in Int /\ u \in Int
  BY TermsAreNatural
<1>3. t # u /\ u < x
  BY <1>1, <1>2
<1>4. Misses(M, u, i, t)
  BY Zenon, <1>1, <1>3, GrownMisses
<1> QED
  BY <1>1, <1>3, <1>4 DEF MissedBefore

\* A log that agrees with a leader's goes on doing so.
LEMMA GrownAgree ==
  ASSUME NEW L \in [Term -> Seq(Term)], NEW M \in [Term -> Seq(Term)], LogsGrow(L, M),
         NEW u \in Term, NEW q \in Seq(Term), NEW n \in Int, n >= 1, Agree(q, L[u], n)
  PROVE  Agree(q, M[u], n)
<1>1. L[u] \in Seq(Term) /\ M[u] \in Seq(Term) /\ Len(L[u]) \in Nat /\ n <= Len(L[u])
  BY DEF Agree
<1>2. L[u] # <<>>
  BY <1>1
<1>3. Agree(L[u], M[u], Len(L[u]))
  BY Zenon, <1>2, GrownIsNonempty
<1>4. Agree(L[u], M[u], n)
  BY <1>1, <1>3, AgreeBelow
<1> QED
  BY <1>4, AgreeTransitive

\* A log stays put together from logs of leaders.
LEMMA GrownTraced ==
  ASSUME NEW L \in [Term -> Seq(Term)], NEW M \in [Term -> Seq(Term)], LogsGrow(L, M),
         NEW q \in Seq(Term), Traced(L, q)
  PROVE  Traced(M, q)
<1> SUFFICES ASSUME NEW i \in 1 .. Len(q) PROVE q[i] >= 1 /\ Agree(q, M[q[i]], i)
  BY DEF Traced
<1>1. q[i] >= 1 /\ Agree(q, L[q[i]], i) /\ q[i] \in Term /\ i \in Int /\ i >= 1
  BY DEF Traced
<1> QED
  BY Zenon, <1>1, GrownAgree

-----------------------------------------------------------------------------
(* What every step does, and what it therefore preserves.                  *)

\* The types that the arguments about logs rest on.
LEMMA LogTypes ==
  ASSUME TypeInv, HistoryOK
  PROVE  /\ leaderLog \in [Term -> Seq(Term)]
         /\ \A s \in Server : /\ log[s] \in Seq(Term) /\ Len(log[s]) \in Nat
                              /\ currentTerm[s] \in Term /\ currentTerm[s] \in Nat
         /\ \A u \in Term : leaderLog[u] \in Seq(Term) /\ Len(leaderLog[u]) \in Nat /\ u \in Nat
<1>1. log \in [Server -> Seq(Term)] /\ currentTerm \in [Server -> Term]
  BY DEF TypeInv, TypeOK
<1>2. leaderLog \in [Term -> Seq(Term)] /\ Term \subseteq Nat
  BY TermsAreNatural DEF HistoryOK
<1>3. \A s \in Server : log[s] \in Seq(Term) /\ Len(log[s]) \in Nat
  BY <1>1
<1>4. \A s \in Server : currentTerm[s] \in Term
  BY <1>1
<1>5. \A u \in Term : leaderLog[u] \in Seq(Term) /\ Len(leaderLog[u]) \in Nat
  BY <1>2
<1> QED
  BY <1>2, <1>3, <1>4, <1>5, Zenon

\* The same of the next state.
LEMMA LogTypesNext ==
  ASSUME TypeInv', HistoryOK'
  PROVE  /\ leaderLog' \in [Term -> Seq(Term)]
         /\ \A s \in Server : /\ log'[s] \in Seq(Term) /\ Len(log'[s]) \in Nat
                              /\ currentTerm'[s] \in Term /\ currentTerm'[s] \in Nat
         /\ \A u \in Term : leaderLog'[u] \in Seq(Term) /\ Len(leaderLog'[u]) \in Nat /\ u \in Nat
<1>1. log' \in [Server -> Seq(Term)] /\ currentTerm' \in [Server -> Term]
  BY DEF TypeInv, TypeOK
<1>2. leaderLog' \in [Term -> Seq(Term)] /\ Term \subseteq Nat
  BY TermsAreNatural DEF HistoryOK
<1>3. \A s \in Server : log'[s] \in Seq(Term) /\ Len(log'[s]) \in Nat
  BY <1>1
<1>4. \A s \in Server : currentTerm'[s] \in Term
  BY <1>1
<1>5. \A u \in Term : leaderLog'[u] \in Seq(Term) /\ Len(leaderLog'[u]) \in Nat
  BY <1>2
<1> QED
  BY <1>2, <1>3, <1>4, <1>5, Zenon

\* A server goes on keeping an entry.
LEMMA KeepsStays ==
  ASSUME TypeInv, TypeInv', HistoryOK, HistoryOK', LogsAreTraced, Evolves,
         NEW q \in Server, NEW i, NEW t \in Term, Keeps(q, i, t)
  PROVE  Keeps(q, i, t)'
<1> DEFINE T == currentTerm'[q]
<1>1. /\ leaderLog \in [Term -> Seq(Term)] /\ leaderLog' \in [Term -> Seq(Term)]
      /\ log[q] \in Seq(Term) /\ log'[q] \in Seq(Term) /\ Len(log[q]) \in Nat
      /\ currentTerm[q] \in Nat /\ T \in Nat /\ T \in Term /\ t \in Nat
      /\ leaderLog[T] \in Seq(Term)
  BY LogTypes, LogTypesNext
<1>2. t <= currentTerm[q] /\ currentTerm[q] <= T /\ LogsGrow(leaderLog, leaderLog')
  BY DEF Keeps, Evolves, LeaderLogsEvolve
<1>3. t <= T
  BY <1>1, <1>2
<1>4. CASE MissedBefore(leaderLog, i, t, currentTerm[q] + 1)
  <2> DEFINE w == currentTerm[q] + 1
             x == T + 1
  <2>1. w \in Int /\ x \in Int /\ w <= x
    BY <1>1, <1>2
  <2>2. MissedBefore(leaderLog', i, t, x)
    <3> HIDE DEF x
    <3>1. MissedBefore(leaderLog, i, t, w)
      BY <1>4
    <3> HIDE DEF w
    <3> QED
      BY Zenon, <1>1, <1>2, <2>1, <3>1, GrownMissedBefore
  <2> QED
    BY <1>3, <2>2 DEF Keeps
<1>5. CASE Has(log[q], i, t)
  <2>1. i \in 1 .. Len(log[q]) /\ i \in Nat /\ i <= Len(log[q]) /\ i <= i
    BY <1>1, <1>5 DEF Has
  <2>2. CASE Agree(log[q], log'[q], Len(log[q]))
    <3>1. Has(log'[q], i, t)
      BY <1>1, <1>5, <2>1, <2>2, AgreeHas
    <3> QED
      BY <1>3, <3>1 DEF Keeps
  <2>3. CASE /\ leaderLog[T] # <<>>
             /\ \A n \in Nat : Agree(log[q], leaderLog[T], n) => Agree(log[q], log'[q], n)
    <3>1. Traced(leaderLog, log[q]) /\ Traced(leaderLog, leaderLog[T])
      BY <1>1 DEF LogsAreTraced
    <3>2. CASE Has(leaderLog[T], i, t)
      <4>1. Agree(log[q], leaderLog[T], i)
        BY <1>5, <3>1, <3>2, TracedMeet
      <4>2. Agree(log[q], log'[q], i)
        BY <2>1, <2>3, <4>1
      <4>3. Has(log'[q], i, t)
        BY <1>1, <1>5, <2>1, <4>2, AgreeHas
      <4> QED
        BY <1>3, <4>3 DEF Keeps
    <3>3. CASE ~Has(leaderLog[T], i, t)
      <4>1. t # T
        BY <1>5, <3>1, <3>3, TracedHas
      <4>2. t < T /\ T < T + 1
        BY <1>1, <1>3, <4>1
      <4>3. Misses(leaderLog, T, i, t)
        BY <2>3, <3>3 DEF Misses
      <4>4. MissedBefore(leaderLog, i, t, T + 1)
        BY <1>1, <4>2, <4>3 DEF MissedBefore
      <4>5. MissedBefore(leaderLog', i, t, T + 1)
        <5> DEFINE x == T + 1
        <5>1. x \in Int /\ x <= x
          BY <1>1
        <5> HIDE DEF x
        <5>2. MissedBefore(leaderLog, i, t, x)
          BY <4>4 DEF x
        <5>3. MissedBefore(leaderLog', i, t, x)
          BY Zenon, <1>1, <1>2, <5>1, <5>2, GrownMissedBefore
        <5> QED
          BY <5>3 DEF x
      <4> QED
        BY <1>3, <4>5 DEF Keeps
    <3> QED
      BY <3>2, <3>3
  <2> QED
    BY <2>2, <2>3 DEF Evolves, LogsEvolve
<1> QED
  BY <1>4, <1>5 DEF Keeps

\* A server backs no candidate that would be the first to miss the entry.
LEMMA BacksWellStays ==
  ASSUME TypeInv, TypeInv', HistoryOK, HistoryOK', LogsAreTraced, LeadersAreElected, Evolves,
         NEW q \in Server, NEW i, NEW t \in Term, Keeps(q, i, t), BacksWell(q, i, t)
  PROVE  BacksWell(q, i, t)'
<1> SUFFICES ASSUME NEW p \in Server, role'[p] = "Candidate", t < currentTerm'[p],
                    <<q, currentTerm'[p], p>> \in votes', leaderLog'[currentTerm'[p]] = <<>>
             PROVE  Has(log'[p], i, t) \/ MissedBefore(leaderLog', i, t, currentTerm'[p])
  BY Zenon DEF BacksWell
<1> DEFINE u == currentTerm'[p]
<1>1. /\ leaderLog \in [Term -> Seq(Term)] /\ leaderLog' \in [Term -> Seq(Term)]
      /\ log[p] \in Seq(Term) /\ log[q] \in Seq(Term)
      /\ currentTerm[q] \in Nat /\ currentTerm[p] \in Nat /\ u \in Nat /\ u \in Term /\ t \in Nat
  BY LogTypes, LogTypesNext
<1>2. LogsGrow(leaderLog, leaderLog') /\ log'[p] = log[p]
  BY DEF Evolves, LeaderLogsEvolve, CandidatesEvolve
<1>3. leaderLog[u] = <<>>
  BY ZenonT(30), <1>1, <1>2, GrownIsNonempty
<1>4. Has(log[p], i, t) \/ MissedBefore(leaderLog, i, t, u)
  <2>1. CASE /\ role[p] = "Candidate" /\ currentTerm'[p] = currentTerm[p]
             /\ <<q, currentTerm[p], p>> \in votes
    BY Zenon, <1>3, <2>1 DEF BacksWell
  <2>2. CASE currentTerm[q] <= u /\ UpToDate(log[p], log[q])
    <3>1. CASE MissedBefore(leaderLog, i, t, currentTerm[q] + 1)
      <4>1. PICK w \in Term : t < w /\ w < currentTerm[q] + 1 /\ Misses(leaderLog, w, i, t)
        BY <3>1 DEF MissedBefore
      <4>2. w \in Nat /\ w # u
        BY <1>3, <4>1, TermsAreNatural DEF Misses
      <4>3. w < u
        BY <1>1, <2>2, <4>1, <4>2
      <4> QED
        BY <4>1, <4>3 DEF MissedBefore
    <3>2. CASE Has(log[q], i, t)
      <4>1. /\ \A x \in Term : Traced(leaderLog, leaderLog[x]) /\ Bounded(leaderLog[x], x)
            /\ Traced(leaderLog, log[p]) /\ Traced(leaderLog, log[q]) /\ Bounded(log[p], currentTerm[p])
        BY DEF LogsAreTraced
      <4> DEFINE T == LastTermOf(log[p])
      <4>2. CASE T \in Term /\ t < T /\ Has(log[p], Len(log[p]), T) /\ Misses(leaderLog, T, i, t)
        <5>1. T <= currentTerm[p] /\ T \in Nat
          BY Zenon, <4>1, <4>2, TermsAreNatural DEF Has, Bounded
        <5>2. currentTerm[p] <= u
          BY DEF Evolves
        <5>3. T # u
          BY <1>3, <4>2 DEF Misses
        <5>4. T < u
          <6> HIDE DEF T, u
          <6> QED
            BY <1>1, <5>1, <5>2, <5>3
        <5> QED
          BY <4>2, <5>4 DEF MissedBefore
      <4> QED
        BY ZenonT(30), <1>1, <2>2, <3>2, <4>1, <4>2, UpToDateHas
    <3> QED
      BY <3>1, <3>2 DEF Keeps
  <2> QED
    BY Zenon, <2>1, <2>2 DEF Evolves, CandidatesEvolve
<1>5. u \in Int /\ u <= u
  BY <1>1
<1> QED
  BY Zenon, <1>1, <1>2, <1>4, <1>5, GrownMissedBefore

\* No leader that the server elects is the first to miss it.
LEMMA ElectsWellStays ==
  ASSUME TypeInv, TypeInv', HistoryOK, HistoryOK', Evolves,
         NEW q \in Server, NEW i, NEW t \in Term, BacksWell(q, i, t), ElectsWell(q, i, t)
  PROVE  ElectsWell(q, i, t)'
<1> SUFFICES ASSUME NEW u \in Term, t < u, q \in electors'[u], leaderLog'[u] # <<>>
             PROVE  Has(leaderLog'[u], i, t) \/ MissedBefore(leaderLog', i, t, u)
  BY DEF ElectsWell
<1>1. /\ leaderLog \in [Term -> Seq(Term)] /\ leaderLog' \in [Term -> Seq(Term)]
      /\ u \in Int /\ u <= u
  BY LogTypes, LogTypesNext
<1>2. LogsGrow(leaderLog, leaderLog')
  BY DEF Evolves, LeaderLogsEvolve
<1>3. CASE leaderLog[u] # <<>>
  <2>1. electors'[u] = electors[u]
    BY Zenon, <1>3 DEF Evolves, LeaderLogsEvolve
  <2>2. Has(leaderLog[u], i, t) \/ MissedBefore(leaderLog, i, t, u)
    BY <1>3, <2>1 DEF ElectsWell
  <2> QED
    BY ZenonT(30), <1>1, <1>2, <2>2, GrownHas, GrownMissedBefore
<1>4. CASE leaderLog[u] = <<>>
  <2>1. PICK p \in Server : /\ role[p] = "Candidate" /\ currentTerm[p] = u
                            /\ leaderLog'[u] = Append(log[p], u)
                            /\ <<q, u, p>> \in votes
    BY <1>4 DEF Evolves, LeaderLogsEvolve
  <2>2. Has(log[p], i, t) \/ MissedBefore(leaderLog, i, t, u)
    BY <1>4, <2>1 DEF BacksWell
  <2>3. CASE MissedBefore(leaderLog, i, t, u)
    BY <1>1, <1>2, <2>3, GrownMissedBefore
  <2>4. CASE Has(log[p], i, t)
    <3>1. log[p] \in Seq(Term) /\ Len(log[p]) \in Nat /\ i \in 1 .. Len(log[p]) /\ log[p][i] = t
      BY <2>4, LogTypes DEF Has
    <3>2. Has(Append(log[p], u), i, t)
      BY <3>1 DEF Has
    <3> QED
      BY <2>1, <3>2
  <2> QED
    BY <2>2, <2>3, <2>4
<1> QED
  BY <1>3, <1>4

\* A server that stands by an entry does so for ever.
LEMMA StandsStays ==
  ASSUME TypeInv, TypeInv', HistoryOK, HistoryOK', LogsAreTraced, LeadersAreElected, Evolves,
         NEW q \in Server, NEW i, NEW t \in Term, Stands(q, i, t)
  PROVE  Stands(q, i, t)'
<1>1. Keeps(q, i, t) /\ ElectsWell(q, i, t) /\ BacksWell(q, i, t)
  BY DEF Stands
<1>2. Keeps(q, i, t)' /\ ElectsWell(q, i, t)' /\ BacksWell(q, i, t)'
  BY <1>1, KeepsStays, ElectsWellStays, BacksWellStays
<1> QED
  BY <1>2 DEF Stands

\* While a server stays in a term, it goes on agreeing with the leader of the term.
LEMMA AgreementStays ==
  ASSUME TypeInv, TypeInv', HistoryOK, HistoryOK', Evolves,
         NEW s \in Server, NEW n \in Nat, n >= 1,
         Agree(log[s], leaderLog[currentTerm'[s]], n)
  PROVE  Agree(log'[s], leaderLog'[currentTerm'[s]], n)
<1> DEFINE T == currentTerm'[s]
<1>1. /\ leaderLog \in [Term -> Seq(Term)] /\ leaderLog' \in [Term -> Seq(Term)]
      /\ log[s] \in Seq(Term) /\ log'[s] \in Seq(Term) /\ T \in Term /\ Len(log[s]) \in Nat
  BY LogTypes, LogTypesNext
<1>2. LogsGrow(leaderLog, leaderLog')
  BY DEF Evolves, LeaderLogsEvolve
<1>3. Agree(log[s], log'[s], n)
  <2>1. CASE Agree(log[s], log'[s], Len(log[s]))
    <3>1. n <= Len(log[s]) /\ n \in Int
      BY DEF Agree
    <3> QED
      BY <1>1, <2>1, <3>1, AgreeBelow
  <2> QED
    BY <2>1 DEF Evolves, LogsEvolve
<1>4. Agree(log'[s], leaderLog[T], n)
  BY <1>3, AgreeSymmetric, AgreeTransitive
<1> HIDE DEF T
<1>5. Agree(log'[s], leaderLog'[T], n)
  <2>1. n \in Int
    OBVIOUS
  <2>2. log'[s] \in Seq(Term) /\ T \in Term
    BY <1>1
  <2> QED
    BY Zenon, <1>1, <1>2, <1>4, <2>1, <2>2, GrownAgree
<1> QED
  BY <1>5 DEF T

\* What a follower has acknowledged stays acknowledged.
LEMMA AcknowledgedStays ==
  ASSUME TypeInv, TypeInv', HistoryOK, HistoryOK', LogsAreTraced, LeadersAreElected, Evolves,
         NEW p \in Server, NEW t \in Term, NEW n \in Nat, Acknowledged(p, t, n)
  PROVE  Acknowledged(p, t, n)'
<1>1. CASE n = 0
  BY <1>1 DEF Acknowledged
<1>2. CASE n # 0
  <2>1. /\ leaderLog \in [Term -> Seq(Term)] /\ leaderLog' \in [Term -> Seq(Term)]
        /\ leaderLog[t] \in Seq(Term) /\ leaderLog'[t] \in Seq(Term)
        /\ Len(leaderLog[t]) \in Nat /\ Len(leaderLog'[t]) \in Nat
        /\ t \in Nat /\ currentTerm[p] \in Nat /\ currentTerm'[p] \in Nat
    BY LogTypes, LogTypesNext
  <2>2. /\ t <= currentTerm[p] /\ n <= Len(leaderLog[t]) /\ n >= 1
        /\ t = currentTerm[p] => Agree(log[p], leaderLog[t], n)
        /\ \A i \in 1 .. n : leaderLog[t][i] = t => Stands(p, i, t)
    BY <1>2 DEF Acknowledged
  <2>3. LogsGrow(leaderLog, leaderLog') /\ currentTerm[p] <= currentTerm'[p]
    BY DEF Evolves, LeaderLogsEvolve
  <2>4. leaderLog[t] # <<>>
    BY <2>1, <2>2
  <2>5. Agree(leaderLog[t], leaderLog'[t], Len(leaderLog[t]))
    BY <2>1, <2>3, <2>4, GrownIsNonempty
  <2>6. n <= Len(leaderLog'[t]) /\ t <= currentTerm'[p]
    BY <2>1, <2>2, <2>3, <2>5 DEF Agree
  <2>7. ASSUME t = currentTerm'[p] PROVE Agree(log'[p], leaderLog'[t], n)
    <3>1. t = currentTerm[p]
      BY <2>1, <2>2, <2>3, <2>7
    <3> QED
      BY Zenon, <2>2, <2>7, <3>1, AgreementStays
  <2>8. ASSUME NEW i \in 1 .. n, leaderLog'[t][i] = t PROVE Stands(p, i, t)'
    <3>1. leaderLog[t][i] = leaderLog'[t][i]
      BY <2>1, <2>2, <2>5 DEF Agree
    <3>2. Stands(p, i, t)
      BY <2>2, <2>8, <3>1
    <3> QED
      BY <3>2, StandsStays
  <2> QED
    BY <2>6, <2>7, <2>8 DEF Acknowledged
<1> QED
  BY <1>1, <1>2

\* What is committed is an index and a term.
LEMMA CommittedTypes ==
  ASSUME TypeInv, NEW c \in committed
  PROVE  c[1] \in Nat /\ c[2] \in Term /\ c[2] \in Nat
<1>1. c \in Index \X Term
  BY DEF TypeInv, TypeOK
<1>2. c[1] \in Index /\ c[2] \in Term
  BY <1>1
<1>3. Index \subseteq Nat /\ Term \subseteq Nat
  BY BoundAssumption, TermsAreNatural DEF Index
<1> QED
  BY ZenonT(30), <1>2, <1>3

\* Whoever was elected in the term of a committed entry or later has it and what precedes it.
LEMMA LeadersAgreeOnCommitted ==
  ASSUME TypeInv, HistoryOK, LogsAreTraced, CommittedIsKept,
         NEW c \in committed, NEW u \in Term, c[2] <= u, leaderLog[u] # <<>>
  PROVE  /\ Has(leaderLog[u], c[1], c[2])
         /\ Agree(leaderLog[u], leaderLog[c[2]], c[1])
<1>1. c[1] \in Nat /\ c[2] \in Term /\ c[2] \in Nat /\ u \in Nat
  BY CommittedTypes, TermsAreNatural
<1>2. /\ Has(leaderLog[c[2]], c[1], c[2])
      /\ \A w \in Term : c[2] < w => ~Misses(leaderLog, w, c[1], c[2])
  BY DEF CommittedIsKept, EntryIsKept
<1>3. Has(leaderLog[u], c[1], c[2])
  <2>1. CASE u = c[2]
    BY <1>2, <2>1
  <2>2. CASE u # c[2]
    <3>1. c[2] < u
      BY <1>1, <2>2
    <3> QED
      BY <1>2, <3>1 DEF Misses
  <2> QED
    BY <2>1, <2>2
<1>4. Traced(leaderLog, leaderLog[u]) /\ Traced(leaderLog, leaderLog[c[2]])
  BY <1>1 DEF LogsAreTraced
<1> QED
  BY <1>2, <1>3, <1>4, TracedMeet

\* What a server has committed it keeps.
LEMMA SafeStays ==
  ASSUME TypeInv, TypeInv', HistoryOK, HistoryOK', LogsAreTraced, CommittedIsKept, Evolves,
         NEW s \in Server, NEW n \in Nat, Safe(s, n)
  PROVE  Safe(s, n)' /\ Agree(log[s], log'[s], n)
<1>1. /\ leaderLog \in [Term -> Seq(Term)] /\ leaderLog' \in [Term -> Seq(Term)]
      /\ log[s] \in Seq(Term) /\ log'[s] \in Seq(Term) /\ Len(log[s]) \in Nat /\ Len(log'[s]) \in Nat
      /\ currentTerm[s] \in Nat /\ currentTerm'[s] \in Nat /\ currentTerm'[s] \in Term
  BY LogTypes, LogTypesNext
<1>2. CASE n = 0
  <2>1. Agree(log[s], log'[s], 0)
    BY <1>1 DEF Agree
  <2> QED
    BY <1>2, <2>1 DEF Safe
<1>3. CASE n # 0
  <2>1. PICK c \in committed :
          n <= c[1] /\ c[2] <= currentTerm[s] /\ Agree(log[s], leaderLog[c[2]], n)
    BY <1>3 DEF Safe
  <2>2. c[1] \in Nat /\ c[2] \in Term /\ c[2] \in Nat /\ n \in Int /\ n >= 1
    BY <1>3, CommittedTypes
  <2> DEFINE T == currentTerm'[s]
  <2>3. currentTerm[s] <= T /\ LogsGrow(leaderLog, leaderLog') /\ c \in committed'
    BY DEF Evolves, LeaderLogsEvolve
  <2>4. c[2] <= T
    BY <1>1, <2>1, <2>2, <2>3
  <2>5. Agree(log[s], log'[s], n)
    <3>1. CASE Agree(log[s], log'[s], Len(log[s]))
      <4>1. n <= Len(log[s]) /\ Len(log[s]) \in Int
        BY <1>1, <2>1 DEF Agree
      <4> QED
        BY Zenon, <1>1, <2>2, <3>1, <4>1, AgreeBelow
    <3>2. CASE /\ leaderLog[T] # <<>>
               /\ \A k \in Nat : Agree(log[s], leaderLog[T], k) => Agree(log[s], log'[s], k)
      <4>1. Agree(leaderLog[T], leaderLog[c[2]], c[1])
        BY <1>1, <2>4, <3>2, LeadersAgreeOnCommitted
      <4>2. leaderLog[T] \in Seq(Term) /\ leaderLog[c[2]] \in Seq(Term)
        BY <1>1, <2>2
      <4>3. Agree(leaderLog[T], leaderLog[c[2]], n)
        BY <2>1, <2>2, <4>1, <4>2, AgreeBelow
      <4>4. Agree(log[s], leaderLog[T], n)
        BY <2>1, <4>3, AgreeSymmetric, AgreeTransitive
      <4> QED
        BY <3>2, <4>4
    <3> QED
      BY <3>1, <3>2 DEF Evolves, LogsEvolve
  <2>6. Agree(log'[s], leaderLog[c[2]], n)
    BY <2>1, <2>5, AgreeSymmetric, AgreeTransitive
  <2>7. Agree(log'[s], leaderLog'[c[2]], n)
    BY Zenon, <1>1, <2>2, <2>3, <2>6, GrownAgree
  <2> QED
    BY <2>1, <2>3, <2>4, <2>5, <2>7 DEF Safe
<1> QED
  BY <1>2, <1>3

\* A majority that stands by an entry meets the majority that elects the next leader.
LEMMA EntryStaysKept ==
  ASSUME CountingFacts, TypeInv, TypeInv', HistoryOK, HistoryOK', LogsAreTraced,
         LeadersAreElected, Evolves,
         NEW i, NEW t \in Term, EntryIsKept(i, t)
  PROVE  EntryIsKept(i, t)'
<1>1. /\ leaderLog \in [Term -> Seq(Term)] /\ leaderLog' \in [Term -> Seq(Term)]
      /\ LogsGrow(leaderLog, leaderLog')
  BY LogTypes, LogTypesNext DEF Evolves, LeaderLogsEvolve
<1>2. Has(leaderLog'[t], i, t)
  BY Zenon, <1>1, GrownHas DEF EntryIsKept
<1>3. PICK Q \in SUBSET Server : Cardinality(Q) >= Majority /\ \A q \in Q : Stands(q, i, t)
  BY DEF EntryIsKept
<1>4. \A q \in Q : Stands(q, i, t)'
  BY <1>3, StandsStays
<1>5. ASSUME NEW u \in Term, t < u PROVE ~Misses(leaderLog', u, i, t)
  <2>1. CASE leaderLog[u] # <<>>
    <3>1. Has(leaderLog[u], i, t)
      BY <1>5, <2>1 DEF EntryIsKept, Misses
    <3> QED
      BY Zenon, <1>1, <3>1, GrownHas DEF Misses
  <2>2. CASE leaderLog[u] = <<>> /\ leaderLog'[u] # <<>>
    <3>1. PICK p \in Server : /\ role[p] = "Candidate" /\ currentTerm[p] = u
                              /\ leaderLog'[u] = Append(log[p], u)
                              /\ \A q \in electors'[u] : <<q, u, p>> \in votes
      BY <2>2 DEF Evolves, LeaderLogsEvolve
    <3>2. PICK q : q \in Q /\ q \in electors'[u]
      <4>1. Cardinality(electors'[u]) >= Majority
        BY <2>2 DEF Evolves, LeaderLogsEvolve
      <4>2. electors'[u] \in SUBSET Server
        BY DEF HistoryOK
      <4>3. Q \intersect electors'[u] # {}
        BY Zenon, <1>3, <4>1, <4>2, MajoritiesIntersect
      <4> QED
        BY <4>3
    <3>3. BacksWell(q, i, t)
      BY <1>3, <3>2 DEF Stands
    <3>4. Has(log[p], i, t) \/ MissedBefore(leaderLog, i, t, u)
      BY Zenon, <1>5, <2>2, <3>1, <3>2, <3>3 DEF BacksWell
    <3>5. ~MissedBefore(leaderLog, i, t, u)
      BY DEF EntryIsKept, MissedBefore
    <3>6. log[p] \in Seq(Term) /\ Len(log[p]) \in Nat /\ i \in 1 .. Len(log[p]) /\ log[p][i] = t
      BY <3>4, <3>5, LogTypes DEF Has
    <3>7. Has(Append(log[p], u), i, t)
      BY <3>6 DEF Has
    <3> QED
      BY <3>1, <3>7 DEF Misses
  <2> QED
    BY <2>1, <2>2 DEF Misses
<1> QED
  BY <1>2, <1>3, <1>4, <1>5 DEF EntryIsKept

\* A request or a response that was sound stays sound.
LEMMA RpcStaysSound ==
  ASSUME TypeInv, TypeInv', HistoryOK, HistoryOK', LogsAreTraced, LeadersAreElected, Evolves,
         NEW m \in Message, RpcIsSound(m)
  PROVE  RpcIsSound(m)'
<1>1. /\ leaderLog \in [Term -> Seq(Term)] /\ leaderLog' \in [Term -> Seq(Term)]
      /\ LogsGrow(leaderLog, leaderLog') /\ elected \subseteq elected' /\ committed \subseteq committed'
      /\ \A s \in Server : currentTerm[s] \in Nat /\ currentTerm'[s] \in Nat
                           /\ currentTerm[s] <= currentTerm'[s]
  BY LogTypes, LogTypesNext DEF Evolves, LeaderLogsEvolve
<1>2. m.src \in Server /\ m.dst \in Server /\ m.term \in Term /\ m.term \in Nat
  BY Zenon, MessageFields, TermsAreNatural
<1>3. ASSUME m.kind = "RV_req" PROVE VoteRequestIsSound(m)'
  <2>1. VoteRequestIsSound(m)
    BY <1>3 DEF RpcIsSound
  <2>2. m.term <= currentTerm'[m.src]
    <3>1. m.term <= currentTerm[m.src]
      BY Zenon, <2>1 DEF VoteRequestIsSound
    <3> QED
      BY <1>1, <1>2, <3>1
  <2>3. ASSUME role'[m.src] = "Candidate", currentTerm'[m.src] = m.term
        PROVE  m.lastLogIndex = Len(log'[m.src]) /\ m.lastLogTerm = LastTermOf(log'[m.src])
    <3>1. log'[m.src] = log[m.src]
      BY Zenon, <1>2, <2>3 DEF Evolves, CandidatesEvolve
    <3>2. m.term <= currentTerm[m.src]
      BY <2>1 DEF VoteRequestIsSound
    <3>3. role[m.src] = "Candidate" /\ currentTerm[m.src] = m.term
      BY <1>1, <1>2, <2>3, <3>2 DEF Evolves, CandidatesEvolve
    <3> QED
      BY <2>1, <3>1, <3>3 DEF VoteRequestIsSound
  <2> QED
    BY <2>2, <2>3 DEF VoteRequestIsSound
<1>4. ASSUME m.kind = "AE_req" PROVE AppendRequestIsSound(m)'
  <2>1. AppendRequestIsSound(m)
    BY <1>4 DEF RpcIsSound
  <2>2. m.prevLogIndex \in Nat /\ m.entries \in Seq(Term) /\ Len(m.entries) \in Nat
    BY <1>4, MessageFields, BoundAssumption DEF Index
  <2>3. leaderLog[m.term] # <<>>
    <3>1. <<m.term, m.src>> \in elected
      BY <2>1 DEF AppendRequestIsSound
    <3> QED
      BY <3>1 DEF LeadersAreElected
  <2>4. Agree(leaderLog[m.term], leaderLog'[m.term], Len(leaderLog[m.term]))
    BY Zenon, <1>1, <1>2, <2>3, GrownIsNonempty
  <2>5. leaderLog[m.term] \in Seq(Term) /\ leaderLog'[m.term] \in Seq(Term)
        /\ Len(leaderLog[m.term]) \in Nat /\ Len(leaderLog'[m.term]) \in Nat
    BY <1>1, <1>2
  <2>6. m.prevLogIndex + Len(m.entries) <= Len(leaderLog'[m.term])
    BY <2>1, <2>2, <2>4, <2>5 DEF AppendRequestIsSound, Agree
  <2>7. \A k \in 1 .. Len(m.entries) : m.entries[k] = leaderLog'[m.term][m.prevLogIndex + k]
    <3> SUFFICES ASSUME NEW k \in 1 .. Len(m.entries)
                 PROVE  m.entries[k] = leaderLog'[m.term][m.prevLogIndex + k]
      OBVIOUS
    <3>1. m.prevLogIndex + k \in 1 .. Len(leaderLog[m.term])
      BY <2>1, <2>2, <2>5 DEF AppendRequestIsSound
    <3>2. m.entries[k] = leaderLog[m.term][m.prevLogIndex + k]
      BY <2>1 DEF AppendRequestIsSound
    <3> QED
      BY <2>4, <3>1, <3>2 DEF Agree
  <2>8. \/ m.prevLogTerm = 0
        \/ m.prevLogIndex >= 1 /\ leaderLog'[m.term][m.prevLogIndex] = m.prevLogTerm
    <3>1. CASE m.prevLogTerm = 0
      BY <3>1
    <3>2. CASE m.prevLogIndex >= 1 /\ leaderLog[m.term][m.prevLogIndex] = m.prevLogTerm
      <4>1. m.prevLogIndex \in 1 .. Len(leaderLog[m.term])
        BY <2>1, <2>2, <2>5, <3>2 DEF AppendRequestIsSound
      <4> QED
        BY <2>4, <3>2, <4>1 DEF Agree
    <3> QED
      BY <2>1, <3>1, <3>2 DEF AppendRequestIsSound
  <2> QED
    BY Zenon, <1>1, <2>1, <2>6, <2>7, <2>8 DEF AppendRequestIsSound
<1>5. ASSUME m.kind = "AE_resp" PROVE AppendResponseIsSound(m)'
  <2>1. AppendResponseIsSound(m)
    BY <1>5 DEF RpcIsSound
  <2>2. m.savedTerm \in Term /\ m.matchIndex \in Nat
    BY <1>5, MessageFields, BoundAssumption DEF Index
  <2>3. ASSUME m.success PROVE Acknowledged(m.dst, m.savedTerm, m.matchIndex)'
    <3>1. Acknowledged(m.dst, m.savedTerm, m.matchIndex)
      BY <2>1, <2>3 DEF AppendResponseIsSound
    <3> QED
      BY <1>2, <2>2, <3>1, AcknowledgedStays
  <2> QED
    BY <1>1, <2>1, <2>3 DEF AppendResponseIsSound
<1> QED
  BY <1>3, <1>4, <1>5 DEF RpcIsSound

\* A step preserves LogInv if what it adds is sound.
LEMMA EvolvingStep ==
  ASSUME CountingFacts, TypeInv, TypeInv', LogInv, Evolves,
         HistoryOK', LogsAreTraced', LeadersAreElected', ElectorsVoted', LogsAreSafe',
         \A s, p \in Server : role'[s] = "Leader" =>
           Acknowledged(p, currentTerm'[s], peers'[s][p].matchIndex),
         \A c \in committed' : c \in committed \/ EntryIsKept(c[1], c[2])',
         \A m \in rpcs' : RpcIsSound(m) \/ RpcIsSound(m)'
  PROVE  LogInv'
<1>1. HistoryOK /\ LogsAreTraced /\ LeadersAreElected /\ CommittedIsKept
  BY ZenonT(30) DEF LogInv
<1>2. MatchesAreSound'
  <2> SUFFICES ASSUME NEW s \in Server, NEW p \in Server, role'[s] = "Leader",
                      NEW t, t = currentTerm'[s], NEW n, n = peers'[s][p].matchIndex
               PROVE  Acknowledged(p, t, n)'
    BY ZenonT(30) DEF MatchesAreSound, Acknowledged
  <2>1. t \in Term
    BY ZenonT(30), <1>1, LogTypesNext
  <2>2. n \in Nat
    <3>1. peers'[s][p] \in Peer
      BY DEF TypeInv, TypeOK
    <3>2. peers'[s][p].matchIndex \in Index
      BY ZenonT(30), <3>1 DEF Peer
    <3> QED
      BY Zenon, <3>2, IndicesAreNatural
  <2>3. Acknowledged(p, t, n)
    BY Zenon
  <2> QED
    BY ZenonT(30), <1>1, <2>1, <2>2, <2>3, AcknowledgedStays
<1>3. CommittedIsKept'
  <2> SUFFICES ASSUME NEW c \in committed' PROVE EntryIsKept(c[1], c[2])'
    BY DEF CommittedIsKept
  <2>1. CASE c \in committed
    <3>1. c[2] \in Term /\ EntryIsKept(c[1], c[2])
      BY <1>1, <2>1, CommittedTypes DEF CommittedIsKept
    <3> QED
      BY <1>1, <3>1, EntryStaysKept
  <2> QED
    BY <2>1
<1>4. RpcsAreSound'
  <2> SUFFICES ASSUME NEW m \in rpcs' PROVE RpcIsSound(m)'
    BY DEF RpcsAreSound
  <2>1. m \in Message
    BY DEF TypeInv, TypeOK
  <2> QED
    BY <1>1, <2>1, RpcStaysSound
<1> QED
  BY ZenonT(30), <1>2, <1>3, <1>4 DEF LogInv

-----------------------------------------------------------------------------
(* Tame steps.                                                             *)

\* The indexes of a server are numbers.
LEMMA IndexTypes ==
  ASSUME TypeInv
  PROVE  \A s \in Server : /\ commitIndex[s] \in Nat /\ firstIndex[s] \in Nat /\ firstIndex[s] >= 1
                           /\ commitIndex[s] <= Len(log[s])
<1>1. \A s \in Server : commitIndex[s] \in Index /\ firstIndex[s] \in 1 .. MaxLogLen + 1
  BY DEF TypeInv, TypeOK
<1>2. \A n : (n \in Index => n \in Nat) /\ (n \in 1 .. MaxLogLen + 1 => n \in Nat /\ n >= 1)
  BY BoundAssumption DEF Index
<1>3. \A s \in Server : commitIndex[s] <= Len(log[s])
  BY DEF TypeInv, IndexesWithinLog
<1> QED
  BY <1>1, <1>2, <1>3, Zenon

-----------------------------------------------------------------------------
(* A leader appends to its log.                                            *)

\* What appending one entry of term u does to a log.
LEMMA AppendOne ==
  ASSUME NEW q \in Seq(Term), NEW u \in Term
  PROVE  LET r == Append(q, u) IN
         /\ r \in Seq(Term) /\ r # <<>> /\ Len(r) = Len(q) + 1
         /\ r[Len(q) + 1] = u /\ \A i \in 1 .. Len(q) : r[i] = q[i]
         /\ Agree(q, r, Len(q)) /\ Grown(q, r, u)
<1> DEFINE r == Append(q, u)
<1>1. /\ r \in Seq(Term) /\ Len(q) \in Nat /\ Len(r) = Len(q) + 1
      /\ r[Len(q) + 1] = u /\ \A i \in 1 .. Len(q) : r[i] = q[i]
  OBVIOUS
<1> HIDE DEF r
<1>2. r # <<>>
  BY <1>1
<1>3. Agree(q, r, Len(q))
  BY <1>1 DEF Agree
<1>4. Grown(q, r, u)
  BY <1>1, <1>3 DEF Grown
<1> QED
  BY <1>1, <1>2, <1>3, <1>4 DEF r

-----------------------------------------------------------------------------
(* A follower takes the entries of an AE_req.                              *)

\* What is committed in a server's log is in the log of the leader of every later term.
LEMMA CommittedPrefixAgrees ==
  ASSUME TypeInv, LogInv, NEW s \in Server, NEW n \in Nat, Safe(s, n),
         NEW T \in Term, currentTerm[s] <= T, leaderLog[T] # <<>>
  PROVE  Agree(log[s], leaderLog[T], n)
<1>1. /\ HistoryOK /\ LogsAreTraced /\ CommittedIsKept
  BY DEF LogInv
<1>2. /\ log[s] \in Seq(Term) /\ Len(log[s]) \in Nat /\ currentTerm[s] \in Nat /\ T \in Nat
      /\ leaderLog[T] \in Seq(Term) /\ Len(leaderLog[T]) \in Nat
  BY <1>1, LogTypes
<1>3. CASE n = 0
  BY <1>2, <1>3 DEF Agree
<1>4. CASE n # 0
  <2>1. PICK c \in committed :
          n <= c[1] /\ c[2] <= currentTerm[s] /\ Agree(log[s], leaderLog[c[2]], n)
    BY <1>4 DEF Safe
  <2>2. c[1] \in Nat /\ c[2] \in Term /\ c[2] \in Nat
    BY CommittedTypes
  <2>3. c[2] <= T
    BY <1>2, <2>1, <2>2
  <2>4. Agree(leaderLog[T], leaderLog[c[2]], c[1])
    BY <1>1, <2>3, LeadersAgreeOnCommitted
  <2>5. leaderLog[c[2]] \in Seq(Term) /\ n \in Int /\ c[1] \in Int
    BY <1>1, <2>2, LogTypes
  <2>6. Agree(leaderLog[T], leaderLog[c[2]], n)
    BY <1>2, <2>1, <2>4, <2>5, AgreeBelow
  <2> QED
    BY <2>1, <2>6, AgreeSymmetric, AgreeTransitive
<1> QED
  BY <1>3, <1>4

\* What an AE_req says, and the log it speaks of.
LEMMA RequestFacts ==
  ASSUME TypeInv, LogInv, NEW m \in rpcs, m.kind = "AE_req"
  PROVE  /\ m.dst \in Server /\ m.src \in Server /\ m.term \in Term /\ m.term \in Nat
         /\ m.prevLogIndex \in Nat /\ m.entries \in Seq(Term) /\ Len(m.entries) \in Nat
         /\ m.commitIndex \in Nat
         /\ leaderLog[m.term] \in Seq(Term) /\ Len(leaderLog[m.term]) \in Nat
         /\ leaderLog[m.term] # <<>>
         /\ log[m.dst] \in Seq(Term) /\ Len(log[m.dst]) \in Nat /\ currentTerm[m.dst] \in Nat
         /\ AppendRequestIsSound(m)
<1>1. m \in Message /\ AppendRequestIsSound(m)
  BY DEF TypeInv, TypeOK, LogInv, RpcsAreSound, RpcIsSound
<1>2. /\ m.dst \in Server /\ m.src \in Server /\ m.term \in Term /\ m.entries \in Seq(Term)
      /\ m.prevLogIndex \in Index /\ m.commitIndex \in Index
  BY ZenonT(30), <1>1, MessageFields
<1>3. m.prevLogIndex \in Nat /\ m.commitIndex \in Nat /\ Len(m.entries) \in Nat
  <2>1. m.prevLogIndex \in Nat /\ m.commitIndex \in Nat
    BY Zenon, <1>2, IndicesAreNatural
  <2>2. Len(m.entries) \in Nat
    BY <1>2
  <2> QED
    BY <2>1, <2>2
<1>4. leaderLog[m.term] # <<>>
  <2>1. <<m.term, m.src>> \in elected /\ <<m.term, m.src>>[1] = m.term
    BY <1>1 DEF AppendRequestIsSound
  <2>2. \A e \in elected : leaderLog[e[1]] # <<>>
    BY DEF LogInv, LeadersAreElected
  <2> QED
    BY Zenon, <2>1, <2>2
<1>5. HistoryOK
  BY DEF LogInv
<1> QED
  BY <1>1, <1>2, <1>3, <1>4, <1>5, LogTypes

\* The check of <prevLogIndex, prevLogTerm>: a follower that passes it agrees with the
\* leader that far.  Where it skips the check, the entries are committed.
LEMMA PrevLogAgrees ==
  ASSUME TypeInv, LogInv, NEW m \in rpcs, m.kind = "AE_req", m.term >= currentTerm[m.dst],
         PrevLogIsOk(m.dst, m)
  PROVE  Agree(log[m.dst], leaderLog[m.term], m.prevLogIndex)
<1> DEFINE s == m.dst
           q == log[s]
           L == leaderLog[m.term]
           i == m.prevLogIndex
<1>1. /\ s \in Server /\ m.term \in Term /\ m.term \in Nat /\ currentTerm[s] \in Nat /\ i \in Nat
      /\ q \in Seq(Term) /\ L \in Seq(Term) /\ Len(q) \in Nat /\ Len(L) \in Nat /\ L # <<>>
      /\ Len(m.entries) \in Nat /\ AppendRequestIsSound(m)
  BY RequestFacts
<1>2. firstIndex[s] \in Nat /\ firstIndex[s] >= 1
  BY <1>1, IndexTypes
<1>3. CASE i < firstIndex[s]
  <2>1. CASE i = 0
    BY <1>1, <2>1 DEF Agree
  <2>2. CASE i # 0
    <3>1. firstIndex[s] # 1
      BY <1>1, <1>2, <1>3, <2>2
    <3>2. Safe(s, firstIndex[s])
      BY <1>1, <3>1 DEF LogInv, LogsAreSafe
    <3>3. Agree(q, L, firstIndex[s])
      BY <1>1, <1>2, <3>2, CommittedPrefixAgrees
    <3> QED
      BY <1>1, <1>2, <1>3, <3>3, AgreeBelow
  <2> QED
    BY <2>1, <2>2
<1>4. CASE ~(i < firstIndex[s])
  <2>1. i <= Len(q) /\ q[i] = m.prevLogTerm /\ i >= 1
    <3>1. i <= Len(q) /\ TermOfLogEntryAt(s, i) = m.prevLogTerm
      BY <1>4 DEF PrevLogIsOk, LastLogIndex
    <3>2. i # firstIndex[s] - 1 /\ i >= 1
      BY <1>1, <1>2, <1>4
    <3> QED
      BY <3>1, <3>2 DEF TermOfLogEntryAt
  <2>2. Traced(leaderLog, q) /\ Traced(leaderLog, L)
    BY <1>1 DEF LogInv, LogsAreTraced
  <2>3. i \in 1 .. Len(q) /\ i \in 1 .. Len(L)
    <3>1. i + Len(m.entries) <= Len(L)
      BY <1>1 DEF AppendRequestIsSound
    <3> QED
      BY <1>1, <2>1, <3>1
  <2>4. q[i] >= 1
    BY <2>2, <2>3 DEF Traced
  <2>5. L[i] = m.prevLogTerm
    <3>1. m.prevLogTerm # 0
      BY <2>1, <2>4
    <3> QED
      BY <1>1, <3>1 DEF AppendRequestIsSound
  <2>6. Has(q, i, m.prevLogTerm) /\ Has(L, i, m.prevLogTerm)
    BY <2>1, <2>3, <2>5 DEF Has
  <2> QED
    BY Zenon, <2>2, <2>6, TracedMeet
<1> QED
  BY <1>3, <1>4

\* The entries that the loop over the request skips are in the log already.
LEMMA SkippedAgree ==
  ASSUME TypeInv, LogInv, NEW m \in rpcs, m.kind = "AE_req", m.term >= currentTerm[m.dst],
         PrevLogIsOk(m.dst, m),
         NEW e \in 0 .. Len(m.entries), \A j \in 1 .. e : j \notin NewEntries(m.dst, m)
  PROVE  Agree(log[m.dst], leaderLog[m.term], m.prevLogIndex + e)
<1> DEFINE s == m.dst
           q == log[s]
           L == leaderLog[m.term]
           prev == m.prevLogIndex
<1>1. /\ s \in Server /\ m.term \in Term /\ m.term \in Nat /\ currentTerm[s] \in Nat /\ prev \in Nat
      /\ q \in Seq(Term) /\ L \in Seq(Term) /\ Len(q) \in Nat /\ Len(L) \in Nat /\ L # <<>>
      /\ Len(m.entries) \in Nat /\ AppendRequestIsSound(m)
  BY RequestFacts
<1>2. firstIndex[s] \in Nat /\ firstIndex[s] >= 1
  BY <1>1, IndexTypes
<1>3. firstIndex[s] = 1 \/ Agree(q, L, firstIndex[s])
  <2>1. firstIndex[s] = 1 \/ Safe(s, firstIndex[s])
    BY <1>1 DEF LogInv, LogsAreSafe
  <2> QED
    BY <1>1, <1>2, <2>1, CommittedPrefixAgrees
<1>4. Agree(q, L, prev)
  BY PrevLogAgrees
<1>5. /\ prev + Len(m.entries) <= Len(L)
      /\ \A k \in 1 .. Len(m.entries) : m.entries[k] = L[prev + k]
  BY <1>1 DEF AppendRequestIsSound
<1>6. e \in Nat /\ e <= Len(m.entries)
  BY <1>1
<1>7. ASSUME NEW i \in 1 .. prev + e
      PROVE  i <= Len(q) /\ q[i] = L[i]
  <2>1. i \in Nat /\ i >= 1 /\ i <= prev + e
    BY <1>1, <1>6
  <2>2. CASE i <= prev
    <3>1. i \in 1 .. prev
      BY <1>1, <2>1, <2>2
    <3> QED
      BY <1>1, <1>4, <2>1, <3>1 DEF Agree
  <2>3. CASE ~(i <= prev) /\ i < firstIndex[s]
    <3>1. Agree(q, L, firstIndex[s]) /\ i \in 1 .. firstIndex[s]
      BY <1>2, <1>3, <2>1, <2>3
    <3> QED
      BY <1>1, <1>2, <2>1, <3>1 DEF Agree
  <2>4. CASE ~(i <= prev) /\ ~(i < firstIndex[s])
    <3> DEFINE j == i - prev
    <3>1. j \in 1 .. e /\ j \in 1 .. Len(m.entries) /\ prev + j = i
      BY <1>1, <1>6, <2>1, <2>4
    <3> HIDE DEF j
    <3>2. ~(prev + j >= firstIndex[s] /\ (prev + j > Len(q) \/ q[prev + j] # m.entries[j]))
      BY <3>1 DEF NewEntries, LastLogIndex
    <3>3. i <= Len(q) /\ q[i] = m.entries[j]
      BY <1>1, <1>2, <2>1, <2>4, <3>1, <3>2
    <3> QED
      BY <1>5, <3>1, <3>3
  <2> QED
    BY <2>2, <2>3, <2>4
<1>8. prev + e <= Len(q)
  <2>1. CASE prev + e = 0
    BY <1>1, <2>1
  <2>2. CASE prev + e # 0
    <3>1. prev + e \in 1 .. prev + e
      BY <1>1, <1>6, <2>2
    <3> QED
      BY <1>7, <3>1
  <2> QED
    BY <2>1, <2>2
<1>9. prev + e <= Len(L)
  BY <1>1, <1>5, <1>6
<1> QED
  BY <1>7, <1>8, <1>9 DEF Agree

\* The first new entry contradicts the log, so the log agrees with the leader only below
\* it, and the kept part is the leader's.
LEMMA KeptPart ==
  ASSUME CountingFacts, TypeInv, LogInv, NEW m \in rpcs, m.kind = "AE_req",
         m.term >= currentTerm[m.dst],
         PrevLogIsOk(m.dst, m), NewEntries(m.dst, m) # {}
  PROVE  LET q    == log[m.dst]
             k    == Min(NewEntries(m.dst, m))
             kept == SubSeq(q, 1, m.prevLogIndex + k - 1)
         IN
         /\ k \in 1 .. Len(m.entries)
         /\ kept \in Seq(Term) /\ Len(kept) = m.prevLogIndex + k - 1 /\ Len(kept) \in Nat
         /\ Len(kept) <= Len(q) /\ \A i \in 1 .. Len(kept) : kept[i] = q[i]
         /\ Agree(kept, leaderLog[m.term], Len(kept))
         /\ \A n \in Nat : Agree(q, leaderLog[m.term], n) => n <= Len(kept)
<1> DEFINE s == m.dst
           q == log[s]
           L == leaderLog[m.term]
           prev == m.prevLogIndex
           N == NewEntries(s, m)
           k == Min(N)
           n0 == prev + k - 1
           kept == SubSeq(q, 1, n0)
<1>1. /\ s \in Server /\ prev \in Nat
      /\ q \in Seq(Term) /\ L \in Seq(Term) /\ Len(q) \in Nat /\ Len(L) \in Nat
      /\ Len(m.entries) \in Nat /\ AppendRequestIsSound(m)
  BY RequestFacts
<1>2. /\ k \in 1 .. Len(m.entries) /\ n0 <= Len(q)
  BY ZenonT(30), FirstNewEntry
<1>3. k \in N /\ \A x \in N : k <= x
  <2>1. N \subseteq Nat
    BY DEF NewEntries
  <2> QED
    BY <2>1, MinOfNaturals
<1>4. prev + k > Len(q) \/ q[prev + k] # m.entries[k]
  <2>1. \A j \in N : prev + j > Len(q) \/ q[prev + j] # m.entries[j]
    BY DEF NewEntries, LastLogIndex
  <2> QED
    BY <1>3, <2>1
<1> HIDE DEF k
<1>5. k - 1 \in 0 .. Len(m.entries) /\ \A j \in 1 .. k - 1 : j \notin N /\ k \in Nat
  <2> HIDE DEF N
  <2> QED
    BY <1>1, <1>2, <1>3
<1>6. Agree(q, L, n0)
  <2> DEFINE e == k - 1
  <2>1. e \in 0 .. Len(m.entries) /\ \A j \in 1 .. e : j \notin N
    BY <1>5
  <2>2. prev + e = n0
    BY <1>1, <1>2
  <2> HIDE DEF e
  <2>3. Agree(q, L, prev + e)
    BY <2>1, SkippedAgree
  <2> HIDE DEF n0
  <2> QED
    BY <2>2, <2>3
<1>7. n0 \in Nat /\ prev + k = n0 + 1
  BY <1>1, <1>2
<1>8. m.entries[k] = L[n0 + 1] /\ (n0 + 1 > Len(q) \/ q[n0 + 1] # L[n0 + 1])
  <2>1. m.entries[k] = L[prev + k]
    BY <1>1, <1>2 DEF AppendRequestIsSound
  <2> QED
    BY <1>4, <1>7, <2>1
<1> HIDE DEF n0
<1>9. /\ kept \in Seq(Term) /\ Len(kept) = n0
      /\ \A i \in 1 .. n0 : kept[i] = q[i]
  <2>1. /\ kept \in Seq(Term) /\ Len(kept) = IF 1 <= n0 THEN n0 - 1 + 1 ELSE 0
        /\ \A i \in 1 .. Len(kept) : kept[i] = q[1 + i - 1]
    <3>1. n0 <= Len(q)
      BY <1>2 DEF n0
    <3> QED
      BY <1>1, <1>7, <3>1, CutLog
  <2>2. Len(kept) = n0
    BY <1>7, <2>1
  <2>3. \A i \in 1 .. n0 : 1 + i - 1 = i
    BY <1>7
  <2> QED
    BY <2>1, <2>2, <2>3
<1> HIDE DEF kept
<1>10. Agree(kept, L, n0)
  <2>1. n0 <= Len(L) /\ \A i \in 1 .. n0 : q[i] = L[i]
    BY Zenon, <1>6 DEF Agree
  <2>2. n0 <= Len(kept)
    BY <1>7, <1>9
  <2>3. \A i \in 1 .. n0 : kept[i] = L[i]
    BY Zenon, <1>9, <2>1
  <2> QED
    BY Zenon, <2>1, <2>2, <2>3 DEF Agree
<1>11. \A n \in Nat : Agree(q, L, n) => n <= n0
  <2> SUFFICES ASSUME NEW n \in Nat, Agree(q, L, n), ~(n <= n0) PROVE FALSE
    OBVIOUS
  <2>1. n0 + 1 \in 1 .. n /\ n <= Len(q)
    BY <1>7 DEF Agree
  <2>2. q[n0 + 1] = L[n0 + 1] /\ n0 + 1 <= Len(q)
    BY <1>1, <1>7, <2>1 DEF Agree
  <2> QED
    BY <1>1, <1>7, <1>8, <2>2
<1>12. n0 <= Len(q)
  BY <1>6 DEF Agree
<1> QED
  BY ZenonT(30), <1>2, <1>7, <1>9, <1>10, <1>11, <1>12 DEF kept, k, n0

\* What the concatenation of two logs consists of.
LEMMA JoinedLogs ==
  ASSUME NEW q \in Seq(Term), NEW r \in Seq(Term)
  PROVE  /\ q \o r \in Seq(Term) /\ Len(q \o r) = Len(q) + Len(r)
         /\ \A i \in 1 .. Len(q) : (q \o r)[i] = q[i]
         /\ \A i \in 1 .. Len(q \o r) : i > Len(q) => (q \o r)[i] = r[i - Len(q)]
<1>1. Len(q) \in Nat /\ Len(r) \in Nat /\ Len(q \o r) = Len(q) + Len(r)
  OBVIOUS
<1>2. \A i \in 1 .. Len(q) + Len(r) :
        (q \o r)[i] = IF i <= Len(q) THEN q[i] ELSE r[i - Len(q)]
  OBVIOUS
<1>3. \A i \in 1 .. Len(q) : i \in 1 .. Len(q) + Len(r) /\ i <= Len(q)
  BY <1>1
<1>4. \A i \in 1 .. Len(q) + Len(r) : i > Len(q) => ~(i <= Len(q))
  BY <1>1
<1> QED
  BY <1>1, <1>2, <1>3, <1>4

\* So does the log after the request, and it agrees with the leader's as far as the
\* request reaches.
LEMMA AppendFollows ==
  ASSUME CountingFacts, TypeInv, LogInv, NEW m \in rpcs, m.kind = "AE_req",
         m.term >= currentTerm[m.dst],
         PrevLogIsOk(m.dst, m)
  PROVE  LET r == LogAfterAppend(m.dst, m) IN
         /\ r \in Seq(Term) /\ Len(r) \in Nat
         /\ Follows(log[m.dst], r, leaderLog[m.term])
         /\ Agree(r, leaderLog[m.term], m.prevLogIndex + Len(m.entries))
<1> DEFINE s == m.dst
           q == log[s]
           L == leaderLog[m.term]
           prev == m.prevLogIndex
           r == LogAfterAppend(s, m)
           n0 == prev + Len(m.entries)
<1>1. /\ s \in Server /\ prev \in Nat /\ m.entries \in Seq(Term) /\ Len(m.entries) \in Nat
      /\ q \in Seq(Term) /\ L \in Seq(Term) /\ Len(q) \in Nat /\ Len(L) \in Nat
      /\ AppendRequestIsSound(m)
  BY RequestFacts
<1>2. CASE NewEntries(s, m) = {}
  <2>1. r = q
    BY <1>2 DEF LogAfterAppend
  <2>2. Len(m.entries) \in 0 .. Len(m.entries) /\ \A j \in 1 .. Len(m.entries) : j \notin NewEntries(s, m)
    BY <1>1, <1>2
  <2>3. Agree(q, L, n0)
    BY <2>2, SkippedAgree
  <2> QED
    BY Zenon, <1>1, <2>1, <2>3 DEF Follows
<1>3. CASE NewEntries(s, m) # {}
  <2> DEFINE k    == Min(NewEntries(s, m))
             kept == SubSeq(q, 1, prev + k - 1)
             new  == SubSeq(m.entries, k, Len(m.entries))
  <2>1. /\ k \in 1 .. Len(m.entries)
        /\ kept \in Seq(Term) /\ Len(kept) = prev + k - 1 /\ Len(kept) \in Nat
        /\ Len(kept) <= Len(q) /\ \A i \in 1 .. Len(kept) : kept[i] = q[i]
        /\ Agree(kept, L, Len(kept))
        /\ \A n \in Nat : Agree(q, L, n) => n <= Len(kept)
    BY Zenon, <1>3, KeptPart
  <2>2. r = kept \o new
    BY Zenon, <1>3 DEF LogAfterAppend
  <2> HIDE DEF k, kept, r
  <2>3. /\ new \in Seq(Term) /\ Len(new) = Len(m.entries) - k + 1
        /\ \A i \in 1 .. Len(new) : new[i] = m.entries[k + i - 1]
    BY <1>1, <2>1, CutLog
  <2> HIDE DEF new
  <2>4. /\ r \in Seq(Term) /\ Len(r) = Len(kept) + Len(new)
        /\ \A i \in 1 .. Len(kept) : r[i] = kept[i]
        /\ \A i \in 1 .. Len(r) : i > Len(kept) => r[i] = new[i - Len(kept)]
    BY ZenonT(30), <2>1, <2>2, <2>3, JoinedLogs
  <2>5. Len(r) = n0 /\ n0 \in Nat
    <3>1. k \in Int /\ prev \in Int /\ Len(m.entries) \in Int
      BY <1>1, <2>1
    <3>2. Len(kept) = prev + k - 1 /\ Len(new) = Len(m.entries) - k + 1
      BY <2>1, <2>3
    <3>3. Len(kept) + Len(new) = n0
      BY <3>1, <3>2
    <3> QED
      BY <1>1, <2>4, <3>3
  <2>6. ASSUME NEW i \in 1 .. n0 PROVE r[i] = L[i]
    <3>1. CASE i <= Len(kept)
      <4>1. i \in 1 .. Len(kept)
        BY <2>1, <2>5, <3>1
      <4> QED
        BY <2>1, <2>4, <4>1 DEF Agree
    <3>2. CASE ~(i <= Len(kept))
      <4> DEFINE j == i - Len(kept)
                 x == k + j - 1
      <4>1. /\ j \in 1 .. Len(new) /\ x \in 1 .. Len(m.entries) /\ prev + x = i
            /\ i \in 1 .. Len(r) /\ i > Len(kept)
        <5>1. k \in Int /\ prev \in Int /\ Len(m.entries) \in Int /\ i \in Int /\ i >= 1 /\ i <= n0
          BY <1>1, <2>1
        <5>2. Len(kept) = prev + k - 1 /\ Len(new) = Len(m.entries) - k + 1 /\ Len(r) = n0
          BY <2>1, <2>3, <2>5
        <5>3. k >= 1 /\ k <= Len(m.entries)
          BY <1>1, <2>1
        <5>4. i - Len(kept) >= 1 /\ i - Len(kept) <= Len(new)
          BY <3>2, <5>1, <5>2
        <5>5. x = i - prev
          <6>1. \A a, b, c, d \in Int : c = a + b - 1 => b + (d - c) - 1 = d - a
            OBVIOUS
          <6>2. Len(kept) \in Int /\ Len(kept) = prev + k - 1
            BY <5>1, <5>2
          <6> HIDE DEF kept, k
          <6> QED
            BY <5>1, <6>1, <6>2
        <5>6. x >= 1 /\ x <= Len(m.entries) /\ x \in Int
          <6> HIDE DEF x
          <6>1. i > prev + k - 1
            BY <3>2, <5>1, <5>2
          <6> QED
            BY <5>1, <5>3, <5>5, <6>1
        <5>7. Len(kept) \in Int /\ Len(new) \in Int /\ Len(r) \in Int
          BY <5>1, <5>2
        <5>8. j \in 1 .. Len(new)
          BY <5>1, <5>4, <5>7
        <5>9. x \in 1 .. Len(m.entries)
          BY <5>1, <5>6
        <5>10. prev + x = i
          BY <5>1, <5>5
        <5>11. i \in 1 .. Len(r) /\ i > Len(kept)
          BY <3>2, <5>1, <5>2, <5>7
        <5> QED
          BY <5>8, <5>9, <5>10, <5>11
      <4>2. r[i] = new[j] /\ new[j] = m.entries[x]
        BY <2>3, <2>4, <4>1
      <4>3. \A y \in 1 .. Len(m.entries) : m.entries[y] = L[prev + y]
        BY <1>1 DEF AppendRequestIsSound
      <4> HIDE DEF x, j
      <4> QED
        BY <4>1, <4>2, <4>3
    <3> QED
      BY <3>1, <3>2
  <2>7. Agree(r, L, n0)
    <3>1. n0 <= Len(L)
      BY <1>1 DEF AppendRequestIsSound
    <3> QED
      BY <2>5, <2>6, <3>1 DEF Agree
  <2>8. ASSUME NEW n \in Nat, Agree(q, L, n) PROVE Agree(q, r, n)
    <3>1. n <= Len(kept) /\ n <= Len(q)
      BY <2>1, <2>8 DEF Agree
    <3>2. Len(kept) <= Len(r) /\ Len(r) \in Nat
      BY <2>1, <2>3, <2>4
    <3>3. \A y \in 1 .. n : y \in 1 .. Len(kept)
      BY <2>1, <3>1
    <3>4. \A y \in 1 .. n : q[y] = r[y]
      BY <2>1, <2>4, <3>3
    <3> QED
      BY <2>1, <3>1, <3>2, <3>4 DEF Agree
  <2> QED
    <3>1. Agree(r, L, Len(r)) /\ Len(r) \in Nat
      BY <2>5, <2>7
    <3>2. Follows(q, r, L)
      BY <2>8, <3>1 DEF Follows
    <3> QED
      BY Zenon, <2>4, <2>7, <3>1, <3>2 DEF r
<1> QED
  BY Zenon, <1>2, <1>3

\* The receiver of an AE_req does not lead the sender's term.
LEMMA ReceiverDoesNotLead ==
  ASSUME TypeInv, ElectionSafety, LogInv, NEW m \in rpcs, m.kind = "AE_req",
         m.term = currentTerm[m.dst]
  PROVE  role[m.dst] # "Leader"
<1> SUFFICES ASSUME role[m.dst] = "Leader" PROVE FALSE
  OBVIOUS
<1>1. m.dst \in Server /\ AppendRequestIsSound(m)
  BY RequestFacts
<1>2. <<m.term, m.dst>> \in elected /\ <<m.term, m.src>> \in elected /\ m.src # m.dst
  BY <1>1 DEF LogInv, LeadersAreElected, AppendRequestIsSound
<1>3. <<m.term, m.dst>>[1] = <<m.term, m.src>>[1]
  OBVIOUS
<1>4. <<m.term, m.dst>>[2] = <<m.term, m.src>>[2]
  BY <1>2, <1>3 DEF ElectionSafety
<1> QED
  BY <1>2, <1>4
=============================================================================
