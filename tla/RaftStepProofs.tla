-------------------------- MODULE RaftStepProofs ---------------------------
(*****************************************************************************)
(* The steps of RaftCore that leave every log as it is preserve LogInv, and  *)
(* what every action does to ClientInv and CallInv.                          *)
(*                                                                           *)
(* Most steps are tame: they leave every log and every vote as it is. An     *)
(* election timeout and a granted vote are calm: they leave the logs. The    *)
(* steps that change a log or commit are in RaftSafetyProofs.                *)
(*****************************************************************************)
EXTENDS RaftLemmas

\* A leaf that names no prover is tried with SMT, with Zenon, and again with SMT and ever more time.
USE SMT, Zenon, SMTT(10), SMTT(20), SMTT(30), SMTT(40), SMTT(60)

-----------------------------------------------------------------------------
(* Tame steps.                                                             *)

\* The same of the next state.
LEMMA IndexTypesNext ==
  ASSUME TypeInv'
  PROVE  \A s \in Server : /\ commitIndex'[s] \in Nat /\ firstIndex'[s] \in Nat /\ firstIndex'[s] >= 1
                           /\ commitIndex'[s] <= Len(log'[s])
<1>1. \A s \in Server : commitIndex'[s] \in Index /\ firstIndex'[s] \in 1 .. MaxLogLen + 1
  BY DEF TypeInv, TypeOK
<1>2. \A n : (n \in Index => n \in Nat) /\ (n \in 1 .. MaxLogLen + 1 => n \in Nat /\ n >= 1)
  BY BoundAssumption DEF Index
<1>3. \A s \in Server : commitIndex'[s] <= Len(log'[s])
  BY DEF TypeInv, IndexesWithinLog
<1> QED
  BY <1>1, <1>2, <1>3, Zenon

\* What precedes a committed entry is committed.
LEMMA SafeBelow ==
  ASSUME TypeInv, HistoryOK, NEW s \in Server, NEW n \in Nat, NEW k \in Nat, Safe(s, n), k <= n
  PROVE  Safe(s, k)
<1>1. CASE n = 0
  BY <1>1 DEF Safe
<1>2. CASE n # 0
  <2>1. PICK c \in committed :
          n <= c[1] /\ c[2] <= currentTerm[s] /\ Agree(log[s], leaderLog[c[2]], n)
    BY <1>2 DEF Safe
  <2>2. c[1] \in Nat /\ c[2] \in Term
    BY CommittedTypes
  <2>3. log[s] \in Seq(Term) /\ leaderLog[c[2]] \in Seq(Term) /\ n \in Int /\ k \in Int
    BY <2>2, LogTypes
  <2>4. Agree(log[s], leaderLog[c[2]], k) /\ k <= c[1]
    BY <2>1, <2>2, <2>3, AgreeBelow
  <2> QED
    BY <2>1, <2>4 DEF Safe
<1> QED
  BY <1>1, <1>2

\* Indexes that do not move, fall back to 0 or follow the commit index stay safe.
LEMMA IndexesStaySafe ==
  ASSUME TypeInv, TypeInv', LogInv, HistoryOK', Evolves,
         \A s \in Server : commitIndex'[s] \in {0, commitIndex[s]},
         \A s \in Server : firstIndex'[s] = firstIndex[s] \/ firstIndex'[s] <= commitIndex[s]
  PROVE  LogsAreSafe'
<1>1. HistoryOK /\ LogsAreTraced /\ CommittedIsKept /\ LogsAreSafe
  BY DEF LogInv
<1> SUFFICES ASSUME NEW s \in Server, NEW n, n = commitIndex'[s], NEW k, k = firstIndex'[s]
             PROVE  Safe(s, n)' /\ (k # 1 => Safe(s, k)')
  BY DEF LogsAreSafe, Safe
<1>2. n \in Nat /\ k \in Nat /\ commitIndex[s] \in Nat /\ firstIndex[s] \in Nat
  BY IndexTypes, IndexTypesNext
<1>3. Safe(s, n) /\ (k # 1 => Safe(s, k))
  <2>1. Safe(s, commitIndex[s]) /\ Safe(s, 0) /\ (firstIndex[s] # 1 => Safe(s, firstIndex[s]))
    BY <1>1 DEF LogsAreSafe, Safe
  <2>2. k <= commitIndex[s] => Safe(s, k)
    BY <1>1, <1>2, <2>1, SafeBelow
  <2> QED
    BY <2>1, <2>2
<1> QED
  BY <1>1, <1>2, <1>3, SafeStays

\* A step that leaves logs alone evolves them.
LEMMA SameLogsEvolve ==
  ASSUME TypeInv, HistoryOK, UNCHANGED <<log, leaderLog, electors>>
  PROVE  LeaderLogsEvolve /\ LogsEvolve
<1>1. \A s \in Server : log[s] \in Seq(Term) /\ Len(log[s]) \in Nat
  BY LogTypes
<1>2. \A u \in Term : leaderLog[u] \in Seq(Term) /\ Len(leaderLog[u]) \in Nat
  BY LogTypes
<1>3. LogsEvolve
  <2>1. \A s \in Server : Agree(log[s], log[s], Len(log[s]))
    BY <1>1, AgreeReflexive
  <2> QED
    BY <2>1 DEF LogsEvolve
<1>4. LogsGrow(leaderLog, leaderLog)
  <2>1. \A u \in Term : Agree(leaderLog[u], leaderLog[u], Len(leaderLog[u]))
    BY <1>2, AgreeReflexive
  <2> QED
    BY <1>2, <2>1 DEF LogsGrow, Grown
<1> QED
  BY <1>3, <1>4 DEF LeaderLogsEvolve

\* A calm step preserves LogInv.
LEMMA CalmStepKeepsLogInv ==
  ASSUME CountingFacts, TypeInv, TypeInv', LogInv, CalmStep
  PROVE  LogInv'
<1>1. /\ UNCHANGED <<log, leaderLog, electors, elected, committed>>
      /\ votes \subseteq votes' /\ \A v \in votes' : v \in votes \/ v[2] <= currentTerm'[v[3]]
      /\ CandidatesEvolve
      /\ \A s \in Server : currentTerm[s] <= currentTerm'[s]
      /\ \A s \in Server : role'[s] = "Leader" => role[s] = "Leader" /\ currentTerm'[s] = currentTerm[s]
  BY DEF CalmStep
<1>2. /\ HistoryOK /\ LogsAreTraced /\ LeadersAreElected /\ ElectorsVoted
      /\ \A s \in Server : currentTerm[s] \in Nat /\ currentTerm'[s] \in Nat
  <2>1. HistoryOK'
    BY <1>1 DEF LogInv, HistoryOK
  <2> QED
    BY <2>1, LogTypes, LogTypesNext DEF LogInv
<1>3. HistoryOK'
  BY <1>1, <1>2 DEF HistoryOK
<1>4. LogsAreTraced'
  <2>1. \A s \in Server : Bounded(log[s], currentTerm'[s])
    <3> SUFFICES ASSUME NEW s \in Server, NEW i \in 1 .. Len(log[s]) PROVE log[s][i] <= currentTerm'[s]
      BY DEF Bounded
    <3>1. log[s][i] <= currentTerm[s]
      BY <1>2 DEF LogsAreTraced, Bounded
    <3>2. log[s][i] \in Nat
      <4>1. log[s] \in Seq(Term)
        BY <1>2, LogTypes
      <4>2. log[s][i] \in Term
        BY <4>1
      <4> QED
        BY <4>2, TermsAreNatural, Zenon
    <3> QED
      BY <1>1, <1>2, <3>1, <3>2
  <2> QED
    BY <1>1, <1>2, <2>1 DEF LogsAreTraced
<1>5. LeadersAreElected'
  <2>1. \A s \in Server : role'[s] = "Candidate" =>
          \/ role[s] = "Candidate" /\ currentTerm'[s] = currentTerm[s]
          \/ currentTerm[s] < currentTerm'[s]
    BY <1>1 DEF CandidatesEvolve
  <2>2. \A s \in Server : role'[s] # "Follower" => currentTerm'[s] >= 1
    <3>1. \A s \in Server : role'[s] \in Role
      BY DEF TypeInv, TypeOK
    <3>2. \A s \in Server : role[s] # "Follower" => currentTerm[s] >= 1
      BY <1>2 DEF LeadersAreElected
    <3>3. \A s \in Server : currentTerm[s] < currentTerm'[s] => currentTerm'[s] >= 1
      BY <1>2
    <3> QED
      BY <1>1, <2>1, <3>1, <3>2, <3>3 DEF Role
  <2>3. \A s \in Server : role'[s] = "Leader" =>
          <<currentTerm'[s], s>> \in elected /\ log[s] = leaderLog[currentTerm'[s]]
    BY <1>1, <1>2 DEF LeadersAreElected
  <2>4. ASSUME NEW e \in elected
        PROVE  /\ leaderLog[e[1]] # <<>>
               /\ e[1] <= currentTerm'[e[2]]
               /\ e[1] = currentTerm'[e[2]] => role'[e[2]] # "Candidate"
    <3>1. e[1] \in Nat /\ e[2] \in Server
      <4>1. e \in Term \X Server
        BY DEF TypeInv, TypeOK
      <4> QED
        BY Zenon, <4>1, TermsAreNatural
    <3>2. /\ leaderLog[e[1]] # <<>> /\ e[1] <= currentTerm[e[2]]
          /\ e[1] = currentTerm[e[2]] => role[e[2]] # "Candidate"
      BY <1>2 DEF LeadersAreElected
    <3> QED
      BY <1>1, <1>2, <2>1, <3>1, <3>2
  <2> QED
    BY <1>1, <1>2, <2>2, <2>3, <2>4 DEF LeadersAreElected
<1>6. ElectorsVoted'
  <2>1. \A u \in Term : \A q \in electors[u] : q \in Server /\ u \in Nat
    BY <1>2, TermsAreNatural DEF HistoryOK
  <2>2. \A v \in votes : v[2] \in Nat /\ v[3] \in Server
    <3>1. \A v \in votes : v \in Server \X Term \X Server
      BY DEF TypeInv, TypeOK
    <3> QED
      BY Zenon, <3>1, TermsAreNatural
  <2>3. \A u \in Term : \A q \in electors[u] : u <= currentTerm'[q]
    BY <1>1, <1>2, <2>1 DEF ElectorsVoted
  <2>4. \A v \in votes : v[2] <= currentTerm'[v[3]]
    BY <1>1, <1>2, <2>2 DEF ElectorsVoted
  <2> QED
    BY <1>1, <1>2, <2>3, <2>4 DEF ElectorsVoted
<1>7. Evolves
  <2>1. LeaderLogsEvolve /\ LogsEvolve
    BY <1>1, <1>2, SameLogsEvolve
  <2> QED
    BY <1>1, <2>1 DEF Evolves
<1>8. LogsAreSafe'
  BY <1>3, <1>7, IndexesStaySafe DEF CalmStep
<1>9. \A s, p \in Server : role'[s] = "Leader" =>
        Acknowledged(p, currentTerm'[s], peers'[s][p].matchIndex)
  BY <1>1 DEF CalmStep
<1> QED
  BY <1>1, <1>3, <1>4, <1>5, <1>6, <1>7, <1>8, <1>9, EvolvingStep DEF CalmStep

\* So does a tame step.
LEMMA TameStepKeepsLogInv ==
  ASSUME CountingFacts, TypeInv, TypeInv', LogInv, TameStep
  PROVE  LogInv'
<1>1. /\ log' = log /\ votes' = votes
      /\ \A s \in Server : role'[s] # "Follower" => role'[s] = role[s] /\ currentTerm'[s] = currentTerm[s]
  BY DEF TameStep
<1>2. CandidatesEvolve
  BY <1>1 DEF CandidatesEvolve
<1>3. CalmStep
  BY <1>2 DEF TameStep, CalmStep
<1> QED
  BY <1>3, CalmStepKeepsLogInv

-----------------------------------------------------------------------------
(* The tame actions.                                                       *)

\* A request is as sound when nobody waits for it any more.
LEMMA ClosedIsSound ==
  ASSUME NEW m \in Message, IsRequest(m), RpcIsSound(m)
  PROVE  RpcIsSound([m EXCEPT !.open = FALSE])
<1> DEFINE r == [m EXCEPT !.open = FALSE]
<1>1. CASE m.kind = "RV_req"
  <2>1. /\ r.kind = "RV_req" /\ r.src = m.src /\ r.term = m.term
        /\ r.lastLogIndex = m.lastLogIndex /\ r.lastLogTerm = m.lastLogTerm
    BY <1>1 DEF Message
  <2>2. VoteRequestIsSound(m)
    BY <1>1 DEF RpcIsSound
  <2> HIDE DEF r
  <2>3. VoteRequestIsSound(r)
    BY <2>1, <2>2, Zenon DEF VoteRequestIsSound
  <2> QED
    BY <2>1, <2>3 DEF RpcIsSound, r
<1>2. CASE m.kind = "AE_req"
  <2>1. /\ r.kind = "AE_req" /\ r.src = m.src /\ r.dst = m.dst /\ r.term = m.term
        /\ r.prevLogIndex = m.prevLogIndex /\ r.prevLogTerm = m.prevLogTerm
        /\ r.entries = m.entries /\ r.commitIndex = m.commitIndex
    BY <1>2 DEF Message
  <2>2. AppendRequestIsSound(m)
    BY <1>2 DEF RpcIsSound
  <2> HIDE DEF r
  <2>3. AppendRequestIsSound(r)
    BY <2>1, <2>2 DEF AppendRequestIsSound
  <2> QED
    BY <2>1, <2>3 DEF RpcIsSound, r
<1> QED
  BY <1>1, <1>2 DEF IsRequest

\* What a crash leaves of the RPCs is as sound as they were.
LEMMA OrphanedAreSound ==
  ASSUME TypeInv, RpcsAreSound, NEW s, NEW R, R \subseteq rpcs, NEW m \in Orphaned(s, R)
  PROVE  RpcIsSound(m)
<1>1. PICK r \in R : m = IF r.src = s /\ IsRequest(r) THEN [r EXCEPT !.open = FALSE] ELSE r
  BY DEF Orphaned
<1>2. r \in Message /\ RpcIsSound(r)
  BY DEF TypeInv, TypeOK, RpcsAreSound
<1>3. CASE r.src = s /\ IsRequest(r)
  BY <1>1, <1>2, <1>3, ClosedIsSound
<1> QED
  BY <1>1, <1>2, <1>3

\* A timid step is tame if it leaves logs alone and nobody gains a match index or sends
\* anything that is not sound.
LEMMA TimidIsTame ==
  ASSUME TypeInv, TypeInv', TimidStep, UNCHANGED <<log, leaderLog, electors, committed>>,
         \A s \in Server : commitIndex'[s] \in {0, commitIndex[s]},
         \A s \in Server : firstIndex'[s] = firstIndex[s] \/ firstIndex'[s] <= commitIndex[s],
         \A s \in Server : role'[s] = "Leader" =>
           /\ role[s] = "Leader" /\ currentTerm'[s] = currentTerm[s]
           /\ \A p \in Server : Acknowledged(p, currentTerm[s], peers'[s][p].matchIndex),
         \A m \in rpcs' : RpcIsSound(m)
  PROVE  TameStep
<1>1. \A s \in Server : role'[s] \in Role /\ currentTerm[s] \in Int /\ currentTerm'[s] \in Int
  BY BoundAssumption DEF TypeInv, TypeOK, Term
<1>2. votes' = votes /\ elected' = elected
  BY DEF TimidStep
<1>3. \A s \in Server : currentTerm[s] <= currentTerm'[s]
  BY <1>1 DEF TimidStep
<1>4. \A s \in Server : role'[s] # "Follower" => role'[s] = role[s] /\ currentTerm'[s] = currentTerm[s]
  BY <1>1 DEF TimidStep, Role
<1> QED
  BY <1>2, <1>3, <1>4 DEF TameStep

\* A restart that leaves the log alone is tame.
LEMMA RestartIsTame ==
  ASSUME TypeInv, TypeInv', LogInv, TimidStep, UNCHANGED <<log, firstIndex, leaderLog, electors, committed>>,
         NEW s \in Server, LoseVolatile(s), \A p \in Server : p # s => currentTerm'[p] = currentTerm[p],
         NEW R, R \subseteq rpcs, rpcs' = Orphaned(s, R)
  PROVE  TameStep
<1>1. /\ role' = [role EXCEPT ![s] = "Follower"]
      /\ commitIndex' = [commitIndex EXCEPT ![s] = 0]
      /\ peers' = [peers EXCEPT ![s] = [p \in Server |-> NewPeer]]
  BY DEF LoseVolatile
<1>2. \A p \in Server : commitIndex'[p] \in {0, commitIndex[p]}
  BY <1>1 DEF TypeInv, TypeOK
<1>3. \A p \in Server : role'[p] = "Leader" => p # s /\ role[p] = "Leader" /\ peers'[p] = peers[p]
  BY <1>1 DEF TypeInv, TypeOK
<1>4. \A m \in rpcs' : RpcIsSound(m)
  BY OrphanedAreSound DEF LogInv
<1>5. \A p \in Server : role'[p] = "Leader" =>
        /\ role[p] = "Leader" /\ currentTerm'[p] = currentTerm[p]
        /\ \A q \in Server : Acknowledged(q, currentTerm[p], peers'[p][q].matchIndex)
  BY <1>3 DEF LogInv, MatchesAreSound
<1> QED
  BY <1>2, <1>4, <1>5, TimidIsTame

\* So is an abort in an assertion.
LEMMA AbortIsTame ==
  ASSUME TypeInv, TypeInv', LogInv, NEW s \in Server, NEW a, NEW R, R \subseteq rpcs, Abort(s, a, R)
  PROVE  TameStep
<1>1. TimidStep
  BY AbortIsTimid
<1>2. /\ LoseVolatile(s) /\ rpcs' = Orphaned(s, R)
      /\ UNCHANGED <<currentTerm, log, firstIndex, leaderLog, electors, committed>>
  BY DEF Abort, persistent
<1> QED
  BY <1>1, <1>2, RestartIsTame

\* And a crash between two calls of the loop or between two writes of the metadata.
LEMMA CrashIsTame ==
  ASSUME TypeInv, TypeInv', LogInv, NEW s \in Server, Crash(s) \/ CrashBetweenTermAndVote(s)
  PROVE  TameStep
<1>1. TimidStep
  BY OtherServerStepsAreTimid
<1>2. /\ LoseVolatile(s) /\ rpcs' = Orphaned(s, rpcs)
      /\ UNCHANGED <<log, firstIndex, leaderLog, electors, committed>>
  BY DEF Crash, CrashBetweenTermAndVote, persistent, history
<1>3. \A p \in Server : p # s => currentTerm'[p] = currentTerm[p]
  <2>1. currentTerm' = currentTerm \/ \E t \in Term : currentTerm' = [currentTerm EXCEPT ![s] = t]
    BY DEF Crash, CrashBetweenTermAndVote, persistent, NewTerms
  <2> QED
    BY <2>1 DEF TypeInv, TypeOK
<1> QED
  BY <1>1, <1>2, <1>3, RestartIsTame

\* receiveMessage's switch changes no match index.
LEMMA SwitchedOnMatch ==
  ASSUME TypeInv, NEW m \in rpcs, NEW s \in Server, NEW p \in Server
  PROVE  SwitchedOn(m)[s][p].matchIndex = peers[s][p].matchIndex
<1>1. m.src \in Server /\ m.dst \in Server
  BY MessageFields DEF TypeInv, TypeOK
<1>2. peers[m.src][m.dst] \in Peer
  BY <1>1 DEF TypeInv, TypeOK
<1>3. [peers[m.src][m.dst] EXCEPT !.switchOn = TRUE].matchIndex = peers[m.src][m.dst].matchIndex
  BY <1>2 DEF Peer
<1> QED
  BY <1>1, <1>3 DEF TypeInv, TypeOK, SwitchedOn

\* A step that touches neither logs, terms, roles nor votes is tame if what is new is
\* sound.
LEMMA QuietIsTame ==
  ASSUME TypeInv,
         UNCHANGED <<log, firstIndex, commitIndex, role, currentTerm, leaderLog, electors,
                     votes, elected, committed>>,
         \A s, p \in Server : role[s] = "Leader" =>
           Acknowledged(p, currentTerm[s], peers'[s][p].matchIndex),
         \A m \in rpcs' : RpcIsSound(m)
  PROVE  TameStep
<1>1. \A s \in Server : currentTerm[s] \in Int
  BY BoundAssumption DEF TypeInv, TypeOK, Term
<1>2. \A s \in Server : currentTerm[s] <= currentTerm[s]
  BY <1>1
<1> QED
  BY <1>2 DEF TameStep

\* stepDown is tame.
LEMMA StepDownIsTame ==
  ASSUME TypeInv, TypeInv', LogInv, TimidStep, NEW s \in Server, NEW t \in Term, StepDown(s, t),
         UNCHANGED <<log, firstIndex, commitIndex, leaderLog, electors, committed>>,
         rpcs' \subseteq rpcs,
         \A q, p \in Server : peers'[q][p].matchIndex = peers[q][p].matchIndex
  PROVE  TameStep
<1>1. role' = [role EXCEPT ![s] = "Follower"] /\ currentTerm' = [currentTerm EXCEPT ![s] = t]
  BY DEF StepDown
<1>2. \A p \in Server : role'[p] = "Leader" => role[p] = "Leader" /\ currentTerm'[p] = currentTerm[p]
  BY <1>1 DEF TypeInv, TypeOK
<1>3. \A q, p \in Server : role[q] = "Leader" =>
        Acknowledged(p, currentTerm[q], peers'[q][p].matchIndex)
  BY DEF LogInv, MatchesAreSound
<1>4. \A m \in rpcs' : RpcIsSound(m)
  BY DEF LogInv, RpcsAreSound
<1> QED
  BY <1>2, <1>3, <1>4, TimidIsTame

\* Ignoring a response and stepping down on one are tame.
LEMMA ResponsesAreTame ==
  ASSUME TypeInv, TypeInv', LogInv, NEW m \in rpcs,
         \/ IgnoreRequestVoteResponse(m)
         \/ StepDownOnRequestVoteResponse(m)
         \/ IgnoreAppendEntriesResponse(m)
         \/ StepDownOnAppendEntriesResponse(m)
  PROVE  TameStep
<1>1. /\ peers' = SwitchedOn(m) /\ rpcs' = rpcs \ {m}
      /\ UNCHANGED <<log, firstIndex, commitIndex, leaderLog, electors, votes, elected, committed>>
  BY ZenonT(30) DEF IgnoreRequestVoteResponse, StepDownOnRequestVoteResponse, IgnoreAppendEntriesResponse,
         StepDownOnAppendEntriesResponse, history, persistent
<1>2. \A q, p \in Server : peers'[q][p].matchIndex = peers[q][p].matchIndex
  BY ZenonT(30), <1>1, SwitchedOnMatch
<1>3. m.src \in Server /\ m.term \in Term
  BY ZenonT(30), MessageFields DEF TypeInv, TypeOK
<1>4. CASE IgnoreRequestVoteResponse(m) \/ IgnoreAppendEntriesResponse(m)
  <2>1. UNCHANGED <<currentTerm, role>>
    BY Zenon, <1>4 DEF IgnoreRequestVoteResponse, IgnoreAppendEntriesResponse, persistent
  <2>2. \A q, p \in Server : role[q] = "Leader" =>
          Acknowledged(p, currentTerm[q], peers'[q][p].matchIndex)
    BY <1>2 DEF LogInv, MatchesAreSound
  <2>3. \A x \in rpcs' : RpcIsSound(x)
    BY <1>1 DEF LogInv, RpcsAreSound
  <2> QED
    BY ZenonT(30), <1>1, <2>1, <2>2, <2>3, QuietIsTame
<1>5. CASE StepDownOnRequestVoteResponse(m) \/ StepDownOnAppendEntriesResponse(m)
  <2>1. StepDown(m.src, m.term)
    BY Zenon, <1>5 DEF StepDownOnRequestVoteResponse, StepDownOnAppendEntriesResponse
  <2>2. TimidStep
    BY ResponsesAreTimid
  <2>3. rpcs' \subseteq rpcs
    BY <1>1
  <2> QED
    BY ZenonT(30), <1>1, <1>2, <1>3, <2>1, <2>2, <2>3, StepDownIsTame
<1> QED
  BY <1>4, <1>5

\* Losing the leadership, an administrator's truncation, a stale AE_req and a lost
\* request are tame.
LEMMA OtherStepsAreTame ==
  ASSUME TypeInv, TypeInv', LogInv,
         \/ \E s \in Server : LeadershipTimeout(s)
         \/ \E s \in Server : \E i \in Index : TruncatePrefix(s, i)
         \/ \E m \in rpcs : LoseRequest(m)
         \/ \E m \in rpcs : RejectStaleAppendEntriesRequest(m)
         \/ UNCHANGED vars
  PROVE  TameStep
<1>1. \A q, p \in Server : role[q] = "Leader" =>
        Acknowledged(p, currentTerm[q], peers[q][p].matchIndex)
  BY DEF LogInv, MatchesAreSound
<1>2. \A x \in rpcs : RpcIsSound(x)
  BY DEF LogInv, RpcsAreSound
<1>3. ASSUME NEW s \in Server, LeadershipTimeout(s) PROVE TameStep
  <2>1. /\ StepDown(s, currentTerm[s] + 1) /\ currentTerm[s] + 1 \in Term
        /\ UNCHANGED <<log, firstIndex, commitIndex, peers, rpcs, leaderLog, electors, committed>>
    BY <1>3, BoundAssumption DEF LeadershipTimeout, history, TypeInv, TypeOK, Term
  <2>2. TimidStep
    BY <1>3, OtherServerStepsAreTimid
  <2> QED
    BY <2>1, <2>2, StepDownIsTame
<1>4. ASSUME NEW s \in Server, NEW i \in Index, TruncatePrefix(s, i) PROVE TameStep
  <2>1. /\ i <= commitIndex[s] /\ firstIndex' = [firstIndex EXCEPT ![s] = i]
        /\ UNCHANGED <<currentTerm, role, peers, rpcs, commitIndex, log, leaderLog, electors, committed>>
    BY <1>4 DEF TruncatePrefix, volatile, history
  <2>2. \A p \in Server : firstIndex'[p] = firstIndex[p] \/ firstIndex'[p] <= commitIndex[p]
    BY <2>1 DEF TypeInv, TypeOK
  <2>3. TimidStep
    BY <1>4, OtherServerStepsAreTimid
  <2> QED
    BY Zenon, <1>1, <1>2, <2>1, <2>2, <2>3, TimidIsTame
<1>5. ASSUME NEW m \in rpcs, LoseRequest(m) PROVE TameStep
  <2>1. /\ rpcs' \subseteq rpcs
        /\ UNCHANGED <<log, firstIndex, commitIndex, role, currentTerm, leaderLog, electors, votes,
                       elected, committed, peers>>
    BY <1>5 DEF LoseRequest, persistent, volatile, history
  <2> QED
    BY <1>1, <1>2, <2>1, QuietIsTame
<1>6. ASSUME NEW m \in rpcs, RejectStaleAppendEntriesRequest(m) PROVE TameStep
  <2> DEFINE r == AppendEntriesResponse(m, currentTerm[m.dst], FALSE, LastLogIndex(m.dst), 0)
  <2>1. /\ rpcs' \subseteq rpcs \union {r}
        /\ UNCHANGED <<log, firstIndex, commitIndex, role, currentTerm, leaderLog, electors, votes,
                       elected, committed, peers>>
    BY ZenonT(30), <1>6 DEF RejectStaleAppendEntriesRequest, Reply, persistent, volatile, history
  <2>2. /\ r.kind = "AE_resp" /\ r.success = FALSE /\ r.savedTerm = m.term /\ r.src = m.src
    BY ZenonT(30) DEF AppendEntriesResponse
  <2>3. <<m.term, m.src>> \in elected
    BY ZenonT(30), <1>2, <1>6 DEF RejectStaleAppendEntriesRequest, Arrived, RpcIsSound, AppendRequestIsSound
  <2> HIDE DEF r
  <2>4. RpcIsSound(r)
    BY <2>2, <2>3 DEF RpcIsSound, AppendResponseIsSound
  <2> QED
    BY ZenonT(30), <1>1, <1>2, <2>1, <2>4, QuietIsTame
<1>7. CASE UNCHANGED vars
  BY Zenon, <1>1, <1>2, <1>7, QuietIsTame DEF vars, persistent, volatile, history
<1> QED
  BY <1>3, <1>4, <1>5, <1>6, <1>7

\* Changing one peer changes no other match index.
LEMMA PeerUpdateMatch ==
  ASSUME NEW P \in [Server -> [Server -> Peer]], NEW s \in Server, NEW p \in Server,
         NEW v, NEW q \in Server, NEW x \in Server
  PROVE  [P EXCEPT ![s] = [P[s] EXCEPT ![p] = v]][q][x].matchIndex =
           IF q = s /\ x = p THEN v.matchIndex ELSE P[q][x].matchIndex
OBVIOUS

\* Counting votes, counting matches, backing off and failed calls are tame: a match
\* index is what the peer acknowledged.
LEMMA PeerStepsAreTame ==
  ASSUME TypeInv, LogInv, NEW m \in rpcs,
         \/ CountRequestVoteResponse(m) \/ AcceptAppendEntriesResponse(m)
         \/ BackOffOnAppendEntriesResponse(m) \/ FailRpc(m)
  PROVE  TameStep
<1> DEFINE P == SwitchedOn(m)
           peer == P[m.src][m.dst]
<1>1. m \in Message /\ m.src \in Server /\ m.dst \in Server /\ P \in [Server -> [Server -> Peer]]
  BY MessageFields, SwitchedOnType DEF TypeInv, TypeOK
<1>2. UNCHANGED <<log, firstIndex, commitIndex, role, currentTerm, leaderLog, electors, votes,
                  elected, committed>>
  BY Zenon DEF CountRequestVoteResponse, AcceptAppendEntriesResponse, BackOffOnAppendEntriesResponse,
         FailRpc, persistent, history
<1>3. \A x \in rpcs' : RpcIsSound(x)
  <2>1. \A x \in rpcs : RpcIsSound(x)
    BY DEF LogInv, RpcsAreSound
  <2>2. IsRequest(m) => RpcIsSound([m EXCEPT !.open = FALSE])
    BY <1>1, <2>1, ClosedIsSound
  <2>3. rpcs' \subseteq rpcs \/ (IsRequest(m) /\ rpcs' \subseteq rpcs \union {[m EXCEPT !.open = FALSE]})
    BY Zenon DEF CountRequestVoteResponse, AcceptAppendEntriesResponse, BackOffOnAppendEntriesResponse,
           FailRpc
  <2> QED
    BY Zenon, <2>1, <2>2, <2>3
<1>4. PICK v : /\ peers' = [P EXCEPT ![m.src] = [P[m.src] EXCEPT ![m.dst] = v]]
               /\ \/ v.matchIndex = peer.matchIndex
                  \/ /\ m.kind = "AE_resp" /\ m.success /\ m.savedTerm = currentTerm[m.src]
                     /\ v.matchIndex = m.matchIndex
  <2>1. peer \in Peer
    BY Zenon, <1>1
  <2>2. CASE AcceptAppendEntriesResponse(m)
    <3> DEFINE v == [[[peer EXCEPT !.matchIndex = m.matchIndex]
                            EXCEPT !.nextIndex = m.matchIndex + 1]
                            EXCEPT !.suppressBulkData = FALSE]
    <3>1. peers' = [P EXCEPT ![m.src][m.dst].matchIndex = m.matchIndex,
                             ![m.src][m.dst].nextIndex = m.matchIndex + 1,
                             ![m.src][m.dst].suppressBulkData = FALSE]
      BY Zenon, <2>2 DEF AcceptAppendEntriesResponse
    <3> HIDE DEF P
    <3>2. peers' = [P EXCEPT ![m.src] = [P[m.src] EXCEPT ![m.dst] = v]]
      BY ZenonT(30), <1>1, <3>1
    <3>3. v.matchIndex = m.matchIndex
      <4> HIDE DEF peer
      <4> QED
        BY <2>1 DEF Peer
    <3>4. m.kind = "AE_resp" /\ m.success /\ m.savedTerm = currentTerm[m.src]
      BY Zenon, <2>2 DEF AcceptAppendEntriesResponse, Answers, Arrived
    <3> QED
      BY ZenonT(30), <3>2, <3>3, <3>4
  <2>3. CASE BackOffOnAppendEntriesResponse(m)
    <3> DEFINE n == NextProbe(peers[m.src][m.dst], m.lastLogIndex)
               v == [peer EXCEPT !.nextIndex = n]
    <3>1. peers' = [P EXCEPT ![m.src] = [P[m.src] EXCEPT ![m.dst] = v]]
      BY <2>3 DEF BackOffOnAppendEntriesResponse
    <3>2. v.matchIndex = peer.matchIndex
      <4> HIDE DEF peer, n
      <4> QED
        BY <2>1 DEF Peer
    <3> QED
      BY Zenon, <3>1, <3>2
  <2>4. CASE FailRpc(m)
    <3> DEFINE b == peer.suppressBulkData \/ m.kind \in {"AE_req", "AE_resp"}
               v == [peer EXCEPT !.suppressBulkData = b]
    <3>1. peers' = [P EXCEPT ![m.src] = [P[m.src] EXCEPT ![m.dst] = v]]
      BY <2>4 DEF FailRpc
    <3>2. v.matchIndex = peer.matchIndex
      <4> HIDE DEF peer, b
      <4> QED
        BY <2>1 DEF Peer
    <3> QED
      BY Zenon, <3>1, <3>2
  <2>5. CASE CountRequestVoteResponse(m)
    <3> DEFINE b == peer.haveVote \/ m.voteGranted
               v == [[peer EXCEPT !.requestVoteDone = TRUE] EXCEPT !.haveVote = b]
    <3>1. peers' = [P EXCEPT ![m.src][m.dst].requestVoteDone = TRUE,
                             ![m.src][m.dst].haveVote = @ \/ m.voteGranted]
      BY <2>5 DEF CountRequestVoteResponse
    <3>2. [peer EXCEPT !.requestVoteDone = TRUE].haveVote = peer.haveVote
      <4> HIDE DEF peer
      <4> QED
        BY <2>1 DEF Peer
    <3>3. peers' = [P EXCEPT ![m.src] = [P[m.src] EXCEPT ![m.dst] = v]]
      <4> HIDE DEF P
      <4> QED
        BY Zenon, <1>1, <3>1, <3>2
    <3>4. v.matchIndex = peer.matchIndex
      <4> HIDE DEF peer, b
      <4> QED
        BY <2>1 DEF Peer
    <3> QED
      BY Zenon, <3>3, <3>4
  <2> QED
    BY Zenon, <2>2, <2>3, <2>4, <2>5
<1> HIDE DEF P
<1>5. \A q, x \in Server : P[q][x].matchIndex = peers[q][x].matchIndex
  BY ZenonT(30), SwitchedOnMatch DEF P
<1>6. \A q, x \in Server : role[q] = "Leader" =>
        Acknowledged(x, currentTerm[q], peers'[q][x].matchIndex)
  <2> SUFFICES ASSUME NEW q \in Server, NEW x \in Server, role[q] = "Leader"
               PROVE  Acknowledged(x, currentTerm[q], peers'[q][x].matchIndex)
    OBVIOUS
  <2>1. peers'[q][x].matchIndex = IF q = m.src /\ x = m.dst THEN v.matchIndex ELSE P[q][x].matchIndex
    BY <1>1, <1>4, PeerUpdateMatch
  <2>2. CASE peers'[q][x].matchIndex = peers[q][x].matchIndex
    BY <2>2 DEF LogInv, MatchesAreSound
  <2>3. CASE peers'[q][x].matchIndex # peers[q][x].matchIndex
    <3>1. /\ q = m.src /\ x = m.dst /\ m.kind = "AE_resp" /\ m.success
          /\ m.savedTerm = currentTerm[m.src] /\ peers'[q][x].matchIndex = m.matchIndex
      BY <1>4, <1>5, <2>1, <2>3
    <3>2. Acknowledged(m.dst, m.savedTerm, m.matchIndex)
      BY Zenon, <3>1 DEF LogInv, RpcsAreSound, RpcIsSound, AppendResponseIsSound
    <3> QED
      BY <3>1, <3>2
  <2> QED
    BY <2>2, <2>3
<1> QED
  BY ZenonT(30), <1>2, <1>3, <1>6, QuietIsTame

\* An assertion of handleAppendEntriesResponse that fails is tame.
LEMMA AbortOnAppendEntriesResponseIsTame ==
  ASSUME TypeInv, TypeInv', LogInv, NEW m \in rpcs, AbortOnAppendEntriesResponse(m)
  PROVE  TameStep
<1>1. m.src \in Server /\ rpcs \ {m} \subseteq rpcs
  BY MessageFields DEF TypeInv, TypeOK
<1>2. PICK a \in AppendEntriesResponseAssert(m) : Abort(m.src, a, rpcs \ {m})
  BY DEF AbortOnAppendEntriesResponse
<1> QED
  BY <1>1, <1>2, AbortIsTame

-----------------------------------------------------------------------------
(* Sending is tame: what is sent is sound.                                 *)

\* A discarded prefix is committed and thus within the log.
LEMMA FirstIndexWithinLog ==
  ASSUME TypeInv, LogInv, NEW s \in Server
  PROVE  firstIndex[s] = 1 \/ firstIndex[s] <= Len(log[s])
<1>1. firstIndex[s] \in Nat /\ firstIndex[s] >= 1
  BY IndexTypes
<1>2. firstIndex[s] = 1 \/ Safe(s, firstIndex[s])
  BY DEF LogInv, LogsAreSafe
<1> QED
  BY <1>1, <1>2 DEF Safe, Agree

\* The term that getLastLogTerm finds is that of the last entry, also after a
\* truncation of the prefix.
LEMMA LastLogTermIsLast ==
  ASSUME TypeInv, LogInv, NEW s \in Server
  PROVE  LastLogTerm(s) = LastTermOf(log[s])
<1>1. firstIndex[s] \in Nat /\ firstIndex[s] >= 1
  BY IndexTypes
<1>2. firstIndex[s] = 1 \/ firstIndex[s] <= Len(log[s])
  BY FirstIndexWithinLog
<1>3. Len(log[s]) \in Nat
  BY LogTypes DEF LogInv
<1>4. Len(log[s]) = firstIndex[s] - 1 <=> Len(log[s]) = 0
  <2>1. CASE firstIndex[s] = 1
    BY <1>3, <2>1
  <2>2. CASE firstIndex[s] # 1
    BY <1>1, <1>2, <1>3, <2>2
  <2> QED
    BY <2>1, <2>2
<1> QED
  BY <1>4 DEF LastLogTerm, TermOfLogEntryAt, LastLogIndex, LastTermOf

\* A vote request speaks of the candidate's log.
LEMMA RequestVoteIsTame ==
  ASSUME TypeInv, LogInv, NEW s \in Server, NEW p \in Server, RequestVote(s, p)
  PROVE  TameStep
<1> DEFINE r == [kind |-> "RV_req", call |-> Min(FreeCalls(s, p)), src |-> s, dst |-> p, open |-> TRUE,
                 term |-> currentTerm[s], lastLogIndex |-> LastLogIndex(s),
                 lastLogTerm |-> LastLogTerm(s)]
<1>1. /\ rpcs' = rpcs \union {r} /\ peers' = [peers EXCEPT ![s][p].switchOn = FALSE]
      /\ UNCHANGED <<log, firstIndex, commitIndex, role, currentTerm, leaderLog, electors, votes,
                     elected, committed>>
  BY DEF RequestVote, persistent, history
<1>2. /\ r.kind = "RV_req" /\ r.src = s /\ r.term = currentTerm[s]
      /\ r.lastLogIndex = Len(log[s]) /\ r.lastLogTerm = LastLogTerm(s)
  BY DEF LastLogIndex
<1>3. \A q, x \in Server : peers'[q][x].matchIndex = peers[q][x].matchIndex
  <2>1. peers[s][p] \in Peer
    BY DEF TypeInv, TypeOK
  <2>2. [peers[s][p] EXCEPT !.switchOn = FALSE].matchIndex = peers[s][p].matchIndex
    BY <2>1 DEF Peer
  <2> QED
    BY <1>1, <2>2 DEF TypeInv, TypeOK
<1> HIDE DEF r
<1>4. RpcIsSound(r)
  <2>1. r.lastLogTerm = LastTermOf(log[s])
    BY <1>2, LastLogTermIsLast
  <2>2. currentTerm[s] <= currentTerm[s]
    BY BoundAssumption DEF TypeInv, TypeOK, Term
  <2> QED
    BY <1>2, <2>1, <2>2 DEF RpcIsSound, VoteRequestIsSound
<1>5. \A x \in rpcs' : RpcIsSound(x)
  BY <1>1, <1>4 DEF LogInv, RpcsAreSound
<1>6. \A q, x \in Server : role[q] = "Leader" =>
        Acknowledged(x, currentTerm[q], peers'[q][x].matchIndex)
  BY <1>3 DEF LogInv, MatchesAreSound
<1> QED
  BY <1>1, <1>5, <1>6, QuietIsTame

\* getEntries answers with the entries that follow.
LEMMA GetEntriesContent ==
  ASSUME TypeInv, NEW s \in Server, NEW i \in Nat, i >= 1, i <= Len(log[s]) + 1
  PROVE  \A k \in 1 .. Len(GetEntries(s, i)) : GetEntries(s, i)[k] = log[s][i + k - 1]
<1>1. log[s] \in Seq(Term) /\ Len(log[s]) \in Nat
  BY DEF TypeInv, TypeOK
<1>2. CASE i < firstIndex[s]
  BY <1>1, <1>2 DEF GetEntries
<1>3. CASE ~(i < firstIndex[s])
  <2> DEFINE n == Min({LastLogIndex(s), i + MaxBatchSize - 1})
  <2>1. n \in Nat /\ n <= Len(log[s])
    BY <1>1, MinOfTwo, ConfigurableVarsAssumption DEF LastLogIndex
  <2>2. GetEntries(s, i) = SubSeq(log[s], i, n)
    BY Zenon, <1>3 DEF GetEntries
  <2> HIDE DEF n
  <2> QED
    BY <1>1, <2>1, <2>2, CutLog
<1> QED
  BY <1>2, <1>3

\* An AE_req carries what is in the leader's log, and a commit index that it vouches for.
LEMMA AppendEntriesIsTame ==
  ASSUME TypeInv, TypeInv', LogInv, NEW s \in Server, NEW p \in Server, AppendEntries(s, p)
  PROVE  TameStep
<1> DEFINE prev    == peers[s][p].nextIndex - 1
           entries == IF peers[s][p].suppressBulkData THEN <<>> ELSE GetEntries(s, prev + 1)
           c       == CommitIndexToSend(s, prev, Len(entries))
           r       == [kind |-> "AE_req", call |-> Min(FreeCalls(s, p)), src |-> s, dst |-> p,
                       open |-> TRUE, term |-> currentTerm[s],
                       prevLogIndex |-> prev, prevLogTerm |-> TermOfLogEntryAt(s, prev),
                       entries |-> entries,
                       commitIndex |-> c]
<1>1. CASE ~HasTerm(s, prev)
  <2>1. Abort(s, "TermOfLogEntry", rpcs)
    BY <1>1 DEF AppendEntries
  <2> QED
    BY <2>1, AbortIsTame
<1>2. CASE HasTerm(s, prev)
  <2>1. /\ rpcs' = rpcs \union {r} /\ peers' = [peers EXCEPT ![s][p].switchOn = FALSE]
        /\ role[s] = "Leader" /\ p # s
        /\ UNCHANGED <<log, firstIndex, commitIndex, role, currentTerm, leaderLog, electors, votes,
                       elected, committed>>
    BY <1>2 DEF AppendEntries, persistent, history
  <2>2. \A q, x \in Server : peers'[q][x].matchIndex = peers[q][x].matchIndex
    <3>1. peers[s][p] \in Peer
      BY DEF TypeInv, TypeOK
    <3>2. [peers[s][p] EXCEPT !.switchOn = FALSE].matchIndex = peers[s][p].matchIndex
      BY <3>1 DEF Peer
    <3> QED
      BY <2>1, <3>2 DEF TypeInv, TypeOK
  <2>3. /\ r.kind = "AE_req" /\ r.src = s /\ r.dst = p /\ r.term = currentTerm[s]
        /\ r.prevLogIndex = prev /\ r.prevLogTerm = TermOfLogEntryAt(s, prev)
        /\ r.entries = entries /\ r.commitIndex = c
    BY ZenonT(30)
  <2>4. /\ <<currentTerm[s], s>> \in elected /\ log[s] = leaderLog[currentTerm[s]]
        /\ commitIndex[s] = 0 \/ \E d \in committed : commitIndex[s] <= d[1] /\ d[2] <= currentTerm[s]
    BY <2>1 DEF LogInv, LeadersAreElected, LogsAreSafe, Safe
  <2>5. /\ Len(log[s]) \in Nat /\ commitIndex[s] \in Nat
        /\ firstIndex[s] \in Nat /\ firstIndex[s] >= 1
    BY IndexTypes, LogTypes DEF LogInv
  <2>6. prev \in Nat /\ prev <= Len(log[s])
    <3>1. peers[s][p].nextIndex \in 1 .. MaxLogLen + 1
      BY ZenonT(30) DEF TypeInv, TypeOK, Peer
    <3> QED
      BY <1>2, <2>5, <3>1, BoundAssumption DEF HasTerm, LastLogIndex
  <2>7. TermOfLogEntryAt(s, prev) = 0 \/ (prev >= 1 /\ log[s][prev] = TermOfLogEntryAt(s, prev))
    BY <1>2, <2>5, <2>6 DEF TermOfLogEntryAt, HasTerm
  <2> HIDE DEF prev
  <2>8. /\ entries \in Seq(Term) /\ Len(entries) \in Nat /\ prev + Len(entries) <= Len(log[s])
        /\ \A k \in 1 .. Len(entries) : entries[k] = log[s][prev + k]
    <3> DEFINE i == prev + 1
               got == GetEntries(s, i)
    <3>0. i \in Nat /\ i >= 1 /\ i <= Len(log[s]) + 1 /\ i - 1 = prev /\ \A k \in Nat : i + k - 1 = prev + k
      BY <2>5, <2>6
    <3> HIDE DEF i
    <3>1. got \in Seq(Term) /\ prev + Len(got) <= Len(log[s])
      BY Zenon, <3>0, GetEntriesType
    <3>2. \A k \in 1 .. Len(got) : got[k] = log[s][prev + k]
      <4>1. \A k \in 1 .. Len(got) : got[k] = log[s][i + k - 1]
        BY Zenon, <3>0, GetEntriesContent
      <4>2. \A k \in 1 .. Len(got) : k \in Nat
        OBVIOUS
      <4> QED
        BY Zenon, <3>0, <4>1, <4>2
    <3>4. entries = <<>> \/ entries = got
      BY Zenon DEF i
    <3> HIDE DEF got, entries
    <3>3. <<>> \in Seq(Term) /\ Len(<<>>) = 0
      OBVIOUS
    <3>5. CASE entries = <<>>
      <4>1. 1 .. Len(<<>>) = {} /\ prev + Len(<<>>) <= Len(log[s]) /\ Len(<<>>) \in Nat
        BY <2>6
      <4> QED
        BY Zenon, <3>3, <3>5, <4>1
    <3>6. CASE entries = got
      <4>1. Len(got) \in Nat
        BY <3>1
      <4> QED
        BY Zenon, <3>1, <3>2, <3>6, <4>1
    <3> QED
      BY Zenon, <3>4, <3>5, <3>6
  <2> HIDE DEF entries
  <2>9. c <= prev + Len(entries) /\ c <= commitIndex[s] /\ c \in Nat
    <3>1. prev + Len(entries) \in Nat
      BY <2>6, <2>8
    <3>2. c = Min({commitIndex[s], prev + Len(entries)})
      BY Zenon DEF CommitIndexToSend
    <3> HIDE DEF c
    <3> QED
      BY <2>5, <3>1, <3>2, MinOfTwo
  <2> HIDE DEF c
  <2>10. c = 0 \/ \E d \in committed : c <= d[1] /\ d[2] <= currentTerm[s]
    <3>1. CASE commitIndex[s] = 0
      BY <2>9, <3>1
    <3>2. CASE commitIndex[s] # 0
      <4>1. PICK d \in committed : commitIndex[s] <= d[1] /\ d[2] <= currentTerm[s]
        BY <2>4, <3>2
      <4>2. d[1] \in Nat
        BY CommittedTypes
      <4>3. c <= d[1]
        BY <2>5, <2>9, <4>1, <4>2
      <4> QED
        BY <4>1, <4>3
    <3> QED
      BY <3>1, <3>2
  <2> HIDE DEF r
  <2>11. AppendRequestIsSound(r)
    BY <2>1, <2>3, <2>4, <2>7, <2>8, <2>9, <2>10 DEF AppendRequestIsSound
  <2>12. \A x \in rpcs' : RpcIsSound(x)
    <3>1. RpcIsSound(r)
      BY <2>3, <2>11 DEF RpcIsSound
    <3> QED
      BY <2>1, <3>1 DEF LogInv, RpcsAreSound
  <2>13. \A q, x \in Server : role[q] = "Leader" =>
           Acknowledged(x, currentTerm[q], peers'[q][x].matchIndex)
    BY <2>2 DEF LogInv, MatchesAreSound
  <2> QED
    BY <2>1, <2>12, <2>13, QuietIsTame
<1> QED
  BY <1>1, <1>2

-----------------------------------------------------------------------------
(* Voting is calm: a vote is for a log as complete as the voter's.         *)

\* electionTimeout: the candidate's own vote is the first of its new term.
LEMMA ElectionTimeoutIsCalm ==
  ASSUME TypeInv, LogInv, NEW s \in Server, ElectionTimeout(s)
  PROVE  CalmStep
<1> DEFINE T == currentTerm[s] + 1
<1>1. /\ role' = [role EXCEPT ![s] = "Candidate"]
      /\ currentTerm' = [currentTerm EXCEPT ![s] = T]
      /\ votes' = votes \union {<<s, T, s>>}
      /\ UNCHANGED <<log, firstIndex, commitIndex, rpcs, elected, committed, leaderLog, electors>>
      /\ \A p \in Server : p # s => peers'[p] = peers[p]
  BY Zenon DEF ElectionTimeout, TypeInv, TypeOK
<1>2. \A p \in Server : currentTerm[p] \in Nat
  BY LogTypes DEF LogInv
<1>3. T \in Nat /\ currentTerm[s] < T
  BY <1>2
<1> HIDE DEF T
<1>4. /\ currentTerm'[s] = T /\ role'[s] = "Candidate"
      /\ \A p \in Server : p # s => role'[p] = role[p] /\ currentTerm'[p] = currentTerm[p]
  BY <1>1 DEF TypeInv, TypeOK
<1>5. \A p \in Server : currentTerm[p] <= currentTerm'[p]
  BY <1>2, <1>3, <1>4
<1>6. \A v \in votes : v # <<v[1], T, s>>
  <2> SUFFICES ASSUME NEW v \in votes, v = <<v[1], T, s>> PROVE FALSE
    OBVIOUS
  <2>1. v[2] = T /\ v[3] = s
    OBVIOUS
  <2>2. v[2] <= currentTerm[v[3]]
    BY DEF LogInv, ElectorsVoted
  <2> QED
    BY <1>2, <1>3, <2>1, <2>2
<1>7. CandidatesEvolve
  <2> SUFFICES ASSUME NEW p \in Server, role'[p] = "Candidate"
               PROVE  /\ \/ role[p] = "Candidate" /\ currentTerm'[p] = currentTerm[p]
                         \/ currentTerm[p] < currentTerm'[p]
                      /\ \A q \in Server : <<q, currentTerm'[p], p>> \in votes' =>
                           \/ /\ role[p] = "Candidate" /\ currentTerm'[p] = currentTerm[p]
                              /\ <<q, currentTerm[p], p>> \in votes
                           \/ currentTerm[q] <= currentTerm'[p] /\ UpToDate(log[p], log[q])
    BY <1>1 DEF CandidatesEvolve
  <2>1. CASE p # s
    BY <1>1, <1>4, <2>1
  <2>2. CASE p = s
    <3> SUFFICES ASSUME NEW q \in Server, <<q, T, s>> \in votes'
                 PROVE  currentTerm[q] <= T /\ UpToDate(log[s], log[q])
      BY <1>3, <1>4, <2>2
    <3>1. <<q, T, s>> \notin votes
      BY <1>6
    <3>2. q = s
      BY <1>1, <3>1
    <3>3. UpToDate(log[s], log[s])
      <4>1. log[s] \in Seq(Term) /\ Len(log[s]) \in Nat
        BY LogTypes DEF LogInv
      <4>2. Len(log[s]) >= Len(log[s])
        BY <4>1
      <4> QED
        BY <4>2 DEF UpToDate
    <3> QED
      BY <1>4, <1>5, <3>2, <3>3
  <2> QED
    BY <2>1, <2>2
<1>8. \A v \in votes' : v \in votes \/ v[2] <= currentTerm'[v[3]]
  <2>1. <<s, T, s>>[2] = T /\ <<s, T, s>>[3] = s /\ T <= T
    BY <1>3
  <2> QED
    BY <1>1, <1>4, <2>1
<1>9. \A p \in Server : role'[p] = "Leader" =>
        /\ role[p] = "Leader" /\ currentTerm'[p] = currentTerm[p]
        /\ \A q \in Server : Acknowledged(q, currentTerm[p], peers'[p][q].matchIndex)
  BY <1>1, <1>4 DEF LogInv, MatchesAreSound
<1> QED
  BY <1>1, <1>5, <1>7, <1>8, <1>9 DEF CalmStep, LogInv, RpcsAreSound

\* handleRequestVoteRequest, whether it grants the vote or not.
LEMMA HandleRequestVoteRequestIsCalm ==
  ASSUME TypeInv, LogInv, NEW m \in rpcs, HandleRequestVoteRequest(m)
  PROVE  CalmStep
<1> DEFINE s == m.dst
           granted == GrantsVote(s, m)
           response == RequestVoteResponse(m, Max({m.term, currentTerm[s]}), granted)
<1>1. /\ s \in Server /\ m.src \in Server /\ m.term \in Nat
      /\ \A p \in Server : currentTerm[p] \in Nat
  BY Zenon, MessageFields, TermsAreNatural, LogTypes DEF TypeInv, TypeOK, LogInv
<1>2. /\ Reply(m, response)
      /\ votes' = IF granted THEN votes \union {<<s, m.term, m.src>>} ELSE votes
      /\ UNCHANGED <<log, firstIndex, commitIndex, peers, elected, committed, leaderLog, electors>>
  BY Zenon DEF HandleRequestVoteRequest
<1>3. \A p \in Server : \/ role'[p] = role[p] /\ currentTerm'[p] = currentTerm[p]
                        \/ /\ p = s /\ m.term > currentTerm[s]
                           /\ role'[p] = "Follower" /\ currentTerm'[p] = m.term
  <2>1. \/ UNCHANGED <<role, currentTerm>>
        \/ /\ m.term > currentTerm[s]
           /\ role' = [role EXCEPT ![s] = "Follower"]
           /\ currentTerm' = [currentTerm EXCEPT ![s] = m.term]
    BY Zenon DEF HandleRequestVoteRequest
  <2>2. role \in [Server -> Role] /\ currentTerm \in [Server -> Term]
    BY DEF TypeInv, TypeOK
  <2> HIDE DEF s
  <2> QED
    BY <1>1, <2>1, <2>2
<1>4. response.kind = "RV_resp"
  BY DEF RequestVoteResponse
<1>5. \A x \in rpcs' : RpcIsSound(x)
  <2>1. \A x \in rpcs' : x \in rpcs \/ x = response
    BY <1>2 DEF Reply
  <2> HIDE DEF response
  <2>2. RpcIsSound(response)
    BY <1>4 DEF RpcIsSound
  <2> QED
    BY <2>1, <2>2 DEF LogInv, RpcsAreSound
<1>6. VoteRequestIsSound(m)
  BY ZenonT(30) DEF LogInv, RpcsAreSound, RpcIsSound, HandleRequestVoteRequest, Arrived
<1>7. granted => /\ m.term >= currentTerm[s]
                 /\ role[m.src] = "Candidate" /\ currentTerm[m.src] = m.term
                      => UpToDate(log[m.src], log[s])
  BY Zenon, <1>1, <1>6, LastLogTermIsLast DEF GrantsVote, LogIsUpToDate, VoteRequestIsSound, UpToDate, LastLogIndex
<1> HIDE DEF granted, response, s
<1>8. \A p \in Server : currentTerm[p] <= currentTerm'[p]
  BY <1>1, <1>3
<1>9. \A p \in Server : role'[p] # "Follower" => role'[p] = role[p] /\ currentTerm'[p] = currentTerm[p]
  BY <1>3
<1>10. CandidatesEvolve
  <2> SUFFICES ASSUME NEW p \in Server, role[p] = "Candidate", currentTerm'[p] = currentTerm[p],
                      NEW q \in Server, <<q, currentTerm[p], p>> \in votes'
               PROVE  \/ <<q, currentTerm[p], p>> \in votes
                      \/ currentTerm[q] <= currentTerm[p] /\ UpToDate(log[p], log[q])
    BY Zenon, <1>2, <1>9 DEF CandidatesEvolve
  <2>1. <<q, currentTerm[p], p>> \in votes
        \/ (granted /\ q = s /\ m.term = currentTerm[p] /\ m.src = p)
    BY Zenon, <1>2
  <2> QED
    BY <1>1, <1>7, <2>1
<1>11. votes \subseteq votes' /\ \A v \in votes' : v \in votes \/ v[2] <= currentTerm'[v[3]]
  <2> DEFINE w == <<s, m.term, m.src>>
  <2>1. w[2] = m.term /\ w[3] = m.src
    OBVIOUS
  <2>2. m.term <= currentTerm[m.src] /\ currentTerm[m.src] <= currentTerm'[m.src]
    BY <1>1, <1>6, <1>8 DEF VoteRequestIsSound
  <2>3. m.term <= currentTerm'[m.src]
    <3>1. currentTerm'[m.src] \in Nat
      BY <1>1, <1>3
    <3> QED
      BY <1>1, <2>2, <3>1
  <2> QED
    BY <1>2, <2>1, <2>3
<1>12. \A p \in Server : role'[p] = "Leader" =>
         /\ role[p] = "Leader" /\ currentTerm'[p] = currentTerm[p]
         /\ \A q \in Server : Acknowledged(q, currentTerm[p], peers'[p][q].matchIndex)
  BY <1>2, <1>9 DEF LogInv, MatchesAreSound
<1> QED
  BY <1>2, <1>5, <1>8, <1>10, <1>11, <1>12 DEF CalmStep

-----------------------------------------------------------------------------
(* Clients and calls.                                                      *)

\* Whoever goes on leading, or leaves the term, led it.
LEMMA LedStays ==
  ASSUME TypeInv, TypeInv', LeadersAreElected, elected \subseteq elected',
         NEW t \in Term, NEW s \in Server, LedBy(t, s), currentTerm[s] <= currentTerm'[s],
         role[s] = "Leader" => role'[s] = "Leader" \/ currentTerm'[s] > currentTerm[s]
  PROVE  LedBy(t, s)'
<1>1. /\ currentTerm[s] \in Nat /\ currentTerm'[s] \in Nat /\ t \in Nat
  <2>1. currentTerm \in [Server -> Term] /\ currentTerm' \in [Server -> Term]
    BY DEF TypeInv, TypeOK
  <2> QED
    BY Zenon, <2>1, TermsAreNatural
<1>2. <<t, s>> \in elected /\ <<t, s>>[1] = t /\ <<t, s>>[2] = s
  BY DEF LedBy
<1>3. t <= currentTerm[s]
  BY ZenonT(30), <1>2 DEF LeadersAreElected
<1>4. ASSUME t = currentTerm'[s] PROVE role'[s] = "Leader"
  <2>1. t = currentTerm[s] /\ ~(currentTerm'[s] > currentTerm[s])
    BY <1>1, <1>3, <1>4
  <2> QED
    BY <2>1 DEF LedBy
<1> QED
  BY <1>2, <1>4 DEF LedBy

\* So its calls stay led.
LEMMA CallStaysLed ==
  ASSUME TypeInv, TypeInv', LeadersAreElected, elected \subseteq elected',
         NEW m \in Message, CallIsLed(m), currentTerm[m.src] <= currentTerm'[m.src],
         role[m.src] = "Leader" => role'[m.src] = "Leader" \/ currentTerm'[m.src] > currentTerm[m.src]
  PROVE  CallIsLed(m)'
<1>1. m.src \in Server /\ m.term \in Term /\ (m.kind = "AE_resp" => m.savedTerm \in Term)
  BY MessageFields
<1>2. m.kind = "AE_req" /\ m.open => LedBy(m.term, m.src)'
  BY <1>1, LedStays DEF CallIsLed
<1>3. m.kind = "AE_resp" => LedBy(m.savedTerm, m.src)'
  BY <1>1, LedStays DEF CallIsLed
<1> QED
  BY ZenonT(30), <1>2, <1>3 DEF CallIsLed

\* An ordinary step keeps both invariants.
LEMMA OrdinaryStepKeeps ==
  ASSUME TypeInv, TypeInv', LogInv, ClientInv, CallInv, OrdinaryStep
  PROVE  ClientInv' /\ CallInv'
<1>1. /\ UNCHANGED <<acked, committed, leaderLog, elected>>
      /\ \A s \in Server : Stays(s) \/ MovesOn(s) \/ Obeys(s)
      /\ \A m \in rpcs' : CallIsLed(m)
  BY DEF OrdinaryStep
<1>2. \A s \in Server : currentTerm[s] \in Nat /\ currentTerm'[s] \in Nat
  <2>1. currentTerm \in [Server -> Term] /\ currentTerm' \in [Server -> Term]
    BY DEF TypeInv, TypeOK
  <2> QED
    BY Zenon, <2>1, TermsAreNatural
<1>3. ASSUME NEW s \in Server, NEW e \in pending'[s]
      PROVE  role'[s] = "Leader" /\ e[2] = currentTerm'[s] /\ Has(log'[s], e[1], e[2])
  <2>1. \A d \in pending[s] : role[s] = "Leader" /\ d[2] = currentTerm[s] /\ Has(log[s], d[1], d[2])
    BY Zenon DEF ClientInv
  <2>2. CASE Stays(s)
    BY <1>3, <2>1, <2>2 DEF Stays
  <2>3. CASE MovesOn(s)
    BY <1>3, <2>1, <2>3 DEF MovesOn
  <2>4. CASE Obeys(s)
    BY <1>3, <2>1, <2>4 DEF Obeys
  <2> QED
    BY Zenon, <1>1, <2>2, <2>3, <2>4
<1>4. ClientInv'
  BY ZenonT(30), <1>1, <1>3 DEF ClientInv
<1>5. \A s \in Server : leaderId'[s] # Nobody => <<currentTerm'[s], leaderId'[s]>> \in elected'
  BY Zenon, <1>1 DEF CallInv, Stays, MovesOn, Obeys, KnowsLeader
<1>6. \A s \in Server : /\ currentTerm[s] <= currentTerm'[s]
                        /\ role[s] = "Leader" => role'[s] = "Leader" \/ currentTerm'[s] > currentTerm[s]
  BY <1>1, <1>2 DEF Stays, MovesOn, Obeys
<1>7. ASSUME NEW m \in rpcs' PROVE CallIsLed(m)'
  <2>1. m \in Message
    BY DEF TypeInv, TypeOK
  <2>2. m.src \in Server
    BY <2>1, MessageFields
  <2>3. LeadersAreElected
    BY DEF LogInv
  <2> QED
    BY ZenonT(30), <1>1, <1>6, <2>1, <2>2, <2>3, CallStaysLed
<1> QED
  BY <1>4, <1>5, <1>7 DEF CallInv

\* So does a deadly one.
LEMMA DeadlyStepKeeps ==
  ASSUME TypeInv, TypeInv', LogInv, ClientInv, CallInv, NEW s \in Server, DeadlyStep(s)
  PROVE  ClientInv' /\ CallInv'
<1>1. /\ UNCHANGED <<acked, committed, leaderLog, elected>>
      /\ Dies(s) /\ \A p \in Server : p # s => Stays(p)
  BY DEF DeadlyStep
<1>2. PICK R \in SUBSET rpcs : rpcs' = Orphaned(s, R)
  BY DEF DeadlyStep
<1>3. \A p \in Server : currentTerm[p] \in Nat /\ currentTerm'[p] \in Nat
  <2>1. currentTerm \in [Server -> Term] /\ currentTerm' \in [Server -> Term]
    BY DEF TypeInv, TypeOK
  <2> QED
    BY Zenon, <2>1, TermsAreNatural
<1>4. ASSUME NEW p \in Server, NEW e \in pending'[p]
      PROVE  role'[p] = "Leader" /\ e[2] = currentTerm'[p] /\ Has(log'[p], e[1], e[2])
  <2>1. p # s
    BY <1>1, <1>4 DEF Dies
  <2> QED
    BY <1>1, <1>4, <2>1 DEF Stays, ClientInv
<1>5. ClientInv'
  BY <1>1, <1>4 DEF ClientInv
<1>6. \A p \in Server : leaderId'[p] # Nobody => <<currentTerm'[p], leaderId'[p]>> \in elected'
  BY Zenon, <1>1 DEF CallInv, Stays, Dies
<1>7. ASSUME NEW m \in rpcs' PROVE CallIsLed(m)'
  <2>1. PICK x \in R : /\ ~(x.src = s /\ IsResponse(x))
                       /\ m = IF x.src = s /\ IsRequest(x) THEN [x EXCEPT !.open = FALSE] ELSE x
    BY <1>2, <1>7 DEF Orphaned
  <2>2. x \in rpcs /\ x \in Message /\ m \in Message
    BY <1>2, <2>1 DEF TypeInv, TypeOK
  <2>3. x.kind \in {"RV_req", "RV_resp", "AE_req", "AE_resp"} /\ x.src \in Server
    BY <2>2, MessageFields
  <2>4. CASE x.src = s
    <3>1. IsRequest(x) /\ m = [x EXCEPT !.open = FALSE]
      BY <2>1, <2>3, <2>4 DEF IsRequest, IsResponse
    <3>2. m.kind = x.kind /\ m.open = FALSE
      BY <2>2, <3>1 DEF Message, IsRequest
    <3> QED
      BY <3>1, <3>2 DEF CallIsLed, IsRequest
  <2>5. CASE x.src # s
    <3>1. m = x /\ CallIsLed(x) /\ LeadersAreElected
      BY <2>1, <2>2, <2>5 DEF CallInv, LogInv
    <3>2. currentTerm'[x.src] = currentTerm[x.src] /\ role'[x.src] = role[x.src]
      BY ZenonT(30), <1>1, <2>3, <2>5 DEF Stays
    <3>3. currentTerm[x.src] <= currentTerm'[x.src]
      BY <1>3, <2>3, <3>2
    <3> QED
      BY Zenon, <1>1, <2>2, <3>1, <3>2, <3>3, CallStaysLed
  <2> QED
    BY <2>4, <2>5
<1> QED
  BY Zenon, <1>5, <1>6, <1>7 DEF CallInv

\* A step that touches no server's role, term, hint, requests or log is ordinary.
LEMMA UntouchedIsOrdinary ==
  ASSUME UNCHANGED <<role, currentTerm, leaderId, pending, log>>,
         UNCHANGED <<acked, committed, leaderLog, elected, failedAsserts>>,
         \A m \in rpcs' : CallIsLed(m)
  PROVE  OrdinaryStep
BY Zenon DEF OrdinaryStep, Stays

\* stepDown to a newer term is ordinary.
LEMMA StepDownIsOrdinary ==
  ASSUME TypeInv, CallInv, NEW s \in Server, NEW t \in Term, t > currentTerm[s], StepDown(s, t),
         UNCHANGED <<log, acked, committed, leaderLog, elected, failedAsserts>>, rpcs' \subseteq rpcs
  PROVE  OrdinaryStep
<1>1. /\ role \in [Server -> Role] /\ currentTerm \in [Server -> Term]
      /\ leaderId \in [Server -> Server \union {Nobody}]
      /\ pending \in [Server -> SUBSET (Index \X Term)]
  BY DEF TypeInv, TypeOK
<1>2. /\ role' = [role EXCEPT ![s] = "Follower"]
      /\ currentTerm' = [currentTerm EXCEPT ![s] = t]
      /\ leaderId' = [leaderId EXCEPT ![s] = Nobody]
      /\ pending' = [pending EXCEPT ![s] = IF role[s] = "Leader" THEN {} ELSE @]
  BY Zenon DEF StepDown
<1>3. \A p \in Server : p # s => Stays(p)
  BY <1>1, <1>2 DEF Stays
<1>4. MovesOn(s)
  BY <1>1, <1>2 DEF MovesOn, KnowsLeader
<1>5. \A m \in rpcs' : CallIsLed(m)
  BY DEF CallInv
<1> QED
  BY <1>3, <1>4, <1>5 DEF OrdinaryStep

\* Losing the process is deadly.
LEMMA RestartIsDeadly ==
  ASSUME TypeInv, NEW s \in Server, LoseVolatile(s), currentTerm'[s] >= currentTerm[s],
         \A p \in Server : p # s => currentTerm'[p] = currentTerm[p] /\ log'[p] = log[p],
         UNCHANGED <<acked, committed, leaderLog, elected>>,
         NEW R, R \subseteq rpcs, rpcs' = Orphaned(s, R)
  PROVE  DeadlyStep(s)
<1>1. /\ role \in [Server -> Role] /\ leaderId \in [Server -> Server \union {Nobody}]
      /\ pending \in [Server -> SUBSET (Index \X Term)]
  BY DEF TypeInv, TypeOK
<1>2. /\ role' = [role EXCEPT ![s] = "Follower"]
      /\ leaderId' = [leaderId EXCEPT ![s] = Nobody]
      /\ pending' = [pending EXCEPT ![s] = {}]
  BY Zenon DEF LoseVolatile
<1>3. \A p \in Server : p # s => Stays(p)
  BY ZenonT(30), <1>1, <1>2 DEF Stays
<1>4. Dies(s)
  BY <1>1, <1>2 DEF Dies
<1> QED
  BY <1>3, <1>4 DEF DeadlyStep

\* So is a failed assertion.
LEMMA AbortIsDeadly ==
  ASSUME TypeInv, NEW s \in Server, NEW a, NEW R, R \subseteq rpcs, Abort(s, a, R)
  PROVE  DeadlyStep(s)
<1>1. /\ LoseVolatile(s) /\ rpcs' = Orphaned(s, R)
      /\ UNCHANGED <<currentTerm, log, acked, committed, leaderLog, elected>>
  BY DEF Abort, persistent
<1>2. currentTerm'[s] >= currentTerm[s]
  <2>1. currentTerm[s] \in Nat
    BY Zenon, TermsAreNatural DEF TypeInv, TypeOK
  <2> QED
    BY <1>1, <2>1
<1> QED
  BY Zenon, <1>1, <1>2, RestartIsDeadly

\* Sending is ordinary, unless it trips over the term of an entry.
LEMMA SendingKeeps ==
  ASSUME TypeInv, TypeInv', LogInv, ClientInv, CallInv, NEW s \in Server, NEW p \in Server,
         RequestVote(s, p) \/ AppendEntries(s, p)
  PROVE  ClientInv' /\ CallInv'
<1>1. CASE RequestVote(s, p)
  <2> DEFINE r == [kind |-> "RV_req", call |-> Min(FreeCalls(s, p)), src |-> s, dst |-> p, open |-> TRUE,
                   term |-> currentTerm[s], lastLogIndex |-> LastLogIndex(s),
                   lastLogTerm |-> LastLogTerm(s)]
  <2>1. /\ rpcs' = rpcs \union {r}
        /\ UNCHANGED <<role, currentTerm, leaderId, pending, log>>
        /\ UNCHANGED <<acked, committed, leaderLog, elected, failedAsserts>>
    BY <1>1 DEF RequestVote, persistent, history
  <2>2. r.kind = "RV_req"
    OBVIOUS
  <2> HIDE DEF r
  <2>3. \A m \in rpcs' : CallIsLed(m)
    BY ZenonT(30), <2>1, <2>2 DEF CallInv, CallIsLed
  <2> QED
    BY <2>1, <2>3, UntouchedIsOrdinary, OrdinaryStepKeeps
<1>2. CASE AppendEntries(s, p)
  <2> DEFINE prev    == peers[s][p].nextIndex - 1
             entries == IF peers[s][p].suppressBulkData THEN <<>> ELSE GetEntries(s, prev + 1)
             r == [kind |-> "AE_req", call |-> Min(FreeCalls(s, p)), src |-> s, dst |-> p,
                   open |-> TRUE, term |-> currentTerm[s],
                   prevLogIndex |-> prev, prevLogTerm |-> TermOfLogEntryAt(s, prev),
                   entries |-> entries,
                   commitIndex |-> CommitIndexToSend(s, prev, Len(entries))]
  <2>1. role[s] = "Leader"
    BY <1>2 DEF AppendEntries
  <2>2. CASE HasTerm(s, prev)
    <3>1. /\ rpcs' = rpcs \union {r}
          /\ UNCHANGED <<role, currentTerm, leaderId, pending, log>>
          /\ UNCHANGED <<acked, committed, leaderLog, elected, failedAsserts>>
      BY <1>2, <2>2 DEF AppendEntries, persistent, history
    <3>2. r.kind = "AE_req" /\ r.term = currentTerm[s] /\ r.src = s
      BY ZenonT(30)
    <3> HIDE DEF r
    <3>3. CallIsLed(r)
      BY ZenonT(30), <2>1, <3>2 DEF CallIsLed, LedBy, LogInv, LeadersAreElected
    <3>4. \A m \in rpcs' : CallIsLed(m)
      BY Zenon, <3>1, <3>3 DEF CallInv
    <3> QED
      BY <3>1, <3>4, UntouchedIsOrdinary, OrdinaryStepKeeps
  <2>3. CASE ~HasTerm(s, prev)
    <3>1. Abort(s, "TermOfLogEntry", rpcs) /\ rpcs \subseteq rpcs
      BY <1>2, <2>3 DEF AppendEntries
    <3> QED
      BY <3>1, AbortIsDeadly, DeadlyStepKeeps
  <2> QED
    BY <2>2, <2>3
<1> QED
  BY <1>1, <1>2

\* The answer to an AE_req is led if the request was.
LEMMA AnswerIsLed ==
  ASSUME CallInv, NEW m \in rpcs, m.kind = "AE_req", NEW t, NEW success, NEW last, NEW match,
         rpcs' = (rpcs \ {m}) \union
                   (IF m.open THEN {AppendEntriesResponse(m, t, success, last, match)} ELSE {})
  PROVE  \A x \in rpcs' : CallIsLed(x)
<1> DEFINE r == AppendEntriesResponse(m, t, success, last, match)
<1>1. r.kind = "AE_resp" /\ r.savedTerm = m.term /\ r.src = m.src
  BY DEF AppendEntriesResponse
<1> HIDE DEF r
<1>2. m.open => CallIsLed(r)
  BY <1>1 DEF CallInv, CallIsLed
<1>3. \A x \in rpcs' : x \in rpcs \/ (m.open /\ x = r)
  BY DEF r
<1> QED
  BY <1>2, <1>3 DEF CallInv

\* Votes, stale requests, ignored, counted, accepted and rejected responses, failed and
\* lost calls are ordinary.
LEMMA MessagesAreOrdinary ==
  ASSUME TypeInv, CallInv, NEW m \in rpcs,
         \/ HandleRequestVoteRequest(m) \/ RejectStaleAppendEntriesRequest(m)
         \/ IgnoreRequestVoteResponse(m) \/ StepDownOnRequestVoteResponse(m)
         \/ CountRequestVoteResponse(m) \/ IgnoreAppendEntriesResponse(m)
         \/ StepDownOnAppendEntriesResponse(m) \/ AcceptAppendEntriesResponse(m)
         \/ BackOffOnAppendEntriesResponse(m) \/ FailRpc(m) \/ LoseRequest(m)
  PROVE  OrdinaryStep
<1>1. m \in Message /\ m.src \in Server /\ m.dst \in Server /\ m.term \in Term
  BY ZenonT(30), MessageFields DEF TypeInv, TypeOK
<1>2. \A x \in rpcs : CallIsLed(x)
  BY ZenonT(30) DEF CallInv
<1>3. CASE HandleRequestVoteRequest(m)
  <2> DEFINE s == m.dst
             r == RequestVoteResponse(m, Max({m.term, currentTerm[s]}), GrantsVote(s, m))
  <2>1. /\ rpcs' = (rpcs \ {m}) \union (IF m.open THEN {r} ELSE {})
        /\ UNCHANGED <<log, acked, committed, leaderLog, elected, failedAsserts>>
    BY ZenonT(30), <1>3 DEF HandleRequestVoteRequest, Reply
  <2>2. r.kind = "RV_resp"
    BY ZenonT(30) DEF RequestVoteResponse
  <2> HIDE DEF r
  <2>3. \A x \in rpcs' : CallIsLed(x)
    BY Zenon, <1>2, <2>1, <2>2 DEF CallIsLed
  <2>4. CASE m.term > currentTerm[s]
    <3>1. /\ role' = [role EXCEPT ![s] = "Follower"]
          /\ currentTerm' = [currentTerm EXCEPT ![s] = m.term]
          /\ leaderId' = [leaderId EXCEPT ![s] = Nobody]
          /\ pending' = [pending EXCEPT ![s] = IF role[s] = "Leader" THEN {} ELSE @]
      BY ZenonT(30), <1>3, <2>4 DEF HandleRequestVoteRequest
    <3>2. \A p \in Server : p # s => Stays(p)
      BY ZenonT(30), <2>1, <3>1 DEF Stays, TypeInv, TypeOK
    <3>3. MovesOn(s)
      BY Zenon, <1>1, <2>4, <3>1 DEF MovesOn, KnowsLeader, TypeInv, TypeOK
    <3> QED
      BY <2>1, <2>3, <3>2, <3>3 DEF OrdinaryStep
  <2>5. CASE ~(m.term > currentTerm[s])
    <3>1. UNCHANGED <<role, currentTerm, leaderId, pending, log>>
      BY ZenonT(30), <1>3, <2>5 DEF HandleRequestVoteRequest
    <3> QED
      BY <2>1, <2>3, <3>1, UntouchedIsOrdinary
  <2> QED
    BY ZenonT(30), <2>4, <2>5
<1>4. CASE RejectStaleAppendEntriesRequest(m)
  <2>1. /\ m.kind = "AE_req"
        /\ Reply(m, AppendEntriesResponse(m, currentTerm[m.dst], FALSE, LastLogIndex(m.dst), 0))
        /\ UNCHANGED <<role, currentTerm, leaderId, pending, log>>
        /\ UNCHANGED <<acked, committed, leaderLog, elected, failedAsserts>>
    BY ZenonT(30), <1>4 DEF RejectStaleAppendEntriesRequest, Arrived, persistent, volatile, history
  <2>2. \A x \in rpcs' : CallIsLed(x)
    BY ZenonT(30), <2>1, AnswerIsLed DEF Reply
  <2> QED
    BY ZenonT(30), <2>1, <2>2, UntouchedIsOrdinary
<1>5. CASE StepDownOnRequestVoteResponse(m) \/ StepDownOnAppendEntriesResponse(m)
  <2>1. /\ m.term > currentTerm[m.src] /\ StepDown(m.src, m.term) /\ rpcs' \subseteq rpcs
        /\ UNCHANGED <<log, acked, committed, leaderLog, elected, failedAsserts>>
    BY Zenon, <1>5 DEF StepDownOnRequestVoteResponse, StepDownOnAppendEntriesResponse, history
  <2> QED
    BY ZenonT(30), <1>1, <2>1, StepDownIsOrdinary
<1>6. CASE \/ IgnoreRequestVoteResponse(m) \/ CountRequestVoteResponse(m)
           \/ IgnoreAppendEntriesResponse(m) \/ AcceptAppendEntriesResponse(m)
           \/ BackOffOnAppendEntriesResponse(m) \/ LoseRequest(m)
  <2>1. /\ rpcs' \subseteq rpcs
        /\ UNCHANGED <<role, currentTerm, leaderId, pending, log>>
        /\ UNCHANGED <<acked, committed, leaderLog, elected, failedAsserts>>
    BY Zenon, <1>6 DEF IgnoreRequestVoteResponse, CountRequestVoteResponse, IgnoreAppendEntriesResponse,
                AcceptAppendEntriesResponse, BackOffOnAppendEntriesResponse, LoseRequest,
                persistent, volatile, history
  <2> QED
    BY <1>2, <2>1, UntouchedIsOrdinary
<1>7. CASE FailRpc(m)
  <2>1. /\ \/ rpcs' = rpcs \ {m}
           \/ IsRequest(m) /\ rpcs' = (rpcs \ {m}) \union {[m EXCEPT !.open = FALSE]}
        /\ UNCHANGED <<role, currentTerm, leaderId, pending, log>>
        /\ UNCHANGED <<acked, committed, leaderLog, elected, failedAsserts>>
    BY <1>7 DEF FailRpc, persistent, history
  <2>2. IsRequest(m) => CallIsLed([m EXCEPT !.open = FALSE])
    <3>1. IsRequest(m) => [m EXCEPT !.open = FALSE].kind = m.kind /\ [m EXCEPT !.open = FALSE].open = FALSE
      BY <1>1 DEF Message, IsRequest
    <3> QED
      BY <3>1 DEF CallIsLed, IsRequest
  <2>3. \A x \in rpcs' : CallIsLed(x)
    BY Zenon, <1>2, <2>1, <2>2
  <2> QED
    BY <2>1, <2>3, UntouchedIsOrdinary
<1> QED
  BY <1>3, <1>4, <1>5, <1>6, <1>7

\* So are the timeouts and the truncation of a prefix.
LEMMA TimeoutsAreOrdinary ==
  ASSUME TypeInv, CallInv, NEW s \in Server,
         ElectionTimeout(s) \/ LeadershipTimeout(s) \/ \E i \in Index : TruncatePrefix(s, i)
  PROVE  OrdinaryStep
<1>1. \A x \in rpcs : CallIsLed(x)
  BY Zenon DEF CallInv
<1>2. currentTerm[s] \in Nat
  BY ZenonT(30), TermsAreNatural DEF TypeInv, TypeOK
<1>3. CASE ElectionTimeout(s)
  <2>1. /\ role[s] # "Leader" /\ role' = [role EXCEPT ![s] = "Candidate"]
        /\ currentTerm' = [currentTerm EXCEPT ![s] = @ + 1]
        /\ leaderId' = [leaderId EXCEPT ![s] = Nobody]
        /\ UNCHANGED <<pending, rpcs, log, acked, committed, leaderLog, elected, failedAsserts>>
    BY Zenon, <1>3 DEF ElectionTimeout
  <2>2. \A p \in Server : p # s => Stays(p)
    BY ZenonT(30), <2>1 DEF Stays, TypeInv, TypeOK
  <2>3. MovesOn(s)
    <3>1. /\ role \in [Server -> Role] /\ currentTerm \in [Server -> Term]
          /\ leaderId \in [Server -> Server \cup {Nobody}]
      BY Zenon DEF TypeInv, TypeOK
    <3>2. role'[s] = "Candidate" /\ currentTerm'[s] = currentTerm[s] + 1 /\ leaderId'[s] = Nobody
      BY Zenon, <2>1, <3>1
    <3>3. currentTerm[s] + 1 > currentTerm[s]
      BY Zenon, <1>2, LessThanSuccessor
    <3>4. "Candidate" # "Leader"
      OBVIOUS
    <3> QED
      BY Zenon, <2>1, <3>2, <3>3, <3>4 DEF MovesOn, KnowsLeader
  <2> QED
    BY <1>1, <2>1, <2>2, <2>3 DEF OrdinaryStep
<1>4. CASE LeadershipTimeout(s)
  <2>1. /\ currentTerm[s] < MaxTerm /\ StepDown(s, currentTerm[s] + 1) /\ rpcs' \subseteq rpcs
        /\ UNCHANGED <<log, acked, committed, leaderLog, elected, failedAsserts>>
    BY Zenon, <1>4 DEF LeadershipTimeout, history
  <2>2. currentTerm[s] + 1 \in Term /\ currentTerm[s] + 1 > currentTerm[s]
    BY <1>2, <2>1, BoundAssumption DEF Term
  <2> QED
    BY <2>1, <2>2, StepDownIsOrdinary
<1>5. CASE \E i \in Index : TruncatePrefix(s, i)
  <2>1. /\ UNCHANGED <<role, currentTerm, leaderId, pending, log>> /\ rpcs' = rpcs
        /\ UNCHANGED <<acked, committed, leaderLog, elected, failedAsserts>>
    BY <1>5 DEF TruncatePrefix, volatile, history
  <2> QED
    BY <1>1, <2>1, UntouchedIsOrdinary
<1> QED
  BY <1>3, <1>4, <1>5

\* Crashes are deadly.
LEMMA CrashIsDeadly ==
  ASSUME TypeInv, NEW s \in Server, Crash(s) \/ CrashBetweenTermAndVote(s)
  PROVE  DeadlyStep(s)
<1>1. \A t \in Term : t \in Nat /\ currentTerm[s] \in Nat
  BY ZenonT(30), TermsAreNatural DEF TypeInv, TypeOK
<1>2. /\ LoseVolatile(s) /\ rpcs' = Orphaned(s, rpcs) /\ rpcs \subseteq rpcs
      /\ UNCHANGED <<log, acked, committed, leaderLog, elected>>
  BY DEF Crash, CrashBetweenTermAndVote, persistent, history
<1>3. \/ currentTerm' = currentTerm
      \/ \E t \in Term : t > currentTerm[s] /\ currentTerm' = [currentTerm EXCEPT ![s] = t]
  BY DEF Crash, CrashBetweenTermAndVote, NewTerms, persistent
<1>4. currentTerm'[s] >= currentTerm[s] /\ \A p \in Server : p # s => currentTerm'[p] = currentTerm[p]
  <2>1. currentTerm \in [Server -> Term] /\ currentTerm[s] \in Nat
    BY ZenonT(30), TermsAreNatural DEF TypeInv, TypeOK
  <2>2. CASE currentTerm' = currentTerm
    BY <2>1, <2>2
  <2>3. CASE \E t \in Term : t > currentTerm[s] /\ currentTerm' = [currentTerm EXCEPT ![s] = t]
    BY <1>1, <2>1, <2>3
  <2> QED
    BY <1>3, <2>2, <2>3
<1> QED
  BY Zenon, <1>2, <1>4, RestartIsDeadly

\* So is one between the truncation of a suffix and the append.
LEMMA CrashBetweenTruncateAndAppendIsDeadly ==
  ASSUME TypeInv, NEW m \in rpcs, CrashBetweenTruncateAndAppend(m)
  PROVE  DeadlyStep(m.dst)
<1> DEFINE s == m.dst
           kept == SubSeq(log[s], 1, m.prevLogIndex + Min(NewEntries(s, m)) - 1)
<1>1. s \in Server
  BY ZenonT(30), MessageFields DEF TypeInv, TypeOK
<1>2. /\ LoseVolatile(s) /\ rpcs' = Orphaned(s, rpcs \ {m}) /\ rpcs \ {m} \subseteq rpcs
      /\ log' = [log EXCEPT ![s] = kept]
      /\ UNCHANGED <<currentTerm, acked, committed, leaderLog, elected>>
  BY ZenonT(30) DEF CrashBetweenTruncateAndAppend, history
<1> HIDE DEF kept
<1>3. \A p \in Server : p # s => log'[p] = log[p]
  BY <1>2 DEF TypeInv, TypeOK
<1>4. currentTerm'[s] >= currentTerm[s]
  <2>1. currentTerm[s] \in Int
    BY ZenonT(30), <1>1, TermsAreNatural DEF TypeInv, TypeOK
  <2>2. currentTerm'[s] = currentTerm[s] /\ currentTerm[s] >= currentTerm[s]
    BY Zenon, <1>2, <2>1, NotLessThanItself
  <2> QED
    BY Zenon, <2>2
<1> QED
  BY Zenon, <1>1, <1>2, <1>3, <1>4, RestartIsDeadly

-----------------------------------------------------------------------------
(* The assertions of the handlers.                                         *)

\* No assertion of handleAppendEntriesRequest fails: the term has one leader, what is
\* committed agrees with its log, and the commit index it sends is within the request.
LEMMA RequestAssertionsHold ==
  ASSUME CountingFacts, TypeInv, ElectionSafety, LogInv, CallInv, NEW m \in rpcs,
         m.kind = "AE_req",
         m.term >= currentTerm[m.dst]
  PROVE  AppendEntriesRequestAssert(m.dst, m) = {}
<1> DEFINE s == m.dst
           T == m.term
<1>1. /\ s \in Server /\ T \in Term /\ T \in Nat /\ currentTerm[s] \in Nat
      /\ m.prevLogIndex \in Nat /\ Len(m.entries) \in Nat /\ m.commitIndex \in Nat
      /\ leaderLog[T] # <<>> /\ AppendRequestIsSound(m)
      /\ log[s] \in Seq(Term) /\ Len(log[s]) \in Nat
  BY RequestFacts
<1>2. ASSUME T = currentTerm[s], leaderId[s] \notin {Nobody, m.src} PROVE FALSE
  <2>1. <<T, leaderId[s]>> \in elected /\ <<T, m.src>> \in elected
    BY <1>1, <1>2 DEF CallInv, AppendRequestIsSound
  <2>2. <<T, leaderId[s]>>[1] = <<T, m.src>>[1]
    OBVIOUS
  <2>3. <<T, leaderId[s]>>[2] = <<T, m.src>>[2]
    BY <2>1, <2>2 DEF ElectionSafety
  <2> QED
    BY <1>2, <2>3
<1>3. ASSUME PrevLogIsOk(s, m), TruncatesCommitted(s, m) PROVE FALSE
  <2> DEFINE k    == Min(NewEntries(s, m))
             kept == SubSeq(log[s], 1, m.prevLogIndex + k - 1)
  <2>1. NewEntries(s, m) # {} /\ m.prevLogIndex + k <= Min({Len(log[s]), commitIndex[s]})
    BY <1>3 DEF TruncatesCommitted, LastLogIndex
  <2>2. /\ k \in 1 .. Len(m.entries) /\ Len(kept) = m.prevLogIndex + k - 1
        /\ \A n \in Nat : Agree(log[s], leaderLog[T], n) => n <= Len(kept)
    BY ZenonT(30), <1>3, <2>1, KeptPart
  <2> HIDE DEF k, kept
  <2>3. commitIndex[s] \in Nat /\ commitIndex[s] <= Len(log[s])
    BY <1>1, IndexTypes
  <2>4. Min({Len(log[s]), commitIndex[s]}) = commitIndex[s]
    BY <1>1, <2>3, MinOfTwo
  <2>5. Safe(s, commitIndex[s])
    BY Zenon, <1>1 DEF LogInv, LogsAreSafe
  <2>6. currentTerm[s] <= T
    BY <1>1
  <2>7. Agree(log[s], leaderLog[T], commitIndex[s])
    BY ZenonT(30), <1>1, <2>3, <2>5, <2>6, CommittedPrefixAgrees
  <2>8. commitIndex[s] <= Len(kept)
    BY <2>2, <2>3, <2>7
  <2>9. k \in Nat
    BY <1>1, <2>2
  <2> QED
    BY <1>1, <2>1, <2>2, <2>3, <2>4, <2>8, <2>9
<1>4. ASSUME PrevLogIsOk(s, m), m.commitIndex > Len(LogAfterAppend(s, m)) PROVE FALSE
  <2>1. /\ Len(LogAfterAppend(s, m)) \in Nat
        /\ Agree(LogAfterAppend(s, m), leaderLog[T], m.prevLogIndex + Len(m.entries))
    BY Zenon, <1>4, AppendFollows
  <2>2. m.prevLogIndex + Len(m.entries) <= Len(LogAfterAppend(s, m))
    BY <2>1 DEF Agree
  <2>3. m.commitIndex <= m.prevLogIndex + Len(m.entries)
    BY <1>1 DEF AppendRequestIsSound
  <2> QED
    BY <1>1, <1>4, <2>1, <2>2, <2>3
<1> QED
  BY Zenon, <1>2, <1>3, <1>4 DEF AppendEntriesRequestAssert

\* So handling an AE_req is ordinary.
LEMMA HandleAppendEntriesRequestIsOrdinary ==
  ASSUME CountingFacts, TypeInv, ElectionSafety, LogInv, ClientInv, CallInv, NEW m \in rpcs,
         HandleAppendEntriesRequest(m)
  PROVE  OrdinaryStep
<1> DEFINE s == m.dst
           T == m.term
<1>1. /\ m.kind = "AE_req" /\ T >= currentTerm[s]
      /\ currentTerm' = [currentTerm EXCEPT ![s] = T]
      /\ UNCHANGED <<acked, committed, leaderLog, elected>>
  BY DEF HandleAppendEntriesRequest, Arrived
<1>2. FollowLeader(s, m) /\ ApplyAppendEntriesRequest(s, m)
  <2>1. AppendEntriesRequestAssert(s, m) = {}
    BY <1>1, RequestAssertionsHold
  <2> QED
    BY <2>1 DEF HandleAppendEntriesRequest
<1>3. /\ role' = [role EXCEPT ![s] = IF T > currentTerm[s] \/ @ = "Candidate" THEN "Follower" ELSE @]
      /\ leaderId' = [leaderId EXCEPT ![s] = m.src]
      /\ pending' = [pending EXCEPT ![s] = IF T > currentTerm[s] /\ role[s] = "Leader" THEN {} ELSE @]
      /\ failedAsserts' = failedAsserts
  BY ZenonT(30), <1>2 DEF FollowLeader, ApplyAppendEntriesRequest
<1>4. /\ s \in Server /\ T \in Nat /\ currentTerm[s] \in Nat /\ AppendRequestIsSound(m)
  BY Zenon, <1>1, RequestFacts
<1>5. \A x \in rpcs' : CallIsLed(x)
  <2>1. \E success \in BOOLEAN : \E last, match :
          Reply(m, AppendEntriesResponse(m, T, success, last, match))
    BY ZenonT(30), <1>2 DEF ApplyAppendEntriesRequest
  <2> QED
    BY <1>1, <2>1, AnswerIsLed DEF Reply
<1>6. \A p \in Server : p # s => Stays(p)
  <2>1. \E r : log' = [log EXCEPT ![s] = r]
    <3>1. CASE PrevLogIsOk(s, m)
      BY <1>2, <3>1 DEF ApplyAppendEntriesRequest
    <3>2. CASE ~PrevLogIsOk(s, m)
      <4>1. log' = [log EXCEPT ![s] = log[s]]
        BY ZenonT(30), <1>2, <3>2 DEF ApplyAppendEntriesRequest, TypeInv, TypeOK
      <4> QED
        BY ZenonT(30), <4>1
    <3> QED
      BY <3>1, <3>2
  <2>2. \A p \in Server : p # s => log'[p] = log[p]
    BY <2>1 DEF TypeInv, TypeOK
  <2> QED
    BY <1>1, <1>3, <2>2 DEF Stays, TypeInv, TypeOK
<1>7. currentTerm'[s] = T /\ leaderId'[s] = m.src
  BY <1>1, <1>3, <1>4 DEF TypeInv, TypeOK
<1>8. KnowsLeader(s)
  BY ZenonT(30), <1>4, <1>7 DEF KnowsLeader, AppendRequestIsSound
<1>9. CASE T > currentTerm[s]
  <2>1. MovesOn(s)
    BY <1>3, <1>4, <1>7, <1>8, <1>9 DEF MovesOn, TypeInv, TypeOK
  <2> QED
    BY <1>1, <1>3, <1>5, <1>6, <2>1 DEF OrdinaryStep
<1>10. CASE T = currentTerm[s]
  <2>1. role[s] # "Leader"
    BY ZenonT(30), <1>1, <1>10, ReceiverDoesNotLead
  <2>2. Obeys(s)
    BY <1>3, <1>4, <1>7, <1>8, <1>10, <2>1 DEF Obeys, TypeInv, TypeOK
  <2> QED
    BY <1>1, <1>3, <1>5, <1>6, <2>2 DEF OrdinaryStep
<1> QED
  BY <1>1, <1>4, <1>9, <1>10

-----------------------------------------------------------------------------
(* Leaders and their clients.                                              *)

\* A leader that appends an entry to its log keeps ClientInv.
LEMMA LeaderAppendsForClients ==
  ASSUME TypeInv, LogInv, ClientInv, NEW s \in Server, NEW u \in Term, u = currentTerm[s],
         leaderLog[u] \in {<<>>, log[s]},
         log' = [log EXCEPT ![s] = Append(log[s], u)],
         leaderLog' = [leaderLog EXCEPT ![u] = Append(log[s], u)],
         UNCHANGED <<currentTerm, acked, committed>>, role'[s] = "Leader",
         \A p \in Server : p # s => role'[p] = role[p] /\ pending'[p] = pending[p],
         pending'[s] \subseteq pending[s] \union {<<Len(log[s]) + 1, u>>}
  PROVE  ClientInv'
<1> DEFINE q == log[s]
           r == Append(q, u)
<1>1. /\ log \in [Server -> Seq(Term)] /\ leaderLog \in [Term -> Seq(Term)]
      /\ q \in Seq(Term) /\ Len(q) \in Nat
  BY ZenonT(30), LogTypes DEF LogInv, TypeInv, TypeOK
<1>2. /\ r \in Seq(Term) /\ Len(r) = Len(q) + 1 /\ r[Len(q) + 1] = u
      /\ \A i \in 1 .. Len(q) : r[i] = q[i]
  BY ZenonT(30), <1>1, AppendOne
<1>3. /\ log'[s] = r /\ \A p \in Server : p # s => log'[p] = log[p]
      /\ leaderLog'[u] = r /\ \A t \in Term : t # u => leaderLog'[t] = leaderLog[t]
  BY ZenonT(30), <1>1
<1> HIDE DEF r
<1>4. \A i, t : Has(q, i, t) => Has(r, i, t)
  BY Zenon, <1>1, <1>2, LongerHas
<1>5. Has(r, Len(q) + 1, u)
  BY <1>1, <1>2 DEF Has
<1>6. ASSUME NEW p \in Server, NEW e \in pending'[p]
      PROVE  role'[p] = "Leader" /\ e[2] = currentTerm'[p] /\ Has(log'[p], e[1], e[2])
  <2>1. \A x \in Server : \A d \in pending[x] :
          role[x] = "Leader" /\ d[2] = currentTerm[x] /\ Has(log[x], d[1], d[2])
    BY ZenonT(30) DEF ClientInv
  <2>2. CASE p # s
    BY ZenonT(30), <1>3, <1>6, <2>1, <2>2
  <2>3. CASE p = s /\ e \in pending[s]
    <3>1. role[s] = "Leader" /\ e[2] = currentTerm[s] /\ Has(q, e[1], e[2])
      BY Zenon, <2>1, <2>3
    <3>2. Has(r, e[1], e[2])
      BY <1>4, <3>1, Zenon
    <3>3. Has(log'[p], e[1], e[2])
      BY ZenonT(30), <1>3, <2>3, <3>2
    <3> QED
      BY ZenonT(30), <2>3, <3>1, <3>3
  <2>4. CASE p = s /\ e = <<Len(q) + 1, u>>
    BY ZenonT(30), <1>3, <1>5, <2>4
  <2> QED
    BY ZenonT(30), <1>6, <2>2, <2>3, <2>4
<1>7. ASSUME NEW a \in acked
      PROVE  \E c \in committed : c[2] = a[2] /\ a[1] <= c[1] /\ Has(leaderLog'[a[2]], a[1], a[2])
  <2>1. PICK c \in committed : c[2] = a[2] /\ a[1] <= c[1] /\ Has(leaderLog[a[2]], a[1], a[2])
    BY DEF ClientInv
  <2>2. a[2] \in Term
    BY DEF TypeInv, TypeOK
  <2>3. CASE a[2] # u
    BY ZenonT(30), <1>3, <2>1, <2>2, <2>3
  <2>4. CASE a[2] = u
    <3>1. leaderLog[u] # <<>>
      BY ZenonT(30), <2>1, <2>4, EmptyHasNothing
    <3>2. Has(r, a[1], a[2])
      BY ZenonT(30), <1>4, <2>1, <2>4, <3>1
    <3> QED
      BY ZenonT(30), <1>3, <2>1, <2>4, <3>2
  <2> QED
    BY ZenonT(30), <2>3, <2>4
<1> QED
  BY ZenonT(30), <1>6, <1>7 DEF ClientInv

\* A step in which everybody keeps its term, its hint and its calls, and no leader stops
\* leading, keeps CallInv.
LEMMA LeadersGoOn ==
  ASSUME TypeInv, TypeInv', LogInv, CallInv, UNCHANGED <<currentTerm, leaderId, rpcs>>,
         elected \subseteq elected', \A s \in Server : role[s] = "Leader" => role'[s] = "Leader"
  PROVE  CallInv'
<1>1. ASSUME NEW m \in rpcs' PROVE CallIsLed(m)'
  <2>1. m \in rpcs /\ m \in Message /\ CallIsLed(m)
    BY <1>1 DEF CallInv, TypeInv, TypeOK
  <2>2. m.src \in Server
    BY Zenon, <2>1, MessageFields
  <2>3. currentTerm[m.src] <= currentTerm'[m.src]
    <3>1. currentTerm[m.src] \in Nat
      BY Zenon, <2>2, TermsAreNatural DEF TypeInv, TypeOK
    <3> QED
      BY <3>1
  <2>4. LeadersAreElected
    BY Zenon DEF LogInv
  <2> QED
    BY <2>1, <2>2, <2>3, <2>4, CallStaysLed
<1>2. \A s \in Server : leaderId'[s] # Nobody => <<currentTerm'[s], leaderId'[s]>> \in elected'
  BY DEF CallInv
<1> QED
  BY <1>1, <1>2 DEF CallInv

\* becomeLeader keeps both invariants.
LEMMA BecomeLeaderKeeps ==
  ASSUME TypeInv, TypeInv', ElectionSafety', LogInv, ClientInv, CallInv,
         NEW s \in Server, BecomeLeader(s)
  PROVE  ClientInv' /\ CallInv'
<1> DEFINE u == currentTerm[s]
<1>1. /\ role[s] = "Candidate" /\ role' = [role EXCEPT ![s] = "Leader"]
      /\ log' = [log EXCEPT ![s] = Append(log[s], u)]
      /\ leaderLog' = [leaderLog EXCEPT ![u] = log'[s]]
      /\ elected' = elected \union {<<u, s>>}
      /\ UNCHANGED <<currentTerm, leaderId, pending, rpcs, committed, acked>>
  BY ZenonT(30) DEF BecomeLeader
<1>2. role'[s] = "Leader" /\ \A p \in Server : p # s => role'[p] = role[p]
  BY ZenonT(30), <1>1 DEF TypeInv, TypeOK
<1>3. u \in Term /\ LeadersAreElected
  BY DEF LogInv, TypeInv, TypeOK
<1>4. leaderLog' = [leaderLog EXCEPT ![u] = Append(log[s], u)]
  BY ZenonT(30), <1>1 DEF TypeInv, TypeOK
<1>5. leaderLog[u] = <<>>
  <2> SUFFICES ASSUME leaderLog[u] # <<>> PROVE FALSE
    OBVIOUS
  <2>1. PICK p \in Server : <<u, p>> \in elected
    BY Zenon, <1>3 DEF LeadersAreElected
  <2>2. <<u, p>> \in elected' /\ <<u, s>> \in elected' /\ <<u, p>>[1] = <<u, s>>[1]
    BY <1>1, <2>1
  <2>3. <<u, p>>[2] = <<u, s>>[2]
    BY <2>2 DEF ElectionSafety
  <2>4. <<u, s>> \in elected /\ <<u, s>>[1] = u /\ <<u, s>>[2] = s
    BY <2>1, <2>3
  <2> QED
    BY <1>1, <1>3, <2>4 DEF LeadersAreElected
<1>6. ClientInv'
  BY ZenonT(30), <1>1, <1>2, <1>3, <1>4, <1>5, LeaderAppendsForClients
<1>7. CallInv'
  <2>1. \A p \in Server : role[p] = "Leader" => role'[p] = "Leader"
    BY <1>2
  <2> QED
    BY <1>1, <2>1, LeadersGoOn
<1> QED
  BY <1>6, <1>7

\* So does a client request.
LEMMA HandleClientRequestsKeeps ==
  ASSUME TypeInv, TypeInv', LogInv, ClientInv, CallInv, NEW s \in Server, HandleClientRequests(s)
  PROVE  ClientInv' /\ CallInv'
<1> DEFINE u == currentTerm[s]
<1>1. /\ role[s] = "Leader" /\ role' = role
      /\ log' = [log EXCEPT ![s] = Append(log[s], u)]
      /\ leaderLog' = [leaderLog EXCEPT ![u] = log'[s]]
      /\ pending' = [pending EXCEPT ![s] = @ \union {<<Len(log[s]) + 1, u>>}]
      /\ UNCHANGED <<currentTerm, leaderId, rpcs, committed, acked, elected>>
  BY ZenonT(30) DEF HandleClientRequests, LastLogIndex
<1>2. u \in Term /\ leaderLog[u] = log[s]
  BY ZenonT(30), <1>1 DEF LogInv, LeadersAreElected, TypeInv, TypeOK
<1>3. leaderLog' = [leaderLog EXCEPT ![u] = Append(log[s], u)]
  BY ZenonT(30), <1>1 DEF TypeInv, TypeOK
<1>4. /\ pending'[s] \subseteq pending[s] \union {<<Len(log[s]) + 1, u>>}
      /\ \A p \in Server : p # s => pending'[p] = pending[p]
  BY ZenonT(30), <1>1 DEF TypeInv, TypeOK
<1>5. ClientInv'
  BY ZenonT(30), <1>1, <1>2, <1>3, <1>4, LeaderAppendsForClients
<1>6. CallInv'
  BY Zenon, <1>1, LeadersGoOn
<1> QED
  BY <1>5, <1>6

\* And so does advanceCommitIndex: it answers for entries of its term below the commit.
LEMMA AdvanceCommitIndexKeeps ==
  ASSUME TypeInv, TypeInv', LogInv, ClientInv, CallInv, NEW s \in Server, AdvanceCommitIndex(s)
  PROVE  ClientInv' /\ CallInv'
<1> SUFFICES ASSUME NEW n, n = MajorityIndex(s), NEW u, u = currentTerm[s] PROVE ClientInv' /\ CallInv'
  OBVIOUS
<1>1. /\ role[s] = "Leader" /\ TermOfLogEntryAt(s, n) = u
      /\ committed' = committed \union {<<n, log[s][n]>>}
      /\ acked' = acked \union {e \in pending[s] : e[1] <= n}
      /\ pending' = [pending EXCEPT ![s] = @ \ {e \in pending[s] : e[1] <= n}]
      /\ UNCHANGED <<currentTerm, log, role, leaderId, rpcs, elected, leaderLog>>
  BY ZenonT(30) DEF AdvanceCommitIndex, MayCommit, Answered, persistent
<1>2. log[s] = leaderLog[u] /\ u >= 1
  BY ZenonT(30), <1>1 DEF LogInv, LeadersAreElected
<1>3. log[s][n] = u
  BY <1>1, <1>2 DEF TermOfLogEntryAt
<1>4. \A p \in Server : pending'[p] \subseteq pending[p]
  BY ZenonT(30), <1>1 DEF TypeInv, TypeOK
<1>5. \A p \in Server : \A e \in pending'[p] :
        role'[p] = "Leader" /\ e[2] = currentTerm'[p] /\ Has(log'[p], e[1], e[2])
  BY ZenonT(30), <1>1, <1>4 DEF ClientInv
<1>6. ASSUME NEW a \in acked'
      PROVE  \E c \in committed' : c[2] = a[2] /\ a[1] <= c[1] /\ Has(leaderLog'[a[2]], a[1], a[2])
  <2>1. CASE a \in acked
    <3>1. PICK c \in committed : c[2] = a[2] /\ a[1] <= c[1] /\ Has(leaderLog[a[2]], a[1], a[2])
      BY ZenonT(30), <2>1 DEF ClientInv
    <3> QED
      BY ZenonT(30), <1>1, <3>1
  <2>2. CASE a \in pending[s] /\ a[1] <= n
    <3> DEFINE c == <<n, u>>
    <3>1. a[2] = u /\ Has(log[s], a[1], a[2])
      BY Zenon, <2>2 DEF ClientInv
    <3>2. c \in committed' /\ c[1] = n /\ c[2] = u
      BY ZenonT(30), <1>1, <1>3
    <3>3. Has(leaderLog'[a[2]], a[1], a[2])
      BY ZenonT(30), <1>1, <1>2, <3>1
    <3> HIDE DEF c
    <3> QED
      BY ZenonT(30), <2>2, <3>1, <3>2, <3>3
  <2> QED
    BY ZenonT(30), <1>1, <1>6, <2>1, <2>2
<1>7. ClientInv'
  BY ZenonT(30), <1>5, <1>6 DEF ClientInv
<1>8. CallInv'
  BY Zenon, <1>1, LeadersGoOn
<1> QED
  BY <1>7, <1>8

=============================================================================
