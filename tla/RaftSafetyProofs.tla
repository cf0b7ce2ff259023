------------------------- MODULE RaftSafetyProofs --------------------------
(*****************************************************************************)
(* The theorems about RaftCore.                                              *)
(*                                                                           *)
(* The steps that change a log or commit come first: becomeLeader, a client  *)
(* request, advanceCommitIndex and an accepted AE_req. Each is shown to      *)
(* evolve the state in the sense of RaftInvariants and to add only what is   *)
(* sound.                                                                    *)
(*****************************************************************************)
EXTENDS RaftServerProofs, RaftStepProofs

\* A leaf that names no prover is tried with SMT, with Zenon, and again with SMT and ever more time.
USE SMT, Zenon, SMTT(10), SMTT(20), SMTT(30), SMTT(40), SMTT(60)

-----------------------------------------------------------------------------
(* A leader appends to its log.                                            *)

\* The new log of a leader is put together from logs of leaders, its own among them.
LEMMA AppendTraced ==
  ASSUME NEW L \in [Term -> Seq(Term)], NEW q \in Seq(Term), NEW u \in Term, u >= 1,
         Traced(L, q), L[u] = Append(q, u), Bounded(q, u)
  PROVE  Traced(L, Append(q, u)) /\ Bounded(Append(q, u), u)
<1> DEFINE r == Append(q, u)
<1>1. /\ r \in Seq(Term) /\ Len(r) = Len(q) + 1 /\ Len(q) \in Nat
      /\ r[Len(q) + 1] = u /\ \A i \in 1 .. Len(q) : r[i] = q[i]
      /\ Agree(q, r, Len(q))
  BY AppendOne
<1>2. L[u] = r /\ u \in Nat
  BY TermsAreNatural
<1> HIDE DEF r
<1>3. ASSUME NEW i \in 1 .. Len(r)
      PROVE  r[i] >= 1 /\ r[i] <= u /\ Agree(r, L[r[i]], i)
  <2>1. CASE i = Len(q) + 1
    <3>1. i \in Int /\ i <= Len(r)
      BY <1>1, <2>1
    <3>2. Agree(r, r, i)
      BY <1>1, <3>1, AgreeReflexive
    <3>3. r[i] = u /\ u <= u
      BY <1>1, <1>2, <2>1
    <3> QED
      BY <1>2, <3>2, <3>3
  <2>2. CASE i # Len(q) + 1
    <3>1. i \in 1 .. Len(q) /\ i \in Int /\ i <= Len(q) /\ Len(q) \in Int
      BY <1>1, <2>2
    <3>2. r[i] = q[i] /\ q[i] >= 1 /\ Agree(q, L[q[i]], i) /\ q[i] <= u
      BY <1>1, <3>1 DEF Traced, Bounded
    <3>3. Agree(r, q, i)
      BY <1>1, <3>1, AgreeBelow, AgreeSymmetric
    <3> QED
      BY <3>2, <3>3, AgreeTransitive
  <2> QED
    BY <2>1, <2>2
<1> QED
  BY <1>3 DEF Traced, Bounded, r

\* What becomeLeader and handleClientRequests do to the logs of leaders.
LEMMA LeaderAppends ==
  ASSUME TypeInv, LogInv, NEW s \in Server, NEW u \in Term, u = currentTerm[s], u >= 1,
         leaderLog[u] \in {<<>>, log[s]},
         log' = [log EXCEPT ![s] = Append(log[s], u)],
         leaderLog' = [leaderLog EXCEPT ![u] = Append(log[s], u)],
         electors' \in [Term -> SUBSET Server], currentTerm' = currentTerm
  PROVE  /\ HistoryOK' /\ LogsAreTraced' /\ LogsGrow(leaderLog, leaderLog') /\ LogsEvolve
         /\ log'[s] = Append(log[s], u) /\ leaderLog'[u] = Append(log[s], u)
         /\ leaderLog'[u] # <<>>
         /\ \A p \in Server : p # s => log'[p] = log[p]
         /\ \A w \in Term : w # u => leaderLog'[w] = leaderLog[w]
<1> DEFINE r == Append(log[s], u)
<1>1. /\ leaderLog \in [Term -> Seq(Term)]
      /\ \A p \in Server : log[p] \in Seq(Term) /\ Len(log[p]) \in Nat /\ Len(log[p]) <= Len(log[p])
      /\ \A w \in Term : leaderLog[w] \in Seq(Term) /\ Len(leaderLog[w]) \in Nat
      /\ LogsAreTraced
  <2>1. HistoryOK /\ LogsAreTraced
    BY DEF LogInv
  <2>2. /\ leaderLog \in [Term -> Seq(Term)]
        /\ \A p \in Server : log[p] \in Seq(Term) /\ Len(log[p]) \in Nat
        /\ \A w \in Term : leaderLog[w] \in Seq(Term) /\ Len(leaderLog[w]) \in Nat
    BY Zenon, <2>1, LogTypes
  <2>3. \A n \in Nat : n <= n
    OBVIOUS
  <2> QED
    BY <2>1, <2>2, <2>3
<1>2. /\ r \in Seq(Term) /\ r # <<>> /\ Agree(log[s], r, Len(log[s])) /\ Grown(log[s], r, u)
  BY Zenon, <1>1, AppendOne
<1> HIDE DEF r
<1>3. /\ log'[s] = r /\ \A p \in Server : p # s => log'[p] = log[p]
      /\ leaderLog'[u] = r /\ \A w \in Term : w # u => leaderLog'[w] = leaderLog[w]
  BY <1>1 DEF r, TypeInv, TypeOK
<1>4. leaderLog' \in [Term -> Seq(Term)]
  BY <1>1, <1>2 DEF r
<1>5. LogsGrow(leaderLog, leaderLog')
  <2> SUFFICES ASSUME NEW w \in Term, leaderLog[w] # <<>> PROVE Grown(leaderLog[w], leaderLog'[w], w)
    BY DEF LogsGrow
  <2>1. CASE w = u
    BY Zenon, <1>2, <1>3, <2>1
  <2>2. CASE w # u
    <3>1. Agree(leaderLog[w], leaderLog[w], Len(leaderLog[w]))
      BY <1>1, AgreeReflexive
    <3> QED
      BY <1>1, <1>3, <2>2, <3>1 DEF Grown
  <2> QED
    BY <2>1, <2>2
<1>6. LogsAreTraced'
  <2>1. \A q \in Seq(Term) : Traced(leaderLog, q) => Traced(leaderLog', q)
    BY Zenon, <1>1, <1>4, <1>5, GrownTraced
  <2>2. Traced(leaderLog', log[s]) /\ Bounded(log[s], u)
    BY Zenon, <1>1, <2>1 DEF LogsAreTraced
  <2>3. Traced(leaderLog', r) /\ Bounded(r, u)
    BY Zenon, <1>1, <1>3, <1>4, <2>2, AppendTraced DEF r
  <2>4. \A p \in Server : Traced(leaderLog', log'[p]) /\ Bounded(log'[p], currentTerm'[p])
    BY Zenon, <1>1, <1>3, <2>1, <2>3 DEF LogsAreTraced
  <2>5. \A w \in Term : Traced(leaderLog', leaderLog'[w]) /\ Bounded(leaderLog'[w], w)
    BY Zenon, <1>1, <1>3, <2>1, <2>3 DEF LogsAreTraced
  <2> QED
    BY Zenon, <2>4, <2>5 DEF LogsAreTraced
<1>7. LogsEvolve
  <2>1. \A p \in Server : Agree(log[p], log[p], Len(log[p]))
    BY <1>1, AgreeReflexive
  <2>2. \A p \in Server : Agree(log[p], log'[p], Len(log[p]))
    BY ZenonT(30), <1>2, <1>3, <2>1
  <2> QED
    BY <2>2 DEF LogsEvolve
<1>8. HistoryOK'
  BY <1>4 DEF HistoryOK
<1> QED
  BY <1>2, <1>3, <1>5, <1>6, <1>7, <1>8 DEF r

\* handleClientRequests keeps LogInv: the leader's log and its history grow together.
LEMMA HandleClientRequestsKeepsLogInv ==
  ASSUME CountingFacts, TypeInv, TypeInv', ElectionSafety, LogInv, NEW s \in Server,
         HandleClientRequests(s)
  PROVE  LogInv'
<1> DEFINE u == currentTerm[s]
<1>1. /\ role[s] = "Leader"
      /\ log' = [log EXCEPT ![s] = Append(log[s], u)]
      /\ leaderLog' = [leaderLog EXCEPT ![u] = log'[s]]
      /\ UNCHANGED <<currentTerm, firstIndex, role, commitIndex, peers, rpcs, votes, elected,
                     committed, electors>>
  BY Zenon DEF HandleClientRequests
<1>2. HistoryOK /\ LogsAreTraced /\ LeadersAreElected /\ ElectorsVoted
  BY DEF LogInv
<1>3. /\ <<u, s>> \in elected /\ log[s] = leaderLog[u] /\ u >= 1
  BY <1>1, <1>2 DEF LeadersAreElected
<1>4. u \in Term /\ \A p \in Server : currentTerm[p] \in Term /\ currentTerm[p] \in Nat
  BY <1>2, LogTypes
<1>5. leaderLog' = [leaderLog EXCEPT ![u] = Append(log[s], u)]
  BY <1>1 DEF TypeInv, TypeOK
<1>6. electors' \in [Term -> SUBSET Server]
  BY <1>1, <1>2 DEF HistoryOK
<1> HIDE DEF u
<1>7. /\ HistoryOK' /\ LogsAreTraced' /\ LogsGrow(leaderLog, leaderLog') /\ LogsEvolve
      /\ log'[s] = leaderLog'[u] /\ leaderLog'[u] # <<>>
      /\ \A p \in Server : p # s => log'[p] = log[p]
      /\ \A w \in Term : w # u => leaderLog'[w] = leaderLog[w]
  <2>1. u = currentTerm[s] /\ leaderLog[u] \in {<<>>, log[s]} /\ currentTerm' = currentTerm
        /\ log' = [log EXCEPT ![s] = Append(log[s], u)]
    BY <1>1, <1>3 DEF u
  <2>2. /\ HistoryOK' /\ LogsAreTraced' /\ LogsGrow(leaderLog, leaderLog') /\ LogsEvolve
        /\ log'[s] = Append(log[s], u) /\ leaderLog'[u] = Append(log[s], u)
        /\ leaderLog'[u] # <<>>
        /\ \A p \in Server : p # s => log'[p] = log[p]
        /\ \A w \in Term : w # u => leaderLog'[w] = leaderLog[w]
    BY <1>3, <1>4, <1>5, <1>6, <2>1, LeaderAppends, ZenonT(30)
  <2> QED
    BY <2>2, Zenon
<1>8. leaderLog[u] # <<>>
  <2>1. \A e \in elected : leaderLog[e[1]] # <<>>
    BY Zenon, <1>2 DEF LeadersAreElected
  <2>2. <<u, s>>[1] = u
    OBVIOUS
  <2> QED
    BY <1>3, <2>1, <2>2
<1>9. \A w \in Term : leaderLog'[w] # <<>> <=> leaderLog[w] # <<>>
  BY ZenonT(30), <1>7, <1>8
<1>10. LeadersAreElected'
  <2>1. ASSUME NEW p \in Server, role[p] = "Leader"
        PROVE  <<currentTerm[p], p>> \in elected /\ log'[p] = leaderLog'[currentTerm[p]]
    <3>1. <<currentTerm[p], p>> \in elected /\ log[p] = leaderLog[currentTerm[p]]
      BY <1>2, <2>1 DEF LeadersAreElected
    <3>2. CASE p = s
      BY <1>7, <3>1, <3>2 DEF u
    <3>3. CASE p # s
      <4>1. currentTerm[p] # u
        BY <1>3, <3>1, <3>3 DEF ElectionSafety
      <4> QED
        BY <1>4, <1>7, <3>1, <3>3, <4>1
    <3> QED
      BY <3>2, <3>3
  <2>2. \A e \in elected : e[1] \in Term
    BY DEF TypeInv, TypeOK
  <2> QED
    BY <1>1, <1>2, <1>9, <2>1, <2>2 DEF LeadersAreElected
<1>11. ElectorsVoted'
  BY <1>1, <1>2, <1>9 DEF ElectorsVoted
<1>12. Evolves
  <2>1. LeaderLogsEvolve
    BY <1>1, <1>7, <1>9 DEF LeaderLogsEvolve
  <2>2. \A p \in Server : role[p] = "Candidate" => log'[p] = log[p]
    BY <1>1, <1>7
  <2>3. CandidatesEvolve
    BY <1>1, <2>2 DEF CandidatesEvolve
  <2>4. \A p \in Server : currentTerm[p] <= currentTerm'[p]
    BY <1>1, <1>4
  <2> QED
    BY ZenonT(30), <1>1, <1>7, <2>1, <2>3, <2>4 DEF Evolves
<1>13. LogsAreSafe'
  BY <1>1, <1>7, <1>12, IndexesStaySafe
<1> QED
  BY Zenon, <1>1, <1>7, <1>10, <1>11, <1>12, <1>13, EvolvingStep
     DEF LogInv, MatchesAreSound, RpcsAreSound

\* becomeLeader keeps LogInv: it is the first of its term to lead, and all its electors
\* voted for the log it starts from.
LEMMA BecomeLeaderKeepsLogInv ==
  ASSUME CountingFacts, TypeInv, TypeInv', VoteInv, ElectionSafety', LogInv, NEW s \in Server,
         BecomeLeader(s)
  PROVE  LogInv'
<1> DEFINE u == currentTerm[s]
           voters == {s} \union {p \in Server : peers[s][p].haveVote}
<1>1. /\ role[s] = "Candidate" /\ Cardinality(voters) >= Majority
      /\ role' = [role EXCEPT ![s] = "Leader"]
      /\ log' = [log EXCEPT ![s] = Append(log[s], u)]
      /\ leaderLog' = [leaderLog EXCEPT ![u] = log'[s]]
      /\ electors' = [electors EXCEPT ![u] = voters]
      /\ elected' = elected \union {<<u, s>>}
      /\ UNCHANGED <<currentTerm, firstIndex, commitIndex, rpcs, votes, committed>>
  BY ZenonT(30) DEF BecomeLeader
<1>1a. \A p \in Server : p # s => peers'[p] = peers[p]
  BY Zenon DEF BecomeLeader, TypeInv, TypeOK
<1>1b. \A p \in Server : peers'[s][p].matchIndex = 0
  <2> SUFFICES ASSUME NEW p \in Server PROVE peers'[s][p].matchIndex = 0
    OBVIOUS
  <2> DEFINE n == LastLogIndex(s) + 1
             v == [peers[s][p] EXCEPT !.nextIndex = n, !.matchIndex = 0,
                                      !.suppressBulkData = TRUE, !.switchOn = TRUE]
  <2>1. peers'[s][p] = v
    BY Zenon DEF BecomeLeader, TypeInv, TypeOK
  <2>2. peers[s][p] \in Peer
    BY DEF TypeInv, TypeOK
  <2> HIDE DEF n
  <2>3. v.matchIndex = 0
    BY <2>2 DEF Peer
  <2> QED
    BY <2>1, <2>3
<1>2. HistoryOK /\ LogsAreTraced /\ LeadersAreElected /\ ElectorsVoted
  BY DEF LogInv
<1>3. u >= 1
  BY Zenon, <1>1, <1>2 DEF LeadersAreElected
<1>4. u \in Term /\ \A p \in Server : currentTerm[p] \in Term /\ currentTerm[p] \in Nat
  BY <1>2, LogTypes
<1>5. leaderLog' = [leaderLog EXCEPT ![u] = Append(log[s], u)]
  BY ZenonT(30), <1>1 DEF TypeInv, TypeOK
<1>6. voters \in SUBSET Server /\ \A q \in voters : <<q, u, s>> \in votes /\ u <= currentTerm[q]
  <2>1. voters \in SUBSET Server /\ \A q \in voters : <<q, u, s>> \in votes
    BY Zenon, <1>1 DEF VoteInv, VotesAreCast
  <2>2. \A q \in Server : <<q, u, s>>[1] = q /\ <<q, u, s>>[2] = u
    OBVIOUS
  <2> QED
    BY ZenonT(30), <2>1, <2>2 DEF VoteInv, VotesArePersistent
<1> HIDE DEF voters
<1>7. /\ electors' \in [Term -> SUBSET Server] /\ electors'[u] = voters
      /\ \A w \in Term : w # u => electors'[w] = electors[w]
  BY <1>1, <1>2, <1>4, <1>6 DEF HistoryOK
<1> HIDE DEF u
<1>8. leaderLog[u] = <<>>
  <2> SUFFICES ASSUME leaderLog[u] # <<>> PROVE FALSE
    OBVIOUS
  <2>1. PICK p \in Server : <<u, p>> \in elected
    BY <1>2, <1>4 DEF LeadersAreElected
  <2>2. p = s
    <3>1. <<u, p>> \in elected' /\ <<u, s>> \in elected'
      BY <1>1, <2>1
    <3>2. <<u, p>>[1] = <<u, s>>[1] /\ <<u, p>>[2] = p /\ <<u, s>>[2] = s
      OBVIOUS
    <3>3. <<u, p>>[2] = <<u, s>>[2]
      BY <3>1, <3>2, Zenon DEF ElectionSafety
    <3> QED
      BY <3>2, <3>3
  <2>3. <<u, s>>[1] = u /\ <<u, s>>[2] = s
    OBVIOUS
  <2>4. role[s] # "Candidate"
    BY <1>2, <2>1, <2>2, <2>3 DEF LeadersAreElected, u
  <2> QED
    BY <1>1, <2>4
<1>9. /\ HistoryOK' /\ LogsAreTraced' /\ LogsGrow(leaderLog, leaderLog') /\ LogsEvolve
      /\ log'[s] = leaderLog'[u] /\ leaderLog'[u] = Append(log[s], u) /\ leaderLog'[u] # <<>>
      /\ \A p \in Server : p # s => log'[p] = log[p]
      /\ \A w \in Term : w # u => leaderLog'[w] = leaderLog[w]
  <2>1. u = currentTerm[s] /\ leaderLog[u] \in {<<>>, log[s]} /\ currentTerm' = currentTerm
        /\ log' = [log EXCEPT ![s] = Append(log[s], u)]
    BY <1>1, <1>8 DEF u
  <2>2. /\ HistoryOK' /\ LogsAreTraced' /\ LogsGrow(leaderLog, leaderLog') /\ LogsEvolve
        /\ log'[s] = Append(log[s], u) /\ leaderLog'[u] = Append(log[s], u)
        /\ leaderLog'[u] # <<>>
        /\ \A p \in Server : p # s => log'[p] = log[p]
        /\ \A w \in Term : w # u => leaderLog'[w] = leaderLog[w]
    BY <1>3, <1>4, <1>5, <1>7, <2>1, LeaderAppends, ZenonT(30)
  <2> QED
    BY <2>2, Zenon
<1>10. role'[s] = "Leader" /\ \A p \in Server : p # s => role'[p] = role[p]
  BY Zenon, <1>1 DEF TypeInv, TypeOK
<1>11. LeadersAreElected'
  <2>1. \A p \in Server : role'[p] # "Follower" => currentTerm[p] >= 1
    BY ZenonT(30), <1>2, <1>3, <1>10 DEF LeadersAreElected, u
  <2>2. ASSUME NEW p \in Server, role'[p] = "Leader"
        PROVE  <<currentTerm[p], p>> \in elected' /\ log'[p] = leaderLog'[currentTerm[p]]
    <3>1. CASE p = s
      BY <1>1, <1>9, <3>1 DEF u
    <3>2. CASE p # s
      <4>1. <<currentTerm[p], p>> \in elected /\ log[p] = leaderLog[currentTerm[p]]
        BY Zenon, <1>2, <1>10, <2>2, <3>2 DEF LeadersAreElected
      <4>2. <<currentTerm[p], p>>[1] = currentTerm[p]
        OBVIOUS
      <4>3. leaderLog[currentTerm[p]] # <<>>
        BY ZenonT(30), <1>2, <4>1, <4>2 DEF LeadersAreElected
      <4>4. currentTerm[p] # u
        BY Zenon, <1>8, <4>3
      <4> QED
        BY <1>1, <1>4, <1>9, <3>2, <4>1, <4>4
    <3> QED
      BY Zenon, <3>1, <3>2
  <2>3. \A w \in Term : leaderLog'[w] # <<>> => \E p \in Server : <<w, p>> \in elected'
    <3>1. \A w \in Term : w # u /\ leaderLog'[w] # <<>> => \E p \in Server : <<w, p>> \in elected
      BY Zenon, <1>2, <1>9 DEF LeadersAreElected
    <3> QED
      BY <1>1, <3>1
  <2>4. ASSUME NEW e \in elected'
        PROVE  /\ leaderLog'[e[1]] # <<>>
               /\ e[1] <= currentTerm[e[2]]
               /\ e[1] = currentTerm[e[2]] => role'[e[2]] # "Candidate"
    <3>1. CASE e = <<u, s>>
      <4>1. e[1] = u /\ e[2] = s /\ u <= u
        BY <1>4, TermsAreNatural, <3>1
      <4> QED
        BY Zenon, <1>9, <1>10, <4>1 DEF u
    <3>2. CASE e \in elected
      <4>1. e[1] \in Term /\ e[2] \in Server
        BY <3>2 DEF TypeInv, TypeOK
      <4>2. /\ leaderLog[e[1]] # <<>> /\ e[1] <= currentTerm[e[2]]
            /\ e[1] = currentTerm[e[2]] => role[e[2]] # "Candidate"
        BY ZenonT(30), <1>2, <3>2 DEF LeadersAreElected
      <4> QED
        BY ZenonT(30), <1>8, <1>9, <1>10, <4>1, <4>2
    <3> QED
      BY <1>1, <3>1, <3>2
  <2> QED
    BY <1>1, <2>1, <2>2, <2>3, <2>4 DEF LeadersAreElected
<1>12. ElectorsVoted'
  <2>1. \A w \in Term : leaderLog'[w] # <<>> => Cardinality(electors'[w]) >= Majority
    BY ZenonT(30), <1>1, <1>2, <1>7, <1>9 DEF ElectorsVoted
  <2>2. \A w \in Term : \A q \in electors'[w] : w <= currentTerm[q]
    BY ZenonT(30), <1>2, <1>6, <1>7 DEF ElectorsVoted
  <2> QED
    BY Zenon, <1>1, <1>2, <2>1, <2>2 DEF ElectorsVoted
<1>13. Evolves
  <2>1. LeaderLogsEvolve
    <3>1. \A w \in Term : leaderLog[w] # <<>> => electors'[w] = electors[w]
      BY <1>7, <1>8
    <3>2. ASSUME NEW w \in Term, leaderLog[w] = <<>>, leaderLog'[w] # <<>>
          PROVE  /\ Cardinality(electors'[w]) >= Majority
                 /\ \E p \in Server : /\ role[p] = "Candidate" /\ currentTerm[p] = w
                                      /\ leaderLog'[w] = Append(log[p], w)
                                      /\ \A q \in electors'[w] : <<q, w, p>> \in votes
      <4>1. w = u
        BY <1>9, <3>2
      <4>2. /\ role[s] = "Candidate" /\ currentTerm[s] = w /\ leaderLog'[w] = Append(log[s], w)
            /\ \A q \in electors'[w] : <<q, w, s>> \in votes
        BY <1>1, <1>6, <1>7, <1>9, <4>1 DEF u
      <4> QED
        BY <1>1, <1>7, <4>1, <4>2
    <3> QED
      BY Zenon, <1>9, <3>1, <3>2 DEF LeaderLogsEvolve
  <2>2. \A p \in Server : role'[p] = "Candidate" => role[p] = "Candidate" /\ log'[p] = log[p]
    BY Zenon, <1>9, <1>10
  <2>3. CandidatesEvolve
    BY <1>1, <2>2 DEF CandidatesEvolve
  <2>4. \A p \in Server : currentTerm[p] <= currentTerm'[p]
    BY <1>1, <1>4
  <2> QED
    BY <1>1, <1>9, <2>1, <2>3, <2>4 DEF Evolves
<1>14. LogsAreSafe'
  BY ZenonT(30), <1>1, <1>9, <1>13, IndexesStaySafe
<1>15. \A p, q \in Server : role'[p] = "Leader" =>
         Acknowledged(q, currentTerm'[p], peers'[p][q].matchIndex)
  <2>1. \A q \in Server : Acknowledged(q, currentTerm[s], peers'[s][q].matchIndex)
    BY ZenonT(30), <1>1b DEF Acknowledged
  <2> QED
    BY ZenonT(30), <1>1, <1>1a, <1>10, <2>1 DEF LogInv, MatchesAreSound
<1> QED
  BY ZenonT(30), <1>1, <1>9, <1>11, <1>12, <1>13, <1>14, <1>15, EvolvingStep DEF LogInv, RpcsAreSound

-----------------------------------------------------------------------------
(* A leader commits.                                                       *)

\* A leader stands by every entry of its term.
LEMMA LeaderStands ==
  ASSUME TypeInv, VoteInv, LogInv, NEW s \in Server, NEW i, Has(log[s], i, currentTerm[s])
  PROVE  Stands(s, i, currentTerm[s])
<1>1. ElectorsVoted /\ \A p \in Server : currentTerm[p] \in Nat
  BY LogTypes DEF LogInv
<1>2. Keeps(s, i, currentTerm[s])
  BY <1>1 DEF Keeps
<1>3. ElectsWell(s, i, currentTerm[s])
  <2> SUFFICES ASSUME NEW w \in Term, currentTerm[s] < w, s \in electors[w] PROVE FALSE
    BY DEF ElectsWell
  <2>1. w <= currentTerm[s] /\ w \in Nat
    BY <1>1, TermsAreNatural DEF ElectorsVoted
  <2> QED
    BY <1>1, <2>1
<1>4. BacksWell(s, i, currentTerm[s])
  <2> SUFFICES ASSUME NEW p \in Server, currentTerm[s] < currentTerm[p], <<s, currentTerm[p], p>> \in votes
               PROVE  FALSE
    BY DEF BacksWell
  <2>1. <<s, currentTerm[p], p>>[1] = s /\ <<s, currentTerm[p], p>>[2] = currentTerm[p]
    OBVIOUS
  <2>2. currentTerm[p] <= currentTerm[s]
    BY <2>1 DEF VoteInv, VotesArePersistent
  <2> QED
    BY <1>1, <2>2
<1> QED
  BY Zenon, <1>2, <1>3, <1>4 DEF Stands

\* If a majority stands by an entry, no later leader is the first to miss it, so none
\* misses it.
LEMMA StandingMajorityKeeps ==
  ASSUME CountingFacts, TypeInv, LogInv, NEW i, NEW t \in Term, NEW Q \in SUBSET Server,
         Cardinality(Q) >= Majority, \A q \in Q : Stands(q, i, t)
  PROVE  \A u \in Term : t < u => ~Misses(leaderLog, u, i, t)
<1> DEFINE W == {u \in Term : t < u /\ Misses(leaderLog, u, i, t)}
<1> SUFFICES ASSUME W # {} PROVE FALSE
  OBVIOUS
<1>1. W \subseteq Nat
  BY Zenon, TermsAreNatural
<1>2. PICK w \in W : \A u \in W : w <= u
  <2> HIDE DEF W
  <2> QED
    BY Zenon, <1>1, MinOfNaturals
<1>3. w \in Term /\ t < w /\ leaderLog[w] # <<>> /\ ~Has(leaderLog[w], i, t)
  BY DEF Misses
<1>4. Cardinality(electors[w]) >= Majority /\ electors[w] \in SUBSET Server
  BY <1>3 DEF LogInv, ElectorsVoted, HistoryOK
<1>5. PICK q : q \in Q /\ q \in electors[w]
  <2>1. Q \intersect electors[w] # {}
    BY Zenon, <1>4, MajoritiesIntersect
  <2> QED
    BY ZenonT(30), <2>1
<1>6. MissedBefore(leaderLog, i, t, w)
  BY Zenon, <1>3, <1>5 DEF Stands, ElectsWell
<1>7. PICK u \in Term : t < u /\ u < w /\ Misses(leaderLog, u, i, t)
  BY <1>6 DEF MissedBefore
<1>8. u \in W /\ u \in Nat /\ w \in Nat
  BY <1>3, <1>7, TermsAreNatural
<1>9. w <= u
  BY <1>2, <1>8
<1> QED
  BY <1>7, <1>8, <1>9

\* advanceCommitIndex keeps LogInv: the entry is of the leader's own term, so whoever
\* acknowledged it stands by it.
LEMMA AdvanceCommitIndexKeepsLogInv ==
  ASSUME CountingFacts, TypeInv, TypeInv', VoteInv, LogInv, NEW s \in Server,
         AdvanceCommitIndex(s)
  PROVE  LogInv'
<1> SUFFICES ASSUME NEW n, n = MajorityIndex(s), NEW u, u = currentTerm[s] PROVE LogInv'
  OBVIOUS
<1> DEFINE Q == {p \in Server : MatchIndexes(s)[p] >= n}
<1>1. /\ role[s] = "Leader" /\ n > commitIndex[s] /\ TermOfLogEntryAt(s, n) = u
      /\ commitIndex' = [commitIndex EXCEPT ![s] = n]
      /\ committed' = committed \union {<<n, log[s][n]>>}
      /\ UNCHANGED <<currentTerm, log, firstIndex, role, peers, rpcs, votes, elected, leaderLog, electors>>
  BY Zenon DEF AdvanceCommitIndex, MayCommit, persistent
<1>2. HistoryOK /\ LogsAreTraced /\ LeadersAreElected /\ ElectorsVoted /\ LogsAreSafe
  BY DEF LogInv
<1>3. n \in 0 .. Len(log[s]) /\ Cardinality(Q) >= Majority
  BY ZenonT(30), MajorityIndexType
<1>4. /\ log[s] \in Seq(Term) /\ Len(log[s]) \in Nat /\ u \in Term /\ u \in Nat
      /\ \A p \in Server : currentTerm[p] \in Nat
      /\ commitIndex[s] \in Nat
  BY <1>2, LogTypes, IndexTypes
<1>5. log[s] = leaderLog[u] /\ u >= 1
  BY ZenonT(30), <1>1, <1>2 DEF LeadersAreElected
<1> HIDE DEF Q
<1>6. n \in 1 .. Len(log[s]) /\ n \in Nat
  BY <1>1, <1>3, <1>4
<1>7. log[s][n] = u /\ Has(log[s], n, u)
  <2>1. log[s][n] = u
    BY <1>1, <1>5 DEF TermOfLogEntryAt
  <2> QED
    BY Zenon, <1>6, <2>1 DEF Has
<1>8. \A q \in Q : Stands(q, n, u)
  <2> SUFFICES ASSUME NEW q \in Q PROVE Stands(q, n, u)
    OBVIOUS
  <2>1. q \in Server /\ MatchIndexes(s)[q] >= n
    BY DEF Q
  <2>2. CASE q = s
    BY <1>7, <2>2, LeaderStands
  <2>3. CASE q # s
    <3> DEFINE k == peers[s][q].matchIndex
    <3>1. k >= n
      BY <2>1, <2>3 DEF MatchIndexes
    <3>2. k \in Nat
      <4>1. peers[s][q] \in Peer
        BY <2>1 DEF TypeInv, TypeOK
      <4> QED
        BY <4>1, BoundAssumption DEF Peer, Index
    <3>3. Acknowledged(q, u, k)
      BY Zenon, <1>1, <2>1 DEF LogInv, MatchesAreSound
    <3> HIDE DEF k
    <3>4. k # 0 /\ n \in 1 .. k
      BY <1>6, <3>1, <3>2
    <3>5. \A i \in 1 .. k : leaderLog[u][i] = u => Stands(q, i, u)
      BY <3>3, <3>4 DEF Acknowledged
    <3> QED
      BY <1>5, <1>7, <3>4, <3>5
  <2> QED
    BY <2>2, <2>3
<1>9. EntryIsKept(n, u)
  <2>1. Q \in SUBSET Server
    BY DEF Q
  <2>2. \A w \in Term : u < w => ~Misses(leaderLog, w, n, u)
    BY ZenonT(30), <1>3, <1>4, <1>8, <2>1, StandingMajorityKeeps
  <2> QED
    BY Zenon, <1>3, <1>5, <1>7, <1>8, <2>1, <2>2 DEF EntryIsKept
<1>10. \A i, t : EntryIsKept(i, t) => EntryIsKept(i, t)'
  BY <1>1 DEF EntryIsKept, Stands, Keeps, ElectsWell, BacksWell
<1>11. \A c \in committed' : c \in committed \/ EntryIsKept(c[1], c[2])'
  <2>1. committed' = committed \union {<<n, u>>} /\ <<n, u>>[1] = n /\ <<n, u>>[2] = u
    BY Zenon, <1>1, <1>7
  <2>2. EntryIsKept(n, u)'
    BY <1>9, <1>10
  <2> SUFFICES ASSUME NEW c \in committed', c = <<n, u>> PROVE EntryIsKept(c[1], c[2])'
    BY <2>1
  <2> QED
    BY <2>2
<1>12. HistoryOK' /\ LogsAreTraced' /\ LeadersAreElected' /\ ElectorsVoted'
  BY ZenonT(30), <1>1, <1>2 DEF HistoryOK, LogsAreTraced, LeadersAreElected, ElectorsVoted
<1>13. Evolves
  <2>1. LeaderLogsEvolve /\ LogsEvolve
    BY Zenon, <1>1, <1>2, SameLogsEvolve
  <2>2. CandidatesEvolve
    BY ZenonT(30), <1>1 DEF CandidatesEvolve
  <2>3. \A p \in Server : currentTerm[p] <= currentTerm'[p]
    BY <1>1, <1>4
  <2> QED
    BY ZenonT(30), <1>1, <2>1, <2>2, <2>3 DEF Evolves
<1>14. LogsAreSafe'
  <2>1. \A p \in Server : \A i : Safe(p, i) => Safe(p, i)'
    BY ZenonT(30), <1>1 DEF Safe
  <2>2. Safe(s, n)'
    <3>1. <<n, u>> \in committed' /\ <<n, u>>[1] = n /\ <<n, u>>[2] = u
      BY Zenon, <1>1, <1>7
    <3>2. n <= n /\ u <= u /\ n \in Int /\ n <= Len(log[s])
      BY <1>4, <1>6
    <3>3. Agree(log[s], leaderLog[u], n)
      BY ZenonT(30), <1>4, <1>5, <3>2, AgreeReflexive
    <3>4. \E c \in committed' : n <= c[1] /\ c[2] <= currentTerm[s] /\ Agree(log[s], leaderLog[c[2]], n)
      BY <3>1, <3>2, <3>3
    <3> QED
      BY ZenonT(30), <1>1, <3>4 DEF Safe
  <2>3. commitIndex'[s] = n /\ \A p \in Server : p # s => commitIndex'[p] = commitIndex[p]
    BY ZenonT(30), <1>1 DEF TypeInv, TypeOK
  <2> SUFFICES ASSUME NEW p \in Server, NEW k, k = commitIndex'[p]
               PROVE  Safe(p, k)' /\ (firstIndex[p] = 1 \/ Safe(p, firstIndex[p])')
    BY ZenonT(30), <1>1 DEF LogsAreSafe, Safe
  <2>4. Safe(p, k)'
    <3>1. CASE p = s
      BY <2>2, <2>3, <3>1 DEF Safe
    <3>2. CASE p # s
      BY ZenonT(30), <1>2, <2>1, <2>3, <3>2 DEF LogsAreSafe
    <3> QED
      BY ZenonT(30), <3>1, <3>2
  <2>5. firstIndex[p] = 1 \/ Safe(p, firstIndex[p])'
    BY ZenonT(30), <1>1, <1>2 DEF LogsAreSafe, Safe
  <2> QED
    BY ZenonT(30), <2>4, <2>5
<1> QED
  BY Zenon, <1>1, <1>11, <1>12, <1>13, <1>14, EvolvingStep DEF LogInv, MatchesAreSound, RpcsAreSound

-----------------------------------------------------------------------------
(* A follower takes the entries of an AE_req.                              *)

\* Cutting the log at the first new entry follows the leader.
LEMMA CutFollows ==
  ASSUME CountingFacts, TypeInv, LogInv, NEW m \in rpcs, m.kind = "AE_req",
         m.term >= currentTerm[m.dst],
         PrevLogIsOk(m.dst, m), NewEntries(m.dst, m) # {}
  PROVE  LET kept == SubSeq(log[m.dst], 1, m.prevLogIndex + Min(NewEntries(m.dst, m)) - 1) IN
         kept \in Seq(Term) /\ Follows(log[m.dst], kept, leaderLog[m.term])
<1> DEFINE q    == log[m.dst]
           L    == leaderLog[m.term]
           kept == SubSeq(q, 1, m.prevLogIndex + Min(NewEntries(m.dst, m)) - 1)
<1>1. /\ kept \in Seq(Term) /\ Len(kept) \in Nat /\ Len(kept) <= Len(q)
      /\ \A i \in 1 .. Len(kept) : kept[i] = q[i]
      /\ Agree(kept, L, Len(kept))
      /\ \A n \in Nat : Agree(q, L, n) => n <= Len(kept)
  BY ZenonT(30), KeptPart
<1> HIDE DEF kept
<1>2. ASSUME NEW n \in Nat, Agree(q, L, n)
      PROVE  Agree(q, kept, n)
  <2>1. n <= Len(kept) /\ n <= Len(q)
    BY <1>1, <1>2 DEF Agree
  <2>2. \A j \in 1 .. n : j \in 1 .. Len(kept)
    BY <1>1, <2>1
  <2> QED
    BY ZenonT(30), <1>1, <2>1, <2>2 DEF Agree
<1>3. Follows(q, kept, L)
  BY Zenon, <1>1, <1>2 DEF Follows
<1> QED
  BY ZenonT(30), <1>1, <1>3 DEF kept

\* A log that follows a leader is put together from leaders' logs.
LEMMA FollowsTraced ==
  ASSUME NEW F \in [Term -> Seq(Term)], \A u \in Term : Traced(F, F[u]) /\ Bounded(F[u], u),
         NEW T \in Term, NEW r \in Seq(Term), Agree(r, F[T], Len(r))
  PROVE  Traced(F, r) /\ Bounded(r, T)
<1>1. F[T] \in Seq(Term) /\ Len(F[T]) \in Nat /\ Len(r) \in Nat
  OBVIOUS
<1>2. ASSUME NEW i \in 1 .. Len(r)
      PROVE  r[i] >= 1 /\ Agree(r, F[r[i]], i) /\ r[i] <= T
  <2>1. i \in 1 .. Len(F[T]) /\ r[i] = F[T][i] /\ i \in Int /\ i <= Len(r)
    BY <1>1 DEF Agree
  <2>2. F[T][i] >= 1 /\ Agree(F[T], F[F[T][i]], i) /\ F[T][i] <= T
    BY <2>1 DEF Traced, Bounded
  <2>3. Agree(r, F[T], i)
    BY <1>1, <2>1, AgreeBelow
  <2> QED
    BY <2>1, <2>2, <2>3, AgreeTransitive
<1> QED
  BY <1>2 DEF Traced, Bounded

\* Such a step evolves the state, and the history stays sound.
LEMMA FollowerStepEvolves ==
  ASSUME TypeInv, TypeInv', LogInv, NEW s \in Server, NEW T \in Term, T >= currentTerm[s],
         leaderLog[T] # <<>>, NEW r \in Seq(Term), Follows(log[s], r, leaderLog[T]),
         FollowerStep(s, r, T)
  PROVE  HistoryOK' /\ LogsAreTraced' /\ LeadersAreElected' /\ ElectorsVoted' /\ Evolves
<1>1. /\ HistoryOK /\ LogsAreTraced /\ LeadersAreElected /\ ElectorsVoted
      /\ leaderLog \in [Term -> Seq(Term)]
      /\ \A p \in Server : /\ log[p] \in Seq(Term) /\ Len(log[p]) \in Nat
                           /\ currentTerm[p] \in Term /\ currentTerm[p] \in Nat
      /\ \A u \in Term : leaderLog[u] \in Seq(Term) /\ Len(leaderLog[u]) \in Nat /\ u \in Nat
  BY ZenonT(30), LogTypes DEF LogInv
<1>2. /\ log' = [log EXCEPT ![s] = r] /\ currentTerm' = [currentTerm EXCEPT ![s] = T]
      /\ role'[s] = "Follower" /\ \A p \in Server : p # s => role'[p] = role[p]
      /\ UNCHANGED <<leaderLog, electors, votes, elected, committed>>
  BY DEF FollowerStep
<1>3. /\ log'[s] = r /\ \A p \in Server : p # s => log'[p] = log[p]
      /\ currentTerm'[s] = T /\ \A p \in Server : p # s => currentTerm'[p] = currentTerm[p]
  <2>1. log \in [Server -> Seq(Term)] /\ currentTerm \in [Server -> Term]
    BY ZenonT(30) DEF TypeInv, TypeOK
  <2> QED
    BY ZenonT(30), <1>2, <2>1
<1>4. HistoryOK'
  BY ZenonT(30), <1>1, <1>2 DEF HistoryOK
<1>5. \A p \in Server : /\ currentTerm'[p] \in Nat /\ currentTerm[p] <= currentTerm'[p]
  <2> SUFFICES ASSUME NEW p \in Server
               PROVE  currentTerm'[p] \in Nat /\ currentTerm[p] <= currentTerm'[p]
    OBVIOUS
  <2>1. T \in Nat /\ currentTerm[p] \in Nat
    BY <1>1
  <2>2. CASE p = s
    BY <1>3, <2>1, <2>2
  <2>3. CASE p # s
    BY <1>3, <2>1, <2>3
  <2> QED
    BY ZenonT(30), <2>2, <2>3
<1>6. LogsAreTraced'
  <2>1. \A u \in Term : Traced(leaderLog, leaderLog[u]) /\ Bounded(leaderLog[u], u)
    BY ZenonT(30), <1>1 DEF LogsAreTraced
  <2>2. Traced(leaderLog, r) /\ Bounded(r, T)
    <3>1. CASE r = log[s]
      <4>1. Traced(leaderLog, r) /\ Bounded(r, currentTerm[s])
        BY <1>1, <3>1 DEF LogsAreTraced
      <4>2. \A i \in 1 .. Len(r) : r[i] \in Term
        OBVIOUS
      <4>3. \A i \in 1 .. Len(r) : r[i] \in Nat
        BY <4>2, TermsAreNatural, Zenon
      <4>4. T \in Nat /\ currentTerm[s] \in Nat
        BY <1>1
      <4> QED
        BY <4>1, <4>3, <4>4 DEF Bounded
    <3>2. CASE Agree(r, leaderLog[T], Len(r))
      BY ZenonT(30), <1>1, <2>1, <3>2, FollowsTraced
    <3> QED
      BY ZenonT(30), <3>1, <3>2 DEF Follows
  <2>3. \A p \in Server : Traced(leaderLog, log'[p]) /\ Bounded(log'[p], currentTerm'[p])
    <3>1. \A p \in Server : Traced(leaderLog, log[p]) /\ Bounded(log[p], currentTerm[p])
      BY Zenon, <1>1 DEF LogsAreTraced
    <3> QED
      BY <1>3, <2>2, <3>1, Zenon
  <2>4. leaderLog' = leaderLog
    BY ZenonT(30), <1>2
  <2> QED
    BY ZenonT(30), <2>1, <2>3, <2>4 DEF LogsAreTraced
<1>7. LeadersAreElected'
  <2>1. \A p \in Server : role'[p] # "Follower" => currentTerm'[p] >= 1
    BY Zenon, <1>1, <1>2, <1>3 DEF LeadersAreElected
  <2>2. \A p \in Server : role'[p] = "Leader" =>
          <<currentTerm'[p], p>> \in elected /\ log'[p] = leaderLog[currentTerm'[p]]
    <3> SUFFICES ASSUME NEW p \in Server, role'[p] = "Leader"
                 PROVE  <<currentTerm'[p], p>> \in elected /\ log'[p] = leaderLog[currentTerm'[p]]
      BY Zenon
    <3>1. p # s
      BY <1>2
    <3>2. role[p] = "Leader" /\ log'[p] = log[p] /\ currentTerm'[p] = currentTerm[p]
      BY Zenon, <1>2, <1>3, <3>1
    <3> QED
      BY Zenon, <1>1, <3>2 DEF LeadersAreElected
  <2>3. ASSUME NEW e \in elected
        PROVE  /\ leaderLog[e[1]] # <<>>
               /\ e[1] <= currentTerm'[e[2]]
               /\ e[1] = currentTerm'[e[2]] => role'[e[2]] # "Candidate"
    <3>1. e[1] \in Nat /\ e[2] \in Server
      <4>1. e \in Term \X Server
        BY ZenonT(30) DEF TypeInv, TypeOK
      <4> QED
        BY ZenonT(30), <4>1, TermsAreNatural
    <3>2. /\ leaderLog[e[1]] # <<>> /\ e[1] <= currentTerm[e[2]]
          /\ e[1] = currentTerm[e[2]] => role[e[2]] # "Candidate"
      BY Zenon, <1>1 DEF LeadersAreElected
    <3>3. currentTerm[e[2]] \in Nat /\ currentTerm'[e[2]] \in Nat /\ currentTerm[e[2]] <= currentTerm'[e[2]]
      BY <1>1, <1>5, <3>1
    <3>4. e[1] <= currentTerm'[e[2]]
      BY <3>1, <3>2, <3>3
    <3> QED
      BY Zenon, <1>2, <1>3, <3>1, <3>2, <3>4
  <2> QED
    BY ZenonT(30), <1>1, <1>2, <2>1, <2>2, <2>3 DEF LeadersAreElected
<1>8. ElectorsVoted'
  <2>1. \A u \in Term : \A q \in electors[u] : q \in Server /\ u \in Nat
    BY ZenonT(30), <1>1 DEF HistoryOK
  <2>2. \A v \in votes : v[2] \in Nat /\ v[3] \in Server
    <3>1. \A v \in votes : v \in Server \X Term \X Server
      BY Zenon DEF TypeInv, TypeOK
    <3> QED
      BY ZenonT(30), <3>1, TermsAreNatural
  <2>3. \A u \in Term : \A q \in electors[u] : u <= currentTerm'[q]
    <3>1. \A u \in Term : \A q \in electors[u] : u <= currentTerm[q]
      BY <1>1 DEF ElectorsVoted
    <3>2. \A p \in Server : currentTerm[p] \in Nat
      BY <1>1
    <3> QED
      BY <1>5, <2>1, <3>1, <3>2
  <2>4. \A v \in votes : v[2] <= currentTerm'[v[3]]
    <3>1. \A v \in votes : v[2] <= currentTerm[v[3]]
      BY <1>1 DEF ElectorsVoted
    <3>2. \A p \in Server : currentTerm[p] \in Nat
      BY <1>1
    <3> QED
      BY <1>5, <2>2, <3>1, <3>2
  <2> QED
    BY <1>1, <1>2, <2>3, <2>4 DEF ElectorsVoted
<1>9. LeaderLogsEvolve
  <2>1. \A u \in Term : Agree(leaderLog[u], leaderLog[u], Len(leaderLog[u]))
    BY <1>1 DEF Agree
  <2>2. \A u \in Term : \A i \in 1 .. Len(leaderLog[u]) : ~(i > Len(leaderLog[u]))
    BY <1>1
  <2>3. LogsGrow(leaderLog, leaderLog)
    BY ZenonT(30), <2>1, <2>2 DEF LogsGrow, Grown
  <2> QED
    BY ZenonT(30), <1>2, <2>3 DEF LeaderLogsEvolve
<1>10. LogsEvolve
  <2> SUFFICES ASSUME NEW p \in Server
               PROVE  \/ Agree(log[p], log'[p], Len(log[p]))
                      \/ /\ leaderLog[currentTerm'[p]] # <<>>
                         /\ \A n \in Nat : Agree(log[p], leaderLog[currentTerm'[p]], n)
                                             => Agree(log[p], log'[p], n)
    BY ZenonT(30) DEF LogsEvolve
  <2>1. CASE log'[p] = log[p]
    <3>1. Agree(log[p], log[p], Len(log[p]))
      BY <1>1 DEF Agree
    <3> QED
      BY <2>1, <3>1
  <2>2. CASE log'[p] # log[p]
    <3>1. p = s /\ log'[p] = r /\ currentTerm'[p] = T /\ r # log[s]
      BY <1>3, <2>2
    <3>2. \A n \in Nat : Agree(log[s], leaderLog[T], n) => Agree(log[s], r, n)
      BY <3>1 DEF Follows
    <3> QED
      BY ZenonT(30), <3>1, <3>2
  <2> QED
    BY ZenonT(30), <2>1, <2>2
<1>11. CandidatesEvolve
  <2> SUFFICES ASSUME NEW p \in Server, role'[p] = "Candidate"
               PROVE  log'[p] = log[p] /\ role[p] = "Candidate" /\ currentTerm'[p] = currentTerm[p]
    <3>1. votes' = votes
      BY ZenonT(30), <1>2
    <3> QED
      BY <3>1, Zenon DEF CandidatesEvolve
  <2>1. p # s
    BY <1>2
  <2> QED
    BY Zenon, <1>2, <1>3, <2>1
<1> QED
  BY Zenon, <1>2, <1>4, <1>5, <1>6, <1>7, <1>8, <1>9, <1>10, <1>11 DEF Evolves

\* Whoever holds an entry of its own term after a step stands by it.
LEMMA HolderStands ==
  ASSUME TypeInv', VoteInv', HistoryOK', ElectorsVoted',
         NEW s \in Server, NEW T, T = currentTerm'[s], NEW i, Has(log'[s], i, T)
  PROVE  Stands(s, i, T)'
<1>1. \A p \in Server : currentTerm'[p] \in Nat
  BY LogTypesNext
<1>2. Keeps(s, i, T)'
  BY <1>1 DEF Keeps
<1>3. ElectsWell(s, i, T)'
  <2> SUFFICES ASSUME NEW w \in Term, T < w, s \in electors'[w] PROVE FALSE
    BY DEF ElectsWell
  <2>1. w <= currentTerm'[s] /\ w \in Nat
    BY TermsAreNatural DEF ElectorsVoted
  <2> QED
    BY <1>1, <2>1
<1>4. BacksWell(s, i, T)'
  <2> SUFFICES ASSUME NEW p \in Server, T < currentTerm'[p], <<s, currentTerm'[p], p>> \in votes'
               PROVE  FALSE
    BY Zenon DEF BacksWell
  <2>1. <<s, currentTerm'[p], p>>[1] = s /\ <<s, currentTerm'[p], p>>[2] = currentTerm'[p]
    OBVIOUS
  <2>2. currentTerm'[p] <= currentTerm'[s]
    BY <2>1 DEF VoteInv, VotesArePersistent
  <2> QED
    BY <1>1, <2>2
<1> QED
  BY <1>2, <1>3, <1>4 DEF Stands

\* A crash between the truncation of conflicting entries and the append keeps LogInv.
LEMMA CrashBetweenTruncateAndAppendKeepsLogInv ==
  ASSUME CountingFacts, TypeInv, TypeInv', LogInv, NEW m \in rpcs,
         CrashBetweenTruncateAndAppend(m)
  PROVE  LogInv'
<1> DEFINE s == m.dst
           T == m.term
           kept == SubSeq(log[s], 1, m.prevLogIndex + Min(NewEntries(s, m)) - 1)
<1>1. /\ m.kind = "AE_req" /\ T = currentTerm[s] /\ PrevLogIsOk(s, m) /\ NewEntries(s, m) # {}
      /\ log' = [log EXCEPT ![s] = kept]
      /\ LoseVolatile(s) /\ rpcs' = Orphaned(s, rpcs \ {m})
      /\ UNCHANGED <<currentTerm, firstIndex, votes, elected, committed, leaderLog, electors>>
  BY ZenonT(30) DEF CrashBetweenTruncateAndAppend, Arrived, history
<1>2. /\ s \in Server /\ T \in Term /\ T \in Nat /\ currentTerm[s] \in Nat /\ leaderLog[T] # <<>>
  BY ZenonT(30), <1>1, RequestFacts
<1>3. T >= currentTerm[s]
  BY <1>1, <1>2
<1>4. kept \in Seq(Term) /\ Follows(log[s], kept, leaderLog[T])
  BY ZenonT(30), <1>1, <1>3, CutFollows
<1> HIDE DEF kept
<1>5. /\ role' = [role EXCEPT ![s] = "Follower"]
      /\ commitIndex' = [commitIndex EXCEPT ![s] = 0]
      /\ peers' = [peers EXCEPT ![s] = [p \in Server |-> NewPeer]]
  BY ZenonT(30), <1>1 DEF LoseVolatile
<1>6. /\ role'[s] = "Follower" /\ \A p \in Server : p # s => role'[p] = role[p]
      /\ \A p \in Server : p # s => peers'[p] = peers[p]
      /\ \A p \in Server : commitIndex'[p] \in {0, commitIndex[p]}
  BY ZenonT(30), <1>2, <1>5 DEF TypeInv, TypeOK
<1>7. FollowerStep(s, kept, T)
  <2>1. currentTerm \in [Server -> Term]
    BY DEF TypeInv, TypeOK
  <2>2. currentTerm' = [currentTerm EXCEPT ![s] = T]
    BY ZenonT(30), <1>1, <1>2, <2>1
  <2> QED
    BY ZenonT(30), <1>1, <1>6, <2>2 DEF FollowerStep
<1>8. HistoryOK' /\ LogsAreTraced' /\ LeadersAreElected' /\ ElectorsVoted' /\ Evolves
  BY Zenon, <1>2, <1>3, <1>4, <1>7, FollowerStepEvolves
<1>9. LogsAreSafe'
  BY ZenonT(30), <1>1, <1>6, <1>8, IndexesStaySafe
<1>10. \A q, p \in Server : role'[q] = "Leader" =>
         Acknowledged(p, currentTerm'[q], peers'[q][p].matchIndex)
  <2>1. \A q \in Server : role'[q] = "Leader" =>
          role[q] = "Leader" /\ peers'[q] = peers[q] /\ currentTerm'[q] = currentTerm[q]
    BY ZenonT(30), <1>1, <1>6
  <2> QED
    BY <2>1 DEF LogInv, MatchesAreSound
<1>11. \A x \in rpcs' : RpcIsSound(x)
  <2>1. rpcs \ {m} \subseteq rpcs /\ RpcsAreSound
    BY DEF LogInv
  <2> QED
    BY Zenon, <1>1, <2>1, OrphanedAreSound
<1> QED
  BY ZenonT(30), <1>1, <1>8, <1>9, <1>10, <1>11, EvolvingStep

\* What an accepted AE_req acknowledges is sound.
LEMMA AcceptedIsAcknowledged ==
  ASSUME TypeInv, TypeInv', VoteInv', HistoryOK', ElectorsVoted',
         NEW s \in Server, NEW T \in Term, T = currentTerm'[s], NEW n \in Nat,
         Agree(log'[s], leaderLog'[T], n)
  PROVE  Acknowledged(s, T, n)'
<1>1. /\ log'[s] \in Seq(Term) /\ leaderLog'[T] \in Seq(Term) /\ T \in Nat
      /\ Len(log'[s]) \in Nat /\ Len(leaderLog'[T]) \in Nat
  BY Zenon, LogTypesNext
<1>2. n <= Len(leaderLog'[T]) /\ n <= Len(log'[s]) /\ \A j \in 1 .. n : log'[s][j] = leaderLog'[T][j]
  BY DEF Agree
<1>3. ASSUME NEW i \in 1 .. n, leaderLog'[T][i] = T
      PROVE  Stands(s, i, T)'
  <2>1. Has(log'[s], i, T)
    BY <1>1, <1>2, <1>3 DEF Has
  <2> QED
    BY Zenon, <2>1, HolderStands
<1>4. T <= currentTerm'[s]
  BY <1>1
<1> QED
  BY ZenonT(30), <1>2, <1>3, <1>4 DEF Acknowledged

\* The follower's commit index after an accepted AE_req covers committed entries only.
LEMMA AcceptedCommitIsSafe ==
  ASSUME TypeInv, TypeInv', LogInv, HistoryOK', Evolves, NEW m \in rpcs, m.kind = "AE_req",
         m.term >= currentTerm[m.dst], currentTerm'[m.dst] = m.term,
         UNCHANGED <<leaderLog, committed, firstIndex>>,
         commitIndex' = [commitIndex EXCEPT ![m.dst] = Max({@, m.commitIndex})],
         Agree(log'[m.dst], leaderLog[m.term], m.prevLogIndex + Len(m.entries))
  PROVE  LogsAreSafe'
<1> DEFINE s == m.dst
           T == m.term
           c == m.commitIndex
<1>1. /\ s \in Server /\ T \in Term /\ T \in Nat /\ c \in Nat /\ m.prevLogIndex \in Nat
      /\ Len(m.entries) \in Nat /\ AppendRequestIsSound(m) /\ leaderLog[T] # <<>>
      /\ leaderLog[T] \in Seq(Term) /\ Len(leaderLog[T]) \in Nat
  BY Zenon, RequestFacts
<1>2. HistoryOK /\ LogsAreTraced /\ CommittedIsKept /\ LogsAreSafe
  BY DEF LogInv
<1>3. \A p \in Server : log'[p] \in Seq(Term) /\ commitIndex[p] \in Nat /\ firstIndex[p] \in Nat
  BY ZenonT(30), LogTypesNext, IndexTypes
<1>4. \A p \in Server : \A n \in Nat : Safe(p, n) => Safe(p, n)'
  BY <1>2, SafeStays
<1>5. Safe(s, c)'
  <2> SUFFICES ASSUME NEW n, n = c, n # 0 PROVE Safe(s, n)'
    BY DEF Safe
  <2>1. PICK e \in committed : n <= e[1] /\ e[2] <= T
    BY ZenonT(30), <1>1 DEF AppendRequestIsSound
  <2>2. e[1] \in Nat /\ e[2] \in Term /\ e[2] \in Nat /\ n \in Nat
    BY <1>1, CommittedTypes
  <2>3. Agree(leaderLog[T], leaderLog[e[2]], e[1])
    BY ZenonT(30), <1>1, <1>2, <2>1, LeadersAgreeOnCommitted
  <2>4. leaderLog[e[2]] \in Seq(Term)
    BY ZenonT(30), <1>2, <2>2, LogTypes
  <2>5. Agree(leaderLog[T], leaderLog[e[2]], n)
    BY <1>1, <2>1, <2>2, <2>3, <2>4, AgreeBelow
  <2>6. n <= m.prevLogIndex + Len(m.entries) /\ m.prevLogIndex + Len(m.entries) \in Int
    BY <1>1 DEF AppendRequestIsSound
  <2>7. Agree(log'[s], leaderLog[T], n)
    BY <1>1, <1>3, <2>2, <2>6, AgreeBelow
  <2>8. Agree(log'[s], leaderLog[e[2]], n)
    BY ZenonT(30), <2>5, <2>7, AgreeTransitive
  <2> QED
    BY <2>1, <2>8 DEF Safe
<1>6. commitIndex'[s] \in {commitIndex[s], c} /\ \A p \in Server : p # s => commitIndex'[p] = commitIndex[p]
  <2>1. commitIndex'[s] = Max({commitIndex[s], c}) /\ \A p \in Server : p # s => commitIndex'[p] = commitIndex[p]
    BY ZenonT(30), <1>1 DEF TypeInv, TypeOK
  <2>2. commitIndex[s] \in Nat /\ c \in Nat
    BY Zenon, <1>1, <1>3
  <2> HIDE DEF c
  <2>3. Max({commitIndex[s], c}) \in {commitIndex[s], c}
    BY ONLY <2>2, MaxOfTwo
  <2> QED
    BY Zenon, <2>1, <2>3
<1>7. ASSUME NEW p \in Server, NEW n, n = commitIndex'[p], NEW k, k = firstIndex'[p]
      PROVE  Safe(p, n)' /\ (k = 1 \/ Safe(p, k)')
  <2>1. k = firstIndex[p] /\ (n = commitIndex[p] \/ (p = s /\ n = c))
    BY ZenonT(30), <1>6, <1>7
  <2>2. Safe(p, commitIndex[p]) /\ (firstIndex[p] = 1 \/ Safe(p, firstIndex[p]))
    BY <1>2 DEF LogsAreSafe
  <2>3. k = 1 \/ Safe(p, k)'
    BY ZenonT(30), <1>3, <1>4, <2>1, <2>2
  <2>4. Safe(p, n)'
    <3>1. CASE n = commitIndex[p]
      BY <1>3, <1>4, <2>2, <3>1
    <3>2. CASE p = s /\ n = c
      BY ZenonT(30), <1>5, <3>2
    <3> QED
      BY ZenonT(30), <2>1, <3>1, <3>2
  <2> QED
    BY Zenon, <2>3, <2>4
<1> QED
  BY ZenonT(30), <1>7 DEF LogsAreSafe

\* The index an AE_req verifies, prevLogIndex + the batch's length, is a natural number.
LEMMA SumIsNat ==
  ASSUME NEW a \in Nat, NEW b \in Nat
  PROVE  a + b \in Nat
OBVIOUS

\* An accepted AE_req keeps LogInv.
LEMMA AcceptKeepsLogInv ==
  ASSUME CountingFacts, TypeInv, TypeInv', VoteInv', ElectionSafety, LogInv, NEW m \in rpcs,
         HandleAppendEntriesRequest(m), AppendEntriesRequestAssert(m.dst, m) = {},
         PrevLogIsOk(m.dst, m)
  PROVE  LogInv'
<1> DEFINE s == m.dst
           T == m.term
           r == LogAfterAppend(s, m)
           n == VerifiedIndex(s, m)
           response == AppendEntriesResponse(m, T, TRUE, Len(r), n)
<1>1. /\ m.kind = "AE_req" /\ T >= currentTerm[s]
      /\ currentTerm' = [currentTerm EXCEPT ![s] = T]
      /\ FollowLeader(s, m) /\ ApplyAppendEntriesRequest(s, m)
      /\ UNCHANGED <<firstIndex, votes, elected, committed, leaderLog, electors>>
  BY DEF HandleAppendEntriesRequest, Arrived
<1>2. /\ role' = [role EXCEPT ![s] = IF T > currentTerm[s] \/ @ = "Candidate" THEN "Follower" ELSE @]
      /\ log' = [log EXCEPT ![s] = r]
      /\ commitIndex' = [commitIndex EXCEPT ![s] = Max({@, m.commitIndex})]
      /\ rpcs' = (rpcs \ {m}) \union (IF m.open THEN {response} ELSE {})
      /\ peers' = peers
  BY ZenonT(30), <1>1 DEF FollowLeader, ApplyAppendEntriesRequest, Reply
<1>3. /\ s \in Server /\ T \in Term /\ T \in Nat /\ currentTerm[s] \in Nat
      /\ m.prevLogIndex \in Nat /\ Len(m.entries) \in Nat
      /\ leaderLog[T] # <<>> /\ AppendRequestIsSound(m)
  BY ZenonT(30), <1>1, RequestFacts
<1>4. /\ r \in Seq(Term) /\ Follows(log[s], r, leaderLog[T])
      /\ Agree(r, leaderLog[T], m.prevLogIndex + Len(m.entries))
  BY ZenonT(30), <1>1, AppendFollows
<1> HIDE DEF r
<1>5. role'[s] = "Follower" /\ \A p \in Server : p # s => role'[p] = role[p]
  <2>1. role \in [Server -> Role]
    BY ZenonT(30) DEF TypeInv, TypeOK
  <2>2. T > currentTerm[s] \/ T = currentTerm[s]
    BY <1>1, <1>3
  <2>3. T = currentTerm[s] => role[s] # "Leader"
    BY ZenonT(30), <1>1, ReceiverDoesNotLead
  <2> QED
    BY ZenonT(30), <1>2, <1>3, <2>1, <2>2, <2>3 DEF Role
<1>6. log'[s] = r /\ currentTerm'[s] = T /\ \A p \in Server : p # s => currentTerm'[p] = currentTerm[p]
  <2>1. log \in [Server -> Seq(Term)] /\ currentTerm \in [Server -> Term]
    BY DEF TypeInv, TypeOK
  <2> QED
    BY ZenonT(30), <1>1, <1>2, <1>3, <2>1
<1>7. FollowerStep(s, r, T)
  BY <1>1, <1>2, <1>5 DEF FollowerStep
<1>8. HistoryOK' /\ LogsAreTraced' /\ LeadersAreElected' /\ ElectorsVoted' /\ Evolves
  BY ZenonT(30), <1>1, <1>3, <1>4, <1>7, FollowerStepEvolves
<1>9. LogsAreSafe'
  BY ZenonT(30), <1>1, <1>2, <1>4, <1>6, <1>8, AcceptedCommitIsSafe
<1>10. \A q, p \in Server : role'[q] = "Leader" =>
         Acknowledged(p, currentTerm'[q], peers'[q][p].matchIndex)
  <2>1. \A q \in Server : role'[q] = "Leader" => role[q] = "Leader" /\ currentTerm'[q] = currentTerm[q]
    BY ZenonT(30), <1>5, <1>6
  <2> QED
    BY ZenonT(30), <1>2, <2>1 DEF LogInv, MatchesAreSound
<1>11. ASSUME NEW x, x = response
       PROVE  RpcIsSound(x)'
  <2>1. /\ x.kind = "AE_resp" /\ x.savedTerm = T /\ x.src = m.src /\ x.dst = s /\ x.matchIndex = n
    BY <1>11 DEF AppendEntriesResponse
  <2>2. n \in Nat /\ Agree(log'[s], leaderLog'[T], n)
    <3>1. n = m.prevLogIndex + Len(m.entries)
      BY Zenon DEF VerifiedIndex
    <3>2. n \in Nat
      BY Zenon, <1>3, <3>1, SumIsNat
    <3>3. leaderLog'[T] = leaderLog[T]
      BY Zenon, <1>1
    <3> QED
      BY Zenon, <1>4, <1>6, <3>1, <3>2, <3>3
  <2>3. Acknowledged(s, T, n)'
    BY Zenon, <1>3, <1>6, <1>8, <2>2, AcceptedIsAcknowledged
  <2>4. <<T, m.src>> \in elected'
    BY ZenonT(30), <1>1, <1>3 DEF AppendRequestIsSound
  <2>5. AppendResponseIsSound(x)'
    BY Zenon, <2>1, <2>3, <2>4 DEF AppendResponseIsSound
  <2> QED
    BY ZenonT(30), <2>1, <2>5 DEF RpcIsSound
<1>12. \A x \in rpcs' : RpcIsSound(x) \/ RpcIsSound(x)'
  <2> HIDE DEF response
  <2>1. \A x \in rpcs' : x \in rpcs \/ x = response
    BY Zenon, <1>2
  <2>2. \A x \in rpcs : RpcIsSound(x)
    BY DEF LogInv, RpcsAreSound
  <2> QED
    BY <1>11, <2>1, <2>2
<1>13. \A c \in committed' : c \in committed
  BY <1>1
<1> QED
  BY ZenonT(30), <1>8, <1>9, <1>10, <1>12, <1>13, EvolvingStep

\* handleAppendEntriesRequest keeps LogInv.
LEMMA HandleAppendEntriesRequestKeepsLogInv ==
  ASSUME CountingFacts, TypeInv, TypeInv', VoteInv', ElectionSafety, LogInv, NEW m \in rpcs,
         HandleAppendEntriesRequest(m)
  PROVE  LogInv'
<1> DEFINE s == m.dst
           T == m.term
           failed == AppendEntriesRequestAssert(s, m)
<1>1. /\ m.kind = "AE_req" /\ T >= currentTerm[s]
      /\ currentTerm' = [currentTerm EXCEPT ![s] = T]
      /\ UNCHANGED <<firstIndex, votes, elected, committed, leaderLog, electors>>
  BY DEF HandleAppendEntriesRequest, Arrived
<1>2. /\ s \in Server /\ m.src \in Server /\ T \in Term /\ T \in Nat /\ currentTerm[s] \in Nat
      /\ m.prevLogIndex \in Nat /\ Len(m.entries) \in Nat /\ m.commitIndex \in Nat
      /\ AppendRequestIsSound(m)
  BY ZenonT(30), <1>1, RequestFacts
<1>3. /\ TimidStep
      /\ \A p \in Server : p # s => currentTerm'[p] = currentTerm[p]
  <2>1. currentTerm \in [Server -> Term]
    BY DEF TypeInv, TypeOK
  <2> QED
    BY <1>1, <1>2, <2>1, HandleAppendEntriesRequestIsTimid
<1>4. CASE failed = {} /\ PrevLogIsOk(s, m)
  BY <1>4, AcceptKeepsLogInv
<1>5. CASE failed = {} /\ ~PrevLogIsOk(s, m)
  <2> DEFINE response == AppendEntriesResponse(m, T, FALSE, LastLogIndex(s), 0)
  <2>1. FollowLeader(s, m) /\ ApplyAppendEntriesRequest(s, m)
    BY <1>5 DEF HandleAppendEntriesRequest
  <2>2. /\ role' = [role EXCEPT ![s] = IF T > currentTerm[s] \/ @ = "Candidate" THEN "Follower" ELSE @]
        /\ rpcs' = (rpcs \ {m}) \union (IF m.open THEN {response} ELSE {})
        /\ log' = log /\ commitIndex' = commitIndex /\ peers' = peers
    BY ZenonT(30), <1>5, <2>1 DEF FollowLeader, ApplyAppendEntriesRequest, Reply
  <2>3. \A p \in Server : role'[p] = "Leader" => role[p] = "Leader" /\ currentTerm'[p] = currentTerm[p]
    <3>1. \A p \in Server : role'[p] = "Leader" => role[p] = "Leader"
      BY ZenonT(30), <2>2 DEF TypeInv, TypeOK
    <3>2. role'[s] = "Leader" => T = currentTerm[s]
      BY <1>1, <1>2, <2>2 DEF TypeInv, TypeOK
    <3>3. currentTerm'[s] = T
      BY ZenonT(30), <1>1, <1>2 DEF TypeInv, TypeOK
    <3> QED
      BY ZenonT(30), <1>3, <3>1, <3>2, <3>3
  <2>4. RpcIsSound(response)
    <3>1. /\ response.kind = "AE_resp" /\ response.savedTerm = T /\ response.src = m.src
          /\ response.success = FALSE
      BY Zenon DEF AppendEntriesResponse
    <3> HIDE DEF response
    <3> QED
      BY ZenonT(30), <1>2, <3>1 DEF RpcIsSound, AppendResponseIsSound, AppendRequestIsSound
  <2>5. \A x \in rpcs' : RpcIsSound(x)
    <3> HIDE DEF response
    <3>1. \A x \in rpcs' : x \in rpcs \/ x = response
      BY Zenon, <2>2
    <3> QED
      BY <2>4, <3>1 DEF LogInv, RpcsAreSound
  <2>6. \A q \in Server : role'[q] = "Leader" =>
          /\ role[q] = "Leader" /\ currentTerm'[q] = currentTerm[q]
          /\ \A p \in Server : Acknowledged(p, currentTerm[q], peers'[q][p].matchIndex)
    BY ZenonT(30), <2>2, <2>3 DEF LogInv, MatchesAreSound
  <2>7. TameStep
    BY ZenonT(30), <1>1, <1>3, <2>2, <2>5, <2>6, TimidIsTame
  <2> QED
    BY <2>7, TameStepKeepsLogInv
<1>6. CASE failed # {}
  <2>1. failed # {"CommitWithinLog"}
    <3> SUFFICES ASSUME failed = {"CommitWithinLog"} PROVE FALSE
      OBVIOUS
    <3>1. PrevLogIsOk(s, m) /\ m.commitIndex > Len(LogAfterAppend(s, m))
      BY ZenonT(30) DEF AppendEntriesRequestAssert
    <3>2. /\ Len(LogAfterAppend(s, m)) \in Nat
          /\ Agree(LogAfterAppend(s, m), leaderLog[T], m.prevLogIndex + Len(m.entries))
      BY Zenon, <1>1, <3>1, AppendFollows
    <3>3. m.prevLogIndex + Len(m.entries) <= Len(LogAfterAppend(s, m))
      BY <3>2 DEF Agree
    <3>4. m.commitIndex <= m.prevLogIndex + Len(m.entries)
      BY <1>2 DEF AppendRequestIsSound
    <3> QED
      BY <1>2, <3>1, <3>2, <3>3, <3>4
  <2>2. /\ LoseVolatile(s) /\ rpcs' = Orphaned(s, rpcs \ {m})
        /\ log' = [log EXCEPT ![s] = IF failed = {"CommitWithinLog"}
                                     THEN LogAfterAppend(s, m) ELSE @]
    BY <1>6 DEF HandleAppendEntriesRequest
  <2> HIDE DEF failed
  <2>3. log' = log
    BY <2>1, <2>2 DEF TypeInv, TypeOK
  <2>4. rpcs \ {m} \subseteq rpcs
    OBVIOUS
  <2>5. TameStep
    BY ZenonT(30), <1>1, <1>2, <1>3, <2>2, <2>3, <2>4, RestartIsTame
  <2> QED
    BY <2>5, TameStepKeepsLogInv
<1> QED
  BY <1>4, <1>5, <1>6

-----------------------------------------------------------------------------
(* LogInv is inductive.                                                    *)

\* LogInv holds at first.
LEMMA LogInvInit ==
  ASSUME Init
  PROVE  LogInv
<1>1. /\ \A s \in Server : log[s] = <<>> /\ currentTerm[s] = 0 /\ role[s] = "Follower"
                           /\ commitIndex[s] = 0 /\ firstIndex[s] = 1
      /\ \A t \in Term : leaderLog[t] = <<>> /\ electors[t] = {}
      /\ leaderLog = [t \in Term |-> <<>>] /\ electors = [t \in Term |-> {}]
      /\ rpcs = {} /\ votes = {} /\ elected = {} /\ committed = {}
  BY DEF Init
<1>2. HistoryOK
  BY <1>1 DEF HistoryOK
<1>3. Traced(leaderLog, <<>>) /\ \A t : Bounded(<<>>, t)
  BY DEF Traced, Bounded
<1>4. LogsAreTraced
  BY <1>1, <1>3, ZenonT(30) DEF LogsAreTraced
<1>5. LeadersAreElected /\ ElectorsVoted
  BY <1>1 DEF LeadersAreElected, ElectorsVoted
<1>6. MatchesAreSound /\ CommittedIsKept /\ LogsAreSafe /\ RpcsAreSound
  BY <1>1 DEF MatchesAreSound, CommittedIsKept, LogsAreSafe, Safe, RpcsAreSound
<1> QED
  BY <1>2, <1>4, <1>5, <1>6 DEF LogInv

\* Every step preserves it.
LEMMA LogInvStep ==
  ASSUME CountingFacts, TypeInv, TypeInv', VoteInv, VoteInv', ElectionSafety, ElectionSafety',
         LogInv,
         [Next]_vars
  PROVE  LogInv'
<1>1. ASSUME NEW s \in Server, NEW p \in Server, RequestVote(s, p) \/ AppendEntries(s, p)
      PROVE  LogInv'
  BY <1>1, RequestVoteIsTame, AppendEntriesIsTame, TameStepKeepsLogInv
<1>2. ASSUME NEW m \in rpcs, Receive(m)
      PROVE  LogInv'
  <2>1. CASE HandleRequestVoteRequest(m)
    BY <2>1, HandleRequestVoteRequestIsCalm, CalmStepKeepsLogInv
  <2>2. CASE HandleAppendEntriesRequest(m)
    BY <2>2, HandleAppendEntriesRequestKeepsLogInv
  <2>3. CASE \/ IgnoreRequestVoteResponse(m) \/ StepDownOnRequestVoteResponse(m)
             \/ IgnoreAppendEntriesResponse(m) \/ StepDownOnAppendEntriesResponse(m)
    BY <2>3, ResponsesAreTame, TameStepKeepsLogInv
  <2>4. CASE \/ CountRequestVoteResponse(m) \/ AcceptAppendEntriesResponse(m)
             \/ BackOffOnAppendEntriesResponse(m)
    BY <2>4, PeerStepsAreTame, TameStepKeepsLogInv
  <2>5. CASE RejectStaleAppendEntriesRequest(m)
    BY <2>5, OtherStepsAreTame, TameStepKeepsLogInv
  <2>6. CASE AbortOnAppendEntriesResponse(m)
    BY <2>6, AbortOnAppendEntriesResponseIsTame, TameStepKeepsLogInv
  <2> QED
    BY <1>2, <2>1, <2>2, <2>3, <2>4, <2>5, <2>6 DEF Receive
<1>3. ASSUME NEW m \in rpcs, FailRpc(m)
      PROVE  LogInv'
  BY <1>3, PeerStepsAreTame, TameStepKeepsLogInv
<1>4. ASSUME NEW m \in rpcs, CrashBetweenTruncateAndAppend(m)
      PROVE  LogInv'
  BY <1>4, CrashBetweenTruncateAndAppendKeepsLogInv
<1>5. ASSUME NEW s \in Server, BecomeLeader(s)
      PROVE  LogInv'
  BY <1>5, BecomeLeaderKeepsLogInv
<1>6. ASSUME NEW s \in Server, AdvanceCommitIndex(s)
      PROVE  LogInv'
  BY <1>6, AdvanceCommitIndexKeepsLogInv
<1>7. ASSUME NEW s \in Server, HandleClientRequests(s)
      PROVE  LogInv'
  BY <1>7, HandleClientRequestsKeepsLogInv
<1>8. ASSUME NEW s \in Server, ElectionTimeout(s)
      PROVE  LogInv'
  BY <1>8, ElectionTimeoutIsCalm, CalmStepKeepsLogInv
<1>9. ASSUME NEW s \in Server, Crash(s) \/ CrashBetweenTermAndVote(s)
      PROVE  LogInv'
  BY <1>9, CrashIsTame, TameStepKeepsLogInv
<1>10. CASE \/ \E s \in Server : LeadershipTimeout(s)
            \/ \E s \in Server : \E i \in Index : TruncatePrefix(s, i)
            \/ \E m \in rpcs : LoseRequest(m)
            \/ UNCHANGED vars
  BY <1>10, OtherStepsAreTame, TameStepKeepsLogInv
<1> QED
  BY <1>1, <1>2, <1>3, <1>4, <1>5, <1>6, <1>7, <1>8, <1>9, <1>10 DEF Next

-----------------------------------------------------------------------------
(* What it buys.                                                           *)

\* Logs that agree up to n have the same first n entries.
LEMMA AgreeIsSamePrefix ==
  ASSUME NEW q \in Seq(Term), NEW r \in Seq(Term), NEW n \in Nat, Agree(q, r, n)
  PROVE  SubSeq(q, 1, n) = SubSeq(r, 1, n)
<1> DEFINE a == SubSeq(q, 1, n)
           b == SubSeq(r, 1, n)
<1>1. n <= Len(q) /\ n <= Len(r) /\ \A j \in 1 .. n : q[j] = r[j]
  BY DEF Agree
<1>2. /\ a \in Seq(Term) /\ Len(a) = IF 1 <= n THEN n - 1 + 1 ELSE 0
      /\ \A k \in 1 .. Len(a) : a[k] = q[1 + k - 1]
  BY <1>1, CutLog
<1>3. /\ b \in Seq(Term) /\ Len(b) = IF 1 <= n THEN n - 1 + 1 ELSE 0
      /\ \A k \in 1 .. Len(b) : b[k] = r[1 + k - 1]
  BY <1>1, CutLog
<1> HIDE DEF a, b
<1>4. Len(a) = n /\ Len(b) = n /\ \A k \in 1 .. n : 1 + k - 1 = k
  BY <1>2, <1>3
<1>5. \A k \in 1 .. Len(a) : a[k] = b[k]
  BY <1>1, <1>2, <1>3, <1>4
<1>6. a = b
  BY <1>2, <1>3, <1>4, <1>5
<1> QED
  BY <1>6 DEF a, b

\* Two logs that hold an entry of one term at one index agree up to it: in every state.
LEMMA LogsMatch ==
  ASSUME RaftInv
  PROVE  LogMatching
<1> SUFFICES ASSUME NEW s \in Server, NEW p \in Server,
                    NEW i \in DOMAIN log[s] \intersect DOMAIN log[p], log[s][i] = log[p][i]
             PROVE  SubSeq(log[s], 1, i) = SubSeq(log[p], 1, i)
  BY Zenon DEF LogMatching
<1>1. log[s] \in Seq(Term) /\ log[p] \in Seq(Term)
  BY LogTypes DEF RaftInv, LogInv
<1>2. i \in 1 .. Len(log[s]) /\ i \in 1 .. Len(log[p])
  BY <1>1
<1>3. Has(log[s], i, log[s][i]) /\ Has(log[p], i, log[s][i])
  BY <1>2 DEF Has
<1>4. Traced(leaderLog, log[s]) /\ Traced(leaderLog, log[p])
  BY DEF RaftInv, LogInv, LogsAreTraced
<1>5. Agree(log[s], log[p], i)
  BY <1>3, <1>4, TracedMeet
<1>6. i \in Nat
  BY <1>2
<1> QED
  BY <1>1, <1>5, <1>6, AgreeIsSamePrefix

\* A leader has what was committed up to its term.
LEMMA LeaderHasCommitted ==
  ASSUME RaftInv, NEW c \in committed, NEW s \in Server, role[s] = "Leader", currentTerm[s] >= c[2]
  PROVE  /\ Agree(log[s], leaderLog[c[2]], c[1]) /\ Has(log[s], c[1], c[2])
         /\ log[s] = leaderLog[currentTerm[s]]
<1>1. /\ TypeInv /\ HistoryOK /\ LogsAreTraced /\ LeadersAreElected /\ CommittedIsKept
  BY DEF RaftInv, LogInv
<1>2. currentTerm[s] \in Term /\ currentTerm[s] \in Nat /\ c[2] \in Nat
  BY <1>1, LogTypes, CommittedTypes
<1>3. <<currentTerm[s], s>> \in elected /\ log[s] = leaderLog[currentTerm[s]]
  BY <1>1 DEF LeadersAreElected
<1>4. leaderLog[currentTerm[s]] # <<>>
  <2>1. <<currentTerm[s], s>>[1] = currentTerm[s]
    OBVIOUS
  <2> QED
    BY <1>1, <1>3, <2>1 DEF LeadersAreElected
<1>5. c[2] <= currentTerm[s]
  BY <1>2
<1> QED
  BY <1>1, <1>2, <1>3, <1>4, <1>5, LeadersAgreeOnCommitted

\* Servers agree on what they hold committed.
LEMMA CommittedPrefixesAgree ==
  ASSUME RaftInv, NEW s \in Server, NEW p \in Server, NEW c \in committed, NEW e \in committed,
         c[2] <= e[2], NEW n \in Nat, n <= c[1], n <= e[1],
         Agree(log[s], leaderLog[c[2]], n), Agree(log[p], leaderLog[e[2]], n)
  PROVE  Agree(log[s], log[p], n)
<1>1. /\ TypeInv /\ HistoryOK /\ LogsAreTraced /\ CommittedIsKept
  BY DEF RaftInv, LogInv
<1>2. /\ c[1] \in Nat /\ c[2] \in Term /\ e[1] \in Nat /\ e[2] \in Term
      /\ leaderLog[c[2]] \in Seq(Term) /\ leaderLog[e[2]] \in Seq(Term)
  BY <1>1, LogTypes, CommittedTypes
<1>3. leaderLog[e[2]] # <<>>
  <2>1. Has(leaderLog[e[2]], e[1], e[2])
    BY <1>1 DEF CommittedIsKept, EntryIsKept
  <2> QED
    BY <1>2, <2>1 DEF Has
<1>4. Agree(leaderLog[e[2]], leaderLog[c[2]], c[1])
  BY <1>1, <1>2, <1>3, LeadersAgreeOnCommitted
<1>5. Agree(leaderLog[e[2]], leaderLog[c[2]], n)
  BY <1>2, <1>4, AgreeBelow
<1> QED
  BY <1>5, AgreeTransitive, AgreeSymmetric

\* State machines are fed the same entries.
LEMMA StateMachinesAgree ==
  ASSUME RaftInv
  PROVE  StateMachineSafety
<1> SUFFICES ASSUME NEW s \in Server, NEW p \in Server,
                    NEW i \in 1 .. Min({commitIndex[s], commitIndex[p]})
             PROVE  log[s][i] = log[p][i]
  BY DEF StateMachineSafety
<1>1. TypeInv /\ HistoryOK /\ LogsAreSafe
  BY DEF RaftInv, LogInv
<1>2. /\ commitIndex[s] \in Nat /\ commitIndex[p] \in Nat
      /\ log[s] \in Seq(Term) /\ log[p] \in Seq(Term)
  BY <1>1, IndexTypes, LogTypes
<1>3. i \in Nat /\ i >= 1 /\ i <= commitIndex[s] /\ i <= commitIndex[p]
  BY <1>2, MinOfTwo
<1>4. Safe(s, i) /\ Safe(p, i)
  BY <1>1, <1>2, <1>3, SafeBelow DEF LogsAreSafe
<1>5. PICK c \in committed : i <= c[1] /\ Agree(log[s], leaderLog[c[2]], i)
  BY <1>3, <1>4 DEF Safe
<1>6. PICK e \in committed : i <= e[1] /\ Agree(log[p], leaderLog[e[2]], i)
  BY <1>3, <1>4 DEF Safe
<1>7. c[2] \in Nat /\ e[2] \in Nat
  BY <1>1, CommittedTypes
<1>8. CASE c[2] <= e[2]
  <2>1. Agree(log[s], log[p], i)
    BY <1>3, <1>5, <1>6, <1>8, CommittedPrefixesAgree
  <2> QED
    BY <1>3, <2>1 DEF Agree
<1>9. CASE e[2] <= c[2]
  <2>1. Agree(log[p], log[s], i)
    BY <1>3, <1>5, <1>6, <1>9, CommittedPrefixesAgree
  <2> QED
    BY <1>3, <2>1 DEF Agree
<1> QED
  BY <1>7, <1>8, <1>9

\* Match indexes count shared entries.
LEMMA MatchesAreShared ==
  ASSUME RaftInv
  PROVE  MatchIndexIsShared
<1> SUFFICES ASSUME NEW s \in Server, NEW p \in Server, role[s] = "Leader",
                    currentTerm[p] = currentTerm[s], NEW n, n = peers[s][p].matchIndex
             PROVE  Len(log[p]) >= n /\ SubSeq(log[p], 1, n) = SubSeq(log[s], 1, n)
  BY Zenon DEF MatchIndexIsShared
<1>1. TypeInv /\ HistoryOK /\ LeadersAreElected /\ MatchesAreSound
  BY DEF RaftInv, LogInv
<1>2. n \in Nat
  <2>1. peers[s][p] \in Peer
    BY <1>1 DEF TypeInv, TypeOK
  <2>2. n \in Index
    BY <2>1 DEF Peer
  <2> QED
    BY <2>2, BoundAssumption DEF Index
<1>3. /\ log[s] \in Seq(Term) /\ log[p] \in Seq(Term) /\ Len(log[p]) \in Nat /\ Len(log[s]) \in Nat
  BY <1>1, LogTypes
<1>4. log[s] = leaderLog[currentTerm[s]]
  BY ZenonT(30), <1>1 DEF LeadersAreElected
<1>5. Acknowledged(p, currentTerm[s], n)
  BY <1>1 DEF MatchesAreSound
<1>6. Agree(log[p], log[s], n)
  <2>1. CASE n = 0
    BY <1>3, <2>1 DEF Agree
  <2>2. CASE n # 0
    BY <1>4, <1>5, <2>2 DEF Acknowledged
  <2> QED
    BY <2>1, <2>2
<1>7. Len(log[p]) >= n
  BY <1>2, <1>3, <1>6 DEF Agree
<1> QED
  BY <1>2, <1>3, <1>6, <1>7, AgreeIsSamePrefix

-----------------------------------------------------------------------------
(* Clients and assertions.                                                 *)

\* Both invariants hold at first.
LEMMA ClientInvInit ==
  ASSUME Init
  PROVE  ClientInv /\ CallInv
BY DEF Init, ClientInv, CallInv

\* Every step preserves them.
LEMMA ClientInvStep ==
  ASSUME CountingFacts, RaftInv, TypeInv', ElectionSafety', ClientInv, CallInv, [Next]_vars
  PROVE  ClientInv' /\ CallInv'
<1> USE DEF RaftInv
<1>1. ASSUME NEW s \in Server, NEW p \in Server, RequestVote(s, p) \/ AppendEntries(s, p)
      PROVE  ClientInv' /\ CallInv'
  BY <1>1, SendingKeeps
<1>2. ASSUME NEW m \in rpcs, Receive(m) \/ FailRpc(m) \/ LoseRequest(m)
      PROVE  ClientInv' /\ CallInv'
  <2>1. CASE HandleAppendEntriesRequest(m)
    BY <2>1, HandleAppendEntriesRequestIsOrdinary, OrdinaryStepKeeps
  <2>2. CASE AbortOnAppendEntriesResponse(m)
    <3>1. m.src \in Server
      BY ZenonT(30), MessageFields DEF TypeInv, TypeOK
    <3>2. PICK a : Abort(m.src, a, rpcs \ {m}) /\ rpcs \ {m} \subseteq rpcs
      BY <2>2 DEF AbortOnAppendEntriesResponse
    <3> QED
      BY <3>1, <3>2, AbortIsDeadly, DeadlyStepKeeps
  <2>3. CASE ~HandleAppendEntriesRequest(m) /\ ~AbortOnAppendEntriesResponse(m)
    <3>1. OrdinaryStep
      BY <1>2, <2>3, MessagesAreOrdinary DEF Receive
    <3> QED
      BY <3>1, OrdinaryStepKeeps
  <2> QED
    BY <2>1, <2>2, <2>3
<1>3. ASSUME NEW m \in rpcs, CrashBetweenTruncateAndAppend(m)
      PROVE  ClientInv' /\ CallInv'
  <2>1. m.dst \in Server
    BY ZenonT(30), MessageFields DEF TypeInv, TypeOK
  <2> QED
    BY <1>3, <2>1, CrashBetweenTruncateAndAppendIsDeadly, DeadlyStepKeeps
<1>4. ASSUME NEW s \in Server, BecomeLeader(s) \/ HandleClientRequests(s) \/ AdvanceCommitIndex(s)
      PROVE  ClientInv' /\ CallInv'
  BY <1>4, BecomeLeaderKeeps, HandleClientRequestsKeeps, AdvanceCommitIndexKeeps
<1>5. ASSUME NEW s \in Server,
             ElectionTimeout(s) \/ LeadershipTimeout(s) \/ \E i \in Index : TruncatePrefix(s, i)
      PROVE  ClientInv' /\ CallInv'
  BY <1>5, TimeoutsAreOrdinary, OrdinaryStepKeeps
<1>6. ASSUME NEW s \in Server, Crash(s) \/ CrashBetweenTermAndVote(s)
      PROVE  ClientInv' /\ CallInv'
  BY <1>6, CrashIsDeadly, DeadlyStepKeeps
<1>7. CASE UNCHANGED vars
  <2>1. OrdinaryStep
    BY <1>7, UntouchedIsOrdinary DEF vars, persistent, volatile, history, CallInv
  <2> QED
    BY <2>1, OrdinaryStepKeeps
<1> QED
  BY <1>1, <1>2, <1>3, <1>4, <1>5, <1>6, <1>7 DEF Next

\* What a client was told lasts is in the log of every leader of the term and of later ones.
LEMMA AcknowledgedIsKept ==
  ASSUME RaftInv, ClientInv
  PROVE  AckedEntriesSurvive
<1> SUFFICES ASSUME NEW a \in acked, NEW s \in Server, role[s] = "Leader", currentTerm[s] >= a[2]
             PROVE  Len(log[s]) >= a[1] /\ log[s][a[1]] = a[2]
  BY DEF AckedEntriesSurvive
<1>1. PICK c \in committed : c[2] = a[2] /\ a[1] <= c[1] /\ Has(leaderLog[a[2]], a[1], a[2])
  BY DEF ClientInv
<1>2. Agree(leaderLog[a[2]], log[s], c[1])
  BY <1>1, LeaderHasCommitted, AgreeSymmetric
<1>3. TypeInv /\ HistoryOK
  BY DEF RaftInv, LogInv
<1>4. log[s] \in Seq(Term) /\ Len(log[s]) \in Nat
  BY <1>3, LogTypes
<1>5. leaderLog[a[2]] \in Seq(Term)
  <2>1. a[2] \in Term
    BY <1>3 DEF TypeInv, TypeOK
  <2> QED
    BY <1>3, <2>1, LogTypes
<1>6. c[1] \in Int
  BY <1>3, CommittedTypes
<1>7. Has(log[s], a[1], a[2])
  BY <1>1, <1>2, <1>4, <1>5, <1>6, AgreeHas
<1> QED
  BY <1>4, <1>7 DEF Has

\* No step makes an assertion fail that guards a handler.
LEMMA AssertionsStep ==
  ASSUME CountingFacts, RaftInv, ClientInv, CallInv, HandlerAssertionsHold, [Next]_vars
  PROVE  HandlerAssertionsHold'
<1> USE DEF RaftInv
<1>1. ASSUME UNCHANGED failedAsserts PROVE HandlerAssertionsHold'
  BY <1>1 DEF HandlerAssertionsHold
<1>2. ASSUME OrdinaryStep PROVE HandlerAssertionsHold'
  BY <1>1, <1>2 DEF OrdinaryStep
<1>3. ASSUME NEW s \in Server, NEW p \in Server, RequestVote(s, p) PROVE HandlerAssertionsHold'
  BY <1>1, <1>3 DEF RequestVote, history
<1>4. ASSUME NEW s \in Server, NEW p \in Server, AppendEntries(s, p) PROVE HandlerAssertionsHold'
  <2>1. UNCHANGED failedAsserts \/ failedAsserts' = failedAsserts \union {"TermOfLogEntry"}
    BY <1>4 DEF AppendEntries, Abort, history
  <2> QED
    BY <2>1 DEF HandlerAssertionsHold
<1>5. ASSUME NEW m \in rpcs, Receive(m) \/ FailRpc(m) \/ LoseRequest(m)
      PROVE  HandlerAssertionsHold'
  <2>1. CASE HandleAppendEntriesRequest(m)
    BY <1>2, <2>1, HandleAppendEntriesRequestIsOrdinary
  <2>2. CASE AbortOnAppendEntriesResponse(m)
    <3>1. PICK a \in AppendEntriesResponseAssert(m) : failedAsserts' = failedAsserts \union {a}
      BY <2>2 DEF AbortOnAppendEntriesResponse, Abort
    <3>2. m.kind = "AE_resp"
      BY <2>2 DEF AbortOnAppendEntriesResponse, Arrived
    <3>3. currentTerm[m.src] = m.savedTerm => role[m.src] = "Leader"
      BY ZenonT(30), <3>2 DEF CallInv, CallIsLed, LedBy
    <3>4. a \in {"MatchIncreases", "MatchWithinLog", "Gap"}
      BY <3>1, <3>3 DEF AppendEntriesResponseAssert
    <3> QED
      BY <3>1, <3>4 DEF HandlerAssertionsHold
  <2>3. CASE ~HandleAppendEntriesRequest(m) /\ ~AbortOnAppendEntriesResponse(m)
    BY <1>2, <1>5, <2>3, MessagesAreOrdinary DEF Receive
  <2> QED
    BY <2>1, <2>2, <2>3
<1>6. ASSUME NEW m \in rpcs, CrashBetweenTruncateAndAppend(m) PROVE HandlerAssertionsHold'
  BY <1>1, <1>6 DEF CrashBetweenTruncateAndAppend, history
<1>7. ASSUME NEW s \in Server, BecomeLeader(s) \/ HandleClientRequests(s) \/ AdvanceCommitIndex(s)
      PROVE  HandlerAssertionsHold'
  BY ZenonT(30), <1>1, <1>7 DEF BecomeLeader, HandleClientRequests, AdvanceCommitIndex
<1>8. ASSUME NEW s \in Server,
             ElectionTimeout(s) \/ LeadershipTimeout(s) \/ \E i \in Index : TruncatePrefix(s, i)
      PROVE  HandlerAssertionsHold'
  BY <1>2, <1>8, TimeoutsAreOrdinary
<1>9. ASSUME NEW s \in Server, Crash(s) \/ CrashBetweenTermAndVote(s) PROVE HandlerAssertionsHold'
  BY <1>1, <1>9 DEF Crash, CrashBetweenTermAndVote, history
<1>10. CASE UNCHANGED vars
  BY <1>1, <1>10 DEF vars, history
<1> QED
  BY <1>3, <1>4, <1>5, <1>6, <1>7, <1>8, <1>9, <1>10 DEF Next

-----------------------------------------------------------------------------
(* Numbers and majorities.                                                 *)

INSTANCE FiniteSetTheorems
INSTANCE WellFoundedInduction

\* A nonempty set of natural numbers has a least element, and Min is it.
LEMMA LeastNatural ==
  ASSUME NEW S, S \subseteq Nat, S # {}
  PROVE  Min(S) \in S /\ \A x \in S : Min(S) <= x
<1> DEFINE R == {ss \in Nat \X Nat : ss[1] < ss[2]}
<1>0. IsWellFoundedOn(R, Nat)
  BY NatLessThanWellFounded, Zenon DEF OpToRel
<1>1. PICK x \in S : \A y \in S : ~ (<<y, x>> \in R)
  <2> HIDE DEF R
  <2> QED BY <1>0, WFMin, Zenon
<1>2. \A y \in S : x <= y
  <2> SUFFICES ASSUME NEW y \in S, y < x PROVE FALSE
    OBVIOUS
  <2>1. <<y, x>> \in R
    OBVIOUS
  <2> QED
    BY <1>1, <2>1
<1> QED
  BY Zenon, <1>2 DEF Min

\* Two majorities of one finite set have a member in common.
LEMMA MajoritiesMeet ==
  ASSUME NEW S, IsFiniteSet(S), NEW P \in SUBSET S, NEW Q \in SUBSET S,
         Cardinality(P) >= Cardinality(S) \div 2 + 1,
         Cardinality(Q) >= Cardinality(S) \div 2 + 1
  PROVE  P \intersect Q # {}
<1>1. /\ IsFiniteSet(P) /\ IsFiniteSet(Q) /\ IsFiniteSet(P \union Q)
      /\ Cardinality(P \union Q) <= Cardinality(S)
      /\ Cardinality(S) \in Nat
  BY FS_Subset, FS_CardinalityType
<1>2. SUFFICES ASSUME P \intersect Q = {} PROVE FALSE
  OBVIOUS
<1>3. /\ Cardinality(P) \in Nat /\ Cardinality(Q) \in Nat
      /\ Cardinality(P \union Q) \in Nat
  BY <1>1, FS_CardinalityType
<1>4. Cardinality(P \union Q) = Cardinality(P) + Cardinality(Q) - Cardinality(P \intersect Q)
  BY <1>1, FS_Union
<1>5. Cardinality(P \intersect Q) = 0
  BY Zenon, <1>2, FS_EmptySet
<1> HIDE <1>2
<1> QED
  BY <1>1, <1>3, <1>4, <1>5

\* The facts about the constants that the other modules assume.
LEMMA CountingFactsHold == CountingFacts
<1>1. \A S \in SUBSET Nat : S # {} => Min(S) \in S /\ \A x \in S : Min(S) <= x
  BY Zenon, LeastNatural
<1>2. \A P, Q \in SUBSET Server :
        Cardinality(P) >= Majority /\ Cardinality(Q) >= Majority => P \intersect Q # {}
  BY Zenon, ServerAssumption, MajoritiesMeet DEF Majority
<1>3. Cardinality(Server) \in Nat /\ Cardinality(Server) # 0
  BY ZenonT(30), ServerAssumption, FS_CardinalityType, FS_EmptySet
<1>4. Cardinality(Server) >= Majority
  BY <1>3 DEF Majority
<1> QED
  BY Zenon, <1>1, <1>2, <1>4 DEF CountingFacts

-----------------------------------------------------------------------------
(* The theorems.                                                           *)

\* Every reachable state is typed and its indexes lie in the logs: mNextIndex never
\* falls below 1, and neither a truncated suffix, nor a discarded prefix, nor a crash
\* leaves mCommitIndex beyond the end of the log.
THEOREM RaftTypeCorrect == Spec => [](TypeOK /\ IndexesWithinLog)
<1>1. Init => TypeInv
  BY TypeInvInit
<1>2. TypeInv /\ [Next]_vars => TypeInv'
  BY CountingFactsHold, TypeInvStep
<1>3. TypeInv => TypeOK /\ IndexesWithinLog
  BY DEF TypeInv
<1> QED
  BY <1>1, <1>2, <1>3, PTL DEF Spec

\* A server gives its vote to at most one candidate of a term, however often it
\* crashes and wherever between the writes of current_term and vote_for.
THEOREM RaftVotesOnce == Spec => []OneVotePerTerm
<1>1. Init => TypeInv /\ VoteInv
  BY TypeInvInit
     DEF Init, VoteInv, VotesArePersistent, OneVotePerTerm, VotesAreCast, LeadersHaveMajorities
<1>2. (TypeInv /\ VoteInv) /\ [Next]_vars => (TypeInv /\ VoteInv)'
  BY CountingFactsHold, TypeInvStep, VoteInvStep
<1>3. TypeInv /\ VoteInv => OneVotePerTerm
  BY DEF VoteInv
<1> QED
  BY <1>1, <1>2, <1>3, PTL DEF Spec

\* becomeLeader makes at most one server leader of a term, for every cluster, every
\* order, loss and delay of RPCs, and every crash.
THEOREM RaftElectionSafety == Spec => []ElectionSafety
<1>1. Init => TypeInv /\ VoteInv
  BY TypeInvInit
     DEF Init, VoteInv, VotesArePersistent, OneVotePerTerm, VotesAreCast, LeadersHaveMajorities
<1>2. (TypeInv /\ VoteInv) /\ [Next]_vars => (TypeInv /\ VoteInv)'
  BY CountingFactsHold, TypeInvStep, VoteInvStep
<1>3. TypeInv /\ VoteInv => ElectionSafety
  BY CountingFactsHold, OneMajorityPerTerm
<1> QED
  BY <1>1, <1>2, <1>3, PTL DEF Spec

\* RaftInv, the invariants together, holds in every state that RaftCore reaches.
THEOREM RaftInvariant == Spec => []RaftInv
<1>1. Init => TypeInv /\ VoteInv /\ LogInv
  BY TypeInvInit, LogInvInit
     DEF Init, VoteInv, VotesArePersistent, OneVotePerTerm, VotesAreCast, LeadersHaveMajorities
<1>2. TypeInv /\ VoteInv /\ [Next]_vars => TypeInv' /\ VoteInv'
  BY CountingFactsHold, TypeInvStep, VoteInvStep
<1>3. TypeInv /\ VoteInv => ElectionSafety
  BY CountingFactsHold, OneMajorityPerTerm
<1>4. /\ TypeInv /\ VoteInv /\ ElectionSafety /\ LogInv
      /\ TypeInv' /\ VoteInv' /\ ElectionSafety'
      /\ [Next]_vars
      => LogInv'
  BY CountingFactsHold, LogInvStep
<1> QED
  BY <1>1, <1>2, <1>3, <1>4, PTL DEF Spec, RaftInv

\* Two logs that hold an entry of one term at one index agree up to that index, for every
\* cluster, every order, loss and delay of RPCs, every crash and every truncation.
THEOREM RaftLogMatching == Spec => []LogMatching
<1>1. RaftInv => LogMatching
  BY LogsMatch
<1> QED
  BY <1>1, RaftInvariant, PTL

\* An entry that advanceCommitIndex committed is in the log of every leader of its term and
\* of later ones.
THEOREM RaftLeaderCompleteness == Spec => []LeaderCompleteness
<1>1. RaftInv => LeaderCompleteness
  <2> SUFFICES ASSUME RaftInv, NEW c \in committed, NEW s \in Server, role[s] = "Leader",
                      currentTerm[s] >= c[2]
               PROVE  Len(log[s]) >= c[1] /\ log[s][c[1]] = c[2]
    BY DEF LeaderCompleteness
  <2>1. Has(log[s], c[1], c[2])
    BY LeaderHasCommitted
  <2>2. Len(log[s]) \in Nat
    BY LogTypes DEF RaftInv, LogInv
  <2> QED
    BY <2>1, <2>2 DEF Has
<1> QED
  BY <1>1, RaftInvariant, PTL

\* Two servers never differ on an entry that both hold committed: the state machines that
\* getEntry feeds do not diverge.
THEOREM RaftStateMachineSafety == Spec => []StateMachineSafety
<1>1. RaftInv => StateMachineSafety
  BY StateMachinesAgree
<1> QED
  BY <1>1, RaftInvariant, PTL

\* The mMatchIndex of a leader counts only entries that it shares with a follower of its
\* term, in whatever order responses come back.
THEOREM RaftMatchIndexIsShared == Spec => []MatchIndexIsShared
<1>1. RaftInv => MatchIndexIsShared
  BY MatchesAreShared
<1> QED
  BY <1>1, RaftInvariant, PTL

\* Clients, calls and hints stay as ClientInv and CallInv say in every behaviour.
THEOREM RaftClientInvariant == Spec => [](ClientInv /\ CallInv)
<1>1. Init => ClientInv /\ CallInv
  BY ClientInvInit
<1>2. RaftInv => TypeInv /\ ElectionSafety
  BY DEF RaftInv
<1>3. /\ RaftInv /\ ClientInv /\ CallInv
      /\ TypeInv' /\ ElectionSafety'
      /\ [Next]_vars
      => ClientInv' /\ CallInv'
  BY CountingFactsHold, ClientInvStep
<1> QED
  BY <1>1, <1>2, <1>3, RaftInvariant, PTL DEF Spec

\* An entry whose client was answered is in the log of every leader of its term and of later
\* ones, however many servers crashed since.
THEOREM RaftAckedEntriesSurvive == Spec => []AckedEntriesSurvive
<1>1. RaftInv /\ ClientInv => AckedEntriesSurvive
  BY AcknowledgedIsKept
<1> QED
  BY <1>1, RaftInvariant, RaftClientInvariant, PTL

\* The assertions of handleAppendEntriesRequest, and the first one of
\* handleAppendEntriesResponse, never fail.
THEOREM RaftHandlerAssertionsHold == Spec => []HandlerAssertionsHold
<1>1. Init => HandlerAssertionsHold
  BY DEF Init, HandlerAssertionsHold
<1>2. RaftInv /\ ClientInv /\ CallInv /\ HandlerAssertionsHold /\ [Next]_vars => HandlerAssertionsHold'
  BY CountingFactsHold, AssertionsStep
<1> QED
  BY <1>1, <1>2, RaftInvariant, RaftClientInvariant, PTL DEF Spec

=============================================================================
