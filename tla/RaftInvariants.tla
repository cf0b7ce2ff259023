-------------------------- MODULE RaftInvariants ---------------------------
(*****************************************************************************)
(* The invariants of RaftCore that its proofs rest on, and the kinds of      *)
(* steps that keep them.                                                     *)
(*                                                                           *)
(* leaderLog[t] is the log of the leader of term t, as far as it got.        *)
(* Every log is put together from such logs: whoever holds an entry of       *)
(* term t at index i agrees with leaderLog[t] up to i. A server that has     *)
(* acknowledged an entry of term t stands by it: it keeps the entry, and     *)
(* votes only for candidates that have it, unless the leader of some later   *)
(* term had already been elected without it. A majority that stands by an    *)
(* entry meets every majority that elects a leader, so a committed entry     *)
(* is in the log of every later leader.                                      *)
(*****************************************************************************)
EXTENDS RaftCore

TypeInv == TypeOK /\ IndexesWithinLog

\* What the proofs need to know of numbers and majorities: facts about the constants that
\* RaftSafetyProofs derives from the library, and that the other proof modules assume.
CountingFacts ==
  /\ \A S \in SUBSET Nat : S # {} => Min(S) \in S /\ \A x \in S : Min(S) <= x
  /\ \A P, Q \in SUBSET Server :
       Cardinality(P) >= Majority /\ Cardinality(Q) >= Majority => P \intersect Q # {}
  /\ Cardinality(Server) >= Majority

-----------------------------------------------------------------------------
(* Type correctness, action by action.                                     *)

\* A vote cast binds the voter for as long as it stays in the term.
VotesArePersistent ==
  \A v \in votes : /\ v[2] <= currentTerm[v[1]]
                   /\ v[2] = currentTerm[v[1]] => voteFor[v[1]] = v[3]

\* A vote that a response or a candidate's tally speaks of has been cast.
VotesAreCast ==
  /\ \A m \in rpcs : m.kind = "RV_resp" /\ m.voteGranted => <<m.dst, m.savedTerm, m.src>> \in votes
  /\ \A s \in Server : role[s] = "Candidate" =>
       /\ <<s, currentTerm[s], s>> \in votes
       /\ \A p \in Server : peers[s][p].haveVote => <<p, currentTerm[s], s>> \in votes

\* Whoever was elected had the votes of a majority.
LeadersHaveMajorities ==
  \A e \in elected : \E Q \in SUBSET Server :
    Cardinality(Q) >= Majority /\ \A q \in Q : <<q, e[1], e[2]>> \in votes

VoteInv == VotesArePersistent /\ OneVotePerTerm /\ VotesAreCast /\ LeadersHaveMajorities

TimidStep ==
  /\ UNCHANGED <<votes, elected>>
  /\ \A s \in Server : /\ currentTerm'[s] >= currentTerm[s]
                       /\ currentTerm'[s] = currentTerm[s] => voteFor'[s] = voteFor[s]
  /\ \A s \in Server : role'[s] = "Candidate" =>
       /\ role[s] = "Candidate" /\ currentTerm'[s] = currentTerm[s]
       /\ \A p \in Server : peers'[s][p].haveVote => peers[s][p].haveVote
  /\ \A m \in rpcs' : m.kind = "RV_resp" => m \in rpcs

-----------------------------------------------------------------------------
(* Logs.                                                                   *)

Has(q, i, t) == i \in 1 .. Len(q) /\ q[i] = t

Agree(q, r, n) == n <= Len(q) /\ n <= Len(r) /\ \A j \in 1 .. n : q[j] = r[j]

LastTermOf(q) == IF Len(q) = 0 THEN 0 ELSE q[Len(q)]

\* q is put together from the logs L of leaders.
Traced(L, q) == \A i \in 1 .. Len(q) : q[i] >= 1 /\ Agree(q, L[q[i]], i)

Bounded(q, t) == \A i \in 1 .. Len(q) : q[i] <= t

HistoryOK ==
  /\ leaderLog \in [Term -> Seq(Term)]
  /\ electors \in [Term -> SUBSET Server]

\* Every log, and the log of every leader there ever was, is put together from logs
\* of leaders of terms up to its own.
LogsAreTraced ==
  /\ \A s \in Server : Traced(leaderLog, log[s]) /\ Bounded(log[s], currentTerm[s])
  /\ \A u \in Term : Traced(leaderLog, leaderLog[u]) /\ Bounded(leaderLog[u], u)

-----------------------------------------------------------------------------
(* Leaders.                                                                *)

\* leaderLog speaks of the elected, and nobody stands for a term twice.
LeadersAreElected ==
  /\ \A s \in Server : role[s] # "Follower" => currentTerm[s] >= 1
  /\ \A s \in Server : role[s] = "Leader" =>
       <<currentTerm[s], s>> \in elected /\ log[s] = leaderLog[currentTerm[s]]
  /\ \A u \in Term : leaderLog[u] # <<>> => \E p \in Server : <<u, p>> \in elected
  /\ \A e \in elected : /\ leaderLog[e[1]] # <<>>
                        /\ e[1] <= currentTerm[e[2]]
                        /\ e[1] = currentTerm[e[2]] => role[e[2]] # "Candidate"

\* Every leader had a majority, and nobody has voted or is voted for in a term that it
\* has not reached.
ElectorsVoted ==
  /\ \A u \in Term : leaderLog[u] # <<>> => Cardinality(electors[u]) >= Majority
  /\ \A u \in Term : \A q \in electors[u] : u <= currentTerm[q]
  /\ \A v \in votes : v[2] <= currentTerm[v[3]]

-----------------------------------------------------------------------------
(* Acknowledged and committed entries.                                     *)

\* The leader of term u was elected and does not have entry i of term t.
Misses(L, u, i, t) == L[u] # <<>> /\ ~Has(L[u], i, t)

MissedBefore(L, i, t, w) == \E u \in Term : t < u /\ u < w /\ Misses(L, u, i, t)

\* q has entry i of term t unless a leader without it may have overwritten it.
Keeps(q, i, t) ==
  t <= currentTerm[q] /\ (Has(log[q], i, t) \/ MissedBefore(leaderLog, i, t, currentTerm[q] + 1))

\* No leader that q elected was the first to miss the entry.
ElectsWell(q, i, t) ==
  \A u \in Term : t < u /\ q \in electors[u] /\ leaderLog[u] # <<>>
    => Has(leaderLog[u], i, t) \/ MissedBefore(leaderLog, i, t, u)

\* No candidate that q backs would be the first to miss it.
BacksWell(q, i, t) ==
  \A p \in Server :
    LET u == currentTerm[p] IN
    role[p] = "Candidate" /\ t < u /\ <<q, u, p>> \in votes /\ leaderLog[u] = <<>>
      => Has(log[p], i, t) \/ MissedBefore(leaderLog, i, t, u)

Stands(q, i, t) == Keeps(q, i, t) /\ ElectsWell(q, i, t) /\ BacksWell(q, i, t)

\* p has told the leader of term t that it has the first n entries of its log.
Acknowledged(p, t, n) ==
  n = 0 \/ /\ t <= currentTerm[p]
           /\ n <= Len(leaderLog[t])
           /\ t = currentTerm[p] => Agree(log[p], leaderLog[t], n)
           /\ \A i \in 1 .. n : leaderLog[t][i] = t => Stands(p, i, t)

MatchesAreSound ==
  \A s, p \in Server : role[s] = "Leader" => Acknowledged(p, currentTerm[s], peers[s][p].matchIndex)

\* A majority stands by entry i of term t, and every later leader has it.
EntryIsKept(i, t) ==
  /\ Has(leaderLog[t], i, t)
  /\ \A u \in Term : t < u => ~Misses(leaderLog, u, i, t)
  /\ \E Q \in SUBSET Server : Cardinality(Q) >= Majority /\ \A q \in Q : Stands(q, i, t)

CommittedIsKept == \A c \in committed : EntryIsKept(c[1], c[2])

\* The first n entries of s are committed.
Safe(s, n) ==
  n = 0 \/ \E c \in committed :
             n <= c[1] /\ c[2] <= currentTerm[s] /\ Agree(log[s], leaderLog[c[2]], n)

LogsAreSafe ==
  \A s \in Server : Safe(s, commitIndex[s]) /\ (firstIndex[s] = 1 \/ Safe(s, firstIndex[s]))

-----------------------------------------------------------------------------
(* Messages.                                                               *)

VoteRequestIsSound(m) ==
  /\ m.term <= currentTerm[m.src]
  /\ role[m.src] = "Candidate" /\ currentTerm[m.src] = m.term =>
       m.lastLogIndex = Len(log[m.src]) /\ m.lastLogTerm = LastTermOf(log[m.src])

AppendRequestIsSound(m) ==
  /\ m.src # m.dst
  /\ <<m.term, m.src>> \in elected
  /\ m.prevLogIndex + Len(m.entries) <= Len(leaderLog[m.term])
  /\ \A k \in 1 .. Len(m.entries) : m.entries[k] = leaderLog[m.term][m.prevLogIndex + k]
  /\ m.prevLogTerm = 0 \/ (m.prevLogIndex >= 1 /\ leaderLog[m.term][m.prevLogIndex] = m.prevLogTerm)
  /\ m.commitIndex <= m.prevLogIndex + Len(m.entries)
  /\ m.commitIndex = 0 \/ \E c \in committed : m.commitIndex <= c[1] /\ c[2] <= m.term

AppendResponseIsSound(m) ==
  /\ <<m.savedTerm, m.src>> \in elected
  /\ m.success => Acknowledged(m.dst, m.savedTerm, m.matchIndex)

RpcIsSound(m) ==
  /\ m.kind = "RV_req" => VoteRequestIsSound(m)
  /\ m.kind = "AE_req" => AppendRequestIsSound(m)
  /\ m.kind = "AE_resp" => AppendResponseIsSound(m)

RpcsAreSound == \A m \in rpcs : RpcIsSound(m)

LogInv ==
  /\ HistoryOK
  /\ LogsAreTraced
  /\ LeadersAreElected
  /\ ElectorsVoted
  /\ MatchesAreSound
  /\ CommittedIsKept
  /\ LogsAreSafe
  /\ RpcsAreSound

-----------------------------------------------------------------------------
(* Voting.                                                                 *)

\* handleRequestVoteRequest finds log q at least as complete as log r.
UpToDate(q, r) ==
  \/ LastTermOf(q) > LastTermOf(r)
  \/ LastTermOf(q) = LastTermOf(r) /\ Len(q) >= Len(r)

-----------------------------------------------------------------------------
(* How the logs of leaders grow.                                           *)

\* r is q with entries of term u added.
Grown(q, r, u) ==
  Agree(q, r, Len(q)) /\ \A i \in 1 .. Len(r) : i > Len(q) => r[i] = u

LogsGrow(L, M) == \A u \in Term : L[u] # <<>> => Grown(L[u], M[u], u)

-----------------------------------------------------------------------------
(* What every step does, and what it therefore preserves.                  *)

\* The logs of leaders grow, and a new one is that of a candidate with a majority.
LeaderLogsEvolve ==
  /\ LogsGrow(leaderLog, leaderLog')
  /\ \A u \in Term : leaderLog[u] # <<>> => electors'[u] = electors[u]
  /\ \A u \in Term : leaderLog[u] = <<>> /\ leaderLog'[u] # <<>> =>
       /\ Cardinality(electors'[u]) >= Majority
       /\ \E p \in Server : /\ role[p] = "Candidate" /\ currentTerm[p] = u
                            /\ leaderLog'[u] = Append(log[p], u)
                            /\ \A q \in electors'[u] : <<q, u, p>> \in votes

\* A log grows, or is cut where it differs from that of the leader of its term.
LogsEvolve ==
  \A s \in Server :
    \/ Agree(log[s], log'[s], Len(log[s]))
    \/ LET T == currentTerm'[s] IN
       /\ leaderLog[T] # <<>>
       /\ \A n \in Nat : Agree(log[s], leaderLog[T], n) => Agree(log[s], log'[s], n)

\* A candidate keeps its log, and a new vote is for a log as complete as the voter's.
CandidatesEvolve ==
  \A p \in Server : role'[p] = "Candidate" =>
    /\ log'[p] = log[p]
    /\ \/ role[p] = "Candidate" /\ currentTerm'[p] = currentTerm[p]
       \/ currentTerm[p] < currentTerm'[p]
    /\ \A q \in Server : <<q, currentTerm'[p], p>> \in votes' =>
         \/ /\ role[p] = "Candidate" /\ currentTerm'[p] = currentTerm[p]
            /\ <<q, currentTerm[p], p>> \in votes
         \/ currentTerm[q] <= currentTerm'[p] /\ UpToDate(log[p], log[q])

Evolves ==
  /\ LeaderLogsEvolve /\ LogsEvolve /\ CandidatesEvolve
  /\ \A s \in Server : currentTerm[s] <= currentTerm'[s]
  /\ elected \subseteq elected' /\ committed \subseteq committed'

-----------------------------------------------------------------------------
(* Tame steps.                                                             *)

\* Logs, votes and elections stay, and what is new in the messages and the match
\* indexes is sound.
TameStep ==
  /\ UNCHANGED <<log, leaderLog, electors, votes, elected, committed>>
  /\ \A s \in Server : currentTerm[s] <= currentTerm'[s]
  /\ \A s \in Server : role'[s] # "Follower" => role'[s] = role[s] /\ currentTerm'[s] = currentTerm[s]
  /\ \A s \in Server : commitIndex'[s] \in {0, commitIndex[s]}
  /\ \A s \in Server : firstIndex'[s] = firstIndex[s] \/ firstIndex'[s] <= commitIndex[s]
  /\ \A s, p \in Server : role'[s] = "Leader" =>
       Acknowledged(p, currentTerm[s], peers'[s][p].matchIndex)
  /\ \A m \in rpcs' : RpcIsSound(m)

\* A calm step may also cast votes that the candidate's log deserves.
CalmStep ==
  /\ UNCHANGED <<log, leaderLog, electors, elected, committed>>
  /\ votes \subseteq votes'
  /\ \A v \in votes' : v \in votes \/ v[2] <= currentTerm'[v[3]]
  /\ CandidatesEvolve
  /\ \A s \in Server : currentTerm[s] <= currentTerm'[s]
  /\ \A s \in Server : role'[s] = "Leader" => role[s] = "Leader" /\ currentTerm'[s] = currentTerm[s]
  /\ \A s \in Server : commitIndex'[s] \in {0, commitIndex[s]}
  /\ \A s \in Server : firstIndex'[s] = firstIndex[s] \/ firstIndex'[s] <= commitIndex[s]
  /\ \A s, p \in Server : role'[s] = "Leader" =>
       Acknowledged(p, currentTerm[s], peers'[s][p].matchIndex)
  /\ \A m \in rpcs' : RpcIsSound(m)

-----------------------------------------------------------------------------
(* A follower takes the entries of an AE_req.                              *)

\* r is q, or a part of the leader's log L that keeps what q shares with it.
Follows(q, r, L) ==
  \/ r = q
  \/ Agree(r, L, Len(r)) /\ \A n \in Nat : Agree(q, L, n) => Agree(q, r, n)

\* One server follows a leader of its term or a newer one; nothing else happens to logs,
\* votes and elections.
FollowerStep(s, r, T) ==
  /\ log' = [log EXCEPT ![s] = r]
  /\ currentTerm' = [currentTerm EXCEPT ![s] = T]
  /\ role'[s] = "Follower" /\ \A p \in Server : p # s => role'[p] = role[p]
  /\ UNCHANGED <<leaderLog, electors, votes, elected, committed>>

-----------------------------------------------------------------------------
(* LogInv is inductive.                                                    *)

\* What the invariants say together.
RaftInv == TypeInv /\ VoteInv /\ ElectionSafety /\ LogInv

-----------------------------------------------------------------------------
(* Clients and calls.                                                      *)

\* Only a leader has requests that wait, for entries of its term; what was answered is
\* covered by a commit of its own term.
ClientInv ==
  /\ \A s \in Server : \A e \in pending[s] :
       role[s] = "Leader" /\ e[2] = currentTerm[s] /\ Has(log[s], e[1], e[2])
  /\ \A a \in acked : \E c \in committed :
       c[2] = a[2] /\ a[1] <= c[1] /\ Has(leaderLog[a[2]], a[1], a[2])

\* s led term t, and leads it if it is still there.
LedBy(t, s) == <<t, s>> \in elected /\ (t = currentTerm[s] => role[s] = "Leader")

\* Whoever waits for the answer to an AE_req led the term of the request.
CallIsLed(m) ==
  /\ m.kind = "AE_req" /\ m.open => LedBy(m.term, m.src)
  /\ m.kind = "AE_resp" => LedBy(m.savedTerm, m.src)

\* The leader that a server knows of is the leader of its term.
CallInv ==
  /\ \A s \in Server : leaderId[s] # Nobody => <<currentTerm[s], leaderId[s]>> \in elected
  /\ \A m \in rpcs : CallIsLed(m)

\* The hint of s is right after the step.
KnowsLeader(s) == leaderId'[s] = Nobody \/ <<currentTerm'[s], leaderId'[s]>> \in elected

\* What a step may do to a server: nothing, move it to a newer term, let it follow the
\* leader of its own, or kill it.
Stays(s) == UNCHANGED <<role[s], currentTerm[s], leaderId[s], pending[s], log[s]>>

MovesOn(s) ==
  /\ role'[s] # "Leader" /\ currentTerm'[s] > currentTerm[s] /\ KnowsLeader(s)
  /\ pending'[s] = IF role[s] = "Leader" THEN {} ELSE pending[s]

Obeys(s) ==
  /\ role[s] # "Leader" /\ role'[s] # "Leader" /\ KnowsLeader(s)
  /\ UNCHANGED <<currentTerm[s], pending[s]>>

Dies(s) ==
  /\ role'[s] = "Follower" /\ currentTerm'[s] >= currentTerm[s] /\ leaderId'[s] = Nobody
  /\ pending'[s] = {}

\* Nobody is answered, nobody is elected and nobody dies.
OrdinaryStep ==
  /\ UNCHANGED <<acked, committed, leaderLog, elected, failedAsserts>>
  /\ \A s \in Server : Stays(s) \/ MovesOn(s) \/ Obeys(s)
  /\ \A m \in rpcs' : CallIsLed(m)

\* s dies, and with it all waiting for its calls.
DeadlyStep(s) ==
  /\ UNCHANGED <<acked, committed, leaderLog, elected>>
  /\ Dies(s) /\ \A p \in Server : p # s => Stays(p)
  /\ \E R \in SUBSET rpcs : rpcs' = Orphaned(s, R)
=============================================================================
