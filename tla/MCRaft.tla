------------------------------- MODULE MCRaft -------------------------------
(***************************************************************************)
(* Instances of RaftCore for TLC.                                          *)
(*                                                                         *)
(* View hides what can no longer matter: the members of Peer that the role *)
(* of its owner never reads before it resets them, and the contents of     *)
(* messages of a term that the receiver has already left, since all their  *)
(* receiver looks at is that term.  It also hides leaderLog and electors,  *)
(* which the proofs speak of and no action or invariant of a run reads.    *)
(***************************************************************************)
EXTENDS RaftCore, TLC

CONSTANTS n1, n2, n3

\* Two rivals that only reach the voter between them.
Rivals == {n1, n3}
ViaVoter == {<<n1, n2>>, <<n3, n2>>}
Voter == {n2}
Everyone == {n1, n2, n3}
NoCrash == {}
Symmetry == Permutations(Rivals)

\* A leader, the heir that it replicates to, and the voter that elects the heir.
LeaderAndHeir == {n1, n2}
ToHeirToVoter == {<<n1, n2>>, <<n2, n3>>}

\* One server that is elected over and over, and its two followers.
Incumbent == {n1}
FromIncumbent == {<<n1, n2>>, <<n1, n3>>}
FollowerSymmetry == Permutations({n2, n3})

\* A new leader and the follower whose log has diverged from its own.
ToDiverged == {<<n1, n2>>}

Entries(n, term) == [i \in 1 .. n |-> term]

\* n1 was elected by n3 in term 1, replicated some of its entries to n2 and perhaps
\* committed the first one with n3; n2 was elected by n3 in term 2, unless theirs = 0,
\* appended entries of its own, crashed and came back; n1 has been elected by n3 in
\* term 3.  From here on n3 is out of reach.  The history variables, which no property
\* of the run reads, start empty.
DivergedInit ==
  \E old, shared, theirs \in 0 .. MaxLogLen - 1, safe \in 0 .. 1 :
    /\ safe <= old /\ shared <= old /\ shared + theirs < MaxLogLen
    /\ theirs > 0 => shared >= safe
    /\ role = [s \in Server |-> IF s = n1 THEN "Leader" ELSE "Follower"]
    /\ currentTerm = (n1 :> 3 @@ n2 :> (IF theirs > 0 THEN 2 ELSE 1) @@ n3 :> 3)
    /\ voteFor = (n1 :> n1 @@ n2 :> (IF theirs > 0 THEN n2 ELSE Nobody) @@ n3 :> n1)
    /\ log = (n1 :> Append(Entries(old, 1), 3)
                @@ n2 :> (Entries(shared, 1) \o Entries(theirs, 2))
                @@ n3 :> Entries(safe, 1))
    /\ firstIndex = [s \in Server |-> 1]
    /\ commitIndex = [s \in Server |-> IF s = n1 THEN safe ELSE 0]
    /\ leaderId = [s \in Server |-> Nobody]
    /\ peers = [s \in Server |-> [p \in Server |->
                  IF s = n1 THEN [NewPeer EXCEPT !.nextIndex = old + 1, !.haveVote = (p = n3),
                                                 !.requestVoteDone = (p = n3)]
                  ELSE NewPeer]]
    /\ pending = [s \in Server |-> {}]
    /\ rpcs = {}
    /\ votes = {} /\ elected = {} /\ committed = {} /\ acked = {} /\ failedAsserts = {}
    /\ leaderLog = [t \in Term |-> <<>>] /\ electors = [t \in Term |-> {}]
    /\ errors = 0 /\ crashes = 0 /\ truncations = 0

DivergedSpec == DivergedInit /\ [][Next]_vars /\ Fairness

LivePeer(s, p) ==
  CASE role[s] = "Follower"  -> <<>>
    [] role[s] = "Candidate" -> <<peers[s][p].requestVoteDone, peers[s][p].haveVote,
                                  peers[s][p].switchOn>>
    [] role[s] = "Leader"    -> <<peers[s][p].matchIndex, peers[s][p].nextIndex,
                                  peers[s][p].suppressBulkData, peers[s][p].switchOn>>

LiveMessage(m) ==
  LET key == <<m.kind, m.call, m.src, m.dst>> IN
  IF IsRequest(m)
  THEN IF m.term < currentTerm[m.dst] THEN <<key, m.open, m.term>> ELSE <<key, m>>
  ELSE IF m.savedTerm # currentTerm[m.src] \/ role[m.src] = "Follower" THEN <<key>>
       ELSE IF m.term > currentTerm[m.src] THEN <<key, m.term>> ELSE <<key, m>>

View ==
  <<persistent, role, commitIndex, leaderId, pending,
    [s \in Server |-> [p \in Server |-> LivePeer(s, p)]],
    {LiveMessage(m) : m \in rpcs},
    votes, elected, committed, acked, failedAsserts, counters>>
=============================================================================
