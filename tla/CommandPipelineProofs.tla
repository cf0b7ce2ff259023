----------------------- MODULE CommandPipelineProofs -----------------------
(***************************************************************************)
(* Proofs about the threads between a client's command and its answer, for *)
(* any number of commands, reply threads and terms: an entry is decided on *)
(* the state that its predecessors in the log produce, answers speak of    *)
(* committed state, the event apply loop and RocksDB are replays of the    *)
(* committed log, and the assertions of the loops hold.                    *)
(***************************************************************************)
EXTENDS CommandPipeline, TLAPS

\* A leaf that names no prover is tried with SMT, with Zenon, and again with SMT and ever more time.
USE SMT, Zenon, SMTT(10), SMTT(20), SMTT(30), SMTT(40), SMTT(60)

EntryId == [index : Nat, term : Nat]
States == Seq(EntryId)
Entry == [term : Nat, noop : BOOLEAN, cmd : Nat, base : States]
Request == [index : Nat, term : Nat, cmd : Cmds, base : States]
Task == [index : Nat, term : Nat, cmd : Cmds, code : {"200", "refused"}, base : States, flag : 0..2]
Holding == [index : Nat, task : Task, phase : {"terms", "commit"}]
Loaded == [from : Nat, to : Nat, flag : 0..2]

\* The logs that entries of this replica's log come from.
Logs == dropped \cup {log}

\* What has been sent to handleClientRequests and has not been handled, or will be.
Requests == {mPersistQueue[k] : k \in DOMAIN mPersistQueue}
              \cup UNION {{clientRequests[b][k] : k \in DOMAIN clientRequests[b]} : b \in DOMAIN clientRequests}

\* What the reply loop has to do.
Holders == {t \in Repliers : replier[t] # NoTask}
Tasks == {replyQueue[k] : k \in DOMAIN replyQueue} \cup {replier[t].task : t \in Holders}

-----------------------------------------------------------------------------
(* The inductive invariant                                                 *)

RaftTypeOK ==
  /\ currentTerm \in Nat /\ role \in {"Other", "Elected", "Leader", "Stepping"}
  /\ log \in Seq(Entry) /\ dropped \in SUBSET Seq(Entry)
  /\ commitIndex \in 0..Len(log)

QueueTypeOK == mPersistQueue \in Seq(Request) /\ clientRequests \in Seq(Seq(Request))

CplTypeOK ==
  /\ pc \in {"dequeue", "detect", "wait", "waitLast", "waitCommit", "waitLoaded", "waitApplied",
             "swap", "process", "persist"}
  /\ command \in Nat /\ arrived \in 0..Cardinality(Cmds)
  /\ pc # "dequeue" => command \in Cmds
  /\ mLastCheckedTerm \in 0..currentTerm /\ mLastCheckedRole \in BOOLEAN /\ mLastCommandId \in Nat
  /\ cplState \in States /\ read \in Seq(Nat)

EalTypeOK ==
  /\ ealPc \in {"idle", "load", "apply"} /\ mShouldRecover \in BOOLEAN
  /\ ealState \in States /\ dbState \in States
  /\ mLoadedIndex \in Nat /\ mAppliedIndex \in Nat /\ mApplyingIndex \in Nat
  /\ mTaskQueue \in Seq(Loaded) /\ mCachedBundles \in Seq(Nat)

ReplyTypeOK ==
  /\ replyQueue \in Seq(Task)
  /\ replier \in [Repliers -> {NoTask} \cup Holding]
  /\ \A t \in Holders : replier[t].index = replier[t].task.index
  /\ answer \in [Cmds -> [code : {"none", "200", "301", "refused"}, base : States]]

\* Raft: terms, the no-op of a term, and log matching
HasTerm(l, i, t) == i \in DOMAIN l /\ l[i].term = t
Agree(l, m, n) == \A j \in 1..n : l[j] = m[j]

RaftInv ==
  /\ \A l \in Logs : \A i \in DOMAIN l : l[i].term \in 1..currentTerm
  /\ \A l \in dropped : \A i \in DOMAIN l : l[i].term < currentTerm
  /\ \A l \in Logs : \A i, j \in DOMAIN l : i <= j => l[i].term <= l[j].term
  /\ \A l, m \in Logs : \A i \in DOMAIN l : \A j \in DOMAIN m :
       l[i].noop /\ m[j].noop /\ l[i].term = m[j].term => i = j
  /\ \A l, m \in Logs : \A i \in DOMAIN l : HasTerm(m, i, l[i].term) => Agree(l, m, i)
  /\ role = "Elected" => ~HasEntryOfTerm(currentTerm)
  /\ role # "Other" => currentTerm >= 1

\* Every entry of a command, dropped or not, was decided on its prefix.
DecidedInv == \A l \in Logs : \A i \in DOMAIN l : l[i].cmd # NoCmd => l[i].base = StateAt(l, i - 1)

\* The CPL and the leadership it believes in
OutOfWait == pc \in {"dequeue", "detect", "process", "persist"}
Leads == mLastCheckedRole /\ mLastCheckedTerm = currentTerm
InCharge == Leads /\ OutOfWait

OnlyNoops(t) == \A l \in Logs : \A i \in DOMAIN l : l[i].term = t => l[i].noop

LeadsInv ==
  /\ Leads => role # "Other"
  /\ pc \notin {"dequeue", "detect"} => mLastCheckedRole
  /\ role # "Other" /\ ~InCharge => OnlyNoops(currentTerm)
  /\ ~OutOfWait => OnlyNoops(mLastCheckedTerm)

\* s is the first of t, and t has d more.
Misses(s, t, d) == IsPrefix(s, t) /\ Len(t) = Len(s) + d

\* What the CPL has decided is its log and what it has sent, and nothing else of its term.
Speculates ==
  LET s == StateAt(log, Len(log)) IN
  /\ Misses(s, cplState, mLastCommandId - Len(log))
  /\ \A k \in (Len(s) + 1)..Len(cplState) :
       cplState[k] = [index |-> Len(log) + (k - Len(s)), term |-> mLastCheckedTerm]

ChargeInv ==
  /\ InCharge => /\ role # "Elected"
                 /\ Len(log) <= mLastCommandId
                 /\ pc = "persist" => Len(log) < mLastCommandId
                 /\ Speculates
  /\ pc \in {"process", "persist"} =>
       \A l \in Logs : \A i \in DOMAIN l :
         l[i].term = mLastCheckedTerm => i <= mLastCommandId /\ (pc = "persist" => i < mLastCommandId)

Committed(state) == IsPrefix(state, StateAt(log, commitIndex))

\* A state that an answer may show once the entry at i is committed and of term t
Speaks(state, i, t) ==
  \A l \in Logs : HasTerm(l, i, t) => state = StateAt(l, i) \/ Committed(state)

DecisionInv ==
  /\ pc = "process" => Speaks(cplState, mLastCommandId, mLastCheckedTerm)
  /\ pc = "persist" => cplState # <<>>

RequestInv ==
  \A r \in Requests :
    /\ r.term <= mLastCheckedTerm
    /\ r.term = mLastCheckedTerm =>
         /\ mLastCheckedRole /\ OutOfWait
         /\ r.index <= mLastCommandId
         /\ pc = "persist" => r.index < mLastCommandId
         /\ InCharge => Misses(r.base, cplState, mLastCommandId - r.index + 1)

TaskInv ==
  \A x \in Tasks :
    /\ x.term <= mLastCheckedTerm
    /\ x.term = mLastCheckedTerm =>
         /\ mLastCheckedRole /\ OutOfWait
         /\ x.index <= mLastCommandId
         /\ InCharge /\ x.code = "refused" => Misses(x.base, cplState, mLastCommandId - x.index)
         /\ x.code = "200" /\ pc = "persist" /\ x.index = mLastCommandId =>
              x.cmd = command /\ x.base = Front(cplState)
    /\ x.code = "refused" => Speaks(x.base, x.index, x.term)
    /\ x.code = "200" =>
         /\ \A l \in Logs : HasTerm(l, x.index, x.term) => l[x.index].cmd = x.cmd /\ l[x.index].base = x.base
         /\ \A r \in Requests : r.index = x.index /\ r.term = x.term => r.cmd = x.cmd /\ r.base = x.base

\* The event apply loop: what it has applied, what it holds, and what is loaded
AppliedUpTo == IF mApplyingIndex > mAppliedIndex THEN mApplyingIndex ELSE mAppliedIndex
HeldUpTo == IF mTaskQueue = <<>> THEN mLoadedIndex ELSE Head(mTaskQueue).from - 1

EalInv ==
  /\ mLoadedIndex <= commitIndex
  /\ mShouldRecover => /\ ealPc = "idle" /\ mLoadedIndex = 0 /\ mAppliedIndex = 0 /\ mApplyingIndex = 0
                       /\ mTaskQueue = <<>> /\ mCachedBundles = <<>>
  /\ ~mShouldRecover => ealState = StateAt(log, IF ealPc = "apply" THEN AppliedUpTo - 1 ELSE AppliedUpTo)
  /\ ealPc = "apply" => mApplyingIndex > mAppliedIndex
  /\ mApplyingIndex > mAppliedIndex => ~log[mApplyingIndex].noop
  /\ AppliedUpTo <= HeldUpTo /\ HeldUpTo <= mLoadedIndex
  /\ \A k \in DOMAIN mTaskQueue :
       /\ mTaskQueue[k].from <= mTaskQueue[k].to /\ mTaskQueue[k].from >= 1
       /\ mTaskQueue[k].to =
            IF k = Len(mTaskQueue) THEN mLoadedIndex ELSE mTaskQueue[k + 1].from - 1
  /\ \A k \in DOMAIN mCachedBundles :
       /\ mCachedBundles[k] \in (AppliedUpTo + 1)..HeldUpTo
       /\ ~log[mCachedBundles[k]].noop
  /\ \A k, j \in DOMAIN mCachedBundles : k < j => mCachedBundles[k] < mCachedBundles[j]
  /\ \A i \in (AppliedUpTo + 1)..HeldUpTo :
       ~log[i].noop => \E k \in DOMAIN mCachedBundles : mCachedBundles[k] = i

DbInv == dbState = StateAt(log, LastApplied(dbState)) /\ LastApplied(dbState) <= commitIndex

\* The wait for the EAL
WaitInv ==
  /\ pc = "waitLast" => read = <<>>
  /\ pc = "waitCommit" => Len(read) = 1
  /\ pc = "waitLoaded" => Len(read) = 2 /\ read[2] <= commitIndex
  /\ pc = "waitApplied" => Len(read) = 3 /\ read[2] <= commitIndex /\ read[3] <= mLoadedIndex
  /\ pc = "swap" => /\ ~mShouldRecover
                    /\ mLastCommandId \in 1..commitIndex
                    /\ log[mLastCommandId].term = mLastCheckedTerm
                    /\ IsPrefix(StateAt(log, mLastCommandId), ealState)

\* The CPL counts the no-op of its term at least, and a task waits for an entry.
PlaceInv ==
  /\ InCharge \/ pc \in {"process", "persist"} => mLastCommandId >= 1
  /\ \A x \in Tasks : x.index >= 1

PipelineInv ==
  /\ RaftTypeOK /\ QueueTypeOK /\ CplTypeOK /\ EalTypeOK /\ ReplyTypeOK
  /\ RaftInv /\ DecidedInv
  /\ LeadsInv /\ ChargeInv /\ DecisionInv /\ RequestInv /\ TaskInv
  /\ EalInv /\ DbInv /\ WaitInv
  /\ AnswersAreCommitted /\ AssertionsHold


-----------------------------------------------------------------------------
(* Sequences, and functions that are defined by recursion                  *)

\* Two sequences of one length that agree are equal.
LEMMA SameSeq ==
  ASSUME NEW S, NEW s \in Seq(S), NEW t \in Seq(S), Len(s) = Len(t), \A i \in 1..Len(s) : s[i] = t[i]
  PROVE  s = t
<1>1. s = [i \in 1..Len(s) |-> s[i]] /\ t = [i \in 1..Len(t) |-> t[i]]
  OBVIOUS
<1> QED
  BY Zenon, <1>1

\* What the proofs use of prefixes
LEMMA PrefixFacts ==
  ASSUME NEW S, NEW s \in Seq(S), NEW t \in Seq(S), NEW u \in Seq(S)
  PROVE  /\ IsPrefix(s, s)
         /\ IsPrefix(s, t) /\ IsPrefix(t, u) => IsPrefix(s, u)
         /\ IsPrefix(s, t) /\ Len(s) = Len(t) => s = t
         /\ IsPrefix(s, u) /\ IsPrefix(t, u) /\ Len(s) <= Len(t) => IsPrefix(s, t)
         /\ IsPrefix(<<>>, s)
<1>1. Len(s) \in Nat /\ Len(t) \in Nat /\ Len(u) \in Nat /\ <<>> \in Seq(S) /\ Len(<<>>) = 0
  OBVIOUS
<1>2. IsPrefix(s, s) /\ IsPrefix(<<>>, s)
  BY <1>1 DEF IsPrefix
<1>3. IsPrefix(s, t) /\ IsPrefix(t, u) => IsPrefix(s, u)
  BY <1>1 DEF IsPrefix
<1>4. IsPrefix(s, t) /\ Len(s) = Len(t) => s = t
  BY Zenon, SameSeq DEF IsPrefix
<1>5. IsPrefix(s, u) /\ IsPrefix(t, u) /\ Len(s) <= Len(t) => IsPrefix(s, t)
  BY <1>1 DEF IsPrefix
<1> QED
  BY Zenon, <1>2, <1>3, <1>4, <1>5

\* Appending keeps the prefixes, and the front of what was appended to is what it was.
LEMMA AppendFacts ==
  ASSUME NEW S, NEW s \in Seq(S), NEW e \in S
  PROVE  /\ Append(s, e) \in Seq(S) /\ Len(Append(s, e)) = Len(s) + 1
         /\ \A i \in 1..Len(s) : Append(s, e)[i] = s[i]
         /\ Append(s, e)[Len(s) + 1] = e
         /\ IsPrefix(s, Append(s, e))
         /\ Front(Append(s, e)) = s
<1>1. /\ Append(s, e) \in Seq(S) /\ Len(Append(s, e)) = Len(s) + 1 /\ Len(s) \in Nat
      /\ \A i \in 1..Len(s) : Append(s, e)[i] = s[i]
      /\ Append(s, e)[Len(s) + 1] = e
  OBVIOUS
<1> DEFINE a == Append(s, e)
<1> HIDE DEF a
<1>2. IsPrefix(s, a)
  BY <1>1 DEF a, IsPrefix
<1>3. Front(a) = s
  <2>1. SubSeq(a, 1, Len(a) - 1) = [i \in 1..Len(s) |-> a[i]]
    BY <1>1 DEF a
  <2>2. s = [i \in 1..Len(s) |-> s[i]]
    OBVIOUS
  <2> QED
    BY Zenon, <1>1, <2>1, <2>2 DEF Front, a
<1> QED
  BY Zenon, <1>1, <1>2, <1>3 DEF a

\* A set of natural numbers that is not empty has a least member. The lemmas that count take this as a
\* hypothesis; CountingHolds proves it before the theorems, where the theory of induction comes in.
Counting == \A S \in SUBSET Nat : S # {} => \E n \in S : \A m \in S : n <= m

\* A set of natural numbers up to n with 0 and, with i, also i + 1 has all of them.
LEMMA Upwards ==
  ASSUME Counting, NEW n \in Nat, NEW P, 0 \in P, \A i \in 1..n : i - 1 \in P => i \in P
  PROVE  \A i \in 0..n : i \in P
<1> DEFINE Bad == {i \in 0..n : i \notin P}
<1> SUFFICES ASSUME Bad # {} PROVE FALSE
  OBVIOUS
<1>1. PICK k \in Bad : \A m \in Bad : k <= m
  <2>1. Bad \in SUBSET Nat
    OBVIOUS
  <2> HIDE DEF Bad
  <2> QED
    BY Zenon, <2>1 DEF Counting
<1>2. k \in 1..n /\ k - 1 \in 0..n /\ k \notin P
  <2>1. k # 0
    OBVIOUS
  <2> QED
    BY <2>1
<1>3. k - 1 \in P
  BY <1>1, <1>2
<1> QED
  BY <1>2, <1>3

\* f iterates G from e, and sees the step that it is at.
Iterates(f, n, S, e, G) ==
  /\ f \in [0..n -> S]
  /\ f[0] = e
  /\ \A i \in 1..n : f[i] = G[<<i, f[i - 1]>>]

\* What a recursive definition says has a function that satisfies it.
LEMMA Recursion ==
  ASSUME Counting, NEW n \in Nat, NEW S, NEW e \in S, NEW G \in [Nat \X S -> S]
  PROVE  \E f : Iterates(f, n, S, e, G)
<1> DEFINE Upto(k, f) == Iterates(f, k, S, e, G)
           Bad == {k \in Nat : ~\E f : Upto(k, f)}
<1>1. ASSUME NEW k \in Bad, \A j \in Bad : k <= j PROVE FALSE
  <2>1. k \in Nat /\ ~\E f : Upto(k, f)
    OBVIOUS
  <2>2. CASE k = 0
    <3>1. Upto(0, [i \in 0..0 |-> e])
      BY DEF Iterates
    <3> HIDE DEF Upto
    <3> QED
      BY Zenon, <2>1, <2>2, <3>1
  <2>3. CASE k # 0
    <3>1. k - 1 \in Nat /\ k - 1 \notin Bad
      <4> HIDE DEF Bad
      <4> QED
        BY <1>1, <2>1, <2>3
    <3>2. PICK f : Upto(k - 1, f)
      <4> HIDE DEF Upto
      <4> QED
        BY Zenon, <3>1
    <3> DEFINE last == G[<<k, f[k - 1]>>]
               g == [i \in 0..k |-> IF i = k THEN last ELSE f[i]]
    <3>3. f \in [0..(k - 1) -> S] /\ f[0] = e /\ \A i \in 1..(k - 1) : f[i] = G[<<i, f[i - 1]>>]
      BY Zenon, <3>2 DEF Iterates
    <3> HIDE DEF Upto, Bad
    <3>4. last \in S
      BY <2>1, <3>1, <3>3
    <3>5. g \in [0..k -> S] /\ g[0] = e
      <4> HIDE DEF last
      <4> QED
        BY <2>1, <2>3, <3>1, <3>3, <3>4
    <3>6. ASSUME NEW i \in 1..k PROVE g[i] = G[<<i, g[i - 1]>>]
      <4>1. g[i - 1] = f[i - 1] /\ i - 1 \in 0..(k - 1)
        BY <2>1, <2>3
      <4>2. CASE i = k
        <5>1. g[i] = last
          BY <2>1, <4>2
        <5> QED
          BY Zenon, <4>1, <4>2, <5>1
      <4>3. CASE i # k
        <5>1. g[i] = f[i] /\ i \in 1..(k - 1)
          BY <2>1, <4>3
        <5> QED
          BY Zenon, <3>3, <4>1, <5>1
      <4> QED
        BY <4>2, <4>3
    <3>7. Upto(k, g)
      <4> HIDE DEF g
      <4> QED
        BY Zenon, <3>5, <3>6 DEF Upto, Iterates
    <3> QED
      BY Zenon, <2>1, <3>7
  <2> QED
    BY <2>2, <2>3
<1>2. Bad = {}
  <2>1. Bad \in SUBSET Nat
    OBVIOUS
  <2> HIDE DEF Bad
  <2> QED
    BY Zenon, <1>1, <2>1 DEF Counting
<1>3. PICK f : Upto(n, f)
  <2> HIDE DEF Upto
  <2> QED
    BY Zenon, <1>2
<1> QED
  BY Zenon, <1>3

\* StateAt is the last value of a function that satisfies its recursive equation.
LEMMA StateAtIs ==
  ASSUME Counting, NEW E, NEW l \in Seq(E), NEW n \in 0..Len(l)
  PROVE  \E f : /\ f = [i \in 0..n |-> IF i = 0 THEN <<>> ELSE IF l[i].noop THEN f[i - 1] ELSE Append(f[i - 1], Id(l, i))]
                /\ StateAt(l, n) = f[n]
<1> DEFINE S == Seq([index : Nat, term : {l[i].term : i \in 1..n}])
           G == [p \in Nat \X S |-> IF p[1] \in 1..n /\ ~l[p[1]].noop THEN Append(p[2], Id(l, p[1])) ELSE p[2]]
<1>1. <<>> \in S /\ G \in [Nat \X S -> S]
  <2>1. ASSUME NEW p \in Nat \X S PROVE G[p] \in S
    <3>1. p[1] \in Nat /\ p[2] \in S
      OBVIOUS
    <3>2. CASE p[1] \in 1..n
      <4>1. Id(l, p[1]) \in [index : Nat, term : {l[i].term : i \in 1..n}]
        BY <3>1, <3>2 DEF Id
      <4>2. Append(p[2], Id(l, p[1])) \in S
        BY Zenon, <3>1, <4>1, AppendFacts
      <4> QED
        BY Zenon, <3>1, <4>2
    <3> QED
      BY Zenon, <3>1, <3>2
  <2>2. <<>> \in S
    OBVIOUS
  <2> QED
    BY Zenon, <2>1, <2>2
<1> HIDE DEF S
<1>2. PICK f : Iterates(f, n, S, <<>>, G)
  <2>1. n \in Nat
    OBVIOUS
  <2> HIDE DEF G
  <2> QED
    BY Zenon, <1>1, <2>1, Recursion
<1>3. f = [i \in 0..n |-> IF i = 0 THEN <<>> ELSE IF l[i].noop THEN f[i - 1] ELSE Append(f[i - 1], Id(l, i))]
  <2>1. ASSUME NEW i \in 0..n, i # 0 PROVE f[i] = IF l[i].noop THEN f[i - 1] ELSE Append(f[i - 1], Id(l, i))
    <3>1. i \in 1..n /\ f[i - 1] \in S /\ i \in Nat
      BY <1>2, <2>1 DEF Iterates
    <3>2. f[i] = G[<<i, f[i - 1]>>]
      <4>1. i \in 1..n
        BY <3>1
      <4> QED
        BY Zenon, <1>2, <4>1 DEF Iterates
    <3>3. G[<<i, f[i - 1]>>] = IF l[i].noop THEN f[i - 1] ELSE Append(f[i - 1], Id(l, i))
      BY <3>1
    <3> QED
      BY Zenon, <3>2, <3>3
  <2> QED
    BY <1>2, <2>1 DEF Iterates
<1> DEFINE Is(h) == h = [i \in 0..n |-> IF i = 0 THEN <<>> ELSE IF l[i].noop THEN h[i - 1] ELSE Append(h[i - 1], Id(l, i))]
<1>4. Is(f)
  BY Zenon, <1>3
<1> DEFINE c == CHOOSE h : Is(h)
<1>5. Is(c)
  BY Zenon, <1>4
<1>6. StateAt(l, n) = c[n]
  BY Zenon DEF StateAt
<1> QED
  BY Zenon, <1>5, <1>6

-----------------------------------------------------------------------------
(* What StateAt computes                                                   *)

\* f is what the recursive definition of StateAt says of l up to n.
IsRun(f, l, n) ==
  f = [i \in 0..n |-> IF i = 0 THEN <<>> ELSE IF l[i].noop THEN f[i - 1] ELSE Append(f[i - 1], Id(l, i))]

\* The states of two logs are the same as far as the logs are.
LEMMA RunsAgree ==
  ASSUME Counting, NEW l, NEW m, NEW f, NEW g, NEW n \in Nat, NEW k \in Nat, NEW j \in Nat, j <= n, j <= k,
         IsRun(f, l, n), IsRun(g, m, k), Agree(l, m, j)
  PROVE  \A i \in 0..j : f[i] = g[i]
<1> DEFINE P == {i \in 0..j : f[i] = g[i]}
<1>1. \A i \in 0..n : f[i] = IF i = 0 THEN <<>> ELSE IF l[i].noop THEN f[i - 1] ELSE Append(f[i - 1], Id(l, i))
  BY Zenon DEF IsRun
<1>2. \A i \in 0..k : g[i] = IF i = 0 THEN <<>> ELSE IF m[i].noop THEN g[i - 1] ELSE Append(g[i - 1], Id(m, i))
  BY Zenon DEF IsRun
<1>3. 0 \in P
  <2>1. 0 \in 0..n /\ 0 \in 0..k /\ 0 \in 0..j
    OBVIOUS
  <2> QED
    BY Zenon, <1>1, <1>2, <2>1
<1>4. ASSUME NEW i \in 1..j, i - 1 \in P PROVE i \in P
  <2>1. i \in 0..n /\ i \in 0..k /\ i \in 0..j /\ i # 0
    OBVIOUS
  <2>2. l[i] = m[i] /\ f[i - 1] = g[i - 1]
    BY Zenon, <1>4 DEF Agree
  <2>3. Id(l, i) = Id(m, i)
    BY Zenon, <2>2 DEF Id
  <2>4. f[i] = g[i]
    BY Zenon, <1>1, <1>2, <2>1, <2>2, <2>3
  <2> QED
    BY Zenon, <2>1, <2>4
<1>5. \A i \in 0..j : i \in P
  <2> HIDE DEF P
  <2> QED
    BY Zenon, <1>3, <1>4, Upwards
<1> QED
  BY Zenon, <1>5

\* Logs that agree up to n have the same state there.
LEMMA StateAgrees ==
  ASSUME Counting, NEW l \in Seq(Entry), NEW m \in Seq(Entry), NEW n \in 0..Len(l), n <= Len(m), Agree(l, m, n)
  PROVE  StateAt(l, n) = StateAt(m, n)
<1>1. n \in Nat /\ n \in 0..Len(m) /\ n <= n /\ n \in 0..n
  OBVIOUS
<1>2. PICK f : IsRun(f, l, n) /\ StateAt(l, n) = f[n]
  BY Zenon, StateAtIs DEF IsRun
<1>3. PICK g : IsRun(g, m, n) /\ StateAt(m, n) = g[n]
  BY Zenon, <1>1, StateAtIs DEF IsRun
<1>4. \A i \in 0..n : f[i] = g[i]
  BY <1>1, <1>2, <1>3, RunsAgree
<1> QED
  BY Zenon, <1>1, <1>2, <1>3, <1>4

\* Every log agrees with itself.
LEMMA AgreesWithItself ==
  ASSUME NEW l, NEW n
  PROVE  Agree(l, l, n)
BY Zenon DEF Agree

\* The recursive equation of StateAt
LEMMA StateAtStep ==
  ASSUME Counting, NEW l \in Seq(Entry)
  PROVE  /\ StateAt(l, 0) = <<>>
         /\ \A n \in 1..Len(l) :
              StateAt(l, n) = IF l[n].noop THEN StateAt(l, n - 1) ELSE Append(StateAt(l, n - 1), Id(l, n))
<1>1. StateAt(l, 0) = <<>>
  <2>1. 0 \in 0..Len(l) /\ 0 \in 0..0
    OBVIOUS
  <2>2. PICK f : IsRun(f, l, 0) /\ StateAt(l, 0) = f[0]
    BY Zenon, <2>1, StateAtIs DEF IsRun
  <2> QED
    BY Zenon, <2>1, <2>2 DEF IsRun
<1>2. ASSUME NEW n \in 1..Len(l)
      PROVE  StateAt(l, n) = IF l[n].noop THEN StateAt(l, n - 1) ELSE Append(StateAt(l, n - 1), Id(l, n))
  <2>1. n \in 0..Len(l) /\ n - 1 \in 0..Len(l) /\ n \in Nat /\ n - 1 \in Nat /\ n - 1 <= n /\ n - 1 <= n - 1
    OBVIOUS
  <2>2. n # 0 /\ n \in 0..n /\ n - 1 \in 0..(n - 1)
    OBVIOUS
  <2>3. PICK f : IsRun(f, l, n) /\ StateAt(l, n) = f[n]
    BY Zenon, <2>1, StateAtIs DEF IsRun
  <2>4. PICK g : IsRun(g, l, n - 1) /\ StateAt(l, n - 1) = g[n - 1]
    BY Zenon, <2>1, StateAtIs DEF IsRun
  <2>5. f[n - 1] = g[n - 1]
    <3>1. Agree(l, l, n - 1)
      BY Zenon, AgreesWithItself
    <3>2. \A i \in 0..(n - 1) : f[i] = g[i]
      BY <2>1, <2>3, <2>4, <3>1, RunsAgree
    <3> QED
      BY Zenon, <2>2, <3>2
  <2>6. f[n] = IF l[n].noop THEN f[n - 1] ELSE Append(f[n - 1], Id(l, n))
    BY Zenon, <2>2, <2>3 DEF IsRun
  <2> QED
    BY Zenon, <2>3, <2>4, <2>5, <2>6
<1> QED
  BY Zenon, <1>1, <1>2

\* The identities in the state of n are those of entries up to n that are no no-ops,
\* and the last of them is as far as the state goes.
LEMMA StateAtFacts ==
  ASSUME Counting, NEW l \in Seq(Entry), NEW n \in 0..Len(l)
  PROVE  /\ StateAt(l, n) \in States
         /\ LastApplied(StateAt(l, n)) \in 0..n
         /\ StateAt(l, LastApplied(StateAt(l, n))) = StateAt(l, n)
<1> DEFINE Q(i) == /\ StateAt(l, i) \in States
                   /\ LastApplied(StateAt(l, i)) \in 0..i
                   /\ StateAt(l, LastApplied(StateAt(l, i))) = StateAt(l, i)
           P == {i \in 0..n : Q(i)}
<1>1. Q(0)
  <2>1. StateAt(l, 0) = <<>> /\ <<>> \in States
    BY StateAtStep DEF States
  <2> QED
    BY <2>1 DEF LastApplied
<1>2. ASSUME NEW i \in 1..n, Q(i - 1) PROVE Q(i)
  <2>1. i \in 1..Len(l) /\ i \in Nat /\ i - 1 \in Nat
    OBVIOUS
  <2> DEFINE s == StateAt(l, i - 1)
             t == StateAt(l, i)
  <2>2. t = IF l[i].noop THEN s ELSE Append(s, Id(l, i))
    BY Zenon, <2>1, StateAtStep
  <2>3. s \in States /\ LastApplied(s) \in 0..(i - 1) /\ StateAt(l, LastApplied(s)) = s
    BY Zenon, <1>2
  <2>4. Id(l, i) \in EntryId /\ Id(l, i).index = i
    <3>1. l[i] \in Entry
      BY <2>1
    <3> QED
      BY <2>1, <3>1 DEF Id, EntryId, Entry
  <2> HIDE DEF s, t
  <2>5. CASE l[i].noop
    <3>1. t = s
      BY Zenon, <2>2, <2>5
    <3>2. LastApplied(s) \in 0..i
      BY <2>1, <2>3
    <3> QED
      BY Zenon, <2>3, <3>1, <3>2 DEF t
  <2>6. CASE ~l[i].noop
    <3>1. t = Append(s, Id(l, i))
      BY Zenon, <2>2, <2>6
    <3>2. t \in States /\ Len(t) = Len(s) + 1 /\ t[Len(s) + 1] = Id(l, i) /\ Len(s) \in Nat
      BY <2>3, <2>4, <3>1 DEF States
    <3>3. t # <<>>
      BY <3>2 DEF States
    <3>4. LastApplied(t) = i
      BY Zenon, <2>4, <3>2, <3>3 DEF LastApplied
    <3>5. i \in 0..i
      BY <2>1
    <3> QED
      BY Zenon, <3>2, <3>4, <3>5 DEF t
  <2> QED
    BY Zenon, <2>5, <2>6
<1>3. 0 \in P /\ n \in Nat /\ n \in 0..n
  BY <1>1
<1>4. ASSUME NEW i \in 1..n, i - 1 \in P PROVE i \in P
  <2>1. i \in 0..n
    OBVIOUS
  <2> HIDE DEF Q
  <2> QED
    BY Zenon, <1>2, <1>4, <2>1
<1>5. n \in P
  <2> HIDE DEF P
  <2> QED
    BY Zenon, <1>3, <1>4, Upwards
<1> QED
  BY Zenon, <1>5

\* A log's later states begin with its earlier ones.
LEMMA StatesGrow ==
  ASSUME Counting, NEW l \in Seq(Entry), NEW i \in Nat, NEW n \in 0..Len(l), i <= n
  PROVE  IsPrefix(StateAt(l, i), StateAt(l, n))
<1> DEFINE s == StateAt(l, i)
           P == {j \in 0..n : j >= i => IsPrefix(s, StateAt(l, j))}
<1>1. s \in States /\ n \in Nat /\ n \in 0..n
  <2>1. i \in 0..Len(l) /\ n \in Nat /\ n \in 0..n
    OBVIOUS
  <2> QED
    BY Zenon, <2>1, StateAtFacts
<1>2. IsPrefix(s, s)
  BY <1>1 DEF IsPrefix, States
<1>3. 0 \in P
  <2>1. 0 >= i => i = 0
    OBVIOUS
  <2>2. 0 \in 0..n
    OBVIOUS
  <2> HIDE DEF s
  <2>3. 0 >= i => IsPrefix(s, StateAt(l, 0))
    BY Zenon, <1>2, <2>1 DEF s
  <2> QED
    BY Zenon, <2>2, <2>3
<1>4. ASSUME NEW j \in 1..n, j - 1 \in P PROVE j \in P
  <2>1. /\ j \in 1..Len(l) /\ j \in 0..Len(l) /\ j - 1 \in 0..Len(l)
        /\ j \in 0..n /\ (j >= i => j - 1 >= i \/ j = i)
    OBVIOUS
  <2>2. StateAt(l, j) \in States /\ StateAt(l, j - 1) \in States
    BY Zenon, <2>1, StateAtFacts
  <2>3. StateAt(l, j) = IF l[j].noop THEN StateAt(l, j - 1) ELSE Append(StateAt(l, j - 1), Id(l, j))
    BY Zenon, <2>1, StateAtStep
  <2> DEFINE a == StateAt(l, j - 1)
             b == StateAt(l, j)
  <2> HIDE DEF s, a, b
  <2>4. IsPrefix(a, b)
    BY <2>2, <2>3 DEF IsPrefix, States, a, b
  <2>5. IsPrefix(s, a) => IsPrefix(s, b)
    BY <1>1, <2>2, <2>4, PrefixFacts DEF States, a, b
  <2>6. j = i => IsPrefix(s, b)
    BY Zenon, <1>2 DEF s, b
  <2>7. j >= i => IsPrefix(s, b)
    BY Zenon, <1>4, <2>1, <2>5, <2>6 DEF a
  <2> QED
    BY Zenon, <2>1, <2>7 DEF b
<1>5. n \in P
  <2> HIDE DEF P
  <2> QED
    BY Zenon, <1>1, <1>3, <1>4, Upwards
<1> QED
  BY Zenon, <1>5

\* No-ops change no state.
LEMMA StateOverNoops ==
  ASSUME Counting, NEW l \in Seq(Entry), NEW i \in Nat, NEW n \in 0..Len(l), i <= n, \A j \in (i + 1)..n : l[j].noop
  PROVE  StateAt(l, n) = StateAt(l, i)
<1> DEFINE P == {j \in 0..n : j >= i => StateAt(l, j) = StateAt(l, i)}
<1>1. n \in Nat /\ n \in 0..n /\ 0 \in 0..n /\ (0 >= i => i = 0)
  OBVIOUS
<1>2. 0 \in P
  BY Zenon, <1>1
<1>3. ASSUME NEW j \in 1..n, j - 1 \in P PROVE j \in P
  <2>1. /\ j \in 1..Len(l) /\ j \in 0..n
        /\ j >= i => j = i \/ (j - 1 >= i /\ j \in (i + 1)..n)
    OBVIOUS
  <2>2. l[j].noop => StateAt(l, j) = StateAt(l, j - 1)
    BY Zenon, <2>1, StateAtStep
  <2> QED
    BY Zenon, <1>3, <2>1, <2>2
<1>4. n \in P
  <2> HIDE DEF P
  <2> QED
    BY Zenon, <1>1, <1>2, <1>3, Upwards
<1> QED
  BY Zenon, <1>1, <1>4

-----------------------------------------------------------------------------
(* Steps of Raft, as the other threads see them                            *)

\* What is committed stays, and more may be committed.
CommitGrows ==
  /\ commitIndex <= commitIndex'
  /\ Agree(log, log', commitIndex)

\* The entry at i, and all before it, are what they were in some log.
IsOld(l, i) == \E m \in Logs : i \in DOMAIN m /\ Agree(l, m, i)

\* The states of committed prefixes stay what they are.
LEMMA CommittedStays ==
  ASSUME Counting, RaftTypeOK, RaftTypeOK', CommitGrows
  PROVE  /\ \A n \in 0..commitIndex : StateAt(log', n) = StateAt(log, n)
         /\ \A i \in 1..commitIndex : log'[i] = log[i]
         /\ \A s \in States : Committed(s) => Committed(s)'
<1>1. log \in Seq(Entry) /\ log' \in Seq(Entry) /\ commitIndex \in 0..Len(log) /\ commitIndex' \in 0..Len(log')
  BY Zenon DEF RaftTypeOK
<1>2. commitIndex <= commitIndex' /\ \A i \in 1..commitIndex : log[i] = log'[i]
  BY Zenon DEF CommitGrows, Agree
<1>3. ASSUME NEW n \in 0..commitIndex PROVE StateAt(log', n) = StateAt(log, n)
  <2>1. n \in 0..Len(log) /\ n <= Len(log')
    BY <1>1, <1>2
  <2>2. Agree(log, log', n)
    BY <1>1, <1>2 DEF Agree
  <2> QED
    BY Zenon, <1>1, <2>1, <2>2, StateAgrees
<1>4. ASSUME NEW s \in States, Committed(s) PROVE Committed(s)'
  <2>1. StateAt(log', commitIndex) = StateAt(log, commitIndex)
    <3>1. commitIndex \in 0..commitIndex
      BY <1>1
    <3> QED
      BY Zenon, <1>3, <3>1
  <2>2. IsPrefix(StateAt(log', commitIndex), StateAt(log', commitIndex'))
    <3>1. commitIndex \in Nat
      BY <1>1
    <3> QED
      BY Zenon, <1>1, <1>2, <3>1, StatesGrow
  <2>3. IsPrefix(s, StateAt(log', commitIndex))
    BY Zenon, <1>4, <2>1 DEF Committed
  <2>4. StateAt(log', commitIndex') \in States /\ StateAt(log', commitIndex) \in States
    <3>1. commitIndex \in 0..Len(log')
      BY <1>1, <1>2
    <3> QED
      BY Zenon, <1>1, <3>1, StateAtFacts
  <2>5. IsPrefix(s, StateAt(log', commitIndex'))
    BY Zenon, <2>2, <2>3, <2>4, PrefixFacts DEF States
  <2> QED
    BY Zenon, <2>5 DEF Committed
<1> QED
  BY Zenon, <1>2, <1>3, <1>4

\* The log becomes n entries of some log, and entries of the current term.
Extends(l, n) ==
  /\ l \in Logs /\ n \in 0..Len(l) /\ n <= Len(log') /\ Agree(log', l, n)
  /\ commitIndex <= n /\ Agree(log, log', commitIndex)
  /\ \A i \in (n + 1)..Len(log') :
       log'[i].term = currentTerm /\ (log'[i].noop => i = n + 1 /\ ~HasEntryOfTerm(currentTerm))
  /\ \/ l = log /\ n = Len(log) /\ dropped' = dropped
     \/ ~HasEntryOfTerm(currentTerm) /\ dropped' \in {dropped, dropped \cup {log}}

\* Such a log keeps what Raft promises.
LEMMA ExtendKeepsRaft ==
  ASSUME RaftTypeOK, RaftInv, NEW l, NEW n, Extends(l, n), currentTerm' = currentTerm, currentTerm >= 1,
         role' \in {"Other", "Leader", "Stepping"}, commitIndex' = commitIndex, log' \in Seq(Entry)
  PROVE  /\ RaftTypeOK' /\ RaftInv' /\ CommitGrows
         /\ \A k \in Logs' : \A i \in DOMAIN k : IsOld(k, i) \/ (k = log' /\ i \in (n + 1)..Len(log'))
<1> DEFINE a == log'
           T == currentTerm
           Fresh == ~HasEntryOfTerm(T)
<1>1. /\ T \in Nat /\ log \in Seq(Entry) /\ dropped \in SUBSET Seq(Entry) /\ commitIndex \in 0..Len(log)
      /\ l \in Logs /\ n \in 0..Len(l) /\ n <= Len(a) /\ commitIndex <= n
      /\ Agree(a, l, n) /\ Agree(log, a, commitIndex)
  BY Zenon DEF RaftTypeOK, Extends
<1>2. \A k \in Logs : k \in Seq(Entry)
  BY Zenon, <1>1 DEF Logs
<1>3. n \in Nat /\ Len(a) \in Nat /\ l \in Seq(Entry) /\ DOMAIN a = 1..Len(a) /\ DOMAIN l = 1..Len(l)
  BY <1>1, <1>2
<1>4. \A i \in (n + 1)..Len(a) : a[i].term = T /\ (a[i].noop => i = n + 1 /\ Fresh)
  BY Zenon DEF Extends
<1>5. /\ \A k \in Logs : \A i \in DOMAIN k : k[i].term \in 1..T
      /\ \A k \in dropped : \A i \in DOMAIN k : k[i].term < T
      /\ \A k \in Logs : \A i, j \in DOMAIN k : i <= j => k[i].term <= k[j].term
      /\ \A k, m \in Logs : \A i \in DOMAIN k : \A j \in DOMAIN m :
           k[i].noop /\ m[j].noop /\ k[i].term = m[j].term => i = j
      /\ \A k, m \in Logs : \A i \in DOMAIN k : HasTerm(m, i, k[i].term) => Agree(k, m, i)
  BY Zenon DEF RaftInv
<1>6. \/ l = log /\ n = Len(log) /\ dropped' = dropped
      \/ Fresh /\ dropped' \in {dropped, dropped \cup {log}}
  BY Zenon DEF Extends
<1>7. dropped' \subseteq Logs /\ dropped \subseteq dropped'
  BY Zenon, <1>6 DEF Logs
<1>8. \A k \in dropped' : \A i \in DOMAIN k : k[i].term < T
  <2>1. Fresh => \A i \in DOMAIN log : log[i].term < T
    <3>1. \A i \in DOMAIN log : log[i].term \in 1..T
      BY Zenon, <1>5 DEF Logs
    <3> QED
      BY <1>1, <3>1 DEF HasEntryOfTerm
  <2> QED
    BY Zenon, <1>5, <1>6, <2>1
<1>9. Fresh => \A i \in DOMAIN l : l[i].term < T
  <2>1. Fresh => \A i \in DOMAIN log : log[i].term < T
    <3>1. \A i \in DOMAIN log : log[i].term \in 1..T
      BY Zenon, <1>5 DEF Logs
    <3> QED
      BY <1>1, <3>1 DEF HasEntryOfTerm
  <2> QED
    BY Zenon, <1>1, <1>5, <2>1 DEF Logs
<1>10. \A i \in DOMAIN a : i \in (n + 1)..Len(a) \/ (i \in DOMAIN l /\ i <= n /\ a[i] = l[i] /\ Agree(a, l, i))
  BY <1>1, <1>3 DEF Agree
<1>11. Logs' = dropped' \cup {a}
  BY Zenon DEF Logs
<1> HIDE DEF a, T, Fresh
<1>12. RaftTypeOK'
  <2>1. dropped' \in SUBSET Seq(Entry)
    BY Zenon, <1>2, <1>7
  <2>2. commitIndex \in 0..Len(a)
    BY <1>1, <1>3
  <2> QED
    BY Zenon, <1>1, <2>1, <2>2 DEF RaftTypeOK, a, T
<1>13. CommitGrows
  <2>1. commitIndex <= commitIndex
    BY <1>1
  <2> QED
    BY Zenon, <1>1, <2>1 DEF CommitGrows, a
<1>14. ASSUME NEW k \in Logs', NEW i \in DOMAIN k PROVE IsOld(k, i) \/ (k = a /\ i \in (n + 1)..Len(a))
  <2>1. k \in Logs => IsOld(k, i)
    BY Zenon, AgreesWithItself DEF IsOld
  <2>2. k = a => IsOld(a, i) \/ i \in (n + 1)..Len(a)
    BY Zenon, <1>1, <1>10 DEF IsOld
  <2> QED
    BY Zenon, <1>7, <1>11, <2>1, <2>2
<1>15. \A i \in DOMAIN a : a[i].term \in 1..T
  <2>1. T \in 1..T
    BY <1>1 DEF T
  <2> QED
    BY Zenon, <1>1, <1>4, <1>5, <1>10, <2>1
<1>16. \A i, j \in DOMAIN a : i <= j => a[i].term <= a[j].term
  <2> TAKE i, j \in DOMAIN a
  <2>1. i <= j /\ j \notin (n + 1)..Len(a) => i \notin (n + 1)..Len(a)
    BY <1>3
  <2>2. j \in (n + 1)..Len(a) => a[i].term <= a[j].term
    BY <1>1, <1>4, <1>15
  <2>3. i \notin (n + 1)..Len(a) /\ j \notin (n + 1)..Len(a) /\ i <= j => a[i].term <= a[j].term
    BY Zenon, <1>1, <1>5, <1>10
  <2> QED
    BY Zenon, <2>1, <2>2, <2>3
<1>17. ASSUME NEW i \in DOMAIN a, NEW j \in DOMAIN a, a[i].noop, a[j].noop, a[i].term = a[j].term PROVE i = j
  <2>1. CASE i \in (n + 1)..Len(a)
    <3>1. i = n + 1 /\ Fresh /\ a[j].term = T
      BY Zenon, <1>4, <1>17, <2>1
    <3>2. j \in (n + 1)..Len(a)
      <4> SUFFICES ASSUME j \notin (n + 1)..Len(a) PROVE FALSE
        OBVIOUS
      <4>1. l[j].term < T /\ l[j].term = T
        BY Zenon, <1>9, <1>10, <3>1
      <4> QED
        BY <1>1, <4>1
    <3> QED
      BY Zenon, <1>4, <1>17, <3>1, <3>2
  <2>2. CASE j \in (n + 1)..Len(a)
    <3>1. j = n + 1 /\ Fresh /\ a[i].term = T
      BY Zenon, <1>4, <1>17, <2>2
    <3>2. i \in (n + 1)..Len(a)
      <4> SUFFICES ASSUME i \notin (n + 1)..Len(a) PROVE FALSE
        OBVIOUS
      <4>1. l[i].term < T /\ l[i].term = T
        BY Zenon, <1>9, <1>10, <3>1
      <4> QED
        BY <1>1, <4>1
    <3> QED
      BY Zenon, <1>4, <1>17, <3>1, <3>2
  <2>3. CASE i \notin (n + 1)..Len(a) /\ j \notin (n + 1)..Len(a)
    BY Zenon, <1>1, <1>5, <1>10, <1>17, <2>3
  <2> QED
    BY Zenon, <2>1, <2>2, <2>3
<1>18. ASSUME NEW k \in dropped', NEW i \in DOMAIN a, NEW j \in DOMAIN k, a[i].noop, k[j].noop, a[i].term = k[j].term
       PROVE  i = j
  <2>1. i \notin (n + 1)..Len(a)
    <3>1. k[j].term < T
      BY Zenon, <1>8
    <3>2. a[i].term # T
      BY <1>1, <1>18, <3>1
    <3> QED
      BY Zenon, <1>4, <3>2
  <2> QED
    BY Zenon, <1>1, <1>5, <1>7, <1>10, <1>18, <2>1
<1>19. ASSUME NEW k \in dropped', NEW i \in DOMAIN a, NEW j \in DOMAIN k, i = j, a[i].term = k[i].term
       PROVE  Agree(a, k, i) /\ Agree(k, a, i)
  <2>1. i \notin (n + 1)..Len(a)
    <3>1. k[j].term < T
      BY Zenon, <1>8
    <3>2. a[i].term # T
      BY <1>1, <1>19, <3>1
    <3> QED
      BY Zenon, <1>4, <3>2
  <2>2. i \in DOMAIN l /\ a[i] = l[i] /\ Agree(a, l, i)
    BY Zenon, <1>10, <2>1
  <2>3. Agree(k, l, i)
    BY Zenon, <1>1, <1>5, <1>7, <1>19, <2>2 DEF HasTerm
  <2> QED
    BY Zenon, <2>2, <2>3 DEF Agree
<1>20. RaftInv'
  <2>1. \A k \in Logs' : \A i \in DOMAIN k : k[i].term \in 1..T
    BY Zenon, <1>5, <1>7, <1>11, <1>15
  <2>2. \A k \in Logs' : \A i, j \in DOMAIN k : i <= j => k[i].term <= k[j].term
    BY Zenon, <1>5, <1>7, <1>11, <1>16
  <2>3. \A k, m \in Logs' : \A i \in DOMAIN k : \A j \in DOMAIN m :
           k[i].noop /\ m[j].noop /\ k[i].term = m[j].term => i = j
    <3> TAKE k, m \in Logs'
    <3> TAKE i \in DOMAIN k
    <3> TAKE j \in DOMAIN m
    <3> HAVE k[i].noop /\ m[j].noop /\ k[i].term = m[j].term
    <3>1. CASE k \in dropped' /\ m \in dropped'
      BY Zenon, <1>5, <1>7, <3>1
    <3>2. CASE k = a /\ m = a
      BY Zenon, <1>17, <3>2
    <3>3. CASE k = a /\ m \in dropped'
      BY Zenon, <1>18, <3>3
    <3>4. CASE k \in dropped' /\ m = a
      BY Zenon, <1>18, <3>4
    <3> QED
      BY Zenon, <1>11, <3>1, <3>2, <3>3, <3>4
  <2>4. \A k, m \in Logs' : \A i \in DOMAIN k : HasTerm(m, i, k[i].term) => Agree(k, m, i)
    <3> TAKE k, m \in Logs'
    <3> TAKE i \in DOMAIN k
    <3> HAVE HasTerm(m, i, k[i].term)
    <3>0. i \in DOMAIN m /\ m[i].term = k[i].term
      BY Zenon DEF HasTerm
    <3>1. CASE k \in dropped' /\ m \in dropped'
      BY Zenon, <1>5, <1>7, <3>1
    <3>2. CASE k = a /\ m = a
      BY Zenon, <3>2, AgreesWithItself
    <3>3. CASE k = a /\ m \in dropped'
      BY Zenon, <1>19, <3>0, <3>3
    <3>4. CASE k \in dropped' /\ m = a
      BY Zenon, <1>19, <3>0, <3>4
    <3> QED
      BY Zenon, <1>11, <3>1, <3>2, <3>3, <3>4
  <2>5. role' # "Elected"
    OBVIOUS
  <2>6. currentTerm' = T /\ T >= 1
    BY Zenon DEF T
  <2> QED
    BY Zenon, <1>8, <2>1, <2>2, <2>3, <2>4, <2>5, <2>6 DEF RaftInv, HasTerm, Agree
<1> QED
  BY Zenon, <1>12, <1>13, <1>14, <1>20 DEF a

\* A step of Raft that leaves the other threads alone
QuietStep ==
  /\ UNCHANGED notRaft
  /\ RaftTypeOK' /\ RaftInv' /\ CommitGrows
  /\ currentTerm <= currentTerm'
  /\ currentTerm' = currentTerm /\ role # "Other" => role' # "Other"
  /\ role' # "Other" => currentTerm' = currentTerm /\ (role = "Other" => role' = "Elected")
  /\ role' = "Elected" => role \in {"Other", "Elected"}
  /\ role \in {"Leader", "Stepping"} => UNCHANGED <<log, dropped>>
  /\ \A l \in Logs' : \A i \in DOMAIN l :
       IsOld(l, i) \/ (l[i].term = currentTerm /\ l[i].cmd = NoCmd /\ (role # "Other" => l[i].noop))

\* Entries that stay are old.
LEMMA SameLogsAreOld ==
  ASSUME UNCHANGED <<log, dropped>>
  PROVE  Logs' = Logs /\ \A l \in Logs' : \A i \in DOMAIN l : IsOld(l, i)
BY Zenon, AgreesWithItself DEF Logs, IsOld

\* The types of the entries that Raft adds by itself
LEMMA EntryTypes ==
  ASSUME NEW t \in Nat
  PROVE  Noop(t) \in Entry /\ Foreign(t) \in Entry
BY DEF Noop, Foreign, Entry, NoCmd, States

\* A new term, a new role and a new commit index leave the logs alone.
LEMMA RoleStepsAreQuiet ==
  ASSUME RaftTypeOK, RaftInv, NewTerm \/ StepDown \/ Elect \/ AdvanceCommitIndex
  PROVE  QuietStep
<1>1. UNCHANGED <<log, dropped, notRaft>>
  BY Zenon DEF NewTerm, StepDown, Elect, AdvanceCommitIndex
<1>2. currentTerm \in Nat /\ commitIndex \in 0..Len(log) /\ log \in Seq(Entry) /\ dropped \in SUBSET Seq(Entry)
  BY Zenon DEF RaftTypeOK
<1>3. /\ currentTerm' \in Nat /\ currentTerm <= currentTerm'
      /\ currentTerm' = currentTerm /\ role # "Other" => role' # "Other"
      /\ role' # "Other" => currentTerm' = currentTerm /\ (role = "Other" => role' = "Elected")
      /\ role' = "Elected" => role \in {"Other", "Elected"}
      /\ role' \in {"Other", "Elected", "Leader", "Stepping"}
  BY <1>2 DEF NewTerm, StepDown, Elect, AdvanceCommitIndex, RaftTypeOK
<1>4. commitIndex <= commitIndex' /\ commitIndex' \in 0..Len(log)
  BY <1>2 DEF NewTerm, StepDown, Elect, AdvanceCommitIndex
<1>5. role' = "Elected" => ~HasEntryOfTerm(currentTerm')
  BY <1>2 DEF NewTerm, StepDown, Elect, AdvanceCommitIndex, RaftInv
<1>5a. role' # "Other" => currentTerm' >= 1
  BY <1>2 DEF NewTerm, StepDown, Elect, AdvanceCommitIndex, RaftInv
<1>6. RaftTypeOK'
  BY Zenon, <1>1, <1>2, <1>3, <1>4 DEF RaftTypeOK
<1>7. CommitGrows
  BY Zenon, <1>1, <1>4, AgreesWithItself DEF CommitGrows
<1>8. Logs' = Logs /\ \A l \in Logs' : \A i \in DOMAIN l : IsOld(l, i)
  BY Zenon, <1>1, SameLogsAreOld
<1>9. RaftInv'
  <2>1. \A l \in Logs : \A i \in DOMAIN l : l[i].term \in 1..currentTerm'
    <3> TAKE l \in Logs
    <3> TAKE i \in DOMAIN l
    <3>1. l[i].term \in 1..currentTerm
      BY Zenon DEF RaftInv
    <3> QED
      BY <1>2, <1>3, <3>1
  <2>2. \A l \in dropped : \A i \in DOMAIN l : l[i].term < currentTerm'
    <3> TAKE l \in dropped
    <3> TAKE i \in DOMAIN l
    <3>1. l[i].term < currentTerm /\ l[i].term \in 1..currentTerm
      BY Zenon DEF RaftInv, Logs
    <3> QED
      BY <1>2, <1>3, <3>1
  <2>3. (role = "Elected" => ~HasEntryOfTerm(currentTerm))'
    BY Zenon, <1>1, <1>5 DEF HasEntryOfTerm
  <2> QED
    BY Zenon, <1>1, <1>5a, <1>8, <2>1, <2>2, <2>3 DEF RaftInv, HasTerm, Agree
<1> QED
  BY Zenon, <1>1, <1>3, <1>6, <1>7, <1>8, <1>9 DEF QuietStep

\* A log that is n entries of some log and one entry that no client of this replica sent
LEMMA EnvironmentAppends ==
  ASSUME RaftTypeOK, RaftInv,
         NEW l \in Logs, NEW n \in commitIndex..Len(l), NEW e \in Entry,
         log' = Append(SubSeq(l, 1, n), e), Agree(l, log, commitIndex),
         e.term = currentTerm, currentTerm >= 1, e.cmd = NoCmd,
         e.noop => ~HasEntryOfTerm(currentTerm), role # "Other" => e.noop,
         UNCHANGED <<currentTerm, commitIndex, notRaft>>,
         \/ role = "Other" /\ role' = "Other"
         \/ role = "Elected" /\ role' = "Leader",
         \/ l = log /\ n = Len(log) /\ dropped' = dropped
         \/ ~HasEntryOfTerm(currentTerm) /\ dropped' \in {dropped, dropped \cup {log}}
  PROVE  QuietStep
<1>1. currentTerm \in Nat /\ commitIndex \in 0..Len(log) /\ log \in Seq(Entry) /\ dropped \in SUBSET Seq(Entry)
  BY Zenon DEF RaftTypeOK
<1>2. l \in Seq(Entry)
  BY Zenon, <1>1 DEF Logs
<1>3. n \in Nat /\ commitIndex \in Nat /\ n \in 0..Len(l) /\ commitIndex <= n
  BY <1>1, <1>2
<1> DEFINE b == SubSeq(l, 1, n)
<1>4. b \in Seq(Entry) /\ Len(b) = n /\ \A i \in 1..n : b[i] = l[i]
  BY <1>2, <1>3
<1> HIDE DEF b
<1>5. log' \in Seq(Entry) /\ Len(log') = n + 1 /\ log'[n + 1] = e /\ \A i \in 1..n : log'[i] = l[i]
  BY <1>3, <1>4 DEF b
<1>6. Agree(log', l, n) /\ Agree(log, log', commitIndex)
  <2>1. \A i \in 1..commitIndex : i \in 1..n
    BY <1>3
  <2> QED
    BY Zenon, <1>5, <2>1 DEF Agree
<1>7. \A i \in (n + 1)..Len(log') : i = n + 1 /\ log'[i] = e
  BY <1>3, <1>5
<1>8. Extends(l, n)
  <2>1. n <= Len(log')
    BY <1>3, <1>5
  <2> QED
    BY Zenon, <1>3, <1>6, <1>7, <2>1 DEF Extends
<1>9. role' \in {"Other", "Leader", "Stepping"}
  BY Zenon
<1>10. /\ RaftTypeOK' /\ RaftInv' /\ CommitGrows
       /\ \A k \in Logs' : \A i \in DOMAIN k : IsOld(k, i) \/ (k = log' /\ i \in (n + 1)..Len(log'))
  BY Zenon, <1>5, <1>8, <1>9, ExtendKeepsRaft
<1>11. \A k \in Logs' : \A i \in DOMAIN k :
         IsOld(k, i) \/ (k[i].term = currentTerm /\ k[i].cmd = NoCmd /\ (role # "Other" => k[i].noop))
  BY Zenon, <1>7, <1>10
<1>12. currentTerm <= currentTerm'
  BY <1>1
<1>13. /\ currentTerm' = currentTerm /\ role # "Other" => role' # "Other"
       /\ role' # "Other" => currentTerm' = currentTerm /\ (role = "Other" => role' = "Elected")
       /\ role' = "Elected" => role \in {"Other", "Elected"}
       /\ role \in {"Leader", "Stepping"} => UNCHANGED <<log, dropped>>
  OBVIOUS
<1> QED
  BY Zenon, <1>10, <1>11, <1>12, <1>13 DEF QuietStep

\* All of a sequence is the sequence.
LEMMA WholeSeq ==
  ASSUME NEW S, NEW s \in Seq(S)
  PROVE  SubSeq(s, 1, Len(s)) = s
<1>1. SubSeq(s, 1, Len(s)) \in Seq(S) /\ Len(SubSeq(s, 1, Len(s))) = Len(s)
  OBVIOUS
<1>2. \A i \in 1..Len(s) : SubSeq(s, 1, Len(s))[i] = s[i]
  OBVIOUS
<1> QED
  BY Zenon, <1>1, <1>2, SameSeq

\* The entries of leaders' terms
LEMMA AppendingStepsAreQuiet ==
  ASSUME RaftTypeOK, RaftInv, AppendNoop \/ FollowNewLeader \/ FollowLeader
  PROVE  QuietStep
<1>1. currentTerm \in Nat /\ commitIndex \in 0..Len(log) /\ log \in Seq(Entry) /\ dropped \in SUBSET Seq(Entry)
  BY Zenon DEF RaftTypeOK
<1>2. Noop(currentTerm) \in Entry /\ Foreign(currentTerm) \in Entry
  BY Zenon, <1>1, EntryTypes
<1>3. /\ Noop(currentTerm).term = currentTerm /\ Noop(currentTerm).cmd = NoCmd /\ Noop(currentTerm).noop
      /\ Foreign(currentTerm).term = currentTerm /\ Foreign(currentTerm).cmd = NoCmd /\ ~Foreign(currentTerm).noop
  BY DEF Noop, Foreign
<1>4. log \in Logs /\ Len(log) \in commitIndex..Len(log) /\ SubSeq(log, 1, Len(log)) = log /\ Agree(log, log, commitIndex)
  <2>1. Len(log) \in commitIndex..Len(log)
    BY <1>1
  <2> QED
    BY Zenon, <1>1, <2>1, WholeSeq, AgreesWithItself DEF Logs
<1>5. CASE AppendNoop
  <2>1. /\ role = "Elected" /\ role' = "Leader" /\ log' = Append(SubSeq(log, 1, Len(log)), Noop(currentTerm))
        /\ UNCHANGED <<currentTerm, commitIndex, dropped, notRaft>>
        /\ ~HasEntryOfTerm(currentTerm) /\ currentTerm >= 1
    BY Zenon, <1>4, <1>5 DEF AppendNoop, RaftInv
  <2> QED
    BY Zenon, <1>2, <1>3, <1>4, <2>1, EnvironmentAppends
<1>6. CASE FollowNewLeader
  <2>1. /\ role = "Other" /\ role' = "Other" /\ currentTerm > 0 /\ ~HasEntryOfTerm(currentTerm)
        /\ dropped' \in {dropped, dropped \cup {log}}
        /\ UNCHANGED <<currentTerm, commitIndex, notRaft>>
    BY Zenon, <1>6 DEF FollowNewLeader
  <2>2a. PICK l \in Logs : \E n \in commitIndex..Len(l) :
           /\ SubSeq(l, 1, commitIndex) = SubSeq(log, 1, commitIndex)
           /\ log' = Append(SubSeq(l, 1, n), Noop(currentTerm))
    BY Zenon, <1>6 DEF FollowNewLeader, Logs
  <2>2. PICK n \in commitIndex..Len(l) :
          /\ SubSeq(l, 1, commitIndex) = SubSeq(log, 1, commitIndex)
          /\ log' = Append(SubSeq(l, 1, n), Noop(currentTerm))
    BY Zenon, <2>2a
  <2>3. Agree(l, log, commitIndex)
    <3>1. l \in Seq(Entry)
      BY Zenon, <1>1 DEF Logs
    <3>2. \A i \in 1..commitIndex : SubSeq(l, 1, commitIndex)[i] = l[i] /\ SubSeq(log, 1, commitIndex)[i] = log[i]
      BY <1>1, <3>1
    <3> QED
      BY Zenon, <2>2, <3>2 DEF Agree
  <2>4. currentTerm >= 1
    BY <1>1, <2>1
  <2> QED
    BY Zenon, <1>2, <1>3, <2>1, <2>2, <2>3, <2>4, EnvironmentAppends
<1>7. CASE FollowLeader
  <2>1. /\ role = "Other" /\ role' = "Other" /\ log' = Append(SubSeq(log, 1, Len(log)), Foreign(currentTerm))
        /\ UNCHANGED <<currentTerm, commitIndex, dropped, notRaft>> /\ HasEntryOfTerm(currentTerm)
    BY Zenon, <1>4, <1>7 DEF FollowLeader
  <2>2. currentTerm >= 1
    <3>1. PICK i \in DOMAIN log : log[i].term = currentTerm
      BY Zenon, <2>1 DEF HasEntryOfTerm
    <3>2. log[i].term \in 1..currentTerm
      BY Zenon DEF RaftInv, Logs
    <3> QED
      BY <1>1, <3>1, <3>2
  <2> QED
    BY Zenon, <1>2, <1>3, <1>4, <2>1, <2>2, EnvironmentAppends
<1> QED
  BY Zenon, <1>5, <1>6, <1>7

-----------------------------------------------------------------------------
(* What the invariants keep while what is committed stays                  *)

\* An old entry is in a log that has the same states up to it.
LEMMA OldEntry ==
  ASSUME Counting, RaftTypeOK, NEW l \in Seq(Entry), NEW i \in DOMAIN l, IsOld(l, i)
  PROVE  \E m \in Logs : /\ i \in DOMAIN m /\ m[i] = l[i]
                         /\ StateAt(m, i) = StateAt(l, i) /\ StateAt(m, i - 1) = StateAt(l, i - 1)
<1>1. PICK m \in Logs : i \in DOMAIN m /\ Agree(l, m, i)
  BY Zenon DEF IsOld
<1>2. m \in Seq(Entry)
  BY Zenon DEF RaftTypeOK, Logs
<1>3. i \in 0..Len(l) /\ i <= Len(m) /\ i - 1 \in 0..Len(l) /\ i - 1 <= Len(m) /\ i \in 1..i /\ \A j \in 1..(i - 1) : j \in 1..i
  BY <1>1, <1>2
<1>4. Agree(l, m, i - 1) /\ m[i] = l[i]
  BY Zenon, <1>1, <1>3 DEF Agree
<1> QED
  BY Zenon, <1>1, <1>2, <1>3, <1>4, StateAgrees

\* A state that may be shown for an entry may be shown for it in any log that has it.
LEMMA SpeaksOfOld ==
  ASSUME Counting, RaftTypeOK, RaftTypeOK', CommitGrows, NEW state \in States, NEW i, NEW t, Speaks(state, i, t),
         NEW l \in Logs', HasTerm(l, i, t), IsOld(l, i)
  PROVE  state = StateAt(l, i) \/ IsPrefix(state, StateAt(log', commitIndex'))
<1>1. l \in Seq(Entry) /\ i \in DOMAIN l /\ IsOld(l, i)
  BY Zenon DEF RaftTypeOK, Logs, HasTerm
<1>2. PICK m \in Logs : i \in DOMAIN m /\ m[i] = l[i] /\ StateAt(m, i) = StateAt(l, i)
  BY Zenon, <1>1, OldEntry
<1>3. HasTerm(m, i, t)
  BY Zenon, <1>2 DEF HasTerm
<1>4. state = StateAt(m, i) \/ Committed(state)
  BY Zenon, <1>3 DEF Speaks
<1>5. Committed(state) => IsPrefix(state, StateAt(log', commitIndex'))
  BY Zenon, CommittedStays DEF Committed
<1> QED
  BY Zenon, <1>2, <1>4, <1>5

\* The same for all logs
LEMMA SpeaksStays ==
  ASSUME Counting, RaftTypeOK, RaftTypeOK', CommitGrows, NEW state \in States, NEW i, NEW t, Speaks(state, i, t),
         \A l \in Logs' : HasTerm(l, i, t) => IsOld(l, i)
  PROVE  \A l \in Logs' : HasTerm(l, i, t) => state = StateAt(l, i) \/ IsPrefix(state, StateAt(log', commitIndex'))
  BY Zenon, SpeaksOfOld

\* The event apply loop and its reader look at committed entries only.
LEMMA EalStays ==
  ASSUME Counting, RaftTypeOK, RaftTypeOK', CommitGrows, EalTypeOK, EalInv,
         UNCHANGED <<ealPc, ealState, mShouldRecover, readerVars>>
  PROVE  EalInv'
<1>1. /\ ealPc' = ealPc /\ ealState' = ealState /\ mShouldRecover' = mShouldRecover
      /\ mLoadedIndex' = mLoadedIndex /\ mAppliedIndex' = mAppliedIndex /\ mApplyingIndex' = mApplyingIndex
      /\ mTaskQueue' = mTaskQueue /\ mCachedBundles' = mCachedBundles
  BY Zenon DEF readerVars
<1>2. AppliedUpTo' = AppliedUpTo /\ HeldUpTo' = HeldUpTo
  BY Zenon, <1>1 DEF AppliedUpTo, HeldUpTo
<1>3. \A i \in 1..commitIndex : log'[i] = log[i]
  BY Zenon, CommittedStays
<1>4. \A n \in 0..commitIndex : StateAt(log', n) = StateAt(log, n)
  BY Zenon, CommittedStays
<1>5. /\ commitIndex \in Nat /\ commitIndex' \in Nat /\ commitIndex <= commitIndex' /\ mLoadedIndex <= commitIndex
      /\ mLoadedIndex \in Nat /\ mApplyingIndex \in Nat /\ mAppliedIndex \in Nat
      /\ AppliedUpTo <= HeldUpTo /\ HeldUpTo <= mLoadedIndex
      /\ ealPc = "apply" => mApplyingIndex > mAppliedIndex
  BY DEF RaftTypeOK, CommitGrows, EalInv, EalTypeOK
<1>6. AppliedUpTo \in Nat /\ HeldUpTo \in Int
  <2>1. AppliedUpTo \in Nat
    BY <1>5 DEF AppliedUpTo
  <2>2. HeldUpTo \in Int
    <3>1. mTaskQueue # <<>> => Head(mTaskQueue) \in Loaded
      BY DEF EalTypeOK
    <3>2. mTaskQueue # <<>> => Head(mTaskQueue).from \in Nat
      BY <3>1 DEF Loaded
    <3> QED
      BY <1>5, <3>2 DEF HeldUpTo
  <2> QED
    BY Zenon, <2>1, <2>2
<1>7. mApplyingIndex > mAppliedIndex => AppliedUpTo = mApplyingIndex /\ mApplyingIndex \in 1..commitIndex
  BY <1>5, <1>6 DEF AppliedUpTo
<1>8. /\ AppliedUpTo \in 0..commitIndex
      /\ ealPc = "apply" => AppliedUpTo - 1 \in 0..commitIndex
  BY <1>5, <1>6, <1>7
<1>9. \A i \in (AppliedUpTo + 1)..HeldUpTo : i \in 1..commitIndex
  BY <1>5, <1>6
<1>10. mLoadedIndex <= commitIndex'
  BY <1>5
<1>11. ~mShouldRecover => ealState = StateAt(log', IF ealPc = "apply" THEN AppliedUpTo - 1 ELSE AppliedUpTo)
  BY Zenon, <1>4, <1>8 DEF EalInv
<1>12. mApplyingIndex > mAppliedIndex => ~log'[mApplyingIndex].noop
  BY Zenon, <1>3, <1>7 DEF EalInv
<1>13. \A k \in DOMAIN mCachedBundles :
         mCachedBundles[k] \in (AppliedUpTo + 1)..HeldUpTo /\ ~log'[mCachedBundles[k]].noop
  BY Zenon, <1>3, <1>9 DEF EalInv
<1>14. \A i \in (AppliedUpTo + 1)..HeldUpTo : ~log'[i].noop => \E k \in DOMAIN mCachedBundles : mCachedBundles[k] = i
  BY Zenon, <1>3, <1>9 DEF EalInv
<1>15. (~mShouldRecover => ealState = StateAt(log, IF ealPc = "apply" THEN AppliedUpTo - 1 ELSE AppliedUpTo))'
  BY <1>1, <1>2, <1>11
<1>16. (\A k \in DOMAIN mCachedBundles :
         mCachedBundles[k] \in (AppliedUpTo + 1)..HeldUpTo /\ ~log[mCachedBundles[k]].noop)'
  BY Zenon, <1>1, <1>2, <1>13
<1>17. (\A i \in (AppliedUpTo + 1)..HeldUpTo : ~log[i].noop => \E k \in DOMAIN mCachedBundles : mCachedBundles[k] = i)'
  BY Zenon, <1>1, <1>2, <1>14
<1>18. (\A k \in DOMAIN mTaskQueue :
          /\ mTaskQueue[k].from <= mTaskQueue[k].to /\ mTaskQueue[k].from >= 1
          /\ mTaskQueue[k].to =
               IF k = Len(mTaskQueue) THEN mLoadedIndex ELSE mTaskQueue[k + 1].from - 1)'
  BY Zenon, <1>1 DEF EalInv
<1>19. (/\ mLoadedIndex <= commitIndex
        /\ mShouldRecover => /\ ealPc = "idle" /\ mLoadedIndex = 0 /\ mAppliedIndex = 0 /\ mApplyingIndex = 0
                             /\ mTaskQueue = <<>> /\ mCachedBundles = <<>>
        /\ ealPc = "apply" => mApplyingIndex > mAppliedIndex
        /\ mApplyingIndex > mAppliedIndex => ~log[mApplyingIndex].noop
        /\ AppliedUpTo <= HeldUpTo /\ HeldUpTo <= mLoadedIndex
        /\ \A k, j \in DOMAIN mCachedBundles : k < j => mCachedBundles[k] < mCachedBundles[j])'
  BY <1>1, <1>2, <1>10, <1>12 DEF EalInv
<1> QED
  BY Zenon, <1>15, <1>16, <1>17, <1>18, <1>19 DEF EalInv

\* The index of the last entry of a state is a number.
LEMMA LastAppliedType ==
  ASSUME NEW s \in States
  PROVE  LastApplied(s) \in Nat
<1>1. s # <<>> => s[Len(s)] \in EntryId
  BY DEF States
<1>2. s # <<>> => s[Len(s)].index \in Nat
  BY <1>1 DEF EntryId
<1> QED
  BY <1>2 DEF LastApplied

\* RocksDB holds committed state.
LEMMA DbStays ==
  ASSUME Counting, RaftTypeOK, RaftTypeOK', CommitGrows, EalTypeOK, DbInv, UNCHANGED dbState
  PROVE  DbInv'
<1>1. LastApplied(dbState) \in Nat
  BY Zenon, LastAppliedType DEF EalTypeOK
<1>2. LastApplied(dbState) \in 0..commitIndex /\ LastApplied(dbState) <= commitIndex'
  BY <1>1 DEF DbInv, RaftTypeOK, CommitGrows
<1>3. StateAt(log', LastApplied(dbState)) = StateAt(log, LastApplied(dbState))
  BY Zenon, <1>2, CommittedStays
<1> QED
  BY Zenon, <1>2, <1>3 DEF DbInv

\* Answers stay right.
LEMMA AnswersStay ==
  ASSUME Counting, RaftTypeOK, RaftTypeOK', CommitGrows, ReplyTypeOK, AnswersAreCommitted, UNCHANGED answer
  PROVE  AnswersAreCommitted'
<1> SUFFICES ASSUME NEW c \in Cmds
             PROVE  /\ answer[c].code = "200" => \E i \in 1..commitIndex' : log'[i].cmd = c
                    /\ answer[c].code \in {"200", "refused"} => IsPrefix(answer[c].base, StateAt(log', commitIndex'))
  BY Zenon DEF AnswersAreCommitted
<1>1. \A i \in 1..commitIndex : i \in 1..commitIndex' /\ log'[i] = log[i]
  <2>1. \A i \in 1..commitIndex : i \in 1..commitIndex'
    BY DEF RaftTypeOK, CommitGrows
  <2> QED
    BY Zenon, <2>1, CommittedStays
<1>2. answer[c].base \in States
  BY DEF ReplyTypeOK
<1>3. answer[c].code \in {"200", "refused"} => IsPrefix(answer[c].base, StateAt(log, commitIndex))
  BY Zenon DEF AnswersAreCommitted
<1>4. IsPrefix(answer[c].base, StateAt(log, commitIndex)) => IsPrefix(answer[c].base, StateAt(log', commitIndex'))
  BY Zenon, <1>2, CommittedStays DEF Committed
<1> QED
  BY Zenon, <1>1, <1>3, <1>4 DEF AnswersAreCommitted

\* What the CPL has read while it waits stays a lower bound.
LEMMA WaitStays ==
  ASSUME Counting, RaftTypeOK, RaftTypeOK', CommitGrows, CplTypeOK, WaitInv, mLoadedIndex' >= mLoadedIndex,
         mLoadedIndex \in Nat, mLoadedIndex' \in Nat,
         UNCHANGED <<pc, read, mLastCommandId, mLastCheckedTerm, mShouldRecover>>,
         pc = "swap" /\ IsPrefix(StateAt(log, mLastCommandId), ealState) =>
           IsPrefix(StateAt(log, mLastCommandId), ealState')
  PROVE  WaitInv'
<1>1. commitIndex \in Nat /\ commitIndex' \in Nat /\ commitIndex <= commitIndex'
  BY DEF RaftTypeOK, CommitGrows
<1>2a. \A k \in 1..Len(read) : read[k] \in Nat
  BY DEF CplTypeOK
<1>2. Len(read) = 2 => read[2] \in Nat
  BY <1>2a
<1>3. Len(read) = 3 => read[3] \in Nat /\ read[2] \in Nat
  BY <1>2a
<1>4. pc = "waitLoaded" => Len(read) = 2 /\ read[2] <= commitIndex'
  BY <1>1, <1>2 DEF WaitInv
<1>5. pc = "waitApplied" => Len(read) = 3 /\ read[2] <= commitIndex' /\ read[3] <= mLoadedIndex'
  BY <1>1, <1>3 DEF WaitInv
<1>6. ASSUME pc = "swap"
      PROVE  /\ ~mShouldRecover /\ mLastCommandId \in 1..commitIndex'
             /\ log'[mLastCommandId].term = mLastCheckedTerm
             /\ IsPrefix(StateAt(log', mLastCommandId), ealState')
  <2>1. /\ ~mShouldRecover /\ mLastCommandId \in 1..commitIndex
        /\ log[mLastCommandId].term = mLastCheckedTerm /\ IsPrefix(StateAt(log, mLastCommandId), ealState')
    BY Zenon, <1>6 DEF WaitInv
  <2>2. mLastCommandId \in 1..commitIndex' /\ mLastCommandId \in 0..commitIndex
    BY <1>1, <2>1
  <2>3. StateAt(log', mLastCommandId) = StateAt(log, mLastCommandId) /\ log'[mLastCommandId] = log[mLastCommandId]
    BY Zenon, <2>1, <2>2, CommittedStays
  <2> QED
    BY Zenon, <2>1, <2>2, <2>3
<1> QED
  BY Zenon, <1>4, <1>5, <1>6 DEF WaitInv

-----------------------------------------------------------------------------
(* A quiet step of Raft keeps the invariant                                *)

\* What the CPL, the requests and the tasks are about is old after a quiet step.
LEMMA QuietIsOld ==
  ASSUME PipelineInv, QuietStep
  PROVE  /\ InCharge => UNCHANGED <<log, dropped>> /\ role' # "Elected"
         /\ \A l \in Logs' : \A i \in DOMAIN l :
              l[i].term = mLastCheckedTerm /\ mLastCheckedRole /\ OutOfWait => IsOld(l, i)
         /\ \A x \in Tasks : \A l \in Logs' : \A i \in DOMAIN l : l[i].term = x.term => IsOld(l, i)
<1>1. ASSUME InCharge PROVE UNCHANGED <<log, dropped>> /\ role' # "Elected"
  <2>1. role # "Other" /\ role # "Elected"
    BY Zenon, <1>1 DEF PipelineInv, LeadsInv, ChargeInv, InCharge
  <2>2. role \in {"Leader", "Stepping"}
    BY Zenon, <2>1 DEF PipelineInv, RaftTypeOK
  <2> QED
    BY Zenon, <2>1, <2>2 DEF QuietStep
<1>2. ASSUME NEW l \in Logs', NEW i \in DOMAIN l, l[i].term = mLastCheckedTerm, mLastCheckedRole, OutOfWait
      PROVE  IsOld(l, i)
  <2>1. IsOld(l, i) \/ mLastCheckedTerm = currentTerm
    BY Zenon, <1>2 DEF QuietStep
  <2>2. ASSUME mLastCheckedTerm = currentTerm PROVE IsOld(l, i)
    <3>1. InCharge
      BY Zenon, <1>2, <2>2 DEF InCharge, Leads
    <3>2. UNCHANGED <<log, dropped>>
      BY Zenon, <1>1, <3>1
    <3> QED
      BY Zenon, <3>2, SameLogsAreOld
  <2> QED
    BY Zenon, <2>1, <2>2
<1>3. ASSUME NEW x \in Tasks, NEW l \in Logs', NEW i \in DOMAIN l, l[i].term = x.term PROVE IsOld(l, i)
  <2>1. x.term <= mLastCheckedTerm /\ (x.term = mLastCheckedTerm => mLastCheckedRole /\ OutOfWait)
    BY Zenon DEF PipelineInv, TaskInv
  <2>2. CASE x.term = mLastCheckedTerm
    BY Zenon, <1>2, <1>3, <2>1, <2>2
  <2>3. CASE x.term # mLastCheckedTerm
    <3>1. l[i].term # currentTerm
      <4>1. mLastCheckedTerm \in 0..currentTerm /\ currentTerm \in Nat
        BY Zenon DEF PipelineInv, CplTypeOK, RaftTypeOK
      <4>2. l[i].term \in 1..currentTerm'
        BY Zenon DEF QuietStep, RaftInv
      <4>3. currentTerm' \in Nat
        BY Zenon DEF QuietStep, RaftTypeOK
      <4> QED
        BY <1>3, <2>1, <2>3, <4>1, <4>2, <4>3
    <3> QED
      BY Zenon, <3>1 DEF QuietStep
  <2> QED
    BY Zenon, <2>2, <2>3
<1> QED
  BY Zenon, <1>1, <1>2, <1>3

\* The parts that a quiet step leaves alone
LEMMA QuietFrame ==
  ASSUME PipelineInv, QuietStep
  PROVE  /\ Requests' = Requests /\ Tasks' = Tasks /\ OutOfWait' = OutOfWait
         /\ InCharge' => InCharge
         /\ mLastCheckedTerm = currentTerm' => currentTerm' = currentTerm
         /\ QueueTypeOK' /\ CplTypeOK' /\ EalTypeOK' /\ ReplyTypeOK'
<1>1. UNCHANGED <<cplVars, ealVars, queueVars, replyVars, assertion>>
  BY Zenon DEF QuietStep, notRaft
<1>2. Requests' = Requests
  <2>1. mPersistQueue' = mPersistQueue /\ clientRequests' = clientRequests
    BY Zenon, <1>1 DEF queueVars
  <2> QED
    BY <2>1 DEF Requests
<1>3. Holders' = Holders
  BY Zenon, <1>1 DEF Holders, replyVars
<1>4. Tasks' = Tasks
  BY Zenon, <1>1, <1>3 DEF Tasks, replyVars
<1>5. OutOfWait' = OutOfWait
  BY Zenon, <1>1 DEF OutOfWait, cplVars
<1>6. /\ mLastCheckedTerm \in 0..currentTerm /\ currentTerm \in Nat /\ currentTerm <= currentTerm'
      /\ currentTerm' \in Nat /\ mLastCheckedTerm' = mLastCheckedTerm /\ mLastCheckedRole' = mLastCheckedRole
  BY Zenon, <1>1 DEF PipelineInv, CplTypeOK, RaftTypeOK, QuietStep, cplVars
<1>7. mLastCheckedTerm \in 0..currentTerm' /\ (mLastCheckedTerm = currentTerm' => currentTerm' = currentTerm)
  BY <1>6
<1>8. InCharge' => InCharge
  BY Zenon, <1>5, <1>6, <1>7 DEF InCharge, Leads
<1>9. QueueTypeOK' /\ EalTypeOK'
  BY Zenon, <1>1 DEF PipelineInv, QueueTypeOK, EalTypeOK, queueVars, ealVars, readerVars
<1>10. CplTypeOK'
  BY Zenon, <1>1, <1>7 DEF PipelineInv, CplTypeOK, cplVars
<1>11. ReplyTypeOK'
  BY Zenon, <1>1, <1>3 DEF PipelineInv, ReplyTypeOK, replyVars
<1> QED
  BY Zenon, <1>2, <1>4, <1>5, <1>7, <1>8, <1>9, <1>10, <1>11

\* DecidedInv holds of old entries, and of those that no client of this replica sent.
LEMMA QuietKeepsDecided ==
  ASSUME Counting, PipelineInv, QuietStep
  PROVE  DecidedInv'
<1> SUFFICES ASSUME NEW l \in Logs', NEW i \in DOMAIN l, l[i].cmd # NoCmd PROVE l[i].base = StateAt(l, i - 1)
  BY Zenon DEF DecidedInv
<1>1. IsOld(l, i)
  BY Zenon DEF QuietStep
<1>2. l \in Seq(Entry)
  BY Zenon DEF QuietStep, RaftTypeOK, Logs
<1>3. PICK m \in Logs : i \in DOMAIN m /\ m[i] = l[i] /\ StateAt(m, i - 1) = StateAt(l, i - 1)
  BY Zenon, <1>1, <1>2, OldEntry DEF PipelineInv
<1> QED
  BY Zenon, <1>3 DEF PipelineInv, DecidedInv

\* The CPL's view of the leadership through a quiet step
LEMMA QuietKeepsLeads ==
  ASSUME Counting, PipelineInv, QuietStep
  PROVE  LeadsInv' /\ ChargeInv' /\ DecisionInv'
<1>0. UNCHANGED cplVars /\ RaftTypeOK /\ RaftTypeOK' /\ RaftInv' /\ CommitGrows
  BY Zenon DEF PipelineInv, QuietStep, notRaft
<1>1. /\ pc' = pc /\ mLastCheckedTerm' = mLastCheckedTerm /\ mLastCheckedRole' = mLastCheckedRole
      /\ mLastCommandId' = mLastCommandId /\ cplState' = cplState
  BY Zenon, <1>0 DEF cplVars
<1>2. /\ Requests' = Requests /\ Tasks' = Tasks /\ OutOfWait' = OutOfWait
      /\ InCharge' => InCharge
      /\ mLastCheckedTerm = currentTerm' => currentTerm' = currentTerm
  BY Zenon, QuietFrame
<1>3. \A l \in Logs' : l \in Seq(Entry)
  BY Zenon, <1>0 DEF RaftTypeOK, Logs
<1>4. pc \notin {"dequeue", "detect"} => mLastCheckedRole
  BY Zenon DEF PipelineInv, LeadsInv
<1>5. Leads' => role' # "Other"
  <2> SUFFICES ASSUME Leads' PROVE role' # "Other"
    OBVIOUS
  <2>1. Leads /\ currentTerm' = currentTerm
    BY Zenon, <1>1, <1>2 DEF Leads
  <2>2. role # "Other"
    BY Zenon, <2>1 DEF PipelineInv, LeadsInv
  <2> QED
    BY Zenon, <2>1, <2>2 DEF QuietStep
<1>6. ASSUME role' # "Other", ~InCharge' PROVE OnlyNoops(currentTerm)'
  <2>1. currentTerm' = currentTerm /\ (role = "Other" => role' = "Elected")
    BY Zenon, <1>6 DEF QuietStep
  <2>2. ~InCharge
    BY Zenon, <1>1, <1>2, <1>6, <2>1 DEF InCharge, Leads
  <2>3. CASE role = "Other"
    <3>1. \A l \in Logs' : \A i \in DOMAIN l : l[i].term # currentTerm'
      <4>1. \A i \in DOMAIN log' : log'[i].term # currentTerm'
        BY Zenon, <1>0, <2>1, <2>3 DEF RaftInv, HasEntryOfTerm
      <4>2. \A l \in dropped' : \A i \in DOMAIN l : l[i].term < currentTerm' /\ l[i].term \in 1..currentTerm'
        BY Zenon, <1>0 DEF RaftInv, Logs
      <4>3. \A l \in dropped' : \A i \in DOMAIN l : l[i].term # currentTerm'
        BY <1>0, <4>2 DEF RaftTypeOK
      <4> QED
        BY Zenon, <4>1, <4>3 DEF Logs
    <3> QED
      BY Zenon, <3>1 DEF OnlyNoops
  <2>4. CASE role # "Other"
    <3>1. OnlyNoops(currentTerm)
      BY Zenon, <2>2, <2>4 DEF PipelineInv, LeadsInv
    <3>2. ASSUME NEW l \in Logs', NEW i \in DOMAIN l, l[i].term = currentTerm PROVE l[i].noop
      <4>1. IsOld(l, i) => l[i].noop
        BY Zenon, <1>0, <1>3, <3>1, <3>2, OldEntry DEF OnlyNoops
      <4> QED
        BY Zenon, <2>4, <4>1 DEF QuietStep
    <3> QED
      BY Zenon, <2>1, <3>2 DEF OnlyNoops
  <2> QED
    BY Zenon, <2>3, <2>4
<1>7. ASSUME ~OutOfWait' PROVE OnlyNoops(mLastCheckedTerm)'
  <2>1. OnlyNoops(mLastCheckedTerm) /\ mLastCheckedRole
    <3>1. pc \notin {"dequeue", "detect"}
      BY Zenon, <1>2, <1>7 DEF OutOfWait
    <3> QED
      BY Zenon, <1>2, <1>4, <1>7, <3>1 DEF PipelineInv, LeadsInv
  <2>2. ASSUME NEW l \in Logs', NEW i \in DOMAIN l, l[i].term = mLastCheckedTerm PROVE l[i].noop
    <3>1. IsOld(l, i) => l[i].noop
      BY Zenon, <1>0, <1>3, <2>1, <2>2, OldEntry DEF OnlyNoops
    <3>2. l[i].term = currentTerm => role # "Other"
      BY Zenon, <2>1, <2>2 DEF PipelineInv, LeadsInv, Leads
    <3> QED
      BY Zenon, <3>1, <3>2 DEF QuietStep
  <2> QED
    BY Zenon, <1>1, <2>2 DEF OnlyNoops
<1>8. LeadsInv'
  BY Zenon, <1>1, <1>4, <1>5, <1>6, <1>7 DEF LeadsInv
<1>9. ASSUME InCharge'
      PROVE  (/\ role # "Elected" /\ Len(log) <= mLastCommandId
              /\ pc = "persist" => Len(log) < mLastCommandId
              /\ Speculates)'
  <2>1. InCharge /\ log' = log /\ role' # "Elected"
    BY Zenon, <1>2, <1>9, QuietIsOld
  <2>2. /\ Len(log) <= mLastCommandId /\ (pc = "persist" => Len(log) < mLastCommandId) /\ Speculates
    BY Zenon, <2>1 DEF PipelineInv, ChargeInv
  <2>3. Speculates'
    BY Zenon, <1>1, <2>1, <2>2 DEF Speculates, Misses
  <2> QED
    BY Zenon, <1>1, <2>1, <2>2, <2>3
<1>10. ASSUME pc \in {"process", "persist"}, NEW l \in Logs', NEW i \in DOMAIN l, l[i].term = mLastCheckedTerm
       PROVE  IsOld(l, i)
  <2>1. mLastCheckedRole /\ OutOfWait
    BY Zenon, <1>4, <1>10 DEF OutOfWait
  <2> QED
    BY Zenon, <1>10, <2>1, QuietIsOld
<1>11. ChargeInv'
  <2>1. ASSUME pc \in {"process", "persist"}, NEW l \in Logs', NEW i \in DOMAIN l, l[i].term = mLastCheckedTerm
        PROVE  i <= mLastCommandId /\ (pc = "persist" => i < mLastCommandId)
    <3>1. PICK m \in Logs : i \in DOMAIN m /\ m[i] = l[i]
      BY Zenon, <1>0, <1>3, <1>10, <2>1, OldEntry
    <3> QED
      BY Zenon, <2>1, <3>1 DEF PipelineInv, ChargeInv
  <2> QED
    BY Zenon, <1>1, <1>9, <2>1 DEF ChargeInv
<1>12. DecisionInv'
  <2>1. ASSUME pc = "process"
        PROVE  \A l \in Logs' : HasTerm(l, mLastCommandId, mLastCheckedTerm) =>
                 cplState = StateAt(l, mLastCommandId) \/ IsPrefix(cplState, StateAt(log', commitIndex'))
    <3>1. \A l \in Logs' : HasTerm(l, mLastCommandId, mLastCheckedTerm) => IsOld(l, mLastCommandId)
      BY Zenon, <1>10, <2>1 DEF HasTerm
    <3>2. cplState \in States /\ Speaks(cplState, mLastCommandId, mLastCheckedTerm)
      BY Zenon, <2>1 DEF PipelineInv, CplTypeOK, DecisionInv
    <3> QED
      BY Zenon, <1>0, <3>1, <3>2, SpeaksStays
  <2>2. pc = "persist" => cplState # <<>>
    BY Zenon DEF PipelineInv, DecisionInv
  <2> QED
    BY Zenon, <1>1, <2>1, <2>2 DEF DecisionInv, Speaks, Committed, HasTerm
<1> QED
  BY Zenon, <1>8, <1>11, <1>12

\* Requests and tasks have their types wherever they are.
LEMMA TaskTypes ==
  ASSUME ReplyTypeOK
  PROVE  Tasks \subseteq Task
<1>1. \A k \in DOMAIN replyQueue : replyQueue[k] \in Task
  BY DEF ReplyTypeOK
<1>2. \A t \in Holders : replier[t] \in Holding
  BY Zenon DEF ReplyTypeOK, Holders
<1>3. \A t \in Holders : replier[t].task \in Task
  BY <1>2 DEF Holding
<1> QED
  BY Zenon, <1>1, <1>3 DEF Tasks

\* Requests and tasks through a quiet step
LEMMA QuietKeepsTasks ==
  ASSUME Counting, PipelineInv, QuietStep
  PROVE  RequestInv' /\ TaskInv'
<1>0. UNCHANGED cplVars /\ RaftTypeOK /\ RaftTypeOK' /\ CommitGrows
  BY Zenon DEF PipelineInv, QuietStep, notRaft
<1>1. /\ pc' = pc /\ command' = command /\ mLastCheckedTerm' = mLastCheckedTerm /\ mLastCheckedRole' = mLastCheckedRole
      /\ mLastCommandId' = mLastCommandId /\ cplState' = cplState
  BY Zenon, <1>0 DEF cplVars
<1>2. /\ Requests' = Requests /\ Tasks' = Tasks /\ OutOfWait' = OutOfWait
      /\ InCharge' => InCharge
  BY Zenon, QuietFrame
<1>3. RequestInv'
  BY Zenon, <1>1, <1>2 DEF PipelineInv, RequestInv, Misses
<1>4. ASSUME NEW x \in Tasks
      PROVE  /\ x.code = "refused" => \A l \in Logs' : HasTerm(l, x.index, x.term) =>
                  x.base = StateAt(l, x.index) \/ IsPrefix(x.base, StateAt(log', commitIndex'))
             /\ x.code = "200" => \A l \in Logs' : HasTerm(l, x.index, x.term) =>
                  l[x.index].cmd = x.cmd /\ l[x.index].base = x.base
  <2>1. \A l \in Logs' : HasTerm(l, x.index, x.term) => IsOld(l, x.index)
    BY Zenon, QuietIsOld DEF HasTerm
  <2>2. x.base \in States
    <3>1. x \in Task
      BY Zenon, TaskTypes DEF PipelineInv
    <3> QED
      BY <3>1 DEF Task
  <2>3. ASSUME x.code = "refused"
        PROVE  \A l \in Logs' : HasTerm(l, x.index, x.term) =>
                  x.base = StateAt(l, x.index) \/ IsPrefix(x.base, StateAt(log', commitIndex'))
    <3>1. Speaks(x.base, x.index, x.term)
      BY Zenon, <2>3 DEF PipelineInv, TaskInv
    <3> QED
      BY Zenon, <1>0, <2>1, <2>2, <3>1, SpeaksStays
  <2>4. ASSUME x.code = "200", NEW l \in Logs', HasTerm(l, x.index, x.term)
        PROVE  l[x.index].cmd = x.cmd /\ l[x.index].base = x.base
    <3>1. l \in Seq(Entry) /\ x.index \in DOMAIN l /\ l[x.index].term = x.term /\ IsOld(l, x.index)
      BY Zenon, <1>0, <2>1, <2>4 DEF RaftTypeOK, Logs, HasTerm
    <3>2. PICK m \in Logs : x.index \in DOMAIN m /\ m[x.index] = l[x.index]
      BY Zenon, <1>0, <3>1, OldEntry
    <3> QED
      BY Zenon, <2>4, <3>1, <3>2 DEF PipelineInv, TaskInv, HasTerm
  <2> QED
    BY Zenon, <2>3, <2>4
<1>5. TaskInv'
  <2> SUFFICES ASSUME NEW x \in Tasks
               PROVE (/\ x.term <= mLastCheckedTerm
                      /\ x.term = mLastCheckedTerm =>
                           /\ mLastCheckedRole /\ OutOfWait
                           /\ x.index <= mLastCommandId
                           /\ InCharge /\ x.code = "refused" => Misses(x.base, cplState, mLastCommandId - x.index)
                           /\ x.code = "200" /\ pc = "persist" /\ x.index = mLastCommandId =>
                                x.cmd = command /\ x.base = Front(cplState)
                      /\ x.code = "refused" => Speaks(x.base, x.index, x.term)
                      /\ x.code = "200" =>
                           /\ \A l \in Logs : HasTerm(l, x.index, x.term) => l[x.index].cmd = x.cmd /\ l[x.index].base = x.base
                           /\ \A r \in Requests : r.index = x.index /\ r.term = x.term => r.cmd = x.cmd /\ r.base = x.base)'
    BY Zenon, <1>2 DEF TaskInv
  <2> QED
    BY Zenon, <1>1, <1>2, <1>4 DEF PipelineInv, TaskInv, Speaks, Committed, Misses, HasTerm, Front
<1> QED
  BY Zenon, <1>3, <1>5

\* A step of Raft that leaves the other threads alone keeps the invariant.
LEMMA QuietKeeps ==
  ASSUME Counting, PipelineInv, QuietStep
  PROVE  PipelineInv'
<1>1. RaftTypeOK' /\ RaftInv' /\ RaftTypeOK /\ CommitGrows
  BY Zenon DEF PipelineInv, QuietStep
<1>2. UNCHANGED <<cplVars, ealVars, replyVars, assertion>>
  BY Zenon DEF QuietStep, notRaft
<1>3. QueueTypeOK' /\ CplTypeOK' /\ EalTypeOK' /\ ReplyTypeOK'
  BY Zenon, QuietFrame
<1>4. EalInv'
  BY Zenon, <1>1, <1>2, EalStays DEF PipelineInv, ealVars
<1>5. DbInv'
  BY Zenon, <1>1, <1>2, DbStays DEF PipelineInv, ealVars
<1>6. AnswersAreCommitted' /\ AssertionsHold'
  BY Zenon, <1>1, <1>2, AnswersStay DEF PipelineInv, replyVars, AssertionsHold
<1>7. WaitInv'
  <2>1. mLoadedIndex' >= mLoadedIndex /\ mLoadedIndex \in Nat /\ mLoadedIndex' \in Nat
    BY <1>2 DEF PipelineInv, EalTypeOK, ealVars, readerVars
  <2> QED
    BY Zenon, <1>1, <1>2, <2>1, WaitStays DEF PipelineInv, ealVars, cplVars
<1> QED
  BY Zenon, <1>1, <1>3, <1>4, <1>5, <1>6, <1>7, QuietKeepsDecided, QuietKeepsLeads, QuietKeepsTasks DEF PipelineInv

-----------------------------------------------------------------------------
(* handleClientRequests                                                    *)

\* Fewer requests break nothing.
LEMMA FewerRequests ==
  ASSUME Counting, PipelineInv, QueueTypeOK', Requests' \subseteq Requests,
         UNCHANGED <<raftVars, cplVars, ealVars, replyVars, assertion>>
  PROVE  PipelineInv'
<1>1. /\ currentTerm' = currentTerm /\ role' = role /\ log' = log /\ commitIndex' = commitIndex /\ dropped' = dropped
      /\ pc' = pc /\ command' = command /\ arrived' = arrived /\ mLastCheckedTerm' = mLastCheckedTerm
      /\ mLastCheckedRole' = mLastCheckedRole /\ mLastCommandId' = mLastCommandId /\ cplState' = cplState /\ read' = read
  BY Zenon DEF raftVars, cplVars
<1>2. /\ ealPc' = ealPc /\ ealState' = ealState /\ dbState' = dbState /\ mShouldRecover' = mShouldRecover
      /\ mLoadedIndex' = mLoadedIndex /\ mAppliedIndex' = mAppliedIndex /\ mApplyingIndex' = mApplyingIndex
      /\ mTaskQueue' = mTaskQueue /\ mCachedBundles' = mCachedBundles
      /\ replyQueue' = replyQueue /\ replier' = replier /\ answer' = answer /\ assertion' = assertion
  BY Zenon DEF ealVars, readerVars, replyVars
<1>3. RaftTypeOK' /\ CplTypeOK' /\ EalTypeOK' /\ RaftTypeOK
  BY Zenon, <1>1, <1>2 DEF PipelineInv, RaftTypeOK, CplTypeOK, EalTypeOK
<1>4. Holders' = Holders /\ Logs' = Logs
  BY Zenon, <1>1, <1>2 DEF Holders, Logs
<1>5. Tasks' = Tasks /\ OutOfWait' = OutOfWait /\ Leads' = Leads
  BY Zenon, <1>1, <1>2, <1>4 DEF Tasks, OutOfWait, Leads
<1>6. InCharge' = InCharge
  BY Zenon, <1>5 DEF InCharge
<1>7. ReplyTypeOK' /\ RaftInv' /\ DecidedInv'
  BY Zenon, <1>1, <1>2, <1>4 DEF PipelineInv, ReplyTypeOK, RaftInv, DecidedInv, HasEntryOfTerm, HasTerm, Agree
<1>8. CommitGrows
  BY <1>1, <1>3, AgreesWithItself DEF CommitGrows, RaftTypeOK
<1>9. LeadsInv'
  BY Zenon, <1>1, <1>4, <1>5, <1>6 DEF PipelineInv, LeadsInv, OnlyNoops
<1>10. Speculates' = Speculates
  BY <1>1 DEF Speculates, Misses
<1>11. ChargeInv'
  BY ZenonT(30), <1>1, <1>4, <1>6, <1>10 DEF PipelineInv, ChargeInv
<1>12. DecisionInv'
  BY Zenon, <1>1, <1>4 DEF PipelineInv, DecisionInv, Speaks, Committed, HasTerm
<1>13. RequestInv'
  BY Zenon, <1>1, <1>5, <1>6 DEF PipelineInv, RequestInv, Misses
<1>14. TaskInv'
  BY Zenon, <1>1, <1>4, <1>5, <1>6 DEF PipelineInv, TaskInv, Speaks, Committed, Misses, HasTerm, Front
<1>15. EalInv' /\ DbInv'
  BY Zenon, <1>2, <1>3, <1>8, EalStays, DbStays DEF PipelineInv, readerVars
<1>16. WaitInv'
  BY Zenon, <1>1, <1>2 DEF PipelineInv, WaitInv
<1>17. AnswersAreCommitted' /\ AssertionsHold'
  BY Zenon, <1>1, <1>2 DEF PipelineInv, AnswersAreCommitted, AssertionsHold
<1> QED
  BY Zenon, <1>3, <1>7, <1>9, <1>11, <1>12, <1>13, <1>14, <1>15, <1>16, <1>17 DEF PipelineInv

\* The first batch is requests, and without it there are no others.
LEMMA FirstBatch ==
  ASSUME QueueTypeOK, clientRequests # <<>>, clientRequests' = Tail(clientRequests), UNCHANGED mPersistQueue
  PROVE  /\ Head(clientRequests) \in Seq(Request)
         /\ \A k \in DOMAIN Head(clientRequests) : Head(clientRequests)[k] \in Requests
         /\ QueueTypeOK' /\ Requests' \subseteq Requests
<1>1. /\ clientRequests \in Seq(Seq(Request)) /\ mPersistQueue \in Seq(Request)
      /\ Head(clientRequests) = clientRequests[1] /\ 1 \in DOMAIN clientRequests
      /\ Tail(clientRequests) \in Seq(Seq(Request))
      /\ \A b \in DOMAIN Tail(clientRequests) : b + 1 \in DOMAIN clientRequests /\ Tail(clientRequests)[b] = clientRequests[b + 1]
  BY DEF QueueTypeOK
<1>2. Head(clientRequests) \in Seq(Request)
  BY <1>1
<1>3. \A b \in DOMAIN clientRequests : \A k \in DOMAIN clientRequests[b] : clientRequests[b][k] \in Requests
  BY DEF Requests
<1>4. \A k \in DOMAIN Head(clientRequests) : Head(clientRequests)[k] \in Requests
  BY Zenon, <1>1, <1>3
<1>5. QueueTypeOK'
  BY Zenon, <1>1 DEF QueueTypeOK
<1>6. \A b \in DOMAIN clientRequests' : \A k \in DOMAIN clientRequests'[b] : clientRequests'[b][k] \in Requests
  BY Zenon, <1>1, <1>3
<1>7. \A k \in DOMAIN mPersistQueue : mPersistQueue[k] \in Requests
  BY DEF Requests
<1>8. Requests' \subseteq Requests
  <2> SUFFICES ASSUME NEW r \in Requests' PROVE r \in Requests
    OBVIOUS
  <2>1. \/ \E k \in DOMAIN mPersistQueue' : r = mPersistQueue'[k]
        \/ \E b \in DOMAIN clientRequests' : \E k \in DOMAIN clientRequests'[b] : r = clientRequests'[b][k]
    BY DEF Requests
  <2> QED
    BY Zenon, <1>6, <1>7, <2>1
<1> QED
  BY Zenon, <1>2, <1>4, <1>5, <1>8

\* The entry of a request
EntryOf(r) == [term |-> r.term, noop |-> FALSE, cmd |-> r.cmd, base |-> r.base]

\* a is the log with entries of requests of the current term after it.
Accepted(a, requests) ==
  /\ a \in Seq(Entry) /\ Len(log) <= Len(a) /\ Agree(a, log, Len(log))
  /\ \A j \in (Len(log) + 1)..Len(a) :
       \E k \in DOMAIN requests :
         requests[k].index = j /\ requests[k].term = currentTerm /\ a[j] = EntryOf(requests[k])

\* One more request keeps this.
LEMMA AcceptOne ==
  ASSUME RaftTypeOK, NEW requests \in Seq(Request), NEW a, Accepted(a, requests), NEW k \in DOMAIN requests
  PROVE  Accepted(AcceptRequest(a, requests[k]), requests)
<1> DEFINE r == requests[k]
           e == EntryOf(r)
<1>1. r \in Request /\ a \in Seq(Entry) /\ Len(log) <= Len(a) /\ Agree(a, log, Len(log)) /\ Len(log) \in Nat
  BY DEF Accepted, RaftTypeOK
<1>2. e \in Entry
  <2>1. r.term \in Nat /\ r.cmd \in Nat /\ r.base \in States
    BY <1>1, PipelineAssumption DEF Request
  <2> QED
    BY <2>1 DEF EntryOf, Entry
<1>3. CASE r.term = currentTerm /\ r.index = Len(a) + 1
  <2>1. AcceptRequest(a, r) = Append(a, e)
    BY Zenon, <1>3 DEF AcceptRequest, EntryOf
  <2> DEFINE b == Append(a, e)
  <2> HIDE DEF e
  <2>2. /\ b \in Seq(Entry) /\ Len(b) = Len(a) + 1 /\ b[Len(a) + 1] = e /\ \A i \in 1..Len(a) : b[i] = a[i]
        /\ Len(a) \in Nat
    BY <1>1, <1>2
  <2> HIDE DEF b, r
  <2>3. Len(log) <= Len(b) /\ Agree(b, log, Len(log))
    BY <1>1, <2>2 DEF Agree
  <2>4. \A j \in (Len(log) + 1)..Len(b) : j = Len(a) + 1 \/ (j \in (Len(log) + 1)..Len(a) /\ j \in 1..Len(a))
    BY <1>1, <2>2
  <2>5. ASSUME NEW j \in (Len(log) + 1)..Len(b)
        PROVE  \E i \in DOMAIN requests :
                 requests[i].index = j /\ requests[i].term = currentTerm /\ b[j] = EntryOf(requests[i])
    <3>1. CASE j = Len(a) + 1
      <4>1. r.index = j /\ r.term = currentTerm /\ b[j] = e
        BY Zenon, <1>3, <2>2, <3>1
      <4>2. requests[k].index = j /\ requests[k].term = currentTerm /\ b[j] = EntryOf(requests[k])
        BY Zenon, <4>1 DEF r, e
      <4> QED
        BY Zenon, <4>2
    <3>2. CASE j \in (Len(log) + 1)..Len(a) /\ j \in 1..Len(a)
      <4>1. PICK i \in DOMAIN requests :
              requests[i].index = j /\ requests[i].term = currentTerm /\ a[j] = EntryOf(requests[i])
        BY Zenon, <3>2 DEF Accepted
      <4>2. b[j] = a[j]
        BY Zenon, <2>2, <3>2
      <4> QED
        BY Zenon, <4>1, <4>2
    <3> QED
      BY Zenon, <2>4, <3>1, <3>2
  <2>6. Accepted(b, requests)
    BY Zenon, <2>2, <2>3, <2>5 DEF Accepted
  <2> QED
    BY Zenon, <2>1, <2>6 DEF b, r
<1>4. CASE ~(r.term = currentTerm /\ r.index = Len(a) + 1)
  BY Zenon, <1>4 DEF AcceptRequest
<1> QED
  BY Zenon, <1>3, <1>4

\* handleClientRequests adds entries of requests of its term, each at its index.
LEMMA AcceptAll ==
  ASSUME Counting, RaftTypeOK, NEW requests \in Seq(Request)
  PROVE  Accepted(AcceptRequests(requests), requests)
<1> DEFINE n == Len(requests)
           S == {a \in Seq(Entry) : Accepted(a, requests)}
           G == [p \in Nat \X S |-> IF p[1] \in 1..n THEN AcceptRequest(p[2], requests[p[1]]) ELSE p[2]]
<1>1. n \in Nat /\ DOMAIN requests = 1..n
  OBVIOUS
<1>2. log \in S
  <2>1. log \in Seq(Entry) /\ Len(log) <= Len(log) /\ \A j \in (Len(log) + 1)..Len(log) : FALSE
    BY DEF RaftTypeOK
  <2> QED
    BY Zenon, <2>1, AgreesWithItself DEF Accepted
<1>3. G \in [Nat \X S -> S]
  <2>1. ASSUME NEW p \in Nat \X S PROVE G[p] \in S
    <3>1. p[2] \in S
      OBVIOUS
    <3>2. CASE p[1] \in 1..n
      <4>1. Accepted(AcceptRequest(p[2], requests[p[1]]), requests)
        BY Zenon, <1>1, <3>1, <3>2, AcceptOne
      <4>2. AcceptRequest(p[2], requests[p[1]]) \in Seq(Entry)
        BY Zenon, <4>1 DEF Accepted
      <4> QED
        BY Zenon, <3>2, <4>1, <4>2
    <3> QED
      BY Zenon, <3>1, <3>2
  <2> QED
    BY Zenon, <2>1
<1> HIDE DEF S
<1>4. PICK f : Iterates(f, n, S, log, G)
  <2> HIDE DEF G, n
  <2> QED
    BY Zenon, <1>1, <1>2, <1>3, Recursion
<1> DEFINE Is(h) == h = [k \in 0..n |-> IF k = 0 THEN log ELSE AcceptRequest(h[k - 1], requests[k])]
<1>5. Is(f)
  <2>1. f \in [0..n -> S] /\ f[0] = log /\ \A i \in 1..n : f[i] = G[<<i, f[i - 1]>>]
    BY Zenon, <1>4 DEF Iterates
  <2>2. ASSUME NEW k \in 0..n, k # 0 PROVE f[k] = AcceptRequest(f[k - 1], requests[k])
    <3>1. k \in 1..n /\ k \in Nat /\ k - 1 \in 0..n
      BY <1>1, <2>2
    <3>2. f[k - 1] \in S
      BY ZenonT(30), <2>1, <3>1
    <3>3. G[<<k, f[k - 1]>>] = AcceptRequest(f[k - 1], requests[k])
      BY <3>1, <3>2
    <3> QED
      BY Zenon, <2>1, <3>1, <3>3
  <2> QED
    BY <2>1, <2>2
<1> DEFINE c == CHOOSE h : Is(h)
<1>6. Is(c)
  BY Zenon, <1>5
<1>7. AcceptRequests(requests) = c[n]
  BY Zenon DEF AcceptRequests
<1>8. \A k \in 0..n : c[k] \in S
  <2> DEFINE P == {k \in 0..n : c[k] \in S}
  <2> HIDE DEF c
  <2>0. c = [k \in 0..n |-> IF k = 0 THEN log ELSE AcceptRequest(c[k - 1], requests[k])]
    BY Zenon, <1>6
  <2>1. 0 \in P
    <3>1. 0 \in 0..n
      BY <1>1
    <3>2. c[0] = log
      BY Zenon, <2>0, <3>1
    <3> QED
      BY Zenon, <1>2, <3>1, <3>2
  <2>2. ASSUME NEW k \in 1..n, k - 1 \in P PROVE k \in P
    <3>1. k \in 0..n /\ k # 0
      BY <1>1
    <3>2. c[k] = AcceptRequest(c[k - 1], requests[k])
      BY Zenon, <2>0, <3>1
    <3>3. c[k - 1] \in S
      BY Zenon, <2>2
    <3>4. Accepted(c[k], requests)
      BY Zenon, <1>1, <3>2, <3>3, AcceptOne DEF S
    <3>5. c[k] \in Seq(Entry)
      BY Zenon, <3>4 DEF Accepted
    <3> QED
      BY Zenon, <3>1, <3>4, <3>5 DEF S
  <2>3. \A k \in 0..n : k \in P
    <3> HIDE DEF P, n
    <3> QED
      BY Zenon, <1>1, <2>1, <2>2, Upwards
  <2> QED
    BY Zenon, <2>3
<1>9. n \in 0..n
  BY <1>1
<1> QED
  BY Zenon, <1>7, <1>8, <1>9 DEF S


\* The length of a state
LEMMA StatesLen ==
  ASSUME NEW s \in States
  PROVE  Len(s) \in Nat
  BY DEF States

\* Two states that miss as much of a third are one.
LEMMA MissesSame ==
  ASSUME NEW s \in States, NEW t \in States, NEW u \in States, NEW d \in Int, Misses(s, u, d), Misses(t, u, d)
  PROVE  s = t
<1>1. /\ IsPrefix(s, u) /\ IsPrefix(t, u) /\ Len(u) = Len(s) + d /\ Len(u) = Len(t) + d
      /\ Len(s) \in Nat /\ Len(t) \in Nat
  BY DEF Misses, States
<1>2. Len(s) = Len(t) /\ Len(s) <= Len(t)
  BY <1>1
<1>3. IsPrefix(s, t)
  BY Zenon, <1>1, <1>2, PrefixFacts DEF States
<1> QED
  BY Zenon, <1>2, <1>3, PrefixFacts DEF States

\* handleClientRequests extends the log of a leader.
LEMMA AcceptExtends ==
  ASSUME Counting, PipelineInv, HandleClientRequests, role = "Leader"
  PROVE  /\ Accepted(log', Head(clientRequests))
         /\ RaftTypeOK' /\ RaftInv' /\ CommitGrows
         /\ \A l \in Logs' : \A i \in DOMAIN l :
              IsOld(l, i) \/ (l = log' /\ i \in (Len(log) + 1)..Len(log'))
<1> DEFINE requests == Head(clientRequests)
<1>0. RaftTypeOK /\ RaftInv /\ QueueTypeOK
  BY Zenon DEF PipelineInv
<1>1. requests \in Seq(Request)
  BY Zenon, <1>0, FirstBatch DEF HandleClientRequests
<1>2. log' = AcceptRequests(requests)
  BY Zenon DEF HandleClientRequests
<1> HIDE DEF requests
<1>3. Accepted(log', requests)
  BY Zenon, <1>0, <1>1, <1>2, AcceptAll
<1>4. log' \in Seq(Entry) /\ Len(log) <= Len(log') /\ Agree(log', log, Len(log))
  BY Zenon, <1>3 DEF Accepted
<1>5. /\ commitIndex \in 0..Len(log) /\ log \in Seq(Entry) /\ Len(log) \in Nat /\ Len(log') \in Nat
      /\ commitIndex <= Len(log) /\ Len(log) \in 0..Len(log) /\ \A j \in 1..commitIndex : j \in 1..Len(log)
  BY <1>0, <1>4 DEF RaftTypeOK
<1>6. ASSUME NEW i \in (Len(log) + 1)..Len(log') PROVE log'[i].term = currentTerm /\ ~log'[i].noop
  <2>1. PICK k \in DOMAIN requests : requests[k].term = currentTerm /\ log'[i] = EntryOf(requests[k])
    BY Zenon, <1>3 DEF Accepted
  <2> QED
    BY <2>1 DEF EntryOf
<1>7. /\ currentTerm' = currentTerm /\ role' = role /\ commitIndex' = commitIndex /\ dropped' = dropped
  BY Zenon DEF HandleClientRequests
<1>8. log \in Logs
  BY Zenon DEF Logs
<1>9. Agree(log, log', commitIndex)
  BY Zenon, <1>4, <1>5 DEF Agree
<1>10. Extends(log, Len(log))
  BY Zenon, <1>4, <1>5, <1>6, <1>7, <1>8, <1>9 DEF Extends
<1>11. currentTerm >= 1 /\ role' \in {"Other", "Leader", "Stepping"}
  BY Zenon, <1>0, <1>7 DEF RaftInv
<1> QED
  BY Zenon, <1>0, <1>3, <1>4, <1>7, <1>10, <1>11, ExtendKeepsRaft DEF requests

\* A leader in charge that accepts requests reaches states that the CPL has been through.
LEMMA AcceptedStates ==
  ASSUME Counting, PipelineInv, InCharge, NEW requests, NEW a, Accepted(a, requests),
         \A k \in DOMAIN requests : requests[k] \in Requests
  PROVE  /\ Len(a) <= mLastCommandId /\ (pc = "persist" => Len(a) < mLastCommandId)
         /\ \A j \in Len(log)..Len(a) : Misses(StateAt(a, j), cplState, mLastCommandId - j)
<1> DEFINE N == mLastCommandId
           n == Len(log)
           s == StateAt(log, n)
<1>1. /\ RaftTypeOK /\ CplTypeOK /\ RequestInv /\ Speculates
      /\ n <= N /\ (pc = "persist" => n < N)
      /\ currentTerm = mLastCheckedTerm
  BY Zenon DEF PipelineInv, ChargeInv, InCharge, Leads
<1>2. /\ log \in Seq(Entry) /\ n \in Nat /\ a \in Seq(Entry) /\ n <= Len(a) /\ Agree(a, log, n) /\ Len(a) \in Nat
  BY <1>1 DEF Accepted, RaftTypeOK
<1>3. N \in Nat /\ cplState \in States
  BY Zenon, <1>1 DEF CplTypeOK
<1>4. ASSUME NEW j \in (n + 1)..Len(a)
      PROVE  /\ a[j].term = mLastCheckedTerm /\ ~a[j].noop
             /\ j <= N /\ (pc = "persist" => j < N)
  <2>1. PICK k \in DOMAIN requests :
          requests[k].index = j /\ requests[k].term = currentTerm /\ a[j] = EntryOf(requests[k])
    BY Zenon DEF Accepted
  <2>2. j <= N /\ (pc = "persist" => j < N)
    BY Zenon, <1>1, <2>1 DEF RequestInv
  <2>3. a[j].term = mLastCheckedTerm /\ ~a[j].noop
    BY <1>1, <2>1 DEF EntryOf
  <2> QED
    BY Zenon, <2>2, <2>3
<1>5. Len(a) <= N /\ (pc = "persist" => Len(a) < N)
  <2>1. CASE Len(a) = n
    BY Zenon, <1>1, <2>1
  <2>2. CASE Len(a) \in (n + 1)..Len(a)
    BY Zenon, <1>4, <2>2
  <2>3. Len(a) = n \/ Len(a) \in (n + 1)..Len(a)
    BY <1>2
  <2> QED
    BY Zenon, <2>1, <2>2, <2>3
<1>6. StateAt(a, n) = s
  <2>1. n \in 0..Len(a) /\ n <= Len(log)
    BY <1>2
  <2> QED
    BY Zenon, <1>2, <2>1, StateAgrees
<1>7. \A j \in 0..Len(a) : StateAt(a, j) \in States
  BY Zenon, <1>2, StateAtFacts
<1>8. s \in States
  <2>1. n \in 0..Len(a)
    BY <1>2
  <2> QED
    BY Zenon, <1>6, <1>7, <2>1
<1>9. /\ Misses(s, cplState, N - n)
      /\ \A k \in (Len(s) + 1)..Len(cplState) : cplState[k] = [index |-> n + (k - Len(s)), term |-> mLastCheckedTerm]
  BY Zenon, <1>1 DEF Speculates
<1>10. Len(s) \in Nat /\ Len(cplState) \in Nat /\ Len(cplState) = Len(s) + (N - n)
  BY Zenon, <1>3, <1>8, <1>9, StatesLen DEF Misses
<1> DEFINE P == {d \in 0..(Len(a) - n) : Misses(StateAt(a, n + d), cplState, N - (n + d))}
<1>11. 0 \in P
  <2>1. n + 0 = n /\ N - (n + 0) = N - n /\ 0 \in 0..(Len(a) - n)
    BY <1>2, <1>3
  <2> QED
    BY Zenon, <1>6, <1>9, <2>1
<1>12. ASSUME NEW d \in 1..(Len(a) - n), d - 1 \in P PROVE d \in P
  <2> DEFINE j == n + d
             t == StateAt(a, j - 1)
  <2>1. /\ j \in (n + 1)..Len(a) /\ j \in 1..Len(a) /\ j - 1 = n + (d - 1) /\ j - 1 \in 0..Len(a) /\ d \in 0..(Len(a) - n)
        /\ j \in Nat /\ d \in Nat
    BY <1>2
  <2>2. Misses(t, cplState, N - (j - 1))
    BY Zenon, <1>12, <2>1
  <2>3. t \in States
    BY Zenon, <1>7, <2>1
  <2>4. StateAt(a, j) = Append(t, Id(a, j))
    BY Zenon, <1>2, <1>4, <2>1, StateAtStep
  <2>5. Id(a, j) = [index |-> j, term |-> mLastCheckedTerm]
    BY Zenon, <1>4, <2>1 DEF Id
  <2>6. j <= N
    BY Zenon, <1>4, <2>1
  <2> HIDE DEF t, s, P, N
  <2>7. Len(t) \in Nat /\ Len(cplState) = Len(t) + (N - (j - 1))
    BY Zenon, <2>2, <2>3, StatesLen DEF Misses
  <2>8. /\ Len(t) + 1 \in (Len(s) + 1)..Len(cplState) /\ n + ((Len(t) + 1) - Len(s)) = j
        /\ Len(cplState) = (Len(t) + 1) + (N - j)
    <3>1. ASSUME NEW x \in Nat, NEW y \in Nat, NEW z \in Nat, x = y + (N - n), x = z + (N - (j - 1))
          PROVE  z + 1 \in (y + 1)..x /\ n + ((z + 1) - y) = j /\ x = (z + 1) + (N - j)
      <4>1. n \in Nat /\ j \in Nat /\ N \in Nat /\ n < j /\ j <= N
        BY <1>2, <1>3, <2>1, <2>6
      <4> HIDE DEF j, n
      <4> QED
        BY <3>1, <4>1
    <3> QED
      BY Zenon, <1>10, <2>7, <3>1
  <2>9. cplState[Len(t) + 1] = Id(a, j)
    BY Zenon, <1>9, <2>5, <2>8
  <2>10. Id(a, j) \in EntryId
    <3>1. mLastCheckedTerm \in Nat
      BY <1>1 DEF CplTypeOK, RaftTypeOK
    <3> QED
      BY <2>1, <2>5, <3>1 DEF EntryId
  <2> DEFINE e == Id(a, j)
             u == Append(t, e)
  <2>11. /\ Len(u) = Len(t) + 1 /\ u[Len(t) + 1] = e /\ \A i \in 1..Len(t) : u[i] = t[i]
    <3>1. t \in Seq(EntryId) /\ e \in EntryId
      BY Zenon, <2>3, <2>10 DEF States
    <3> HIDE DEF e
    <3> QED
      BY <3>1
  <2> HIDE DEF u, e, j
  <2>12. IsPrefix(u, cplState)
    <3>1. \A i \in 1..Len(t) : t[i] = cplState[i]
      BY Zenon, <2>2 DEF Misses, IsPrefix
    <3>2. \A i \in 1..Len(u) : i = Len(t) + 1 \/ i \in 1..Len(t)
      BY <2>7, <2>11
    <3>3. \A i \in 1..Len(u) : u[i] = cplState[i]
      BY Zenon, <2>9, <2>11, <3>1, <3>2 DEF e
    <3>4. Len(u) <= Len(cplState)
      BY <1>3, <2>1, <2>6, <2>7, <2>8, <2>11
    <3> QED
      BY Zenon, <3>3, <3>4 DEF IsPrefix
  <2>13. Misses(u, cplState, N - j)
    BY Zenon, <2>8, <2>11, <2>12 DEF Misses
  <2> QED
    BY Zenon, <2>1, <2>4, <2>13 DEF u, e, j, P
<1>13. \A d \in 0..(Len(a) - n) : d \in P
  <2>1. Len(a) - n \in Nat
    BY <1>2
  <2> HIDE DEF P
  <2> QED
    BY Zenon, <1>11, <1>12, <2>1, Upwards
<1>14. ASSUME NEW j \in n..Len(a) PROVE Misses(StateAt(a, j), cplState, N - j)
  <2>1. j - n \in 0..(Len(a) - n) /\ n + (j - n) = j
    BY <1>2
  <2> QED
    BY Zenon, <1>13, <2>1
<1> QED
  BY Zenon, <1>5, <1>14


\* The types of requests
LEMMA RequestTypes ==
  ASSUME QueueTypeOK
  PROVE  Requests \subseteq Request
<1>1. \A k \in DOMAIN mPersistQueue : mPersistQueue[k] \in Request
  BY DEF QueueTypeOK
<1>2. \A b \in DOMAIN clientRequests : clientRequests[b] \in Seq(Request)
  BY DEF QueueTypeOK
<1>3. \A b \in DOMAIN clientRequests : \A k \in DOMAIN clientRequests[b] : clientRequests[b][k] \in Request
  BY <1>2
<1> QED
  BY <1>1, <1>3 DEF Requests

\* The types of their fields
LEMMA RequestFields ==
  ASSUME NEW r \in Request
  PROVE  r.index \in Nat /\ r.term \in Nat /\ r.cmd \in Cmds /\ r.base \in States
  BY DEF Request

\* A leader in charge accepts requests.
LEMMA AcceptInCharge ==
  ASSUME Counting, PipelineInv, HandleClientRequests, role = "Leader", InCharge
  PROVE  PipelineInv'
<1> DEFINE requests == Head(clientRequests)
           N == mLastCommandId
           New(l, i) == l = log' /\ i \in (Len(log) + 1)..Len(log')
<1>0. /\ RaftTypeOK /\ RaftInv /\ DecidedInv /\ QueueTypeOK /\ CplTypeOK /\ EalTypeOK /\ ReplyTypeOK /\ ChargeInv
      /\ LeadsInv /\ DecisionInv /\ RequestInv /\ TaskInv /\ EalInv /\ DbInv /\ WaitInv /\ AnswersAreCommitted /\ AssertionsHold
  BY Zenon DEF PipelineInv
<1>1. /\ currentTerm' = currentTerm /\ role' = role /\ commitIndex' = commitIndex /\ dropped' = dropped
      /\ pc' = pc /\ command' = command /\ arrived' = arrived /\ mLastCheckedTerm' = mLastCheckedTerm
      /\ mLastCheckedRole' = mLastCheckedRole /\ mLastCommandId' = mLastCommandId /\ cplState' = cplState /\ read' = read
  BY Zenon DEF HandleClientRequests, cplVars
<1>2. /\ ealPc' = ealPc /\ ealState' = ealState /\ dbState' = dbState /\ mShouldRecover' = mShouldRecover
      /\ mLoadedIndex' = mLoadedIndex /\ mAppliedIndex' = mAppliedIndex /\ mApplyingIndex' = mApplyingIndex
      /\ mTaskQueue' = mTaskQueue /\ mCachedBundles' = mCachedBundles
      /\ replyQueue' = replyQueue /\ replier' = replier /\ answer' = answer /\ assertion' = assertion
  BY Zenon DEF HandleClientRequests, ealVars, readerVars, replyVars
<1>3. /\ Accepted(log', requests) /\ RaftTypeOK' /\ RaftInv' /\ CommitGrows
      /\ \A l \in Logs' : \A i \in DOMAIN l : IsOld(l, i) \/ New(l, i)
  BY Zenon, AcceptExtends
<1>4. QueueTypeOK' /\ Requests' \subseteq Requests /\ \A k \in DOMAIN requests : requests[k] \in Requests
  BY Zenon, <1>0, FirstBatch DEF HandleClientRequests
<1> HIDE DEF requests
<1>5. /\ Len(log') <= N /\ (pc = "persist" => Len(log') < N)
      /\ \A j \in Len(log)..Len(log') : Misses(StateAt(log', j), cplState, N - j)
  BY Zenon, <1>3, <1>4, AcceptedStates
<1>6. /\ log \in Seq(Entry) /\ log' \in Seq(Entry) /\ Len(log) \in Nat /\ Len(log') \in Nat /\ Len(log) <= Len(log')
      /\ N \in Nat /\ cplState \in States
  BY <1>0, <1>3 DEF RaftTypeOK, Accepted, CplTypeOK
<1>7. \A j \in 0..Len(log') : StateAt(log', j) \in States
  BY Zenon, <1>6, StateAtFacts
<1>8. ASSUME NEW j \in (Len(log) + 1)..Len(log')
      PROVE  /\ \E r \in Requests : r.index = j /\ r.term = currentTerm /\ log'[j] = EntryOf(r)
             /\ j \in Len(log)..Len(log') /\ j - 1 \in Len(log)..Len(log')
             /\ j \in 0..Len(log') /\ j - 1 \in 0..Len(log') /\ j \in Int
  <2>1. \E r \in Requests : r.index = j /\ r.term = currentTerm /\ log'[j] = EntryOf(r)
    BY Zenon, <1>3, <1>4 DEF Accepted
  <2>2. j \in Len(log)..Len(log') /\ j - 1 \in Len(log)..Len(log') /\ j \in 0..Len(log') /\ j - 1 \in 0..Len(log') /\ j \in Int
    BY <1>6
  <2> QED
    BY Zenon, <2>1, <2>2
<1>9. CplTypeOK' /\ EalTypeOK'
  BY Zenon, <1>0, <1>1, <1>2 DEF CplTypeOK, EalTypeOK
<1>10. Holders' = Holders
  BY Zenon, <1>2 DEF Holders
<1>11. Tasks' = Tasks /\ OutOfWait' = OutOfWait /\ Leads' = Leads /\ ReplyTypeOK'
  BY Zenon, <1>0, <1>1, <1>2, <1>10 DEF Tasks, OutOfWait, Leads, ReplyTypeOK
<1>12. InCharge' /\ OutOfWait /\ Leads /\ currentTerm = mLastCheckedTerm
  BY Zenon, <1>11 DEF InCharge, Leads
<1>13. DecidedInv'
  <2> SUFFICES ASSUME NEW l \in Logs', NEW i \in DOMAIN l, l[i].cmd # NoCmd PROVE l[i].base = StateAt(l, i - 1)
    BY Zenon DEF DecidedInv
  <2>1. CASE IsOld(l, i)
    <3>1. l \in Seq(Entry)
      BY Zenon, <1>3 DEF RaftTypeOK, Logs
    <3>2. PICK m \in Logs : i \in DOMAIN m /\ m[i] = l[i] /\ StateAt(m, i - 1) = StateAt(l, i - 1)
      BY Zenon, <1>0, <2>1, <3>1, OldEntry
    <3> QED
      BY Zenon, <1>0, <3>2 DEF DecidedInv
  <2>2. CASE New(l, i)
    <3>1. PICK r \in Requests : r.index = i /\ r.term = currentTerm /\ log'[i] = EntryOf(r)
      BY Zenon, <1>8, <2>2
    <3>2. Misses(r.base, cplState, N - i + 1)
      BY Zenon, <1>0, <1>12, <3>1 DEF RequestInv
    <3>3. i \in Int /\ N - i + 1 = N - (i - 1) /\ N - (i - 1) \in Int
      <4>1. i \in Int
        BY Zenon, <1>8, <2>2
      <4> QED
        BY <1>6, <4>1
    <3>4. Misses(StateAt(log', i - 1), cplState, N - (i - 1))
      BY Zenon, <1>5, <1>8, <2>2
    <3>5. r.base \in States /\ StateAt(log', i - 1) \in States
      <4>1. r \in Request
        BY Zenon, <1>0, RequestTypes
      <4>2. r.base \in States
        BY Zenon, <4>1, RequestFields
      <4> QED
        BY Zenon, <1>7, <1>8, <2>2, <4>2
    <3>6. r.base = StateAt(log', i - 1)
      BY Zenon, <1>6, <3>2, <3>3, <3>4, <3>5, MissesSame
    <3>7. log'[i].base = r.base
      BY <3>1 DEF EntryOf
    <3> QED
      BY Zenon, <2>2, <3>6, <3>7
  <2> QED
    BY Zenon, <1>3, <2>1, <2>2
<1>14. LeadsInv'
  BY Zenon, <1>0, <1>1, <1>11, <1>12 DEF LeadsInv
<1>15. ChargeInv'
  <2> DEFINE a == log'
             s == StateAt(log, Len(log))
             t == StateAt(a, Len(a))
  <2>1. Speculates
    BY Zenon, <1>0 DEF ChargeInv
  <2>2. Len(a) \in Len(log)..Len(a) /\ Len(log) \in 0..Len(log) /\ Len(a) \in 0..Len(a)
    BY <1>6
  <2>3. Misses(t, cplState, N - Len(a)) /\ Misses(s, cplState, N - Len(log)) /\ s \in States /\ t \in States
    BY Zenon, <1>5, <1>6, <2>1, <2>2, StateAtFacts DEF Speculates
  <2>4. \A k \in (Len(s) + 1)..Len(cplState) : cplState[k] = [index |-> Len(log) + (k - Len(s)), term |-> mLastCheckedTerm]
    BY Zenon, <2>1 DEF Speculates
  <2>5. /\ Len(s) \in Nat /\ Len(t) \in Nat /\ Len(cplState) \in Nat
        /\ Len(cplState) = Len(s) + (N - Len(log)) /\ Len(cplState) = Len(t) + (N - Len(a))
    BY Zenon, <1>6, <2>3, StatesLen DEF Misses
  <2> HIDE DEF s, t, a, N
  <2>6. \A k \in (Len(t) + 1)..Len(cplState) :
          k \in (Len(s) + 1)..Len(cplState) /\ Len(a) + (k - Len(t)) = Len(log) + (k - Len(s))
    BY <1>6, <2>5 DEF a
  <2>7. \A k \in (Len(t) + 1)..Len(cplState) :
          cplState[k] = [index |-> Len(a) + (k - Len(t)), term |-> mLastCheckedTerm]
    BY Zenon, <2>4, <2>6
  <2>8. Speculates'
    <3> SUFFICES /\ Misses(StateAt(log', Len(log')), cplState', mLastCommandId' - Len(log'))
                 /\ \A k \in (Len(StateAt(log', Len(log'))) + 1)..Len(cplState') :
                      cplState'[k] = [index |-> Len(log') + (k - Len(StateAt(log', Len(log')))), term |-> mLastCheckedTerm']
      BY Zenon DEF Speculates, Misses, IsPrefix
    <3> QED
      BY Zenon, <1>1, <2>3, <2>7 DEF a, t, N
  <2>9. ASSUME NEW l \in Logs', NEW i \in DOMAIN l, l[i].term = mLastCheckedTerm, pc \in {"process", "persist"}
        PROVE  i <= N /\ (pc = "persist" => i < N)
    <3>1. CASE IsOld(l, i)
      <4>1. l \in Seq(Entry)
        BY Zenon, <1>3 DEF RaftTypeOK, Logs
      <4>2. PICK m \in Logs : i \in DOMAIN m /\ m[i] = l[i]
        BY Zenon, <1>0, <3>1, <4>1, OldEntry
      <4> QED
        BY Zenon, <1>0, <2>9, <4>2 DEF ChargeInv, N
    <3>2. CASE New(l, i)
      <4>1. i <= Len(log') /\ i \in Int
        BY <1>6, <3>2
      <4> QED
        BY <1>5, <1>6, <4>1 DEF N
    <3> QED
      BY Zenon, <1>3, <3>1, <3>2
  <2>10. role # "Elected" /\ Len(log') <= N /\ (pc = "persist" => Len(log') < N)
    BY Zenon, <1>5 DEF N
  <2> QED
    BY Zenon, <1>1, <2>8, <2>9, <2>10 DEF ChargeInv, N
<1>16. DecisionInv'
  <2>1. ASSUME pc = "process", NEW l \in Logs', HasTerm(l, N, mLastCheckedTerm)
        PROVE  cplState = StateAt(l, N) \/ IsPrefix(cplState, StateAt(log', commitIndex'))
    <3>1. CASE IsOld(l, N)
      <4>1. Speaks(cplState, N, mLastCheckedTerm)
        BY Zenon, <1>0, <2>1 DEF DecisionInv
      <4> HIDE DEF N
      <4> QED
        BY Zenon, <1>0, <1>3, <1>6, <2>1, <3>1, <4>1, SpeaksOfOld
    <3>2. CASE New(l, N)
      <4>1. Misses(StateAt(log', N), cplState, N - N) /\ StateAt(log', N) \in States
        BY Zenon, <1>5, <1>7, <1>8, <3>2
      <4>2. Misses(cplState, cplState, N - N) /\ N - N \in Int
        BY <1>6 DEF Misses, IsPrefix, States
      <4>3. StateAt(log', N) = cplState
        BY Zenon, <1>6, <4>1, <4>2, MissesSame
      <4> QED
        BY Zenon, <3>2, <4>3
    <3>3. N \in DOMAIN l
      BY Zenon, <2>1 DEF HasTerm
    <3> QED
      BY Zenon, <1>3, <3>1, <3>2, <3>3
  <2>2. pc = "process" => Speaks(cplState, N, mLastCheckedTerm)'
    BY Zenon, <1>1, <2>1 DEF Speaks, Committed, HasTerm
  <2> QED
    BY Zenon, <1>0, <1>1, <2>2 DEF DecisionInv
<1>17. RequestInv'
  BY Zenon, <1>0, <1>1, <1>4, <1>11, <1>12 DEF RequestInv, Misses
<1>18. TaskInv'
  <2> SUFFICES ASSUME NEW x \in Tasks'
               PROVE  (/\ x.term <= mLastCheckedTerm
                       /\ x.term = mLastCheckedTerm =>
                            /\ mLastCheckedRole /\ OutOfWait
                            /\ x.index <= mLastCommandId
                            /\ InCharge /\ x.code = "refused" => Misses(x.base, cplState, mLastCommandId - x.index)
                            /\ x.code = "200" /\ pc = "persist" /\ x.index = mLastCommandId =>
                                 x.cmd = command /\ x.base = Front(cplState)
                       /\ x.code = "refused" => Speaks(x.base, x.index, x.term)
                       /\ x.code = "200" =>
                            /\ \A l \in Logs : HasTerm(l, x.index, x.term) => l[x.index].cmd = x.cmd /\ l[x.index].base = x.base
                            /\ \A r \in Requests : r.index = x.index /\ r.term = x.term => r.cmd = x.cmd /\ r.base = x.base)'
    BY Zenon DEF TaskInv
  <2>0. x \in Tasks /\ x \in Task
    BY Zenon, <1>0, <1>11, TaskTypes
  <2>1. x.base \in States /\ x.index \in Nat /\ x.term \in Nat
    BY <2>0 DEF Task
  <2>2. ASSUME x.code = "refused", NEW l \in Logs', HasTerm(l, x.index, x.term)
        PROVE  x.base = StateAt(l, x.index) \/ IsPrefix(x.base, StateAt(log', commitIndex'))
    <3>1. CASE IsOld(l, x.index)
      <4>1. Speaks(x.base, x.index, x.term)
        BY Zenon, <1>0, <2>0, <2>2 DEF TaskInv
      <4> QED
        BY Zenon, <1>0, <1>3, <2>1, <2>2, <3>1, <4>1, SpeaksOfOld
    <3>2. CASE New(l, x.index)
      <4>1. l[x.index].term = currentTerm
        <5>1. PICK r \in Requests : r.term = currentTerm /\ log'[x.index] = EntryOf(r)
          BY Zenon, <1>8, <3>2
        <5> QED
          BY <3>2, <5>1 DEF EntryOf
      <4>2. x.term = mLastCheckedTerm
        BY Zenon, <1>12, <2>2, <4>1 DEF HasTerm
      <4>3. Misses(x.base, cplState, N - x.index)
        BY Zenon, <1>0, <2>0, <2>2, <4>2 DEF TaskInv
      <4>4. Misses(StateAt(log', x.index), cplState, N - x.index) /\ StateAt(log', x.index) \in States
        BY Zenon, <1>5, <1>7, <1>8, <3>2
      <4>5. N - x.index \in Int
        BY <1>6, <2>1
      <4>6. StateAt(log', x.index) = x.base
        BY Zenon, <1>6, <2>1, <4>3, <4>4, <4>5, MissesSame
      <4> QED
        BY Zenon, <3>2, <4>6
    <3>3. x.index \in DOMAIN l
      BY Zenon, <2>2 DEF HasTerm
    <3> QED
      BY Zenon, <1>3, <3>1, <3>2, <3>3
  <2>3. ASSUME x.code = "200", NEW l \in Logs', HasTerm(l, x.index, x.term)
        PROVE  l[x.index].cmd = x.cmd /\ l[x.index].base = x.base
    <3>1. CASE IsOld(l, x.index)
      <4>1. l \in Seq(Entry)
        BY Zenon, <1>3 DEF RaftTypeOK, Logs
      <4>2. PICK m \in Logs : x.index \in DOMAIN m /\ m[x.index] = l[x.index]
        BY Zenon, <1>0, <2>3, <3>1, <4>1, OldEntry DEF HasTerm
      <4>3. HasTerm(m, x.index, x.term)
        BY Zenon, <2>3, <4>2 DEF HasTerm
      <4>4. m[x.index].cmd = x.cmd /\ m[x.index].base = x.base
        BY Zenon, <1>0, <2>0, <2>3, <4>3 DEF TaskInv
      <4> QED
        BY Zenon, <4>2, <4>4
    <3>2. CASE New(l, x.index)
      <4>1. PICK r \in Requests : r.index = x.index /\ r.term = currentTerm /\ log'[x.index] = EntryOf(r)
        BY Zenon, <1>8, <3>2
      <4>2. l[x.index].term = r.term /\ l[x.index].cmd = r.cmd /\ l[x.index].base = r.base
        BY <3>2, <4>1 DEF EntryOf
      <4>3. r.term = x.term
        BY Zenon, <2>3, <4>2 DEF HasTerm
      <4>4. r.cmd = x.cmd /\ r.base = x.base
        BY Zenon, <1>0, <2>0, <2>3, <4>1, <4>3 DEF TaskInv
      <4> QED
        BY Zenon, <4>2, <4>4
    <3>3. x.index \in DOMAIN l
      BY Zenon, <2>3 DEF HasTerm
    <3> QED
      BY Zenon, <1>3, <3>1, <3>2, <3>3
  <2>4. x.code = "refused" =>
          \A l \in Logs' : HasTerm(l, x.index, x.term) =>
            x.base = StateAt(l, x.index) \/ IsPrefix(x.base, StateAt(log', commitIndex'))
    BY Zenon, <2>2
  <2>5. /\ x.term <= mLastCheckedTerm
        /\ x.term = mLastCheckedTerm =>
             /\ mLastCheckedRole /\ OutOfWait
             /\ x.index <= mLastCommandId
             /\ InCharge /\ x.code = "refused" => Misses(x.base, cplState, mLastCommandId - x.index)
             /\ x.code = "200" /\ pc = "persist" /\ x.index = mLastCommandId =>
                  x.cmd = command /\ x.base = Front(cplState)
        /\ x.code = "200" => \A r \in Requests : r.index = x.index /\ r.term = x.term => r.cmd = x.cmd /\ r.base = x.base
    BY Zenon, <1>0, <2>0 DEF TaskInv
  <2> QED
    BY Zenon, <1>1, <1>4, <1>11, <1>12, <2>3, <2>4, <2>5 DEF Speaks, Committed, Misses, HasTerm, Front
<1>19. EalInv' /\ DbInv'
  BY Zenon, <1>0, <1>2, <1>3, EalStays, DbStays DEF readerVars
<1>20. AnswersAreCommitted' /\ AssertionsHold'
  BY Zenon, <1>0, <1>2, <1>3, AnswersStay DEF AssertionsHold
<1>21. WaitInv'
  <2>1. pc # "waitLast" /\ pc # "waitCommit" /\ pc # "waitLoaded" /\ pc # "waitApplied" /\ pc # "swap"
    BY <1>12 DEF OutOfWait
  <2> QED
    BY Zenon, <1>1, <2>1 DEF WaitInv
<1> QED
  BY Zenon, <1>3, <1>4, <1>9, <1>11, <1>13, <1>14, <1>15, <1>16, <1>17, <1>18, <1>19, <1>20, <1>21 DEF PipelineInv

\* handleClientRequests keeps the invariant.
LEMMA HandleClientRequestsKeeps ==
  ASSUME Counting, PipelineInv, HandleClientRequests
  PROVE  PipelineInv'
<1>1. QueueTypeOK' /\ Requests' \subseteq Requests /\ \A k \in DOMAIN Head(clientRequests) : Head(clientRequests)[k] \in Requests
  BY Zenon, FirstBatch DEF HandleClientRequests, PipelineInv
<1>2. UNCHANGED <<currentTerm, role, commitIndex, dropped, cplVars, ealVars, replyVars, assertion>>
  BY Zenon DEF HandleClientRequests
<1>3. CASE log' = log
  <2>1. UNCHANGED <<raftVars, cplVars, ealVars, replyVars, assertion>>
    BY Zenon, <1>2, <1>3 DEF raftVars
  <2> QED
    BY Zenon, <1>1, <2>1, FewerRequests
<1>4. CASE log' # log
  <2>1. role = "Leader"
    BY Zenon, <1>4 DEF HandleClientRequests
  <2>2. Accepted(log', Head(clientRequests)) /\ RaftTypeOK'
    BY Zenon, <2>1, AcceptExtends
  <2>3. /\ log \in Seq(Entry) /\ log' \in Seq(Entry) /\ Len(log) <= Len(log') /\ \A i \in 1..Len(log) : log'[i] = log[i]
        /\ Len(log) \in Nat /\ Len(log') \in Nat
    BY <2>2 DEF Accepted, PipelineInv, RaftTypeOK, Agree
  <2>4. Len(log) # Len(log')
    BY Zenon, <1>4, <2>3, SameSeq
  <2>5. Len(log') \in (Len(log) + 1)..Len(log')
    BY <2>3, <2>4
  <2>6. PICK r \in Requests : r.term = currentTerm
    BY Zenon, <1>1, <2>2, <2>5 DEF Accepted
  <2>7. r.term <= mLastCheckedTerm /\ (r.term = mLastCheckedTerm => mLastCheckedRole /\ OutOfWait)
    BY Zenon DEF PipelineInv, RequestInv
  <2>8. mLastCheckedTerm \in 0..currentTerm /\ currentTerm \in Nat
    BY DEF PipelineInv, CplTypeOK, RaftTypeOK
  <2>9. mLastCheckedTerm = currentTerm
    BY <2>6, <2>7, <2>8
  <2>10. InCharge
    BY Zenon, <2>6, <2>7, <2>9 DEF InCharge, Leads
  <2> QED
    BY Zenon, <2>1, <2>10, AcceptInCharge
<1> QED
  BY Zenon, <1>3, <1>4


-----------------------------------------------------------------------------
(* What the steps of the threads leave alone                               *)

\* Raft does not move.
LEMMA RaftStays ==
  ASSUME PipelineInv, UNCHANGED raftVars
  PROVE  /\ currentTerm' = currentTerm /\ role' = role /\ log' = log /\ commitIndex' = commitIndex /\ Logs' = Logs
         /\ RaftTypeOK /\ RaftTypeOK' /\ RaftInv' /\ DecidedInv' /\ CommitGrows
         /\ \A s, i, t : Speaks(s, i, t)' <=> Speaks(s, i, t)
         /\ \A t : OnlyNoops(t)' <=> OnlyNoops(t)
<1>1. currentTerm' = currentTerm /\ role' = role /\ log' = log /\ commitIndex' = commitIndex /\ dropped' = dropped
  BY Zenon DEF raftVars
<1>2. Logs' = Logs
  BY Zenon, <1>1 DEF Logs
<1>3. RaftTypeOK /\ RaftTypeOK' /\ RaftInv' /\ DecidedInv'
  BY Zenon, <1>1, <1>2 DEF PipelineInv, RaftTypeOK, RaftInv, DecidedInv, HasEntryOfTerm, HasTerm, Agree
<1>4. CommitGrows
  BY <1>1, <1>3, AgreesWithItself DEF CommitGrows, RaftTypeOK
<1>5. \A s, i, t : Speaks(s, i, t)' <=> Speaks(s, i, t)
  BY Zenon, <1>1, <1>2 DEF Speaks, Committed, HasTerm
<1>6. \A t : OnlyNoops(t)' <=> OnlyNoops(t)
  BY Zenon, <1>2 DEF OnlyNoops
<1> QED
  BY Zenon, <1>1, <1>2, <1>3, <1>4, <1>5, <1>6

\* Nor does the event apply loop.
LEMMA EalSame ==
  ASSUME Counting, PipelineInv, UNCHANGED <<raftVars, ealVars>>
  PROVE  EalTypeOK' /\ EalInv' /\ DbInv' /\ mLoadedIndex' = mLoadedIndex /\ mShouldRecover' = mShouldRecover /\ ealState' = ealState
<1>1. /\ ealPc' = ealPc /\ ealState' = ealState /\ dbState' = dbState /\ mShouldRecover' = mShouldRecover
      /\ mLoadedIndex' = mLoadedIndex /\ mAppliedIndex' = mAppliedIndex /\ mApplyingIndex' = mApplyingIndex
      /\ mTaskQueue' = mTaskQueue /\ mCachedBundles' = mCachedBundles
  BY Zenon DEF ealVars, readerVars
<1>2. EalTypeOK'
  BY Zenon, <1>1 DEF PipelineInv, EalTypeOK
<1>3. RaftTypeOK /\ RaftTypeOK' /\ CommitGrows
  BY Zenon, RaftStays
<1> QED
  BY Zenon, <1>1, <1>2, <1>3, EalStays, DbStays DEF PipelineInv, readerVars

\* Nor do the queues.
LEMMA QueuesStay ==
  ASSUME PipelineInv, UNCHANGED queueVars
  PROVE  QueueTypeOK' /\ Requests' = Requests
<1>1. mPersistQueue' = mPersistQueue /\ clientRequests' = clientRequests
  BY Zenon DEF queueVars
<1> QED
  BY <1>1 DEF Requests, PipelineInv, QueueTypeOK

\* Nor does the reply loop.
LEMMA TasksStay ==
  ASSUME PipelineInv, UNCHANGED <<replyQueue, replier>>
  PROVE  Tasks' = Tasks /\ Tasks \subseteq Task
<1>1. Holders' = Holders
  BY Zenon DEF Holders
<1>2. Tasks' = Tasks
  BY Zenon, <1>1 DEF Tasks
<1> QED
  BY Zenon, <1>2, TaskTypes DEF PipelineInv

\* Nor do the answers.
LEMMA RepliesStay ==
  ASSUME PipelineInv, UNCHANGED <<raftVars, replyVars>>
  PROVE  Tasks' = Tasks /\ Tasks \subseteq Task /\ ReplyTypeOK' /\ AnswersAreCommitted'
<1>1. replyQueue' = replyQueue /\ replier' = replier /\ answer' = answer
  BY Zenon DEF replyVars
<1>2. Holders' = Holders
  BY Zenon, <1>1 DEF Holders
<1>3. ReplyTypeOK'
  BY Zenon, <1>1, <1>2 DEF PipelineInv, ReplyTypeOK
<1>4. AnswersAreCommitted'
  BY Zenon, <1>1, RaftStays DEF PipelineInv, AnswersAreCommitted
<1> QED
  BY Zenon, <1>1, <1>3, <1>4, TasksStay

\* The CPL turns a command away.
LEMMA TurnedAway ==
  ASSUME PipelineInv, command \in Cmds, Answer(command, "301", <<>>), UNCHANGED <<raftVars, replyQueue, replier>>
  PROVE  ReplyTypeOK' /\ AnswersAreCommitted'
<1>1. ReplyTypeOK /\ AnswersAreCommitted
  BY Zenon DEF PipelineInv
<1>2. answer \in [Cmds -> [code : {"none", "200", "301", "refused"}, base : States]]
  BY Zenon, <1>1 DEF ReplyTypeOK
<1>3. <<>> \in States
  BY DEF States
<1>4. /\ answer' \in [Cmds -> [code : {"none", "200", "301", "refused"}, base : States]]
      /\ answer'[command].code = "301"
      /\ \A c \in Cmds : c # command => answer'[c] = answer[c]
  BY <1>2, <1>3 DEF Answer
<1>5. Holders' = Holders
  BY Zenon DEF Holders
<1>6. ReplyTypeOK'
  BY Zenon, <1>1, <1>4, <1>5 DEF ReplyTypeOK
<1>7. ASSUME NEW c \in Cmds
      PROVE  /\ answer'[c].code = "200" => \E i \in 1..commitIndex : log[i].cmd = c
             /\ answer'[c].code \in {"200", "refused"} => IsPrefix(answer'[c].base, StateAt(log, commitIndex))
  <2>1. CASE c = command
    BY <1>4, <2>1
  <2>2. CASE c # command
    BY Zenon, <1>1, <1>4, <2>2 DEF AnswersAreCommitted
  <2> QED
    BY Zenon, <2>1, <2>2
<1>8. AnswersAreCommitted'
  BY Zenon, <1>7, RaftStays DEF AnswersAreCommitted
<1> QED
  BY Zenon, <1>6, <1>8

\* The CPL goes where it decides nothing.
LEMMA MoveKeeps ==
  ASSUME Counting, PipelineInv, CplTypeOK', ReplyTypeOK', AnswersAreCommitted', AssertionsHold', WaitInv',
         UNCHANGED <<raftVars, ealVars, queueVars, replyQueue, replier, mLastCheckedTerm, mLastCheckedRole, cplState>>,
         pc' \notin {"process", "persist"}, pc' \notin {"dequeue", "detect"} => mLastCheckedRole,
         OutOfWait => OutOfWait', Leads => OutOfWait' = OutOfWait, OutOfWait => mLastCommandId' = mLastCommandId
  PROVE  PipelineInv'
<1>0. /\ RaftTypeOK /\ RaftInv /\ DecidedInv /\ QueueTypeOK /\ CplTypeOK /\ EalTypeOK /\ ReplyTypeOK /\ ChargeInv
      /\ LeadsInv /\ DecisionInv /\ RequestInv /\ TaskInv /\ EalInv /\ DbInv /\ WaitInv /\ AnswersAreCommitted /\ AssertionsHold
  BY Zenon DEF PipelineInv
<1>1. /\ currentTerm' = currentTerm /\ role' = role /\ log' = log /\ commitIndex' = commitIndex /\ Logs' = Logs
      /\ RaftTypeOK' /\ RaftInv' /\ DecidedInv'
      /\ \A s, i, t : Speaks(s, i, t)' <=> Speaks(s, i, t)
      /\ \A t : OnlyNoops(t)' <=> OnlyNoops(t)
  BY Zenon, RaftStays
<1>2. EalTypeOK' /\ EalInv' /\ DbInv'
  BY Zenon, EalSame
<1>3. QueueTypeOK' /\ Requests' = Requests /\ Tasks' = Tasks
  BY Zenon, QueuesStay, TasksStay
<1>4. Leads' = Leads
  BY Zenon, <1>1 DEF Leads
<1>5. InCharge' = InCharge
  BY Zenon, <1>4 DEF InCharge
<1>6. LeadsInv'
  BY Zenon, <1>0, <1>1, <1>4, <1>5 DEF LeadsInv
<1>7. InCharge => OutOfWait /\ Speculates'
  BY Zenon, <1>0, <1>1 DEF ChargeInv, InCharge, Speculates, Misses
<1>8. ChargeInv'
  BY Zenon, <1>0, <1>1, <1>5, <1>7 DEF ChargeInv
<1>9. DecisionInv'
  BY Zenon DEF DecisionInv
<1>10. RequestInv'
  BY Zenon, <1>0, <1>3, <1>5 DEF RequestInv, Misses
<1>11. TaskInv'
  <2> SUFFICES ASSUME NEW x \in Tasks'
               PROVE  (/\ x.term <= mLastCheckedTerm
                       /\ x.term = mLastCheckedTerm =>
                            /\ mLastCheckedRole /\ OutOfWait
                            /\ x.index <= mLastCommandId
                            /\ InCharge /\ x.code = "refused" => Misses(x.base, cplState, mLastCommandId - x.index)
                            /\ x.code = "200" /\ pc = "persist" /\ x.index = mLastCommandId =>
                                 x.cmd = command /\ x.base = Front(cplState)
                       /\ x.code = "refused" => Speaks(x.base, x.index, x.term)
                       /\ x.code = "200" =>
                            /\ \A l \in Logs : HasTerm(l, x.index, x.term) => l[x.index].cmd = x.cmd /\ l[x.index].base = x.base
                            /\ \A r \in Requests : r.index = x.index /\ r.term = x.term => r.cmd = x.cmd /\ r.base = x.base)'
    BY Zenon DEF TaskInv
  <2>1. x \in Tasks
    BY Zenon, <1>3
  <2>2. Speaks(x.base, x.index, x.term)' <=> Speaks(x.base, x.index, x.term)
    BY Zenon, <1>1
  <2> QED
    BY Zenon, <1>0, <1>1, <1>3, <1>5, <2>1, <2>2 DEF TaskInv, Misses, HasTerm
<1> QED
  BY Zenon, <1>1, <1>2, <1>3, <1>6, <1>8, <1>9, <1>10, <1>11 DEF PipelineInv


-----------------------------------------------------------------------------
(* The command process loop                                                *)

\* The CPL takes a command.
LEMMA DequeueKeeps ==
  ASSUME Counting, PipelineInv, Dequeue
  PROVE  PipelineInv'
<1>1. /\ pc = "dequeue" /\ pc' = "detect" /\ arrived' = arrived + 1 /\ command' = arrived + 1 /\ arrived < Cardinality(Cmds)
      /\ UNCHANGED <<raftVars, ealVars, queueVars, replyVars, mLastCheckedTerm, mLastCheckedRole, mLastCommandId, cplState,
                     read, assertion>>
  BY Zenon DEF Dequeue, notCpl, queueVars
<1>2. CplTypeOK /\ WaitInv /\ AssertionsHold
  BY Zenon DEF PipelineInv
<1>3. ReplyTypeOK' /\ AnswersAreCommitted'
  BY Zenon, <1>1, RepliesStay
<1>4. UNCHANGED <<replyQueue, replier>>
  BY Zenon, <1>1 DEF replyVars
<1>5. currentTerm' = currentTerm
  BY Zenon, <1>1, RaftStays
<1>6. /\ arrived' \in 0..Cardinality(Cmds) /\ command' \in Cmds /\ command' \in Nat
  BY <1>1, <1>2, PipelineAssumption DEF CplTypeOK
<1>7. pc' \in {"dequeue", "detect", "wait", "waitLast", "waitCommit", "waitLoaded", "waitApplied",
              "swap", "process", "persist"}
  BY <1>1
<1>8. CplTypeOK'
  BY Zenon, <1>1, <1>2, <1>5, <1>6, <1>7 DEF CplTypeOK
<1>9. OutOfWait /\ OutOfWait' /\ pc' \notin {"process", "persist"} /\ pc' \in {"dequeue", "detect"}
  BY <1>1 DEF OutOfWait
<1>10. WaitInv'
  BY <1>1 DEF WaitInv
<1>11. AssertionsHold'
  BY Zenon, <1>1, <1>2 DEF AssertionsHold
<1> QED
  BY Zenon, <1>1, <1>3, <1>4, <1>8, <1>9, <1>10, <1>11, MoveKeeps

\* The CPL finds itself leader as before, and processes its command.
LEMMA DetectSameLeader ==
  ASSUME Counting, PipelineInv, DetectTransition, Leads
  PROVE  PipelineInv'
<1>0. /\ RaftTypeOK /\ RaftInv /\ DecidedInv /\ QueueTypeOK /\ CplTypeOK /\ EalTypeOK /\ ReplyTypeOK /\ ChargeInv
      /\ LeadsInv /\ DecisionInv /\ RequestInv /\ TaskInv /\ EalInv /\ DbInv /\ WaitInv /\ AnswersAreCommitted /\ AssertionsHold
  BY Zenon DEF PipelineInv
<1>1. Refreshed = [term |-> mLastCheckedTerm, leader |-> TRUE]
  <2>1. IsLeader \in BOOLEAN
    BY DEF IsLeader
  <2> QED
    BY Zenon, <2>1 DEF Refreshed, Leads
<1>2. Refreshed.term = mLastCheckedTerm /\ Refreshed.leader = TRUE /\ mLastCheckedRole
  BY <1>1 DEF Leads
<1>3. mLastCheckedTerm \in Nat /\ mLastCheckedTerm >= mLastCheckedTerm
  BY <1>0 DEF CplTypeOK, RaftTypeOK
<1>4. /\ pc = "detect" /\ assertion' = assertion
      /\ mLastCheckedTerm' = mLastCheckedTerm /\ mLastCheckedRole' = TRUE
      /\ answer' = answer
      /\ UNCHANGED <<command, arrived, mLastCommandId, cplState, read, mPersistQueue, replyQueue, replier,
                     raftVars, ealVars, clientRequests>>
  BY <1>2, <1>3 DEF DetectTransition, Asserts, notCpl
<1>5. pc' = "process"
  BY <1>2, <1>4 DEF DetectTransition
<1> HIDE DEF Leads
<1>6. mLastCheckedRole' = mLastCheckedRole /\ mLastCheckedRole
  BY Zenon, <1>0, <1>2, <1>4 DEF CplTypeOK
<1>7. UNCHANGED <<queueVars, replyVars>>
  BY Zenon, <1>4 DEF queueVars, replyVars
<1>8. /\ currentTerm' = currentTerm /\ role' = role /\ log' = log /\ commitIndex' = commitIndex /\ Logs' = Logs
      /\ RaftTypeOK' /\ RaftInv' /\ DecidedInv'
      /\ \A s, i, t : Speaks(s, i, t)' <=> Speaks(s, i, t)
      /\ \A t : OnlyNoops(t)' <=> OnlyNoops(t)
  BY Zenon, <1>4, RaftStays
<1>9. EalTypeOK' /\ EalInv' /\ DbInv'
  BY Zenon, <1>4, EalSame
<1>10. QueueTypeOK' /\ Requests' = Requests /\ Tasks' = Tasks /\ ReplyTypeOK' /\ AnswersAreCommitted'
  BY Zenon, <1>4, <1>7, QueuesStay, RepliesStay
<1>11. OutOfWait /\ OutOfWait'
  BY <1>4, <1>5 DEF OutOfWait
<1>12. InCharge /\ InCharge' /\ Leads' /\ currentTerm = mLastCheckedTerm
  BY Zenon, <1>4, <1>6, <1>8, <1>11 DEF InCharge, Leads
<1>13. CplTypeOK'
  <2>1. pc' \in {"dequeue", "detect", "wait", "waitLast", "waitCommit", "waitLoaded", "waitApplied",
                "swap", "process", "persist"}
    BY <1>5
  <2>2. command \in Cmds
    BY <1>0, <1>4 DEF CplTypeOK
  <2> QED
    BY Zenon, <1>0, <1>4, <1>6, <1>8, <2>1, <2>2 DEF CplTypeOK
<1>14. LeadsInv'
  BY Zenon, <1>0, <1>6, <1>8, <1>11, <1>12 DEF LeadsInv
<1>15. ASSUME NEW l \in Logs, NEW i \in DOMAIN l, l[i].term = mLastCheckedTerm
       PROVE  l = log
  <2>1. l \notin dropped
    <3>1. l \in dropped => mLastCheckedTerm < currentTerm
      BY Zenon, <1>0, <1>15 DEF RaftInv
    <3> QED
      BY <1>3, <1>12, <3>1
  <2> QED
    BY Zenon, <2>1 DEF Logs
<1>16. /\ Len(log) <= mLastCommandId /\ Speculates /\ log \in Seq(Entry) /\ mLastCommandId \in Nat /\ cplState \in States
       /\ Len(log) \in Nat
  BY <1>0, <1>12 DEF ChargeInv, RaftTypeOK, CplTypeOK
<1>17. ChargeInv'
  <2>1. ASSUME NEW l \in Logs, NEW i \in DOMAIN l, l[i].term = mLastCheckedTerm PROVE i <= mLastCommandId
    <3>1. l = log
      BY Zenon, <1>15, <2>1
    <3> QED
      BY <1>16, <3>1
  <2>2. Speculates'
    BY Zenon, <1>4, <1>8, <1>16 DEF Speculates, Misses
  <2>3. pc' # "persist"
    BY <1>5
  <2> QED
    BY Zenon, <1>0, <1>4, <1>8, <1>12, <2>1, <2>2, <2>3 DEF ChargeInv
<1>18. DecisionInv'
  <2>1. ASSUME NEW l \in Logs, HasTerm(l, mLastCommandId, mLastCheckedTerm) PROVE cplState = StateAt(l, mLastCommandId)
    <3>1. mLastCommandId \in DOMAIN l /\ l = log
      BY Zenon, <1>15, <2>1 DEF HasTerm
    <3>2. mLastCommandId = Len(log) /\ mLastCommandId - Len(log) = 0 /\ Len(log) \in 0..Len(log)
      BY <1>16, <3>1
    <3>3. StateAt(log, Len(log)) \in States /\ Misses(StateAt(log, Len(log)), cplState, 0)
      BY Zenon, <1>16, <3>2, StateAtFacts DEF Speculates
    <3>4. Misses(cplState, cplState, 0) /\ 0 \in Int
      BY <1>16 DEF Misses, IsPrefix, States
    <3>5. cplState = StateAt(log, Len(log))
      BY Zenon, <1>16, <3>3, <3>4, MissesSame
    <3> QED
      BY Zenon, <3>1, <3>2, <3>5
  <2>2. Speaks(cplState, mLastCommandId, mLastCheckedTerm)
    BY Zenon, <2>1 DEF Speaks
  <2>4. pc' # "persist"
    BY <1>5
  <2> QED
    BY Zenon, <1>4, <1>8, <2>2, <2>4 DEF DecisionInv, Speaks, Committed, HasTerm
<1>19. pc' # "persist" /\ pc # "persist"
  BY <1>4, <1>5
<1>20. RequestInv'
  BY Zenon, <1>0, <1>4, <1>6, <1>10, <1>11, <1>12, <1>19 DEF RequestInv, Misses
<1>21. TaskInv'
  BY Zenon, <1>0, <1>4, <1>6, <1>8, <1>10, <1>11, <1>12, <1>19 DEF TaskInv, Misses, HasTerm, Speaks, Committed
<1>22. WaitInv'
  BY <1>5 DEF WaitInv
<1>23. AssertionsHold'
  BY Zenon, <1>0, <1>4 DEF AssertionsHold
<1> QED
  BY Zenon, <1>8, <1>9, <1>10, <1>13, <1>14, <1>17, <1>18, <1>20, <1>21, <1>22, <1>23 DEF PipelineInv


\* The CPL sees another role or term: it begins to wait, or turns its command away.
LEMMA DetectOther ==
  ASSUME Counting, PipelineInv, DetectTransition, ~Leads
  PROVE  PipelineInv'
<1>0. /\ RaftTypeOK /\ RaftInv /\ DecidedInv /\ QueueTypeOK /\ CplTypeOK /\ EalTypeOK /\ ReplyTypeOK /\ ChargeInv
      /\ LeadsInv /\ DecisionInv /\ RequestInv /\ TaskInv /\ EalInv /\ DbInv /\ WaitInv /\ AnswersAreCommitted /\ AssertionsHold
  BY Zenon DEF PipelineInv
<1>1. Refreshed = [term |-> currentTerm, leader |-> IsLeader]
  BY Zenon DEF Refreshed, Leads
<1>2. Refreshed.term = currentTerm /\ Refreshed.leader = IsLeader
  BY <1>1
<1>3. /\ mLastCheckedTerm \in Nat /\ currentTerm \in Nat /\ mLastCheckedTerm <= currentTerm /\ currentTerm >= mLastCheckedTerm
      /\ mLastCheckedRole \in BOOLEAN /\ IsLeader \in BOOLEAN
  BY <1>0 DEF CplTypeOK, RaftTypeOK, IsLeader
<1>4. /\ pc = "detect"
      /\ mLastCheckedTerm' = currentTerm /\ mLastCheckedRole' = IsLeader
      /\ UNCHANGED <<command, arrived, mLastCommandId, cplState, read, mPersistQueue, replyQueue, replier,
                     raftVars, ealVars, clientRequests>>
  BY <1>2 DEF DetectTransition, notCpl
<1>5. assertion' = assertion
  BY Zenon, <1>2, <1>3 DEF DetectTransition, Asserts, Leads
<1>6. /\ IsLeader => pc' = "wait" /\ answer' = answer
      /\ ~IsLeader => pc' = "dequeue" /\ Answer(command, "301", <<>>)
  <2>1. ~(currentTerm = mLastCheckedTerm /\ mLastCheckedRole)
    BY Zenon DEF Leads
  <2> HIDE DEF Leads, IsLeader
  <2> QED
    BY <1>2, <1>3, <2>1 DEF DetectTransition
<1>7. command \in Cmds
  BY <1>0, <1>4 DEF CplTypeOK
<1>8. /\ currentTerm' = currentTerm /\ role' = role /\ log' = log /\ commitIndex' = commitIndex /\ Logs' = Logs
      /\ RaftTypeOK' /\ RaftInv' /\ DecidedInv'
      /\ \A s, i, t : Speaks(s, i, t)' <=> Speaks(s, i, t)
      /\ \A t : OnlyNoops(t)' <=> OnlyNoops(t)
  BY Zenon, <1>4, RaftStays
<1>9. EalTypeOK' /\ EalInv' /\ DbInv'
  BY Zenon, <1>4, EalSame
<1>10. QueueTypeOK' /\ Requests' = Requests /\ Tasks' = Tasks
  <2>1. UNCHANGED queueVars
    BY Zenon, <1>4 DEF queueVars
  <2> QED
    BY Zenon, <1>4, <2>1, QueuesStay, TasksStay
<1>11. ReplyTypeOK' /\ AnswersAreCommitted'
  <2>1. CASE IsLeader
    <3>1. UNCHANGED replyVars
      BY Zenon, <1>4, <1>6, <2>1 DEF replyVars
    <3> QED
      BY Zenon, <1>4, <3>1, RepliesStay
  <2>2. CASE ~IsLeader
    BY Zenon, <1>4, <1>6, <1>7, <2>2, TurnedAway
  <2> QED
    BY Zenon, <2>1, <2>2
<1>12. pc' \in {"wait", "dequeue"}
  BY Zenon, <1>6
<1>13. CplTypeOK'
  <2>1. pc' \in {"dequeue", "detect", "wait", "waitLast", "waitCommit", "waitLoaded", "waitApplied",
                "swap", "process", "persist"}
    BY <1>12
  <2>2. mLastCheckedTerm' \in 0..currentTerm'
    BY <1>3, <1>4, <1>8
  <2> QED
    BY Zenon, <1>0, <1>3, <1>4, <1>7, <1>8, <2>1, <2>2 DEF CplTypeOK
<1>14. ~InCharge
  BY Zenon DEF InCharge
<1>15. ~InCharge'
  <2>1. IsLeader => ~OutOfWait'
    BY <1>6 DEF OutOfWait
  <2> QED
    BY Zenon, <1>4, <2>1 DEF InCharge, Leads
<1>16. LeadsInv'
  <2>1. IsLeader => role # "Other"
    BY DEF IsLeader
  <2>2. role # "Other" => OnlyNoops(currentTerm)
    BY Zenon, <1>0, <1>14 DEF LeadsInv
  <2>3. Leads' => role' # "Other"
    BY Zenon, <1>4, <1>8, <2>1 DEF Leads
  <2>4. pc' \notin {"dequeue", "detect"} => mLastCheckedRole'
    BY Zenon, <1>4, <1>6
  <2>5. ~OutOfWait' => IsLeader
    BY <1>6 DEF OutOfWait
  <2>6. ~OutOfWait' => OnlyNoops(currentTerm)
    BY Zenon, <2>1, <2>2, <2>5
  <2>7. OnlyNoops(currentTerm)' <=> OnlyNoops(currentTerm)
    BY Zenon, <1>8 DEF OnlyNoops
  <2>8. OnlyNoops(mLastCheckedTerm)' <=> OnlyNoops(currentTerm)
    BY Zenon, <1>4, <1>8 DEF OnlyNoops
  <2> QED
    BY Zenon, <1>8, <2>2, <2>3, <2>4, <2>6, <2>7, <2>8 DEF LeadsInv
<1>17. ChargeInv' /\ DecisionInv'
  <2>1. pc' # "process" /\ pc' # "persist" /\ pc' \notin {"process", "persist"}
    BY <1>12
  <2> QED
    BY Zenon, <1>15, <2>1 DEF ChargeInv, DecisionInv
<1>18. ASSUME NEW t \in Nat, t <= mLastCheckedTerm, t = mLastCheckedTerm => mLastCheckedRole
       PROVE  t <= mLastCheckedTerm' /\ t # mLastCheckedTerm'
  BY <1>3, <1>4, <1>18 DEF Leads
<1>19. RequestInv'
  <2>1. ASSUME NEW r \in Requests PROVE r.term <= mLastCheckedTerm' /\ r.term # mLastCheckedTerm'
    <3>1. r.term \in Nat
      BY Zenon, <1>0, RequestTypes, RequestFields
    <3>2. r.term <= mLastCheckedTerm /\ (r.term = mLastCheckedTerm => mLastCheckedRole)
      BY Zenon, <1>0 DEF RequestInv
    <3> QED
      BY Zenon, <1>18, <3>1, <3>2
  <2> QED
    BY Zenon, <1>10, <2>1 DEF RequestInv
<1>20. TaskInv'
  <2>1. ASSUME NEW x \in Tasks PROVE x.term <= mLastCheckedTerm' /\ x.term # mLastCheckedTerm'
    <3>1. x.term \in Nat
      <4>1. x \in Task
        BY Zenon, <1>0, TaskTypes
      <4> QED
        BY <4>1 DEF Task
    <3>2. x.term <= mLastCheckedTerm /\ (x.term = mLastCheckedTerm => mLastCheckedRole)
      BY Zenon, <1>0 DEF TaskInv
    <3> QED
      BY Zenon, <1>18, <3>1, <3>2
  <2> QED
    BY Zenon, <1>0, <1>8, <1>10, <2>1 DEF TaskInv, Speaks, Committed, HasTerm
<1>21. WaitInv'
  BY <1>12 DEF WaitInv
<1>22. AssertionsHold'
  BY Zenon, <1>0, <1>5 DEF AssertionsHold
<1> QED
  BY Zenon, <1>8, <1>9, <1>10, <1>11, <1>13, <1>16, <1>17, <1>19, <1>20, <1>21, <1>22 DEF PipelineInv

\* waitTillLeaderIsReadyOrStepDown looks at the term.
LEMMA WaitTermKeeps ==
  ASSUME Counting, PipelineInv, WaitTerm
  PROVE  PipelineInv'
<1>1. /\ pc = "wait" /\ read' = <<>>
      /\ UNCHANGED <<raftVars, ealVars, queueVars, replyQueue, replier, mLastCheckedTerm, mLastCheckedRole, mLastCommandId,
                     cplState, command, arrived, assertion>>
  BY Zenon DEF WaitTerm, notCpl, queueVars
<1>2. CplTypeOK /\ WaitInv /\ AssertionsHold /\ LeadsInv
  BY Zenon DEF PipelineInv
<1>3. command \in Cmds /\ mLastCheckedRole
  BY <1>1, <1>2 DEF CplTypeOK, LeadsInv
<1>4. /\ currentTerm = mLastCheckedTerm => pc' = "waitLast" /\ answer' = answer
      /\ currentTerm # mLastCheckedTerm => pc' = "dequeue" /\ Answer(command, "301", <<>>)
  BY Zenon DEF WaitTerm
<1>5. ReplyTypeOK' /\ AnswersAreCommitted'
  <2>1. CASE currentTerm = mLastCheckedTerm
    <3>1. UNCHANGED replyVars
      BY Zenon, <1>1, <1>4, <2>1 DEF replyVars
    <3> QED
      BY Zenon, <1>1, <3>1, RepliesStay
  <2>2. CASE currentTerm # mLastCheckedTerm
    BY Zenon, <1>1, <1>3, <1>4, <2>2, TurnedAway
  <2> QED
    BY Zenon, <2>1, <2>2
<1>6. currentTerm' = currentTerm
  BY Zenon, <1>1, RaftStays
<1>7. /\ pc' \in {"dequeue", "detect", "wait", "waitLast", "waitCommit", "waitLoaded", "waitApplied",
                 "swap", "process", "persist"}
      /\ read' \in Seq(Nat) /\ pc' \notin {"process", "persist"} /\ ~OutOfWait
      /\ currentTerm = mLastCheckedTerm => ~OutOfWait'
  BY <1>1, <1>4 DEF OutOfWait
<1>8. CplTypeOK'
  BY Zenon, <1>1, <1>2, <1>3, <1>6, <1>7 DEF CplTypeOK
<1>9. Leads => OutOfWait' = OutOfWait
  BY <1>7 DEF Leads, OutOfWait
<1>10. WaitInv'
  BY <1>1, <1>4 DEF WaitInv
<1>11. AssertionsHold'
  BY Zenon, <1>1, <1>2 DEF AssertionsHold
<1> QED
  BY Zenon, <1>1, <1>3, <1>5, <1>7, <1>8, <1>9, <1>10, <1>11, MoveKeeps

\* ... and reads a value,
LEMMA WaitReadsKeep ==
  ASSUME Counting, PipelineInv,
         \/ WaitRead("waitLast", Len(log), "waitCommit")
         \/ WaitRead("waitCommit", commitIndex, "waitLoaded")
         \/ WaitRead("waitLoaded", mLoadedIndex, "waitApplied")
  PROVE  PipelineInv'
<1>0. CplTypeOK /\ WaitInv /\ AssertionsHold /\ LeadsInv /\ RaftTypeOK /\ EalTypeOK
  BY Zenon DEF PipelineInv
<1>1. PICK from, value, to :
        /\ WaitRead(from, value, to)
        /\ \/ from = "waitLast" /\ value = Len(log) /\ to = "waitCommit"
           \/ from = "waitCommit" /\ value = commitIndex /\ to = "waitLoaded"
           \/ from = "waitLoaded" /\ value = mLoadedIndex /\ to = "waitApplied"
  BY Zenon
<1>2. /\ pc = from /\ pc' = to /\ read' = Append(read, value)
      /\ UNCHANGED <<raftVars, ealVars, queueVars, replyVars, mLastCheckedTerm, mLastCheckedRole, mLastCommandId, cplState,
                     command, arrived, assertion>>
  BY Zenon, <1>1 DEF WaitRead, notCpl, queueVars
<1>3. value \in Nat /\ read \in Seq(Nat) /\ commitIndex \in Nat /\ mLoadedIndex \in Nat
  BY <1>0, <1>1 DEF RaftTypeOK, EalTypeOK, CplTypeOK
<1>4. /\ read' \in Seq(Nat) /\ Len(read') = Len(read) + 1 /\ read'[Len(read) + 1] = value
      /\ \A k \in 1..Len(read) : read'[k] = read[k]
  BY <1>2, <1>3
<1>5. ReplyTypeOK' /\ AnswersAreCommitted'
  BY Zenon, <1>2, RepliesStay
<1>6. UNCHANGED <<replyQueue, replier>>
  BY Zenon, <1>2 DEF replyVars
<1>7. currentTerm' = currentTerm /\ commitIndex' = commitIndex /\ mLoadedIndex' = mLoadedIndex
  BY Zenon, <1>2, RaftStays, EalSame
<1>8. command \in Cmds /\ mLastCheckedRole
  BY <1>0, <1>1, <1>2 DEF CplTypeOK, LeadsInv
<1>9. /\ pc' \in {"dequeue", "detect", "wait", "waitLast", "waitCommit", "waitLoaded", "waitApplied",
                  "swap", "process", "persist"}
      /\ pc' \notin {"process", "persist"} /\ ~OutOfWait /\ ~OutOfWait'
  BY <1>1, <1>2 DEF OutOfWait
<1>10. CplTypeOK'
  BY Zenon, <1>0, <1>2, <1>4, <1>7, <1>8, <1>9 DEF CplTypeOK
<1>11. WaitInv'
  <2>1. CASE from = "waitLast" /\ to = "waitCommit"
    <3>1. Len(read) = 0
      BY <1>0, <1>2, <2>1 DEF WaitInv
    <3>2. Len(read') = 1
      BY <1>4, <3>1
    <3> QED
      BY <1>2, <2>1, <3>2 DEF WaitInv
  <2>2. CASE from = "waitCommit" /\ value = commitIndex /\ to = "waitLoaded"
    <3>1. Len(read) = 1
      BY <1>0, <1>2, <2>2 DEF WaitInv
    <3>2. Len(read') = 2 /\ read'[2] <= commitIndex'
      BY <1>3, <1>4, <1>7, <2>2, <3>1
    <3> QED
      BY <1>2, <2>2, <3>2 DEF WaitInv
  <2>3. CASE from = "waitLoaded" /\ value = mLoadedIndex /\ to = "waitApplied"
    <3>1. Len(read) = 2 /\ read[2] <= commitIndex
      BY <1>0, <1>2, <2>3 DEF WaitInv
    <3>2. Len(read') = 3 /\ read'[2] <= commitIndex' /\ read'[3] <= mLoadedIndex'
      BY <1>3, <1>4, <1>7, <2>3, <3>1
    <3> QED
      BY <1>2, <2>3, <3>2 DEF WaitInv
  <2> QED
    BY Zenon, <1>1, <2>1, <2>2, <2>3
<1>12. AssertionsHold'
  BY Zenon, <1>0, <1>2 DEF AssertionsHold
<1>13. OutOfWait' = OutOfWait
  BY <1>9 DEF OutOfWait
<1> QED
  BY Zenon, <1>2, <1>5, <1>6, <1>8, <1>9, <1>10, <1>11, <1>12, <1>13, MoveKeeps


\* The EAL holds committed state, and all that the reader calls applied.
LEMMA EalIsCommitted ==
  ASSUME RaftTypeOK, EalTypeOK, EalInv, ~mShouldRecover
  PROVE  \E n \in mAppliedIndex..commitIndex : ealState = StateAt(log, n)
<1> DEFINE n == IF ealPc = "apply" THEN AppliedUpTo - 1 ELSE AppliedUpTo
<1>1. ealState = StateAt(log, n)
  BY Zenon DEF EalInv
<1>2. /\ mApplyingIndex \in Nat /\ mAppliedIndex \in Nat /\ mLoadedIndex \in Nat /\ commitIndex \in Nat
      /\ mLoadedIndex <= commitIndex /\ AppliedUpTo <= HeldUpTo /\ HeldUpTo <= mLoadedIndex
      /\ ealPc = "apply" => mApplyingIndex > mAppliedIndex
  BY DEF EalTypeOK, RaftTypeOK, EalInv
<1>3. HeldUpTo \in Int
  <2>1. mTaskQueue # <<>> => Head(mTaskQueue) \in Loaded
    BY DEF EalTypeOK
  <2>2. mTaskQueue # <<>> => Head(mTaskQueue).from \in Nat
    BY <2>1 DEF Loaded
  <2> QED
    BY <1>2, <2>2 DEF HeldUpTo
<1>4. n \in mAppliedIndex..commitIndex
  BY <1>2, <1>3 DEF AppliedUpTo
<1> QED
  BY Zenon, <1>1, <1>4

\* ... and decides whether the EAL has applied all there is.
LEMMA WaitAppliedKeeps ==
  ASSUME Counting, PipelineInv, WaitApplied
  PROVE  PipelineInv'
<1> DEFINE last == read[1]
           ready == read[3] = read[2] /\ read[2] = last /\ OnlyNoopsLeft(mAppliedIndex, last)
<1>0. CplTypeOK /\ WaitInv /\ AssertionsHold /\ LeadsInv /\ RaftTypeOK /\ EalTypeOK /\ EalInv
  BY Zenon DEF PipelineInv
<1>1. /\ pc = "waitApplied" /\ pc' = IF ready THEN "swap" ELSE "wait"
      /\ mLastCommandId' = IF ready THEN last ELSE mLastCommandId
      /\ Asserts(read[3] = read[2] /\ read[2] = last => last <= Len(log), "getEntry")
      /\ read' = <<>>
      /\ UNCHANGED <<raftVars, ealVars, queueVars, replyVars, mLastCheckedTerm, mLastCheckedRole, cplState, command, arrived>>
  BY Zenon DEF WaitApplied, notCpl, queueVars
<1>2. /\ read \in Seq(Nat) /\ Len(read) = 3 /\ read[2] <= commitIndex /\ read[3] <= mLoadedIndex
  BY Zenon, <1>0, <1>1 DEF WaitInv, CplTypeOK
<1>3. /\ read[1] \in Nat /\ read[2] \in Nat /\ read[3] \in Nat /\ commitIndex \in Nat /\ Len(log) \in Nat
      /\ commitIndex <= Len(log) /\ mLoadedIndex \in Nat /\ mAppliedIndex \in Nat /\ mLastCommandId \in Nat
  <2>1. read[1] \in Nat /\ read[2] \in Nat /\ read[3] \in Nat
    <3>1. \A f \in Seq(Nat) : \A k \in 1..Len(f) : f[k] \in Nat
      OBVIOUS
    <3>2. 1 \in 1..3 /\ 2 \in 1..3 /\ 3 \in 1..3
      OBVIOUS
    <3> QED
      BY Zenon, <1>2, <3>1, <3>2
  <2> QED
    BY <1>0, <2>1 DEF RaftTypeOK, EalTypeOK, CplTypeOK
<1> HIDE DEF last, ready
<1>4. read[3] = read[2] /\ read[2] = last => last <= Len(log)
  BY <1>2, <1>3
<1>5. assertion' = assertion
  BY Zenon, <1>1, <1>4 DEF Asserts
<1>6. ReplyTypeOK' /\ AnswersAreCommitted'
  BY Zenon, <1>1, RepliesStay
<1>7. UNCHANGED <<replyQueue, replier>>
  BY Zenon, <1>1 DEF replyVars
<1>8. /\ currentTerm' = currentTerm /\ commitIndex' = commitIndex /\ log' = log
      /\ mShouldRecover' = mShouldRecover /\ ealState' = ealState
  BY Zenon, <1>1, RaftStays, EalSame
<1>9. command \in Cmds /\ mLastCheckedRole
  BY <1>0, <1>1 DEF CplTypeOK, LeadsInv
<1>10. /\ pc' \in {"dequeue", "detect", "wait", "waitLast", "waitCommit", "waitLoaded", "waitApplied",
                  "swap", "process", "persist"}
       /\ pc' \notin {"process", "persist"} /\ ~OutOfWait /\ ~OutOfWait'
  BY <1>1 DEF OutOfWait
<1>11. mLastCommandId' \in Nat /\ read' \in Seq(Nat)
  BY <1>1, <1>3 DEF last
<1>12. CplTypeOK'
  BY Zenon, <1>0, <1>1, <1>8, <1>9, <1>10, <1>11 DEF CplTypeOK
<1>13. ASSUME ready
       PROVE  /\ ~mShouldRecover /\ last \in 1..commitIndex /\ log[last].term = mLastCheckedTerm
              /\ IsPrefix(StateAt(log, last), ealState)
  <2>1. /\ read[3] = read[2] /\ read[2] = last /\ mAppliedIndex < last /\ log[last].term = mLastCheckedTerm
        /\ \A i \in (mAppliedIndex + 1)..last : log[i].noop
    BY Zenon, <1>13 DEF ready, OnlyNoopsLeft
  <2>2. last \in 1..commitIndex /\ last \in 0..Len(log) /\ mAppliedIndex <= last /\ last \in Nat
    BY <1>2, <1>3, <2>1 DEF last
  <2>3. ~mShouldRecover
    <3>1. mShouldRecover => mLoadedIndex = 0
      BY Zenon, <1>0 DEF EalInv
    <3> QED
      BY <1>2, <1>3, <2>1, <2>2, <3>1
  <2>4. log \in Seq(Entry)
    BY Zenon, <1>0 DEF RaftTypeOK
  <2>5. StateAt(log, last) = StateAt(log, mAppliedIndex)
    BY Zenon, <1>3, <2>1, <2>2, <2>4, StateOverNoops
  <2>6. PICK n \in mAppliedIndex..commitIndex : ealState = StateAt(log, n)
    BY Zenon, <1>0, <2>3, EalIsCommitted
  <2>7. n \in 0..Len(log) /\ mAppliedIndex <= n
    BY <1>3
  <2>8. IsPrefix(StateAt(log, mAppliedIndex), StateAt(log, n))
    BY Zenon, <1>3, <2>4, <2>7, StatesGrow
  <2> QED
    BY Zenon, <2>1, <2>2, <2>3, <2>5, <2>6, <2>8
<1>14. WaitInv'
  <2>1. CASE ready
    <3>1. pc' = "swap" /\ mLastCommandId' = last
      BY Zenon, <1>1, <2>1
    <3>2. /\ ~mShouldRecover' /\ mLastCommandId' \in 1..commitIndex' /\ log'[mLastCommandId'].term = mLastCheckedTerm'
          /\ IsPrefix(StateAt(log', mLastCommandId'), ealState')
      BY Zenon, <1>1, <1>8, <1>13, <2>1, <3>1
    <3> QED
      BY <3>1, <3>2 DEF WaitInv
  <2>2. CASE ~ready
    <3>1. pc' = "wait"
      BY Zenon, <1>1, <2>2
    <3> QED
      BY <3>1 DEF WaitInv
  <2> QED
    BY Zenon, <2>1, <2>2
<1>15. AssertionsHold'
  BY Zenon, <1>0, <1>5 DEF AssertionsHold
<1>16. OutOfWait' = OutOfWait
  BY <1>10 DEF OutOfWait
<1> QED
  BY Zenon, <1>1, <1>6, <1>7, <1>9, <1>10, <1>12, <1>14, <1>15, <1>16, MoveKeeps

\* swapStateAndTeardown: the CPL takes over what the EAL has applied.
LEMMA SwapKeeps ==
  ASSUME Counting, PipelineInv, SwapStateAndTeardown
  PROVE  PipelineInv'
<1> DEFINE N == mLastCommandId
<1>0. /\ RaftTypeOK /\ RaftInv /\ DecidedInv /\ QueueTypeOK /\ CplTypeOK /\ EalTypeOK /\ ReplyTypeOK /\ ChargeInv
      /\ LeadsInv /\ DecisionInv /\ RequestInv /\ TaskInv /\ EalInv /\ DbInv /\ WaitInv /\ AnswersAreCommitted /\ AssertionsHold
  BY Zenon DEF PipelineInv
<1>1. /\ pc = "swap" /\ ealPc = "idle" /\ ealPc' = ealPc /\ cplState' = ealState /\ ealState' = cplState /\ dbState' = ealState
      /\ mLoadedIndex' = 0 /\ mAppliedIndex' = 0 /\ mApplyingIndex' = 0 /\ mTaskQueue' = <<>> /\ mCachedBundles' = <<>>
      /\ mShouldRecover' = TRUE /\ pc' = "process"
      /\ UNCHANGED <<command, arrived, mLastCheckedTerm, mLastCheckedRole, mLastCommandId, read,
                     raftVars, queueVars, replyVars, assertion>>
  BY Zenon DEF SwapStateAndTeardown, Teardown
<1>2. /\ currentTerm' = currentTerm /\ role' = role /\ log' = log /\ commitIndex' = commitIndex /\ Logs' = Logs
      /\ RaftTypeOK' /\ RaftInv' /\ DecidedInv'
      /\ \A s, i, t : Speaks(s, i, t)' <=> Speaks(s, i, t)
      /\ \A t : OnlyNoops(t)' <=> OnlyNoops(t)
  BY Zenon, <1>1, RaftStays
<1>3. QueueTypeOK' /\ Requests' = Requests /\ Tasks' = Tasks /\ ReplyTypeOK' /\ AnswersAreCommitted'
  BY Zenon, <1>1, QueuesStay, RepliesStay
<1>4. /\ ~OutOfWait /\ ~InCharge /\ OutOfWait'
      /\ pc' \in {"dequeue", "detect", "wait", "waitLast", "waitCommit", "waitLoaded", "waitApplied",
                  "swap", "process", "persist"}
      /\ pc' # "persist" /\ pc \notin {"dequeue", "detect"}
  BY <1>1 DEF OutOfWait, InCharge
<1>5. Leads' = Leads /\ InCharge' = Leads
  BY Zenon, <1>1, <1>2, <1>4 DEF Leads, InCharge
<1>6. /\ ~mShouldRecover /\ N \in 1..commitIndex /\ log[N].term = mLastCheckedTerm
      /\ IsPrefix(StateAt(log, N), ealState)
  BY Zenon, <1>0, <1>1 DEF WaitInv
<1>7. command \in Cmds /\ mLastCheckedRole /\ OnlyNoops(mLastCheckedTerm)
  BY Zenon, <1>0, <1>1, <1>4 DEF CplTypeOK, LeadsInv
<1>8. /\ log \in Seq(Entry) /\ commitIndex \in Nat /\ Len(log) \in Nat /\ commitIndex <= Len(log) /\ N \in Nat
      /\ N \in DOMAIN log /\ Len(log) \in DOMAIN log /\ N <= Len(log) /\ mAppliedIndex \in Nat
      /\ ealState \in States /\ cplState \in States /\ commitIndex \in 0..Len(log)
  BY <1>0, <1>6 DEF RaftTypeOK, EalTypeOK, CplTypeOK
<1>9. PICK A \in mAppliedIndex..commitIndex : ealState = StateAt(log, A)
  BY Zenon, <1>0, <1>6, EalIsCommitted
<1>10. A \in 0..Len(log) /\ A \in Nat /\ A <= commitIndex /\ A <= Len(log)
  BY <1>8
<1>11. CplTypeOK'
  BY Zenon, <1>0, <1>1, <1>2, <1>4, <1>7, <1>8 DEF CplTypeOK
<1>12. EalTypeOK'
  <2>1. /\ mLoadedIndex' \in Nat /\ mAppliedIndex' \in Nat /\ mApplyingIndex' \in Nat
        /\ mTaskQueue' \in Seq(Loaded) /\ mCachedBundles' \in Seq(Nat) /\ mShouldRecover' \in BOOLEAN
    BY <1>1
  <2> QED
    BY Zenon, <1>0, <1>1, <1>8, <2>1 DEF EalTypeOK
<1>13. EalInv'
  <2>1. AppliedUpTo' = 0 /\ HeldUpTo' = 0
    BY <1>1 DEF AppliedUpTo, HeldUpTo
  <2>2. DOMAIN mTaskQueue' = {} /\ DOMAIN mCachedBundles' = {} /\ (AppliedUpTo' + 1)..HeldUpTo' = {}
    BY <1>1, <2>1
  <2>3. /\ mLoadedIndex' <= commitIndex' /\ AppliedUpTo' <= HeldUpTo' /\ HeldUpTo' <= mLoadedIndex'
        /\ ~(mApplyingIndex' > mAppliedIndex') /\ ealPc' # "apply"
    BY <1>1, <1>2, <1>8, <2>1
  <2> HIDE DEF AppliedUpTo, HeldUpTo
  <2>4. \A k \in DOMAIN mTaskQueue' : FALSE
    BY Zenon, <2>2
  <2>5. \A k \in DOMAIN mCachedBundles' : FALSE
    BY Zenon, <2>2
  <2>6. \A k \in (AppliedUpTo' + 1)..HeldUpTo' : FALSE
    BY Zenon, <2>2
  <2> QED
    BY Zenon, <1>1, <2>3, <2>4, <2>5, <2>6 DEF EalInv
<1>14. DbInv'
  <2>1. /\ LastApplied(StateAt(log, A)) \in 0..A
        /\ StateAt(log, LastApplied(StateAt(log, A))) = StateAt(log, A)
    BY Zenon, <1>8, <1>10, StateAtFacts
  <2>2. LastApplied(ealState) <= commitIndex
    BY <1>8, <1>9, <1>10, <2>1
  <2> QED
    BY Zenon, <1>1, <1>2, <1>9, <2>1, <2>2 DEF DbInv, LastApplied
<1>15. LeadsInv'
  BY Zenon, <1>0, <1>1, <1>2, <1>4, <1>5, <1>7 DEF LeadsInv, InCharge
<1>16. log \in Logs
  BY Zenon DEF Logs
<1>17. ASSUME NEW l \in Logs, NEW i \in DOMAIN l, l[i].term = mLastCheckedTerm PROVE i = N
  <2>1. l[i].noop /\ log[N].noop
    BY Zenon, <1>6, <1>7, <1>8, <1>16, <1>17 DEF OnlyNoops
  <2> QED
    BY Zenon, <1>0, <1>6, <1>8, <1>16, <1>17, <2>1 DEF RaftInv
<1>18. ChargeInv'
  <2>1. ASSUME Leads
        PROVE  role # "Elected" /\ Len(log) = N /\ Speculates'
    <3>1. currentTerm = mLastCheckedTerm
      BY Zenon, <2>1 DEF Leads
    <3>2. role # "Elected"
      BY Zenon, <1>0, <1>6, <1>8, <3>1 DEF RaftInv, HasEntryOfTerm
    <3>3. log[Len(log)].term = currentTerm
      <4>1. log[N].term <= log[Len(log)].term /\ log[Len(log)].term \in 1..currentTerm /\ currentTerm \in Nat
        BY Zenon, <1>0, <1>8, <1>16 DEF RaftInv, RaftTypeOK
      <4> QED
        BY <1>6, <3>1, <4>1
    <3>4. Len(log) = N
      BY Zenon, <1>8, <1>16, <1>17, <3>1, <3>3
    <3>5. Len(log) \in 0..Len(log)
      BY <1>8
    <3> DEFINE s == StateAt(log, Len(log))
    <3>6. s \in States /\ IsPrefix(s, ealState) /\ IsPrefix(ealState, s)
      BY Zenon, <1>6, <1>8, <1>9, <1>10, <3>4, <3>5, StateAtFacts, StatesGrow
    <3> HIDE DEF s
    <3>7. Len(s) \in Nat /\ Len(ealState) \in Nat /\ Len(s) = Len(ealState)
      <4>1. Len(s) \in Nat /\ Len(ealState) \in Nat /\ Len(s) <= Len(ealState) /\ Len(ealState) <= Len(s)
        BY Zenon, <1>8, <3>6, StatesLen DEF IsPrefix
      <4> QED
        BY <4>1
    <3>8. /\ Misses(s, ealState, N - Len(log))
          /\ \A k \in (Len(s) + 1)..Len(ealState) : FALSE
      <4>1. Len(ealState) = Len(s) + (N - Len(log))
        BY <1>8, <3>4, <3>7
      <4>2. \A k \in (Len(s) + 1)..Len(ealState) : FALSE
        BY <3>7
      <4> QED
        BY Zenon, <3>6, <4>1, <4>2 DEF Misses
    <3>9. Speculates'
      BY Zenon, <1>1, <1>2, <3>8 DEF Speculates, Misses, IsPrefix, s
    <3> QED
      BY Zenon, <3>2, <3>4, <3>9
  <2>2. N <= N
    BY <1>8
  <2> QED
    BY Zenon, <1>1, <1>2, <1>4, <1>5, <1>17, <2>1, <2>2 DEF ChargeInv
<1>19. DecisionInv'
  <2>1. IsPrefix(ealState, StateAt(log, commitIndex))
    BY Zenon, <1>8, <1>9, <1>10, StatesGrow
  <2> QED
    BY Zenon, <1>1, <1>2, <1>4, <2>1 DEF DecisionInv, Speaks, Committed, IsPrefix
<1>20. RequestInv'
  BY Zenon, <1>0, <1>1, <1>3, <1>4 DEF RequestInv
<1>21. TaskInv'
  BY Zenon, <1>0, <1>1, <1>2, <1>3, <1>4 DEF TaskInv, Speaks, Committed, HasTerm
<1>22. WaitInv'
  BY <1>1 DEF WaitInv
<1>23. AssertionsHold'
  BY Zenon, <1>0, <1>1 DEF AssertionsHold
<1> QED
  BY Zenon, <1>2, <1>3, <1>11, <1>12, <1>13, <1>14, <1>15, <1>18, <1>19, <1>20, <1>21, <1>22, <1>23 DEF PipelineInv


\* A task in the queue of the reply loop
LEMMA PushedTask ==
  ASSUME PipelineInv, NEW x \in Task, replyQueue' = Append(replyQueue, x), UNCHANGED <<raftVars, replier, answer>>
  PROVE  ReplyTypeOK' /\ AnswersAreCommitted' /\ Tasks' = Tasks \cup {x}
<1>1. ReplyTypeOK /\ AnswersAreCommitted
  BY Zenon DEF PipelineInv
<1>2. Holders' = Holders
  BY Zenon DEF Holders
<1>3. /\ replyQueue \in Seq(Task) /\ Append(replyQueue, x) \in Seq(Task) /\ Len(replyQueue) \in Nat
      /\ DOMAIN Append(replyQueue, x) = 1..(Len(replyQueue) + 1) /\ DOMAIN replyQueue = 1..Len(replyQueue)
      /\ Append(replyQueue, x)[Len(replyQueue) + 1] = x
      /\ \A k \in 1..Len(replyQueue) : Append(replyQueue, x)[k] = replyQueue[k]
  BY <1>1 DEF ReplyTypeOK
<1>4. ReplyTypeOK'
  BY Zenon, <1>1, <1>2, <1>3 DEF ReplyTypeOK
<1>5. AnswersAreCommitted'
  BY Zenon, <1>1, RaftStays DEF AnswersAreCommitted
<1>6. \A k \in 1..(Len(replyQueue) + 1) : k \in 1..Len(replyQueue) \/ k = Len(replyQueue) + 1
  BY <1>3
<1>7. \A k \in 1..Len(replyQueue) : k \in 1..(Len(replyQueue) + 1)
  BY <1>3
<1>8. Len(replyQueue) + 1 \in 1..(Len(replyQueue) + 1)
  BY <1>3
<1> DEFINE Q == {replyQueue[k] : k \in DOMAIN replyQueue}
           R == {replyQueue'[k] : k \in DOMAIN replyQueue'}
<1>9. R = Q \cup {x}
  <2>1. ASSUME NEW y \in R PROVE y \in Q \cup {x}
    <3>1. PICK k \in DOMAIN replyQueue' : y = replyQueue'[k]
      BY Zenon
    <3>2. k \in 1..Len(replyQueue) \/ k = Len(replyQueue) + 1
      BY Zenon, <1>3, <1>6
    <3> QED
      BY Zenon, <1>3, <3>1, <3>2
  <2>2. ASSUME NEW y \in Q \cup {x} PROVE y \in R
    <3>1. CASE y = x
      BY Zenon, <1>3, <1>8, <3>1
    <3>2. CASE y \in Q
      <4>1. PICK k \in DOMAIN replyQueue : y = replyQueue[k]
        BY Zenon, <3>2
      <4>2. k \in DOMAIN replyQueue' /\ y = replyQueue'[k]
        BY Zenon, <1>3, <1>7, <4>1
      <4> QED
        BY Zenon, <4>2
    <3> QED
      BY Zenon, <3>1, <3>2
  <2> HIDE DEF Q, R
  <2> QED
    BY Zenon, <2>1, <2>2
<1>10. Tasks' = R \cup {replier[t].task : t \in Holders} /\ Tasks = Q \cup {replier[t].task : t \in Holders}
  BY Zenon, <1>2 DEF Tasks
<1>11. Tasks' = Tasks \cup {x}
  <2> HIDE DEF Q, R
  <2> QED
    BY <1>9, <1>10
<1> QED
  BY Zenon, <1>4, <1>5, <1>11

\* A command without events: its task waits for the last entry before it.
LEMMA ProcessRefusedKeeps ==
  ASSUME Counting, PipelineInv, ProcessRefused
  PROVE  PipelineInv'
<1> DEFINE N == mLastCommandId
           x == [index |-> mLastCommandId, term |-> mLastCheckedTerm, cmd |-> command, code |-> "refused", base |-> cplState,
                 flag |-> 0]
<1>0. /\ RaftTypeOK /\ RaftInv /\ DecidedInv /\ QueueTypeOK /\ CplTypeOK /\ EalTypeOK /\ ReplyTypeOK /\ ChargeInv
      /\ LeadsInv /\ DecisionInv /\ RequestInv /\ TaskInv /\ EalInv /\ DbInv /\ WaitInv /\ AnswersAreCommitted /\ AssertionsHold
  BY Zenon DEF PipelineInv
<1>1. /\ pc = "process" /\ replyQueue' = Append(replyQueue, x) /\ pc' = "dequeue"
      /\ UNCHANGED <<command, arrived, mLastCheckedTerm, mLastCheckedRole, mLastCommandId, cplState, read,
                     replier, answer, raftVars, ealVars, queueVars, assertion>>
  BY Zenon DEF ProcessRefused, PushTask, notCpl, queueVars
<1>2. /\ currentTerm' = currentTerm /\ role' = role /\ log' = log /\ commitIndex' = commitIndex /\ Logs' = Logs
      /\ RaftTypeOK' /\ RaftInv' /\ DecidedInv'
      /\ \A s, i, t : Speaks(s, i, t)' <=> Speaks(s, i, t)
      /\ \A t : OnlyNoops(t)' <=> OnlyNoops(t)
  BY Zenon, <1>1, RaftStays
<1>3. EalTypeOK' /\ EalInv' /\ DbInv' /\ QueueTypeOK' /\ Requests' = Requests
  BY Zenon, <1>1, EalSame, QueuesStay
<1>4. /\ command \in Cmds /\ mLastCheckedTerm \in Nat /\ N \in Nat /\ cplState \in States /\ mLastCheckedRole
      /\ mLastCheckedTerm <= mLastCheckedTerm /\ N <= N
  BY <1>0, <1>1 DEF CplTypeOK, RaftTypeOK, LeadsInv
<1>5. x \in Task
  BY <1>4 DEF Task
<1>6. /\ x.index = N /\ x.term = mLastCheckedTerm /\ x.cmd = command /\ x.code = "refused" /\ x.base = cplState
      /\ x.code # "200"
  OBVIOUS
<1> HIDE DEF x
<1>7. ReplyTypeOK' /\ AnswersAreCommitted' /\ Tasks' = Tasks \cup {x}
  BY Zenon, <1>1, <1>5, PushedTask
<1>8. /\ OutOfWait /\ OutOfWait' /\ pc' # "persist" /\ pc' # "process" /\ pc' \notin {"process", "persist"}
      /\ pc' \in {"dequeue", "detect", "wait", "waitLast", "waitCommit", "waitLoaded", "waitApplied",
                  "swap", "process", "persist"}
      /\ pc' \in {"dequeue", "detect"}
  BY <1>1 DEF OutOfWait
<1>9. Leads' = Leads /\ InCharge' = InCharge
  <2>1. Leads' = Leads
    BY Zenon, <1>1, <1>2 DEF Leads
  <2>2. InCharge' = Leads' /\ InCharge = Leads
    BY Zenon, <1>8 DEF InCharge, Leads
  <2> QED
    BY Zenon, <2>1, <2>2
<1>10. CplTypeOK'
  BY Zenon, <1>0, <1>1, <1>2, <1>4, <1>8 DEF CplTypeOK
<1>11. LeadsInv'
  BY Zenon, <1>0, <1>1, <1>2, <1>8, <1>9 DEF LeadsInv
<1>12. Speculates' = Speculates
  BY <1>1, <1>2 DEF Speculates, Misses
<1>13. ChargeInv' /\ DecisionInv'
  BY Zenon, <1>0, <1>1, <1>2, <1>8, <1>9, <1>12 DEF ChargeInv, DecisionInv
<1>14. RequestInv'
  BY Zenon, <1>0, <1>1, <1>3, <1>8, <1>9 DEF RequestInv, Misses
<1>15. TaskInv'
  <2>1. Misses(x.base, cplState, N - x.index)
    BY <1>4, <1>6 DEF Misses, IsPrefix, States
  <2>2. Speaks(x.base, x.index, x.term)
    BY Zenon, <1>0, <1>1, <1>6 DEF DecisionInv
  <2>3. ASSUME NEW y \in Tasks'
        PROVE  /\ y.term <= mLastCheckedTerm
               /\ y.term = mLastCheckedTerm =>
                    /\ y.index <= mLastCommandId /\ mLastCheckedRole
                    /\ InCharge /\ y.code = "refused" => Misses(y.base, cplState, mLastCommandId - y.index)
               /\ y.code = "refused" => Speaks(y.base, y.index, y.term)
               /\ y.code = "200" =>
                    /\ \A l \in Logs : HasTerm(l, y.index, y.term) => l[y.index].cmd = y.cmd /\ l[y.index].base = y.base
                    /\ \A r \in Requests : r.index = y.index /\ r.term = y.term => r.cmd = y.cmd /\ r.base = y.base
    <3>1. CASE y = x
      BY Zenon, <1>4, <1>6, <2>1, <2>2, <3>1
    <3>2. CASE y \in Tasks
      BY Zenon, <1>0, <3>2 DEF TaskInv
    <3>3. y = x \/ y \in Tasks
      BY Zenon, <1>7
    <3> QED
      BY Zenon, <3>1, <3>2, <3>3
  <2> QED
    BY Zenon, <1>1, <1>2, <1>3, <1>8, <1>9, <2>3 DEF TaskInv, Misses, HasTerm, Speaks, Committed
<1>16. WaitInv'
  BY <1>1 DEF WaitInv
<1>17. AssertionsHold'
  BY Zenon, <1>0, <1>1 DEF AssertionsHold
<1> QED
  BY Zenon, <1>2, <1>3, <1>7, <1>10, <1>11, <1>13, <1>14, <1>15, <1>16, <1>17 DEF PipelineInv

\* A command with events: the CPL is one entry further.
LEMMA ProcessAcceptedKeeps ==
  ASSUME Counting, PipelineInv, ProcessAccepted
  PROVE  PipelineInv'
<1> DEFINE N == mLastCommandId
           e == [index |-> mLastCommandId + 1, term |-> mLastCheckedTerm]
           x == [index |-> mLastCommandId + 1, term |-> mLastCheckedTerm, cmd |-> command, code |-> "200", base |-> cplState,
                 flag |-> 0]
<1>0. /\ RaftTypeOK /\ RaftInv /\ DecidedInv /\ QueueTypeOK /\ CplTypeOK /\ EalTypeOK /\ ReplyTypeOK /\ ChargeInv
      /\ LeadsInv /\ DecisionInv /\ RequestInv /\ TaskInv /\ EalInv /\ DbInv /\ WaitInv /\ AnswersAreCommitted /\ AssertionsHold
  BY Zenon DEF PipelineInv
<1>1. /\ pc = "process" /\ mLastCommandId' = N + 1 /\ cplState' = Append(cplState, e)
      /\ replyQueue' = Append(replyQueue, x) /\ pc' = "persist"
      /\ UNCHANGED <<command, arrived, mLastCheckedTerm, mLastCheckedRole, read,
                     replier, answer, raftVars, ealVars, queueVars, assertion>>
  BY Zenon DEF ProcessAccepted, PushTask, notCpl, queueVars
<1>2. /\ currentTerm' = currentTerm /\ role' = role /\ log' = log /\ commitIndex' = commitIndex /\ Logs' = Logs
      /\ RaftTypeOK' /\ RaftInv' /\ DecidedInv'
      /\ \A s, i, t : Speaks(s, i, t)' <=> Speaks(s, i, t)
      /\ \A t : OnlyNoops(t)' <=> OnlyNoops(t)
  BY Zenon, <1>1, RaftStays
<1>3. EalTypeOK' /\ EalInv' /\ DbInv' /\ QueueTypeOK' /\ Requests' = Requests
  BY Zenon, <1>1, EalSame, QueuesStay
<1>4. /\ command \in Cmds /\ mLastCheckedTerm \in Nat /\ N \in Nat /\ cplState \in States /\ mLastCheckedRole
      /\ mLastCheckedTerm <= mLastCheckedTerm /\ N + 1 \in Nat /\ N + 1 <= N + 1 /\ ~(N + 1 <= N)
  BY <1>0, <1>1 DEF CplTypeOK, RaftTypeOK, LeadsInv
<1>5. x \in Task /\ e \in EntryId
  BY <1>4 DEF Task, EntryId
<1>6. /\ x.index = N + 1 /\ x.term = mLastCheckedTerm /\ x.cmd = command /\ x.code = "200" /\ x.base = cplState
      /\ x.code # "refused"
  OBVIOUS
<1> HIDE DEF x
<1>7. ReplyTypeOK' /\ AnswersAreCommitted' /\ Tasks' = Tasks \cup {x}
  BY Zenon, <1>1, <1>5, PushedTask
<1>8. /\ OutOfWait /\ OutOfWait' /\ pc' # "process" /\ pc' \notin {"dequeue", "detect"}
      /\ pc' \in {"dequeue", "detect", "wait", "waitLast", "waitCommit", "waitLoaded", "waitApplied",
                  "swap", "process", "persist"}
  BY <1>1 DEF OutOfWait
<1>9. Leads' = Leads /\ InCharge' = InCharge
  <2>1. Leads' = Leads
    BY Zenon, <1>1, <1>2 DEF Leads
  <2>2. InCharge' = Leads' /\ InCharge = Leads
    BY Zenon, <1>8 DEF InCharge, Leads
  <2> QED
    BY Zenon, <2>1, <2>2
<1>10. /\ cplState' \in States /\ Len(cplState') = Len(cplState) + 1 /\ cplState'[Len(cplState) + 1] = e
       /\ \A i \in 1..Len(cplState) : cplState'[i] = cplState[i]
       /\ IsPrefix(cplState, cplState') /\ Front(cplState') = cplState
       /\ Len(cplState) \in Nat
  <2>1. Len(cplState) \in Nat
    BY Zenon, <1>4, StatesLen
  <2> HIDE DEF e
  <2> QED
    BY <1>1, <1>4, <1>5, <2>1, AppendFacts DEF States
<1>11. CplTypeOK'
  BY Zenon, <1>0, <1>1, <1>2, <1>4, <1>8, <1>10 DEF CplTypeOK
<1>12. LeadsInv'
  BY Zenon, <1>0, <1>1, <1>2, <1>4, <1>8, <1>9 DEF LeadsInv
<1>13. ASSUME NEW s \in States, NEW i \in Nat, Misses(s, cplState, N - i)
       PROVE  Misses(s, cplState', (N + 1) - i)
  <2>1. IsPrefix(s, cplState')
    BY Zenon, <1>4, <1>10, <1>13, PrefixFacts DEF Misses, States
  <2>2. Len(s) \in Nat /\ Len(cplState) = Len(s) + (N - i)
    BY Zenon, <1>13, StatesLen DEF Misses
  <2>3. Len(cplState') = Len(s) + ((N + 1) - i)
    BY <1>4, <1>10, <2>2
  <2> QED
    BY Zenon, <2>1, <2>3 DEF Misses
<1>14. ASSUME InCharge PROVE Len(log) <= N /\ Len(log) < N + 1 /\ Speculates'
  <2> DEFINE s == StateAt(log, Len(log))
  <2>1. Len(log) <= N /\ Speculates
    BY Zenon, <1>0, <1>14 DEF ChargeInv
  <2>2. log \in Seq(Entry) /\ Len(log) \in Nat /\ Len(log) \in 0..Len(log)
    BY <1>0 DEF RaftTypeOK
  <2>3. s \in States /\ Misses(s, cplState, N - Len(log))
    BY Zenon, <2>1, <2>2, StateAtFacts DEF Speculates
  <2>4. Misses(s, cplState', (N + 1) - Len(log))
    BY Zenon, <1>13, <2>2, <2>3
  <2>5. \A k \in (Len(s) + 1)..Len(cplState) : cplState[k] = [index |-> Len(log) + (k - Len(s)), term |-> mLastCheckedTerm]
    BY Zenon, <2>1 DEF Speculates
  <2>6. Len(s) \in Nat /\ Len(cplState) = Len(s) + (N - Len(log))
    BY Zenon, <2>3, StatesLen DEF Misses
  <2> HIDE DEF s
  <2>7. ASSUME NEW k \in (Len(s) + 1)..Len(cplState')
        PROVE  cplState'[k] = [index |-> Len(log) + (k - Len(s)), term |-> mLastCheckedTerm]
    <3>1. CASE k = Len(cplState) + 1
      <4>1. Len(log) + (k - Len(s)) = N + 1
        BY <1>4, <1>10, <2>2, <2>6, <3>1
      <4> QED
        BY Zenon, <1>10, <3>1, <4>1
    <3>2. CASE k \in 1..Len(cplState) /\ k \in (Len(s) + 1)..Len(cplState)
      BY Zenon, <1>10, <2>5, <3>2
    <3>3. k = Len(cplState) + 1 \/ (k \in 1..Len(cplState) /\ k \in (Len(s) + 1)..Len(cplState))
      BY <1>10, <2>6
    <3> QED
      BY Zenon, <3>1, <3>2, <3>3
  <2>8. Speculates'
    <3> SUFFICES /\ Misses(StateAt(log', Len(log')), cplState', mLastCommandId' - Len(log'))
                 /\ \A k \in (Len(StateAt(log', Len(log'))) + 1)..Len(cplState') :
                      cplState'[k] = [index |-> Len(log') + (k - Len(StateAt(log', Len(log')))), term |-> mLastCheckedTerm']
      BY Zenon DEF Speculates, Misses, IsPrefix
    <3> QED
      BY Zenon, <1>1, <1>2, <2>4, <2>7 DEF s
  <2>9. Len(log) < N + 1
    BY <1>4, <2>1, <2>2
  <2> QED
    BY Zenon, <2>1, <2>8, <2>9
<1>15. ASSUME NEW i \in Nat, i <= N PROVE i <= N + 1 /\ i < N + 1 /\ i # N + 1
  BY <1>4, <1>15
<1>16. ChargeInv'
  <2>1. ASSUME NEW l \in Logs, NEW i \in DOMAIN l, l[i].term = mLastCheckedTerm PROVE i <= N + 1 /\ i < N + 1
    <3>1. i <= N
      BY Zenon, <1>0, <1>1, <2>1 DEF ChargeInv
    <3>2. i \in Nat
      <4>1. l \in Seq(Entry)
        BY Zenon, <1>0 DEF RaftTypeOK, Logs
      <4> QED
        BY <4>1
    <3> QED
      BY Zenon, <1>15, <3>1, <3>2
  <2>2. InCharge => Len(log) <= N + 1
    <3>1. Len(log) \in Nat
      BY <1>0 DEF RaftTypeOK
    <3> QED
      BY Zenon, <1>14, <1>15, <3>1
  <2> QED
    BY Zenon, <1>0, <1>1, <1>2, <1>9, <1>14, <2>1, <2>2 DEF ChargeInv
<1>17. DecisionInv'
  <2>1. cplState' # <<>>
    BY <1>10
  <2> QED
    BY Zenon, <1>8, <2>1 DEF DecisionInv
<1>18. RequestInv'
  <2>1. ASSUME NEW r \in Requests
        PROVE  /\ r.term <= mLastCheckedTerm
               /\ r.term = mLastCheckedTerm =>
                    /\ r.index <= N + 1 /\ r.index < N + 1
                    /\ InCharge => Misses(r.base, cplState', (N + 1) - r.index + 1)
    <3>1. /\ r.term <= mLastCheckedTerm
          /\ r.term = mLastCheckedTerm => r.index <= N /\ (InCharge => Misses(r.base, cplState, N - r.index + 1))
      BY Zenon, <1>0 DEF RequestInv
    <3>2. r.index \in Nat /\ r.base \in States
      BY Zenon, <1>0, RequestTypes, RequestFields
    <3>3. ASSUME Misses(r.base, cplState, N - r.index + 1) PROVE Misses(r.base, cplState', (N + 1) - r.index + 1)
      <4>1. IsPrefix(r.base, cplState')
        BY Zenon, <1>4, <1>10, <3>2, <3>3, PrefixFacts DEF Misses, States
      <4>2. Len(r.base) \in Nat /\ Len(cplState) = Len(r.base) + (N - r.index + 1)
        BY Zenon, <3>2, <3>3, StatesLen DEF Misses
      <4>3. Len(cplState') = Len(r.base) + ((N + 1) - r.index + 1)
        <5>1. \A a \in Nat, i \in Nat, n \in Nat : (a + (n - i + 1)) + 1 = a + ((n + 1) - i + 1)
          OBVIOUS
        <5>2. (Len(r.base) + (N - r.index + 1)) + 1 = Len(r.base) + ((N + 1) - r.index + 1)
          BY Zenon, <1>4, <3>2, <4>2, <5>1
        <5> QED
          BY Zenon, <1>10, <4>2, <5>2
      <4> QED
        BY Zenon, <4>1, <4>3 DEF Misses
    <3> QED
      BY Zenon, <1>15, <3>1, <3>2, <3>3
  <2> QED
    BY Zenon, <1>1, <1>3, <1>4, <1>8, <1>9, <2>1 DEF RequestInv, Misses
<1>19. TaskInv'
  <2>1. ASSUME NEW y \in Tasks'
        PROVE  /\ y.term <= mLastCheckedTerm
               /\ y.term = mLastCheckedTerm =>
                    /\ y.index <= N + 1
                    /\ InCharge /\ y.code = "refused" => Misses(y.base, cplState', (N + 1) - y.index)
                    /\ y.index = N + 1 => y.cmd = command /\ y.base = cplState
               /\ y.code = "refused" => Speaks(y.base, y.index, y.term)
               /\ y.code = "200" =>
                    /\ \A l \in Logs : HasTerm(l, y.index, y.term) => l[y.index].cmd = y.cmd /\ l[y.index].base = y.base
                    /\ \A r \in Requests : r.index = y.index /\ r.term = y.term => r.cmd = y.cmd /\ r.base = y.base
    <3>1. CASE y = x
      <4>1. ASSUME NEW l \in Logs, HasTerm(l, N + 1, mLastCheckedTerm) PROVE FALSE
        <5>1. N + 1 <= N
          BY Zenon, <1>0, <1>1, <4>1 DEF ChargeInv, HasTerm
        <5> QED
          BY Zenon, <1>4, <5>1
      <4>2. ASSUME NEW r \in Requests, r.index = N + 1, r.term = mLastCheckedTerm PROVE FALSE
        <5>1. r.index <= N
          BY Zenon, <1>0, <4>2 DEF RequestInv
        <5> QED
          BY Zenon, <1>4, <4>2, <5>1
      <4> QED
        BY Zenon, <1>4, <1>6, <3>1, <4>1, <4>2
    <3>2. CASE y \in Tasks
      <4>1. /\ y.term <= mLastCheckedTerm
            /\ y.term = mLastCheckedTerm =>
                 y.index <= N /\ (InCharge /\ y.code = "refused" => Misses(y.base, cplState, N - y.index))
            /\ y.code = "refused" => Speaks(y.base, y.index, y.term)
            /\ y.code = "200" =>
                 /\ \A l \in Logs : HasTerm(l, y.index, y.term) => l[y.index].cmd = y.cmd /\ l[y.index].base = y.base
                 /\ \A r \in Requests : r.index = y.index /\ r.term = y.term => r.cmd = y.cmd /\ r.base = y.base
        BY Zenon, <1>0, <3>2 DEF TaskInv
      <4>2. y \in Task
        BY Zenon, <1>0, <3>2, TaskTypes
      <4>3. y.index \in Nat /\ y.base \in States
        BY <4>2 DEF Task
      <4> QED
        BY Zenon, <1>13, <1>15, <4>1, <4>3
    <3>3. y = x \/ y \in Tasks
      BY Zenon, <1>7
    <3> QED
      BY Zenon, <3>1, <3>2, <3>3
  <2> QED
    BY Zenon, <1>1, <1>2, <1>3, <1>4, <1>8, <1>9, <1>10, <2>1 DEF TaskInv, Misses, HasTerm, Speaks, Committed
<1>20. WaitInv'
  BY <1>1 DEF WaitInv
<1>21. AssertionsHold'
  BY Zenon, <1>0, <1>1 DEF AssertionsHold
<1> QED
  BY Zenon, <1>2, <1>3, <1>7, <1>11, <1>12, <1>16, <1>17, <1>18, <1>19, <1>20, <1>21 DEF PipelineInv


\* persistAsync queues the entry of the command.
LEMMA PersistAsyncKeeps ==
  ASSUME Counting, PipelineInv, PersistAsync
  PROVE  PipelineInv'
<1> DEFINE N == mLastCommandId
           q == [index |-> mLastCommandId, term |-> mLastCheckedTerm, cmd |-> command, base |-> Front(cplState)]
<1>0. /\ RaftTypeOK /\ RaftInv /\ DecidedInv /\ QueueTypeOK /\ CplTypeOK /\ EalTypeOK /\ ReplyTypeOK /\ ChargeInv
      /\ LeadsInv /\ DecisionInv /\ RequestInv /\ TaskInv /\ EalInv /\ DbInv /\ WaitInv /\ AnswersAreCommitted /\ AssertionsHold
  BY Zenon DEF PipelineInv
<1>1. /\ pc = "persist" /\ mPersistQueue' = Append(mPersistQueue, q) /\ pc' = "dequeue"
      /\ UNCHANGED <<command, arrived, mLastCheckedTerm, mLastCheckedRole, mLastCommandId, cplState, read,
                     replyVars, raftVars, ealVars, clientRequests, assertion>>
  BY Zenon DEF PersistAsync, notCpl
<1>2. /\ currentTerm' = currentTerm /\ role' = role /\ log' = log /\ commitIndex' = commitIndex /\ Logs' = Logs
      /\ RaftTypeOK' /\ RaftInv' /\ DecidedInv'
      /\ \A s, i, t : Speaks(s, i, t)' <=> Speaks(s, i, t)
      /\ \A t : OnlyNoops(t)' <=> OnlyNoops(t)
  BY Zenon, <1>1, RaftStays
<1>3. EalTypeOK' /\ EalInv' /\ DbInv' /\ Tasks' = Tasks /\ ReplyTypeOK' /\ AnswersAreCommitted'
  BY Zenon, <1>1, EalSame, RepliesStay
<1>4. /\ command \in Cmds /\ mLastCheckedTerm \in Nat /\ N \in Nat /\ cplState \in Seq(EntryId) /\ mLastCheckedRole
      /\ mLastCheckedTerm <= mLastCheckedTerm /\ N <= N /\ cplState # <<>> /\ Len(cplState) \in Nat
  BY <1>0, <1>1 DEF CplTypeOK, RaftTypeOK, LeadsInv, DecisionInv, States
<1> DEFINE f == Front(cplState)
<1>5. /\ f \in States /\ Len(f) = Len(cplState) - 1 /\ \A i \in 1..Len(f) : f[i] = cplState[i]
  <2>1. Len(cplState) - 1 \in 0..Len(cplState) /\ f = SubSeq(cplState, 1, Len(cplState) - 1)
    BY <1>4 DEF Front
  <2>2. ASSUME NEW n \in 0..Len(cplState)
        PROVE  /\ SubSeq(cplState, 1, n) \in Seq(EntryId) /\ Len(SubSeq(cplState, 1, n)) = n
               /\ \A i \in 1..n : SubSeq(cplState, 1, n)[i] = cplState[i]
    BY <1>4
  <2> HIDE DEF f
  <2> QED
    BY Zenon, <2>1, <2>2 DEF States
<1> HIDE DEF f
<1>6. Misses(f, cplState, (N - N) + 1)
  <2>1. Len(f) <= Len(cplState) /\ Len(cplState) = Len(f) + ((N - N) + 1)
    BY <1>4, <1>5
  <2> QED
    BY Zenon, <1>5, <2>1 DEF Misses, IsPrefix
<1>7. q \in Request /\ q.index = N /\ q.term = mLastCheckedTerm /\ q.cmd = command /\ q.base = f
  BY <1>4, <1>5 DEF Request, f
<1> HIDE DEF q
<1>8. QueueTypeOK' /\ \A r \in Requests' : r \in Requests \/ r = q
  <2>1. /\ mPersistQueue \in Seq(Request) /\ Append(mPersistQueue, q) \in Seq(Request) /\ Len(mPersistQueue) \in Nat
        /\ DOMAIN Append(mPersistQueue, q) = 1..(Len(mPersistQueue) + 1) /\ DOMAIN mPersistQueue = 1..Len(mPersistQueue)
        /\ Append(mPersistQueue, q)[Len(mPersistQueue) + 1] = q
        /\ \A k \in 1..Len(mPersistQueue) : Append(mPersistQueue, q)[k] = mPersistQueue[k]
    BY <1>0, <1>7 DEF QueueTypeOK
  <2>2. QueueTypeOK'
    BY Zenon, <1>0, <1>1, <2>1 DEF QueueTypeOK
  <2>3. ASSUME NEW k \in DOMAIN mPersistQueue' PROVE mPersistQueue'[k] \in Requests \/ mPersistQueue'[k] = q
    <3>1. k \in 1..Len(mPersistQueue) \/ k = Len(mPersistQueue) + 1
      BY <1>1, <2>1
    <3>2. \A j \in DOMAIN mPersistQueue : mPersistQueue[j] \in Requests
      BY DEF Requests
    <3> QED
      BY Zenon, <1>1, <2>1, <3>1, <3>2
  <2>4. \A b \in DOMAIN clientRequests' : \A k \in DOMAIN clientRequests'[b] : clientRequests'[b][k] \in Requests
    <3>1. \A b \in DOMAIN clientRequests : \A k \in DOMAIN clientRequests[b] : clientRequests[b][k] \in Requests
      BY DEF Requests
    <3> QED
      BY Zenon, <1>1, <3>1
  <2>5. ASSUME NEW r \in Requests' PROVE r \in Requests \/ r = q
    <3>1. \/ \E k \in DOMAIN mPersistQueue' : r = mPersistQueue'[k]
          \/ \E b \in DOMAIN clientRequests' : \E k \in DOMAIN clientRequests'[b] : r = clientRequests'[b][k]
      BY DEF Requests
    <3> QED
      BY Zenon, <2>3, <2>4, <3>1
  <2> QED
    BY Zenon, <2>2, <2>5
<1>9. /\ OutOfWait /\ OutOfWait' /\ pc' # "persist" /\ pc' # "process" /\ pc' \notin {"process", "persist"}
      /\ pc' \in {"dequeue", "detect", "wait", "waitLast", "waitCommit", "waitLoaded", "waitApplied",
                  "swap", "process", "persist"}
      /\ pc' \in {"dequeue", "detect"}
  BY <1>1 DEF OutOfWait
<1>10. Leads' = Leads /\ InCharge' = InCharge
  <2>1. Leads' = Leads
    BY Zenon, <1>1, <1>2 DEF Leads
  <2>2. InCharge' = Leads' /\ InCharge = Leads
    BY Zenon, <1>9 DEF InCharge, Leads
  <2> QED
    BY Zenon, <2>1, <2>2
<1>11. CplTypeOK'
  BY Zenon, <1>0, <1>1, <1>2, <1>4, <1>9 DEF CplTypeOK
<1>12. LeadsInv'
  BY Zenon, <1>0, <1>1, <1>2, <1>9, <1>10 DEF LeadsInv
<1>13. Speculates' = Speculates
  BY <1>1, <1>2 DEF Speculates, Misses
<1>14. ChargeInv' /\ DecisionInv'
  BY Zenon, <1>0, <1>1, <1>2, <1>9, <1>10, <1>13 DEF ChargeInv, DecisionInv
<1>15. RequestInv'
  <2>1. ASSUME NEW r \in Requests'
        PROVE  /\ r.term <= mLastCheckedTerm
               /\ r.term = mLastCheckedTerm =>
                    r.index <= N /\ (InCharge => Misses(r.base, cplState, N - r.index + 1))
    <3>1. CASE r = q
      BY Zenon, <1>4, <1>6, <1>7, <3>1
    <3>2. CASE r \in Requests
      BY Zenon, <1>0, <3>2 DEF RequestInv
    <3> QED
      BY Zenon, <1>8, <3>1, <3>2
  <2> QED
    BY Zenon, <1>1, <1>4, <1>9, <1>10, <2>1 DEF RequestInv, Misses
<1>16. TaskInv'
  <2>1. ASSUME NEW y \in Tasks
        PROVE  /\ y.term <= mLastCheckedTerm
               /\ y.term = mLastCheckedTerm =>
                    /\ y.index <= mLastCommandId /\ mLastCheckedRole
                    /\ InCharge /\ y.code = "refused" => Misses(y.base, cplState, mLastCommandId - y.index)
               /\ y.code = "refused" => Speaks(y.base, y.index, y.term)
               /\ y.code = "200" =>
                    /\ \A l \in Logs : HasTerm(l, y.index, y.term) => l[y.index].cmd = y.cmd /\ l[y.index].base = y.base
                    /\ \A r \in Requests : r.index = y.index /\ r.term = y.term => r.cmd = y.cmd /\ r.base = y.base
               /\ y.code = "200" /\ y.index = N /\ y.term = mLastCheckedTerm => y.cmd = command /\ y.base = f
    BY Zenon, <1>0, <1>1 DEF TaskInv, f
  <2>2. ASSUME NEW y \in Tasks, y.code = "200", NEW r \in Requests', r.index = y.index, r.term = y.term
        PROVE  r.cmd = y.cmd /\ r.base = y.base
    <3>1. CASE r = q
      BY Zenon, <1>7, <2>1, <2>2, <3>1
    <3>2. CASE r \in Requests
      BY Zenon, <2>1, <2>2, <3>2
    <3> QED
      BY Zenon, <1>8, <3>1, <3>2
  <2> QED
    BY Zenon, <1>1, <1>2, <1>3, <1>9, <1>10, <2>1, <2>2 DEF TaskInv, Misses, HasTerm, Speaks, Committed
<1>17. WaitInv'
  BY <1>1 DEF WaitInv
<1>18. AssertionsHold'
  BY Zenon, <1>0, <1>1 DEF AssertionsHold
<1> QED
  BY Zenon, <1>2, <1>3, <1>8, <1>11, <1>12, <1>14, <1>15, <1>16, <1>17, <1>18 DEF PipelineInv

\* maySendBatch moves requests from one queue to the other.
LEMMA SendBatchKeeps ==
  ASSUME Counting, PipelineInv, SendBatch
  PROVE  PipelineInv'
<1>1. PICK n \in 1..Len(mPersistQueue) :
        /\ clientRequests' = Append(clientRequests, SubSeq(mPersistQueue, 1, n))
        /\ mPersistQueue' = SubSeq(mPersistQueue, n + 1, Len(mPersistQueue))
  BY Zenon DEF SendBatch
<1>2. UNCHANGED <<raftVars, cplVars, ealVars, replyVars, assertion>>
  BY Zenon DEF SendBatch
<1>3. mPersistQueue \in Seq(Request) /\ clientRequests \in Seq(Seq(Request)) /\ Len(mPersistQueue) \in Nat /\ n \in Nat
  BY DEF PipelineInv, QueueTypeOK
<1> DEFINE b == SubSeq(mPersistQueue, 1, n)
           p == SubSeq(mPersistQueue, n + 1, Len(mPersistQueue))
<1>4. /\ b \in Seq(Request) /\ p \in Seq(Request)
      /\ DOMAIN b = 1..n /\ DOMAIN p = 1..(Len(mPersistQueue) - n)
      /\ \A k \in 1..n : b[k] = mPersistQueue[k]
      /\ \A k \in 1..(Len(mPersistQueue) - n) : p[k] = mPersistQueue[n + k]
  <2>1. n <= Len(mPersistQueue) /\ n + 1 \in 1..(Len(mPersistQueue) + 1)
    BY <1>3
  <2>2. b \in Seq(Request) /\ DOMAIN b = 1..n /\ \A k \in 1..n : b[k] = mPersistQueue[k]
    BY <1>3, <2>1
  <2>3. p \in Seq(Request)
    BY <1>3, <2>1
  <2>4. Len(p) = Len(mPersistQueue) - n
    BY <1>3, <2>1
  <2>5. \A k \in 1..(Len(mPersistQueue) - n) : p[k] = mPersistQueue[n + k]
    BY <1>3, <2>1
  <2>6. DOMAIN p = 1..(Len(mPersistQueue) - n)
    BY <2>3, <2>4
  <2> QED
    BY Zenon, <2>2, <2>3, <2>5, <2>6
<1> HIDE DEF b, p
<1>5. \A j \in DOMAIN mPersistQueue : mPersistQueue[j] \in Requests
  BY DEF Requests
<1>6. \A c \in DOMAIN clientRequests : \A k \in DOMAIN clientRequests[c] : clientRequests[c][k] \in Requests
  BY DEF Requests
<1>7. \A k \in DOMAIN b : b[k] \in Requests
  <2>1. \A k \in DOMAIN b : k \in DOMAIN mPersistQueue
    BY <1>3, <1>4
  <2> QED
    BY Zenon, <1>4, <1>5, <2>1
<1>8. \A k \in DOMAIN p : p[k] \in Requests
  <2>1. \A k \in DOMAIN p : n + k \in DOMAIN mPersistQueue
    BY <1>3, <1>4
  <2> QED
    BY Zenon, <1>4, <1>5, <2>1
<1>9. /\ clientRequests' \in Seq(Seq(Request)) /\ DOMAIN clientRequests' = 1..(Len(clientRequests) + 1)
      /\ clientRequests'[Len(clientRequests) + 1] = b /\ DOMAIN clientRequests = 1..Len(clientRequests)
      /\ \A k \in 1..Len(clientRequests) : clientRequests'[k] = clientRequests[k]
      /\ \A k \in 1..(Len(clientRequests) + 1) : k \in 1..Len(clientRequests) \/ k = Len(clientRequests) + 1
  <2>1. clientRequests' = Append(clientRequests, b)
    BY Zenon, <1>1 DEF b
  <2> QED
    BY <1>3, <1>4, <2>1
<1>10. QueueTypeOK'
  BY Zenon, <1>1, <1>4, <1>9 DEF QueueTypeOK, p
<1>11. ASSUME NEW c \in DOMAIN clientRequests', NEW k \in DOMAIN clientRequests'[c] PROVE clientRequests'[c][k] \in Requests
  <2>1. CASE c = Len(clientRequests) + 1
    BY Zenon, <1>7, <1>9, <2>1
  <2>2. CASE c \in 1..Len(clientRequests)
    BY Zenon, <1>6, <1>9, <2>2
  <2> QED
    BY Zenon, <1>9, <2>1, <2>2
<1>12. \A k \in DOMAIN mPersistQueue' : mPersistQueue'[k] \in Requests
  BY Zenon, <1>1, <1>8 DEF p
<1>13. Requests' \subseteq Requests
  <2> SUFFICES ASSUME NEW r \in Requests' PROVE r \in Requests
    OBVIOUS
  <2>1. \/ \E k \in DOMAIN mPersistQueue' : r = mPersistQueue'[k]
        \/ \E c \in DOMAIN clientRequests' : \E k \in DOMAIN clientRequests'[c] : r = clientRequests'[c][k]
    BY DEF Requests
  <2> QED
    BY Zenon, <1>11, <1>12, <2>1
<1> QED
  BY Zenon, <1>2, <1>10, <1>13, FewerRequests


-----------------------------------------------------------------------------
(* The event apply loop and its reader                                     *)

\* What is left to show of their steps
LEMMA EalMoves ==
  ASSUME PipelineInv, UNCHANGED <<notEal, assertion>>, EalTypeOK', EalInv', DbInv', WaitInv'
  PROVE  PipelineInv'
<1>0. /\ RaftTypeOK /\ RaftInv /\ DecidedInv /\ QueueTypeOK /\ CplTypeOK /\ EalTypeOK /\ ReplyTypeOK /\ ChargeInv
      /\ LeadsInv /\ DecisionInv /\ RequestInv /\ TaskInv /\ EalInv /\ DbInv /\ WaitInv /\ AnswersAreCommitted /\ AssertionsHold
  BY Zenon DEF PipelineInv
<1>1. UNCHANGED <<raftVars, cplVars, queueVars, replyVars>>
  BY Zenon DEF notEal
<1>2. /\ pc' = pc /\ command' = command /\ arrived' = arrived /\ mLastCheckedTerm' = mLastCheckedTerm
      /\ mLastCheckedRole' = mLastCheckedRole /\ mLastCommandId' = mLastCommandId /\ cplState' = cplState /\ read' = read
  BY Zenon, <1>1 DEF cplVars
<1>3. /\ currentTerm' = currentTerm /\ role' = role /\ log' = log /\ commitIndex' = commitIndex /\ Logs' = Logs
      /\ RaftTypeOK' /\ RaftInv' /\ DecidedInv'
      /\ \A s, i, t : Speaks(s, i, t)' <=> Speaks(s, i, t)
      /\ \A t : OnlyNoops(t)' <=> OnlyNoops(t)
  BY Zenon, <1>1, RaftStays
<1>4. QueueTypeOK' /\ Requests' = Requests /\ Tasks' = Tasks /\ ReplyTypeOK' /\ AnswersAreCommitted'
  BY Zenon, <1>1, QueuesStay, RepliesStay
<1>5. OutOfWait' = OutOfWait /\ Leads' = Leads
  BY Zenon, <1>2, <1>3 DEF OutOfWait, Leads
<1>6. InCharge' = InCharge
  BY Zenon, <1>5 DEF InCharge
<1>7. CplTypeOK'
  BY Zenon, <1>0, <1>2, <1>3 DEF CplTypeOK
<1>8. LeadsInv'
  BY Zenon, <1>0, <1>2, <1>3, <1>5, <1>6 DEF LeadsInv
<1>9. Speculates' = Speculates
  BY <1>2, <1>3 DEF Speculates, Misses
<1>10. ChargeInv'
  BY Zenon, <1>0, <1>2, <1>3, <1>6, <1>9 DEF ChargeInv
<1>11. DecisionInv'
  BY Zenon, <1>0, <1>2, <1>3 DEF DecisionInv, Speaks, Committed, HasTerm
<1>12. RequestInv'
  BY Zenon, <1>0, <1>2, <1>4, <1>5, <1>6 DEF RequestInv, Misses
<1>13. TaskInv'
  BY Zenon, <1>0, <1>2, <1>3, <1>4, <1>5, <1>6 DEF TaskInv, Speaks, Committed, Misses, HasTerm, Front
<1>14. AssertionsHold'
  BY Zenon, <1>0 DEF AssertionsHold
<1> QED
  BY Zenon, <1>3, <1>4, <1>7, <1>8, <1>10, <1>11, <1>12, <1>13, <1>14 DEF PipelineInv

\* The types of the indexes of the reader
LEMMA ReaderTypes ==
  ASSUME EalTypeOK
  PROVE  /\ mLoadedIndex \in Nat /\ mAppliedIndex \in Nat /\ mApplyingIndex \in Nat /\ AppliedUpTo \in Nat /\ HeldUpTo \in Int
         /\ mTaskQueue \in Seq(Loaded) /\ Len(mTaskQueue) \in Nat /\ DOMAIN mTaskQueue = 1..Len(mTaskQueue)
         /\ \A k \in DOMAIN mTaskQueue : mTaskQueue[k] \in Loaded /\ mTaskQueue[k].from \in Nat /\ mTaskQueue[k].to \in Nat
         /\ mTaskQueue # <<>> => 1 \in DOMAIN mTaskQueue /\ HeldUpTo = mTaskQueue[1].from - 1
<1>1. /\ mLoadedIndex \in Nat /\ mAppliedIndex \in Nat /\ mApplyingIndex \in Nat /\ AppliedUpTo \in Nat
      /\ mTaskQueue \in Seq(Loaded) /\ Len(mTaskQueue) \in Nat /\ DOMAIN mTaskQueue = 1..Len(mTaskQueue)
  BY DEF EalTypeOK, AppliedUpTo
<1>2. \A k \in DOMAIN mTaskQueue : mTaskQueue[k] \in Loaded
  BY <1>1
<1>3. \A k \in DOMAIN mTaskQueue : mTaskQueue[k].from \in Nat /\ mTaskQueue[k].to \in Nat
  BY <1>2 DEF Loaded
<1>4. mTaskQueue # <<>> => 1 \in DOMAIN mTaskQueue /\ Head(mTaskQueue) = mTaskQueue[1]
  BY <1>1
<1>5. mTaskQueue # <<>> => HeldUpTo = mTaskQueue[1].from - 1
  BY Zenon, <1>4 DEF HeldUpTo
<1>6. mTaskQueue = <<>> => HeldUpTo = mLoadedIndex
  BY Zenon DEF HeldUpTo
<1>7. HeldUpTo \in Int
  <2>1. mTaskQueue # <<>> => mTaskQueue[1].from \in Nat
    BY Zenon, <1>3, <1>4
  <2> HIDE DEF HeldUpTo
  <2> QED
    BY <1>1, <1>5, <1>6, <2>1
<1> QED
  BY Zenon, <1>1, <1>2, <1>3, <1>4, <1>5, <1>7

\* recoverSelf: the EAL begins where RocksDB is.
LEMMA RecoverSelfKeeps ==
  ASSUME PipelineInv, RecoverSelf
  PROVE  PipelineInv'
<1> DEFINE n == LastApplied(dbState)
<1>0. RaftTypeOK /\ EalTypeOK /\ EalInv /\ DbInv /\ WaitInv /\ CplTypeOK
  BY Zenon DEF PipelineInv
<1>1. /\ ealPc = "idle" /\ mShouldRecover /\ ealState' = dbState /\ SetCurrentOffset(n) /\ mShouldRecover' = FALSE
      /\ ealPc' = "load" /\ UNCHANGED <<dbState, mApplyingIndex, mTaskQueue, mCachedBundles, notEal>>
  BY Zenon DEF RecoverSelf
<1>2. /\ mLoadedIndex = 0 /\ mAppliedIndex = 0 /\ mApplyingIndex = 0 /\ mTaskQueue = <<>> /\ mCachedBundles = <<>>
  BY Zenon, <1>0, <1>1 DEF EalInv
<1>3. assertion' = assertion /\ mAppliedIndex' = n /\ mLoadedIndex' = n
  BY Zenon, <1>1, <1>2 DEF SetCurrentOffset, Asserts
<1>4. /\ n \in Nat /\ n <= commitIndex /\ dbState = StateAt(log, n) /\ commitIndex \in Nat
  <2>1. n \in Nat
    BY Zenon, <1>0, LastAppliedType DEF EalTypeOK
  <2>2. commitIndex \in Nat
    BY <1>0 DEF RaftTypeOK
  <2> QED
    BY Zenon, <1>0, <2>1, <2>2 DEF DbInv
<1> HIDE DEF n
<1>5. currentTerm' = currentTerm /\ log' = log /\ commitIndex' = commitIndex /\ pc' = pc /\ read' = read
  <2>1. UNCHANGED raftVars
    BY Zenon, <1>1 DEF notEal
  <2> QED
    BY Zenon, <1>1, <2>1, RaftStays DEF notEal, cplVars
<1>6. EalTypeOK'
  <2>1. ealPc' \in {"idle", "load", "apply"} /\ mShouldRecover' \in BOOLEAN
    BY Zenon, <1>1
  <2> QED
    BY Zenon, <1>0, <1>1, <1>3, <1>4, <2>1 DEF EalTypeOK
<1>7. EalInv'
  <2>1. AppliedUpTo' = n /\ HeldUpTo' = n
    BY <1>1, <1>2, <1>3, <1>4 DEF AppliedUpTo, HeldUpTo
  <2>2. /\ \A k \in DOMAIN mTaskQueue' : FALSE
        /\ \A k \in DOMAIN mCachedBundles' : FALSE
        /\ \A k \in (n + 1)..n : FALSE
    BY <1>1, <1>2, <1>4
  <2>3. /\ mLoadedIndex' <= commitIndex' /\ AppliedUpTo' <= HeldUpTo' /\ HeldUpTo' <= mLoadedIndex'
        /\ ~(mApplyingIndex' > mAppliedIndex') /\ ealPc' # "apply" /\ ~mShouldRecover'
    BY <1>1, <1>2, <1>3, <1>4, <1>5, <2>1
  <2>4. ealState' = StateAt(log', AppliedUpTo')
    BY Zenon, <1>1, <1>4, <1>5, <2>1
  <2> HIDE DEF AppliedUpTo, HeldUpTo
  <2> QED
    BY Zenon, <2>1, <2>2, <2>3, <2>4 DEF EalInv
<1>8. DbInv'
  BY Zenon, <1>0, <1>1, <1>5 DEF DbInv
<1>9. WaitInv'
  <2>1. pc # "swap"
    BY Zenon, <1>0, <1>1 DEF WaitInv
  <2>2. pc = "waitApplied" => read[3] <= n
    <3>1. pc = "waitApplied" => read[3] <= 0 /\ read \in Seq(Nat) /\ Len(read) = 3
      BY Zenon, <1>0, <1>2 DEF WaitInv, CplTypeOK
    <3>2. read \in Seq(Nat) /\ Len(read) = 3 => read[3] \in Nat
      OBVIOUS
    <3> QED
      BY <1>4, <3>1, <3>2
  <2> QED
    BY Zenon, <1>0, <1>3, <1>5, <2>1, <2>2 DEF WaitInv
<1> QED
  BY Zenon, <1>1, <1>3, <1>6, <1>7, <1>8, <1>9, EalMoves

\* Steps of the reader that leave the EAL's state alone
LEMMA ReaderMoves ==
  ASSUME Counting, PipelineInv, UNCHANGED <<notEal, assertion, ealState, dbState, mShouldRecover>>, EalTypeOK', EalInv',
         mLoadedIndex' >= mLoadedIndex
  PROVE  PipelineInv'
<1>0. RaftTypeOK /\ EalTypeOK /\ DbInv /\ WaitInv /\ CplTypeOK
  BY Zenon DEF PipelineInv
<1>1. UNCHANGED raftVars /\ UNCHANGED <<pc, read, mLastCommandId, mLastCheckedTerm, mShouldRecover>>
  BY Zenon DEF notEal, cplVars
<1>2. RaftTypeOK' /\ CommitGrows
  BY Zenon, <1>1, RaftStays
<1>3. DbInv'
  BY Zenon, <1>0, <1>2, DbStays
<1>4. mLoadedIndex \in Nat /\ mLoadedIndex' \in Nat
  BY Zenon, <1>0 DEF EalTypeOK
<1>5. WaitInv'
  BY Zenon, <1>0, <1>1, <1>2, <1>4, WaitStays
<1> QED
  BY Zenon, <1>3, <1>5, EalMoves

\* The load thread takes the next committed entries.
LEMMA LoadEntriesKeeps ==
  ASSUME Counting, PipelineInv, LoadEntries
  PROVE  PipelineInv'
<1> DEFINE L == mLoadedIndex
           q == mTaskQueue
<1>0. RaftTypeOK /\ EalTypeOK /\ EalInv
  BY Zenon DEF PipelineInv
<1>1. PICK n \in (L + 1)..commitIndex :
        /\ mTaskQueue' = Append(mTaskQueue, [from |-> mLoadedIndex + 1, to |-> n, flag |-> 0])
        /\ mLoadedIndex' = n
  BY Zenon DEF LoadEntries
<1>2. /\ ~mShouldRecover
      /\ UNCHANGED <<ealPc, ealState, dbState, mShouldRecover, mAppliedIndex, mApplyingIndex, mCachedBundles, notEal, assertion>>
  BY Zenon DEF LoadEntries, Running
<1> DEFINE x == [from |-> L + 1, to |-> n, flag |-> 0]
<1>3. /\ L \in Nat /\ AppliedUpTo \in Nat /\ HeldUpTo \in Int /\ q \in Seq(Loaded) /\ Len(q) \in Nat /\ DOMAIN q = 1..Len(q)
      /\ \A k \in DOMAIN q : q[k] \in Loaded /\ q[k].from \in Nat /\ q[k].to \in Nat
      /\ q # <<>> => 1 \in DOMAIN q /\ HeldUpTo = q[1].from - 1
  BY Zenon, <1>0, ReaderTypes
<1>4. commitIndex \in Nat /\ n \in Nat /\ L < n /\ n <= commitIndex
  BY <1>0, <1>3 DEF RaftTypeOK
<1>5. x \in Loaded /\ x.from = L + 1 /\ x.to = n
  BY <1>3, <1>4 DEF Loaded
<1> HIDE DEF x
<1>6. /\ mTaskQueue' \in Seq(Loaded) /\ Len(mTaskQueue') = Len(q) + 1 /\ mTaskQueue'[Len(q) + 1] = x
      /\ \A k \in 1..Len(q) : mTaskQueue'[k] = q[k]
      /\ mTaskQueue' # <<>> /\ DOMAIN mTaskQueue' = 1..(Len(q) + 1)
  <2>1. mTaskQueue' = Append(q, x)
    BY Zenon, <1>1 DEF x
  <2> QED
    BY <1>3, <1>5, <2>1
<1>7. EalTypeOK'
  BY Zenon, <1>0, <1>1, <1>2, <1>4, <1>6 DEF EalTypeOK
<1>8. AppliedUpTo' = AppliedUpTo
  BY Zenon, <1>2 DEF AppliedUpTo
<1>9. HeldUpTo' = HeldUpTo
  <2>1. Head(mTaskQueue') = mTaskQueue'[1]
    BY <1>6
  <2>2. CASE q = <<>>
    <3>1. Len(q) + 1 = 1 /\ HeldUpTo = L
      BY <2>2 DEF HeldUpTo
    <3>2. x.from - 1 = L
      BY <1>3, <1>5
    <3> QED
      BY Zenon, <1>6, <2>1, <3>1, <3>2 DEF HeldUpTo
  <2>3. CASE q # <<>>
    <3>1. mTaskQueue'[1] = q[1]
      BY Zenon, <1>3, <1>6, <2>3
    <3> QED
      BY Zenon, <1>3, <1>6, <2>1, <2>3, <3>1 DEF HeldUpTo
  <2> QED
    BY Zenon, <2>2, <2>3
<1>10. log' = log /\ commitIndex' = commitIndex
  <2>1. UNCHANGED raftVars
    BY Zenon, <1>2 DEF notEal
  <2> QED
    BY Zenon, <2>1, RaftStays
<1>11. mLoadedIndex' <= commitIndex' /\ mLoadedIndex' >= mLoadedIndex /\ HeldUpTo <= mLoadedIndex'
  <2>1. HeldUpTo <= L
    BY Zenon, <1>0 DEF EalInv
  <2> QED
    BY <1>1, <1>3, <1>4, <1>10, <2>1
<1>12. ASSUME NEW k \in DOMAIN mTaskQueue'
       PROVE  /\ mTaskQueue'[k].from <= mTaskQueue'[k].to /\ mTaskQueue'[k].from >= 1
              /\ mTaskQueue'[k].to = IF k = Len(mTaskQueue') THEN mLoadedIndex' ELSE mTaskQueue'[k + 1].from - 1
  <2>1. CASE k = Len(q) + 1
    <3>1. x.from <= x.to /\ x.from >= 1
      BY <1>3, <1>4, <1>5
    <3> QED
      BY Zenon, <1>1, <1>5, <1>6, <2>1, <3>1
  <2>2. CASE k \in 1..Len(q)
    <3>1. /\ q[k].from <= q[k].to /\ q[k].from >= 1
          /\ q[k].to = IF k = Len(q) THEN L ELSE q[k + 1].from - 1
      BY Zenon, <1>0, <1>3, <2>2 DEF EalInv
    <3>2. k # Len(mTaskQueue') /\ mTaskQueue'[k] = q[k]
      BY <1>3, <1>6, <2>2
    <3>3. CASE k = Len(q)
      <4>1. mTaskQueue'[k + 1].from - 1 = L
        BY <1>3, <1>5, <1>6, <3>3
      <4> QED
        BY Zenon, <3>1, <3>2, <3>3, <4>1
    <3>4. CASE k # Len(q)
      <4>1. k + 1 \in 1..Len(q)
        BY <1>3, <2>2, <3>4
      <4> QED
        BY Zenon, <1>6, <3>1, <3>2, <3>4, <4>1
    <3> QED
      BY Zenon, <3>3, <3>4
  <2>3. k = Len(q) + 1 \/ k \in 1..Len(q)
    BY <1>3, <1>6
  <2> QED
    BY Zenon, <2>1, <2>2, <2>3
<1>13. EalInv'
  <2> HIDE DEF AppliedUpTo, HeldUpTo
  <2>1. ealState = StateAt(log, IF ealPc = "apply" THEN AppliedUpTo - 1 ELSE AppliedUpTo)
    BY Zenon, <1>0, <1>2 DEF EalInv
  <2> QED
    BY Zenon, <1>0, <1>2, <1>8, <1>9, <1>10, <1>11, <1>12, <2>1 DEF EalInv
<1> QED
  BY Zenon, <1>2, <1>7, <1>11, <1>13, ReaderMoves

\* A decrypt thread finishes a task.
LEMMA DecryptEntriesKeeps ==
  ASSUME Counting, PipelineInv, DecryptEntries
  PROVE  PipelineInv'
<1> DEFINE q == mTaskQueue
<1>0. RaftTypeOK /\ EalTypeOK /\ EalInv
  BY Zenon DEF PipelineInv
<1>1. PICK j \in DOMAIN q : mTaskQueue' = [q EXCEPT ![j].flag = 2]
  BY Zenon DEF DecryptEntries
<1>2. /\ ~mShouldRecover
      /\ UNCHANGED <<ealPc, ealState, dbState, mShouldRecover, mLoadedIndex, mAppliedIndex, mApplyingIndex, mCachedBundles,
                     notEal, assertion>>
  BY Zenon DEF DecryptEntries, Running
<1>3. /\ mLoadedIndex \in Nat /\ q \in Seq(Loaded) /\ Len(q) \in Nat /\ DOMAIN q = 1..Len(q)
      /\ \A k \in DOMAIN q : q[k] \in Loaded
      /\ q # <<>> => 1 \in DOMAIN q /\ HeldUpTo = q[1].from - 1
  BY Zenon, <1>0, ReaderTypes
<1>4. [q[j] EXCEPT !.flag = 2] \in Loaded
  <2>1. \A x \in Loaded : [x EXCEPT !.flag = 2] \in Loaded
    BY DEF Loaded
  <2> QED
    BY Zenon, <1>3, <2>1
<1>5. /\ mTaskQueue' \in Seq(Loaded) /\ Len(mTaskQueue') = Len(q) /\ DOMAIN mTaskQueue' = DOMAIN q
      /\ \A k \in DOMAIN q : mTaskQueue'[k] = IF k = j THEN [q[j] EXCEPT !.flag = 2] ELSE q[k]
  BY <1>1, <1>3, <1>4
<1>6. \A k \in DOMAIN q : mTaskQueue'[k].from = q[k].from /\ mTaskQueue'[k].to = q[k].to
  <2>1. \A x \in Loaded : [x EXCEPT !.flag = 2].from = x.from /\ [x EXCEPT !.flag = 2].to = x.to
    BY DEF Loaded
  <2> QED
    BY Zenon, <1>3, <1>5, <2>1
<1>7. EalTypeOK'
  BY Zenon, <1>0, <1>2, <1>5 DEF EalTypeOK
<1>8. AppliedUpTo' = AppliedUpTo
  BY Zenon, <1>2 DEF AppliedUpTo
<1>9. HeldUpTo' = HeldUpTo
  <2>1. mTaskQueue' # <<>> /\ q # <<>> /\ Head(mTaskQueue') = mTaskQueue'[1] /\ 1 \in DOMAIN q
    BY <1>3, <1>5
  <2> QED
    BY Zenon, <1>3, <1>6, <2>1 DEF HeldUpTo
<1>10. log' = log /\ commitIndex' = commitIndex
  <2>1. UNCHANGED raftVars
    BY Zenon, <1>2 DEF notEal
  <2> QED
    BY Zenon, <2>1, RaftStays
<1>11. ASSUME NEW k \in DOMAIN mTaskQueue'
       PROVE  /\ mTaskQueue'[k].from <= mTaskQueue'[k].to /\ mTaskQueue'[k].from >= 1
              /\ mTaskQueue'[k].to = IF k = Len(mTaskQueue') THEN mLoadedIndex' ELSE mTaskQueue'[k + 1].from - 1
  <2>1. /\ q[k].from <= q[k].to /\ q[k].from >= 1
        /\ q[k].to = IF k = Len(q) THEN mLoadedIndex ELSE q[k + 1].from - 1
    BY Zenon, <1>0, <1>5 DEF EalInv
  <2>2. k # Len(q) => k + 1 \in DOMAIN q
    BY <1>3, <1>5
  <2>3. k \in DOMAIN q
    BY Zenon, <1>5
  <2> QED
    BY Zenon, <1>2, <1>5, <1>6, <2>1, <2>2, <2>3
<1>12. EalInv'
  <2> HIDE DEF AppliedUpTo, HeldUpTo
  <2> QED
    BY Zenon, <1>0, <1>2, <1>8, <1>9, <1>10, <1>11 DEF EalInv
<1>13. mLoadedIndex' >= mLoadedIndex
  BY <1>2, <1>3
<1> QED
  BY ZenonT(30), <1>2, <1>7, <1>12, <1>13, ReaderMoves


\* b lists the entries from i to n that are no no-ops, in order.
Lists(b, i, n) ==
  /\ b \in Seq(Nat)
  /\ \A k \in DOMAIN b : b[k] \in i..n /\ ~log[b[k]].noop
  /\ \A k, j \in DOMAIN b : k < j => b[k] < b[j]
  /\ \A j \in i..n : ~log[j].noop => \E k \in DOMAIN b : b[k] = j

\* One more entry
LEMMA ListsStep ==
  ASSUME NEW i \in Nat, NEW n \in Int, i <= n + 1, NEW b, Lists(b, i, n)
  PROVE  Lists(IF log[n + 1].noop THEN b ELSE Append(b, n + 1), i, n + 1)
<1>1. /\ b \in Seq(Nat) /\ Len(b) \in Nat /\ DOMAIN b = 1..Len(b)
      /\ \A k \in DOMAIN b : b[k] \in i..n /\ ~log[b[k]].noop
      /\ \A k, j \in DOMAIN b : k < j => b[k] < b[j]
      /\ \A j \in i..n : ~log[j].noop => \E k \in DOMAIN b : b[k] = j
  BY DEF Lists
<1>2. /\ \A j \in i..n : j \in i..(n + 1) /\ j < n + 1
      /\ \A j \in i..(n + 1) : j \in i..n \/ j = n + 1
      /\ n + 1 \in i..(n + 1) /\ n + 1 \in Nat
  OBVIOUS
<1>3. CASE log[n + 1].noop
  BY Zenon, <1>1, <1>2, <1>3 DEF Lists
<1>4. CASE ~log[n + 1].noop
  <2> DEFINE c == Append(b, n + 1)
  <2>1. /\ c \in Seq(Nat) /\ DOMAIN c = 1..(Len(b) + 1) /\ c[Len(b) + 1] = n + 1 /\ \A k \in 1..Len(b) : c[k] = b[k]
    BY <1>1, <1>2
  <2> HIDE DEF c
  <2>2. /\ \A k \in 1..(Len(b) + 1) : k \in 1..Len(b) \/ k = Len(b) + 1
        /\ \A k \in 1..Len(b) : k \in 1..(Len(b) + 1)
        /\ Len(b) + 1 \in 1..(Len(b) + 1)
    BY <1>1
  <2>3. \A k \in DOMAIN c : c[k] \in i..(n + 1) /\ ~log[c[k]].noop
    BY Zenon, <1>1, <1>2, <1>4, <2>1, <2>2
  <2>4. ASSUME NEW k \in DOMAIN c, NEW j \in DOMAIN c, k < j PROVE c[k] < c[j]
    <3>1. CASE j = Len(b) + 1
      <4>1. k \in 1..Len(b)
        BY <1>1, <2>1, <2>4, <3>1
      <4> QED
        BY Zenon, <1>1, <1>2, <2>1, <3>1, <4>1
    <3>2. CASE j \in 1..Len(b)
      <4>1. k \in 1..Len(b)
        BY <1>1, <2>1, <2>4, <3>2
      <4> QED
        BY Zenon, <1>1, <2>1, <2>4, <3>2, <4>1
    <3> QED
      BY Zenon, <2>1, <2>2, <3>1, <3>2
  <2>5. ASSUME NEW j \in i..(n + 1), ~log[j].noop PROVE \E k \in DOMAIN c : c[k] = j
    <3>1. CASE j = n + 1
      BY Zenon, <2>1, <2>2, <3>1
    <3>2. CASE j \in i..n
      <4>1. PICK k \in DOMAIN b : b[k] = j
        BY Zenon, <1>1, <2>5, <3>2
      <4>2. k \in DOMAIN c /\ c[k] = j
        BY Zenon, <1>1, <2>1, <2>2, <4>1
      <4> QED
        BY Zenon, <4>2
    <3> QED
      BY Zenon, <1>2, <3>1, <3>2
  <2>6. Lists(c, i, n + 1)
    BY Zenon, <2>1, <2>3, <2>4, <2>5 DEF Lists
  <2> QED
    BY Zenon, <1>4, <2>6 DEF c
<1> QED
  BY Zenon, <1>3, <1>4

\* decryptEntries: the bundles of a task are its entries without the no-ops.
LEMMA BundlesOfTask ==
  ASSUME Counting, NEW x, NEW i \in Nat, NEW n \in Nat, x.from = i, x.to = n, i <= n
  PROVE  Lists(BundlesOf(x), i, n)
<1> DEFINE size == n - i + 1
           S == Seq(Nat)
           G == [p \in Nat \X S |-> IF log[i + p[1] - 1].noop \/ p[1] = 0 THEN p[2] ELSE Append(p[2], i + p[1] - 1)]
<1>1. size \in Nat
  OBVIOUS
<1>2. <<>> \in S
  OBVIOUS
<1>3. G \in [Nat \X S -> S]
  <2>1. ASSUME NEW p \in Nat \X S PROVE G[p] \in S
    <3>1. p[1] \in Nat /\ p[2] \in S
      OBVIOUS
    <3>2. CASE p[1] = 0
      BY Zenon, <3>1, <3>2
    <3>3. CASE p[1] # 0
      <4>1. i + p[1] - 1 \in Nat
        BY <3>1, <3>3
      <4>2. \A m \in Nat : \A s \in S : Append(s, m) \in S
        OBVIOUS
      <4> QED
        BY Zenon, <3>1, <4>1, <4>2
    <3> QED
      BY Zenon, <3>2, <3>3
  <2> QED
    BY Zenon, <2>1
<1> HIDE DEF S
<1>4. PICK f : Iterates(f, size, S, <<>>, G)
  <2> HIDE DEF G, size
  <2> QED
    BY Zenon, <1>1, <1>2, <1>3, Recursion
<1> DEFINE Is(h) == h = [k \in 0..size |-> IF k = 0 THEN <<>>
                                           ELSE IF log[i + k - 1].noop THEN h[k - 1] ELSE Append(h[k - 1], i + k - 1)]
<1>5. Is(f)
  <2>1. f \in [0..size -> S] /\ f[0] = <<>> /\ \A k \in 1..size : f[k] = G[<<k, f[k - 1]>>]
    BY Zenon, <1>4 DEF Iterates
  <2>2. ASSUME NEW k \in 0..size, k # 0 PROVE f[k] = IF log[i + k - 1].noop THEN f[k - 1] ELSE Append(f[k - 1], i + k - 1)
    <3> HIDE DEF size
    <3>1. k \in 1..size /\ k \in Nat /\ k - 1 \in 0..size
      BY <1>1, <2>2
    <3>2. f[k - 1] \in S
      BY Zenon, <2>1, <3>1
    <3>3. G[<<k, f[k - 1]>>] = IF log[i + k - 1].noop THEN f[k - 1] ELSE Append(f[k - 1], i + k - 1)
      BY <2>2, <3>1, <3>2
    <3> QED
      BY Zenon, <2>1, <3>1, <3>3
  <2> HIDE DEF size
  <2> QED
    BY <2>1, <2>2
<1> DEFINE c == CHOOSE h : Is(h)
<1>6. Is(c)
  BY Zenon, <1>5
<1>7. BundlesOf(x) = c[size]
  BY Zenon DEF BundlesOf
<1>8. \A k \in 0..size : Lists(c[k], i, i + k - 1)
  <2> DEFINE P == {k \in 0..size : Lists(c[k], i, i + k - 1)}
  <2> HIDE DEF c
  <2>0. c = [k \in 0..size |-> IF k = 0 THEN <<>> ELSE IF log[i + k - 1].noop THEN c[k - 1] ELSE Append(c[k - 1], i + k - 1)]
    BY Zenon, <1>6
  <2> HIDE DEF size, G
  <2>1. 0 \in P
    <3>1. 0 \in 0..size
      BY <1>1
    <3>2. c[0] = <<>>
      BY Zenon, <2>0, <3>1
    <3>3. <<>> \in Seq(Nat) /\ (\A k \in DOMAIN <<>> : FALSE) /\ (\A j \in i..(i + 0 - 1) : FALSE)
      OBVIOUS
    <3>4. Lists(<<>>, i, i + 0 - 1)
      BY Zenon, <3>3 DEF Lists
    <3> QED
      BY Zenon, <3>1, <3>2, <3>4
  <2>2. ASSUME NEW k \in 1..size, k - 1 \in P PROVE k \in P
    <3>1. /\ k \in 0..size /\ k # 0 /\ i + (k - 1) - 1 \in Int /\ i <= (i + (k - 1) - 1) + 1
          /\ (i + (k - 1) - 1) + 1 = i + k - 1
      BY <1>1
    <3>2. c[k] = IF log[i + k - 1].noop THEN c[k - 1] ELSE Append(c[k - 1], i + k - 1)
      BY Zenon, <2>0, <3>1
    <3>3. Lists(c[k - 1], i, i + (k - 1) - 1)
      BY Zenon, <2>2
    <3>4. Lists(IF log[(i + (k - 1) - 1) + 1].noop THEN c[k - 1] ELSE Append(c[k - 1], (i + (k - 1) - 1) + 1), i,
                (i + (k - 1) - 1) + 1)
      BY Zenon, <3>1, <3>3, ListsStep
    <3>5. Lists(IF log[i + k - 1].noop THEN c[k - 1] ELSE Append(c[k - 1], i + k - 1), i, i + k - 1)
      BY Zenon, <3>1, <3>4
    <3>6. Lists(c[k], i, i + k - 1)
      BY Zenon, <3>2, <3>5
    <3> QED
      BY Zenon, <3>1, <3>6
  <2>3. \A k \in 0..size : k \in P
    <3> HIDE DEF P
    <3> QED
      BY Zenon, <1>1, <2>1, <2>2, Upwards
  <2> QED
    BY Zenon, <2>3
<1>9. size \in 0..size /\ i + size - 1 = n
  OBVIOUS
<1> HIDE DEF c, size
<1>10. Lists(c[size], i, i + size - 1)
  BY Zenon, <1>8, <1>9
<1> QED
  BY Zenon, <1>7, <1>9, <1>10


\* The EAL takes the first of the bundles it holds.
LEMMA TakeBundle ==
  ASSUME Counting, PipelineInv, ~mShouldRecover, ealPc # "apply",
         NEW B, NEW H \in Int, AppliedUpTo <= H, H <= mLoadedIndex, Lists(B, AppliedUpTo + 1, H),
         mAppliedIndex' = AppliedUpTo, HeldUpTo' = H, mTaskQueue' \in Seq(Loaded),
         UNCHANGED <<ealState, dbState, mShouldRecover, mLoadedIndex, notEal, assertion>>,
         \A k \in DOMAIN mTaskQueue' :
           /\ mTaskQueue'[k].from <= mTaskQueue'[k].to /\ mTaskQueue'[k].from >= 1
           /\ mTaskQueue'[k].to = IF k = Len(mTaskQueue') THEN mLoadedIndex' ELSE mTaskQueue'[k + 1].from - 1,
         IF B = <<>>
         THEN ealPc' = "idle" /\ mCachedBundles' = <<>> /\ UNCHANGED mApplyingIndex
         ELSE ealPc' = "apply" /\ mCachedBundles' = Tail(B) /\ mApplyingIndex' = Head(B)
  PROVE  PipelineInv'
<1> DEFINE A == AppliedUpTo
<1>0. RaftTypeOK /\ EalTypeOK /\ EalInv
  BY Zenon DEF PipelineInv
<1>1. /\ B \in Seq(Nat) /\ Len(B) \in Nat /\ DOMAIN B = 1..Len(B)
      /\ \A k \in DOMAIN B : B[k] \in (A + 1)..H /\ ~log[B[k]].noop
      /\ \A k, j \in DOMAIN B : k < j => B[k] < B[j]
      /\ \A j \in (A + 1)..H : ~log[j].noop => \E k \in DOMAIN B : B[k] = j
  <2>1. B \in Seq(Nat)
    BY Zenon DEF Lists
  <2>2. Len(B) \in Nat /\ DOMAIN B = 1..Len(B)
    BY <2>1
  <2> QED
    BY Zenon, <2>1, <2>2 DEF Lists
<1>2. /\ mLoadedIndex \in Nat /\ mAppliedIndex \in Nat /\ mApplyingIndex \in Nat /\ A \in Nat
  BY Zenon, <1>0, ReaderTypes
<1>3. ealState = StateAt(log, A) /\ mLoadedIndex <= commitIndex
  BY Zenon, <1>0 DEF EalInv
<1>4. log \in Seq(Entry) /\ commitIndex \in Nat /\ commitIndex <= Len(log) /\ Len(log) \in Nat
  BY <1>0 DEF RaftTypeOK
<1>5. log' = log /\ commitIndex' = commitIndex
  <2>1. UNCHANGED raftVars
    BY Zenon DEF notEal
  <2> QED
    BY Zenon, <2>1, RaftStays
<1>6. mApplyingIndex <= A
  BY <1>2 DEF AppliedUpTo
<1>7. mLoadedIndex' >= mLoadedIndex /\ H <= mLoadedIndex' /\ mLoadedIndex' <= commitIndex'
  BY <1>2, <1>3, <1>5
<1>8. CASE B = <<>>
  <2>1. ealPc' = "idle" /\ mCachedBundles' = <<>> /\ mApplyingIndex' = mApplyingIndex
    BY Zenon, <1>8
  <2>2. AppliedUpTo' = A /\ ~(mApplyingIndex' > mAppliedIndex')
    <3>1. mAppliedIndex' = A
      OBVIOUS
    <3> HIDE DEF A
    <3> QED
      BY <1>2, <1>6, <2>1, <3>1 DEF AppliedUpTo
  <2>3. EalTypeOK'
    <3>1. /\ ealPc' \in {"idle", "load", "apply"} /\ mCachedBundles' \in Seq(Nat)
      BY <2>1
    <3> QED
      BY Zenon, <1>0, <1>2, <2>1, <3>1 DEF EalTypeOK
  <2>4. /\ \A k \in DOMAIN mCachedBundles' : FALSE
        /\ \A j \in (A + 1)..H : log[j].noop
        /\ ealPc' # "apply"
    <3>1. DOMAIN B = {} /\ DOMAIN mCachedBundles' = {} /\ ealPc' # "apply"
      BY <1>8, <2>1
    <3> QED
      BY Zenon, <1>1, <3>1
  <2>5. EalInv'
    <3> HIDE DEF A, AppliedUpTo, HeldUpTo
    <3>1. AppliedUpTo' <= HeldUpTo' /\ HeldUpTo' <= mLoadedIndex' /\ ealState' = StateAt(log', AppliedUpTo')
      BY Zenon, <1>3, <1>5, <1>7, <2>2 DEF A
    <3> QED
      BY Zenon, <1>3, <1>5, <1>7, <2>2, <2>4, <3>1 DEF EalInv
  <2> QED
    BY Zenon, <1>7, <2>3, <2>5, ReaderMoves
<1>9. CASE B # <<>>
  <2> DEFINE h == B[1]
             c == Tail(B)
  <2>1. 1 \in DOMAIN B /\ Head(B) = h /\ h \in (A + 1)..H /\ ~log[h].noop
    <3>1. 1 \in DOMAIN B /\ Head(B) = h
      BY <1>1, <1>9
    <3> QED
      BY Zenon, <1>1, <3>1
  <2>2. ealPc' = "apply" /\ mCachedBundles' = c /\ mApplyingIndex' = h
    BY Zenon, <1>9, <2>1
  <2>3. h \in Nat /\ h > A /\ A <= h - 1 /\ h - 1 \in 0..Len(log) /\ h <= H
    BY <1>2, <1>3, <1>4, <2>1
  <2>4. /\ c \in Seq(Nat) /\ DOMAIN c = 1..(Len(B) - 1) /\ \A k \in 1..(Len(B) - 1) : c[k] = B[k + 1]
    BY <1>1, <1>9
  <2> HIDE DEF c, h
  <2>5. /\ \A k \in 1..(Len(B) - 1) : k + 1 \in DOMAIN B /\ 1 < k + 1
        /\ \A k \in DOMAIN B : k = 1 \/ (1 < k /\ k - 1 \in 1..(Len(B) - 1) /\ (k - 1) + 1 = k)
    BY <1>1
  <2>6. AppliedUpTo' = h /\ mApplyingIndex' > mAppliedIndex'
    <3>1. mAppliedIndex' = A
      OBVIOUS
    <3> HIDE DEF A
    <3> QED
      BY <1>2, <2>2, <2>3, <3>1 DEF AppliedUpTo
  <2>7. EalTypeOK'
    <3>1. ealPc' \in {"idle", "load", "apply"}
      BY <2>2
    <3> QED
      BY Zenon, <1>0, <1>2, <2>2, <2>3, <2>4, <3>1 DEF EalTypeOK
  <2>8. \A j \in (A + 1)..(h - 1) : log[j].noop
    <3> SUFFICES ASSUME NEW j \in (A + 1)..(h - 1), ~log[j].noop PROVE FALSE
      BY Zenon
    <3>1. j \in (A + 1)..H /\ j < h /\ j \in Nat
      BY <1>2, <2>1, <2>3
    <3>2. PICK k \in DOMAIN B : B[k] = j
      BY Zenon, <1>1, <3>1
    <3>3. k = 1 \/ 1 < k
      BY Zenon, <2>5
    <3>4. j = h \/ h < j
      BY Zenon, <1>1, <2>1, <3>2, <3>3 DEF h
    <3> QED
      BY <2>3, <3>1, <3>4
  <2>9. ealState = StateAt(log, h - 1)
    BY Zenon, <1>2, <1>3, <1>4, <2>3, <2>8, StateOverNoops
  <2>10. ASSUME NEW k \in DOMAIN c PROVE c[k] \in (h + 1)..H /\ ~log[c[k]].noop
    <3>1. k + 1 \in DOMAIN B /\ c[k] = B[k + 1] /\ h < B[k + 1] /\ B[k + 1] \in (A + 1)..H /\ ~log[B[k + 1]].noop
      BY Zenon, <1>1, <2>1, <2>4, <2>5 DEF h
    <3>2. B[k + 1] \in (h + 1)..H
      BY <1>2, <2>3, <3>1
    <3> QED
      BY Zenon, <3>1, <3>2
  <2>11. ASSUME NEW k \in DOMAIN c, NEW j \in DOMAIN c, k < j PROVE c[k] < c[j]
    <3>1. k + 1 \in DOMAIN B /\ j + 1 \in DOMAIN B /\ c[k] = B[k + 1] /\ c[j] = B[j + 1]
      BY Zenon, <2>4, <2>5
    <3>2. k + 1 < j + 1
      BY <2>4, <2>11
    <3> QED
      BY Zenon, <1>1, <3>1, <3>2
  <2>12. ASSUME NEW j \in (h + 1)..H, ~log[j].noop PROVE \E k \in DOMAIN c : c[k] = j
    <3>1. j \in (A + 1)..H /\ j # h
      BY <1>2, <2>3
    <3>2. PICK k \in DOMAIN B : B[k] = j
      BY Zenon, <1>1, <2>12, <3>1
    <3>3. k # 1
      BY Zenon, <3>1, <3>2 DEF h
    <3>4. k - 1 \in DOMAIN c /\ c[k - 1] = j
      BY Zenon, <2>4, <2>5, <3>2, <3>3
    <3> QED
      BY Zenon, <3>4
  <2>13. EalInv'
    <3> HIDE DEF A, AppliedUpTo, HeldUpTo
    <3>1. AppliedUpTo' <= HeldUpTo' /\ HeldUpTo' <= mLoadedIndex'
      BY Zenon, <1>7, <2>3, <2>6
    <3>2. ealState' = StateAt(log', IF ealPc' = "apply" THEN AppliedUpTo' - 1 ELSE AppliedUpTo')
      BY Zenon, <1>5, <2>2, <2>6, <2>9
    <3>3. /\ mApplyingIndex' > mAppliedIndex' => ~log'[mApplyingIndex'].noop
      BY Zenon, <1>5, <2>1, <2>2
    <3>4. \A k \in DOMAIN mCachedBundles' : mCachedBundles'[k] \in (AppliedUpTo' + 1)..HeldUpTo' /\ ~log'[mCachedBundles'[k]].noop
      BY Zenon, <1>5, <2>2, <2>6, <2>10
    <3>5. \A k, j \in DOMAIN mCachedBundles' : k < j => mCachedBundles'[k] < mCachedBundles'[j]
      BY Zenon, <2>2, <2>11
    <3>6. \A i \in (AppliedUpTo' + 1)..HeldUpTo' : ~log'[i].noop => \E k \in DOMAIN mCachedBundles' : mCachedBundles'[k] = i
      BY Zenon, <1>5, <2>2, <2>6, <2>12
    <3> QED
      BY Zenon, <1>7, <2>6, <3>1, <3>2, <3>3, <3>4, <3>5, <3>6 DEF EalInv
  <2> QED
    BY Zenon, <1>7, <2>7, <2>13, ReaderMoves
<1> QED
  BY Zenon, <1>8, <1>9

\* loadNextCommandEvents
LEMMA LoadNextKeeps ==
  ASSUME Counting, PipelineInv, LoadNextCommandEvents
  PROVE  PipelineInv'
<1> DEFINE A == AppliedUpTo
           q == mTaskQueue
           B == IF TaskReady THEN BundlesOf(Head(mTaskQueue)) ELSE mCachedBundles
<1>0. RaftTypeOK /\ EalTypeOK /\ EalInv
  BY Zenon DEF PipelineInv
<1>1. /\ mAppliedIndex' = AppliedUpTo
      /\ mTaskQueue' = IF TaskReady THEN Tail(mTaskQueue) ELSE mTaskQueue
      /\ IF B = <<>>
         THEN ealPc' = "idle" /\ mCachedBundles' = <<>> /\ UNCHANGED mApplyingIndex
         ELSE ealPc' = "apply" /\ mCachedBundles' = Tail(B) /\ mApplyingIndex' = Head(B)
      /\ UNCHANGED <<ealState, dbState, mShouldRecover, mLoadedIndex, notEal, assertion>>
  BY Zenon DEF LoadNextCommandEvents, AppliedUpTo
<1>2. ealPc # "apply"
  <2>1. ealPc = "idle" \/ ealPc = "load"
    BY Zenon DEF LoadNextCommandEvents
  <2> QED
    BY <2>1
<1>3. ~mShouldRecover
  <2>1. (ealPc = "idle" /\ ~mShouldRecover) \/ ealPc = "load"
    BY Zenon DEF LoadNextCommandEvents
  <2>2. mShouldRecover => ealPc = "idle"
    BY Zenon, <1>0 DEF EalInv
  <2> QED
    BY <2>1, <2>2
<1>4. /\ mLoadedIndex \in Nat /\ A \in Nat /\ HeldUpTo \in Int
      /\ q \in Seq(Loaded) /\ Len(q) \in Nat /\ DOMAIN q = 1..Len(q)
      /\ \A k \in DOMAIN q : q[k] \in Loaded /\ q[k].from \in Nat /\ q[k].to \in Nat
      /\ q # <<>> => 1 \in DOMAIN q /\ HeldUpTo = q[1].from - 1
  BY Zenon, <1>0, ReaderTypes
<1>5. /\ A <= HeldUpTo /\ HeldUpTo <= mLoadedIndex
      /\ \A k \in DOMAIN q :
           /\ q[k].from <= q[k].to /\ q[k].from >= 1
           /\ q[k].to = IF k = Len(q) THEN mLoadedIndex ELSE q[k + 1].from - 1
      /\ \A i \in (A + 1)..HeldUpTo : ~log[i].noop => \E k \in DOMAIN mCachedBundles : mCachedBundles[k] = i
  BY Zenon, <1>0 DEF EalInv
<1>6. CASE ~TaskReady
  <2>1. B = mCachedBundles /\ mTaskQueue' = mTaskQueue
    BY Zenon, <1>1, <1>6
  <2>2. HeldUpTo' = HeldUpTo
    BY Zenon, <1>1, <2>1 DEF HeldUpTo
  <2>3. Lists(mCachedBundles, A + 1, HeldUpTo)
    BY Zenon, <1>0 DEF EalInv, EalTypeOK, Lists
  <2>4. \A k \in DOMAIN mTaskQueue' :
          /\ mTaskQueue'[k].from <= mTaskQueue'[k].to /\ mTaskQueue'[k].from >= 1
          /\ mTaskQueue'[k].to = IF k = Len(mTaskQueue') THEN mLoadedIndex' ELSE mTaskQueue'[k + 1].from - 1
    BY Zenon, <1>1, <1>5, <2>1
  <2>5. mTaskQueue' \in Seq(Loaded)
    BY Zenon, <1>4, <2>1
  <2> HIDE DEF B
  <2> QED
    BY Zenon, <1>1, <1>2, <1>3, <1>4, <1>5, <2>1, <2>2, <2>3, <2>4, <2>5, TakeBundle
<1>7. CASE TaskReady
  <2>1. /\ B = BundlesOf(Head(q)) /\ mTaskQueue' = Tail(q) /\ mCachedBundles = <<>> /\ q # <<>>
    BY Zenon, <1>1, <1>7 DEF TaskReady
  <2>2. Head(q) = q[1]
    BY <1>4, <2>1
  <2> DEFINE from == q[1].from
             to == q[1].to
  <2>3. /\ 1 \in DOMAIN q /\ HeldUpTo = from - 1 /\ from \in Nat /\ to \in Nat /\ from <= to /\ from >= 1
        /\ to = IF 1 = Len(q) THEN mLoadedIndex ELSE q[1 + 1].from - 1
    BY Zenon, <1>4, <1>5, <2>1
  <2>4. Lists(B, from, to)
    <3> HIDE DEF B
    <3> QED
      BY Zenon, <2>1, <2>2, <2>3, BundlesOfTask
  <2>5. \A i \in (A + 1)..HeldUpTo : log[i].noop
    <3>1. DOMAIN mCachedBundles = {}
      BY <2>1
    <3> QED
      BY Zenon, <1>5, <3>1
  <2> HIDE DEF B, A, from, to
  <2>6. Lists(B, A + 1, to)
    <3>1. /\ \A i \in from..to : i \in (A + 1)..to
          /\ \A i \in (A + 1)..to : i \in from..to \/ i \in (A + 1)..HeldUpTo
      BY <1>4, <1>5, <2>3
    <3> QED
      BY Zenon, <2>4, <2>5, <3>1 DEF Lists
  <2> DEFINE c == Tail(q)
  <2>7. /\ c \in Seq(Loaded) /\ Len(c) = Len(q) - 1 /\ DOMAIN c = 1..(Len(q) - 1) /\ \A k \in 1..(Len(q) - 1) : c[k] = q[k + 1]
    BY <1>4, <2>1
  <2>8. HeldUpTo' = to
    <3>1. CASE Len(q) = 1
      <4>1. c = <<>>
        BY <2>7, <3>1
      <4>2. HeldUpTo' = mLoadedIndex
        BY Zenon, <1>1, <2>1, <4>1 DEF HeldUpTo
      <4> QED
        BY Zenon, <2>3, <3>1, <4>2
    <3>2. CASE Len(q) # 1
      <4>1. c # <<>> /\ Head(c) = q[1 + 1]
        <5>1. Len(q) - 1 >= 1 /\ 1 \in 1..(Len(q) - 1)
          BY <1>4, <2>3, <3>2
        <5>2. c # <<>> /\ Head(c) = c[1]
          <6> HIDE DEF c
          <6> QED
            BY <2>7, <5>1
        <5> QED
          BY Zenon, <2>7, <5>1, <5>2
      <4>2. HeldUpTo' = q[1 + 1].from - 1
        BY Zenon, <2>1, <4>1 DEF HeldUpTo
      <4> QED
        BY Zenon, <2>3, <3>2, <4>2
    <3> QED
      BY Zenon, <3>1, <3>2
  <2>9. ASSUME NEW k \in DOMAIN c
        PROVE  /\ c[k].from <= c[k].to /\ c[k].from >= 1
               /\ c[k].to = IF k = Len(c) THEN mLoadedIndex ELSE c[k + 1].from - 1
    <3> HIDE DEF c
    <3>1. /\ k + 1 \in DOMAIN q /\ c[k] = q[k + 1] /\ (k + 1 = Len(q) <=> k = Len(c))
          /\ k # Len(c) => k + 1 \in 1..(Len(q) - 1)
      BY <1>4, <2>7
    <3>2. k # Len(c) => c[k + 1] = q[(k + 1) + 1]
      BY Zenon, <2>7, <3>1
    <3> QED
      BY Zenon, <1>5, <3>1, <3>2
  <2>10. A <= to /\ to <= mLoadedIndex /\ to \in Int
    <3>1. to <= mLoadedIndex
      <4>1. ASSUME Len(q) # 1 PROVE q[1 + 1].from - 1 <= mLoadedIndex
        <5>1. 1 + 1 \in DOMAIN q
          BY <1>4, <2>3, <4>1
        <5> DEFINE P == {k \in 0..(Len(q) - 1) : q[Len(q) - k].to <= mLoadedIndex}
        <5>2. 0 \in P
          <6>1. Len(q) - 0 = Len(q) /\ 0 \in 0..(Len(q) - 1) /\ Len(q) \in DOMAIN q
            BY <1>4, <5>1
          <6>2. q[Len(q)].to = mLoadedIndex
            BY Zenon, <1>5, <6>1
          <6>3. mLoadedIndex <= mLoadedIndex
            BY <1>4
          <6> QED
            BY Zenon, <6>1, <6>2, <6>3
        <5>3. ASSUME NEW k \in 1..(Len(q) - 1), k - 1 \in P PROVE k \in P
          <6>1. /\ Len(q) - k \in DOMAIN q /\ Len(q) - k # Len(q) /\ (Len(q) - k) + 1 = Len(q) - (k - 1)
                /\ k \in 0..(Len(q) - 1) /\ Len(q) - (k - 1) \in DOMAIN q
            <7>1. \A n \in Nat : \A j \in 1..(n - 1) :
                    n - j \in 1..n /\ n - j # n /\ (n - j) + 1 = n - (j - 1) /\ j \in 0..(n - 1) /\ n - (j - 1) \in 1..n
              OBVIOUS
            <7> HIDE DEF P
            <7> QED
              BY Zenon, <1>4, <7>1
          <6>2. /\ q[Len(q) - k].to = q[Len(q) - (k - 1)].from - 1
                /\ q[Len(q) - (k - 1)].from <= q[Len(q) - (k - 1)].to
            BY Zenon, <1>5, <6>1
          <6>3. q[Len(q) - (k - 1)].to <= mLoadedIndex
            BY Zenon, <5>3
          <6>4. /\ q[Len(q) - k].to \in Nat /\ q[Len(q) - (k - 1)].from \in Nat /\ q[Len(q) - (k - 1)].to \in Nat
            BY Zenon, <1>4, <6>1
          <6>5. q[Len(q) - k].to <= mLoadedIndex
            BY <1>4, <6>2, <6>3, <6>4
          <6> QED
            BY Zenon, <6>1, <6>5
        <5>4. \A k \in 0..(Len(q) - 1) : k \in P
          <6>1. Len(q) - 1 \in Nat
            BY <1>4, <5>1
          <6> HIDE DEF P
          <6> QED
            BY Zenon, <5>2, <5>3, <6>1, Upwards
        <5>5. Len(q) - 1 \in 0..(Len(q) - 1) /\ Len(q) - (Len(q) - 1) = 1
          BY <1>4, <5>1
        <5>6. q[1].to <= mLoadedIndex
          BY Zenon, <5>4, <5>5
        <5> QED
          BY Zenon, <2>3, <4>1, <5>6 DEF to
      <4>2. mLoadedIndex <= mLoadedIndex
        BY <1>4
      <4> QED
        BY Zenon, <2>3, <4>1, <4>2
    <3> QED
      BY <1>4, <1>5, <2>3, <3>1
  <2>11. \A k \in DOMAIN mTaskQueue' :
           /\ mTaskQueue'[k].from <= mTaskQueue'[k].to /\ mTaskQueue'[k].from >= 1
           /\ mTaskQueue'[k].to = IF k = Len(mTaskQueue') THEN mLoadedIndex' ELSE mTaskQueue'[k + 1].from - 1
    BY Zenon, <1>1, <2>1, <2>9
  <2>12. mTaskQueue' \in Seq(Loaded)
    BY Zenon, <2>1, <2>7
  <2> QED
    BY Zenon, <1>1, <1>2, <1>3, <2>6, <2>8, <2>10, <2>11, <2>12, TakeBundle DEF A, B
<1> QED
  BY Zenon, <1>6, <1>7

\* The EAL applies the events of an entry.
LEMMA ApplyEventsKeeps ==
  ASSUME Counting, PipelineInv, ApplyEvents
  PROVE  PipelineInv'
<1> DEFINE m == mApplyingIndex
<1>0. RaftTypeOK /\ EalTypeOK /\ EalInv /\ DbInv /\ WaitInv /\ CplTypeOK
  BY Zenon DEF PipelineInv
<1>1. /\ ealPc = "apply" /\ ealState' = Append(ealState, Id(log, m)) /\ ealPc' = "idle"
      /\ UNCHANGED <<dbState, mShouldRecover, readerVars, notEal, assertion>>
  BY Zenon DEF ApplyEvents
<1>2. /\ mLoadedIndex' = mLoadedIndex /\ mAppliedIndex' = mAppliedIndex /\ mApplyingIndex' = mApplyingIndex
      /\ mTaskQueue' = mTaskQueue /\ mCachedBundles' = mCachedBundles /\ dbState' = dbState
      /\ mShouldRecover' = mShouldRecover
  BY Zenon, <1>1 DEF readerVars
<1>3. AppliedUpTo' = AppliedUpTo /\ HeldUpTo' = HeldUpTo
  BY Zenon, <1>2 DEF AppliedUpTo, HeldUpTo
<1>4. /\ UNCHANGED raftVars /\ log' = log /\ commitIndex' = commitIndex /\ RaftTypeOK' /\ CommitGrows
      /\ UNCHANGED <<pc, read, mLastCommandId, mLastCheckedTerm, mShouldRecover>>
  <2>1. UNCHANGED raftVars
    BY Zenon, <1>1 DEF notEal
  <2> QED
    BY Zenon, <1>1, <2>1, RaftStays DEF notEal, cplVars
<1>5. /\ mLoadedIndex \in Nat /\ mAppliedIndex \in Nat /\ m \in Nat /\ AppliedUpTo \in Nat /\ HeldUpTo \in Int
  BY Zenon, <1>0, ReaderTypes
<1>6. m > mAppliedIndex /\ ~log[m].noop /\ AppliedUpTo <= HeldUpTo /\ HeldUpTo <= mLoadedIndex /\ mLoadedIndex <= commitIndex
  BY Zenon, <1>0, <1>1 DEF EalInv
<1>7. AppliedUpTo = m
  BY Zenon, <1>6 DEF AppliedUpTo
<1>8. ~mShouldRecover
  <2>1. mShouldRecover => ealPc = "idle"
    BY Zenon, <1>0 DEF EalInv
  <2> QED
    BY <1>1, <2>1
<1>9. ealState = StateAt(log, m - 1)
  BY Zenon, <1>0, <1>1, <1>7, <1>8 DEF EalInv
<1>10. /\ log \in Seq(Entry) /\ m \in 1..Len(log) /\ m \in 0..Len(log) /\ m - 1 \in Nat /\ m - 1 <= m
  <2>1. log \in Seq(Entry) /\ commitIndex \in Nat /\ commitIndex <= Len(log) /\ Len(log) \in Nat
    BY <1>0 DEF RaftTypeOK
  <2>2. m <= commitIndex
    <3> HIDE DEF AppliedUpTo, HeldUpTo
    <3> QED
      BY <1>5, <1>6, <1>7, <2>1
  <2> QED
    BY <1>5, <1>6, <2>1, <2>2
<1>11. ealState' = StateAt(log, m)
  BY Zenon, <1>1, <1>6, <1>9, <1>10, StateAtStep
<1>12. StateAt(log, m) \in States /\ IsPrefix(ealState, StateAt(log, m))
  BY Zenon, <1>9, <1>10, StateAtFacts, StatesGrow
<1>13. EalTypeOK'
  <2>1. ealPc' \in {"idle", "load", "apply"}
    BY <1>1
  <2> QED
    BY Zenon, <1>0, <1>2, <1>11, <1>12, <2>1 DEF EalTypeOK
<1>14. EalInv'
  <2> HIDE DEF AppliedUpTo, HeldUpTo
  <2>1. ealPc' # "apply" /\ ealPc' = "idle"
    BY <1>1
  <2>2. ealState' = StateAt(log', IF ealPc' = "apply" THEN AppliedUpTo' - 1 ELSE AppliedUpTo')
    BY Zenon, <1>3, <1>4, <1>7, <1>11, <2>1
  <2>3. /\ mLoadedIndex' <= commitIndex' /\ ~log'[mApplyingIndex'].noop
        /\ AppliedUpTo' <= HeldUpTo' /\ HeldUpTo' <= mLoadedIndex' /\ ~mShouldRecover'
    <3>1. mLoadedIndex' <= commitIndex' /\ ~log'[mApplyingIndex'].noop /\ ~mShouldRecover'
      <4>1. mLoadedIndex <= commitIndex /\ ~log[mApplyingIndex].noop
        BY Zenon, <1>6
      <4>2. log'[mApplyingIndex'] = log[mApplyingIndex]
        BY Zenon, <1>2, <1>4
      <4>3. mLoadedIndex' <= commitIndex'
        BY Zenon, <1>2, <1>4, <4>1
      <4>4. ~mShouldRecover'
        BY Zenon, <1>2, <1>8
      <4> QED
        BY Zenon, <4>1, <4>2, <4>3, <4>4
    <3>2. AppliedUpTo' <= HeldUpTo' /\ HeldUpTo' <= mLoadedIndex'
      BY Zenon, <1>2, <1>3, <1>6
    <3> QED
      BY Zenon, <3>1, <3>2
  <2>4. \A k \in DOMAIN mTaskQueue' :
          /\ mTaskQueue'[k].from <= mTaskQueue'[k].to /\ mTaskQueue'[k].from >= 1
          /\ mTaskQueue'[k].to = IF k = Len(mTaskQueue') THEN mLoadedIndex' ELSE mTaskQueue'[k + 1].from - 1
    BY Zenon, <1>0, <1>2 DEF EalInv
  <2>5. /\ \A k \in DOMAIN mCachedBundles' :
             mCachedBundles'[k] \in (AppliedUpTo' + 1)..HeldUpTo' /\ ~log'[mCachedBundles'[k]].noop
        /\ \A k, j \in DOMAIN mCachedBundles' : k < j => mCachedBundles'[k] < mCachedBundles'[j]
        /\ \A i \in (AppliedUpTo' + 1)..HeldUpTo' :
             ~log'[i].noop => \E k \in DOMAIN mCachedBundles' : mCachedBundles'[k] = i
    BY Zenon, <1>0, <1>2, <1>3, <1>4 DEF EalInv
  <2> QED
    BY ZenonT(30), <2>1, <2>2, <2>3, <2>4, <2>5 DEF EalInv
<1>15. DbInv'
  BY Zenon, <1>0, <1>2, <1>4, DbStays
<1>16. WaitInv'
  <2>1. mLoadedIndex' >= mLoadedIndex /\ mLoadedIndex' \in Nat
    BY <1>2, <1>5
  <2>2. ASSUME pc = "swap", IsPrefix(StateAt(log, mLastCommandId), ealState)
        PROVE  IsPrefix(StateAt(log, mLastCommandId), ealState')
    <3>1. mLastCommandId \in 0..Len(log)
      <4>1. mLastCommandId \in 1..commitIndex
        BY Zenon, <1>0, <2>2 DEF WaitInv
      <4> QED
        BY <1>0, <4>1 DEF RaftTypeOK
    <3>2. StateAt(log, mLastCommandId) \in States /\ ealState \in States
      BY Zenon, <1>0, <1>10, <3>1, StateAtFacts DEF EalTypeOK
    <3> QED
      BY Zenon, <1>11, <1>12, <2>2, <3>2, PrefixFacts DEF States
  <2> QED
    BY Zenon, <1>0, <1>4, <1>5, <2>1, <2>2, WaitStays
<1> QED
  BY Zenon, <1>1, <1>13, <1>14, <1>15, <1>16, EalMoves


-----------------------------------------------------------------------------
(* The reply loop                                                          *)

\* Two tasks that differ in their flags at most
SameTask(x, y) == x.index = y.index /\ x.term = y.term /\ x.cmd = y.cmd /\ x.code = y.code /\ x.base = y.base

NoNewTask == \A x \in Tasks' : \E y \in Tasks : SameTask(x, y)

\* A step of a reply thread that adds no task
LEMMA ReplyMoves ==
  ASSUME Counting, PipelineInv, PlaceInv, UNCHANGED notReply, assertion' = assertion, ReplyTypeOK', AnswersAreCommitted', NoNewTask
  PROVE  PipelineInv' /\ PlaceInv'
<1>0. /\ RaftTypeOK /\ RaftInv /\ DecidedInv /\ QueueTypeOK /\ CplTypeOK /\ EalTypeOK /\ ReplyTypeOK /\ ChargeInv
      /\ LeadsInv /\ DecisionInv /\ RequestInv /\ TaskInv /\ EalInv /\ DbInv /\ WaitInv /\ AnswersAreCommitted /\ AssertionsHold
  BY Zenon DEF PipelineInv
<1>1. UNCHANGED <<raftVars, cplVars, ealVars, queueVars>>
  BY Zenon DEF notReply
<1>2. /\ pc' = pc /\ command' = command /\ arrived' = arrived /\ mLastCheckedTerm' = mLastCheckedTerm
      /\ mLastCheckedRole' = mLastCheckedRole /\ mLastCommandId' = mLastCommandId /\ cplState' = cplState /\ read' = read
  BY Zenon, <1>1 DEF cplVars
<1>3. /\ currentTerm' = currentTerm /\ role' = role /\ log' = log /\ commitIndex' = commitIndex /\ Logs' = Logs
      /\ RaftTypeOK' /\ RaftInv' /\ DecidedInv'
      /\ \A s, i, t : Speaks(s, i, t)' <=> Speaks(s, i, t)
      /\ \A t : OnlyNoops(t)' <=> OnlyNoops(t)
  BY Zenon, <1>1, RaftStays
<1>4. QueueTypeOK' /\ Requests' = Requests
  BY Zenon, <1>1, QueuesStay
<1>5. OutOfWait' = OutOfWait /\ Leads' = Leads
  BY Zenon, <1>2, <1>3 DEF OutOfWait, Leads
<1>6. InCharge' = InCharge
  BY Zenon, <1>5 DEF InCharge
<1>7. CplTypeOK'
  BY Zenon, <1>0, <1>2, <1>3 DEF CplTypeOK
<1>8. LeadsInv'
  BY Zenon, <1>0, <1>2, <1>3, <1>5, <1>6 DEF LeadsInv
<1>9. Speculates' = Speculates
  BY <1>2, <1>3 DEF Speculates, Misses
<1>10. ChargeInv'
  BY Zenon, <1>0, <1>2, <1>3, <1>6, <1>9 DEF ChargeInv
<1>11. DecisionInv'
  BY Zenon, <1>0, <1>2, <1>3 DEF DecisionInv, Speaks, Committed, HasTerm
<1>12. RequestInv'
  BY Zenon, <1>0, <1>2, <1>4, <1>5, <1>6 DEF RequestInv, Misses
<1>13. TaskInv'
  <2> SUFFICES ASSUME NEW x \in Tasks'
               PROVE /\ x.term <= mLastCheckedTerm'
                     /\ x.term = mLastCheckedTerm' =>
                          /\ mLastCheckedRole' /\ OutOfWait'
                          /\ x.index <= mLastCommandId'
                          /\ InCharge' /\ x.code = "refused" => Misses(x.base, cplState', mLastCommandId' - x.index)
                          /\ x.code = "200" /\ pc' = "persist" /\ x.index = mLastCommandId' =>
                               x.cmd = command' /\ x.base = Front(cplState')
                     /\ x.code = "refused" => Speaks(x.base, x.index, x.term)'
                     /\ x.code = "200" =>
                          /\ \A l \in Logs' : HasTerm(l, x.index, x.term) => l[x.index].cmd = x.cmd /\ l[x.index].base = x.base
                          /\ \A r \in Requests' : r.index = x.index /\ r.term = x.term => r.cmd = x.cmd /\ r.base = x.base
    BY Zenon DEF TaskInv, Speaks, Committed, Misses, HasTerm, Front
  <2>1. PICK y \in Tasks : x.index = y.index /\ x.term = y.term /\ x.cmd = y.cmd /\ x.code = y.code /\ x.base = y.base
    BY Zenon DEF NoNewTask, SameTask
  <2>2. /\ y.term <= mLastCheckedTerm
        /\ y.term = mLastCheckedTerm =>
             /\ mLastCheckedRole /\ OutOfWait
             /\ y.index <= mLastCommandId
             /\ InCharge /\ y.code = "refused" => Misses(y.base, cplState, mLastCommandId - y.index)
             /\ y.code = "200" /\ pc = "persist" /\ y.index = mLastCommandId =>
                  y.cmd = command /\ y.base = Front(cplState)
        /\ y.code = "refused" => Speaks(y.base, y.index, y.term)
        /\ y.code = "200" =>
             /\ \A l \in Logs : HasTerm(l, y.index, y.term) => l[y.index].cmd = y.cmd /\ l[y.index].base = y.base
             /\ \A r \in Requests : r.index = y.index /\ r.term = y.term => r.cmd = y.cmd /\ r.base = y.base
    BY Zenon, <1>0 DEF TaskInv
  <2>3. Speaks(x.base, x.index, x.term)' <=> Speaks(x.base, x.index, x.term)
    BY Zenon, <1>3
  <2> QED
    BY Zenon, <1>2, <1>3, <1>4, <1>5, <1>6, <2>1, <2>2, <2>3
<1>14. AssertionsHold'
  BY Zenon, <1>0 DEF AssertionsHold
<1>15. EalTypeOK' /\ EalInv' /\ DbInv' /\ mLoadedIndex' = mLoadedIndex /\ mShouldRecover' = mShouldRecover /\ ealState' = ealState
  BY Zenon, <1>1, EalSame
<1>16. WaitInv'
  BY Zenon, <1>0, <1>2, <1>3, <1>15 DEF WaitInv
<1>17. PlaceInv'
  BY Zenon, <1>2, <1>6 DEF PlaceInv, NoNewTask, SameTask
<1> QED
  BY Zenon, <1>3, <1>4, <1>7, <1>8, <1>10, <1>11, <1>12, <1>13, <1>14, <1>15, <1>16, <1>17 DEF PipelineInv

\* The types of what a reply thread holds
LEMMA HolderTypes ==
  ASSUME ReplyTypeOK, NEW t \in Repliers, replier[t] # NoTask
  PROVE  /\ replier[t] \in Holding /\ replier[t].task \in Task /\ replier[t].task \in Tasks
         /\ replier[t].index = replier[t].task.index
         /\ replier[t].task.cmd \in Cmds /\ replier[t].task.base \in States
<1>1. t \in Holders /\ replier[t] \in Holding
  BY Zenon DEF ReplyTypeOK, Holders
<1>2. replier[t].task \in Task
  BY <1>1 DEF Holding
<1>3. replier[t].task.cmd \in Cmds /\ replier[t].task.base \in States
  BY <1>2 DEF Task
<1> QED
  BY Zenon, <1>1, <1>2, <1>3 DEF ReplyTypeOK, Tasks

\* What the threads hold after one of them put g in its place
LEMMA HoldersMove ==
  ASSUME ReplyTypeOK, NEW t \in Repliers, NEW g \in {NoTask} \cup Holding, replier' = [replier EXCEPT ![t] = g],
         g # NoTask => g.index = g.task.index /\ \E y \in Tasks : SameTask(g.task, y)
  PROVE  /\ replier' \in [Repliers -> {NoTask} \cup Holding]
         /\ \A u \in Holders' : replier'[u].index = replier'[u].task.index
         /\ \A u \in Holders' : \E y \in Tasks : SameTask(replier'[u].task, y)
<1>1. replier \in [Repliers -> {NoTask} \cup Holding]
  BY Zenon DEF ReplyTypeOK
<1>2. replier' \in [Repliers -> {NoTask} \cup Holding]
  BY <1>1
<1>3. \A u \in Repliers : replier'[u] = IF u = t THEN g ELSE replier[u]
  BY <1>1
<1>4. ASSUME NEW u \in Holders'
      PROVE  replier'[u].index = replier'[u].task.index /\ \E y \in Tasks : SameTask(replier'[u].task, y)
  <2>1. u \in Repliers /\ replier'[u] # NoTask
    BY Zenon DEF Holders
  <2>2. CASE u = t
    BY Zenon, <1>3, <2>1, <2>2
  <2>3. CASE u # t
    <3>1. replier'[u] = replier[u] /\ u \in Holders
      BY Zenon, <1>3, <2>1, <2>3 DEF Holders
    <3>2. replier[u].index = replier[u].task.index /\ replier[u].task \in Tasks
      BY Zenon, <3>1 DEF ReplyTypeOK, Tasks
    <3> QED
      BY Zenon, <3>1, <3>2 DEF SameTask
  <2> QED
    BY Zenon, <2>2, <2>3
<1> QED
  BY Zenon, <1>2, <1>4

\* No step of a reply thread makes a task when neither the queue nor the threads get one.
LEMMA NoneIsNew ==
  ASSUME \A k \in DOMAIN replyQueue' : \E y \in Tasks : SameTask(replyQueue'[k], y),
         \A u \in Holders' : \E y \in Tasks : SameTask(replier'[u].task, y)
  PROVE  NoNewTask
<1>1. \A x \in Tasks' : (\E k \in DOMAIN replyQueue' : x = replyQueue'[k]) \/ (\E u \in Holders' : x = replier'[u].task)
  BY Zenon DEF Tasks
<1> QED
  BY Zenon, <1>1 DEF NoNewTask

\* The tasks of the queue are tasks.
LEMMA QueuedTasks ==
  ASSUME ReplyTypeOK
  PROVE  \A k \in DOMAIN replyQueue : replyQueue[k] \in Task /\ replyQueue[k] \in Tasks /\ SameTask(replyQueue[k], replyQueue[k])
<1>1. \A k \in DOMAIN replyQueue : replyQueue[k] \in Task
  BY DEF ReplyTypeOK
<1> QED
  BY Zenon, <1>1 DEF Tasks, SameTask

\* A reply thread claims a task.
LEMMA ClaimTaskKeeps ==
  ASSUME Counting, PipelineInv, PlaceInv, NEW t \in Repliers, ClaimTask(t)
  PROVE  PipelineInv' /\ PlaceInv'
<1>0. ReplyTypeOK /\ AnswersAreCommitted
  BY Zenon DEF PipelineInv
<1>1. PICK k \in DOMAIN replyQueue :
        /\ replyQueue' = [replyQueue EXCEPT ![k].flag = 1]
        /\ replier' = [replier EXCEPT ![t] = [index |-> replyQueue[k].index, task |-> replyQueue[k], phase |-> "terms"]]
  BY Zenon DEF ClaimTask
<1>2. answer' = answer /\ UNCHANGED notReply /\ assertion' = assertion
  BY Zenon DEF ClaimTask
<1> DEFINE g == [index |-> replyQueue[k].index, task |-> replyQueue[k], phase |-> "terms"]
           q == [replyQueue[k] EXCEPT !.flag = 1]
<1>3. \A j \in DOMAIN replyQueue : replyQueue[j] \in Task /\ replyQueue[j] \in Tasks /\ SameTask(replyQueue[j], replyQueue[j])
  BY Zenon, <1>0, QueuedTasks
<1>4. q \in Task /\ SameTask(q, replyQueue[k])
  <2>1. \A x \in Task : [x EXCEPT !.flag = 1] \in Task /\ SameTask([x EXCEPT !.flag = 1], x)
    BY DEF Task, SameTask
  <2> QED
    BY Zenon, <1>3, <2>1
<1>5. g \in Holding /\ g.index = g.task.index /\ g.task = replyQueue[k]
  <2>1. \A x \in Task : [index |-> x.index, task |-> x, phase |-> "terms"] \in Holding
    <3>1. \A x \in Task : x.index \in Nat
      BY DEF Task
    <3> QED
      BY <3>1 DEF Holding
  <2> QED
    BY Zenon, <1>3, <2>1
<1>6. replyQueue' = [replyQueue EXCEPT ![k] = q]
  BY Zenon, <1>1
<1> HIDE DEF q, g
<1>7. replyQueue' \in Seq(Task) /\ DOMAIN replyQueue' = DOMAIN replyQueue
      /\ \A j \in DOMAIN replyQueue : replyQueue'[j] = IF j = k THEN q ELSE replyQueue[j]
  BY <1>0, <1>4, <1>6 DEF ReplyTypeOK
<1>8. /\ replier' \in [Repliers -> {NoTask} \cup Holding]
      /\ \A u \in Holders' : replier'[u].index = replier'[u].task.index
      /\ \A u \in Holders' : \E y \in Tasks : SameTask(replier'[u].task, y)
  <2>1. replier' = [replier EXCEPT ![t] = g] /\ g \in {NoTask} \cup Holding
    BY Zenon, <1>1, <1>5 DEF g
  <2>2. \E y \in Tasks : SameTask(g.task, y)
    BY Zenon, <1>3, <1>5
  <2> QED
    BY Zenon, <1>0, <1>5, <2>1, <2>2, HoldersMove
<1>9. NoNewTask
  <2>1. \A j \in DOMAIN replyQueue' : \E y \in Tasks : SameTask(replyQueue'[j], y)
    BY Zenon, <1>3, <1>4, <1>7
  <2> QED
    BY Zenon, <1>8, <2>1, NoneIsNew
<1>10. ReplyTypeOK'
  BY Zenon, <1>0, <1>2, <1>7, <1>8 DEF ReplyTypeOK
<1>11. AnswersAreCommitted'
  <2>1. log' = log /\ commitIndex' = commitIndex
    BY Zenon, <1>2, RaftStays DEF notReply
  <2> QED
    BY Zenon, <1>0, <1>2, <2>1 DEF AnswersAreCommitted
<1> QED
  BY Zenon, <1>2, <1>9, <1>10, <1>11, ReplyMoves

\* A reply thread goes on to its next check.
LEMMA NextPhaseKeeps ==
  ASSUME Counting, PipelineInv, PlaceInv, NEW t \in Repliers, replier[t] # NoTask, NEW p \in {"terms", "commit"},
         replier' = [replier EXCEPT ![t].phase = p], UNCHANGED <<replyQueue, answer, notReply, assertion>>
  PROVE  PipelineInv' /\ PlaceInv'
<1> DEFINE g == [replier[t] EXCEPT !.phase = p]
<1>0. ReplyTypeOK /\ AnswersAreCommitted
  BY Zenon DEF PipelineInv
<1>1. replier[t] \in Holding /\ replier[t].task \in Tasks /\ replier[t].index = replier[t].task.index
  BY Zenon, <1>0, HolderTypes
<1>2. g \in Holding /\ g.index = replier[t].index /\ g.task = replier[t].task
  <2>1. \A x \in Holding : /\ [x EXCEPT !.phase = p] \in Holding
                           /\ [x EXCEPT !.phase = p].index = x.index /\ [x EXCEPT !.phase = p].task = x.task
    BY DEF Holding
  <2> QED
    BY Zenon, <1>1, <2>1
<1>3. replier' = [replier EXCEPT ![t] = g]
  BY Zenon
<1> HIDE DEF g
<1>4. /\ replier' \in [Repliers -> {NoTask} \cup Holding]
      /\ \A u \in Holders' : replier'[u].index = replier'[u].task.index
      /\ \A u \in Holders' : \E y \in Tasks : SameTask(replier'[u].task, y)
  <2>1. g \in {NoTask} \cup Holding /\ g.index = g.task.index
    BY Zenon, <1>1, <1>2
  <2>2. \E y \in Tasks : SameTask(g.task, y)
    BY Zenon, <1>1, <1>2 DEF SameTask
  <2> QED
    BY Zenon, <1>0, <1>3, <2>1, <2>2, HoldersMove
<1>5. NoNewTask
  <2>1. \A j \in DOMAIN replyQueue' : \E y \in Tasks : SameTask(replyQueue'[j], y)
    BY Zenon, <1>0, QueuedTasks
  <2> QED
    BY Zenon, <1>4, <2>1, NoneIsNew
<1>6. ReplyTypeOK'
  BY Zenon, <1>0, <1>4 DEF ReplyTypeOK
<1>7. AnswersAreCommitted'
  <2>1. log' = log /\ commitIndex' = commitIndex
    BY Zenon, RaftStays DEF notReply
  <2> QED
    BY Zenon, <1>0, <2>1 DEF AnswersAreCommitted
<1> QED
  BY Zenon, <1>5, <1>6, <1>7, ReplyMoves


\* A reply thread answers its client: with 200 for a command of the committed log, and with nothing that
\* is not committed.
LEMMA ReplyTaskKeeps ==
  ASSUME Counting, PipelineInv, PlaceInv, NEW t \in Repliers, replier[t] # NoTask, NEW code \in {"200", "301", "refused"},
         ReplyTask(t, code), UNCHANGED <<notReply, assertion>>,
         code = "200" => \E i \in 1..commitIndex : log[i].cmd = replier[t].task.cmd,
         code \in {"200", "refused"} => Committed(replier[t].task.base)
  PROVE  PipelineInv' /\ PlaceInv'
<1> DEFINE c == replier[t].task.cmd
           a == [code |-> code, base |-> replier[t].task.base]
<1>0. ReplyTypeOK /\ AnswersAreCommitted
  BY Zenon DEF PipelineInv
<1>1. c \in Cmds /\ replier[t].task.base \in States
  BY Zenon, <1>0, HolderTypes
<1>2. /\ answer' = [answer EXCEPT ![c] = a]
      /\ replyQueue' = [k \in DOMAIN replyQueue |->
           IF replyQueue[k].cmd = c THEN [replyQueue[k] EXCEPT !.flag = 2] ELSE replyQueue[k]]
      /\ replier' = [replier EXCEPT ![t] = NoTask]
  BY Zenon DEF ReplyTask, Answer
<1>3. \A j \in DOMAIN replyQueue : replyQueue[j] \in Task /\ replyQueue[j] \in Tasks /\ SameTask(replyQueue[j], replyQueue[j])
  BY Zenon, <1>0, QueuedTasks
<1>4. ASSUME NEW j \in DOMAIN replyQueue PROVE replyQueue'[j] \in Task /\ SameTask(replyQueue'[j], replyQueue[j])
  <2>1. \A x \in Task : [x EXCEPT !.flag = 2] \in Task /\ SameTask([x EXCEPT !.flag = 2], x)
    BY DEF Task, SameTask
  <2>2. replyQueue'[j] = [replyQueue[j] EXCEPT !.flag = 2] \/ replyQueue'[j] = replyQueue[j]
    BY Zenon, <1>2
  <2> QED
    BY Zenon, <1>3, <2>1, <2>2
<1>5. replyQueue' \in Seq(Task) /\ DOMAIN replyQueue' = DOMAIN replyQueue
  <2>1. DOMAIN replyQueue' = DOMAIN replyQueue /\ replyQueue' = [j \in DOMAIN replyQueue |-> replyQueue'[j]]
    BY Zenon, <1>2
  <2>2. DOMAIN replyQueue = 1..Len(replyQueue) /\ Len(replyQueue) \in Nat
    BY <1>0 DEF ReplyTypeOK
  <2>3. replyQueue' \in [1..Len(replyQueue) -> Task]
    BY Zenon, <1>4, <2>1, <2>2
  <2>4. replyQueue' \in Seq(Task)
    <3>1. \A n \in Nat : \A f \in [1..n -> Task] : f \in Seq(Task)
      OBVIOUS
    <3> QED
      BY Zenon, <2>2, <2>3, <3>1
  <2> QED
    BY Zenon, <2>1, <2>4
<1>6. /\ replier' \in [Repliers -> {NoTask} \cup Holding]
      /\ \A u \in Holders' : replier'[u].index = replier'[u].task.index
      /\ \A u \in Holders' : \E y \in Tasks : SameTask(replier'[u].task, y)
  <2>1. NoTask \in {NoTask} \cup Holding
    BY Zenon
  <2> QED
    BY Zenon, <1>0, <1>2, <2>1, HoldersMove
<1>7. NoNewTask
  <2>1. \A j \in DOMAIN replyQueue' : \E y \in Tasks : SameTask(replyQueue'[j], y)
    BY Zenon, <1>3, <1>4, <1>5
  <2> QED
    BY Zenon, <1>6, <2>1, NoneIsNew
<1>8. answer' \in [Cmds -> [code : {"none", "200", "301", "refused"}, base : States]]
      /\ \A d \in Cmds : answer'[d] = IF d = c THEN a ELSE answer[d]
  <2>1. a \in [code : {"none", "200", "301", "refused"}, base : States]
    BY <1>1
  <2>2. answer \in [Cmds -> [code : {"none", "200", "301", "refused"}, base : States]]
    BY Zenon, <1>0 DEF ReplyTypeOK
  <2> HIDE DEF a, c
  <2> QED
    BY <1>1, <1>2, <2>1, <2>2
<1>9. ReplyTypeOK'
  BY Zenon, <1>5, <1>6, <1>8 DEF ReplyTypeOK
<1>10. AnswersAreCommitted'
  <2>1. log' = log /\ commitIndex' = commitIndex
    BY Zenon, RaftStays DEF notReply
  <2>2. ASSUME NEW d \in Cmds
        PROVE  /\ answer'[d].code = "200" => \E i \in 1..commitIndex' : log'[i].cmd = d
               /\ answer'[d].code \in {"200", "refused"} => IsPrefix(answer'[d].base, StateAt(log', commitIndex'))
    <3>1. CASE d = c
      <4>1. answer'[d].code = code /\ answer'[d].base = replier[t].task.base
        <5>1. answer'[d] = a
          BY Zenon, <1>8, <3>1
        <5>2. a.code = code /\ a.base = replier[t].task.base
          OBVIOUS
        <5> HIDE DEF a
        <5> QED
          BY Zenon, <5>1, <5>2
      <4> QED
        BY Zenon, <2>1, <3>1, <4>1 DEF Committed
    <3>2. CASE d # c
      <4>1. answer'[d] = answer[d]
        BY Zenon, <1>8, <3>2
      <4> QED
        BY Zenon, <1>0, <2>1, <4>1 DEF AnswersAreCommitted
    <3> QED
      BY Zenon, <3>1, <3>2
  <2> QED
    BY ZenonT(30), <2>2 DEF AnswersAreCommitted
<1> QED
  BY Zenon, <1>7, <1>9, <1>10, ReplyMoves

\* waitTillCommittedOrQuit compares the terms.
LEMMA CheckTermsKeeps ==
  ASSUME Counting, PipelineInv, PlaceInv, NEW t \in Repliers, CheckTerms(t)
  PROVE  PipelineInv' /\ PlaceInv'
<1>0. RaftTypeOK /\ CplTypeOK /\ ReplyTypeOK /\ TaskInv
  BY Zenon DEF PipelineInv
<1>1. replier[t] # NoTask /\ UNCHANGED notReply
  BY Zenon DEF CheckTerms
<1>2. currentTerm >= replier[t].task.term
  <2>1. replier[t].task \in Tasks /\ replier[t].task \in Task
    BY Zenon, <1>0, <1>1, HolderTypes
  <2>2. replier[t].task.term <= mLastCheckedTerm
    BY Zenon, <1>0, <2>1 DEF TaskInv
  <2>3. replier[t].task.term \in Nat
    BY <2>1 DEF Task
  <2>4. mLastCheckedTerm \in 0..currentTerm /\ currentTerm \in Nat
    BY Zenon, <1>0 DEF CplTypeOK, RaftTypeOK
  <2> QED
    BY <2>2, <2>3, <2>4
<1>3. assertion' = assertion
  BY Zenon, <1>2 DEF CheckTerms, Asserts
<1>4. \/ ReplyTask(t, "301")
      \/ replier' = [replier EXCEPT ![t].phase = "commit"] /\ UNCHANGED <<replyQueue, answer>>
  BY Zenon DEF CheckTerms
<1>5. CASE ReplyTask(t, "301")
  <2>1. "301" \in {"200", "301", "refused"} /\ "301" # "200" /\ "301" \notin {"200", "refused"}
    OBVIOUS
  <2> QED
    BY Zenon, <1>1, <1>3, <1>5, <2>1, ReplyTaskKeeps
<1>6. CASE replier' = [replier EXCEPT ![t].phase = "commit"] /\ UNCHANGED <<replyQueue, answer>>
  <2>1. "commit" \in {"terms", "commit"}
    OBVIOUS
  <2> QED
    BY Zenon, <1>1, <1>3, <1>6, <2>1, NextPhaseKeeps
<1> QED
  BY Zenon, <1>4, <1>5, <1>6

\* ... and then the entry, once it is committed.
LEMMA CheckCommittedKeeps ==
  ASSUME Counting, PipelineInv, PlaceInv, NEW t \in Repliers, CheckCommitted(t)
  PROVE  PipelineInv' /\ PlaceInv'
<1> DEFINE x == replier[t].task
           i == replier[t].index
           code == IF log[i].term = x.term THEN x.code ELSE "301"
<1>0. RaftTypeOK /\ ReplyTypeOK /\ TaskInv /\ DecidedInv /\ RaftInv
  BY Zenon DEF PipelineInv
<1>1. replier[t] # NoTask /\ UNCHANGED <<notReply, assertion>>
  BY Zenon DEF CheckCommitted
<1>2. \/ replier' = [replier EXCEPT ![t].phase = "terms"] /\ UNCHANGED <<replyQueue, answer>>
      \/ ~(commitIndex < i) /\ ReplyTask(t, code)
  BY Zenon DEF CheckCommitted
<1>3. CASE replier' = [replier EXCEPT ![t].phase = "terms"] /\ UNCHANGED <<replyQueue, answer>>
  <2>1. "terms" \in {"terms", "commit"}
    OBVIOUS
  <2> QED
    BY Zenon, <1>1, <1>3, <2>1, NextPhaseKeeps
<1>4. CASE ~(commitIndex < i) /\ ReplyTask(t, code)
  <2>1. x \in Tasks /\ x \in Task /\ i = x.index /\ x.cmd \in Cmds /\ x.base \in States
    BY Zenon, <1>0, <1>1, HolderTypes
  <2>2. x.index \in Nat /\ x.term \in Nat /\ x.code \in {"200", "refused"}
    BY <2>1 DEF Task
  <2>3. x.index >= 1
    BY Zenon, <2>1 DEF PlaceInv
  <2>4. /\ log \in Seq(Entry) /\ commitIndex \in Nat /\ commitIndex \in 0..Len(log) /\ Len(log) \in Nat
        /\ DOMAIN log = 1..Len(log)
    BY <1>0 DEF RaftTypeOK
  <2>5. ~(commitIndex < i)
    BY Zenon, <1>4
  <2> HIDE DEF x, i
  <2>6. /\ i \in 1..commitIndex /\ i \in DOMAIN log /\ i \in Nat /\ i - 1 \in Nat /\ i <= commitIndex /\ i - 1 <= commitIndex
    BY <2>1, <2>2, <2>3, <2>4, <2>5
  <2>7. log \in Logs
    BY Zenon DEF Logs
  <2>8. ASSUME log[i].term = x.term, x.code = "200"
        PROVE  log[i].cmd = x.cmd /\ Committed(x.base)
    <3>1. HasTerm(log, x.index, x.term)
      BY Zenon, <2>1, <2>6, <2>8 DEF HasTerm
    <3>2. log[i].cmd = x.cmd /\ log[i].base = x.base
      BY Zenon, <1>0, <2>1, <2>7, <2>8, <3>1 DEF TaskInv
    <3>3. x.cmd # NoCmd
      <4>1. Cmds = 1..Cardinality(Cmds) /\ Cardinality(Cmds) \in Nat
        BY Zenon, PipelineAssumption DEF PipelineAssumption
      <4> QED
        BY <2>1, <4>1 DEF NoCmd
    <3>4. x.base = StateAt(log, i - 1)
      BY Zenon, <1>0, <2>6, <2>7, <3>2, <3>3 DEF DecidedInv
    <3> QED
      BY Zenon, <2>4, <2>6, <3>2, <3>4, StatesGrow DEF Committed
  <2>9. ASSUME log[i].term = x.term, x.code = "refused"
        PROVE  Committed(x.base)
    <3>1. HasTerm(log, x.index, x.term)
      BY Zenon, <2>1, <2>6, <2>9 DEF HasTerm
    <3>2. x.base = StateAt(log, i) \/ Committed(x.base)
      BY Zenon, <1>0, <2>1, <2>7, <2>9, <3>1 DEF TaskInv, Speaks
    <3> QED
      BY Zenon, <2>4, <2>6, <3>2, StatesGrow DEF Committed
  <2>10. /\ code \in {"200", "301", "refused"}
         /\ code = "200" => log[i].term = x.term /\ x.code = "200"
         /\ code \in {"200", "refused"} => log[i].term = x.term
    BY <2>2
  <2>11. /\ code = "200" => \E j \in 1..commitIndex : log[j].cmd = x.cmd
         /\ code \in {"200", "refused"} => Committed(x.base)
    <3> HIDE DEF code
    <3> QED
      BY Zenon, <2>2, <2>6, <2>8, <2>9, <2>10
  <2>12. ReplyTask(t, code)
    BY Zenon, <1>4
  <2> HIDE DEF code
  <2> QED
    BY Zenon, <1>1, <2>10, <2>11, <2>12, ReplyTaskKeeps DEF x
<1> QED
  BY Zenon, <1>2, <1>3, <1>4

\* A finished task leaves the queue.
LEMMA PopTaskKeeps ==
  ASSUME Counting, PipelineInv, PlaceInv, PopTask
  PROVE  PipelineInv' /\ PlaceInv'
<1>0. ReplyTypeOK /\ AnswersAreCommitted
  BY Zenon DEF PipelineInv
<1>1. replyQueue # <<>> /\ replyQueue' = Tail(replyQueue) /\ UNCHANGED <<replier, answer, notReply, assertion>>
  BY Zenon DEF PopTask
<1>2. /\ replyQueue' \in Seq(Task)
      /\ \A k \in DOMAIN replyQueue' : k + 1 \in DOMAIN replyQueue /\ replyQueue'[k] = replyQueue[k + 1]
  BY <1>0, <1>1 DEF ReplyTypeOK
<1>3. Holders' = Holders
  BY Zenon, <1>1 DEF Holders
<1>4. ReplyTypeOK'
  BY Zenon, <1>0, <1>1, <1>2, <1>3 DEF ReplyTypeOK
<1>5. NoNewTask
  <2>1. \A k \in DOMAIN replyQueue' : \E y \in Tasks : SameTask(replyQueue'[k], y)
    BY Zenon, <1>0, <1>2, QueuedTasks
  <2>2. \A u \in Holders' : \E y \in Tasks : SameTask(replier'[u].task, y)
    BY Zenon, <1>1, <1>3 DEF Tasks, SameTask
  <2> QED
    BY Zenon, <2>1, <2>2, NoneIsNew
<1>6. AnswersAreCommitted'
  <2>1. log' = log /\ commitIndex' = commitIndex
    BY Zenon, <1>1, RaftStays DEF notReply
  <2> QED
    BY Zenon, <1>0, <1>1, <2>1 DEF AnswersAreCommitted
<1> QED
  BY Zenon, <1>1, <1>4, <1>5, <1>6, ReplyMoves


-----------------------------------------------------------------------------
(* The theorems                                                            *)

\* A step that leaves the CPL and the reply loop alone, and no term goes back.
LEMMA PlaceStays ==
  ASSUME PipelineInv, PlaceInv, UNCHANGED <<cplVars, replyVars>>, currentTerm' \in Nat, currentTerm' >= currentTerm
  PROVE  PlaceInv'
<1>1. /\ pc' = pc /\ mLastCheckedTerm' = mLastCheckedTerm /\ mLastCheckedRole' = mLastCheckedRole
      /\ mLastCommandId' = mLastCommandId /\ replyQueue' = replyQueue /\ replier' = replier
  BY Zenon DEF cplVars, replyVars
<1>2. Tasks' = Tasks
  BY Zenon, <1>1, TasksStay
<1>3. mLastCheckedTerm \in 0..currentTerm /\ currentTerm \in Nat
  BY Zenon DEF PipelineInv, CplTypeOK, RaftTypeOK
<1>4. mLastCheckedTerm = currentTerm' => mLastCheckedTerm = currentTerm
  BY <1>3
<1>5. InCharge' => InCharge
  BY Zenon, <1>1, <1>4 DEF InCharge, Leads, OutOfWait
<1> QED
  BY Zenon, <1>1, <1>2, <1>5 DEF PlaceInv

\* The steps of Raft keep the invariant.
LEMMA RaftKeeps ==
  ASSUME Counting, PipelineInv, PlaceInv, Raft
  PROVE  PipelineInv' /\ PlaceInv'
<1>0. RaftTypeOK /\ RaftInv
  BY Zenon DEF PipelineInv
<1>1. PipelineInv'
  <2>1. CASE NewTerm \/ StepDown \/ Elect \/ AdvanceCommitIndex
    BY Zenon, <1>0, <2>1, RoleStepsAreQuiet, QuietKeeps
  <2>2. CASE AppendNoop \/ FollowNewLeader \/ FollowLeader
    BY Zenon, <1>0, <2>2, AppendingStepsAreQuiet, QuietKeeps
  <2>3. CASE HandleClientRequests
    BY Zenon, <2>3, HandleClientRequestsKeeps
  <2> QED
    BY Zenon, <2>1, <2>2, <2>3 DEF Raft
<1>2. UNCHANGED <<cplVars, replyVars>>
  BY Zenon DEF Raft, NewTerm, StepDown, Elect, AppendNoop, HandleClientRequests, FollowNewLeader, FollowLeader,
               AdvanceCommitIndex, notRaft
<1>3. currentTerm' = currentTerm + 1 \/ currentTerm' = currentTerm
  BY Zenon DEF Raft, NewTerm, StepDown, Elect, AppendNoop, HandleClientRequests, FollowNewLeader, FollowLeader,
               AdvanceCommitIndex
<1>4. currentTerm' \in Nat /\ currentTerm' >= currentTerm
  <2>1. currentTerm \in Nat
    BY Zenon, <1>0 DEF RaftTypeOK
  <2> QED
    BY <1>3, <2>1
<1> QED
  BY Zenon, <1>1, <1>2, <1>4, PlaceStays

\* The steps of the CPL keep the place of its last command.
LEMMA CplKeepsPlace ==
  ASSUME PipelineInv, PlaceInv, Cpl
  PROVE  PlaceInv'
<1>0. CplTypeOK /\ RaftTypeOK /\ ReplyTypeOK /\ WaitInv
  BY Zenon DEF PipelineInv
<1>1. CASE Dequeue
  <2>1. /\ pc = "dequeue" /\ pc' = "detect" /\ UNCHANGED <<mLastCheckedTerm, mLastCheckedRole, mLastCommandId, replyQueue, replier>>
        /\ currentTerm' = currentTerm
    BY Zenon, <1>1 DEF Dequeue, notCpl, raftVars, replyVars
  <2>2. Tasks' = Tasks
    BY Zenon, <2>1, TasksStay
  <2>3. OutOfWait /\ pc' \notin {"process", "persist"}
    BY <2>1 DEF OutOfWait
  <2>4. InCharge' => InCharge
    BY Zenon, <2>1, <2>3 DEF InCharge, Leads
  <2> QED
    BY Zenon, <2>1, <2>2, <2>3, <2>4 DEF PlaceInv
<1>2. CASE DetectTransition
  <2>1. /\ pc = "detect" /\ UNCHANGED <<mLastCommandId, replyQueue, replier>> /\ currentTerm' = currentTerm
        /\ mLastCheckedRole' = Refreshed.leader
        /\ pc' = CASE ~Refreshed.leader -> "dequeue"
                   [] Refreshed.leader /\ Refreshed.term = mLastCheckedTerm /\ mLastCheckedRole -> "process"
                   [] Refreshed.leader /\ ~(Refreshed.term = mLastCheckedTerm /\ mLastCheckedRole) -> "wait"
    BY Zenon, <1>2 DEF DetectTransition, notCpl, raftVars
  <2>2. Tasks' = Tasks
    BY Zenon, <2>1, TasksStay
  <2>3. Refreshed.term = currentTerm
    <3>1. CASE mLastCheckedTerm = currentTerm /\ mLastCheckedRole /\ ~IsLeader
      <4>1. Refreshed = [term |-> mLastCheckedTerm, leader |-> TRUE]
        BY Zenon, <3>1 DEF Refreshed
      <4> QED
        BY Zenon, <3>1, <4>1
    <3>2. CASE ~(mLastCheckedTerm = currentTerm /\ mLastCheckedRole /\ ~IsLeader)
      <4>1. Refreshed = [term |-> currentTerm, leader |-> IsLeader]
        BY Zenon, <3>2 DEF Refreshed
      <4> QED
        BY Zenon, <4>1
    <3> QED
      BY Zenon, <3>1, <3>2
  <2>4. CASE ~Refreshed.leader
    <3>1. pc' = "dequeue" /\ ~mLastCheckedRole'
      BY <2>1, <2>4
    <3>2. ~InCharge' /\ pc' \notin {"process", "persist"}
      BY <3>1 DEF InCharge, Leads
    <3> QED
      BY Zenon, <2>2, <3>2 DEF PlaceInv
  <2>5. CASE Refreshed.leader /\ Refreshed.term = mLastCheckedTerm /\ mLastCheckedRole
    <3>1. OutOfWait
      BY <2>1 DEF OutOfWait
    <3>2. InCharge
      BY Zenon, <2>3, <2>5, <3>1 DEF InCharge, Leads
    <3> QED
      BY Zenon, <2>1, <2>2, <3>2 DEF PlaceInv
  <2>6. CASE Refreshed.leader /\ ~(Refreshed.term = mLastCheckedTerm /\ mLastCheckedRole)
    <3>1. pc' = "wait"
      BY <2>1, <2>6
    <3>2. ~OutOfWait' /\ pc' \notin {"process", "persist"}
      BY <3>1 DEF OutOfWait
    <3> QED
      BY Zenon, <2>2, <3>2 DEF PlaceInv, InCharge
  <2> QED
    BY Zenon, <2>3, <2>4, <2>5, <2>6
<1>3. CASE WaitTerm
  <2>1. /\ pc' = "waitLast" \/ (pc' = "dequeue" /\ currentTerm # mLastCheckedTerm)
        /\ UNCHANGED <<mLastCheckedTerm, replyQueue, replier>> /\ currentTerm' = currentTerm
    BY Zenon, <1>3 DEF WaitTerm, notCpl, raftVars
  <2>2. Tasks' = Tasks
    BY Zenon, <2>1, TasksStay
  <2>3. ~InCharge' /\ pc' \notin {"process", "persist"}
    BY <2>1 DEF InCharge, Leads, OutOfWait
  <2> QED
    BY Zenon, <2>2, <2>3 DEF PlaceInv
<1>4. CASE \/ WaitRead("waitLast", Len(log), "waitCommit")
           \/ WaitRead("waitCommit", commitIndex, "waitLoaded")
           \/ WaitRead("waitLoaded", mLoadedIndex, "waitApplied")
  <2>1. (pc' = "waitCommit" \/ pc' = "waitLoaded" \/ pc' = "waitApplied") /\ UNCHANGED <<replyQueue, replier>>
    BY Zenon, <1>4 DEF WaitRead, replyVars
  <2>2. Tasks' = Tasks
    BY Zenon, <2>1, TasksStay
  <2>3. ~OutOfWait' /\ pc' \notin {"process", "persist"}
    BY <2>1 DEF OutOfWait
  <2> QED
    BY Zenon, <2>2, <2>3 DEF PlaceInv, InCharge
<1>5. CASE WaitApplied
  <2>1. (pc' = "swap" \/ pc' = "wait") /\ UNCHANGED <<replyQueue, replier>>
    BY Zenon, <1>5 DEF WaitApplied, replyVars
  <2>2. Tasks' = Tasks
    BY Zenon, <2>1, TasksStay
  <2>3. ~OutOfWait' /\ pc' \notin {"process", "persist"}
    BY <2>1 DEF OutOfWait
  <2> QED
    BY Zenon, <2>2, <2>3 DEF PlaceInv, InCharge
<1>6. CASE SwapStateAndTeardown
  <2>1. pc = "swap" /\ UNCHANGED <<mLastCommandId, replyQueue, replier>>
    BY Zenon, <1>6 DEF SwapStateAndTeardown, replyVars
  <2>2. Tasks' = Tasks
    BY Zenon, <2>1, TasksStay
  <2>3. mLastCommandId \in 1..commitIndex
    BY Zenon, <1>0, <2>1 DEF WaitInv
  <2>4. mLastCommandId >= 1
    BY <1>0, <2>3 DEF RaftTypeOK
  <2> QED
    BY Zenon, <2>1, <2>2, <2>4 DEF PlaceInv
<1>7. CASE ProcessRefused \/ ProcessAccepted
  <2>1. /\ pc = "process" /\ UNCHANGED <<raftVars, replier, answer>>
        /\ \/ mLastCommandId' = mLastCommandId
           \/ mLastCommandId' = mLastCommandId + 1
        /\ \E code \in {"200", "refused"} : PushTask(mLastCommandId', code, cplState)
    <3>1. "200" \in {"200", "refused"} /\ "refused" \in {"200", "refused"}
      OBVIOUS
    <3>2. ProcessRefused => mLastCommandId' = mLastCommandId /\ PushTask(mLastCommandId, "refused", cplState)
      BY Zenon DEF ProcessRefused
    <3>3. ProcessRefused => PushTask(mLastCommandId', "refused", cplState)
      BY <3>2 DEF PushTask
    <3> QED
      BY Zenon, <1>7, <3>1, <3>2, <3>3 DEF ProcessRefused, ProcessAccepted, notCpl
  <2>2. PICK code \in {"200", "refused"} : PushTask(mLastCommandId', code, cplState)
    BY Zenon, <2>1
  <2> DEFINE x == [index |-> mLastCommandId', term |-> mLastCheckedTerm, cmd |-> command, code |-> code, base |-> cplState,
                   flag |-> 0]
  <2>3. mLastCommandId \in Nat /\ mLastCommandId >= 1 /\ command \in Cmds /\ mLastCheckedTerm \in Nat /\ cplState \in States
    <3>1. pc \in {"process", "persist"} /\ pc # "dequeue"
      BY <2>1
    <3>2. mLastCommandId >= 1 /\ mLastCommandId \in Nat /\ command \in Cmds /\ cplState \in States
      BY Zenon, <1>0, <3>1 DEF PlaceInv, CplTypeOK
    <3>3. mLastCheckedTerm \in Nat
      BY <1>0 DEF CplTypeOK, RaftTypeOK
    <3> QED
      BY ZenonT(30), <3>2, <3>3
  <2>4. mLastCommandId' \in Nat /\ mLastCommandId' >= 1
    BY <2>1, <2>3
  <2>5. x \in Task /\ x.index = mLastCommandId'
    BY <2>2, <2>3, <2>4 DEF Task
  <2>6. replyQueue' = Append(replyQueue, x)
    BY Zenon, <2>2 DEF PushTask
  <2> HIDE DEF x
  <2>7. Tasks' = Tasks \cup {x}
    BY Zenon, <2>1, <2>5, <2>6, PushedTask
  <2> QED
    BY Zenon, <2>4, <2>5, <2>7 DEF PlaceInv
<1>8. CASE PersistAsync
  <2>1. pc = "persist" /\ UNCHANGED <<mLastCommandId, replyQueue, replier>>
    BY Zenon, <1>8 DEF PersistAsync, replyVars
  <2>2. Tasks' = Tasks
    BY Zenon, <2>1, TasksStay
  <2>3. mLastCommandId >= 1
    <3>1. pc \in {"process", "persist"}
      BY <2>1
    <3> QED
      BY Zenon, <3>1 DEF PlaceInv
  <2> QED
    BY Zenon, <2>1, <2>2, <2>3 DEF PlaceInv
<1> QED
  BY Zenon, <1>1, <1>2, <1>3, <1>4, <1>5, <1>6, <1>7, <1>8 DEF Cpl

\* The steps of the CPL keep the invariant.
LEMMA CplKeeps ==
  ASSUME Counting, PipelineInv, PlaceInv, Cpl
  PROVE  PipelineInv' /\ PlaceInv'
<1>1. PipelineInv'
  <2>1. DetectTransition => PipelineInv'
    BY Zenon, DetectSameLeader, DetectOther
  <2>2. (\/ WaitRead("waitLast", Len(log), "waitCommit")
         \/ WaitRead("waitCommit", commitIndex, "waitLoaded")
         \/ WaitRead("waitLoaded", mLoadedIndex, "waitApplied")) => PipelineInv'
    BY Zenon, WaitReadsKeep
  <2>3. Dequeue \/ WaitTerm \/ WaitApplied => PipelineInv'
    BY Zenon, DequeueKeeps, WaitTermKeeps, WaitAppliedKeeps
  <2>4. SwapStateAndTeardown \/ PersistAsync => PipelineInv'
    BY Zenon, SwapKeeps, PersistAsyncKeeps
  <2>5. ProcessRefused \/ ProcessAccepted => PipelineInv'
    BY Zenon, ProcessRefusedKeeps, ProcessAcceptedKeeps
  <2> QED
    BY Zenon, <2>1, <2>2, <2>3, <2>4, <2>5 DEF Cpl
<1> QED
  BY Zenon, <1>1, CplKeepsPlace

\* The steps of the EAL, of its reader and of the log store keep the invariant.
LEMMA EalKeeps ==
  ASSUME Counting, PipelineInv, PlaceInv, SendBatch \/ Eal \/ LoadEntries \/ DecryptEntries
  PROVE  PipelineInv' /\ PlaceInv'
<1>1. PipelineInv'
  <2>1. Eal => PipelineInv'
    BY Zenon, RecoverSelfKeeps, LoadNextKeeps, ApplyEventsKeeps DEF Eal
  <2>2. SendBatch \/ LoadEntries \/ DecryptEntries => PipelineInv'
    BY Zenon, SendBatchKeeps, LoadEntriesKeeps, DecryptEntriesKeeps
  <2> QED
    BY Zenon, <2>1, <2>2
<1>2. UNCHANGED <<raftVars, cplVars, replyVars>>
  BY Zenon DEF SendBatch, Eal, RecoverSelf, LoadNextCommandEvents, ApplyEvents, LoadEntries, DecryptEntries, notEal
<1>3. currentTerm' \in Nat /\ currentTerm' >= currentTerm
  <2>1. currentTerm' = currentTerm /\ currentTerm \in Nat
    BY Zenon, <1>2 DEF raftVars, PipelineInv, RaftTypeOK
  <2> QED
    BY <2>1
<1> QED
  BY Zenon, <1>1, <1>2, <1>3, PlaceStays

\* Every step keeps the invariant.
LEMMA NextKeeps ==
  ASSUME Counting, PipelineInv, PlaceInv, [Next]_vars
  PROVE  PipelineInv' /\ PlaceInv'
<1>1. CASE Raft \/ Cpl
  BY Zenon, <1>1, RaftKeeps, CplKeeps
<1>2. CASE SendBatch \/ Eal \/ LoadEntries \/ DecryptEntries
  BY Zenon, <1>2, EalKeeps
<1>3. CASE \E t \in Repliers : Reply(t)
  BY Zenon, <1>3, ClaimTaskKeeps, CheckTermsKeeps, CheckCommittedKeeps DEF Reply
<1>4. CASE PopTask
  BY Zenon, <1>4, PopTaskKeeps
<1>5. CASE UNCHANGED vars
  <2>1. UNCHANGED <<raftVars, cplVars, queueVars, replyVars, ealVars, assertion>>
    BY Zenon, <1>5 DEF vars, raftVars, cplVars, queueVars, replyVars, ealVars, readerVars
  <2>2. UNCHANGED notReply /\ assertion' = assertion
    BY Zenon, <2>1 DEF notReply
  <2>3. Tasks' = Tasks /\ ReplyTypeOK' /\ AnswersAreCommitted'
    BY Zenon, <2>1, RepliesStay
  <2>4. NoNewTask
    BY Zenon, <2>3 DEF NoNewTask, SameTask
  <2> QED
    BY Zenon, <2>2, <2>3, <2>4, ReplyMoves
<1> QED
  BY Zenon, <1>1, <1>2, <1>3, <1>4, <1>5 DEF Next

\* The invariant holds when the replica starts.
LEMMA InitHolds ==
  ASSUME Counting, Init
  PROVE  PipelineInv /\ PlaceInv
<1>1. /\ currentTerm = 0 /\ role = "Other" /\ log = <<>> /\ commitIndex = 0 /\ dropped = {}
      /\ mLastCheckedTerm = 0 /\ mLastCheckedRole = FALSE /\ mPersistQueue = <<>> /\ clientRequests = <<>>
      /\ mLoadedIndex = 0 /\ mAppliedIndex = 0 /\ mApplyingIndex = 0 /\ mTaskQueue = <<>> /\ mCachedBundles = <<>>
      /\ replyQueue = <<>> /\ replier = [t \in Repliers |-> NoTask]
      /\ pc = "dequeue" /\ command = NoCmd /\ arrived = 0 /\ mLastCommandId = 0 /\ cplState = <<>> /\ read = <<>>
      /\ ealPc = "idle" /\ ealState = <<>> /\ dbState = <<>> /\ mShouldRecover = FALSE
      /\ answer = [c \in Cmds |-> [code |-> "none", base |-> <<>>]] /\ assertion = "none"
  BY Zenon DEF Init, InitRaft, InitLogStore, InitReader, InitReplyLoop
<1>2. <<>> \in States /\ <<>> \in Seq(Entry) /\ Len(<<>>) = 0
  BY DEF States
<1>3. RaftTypeOK
  BY <1>1, <1>2 DEF RaftTypeOK
<1>4. QueueTypeOK
  BY <1>1 DEF QueueTypeOK
<1>5. CplTypeOK
  <2>1. Cardinality(Cmds) \in Nat
    BY Zenon, PipelineAssumption DEF PipelineAssumption
  <2>2. 0 \in 0..Cardinality(Cmds)
    BY <2>1
  <2>3. /\ pc \in {"dequeue", "detect", "wait", "waitLast", "waitCommit", "waitLoaded", "waitApplied",
                    "swap", "process", "persist"}
        /\ command \in Nat /\ mLastCheckedTerm \in 0..currentTerm /\ mLastCommandId \in Nat /\ read \in Seq(Nat)
    BY <1>1 DEF NoCmd
  <2> QED
    BY Zenon, <1>1, <1>2, <2>2, <2>3 DEF CplTypeOK
<1>6. EalTypeOK
  <2>1. /\ ealPc \in {"idle", "load", "apply"} /\ mLoadedIndex \in Nat /\ mAppliedIndex \in Nat /\ mApplyingIndex \in Nat
        /\ mTaskQueue \in Seq(Loaded) /\ mCachedBundles \in Seq(Nat)
    BY <1>1
  <2> QED
    BY Zenon, <1>1, <1>2, <2>1 DEF EalTypeOK
<1>7. Holders = {} /\ Tasks = {} /\ Requests = {}
  <2>1. Holders = {}
    BY Zenon, <1>1 DEF Holders
  <2>2. DOMAIN <<>> = {}
    OBVIOUS
  <2> QED
    BY <1>1, <2>1, <2>2 DEF Tasks, Requests
<1>8. ReplyTypeOK
  <2>1. replier \in [Repliers -> {NoTask} \cup Holding]
    BY <1>1
  <2>2. answer \in [Cmds -> [code : {"none", "200", "301", "refused"}, base : States]]
    BY <1>1, <1>2
  <2>3. replyQueue \in Seq(Task)
    BY <1>1
  <2> QED
    BY Zenon, <1>7, <2>1, <2>2, <2>3 DEF ReplyTypeOK
<1>9. Logs = {<<>>} /\ \A l \in Logs : DOMAIN l = {}
  BY <1>1 DEF Logs
<1>10. RaftInv /\ DecidedInv
  <2>1. dropped = {} /\ role # "Elected" /\ ~(role # "Other")
    BY <1>1
  <2> QED
    BY Zenon, <1>9, <2>1 DEF RaftInv, DecidedInv, HasTerm, Agree
<1>11. ~Leads /\ ~InCharge /\ OutOfWait /\ pc \in {"dequeue", "detect"} /\ pc \notin {"process", "persist"}
  BY <1>1 DEF Leads, InCharge, OutOfWait
<1>12. LeadsInv
  BY Zenon, <1>1, <1>11 DEF LeadsInv
<1>13. ChargeInv /\ RequestInv /\ TaskInv /\ PlaceInv
  BY Zenon, <1>7, <1>11 DEF ChargeInv, RequestInv, TaskInv, PlaceInv
<1>14. DecisionInv
  BY <1>1 DEF DecisionInv
<1>15. StateAt(<<>>, 0) = <<>>
  BY Zenon, <1>2, StateAtStep
<1>16. AppliedUpTo = 0 /\ HeldUpTo = 0
  BY <1>1 DEF AppliedUpTo, HeldUpTo
<1>17. EalInv
  BY <1>1, <1>15, <1>16 DEF EalInv
<1>18. DbInv
  BY <1>1, <1>15 DEF DbInv, LastApplied
<1>19. WaitInv
  BY <1>1 DEF WaitInv
<1>20. AnswersAreCommitted
  <2>1. \A c \in Cmds : answer[c].code \notin {"200", "refused"}
    BY <1>1
  <2> QED
    BY <2>1 DEF AnswersAreCommitted
<1>21. AssertionsHold
  BY <1>1 DEF AssertionsHold
<1> QED
  BY Zenon, <1>3, <1>4, <1>5, <1>6, <1>8, <1>10, <1>12, <1>13, <1>14, <1>17, <1>18, <1>19, <1>20, <1>21 DEF PipelineInv

INSTANCE WellFoundedInduction

\* A set of natural numbers that is not empty has a least member.
LEMMA CountingHolds == Counting
<1> SUFFICES ASSUME NEW P \in SUBSET Nat, P # {} PROVE \E n \in P : \A m \in P : n <= m
  BY Zenon DEF Counting
<1> DEFINE R == {ss \in Nat \X Nat : ss[1] < ss[2]}
<1>0. IsWellFoundedOn(R, Nat)
  BY NatLessThanWellFounded, Zenon DEF OpToRel
<1>1. PICK x \in P : \A y \in P : ~ (<<y, x>> \in R)
  <2> HIDE DEF R
  <2> QED
    BY Zenon, <1>0, WFMin
<1>2. \A y \in P : x <= y
  <2> SUFFICES ASSUME NEW y \in P, y < x PROVE FALSE
    OBVIOUS
  <2>1. <<y, x>> \in R
    OBVIOUS
  <2> QED
    BY <1>1, <2>1
<1> QED
  BY Zenon, <1>2

\* The invariant of the command pipeline, for any number of commands, reply threads and terms
THEOREM PipelineInvariant == Spec => [](PipelineInv /\ PlaceInv)
<1>1. Init => PipelineInv /\ PlaceInv
  BY Zenon, InitHolds, CountingHolds
<1>2. PipelineInv /\ PlaceInv /\ [Next]_vars => (PipelineInv /\ PlaceInv)'
  BY Zenon, NextKeeps, CountingHolds
<1> QED
  BY <1>1, <1>2, PTL DEF Spec

\* An entry that handleClientRequests took from the CPL was decided on exactly the state that its
\* predecessors in the log produce.
THEOREM PipelineDecidedOnItsPrefix == Spec => []DecidedOnItsPrefix
<1>1. PipelineInv => DecidedOnItsPrefix
  BY Zenon DEF PipelineInv, DecidedInv, Logs, DecidedOnItsPrefix
<1> QED
  BY <1>1, PipelineInvariant, PTL

\* A client that got 200 finds its command among the committed entries, and no answer shows a state that
\* is not committed.
THEOREM PipelineAnswersAreCommitted == Spec => []AnswersAreCommitted
<1>1. PipelineInv => AnswersAreCommitted
  BY Zenon DEF PipelineInv
<1> QED
  BY <1>1, PipelineInvariant, PTL

\* RocksDB and the event apply loop hold the replay of a committed prefix of the log.
THEOREM PipelineReplicaIsReplay == Spec => []ReplicaIsReplay
<1>1. ASSUME PipelineInv PROVE ReplicaIsReplay
  <2>0. RaftTypeOK /\ EalTypeOK /\ EalInv /\ DbInv
    BY Zenon, <1>1 DEF PipelineInv
  <2>1. ASSUME ~mShouldRecover PROVE ealState = StateAt(log, LastApplied(ealState))
    <3>1. PICK n \in mAppliedIndex..commitIndex : ealState = StateAt(log, n)
      BY Zenon, <2>0, <2>1, EalIsCommitted, CountingHolds
    <3>2. log \in Seq(Entry) /\ n \in 0..Len(log)
      <4>1. log \in Seq(Entry) /\ commitIndex \in 0..Len(log) /\ mAppliedIndex \in Nat
        BY Zenon, <2>0 DEF RaftTypeOK, EalTypeOK
      <4> QED
        BY <4>1
    <3> QED
      BY Zenon, <3>1, <3>2, StateAtFacts, CountingHolds
  <2> QED
    BY Zenon, <2>0, <2>1 DEF DbInv, ReplicaIsReplay
<1>2. PipelineInv => ReplicaIsReplay
  BY Zenon, <1>1
<1> QED
  BY <1>2, PipelineInvariant, PTL

\* No assertion of detectTransition, getEntry, setCurrentOffset or waitTillCommittedOrQuit fails.
THEOREM PipelineAssertionsHold == Spec => []AssertionsHold
<1>1. PipelineInv => AssertionsHold
  BY Zenon DEF PipelineInv
<1> QED
  BY <1>1, PipelineInvariant, PTL
=============================================================================
