--------------------------- MODULE CommandPipeline ---------------------------
(***************************************************************************)
(* The threads between a client's command and its answer on one replica:   *)
(*   the command process loop (CPL), which follows the role of the replica *)
(*     through RaftCommandEventStore and RaftLogStore;                     *)
(*   the persist thread of RaftLogStore, which batches entries for Raft;   *)
(*   the reply threads of RaftReplyLoop;                                   *)
(*   the event apply loop (EAL) with the load and decrypt threads of       *)
(*     ReadonlyRaftCommandEventStore (asynchronous load, as App uses it).  *)
(*                                                                         *)
(* The state of a state machine is the sequence of the <<index, term>> of  *)
(* the entries it has applied: the finest state an application can have.   *)
(* The entry a command produced carries the state it was decided on.       *)
(*                                                                         *)
(* Raft is the environment, seen from this replica (RaftCore models it):   *)
(* terms only grow, a role changes before the term on the way down and     *)
(* after it on the way up, a leader's no-op follows its role, committed    *)
(* entries are final, and another leader may replace the rest, also by     *)
(* entries this replica has dropped before.                                *)
(***************************************************************************)
EXTENDS Integers, Sequences, FiniteSets

CONSTANTS
  Cmds,        \* the commands, in the order the queue delivers them: 1..n
  Repliers,    \* the reply threads (mConcurrency, 2 in the code)
  MaxTerm,     \* bound: terms
  MaxForeign,  \* bound: entries of other leaders' clients in the log
  MaxQueue     \* kMaxQueueSize of the reader, 30 in the code

ASSUME PipelineAssumption ==
  /\ Cardinality(Cmds) \in Nat /\ Cmds = 1..Cardinality(Cmds)
  /\ {MaxTerm, MaxForeign, MaxQueue} \subseteq Nat \ {0}

VARIABLES
  (* Raft *)
  currentTerm,
  role,          \* "Other", "Leader", "Elected" (a leader without its no-op
                 \* yet) or "Stepping" (no leader any more, in its old term)
  log,           \* entries [term, noop, cmd, base]
  commitIndex,
  dropped,       \* logs this replica had and another leader replaced
  clientRequests, \* batches on their way to handleClientRequests
  (* the command process loop *)
  pc,
  command,       \* the command in hand
  arrived,       \* how many commands the queue has delivered
  mLastCheckedTerm,
  mLastCheckedRole,
  mLastCommandId,
  cplState,
  read,          \* what waitTillLeaderIsReadyOrStepDown has read so far
  mPersistQueue,
  (* the event apply loop and its reader *)
  ealPc,
  ealState,
  dbState,       \* the state RocksDB holds
  mShouldRecover,
  mLoadedIndex,
  mAppliedIndex,
  mApplyingIndex,
  mTaskQueue,    \* loaded tasks [entries, flag]
  mCachedBundles,
  (* the reply loop *)
  replyQueue,    \* tasks [index, term, cmd, code, base, flag]
  replier,       \* the task in each reply thread's hand and how far it is
  answer,        \* the code each command was answered with
  assertion      \* the first assertion that failed, or "none"

raftVars == <<currentTerm, role, log, commitIndex, dropped>>
cplVars == <<pc, command, arrived, mLastCheckedTerm, mLastCheckedRole, mLastCommandId, cplState, read>>
readerVars == <<mLoadedIndex, mAppliedIndex, mApplyingIndex, mTaskQueue, mCachedBundles>>
ealVars == <<ealPc, ealState, dbState, mShouldRecover, readerVars>>
queueVars == <<clientRequests, mPersistQueue>>
replyVars == <<replyQueue, replier, answer>>
vars == <<raftVars, cplVars, ealVars, queueVars, replyVars, assertion>>

-----------------------------------------------------------------------------
NoCmd == 0
NoTask == [index |-> 0]

Noop(t) == [term |-> t, noop |-> TRUE, cmd |-> NoCmd, base |-> <<>>]
Foreign(t) == [term |-> t, noop |-> FALSE, cmd |-> NoCmd, base |-> <<>>]

\* s is where t begins.
IsPrefix(s, t) == Len(s) <= Len(t) /\ \A i \in 1..Len(s) : s[i] = t[i]

\* All of s but its last element
Front(s) == SubSeq(s, 1, Len(s) - 1)

Id(l, i) == [index |-> i, term |-> l[i].term]

\* The state of a machine that applied the entries of l up to n.
StateAt(l, n) ==
  LET state[i \in 0..n] ==
        IF i = 0 THEN <<>>
        ELSE IF l[i].noop THEN state[i - 1] ELSE Append(state[i - 1], Id(l, i))
  IN state[n]

\* mLastAppliedLogEntryIndex, and last_applied_index for RocksDB.
LastApplied(state) == IF state = <<>> THEN 0 ELSE state[Len(state)].index

\* getRaftRole() == Leader
IsLeader == role \in {"Leader", "Elected"}

Asserts(condition, name) == assertion' = IF condition THEN assertion ELSE name

-----------------------------------------------------------------------------
InitRaft ==
  currentTerm = 0 /\ role = "Other" /\ log = <<>> /\ commitIndex = 0 /\ dropped = {}

InitLogStore ==
  mLastCheckedTerm = 0 /\ mLastCheckedRole = FALSE /\ mPersistQueue = <<>> /\ clientRequests = <<>>

\* No offset, no task and no bundle: as the reader is constructed
InitReader ==
  /\ mLoadedIndex = 0 /\ mAppliedIndex = 0 /\ mApplyingIndex = 0
  /\ mTaskQueue = <<>> /\ mCachedBundles = <<>>

InitReplyLoop ==
  replyQueue = <<>> /\ replier = [t \in Repliers |-> NoTask]

Init ==
  /\ InitRaft /\ InitLogStore /\ InitReader /\ InitReplyLoop
  /\ pc = "dequeue" /\ command = NoCmd /\ arrived = 0
  /\ mLastCommandId = 0 /\ cplState = <<>> /\ read = <<>>
  /\ ealPc = "idle" /\ ealState = <<>> /\ dbState = <<>> /\ mShouldRecover = FALSE
  /\ answer = [c \in Cmds |-> [code |-> "none", base |-> <<>>]]
  /\ assertion = "none"

-----------------------------------------------------------------------------
(* Raft as this replica shows it to its clients                            *)

notRaft == <<cplVars, ealVars, queueVars, replyVars, assertion>>

\* electionTimeout, or a message of a newer term to a follower.
NewTerm ==
  /\ role \in {"Other", "Stepping"}
  /\ currentTerm < MaxTerm
  /\ currentTerm' = currentTerm + 1
  /\ role' = "Other"
  /\ UNCHANGED <<log, commitIndex, dropped, notRaft>>

\* stepDown gives the role up first; NewTerm is its second half.
StepDown ==
  /\ role = "Leader"
  /\ currentTerm < MaxTerm
  /\ role' = "Stepping"
  /\ UNCHANGED <<currentTerm, log, commitIndex, dropped, notRaft>>

HasEntryOfTerm(t) == \E i \in DOMAIN log : log[i].term = t

\* becomeLeader sets the role, then appends the no-op of the term.
Elect ==
  /\ role = "Other"
  /\ currentTerm > 0
  /\ ~HasEntryOfTerm(currentTerm)
  /\ role' = "Elected"
  /\ UNCHANGED <<currentTerm, log, commitIndex, dropped, notRaft>>

AppendNoop ==
  /\ role = "Elected"
  /\ log' = Append(log, Noop(currentTerm))
  /\ role' = "Leader"
  /\ UNCHANGED <<currentTerm, commitIndex, dropped, notRaft>>

\* handleClientRequests, for one request of a batch ...
AcceptRequest(l, r) ==
  IF r.term = currentTerm /\ r.index = Len(l) + 1
  THEN Append(l, [term |-> r.term, noop |-> FALSE, cmd |-> r.cmd, base |-> r.base])
  ELSE l

\* ... and for the batch of the log store.
AcceptRequests(requests) ==
  LET accepted[k \in 0..Len(requests)] ==
        IF k = 0 THEN log ELSE AcceptRequest(accepted[k - 1], requests[k])
  IN accepted[Len(requests)]

HandleClientRequests ==
  /\ role # "Elected" /\ role # "Stepping"
  /\ clientRequests # <<>>
  /\ clientRequests' = Tail(clientRequests)
  /\ log' = IF role = "Leader" THEN AcceptRequests(Head(clientRequests)) ELSE log
  /\ UNCHANGED <<currentTerm, role, commitIndex, dropped, cplVars, mPersistQueue, ealVars, replyVars, assertion>>

\* The first entries of another leader's term: its log is the committed prefix
\* followed by some of the entries this replica has, or once had.
FollowNewLeader ==
  /\ role = "Other"
  /\ currentTerm > 0
  /\ ~HasEntryOfTerm(currentTerm)
  /\ \E l \in dropped \cup {log} : \E n \in commitIndex..Len(l) :
       /\ SubSeq(l, 1, commitIndex) = SubSeq(log, 1, commitIndex)
       /\ log' = Append(SubSeq(l, 1, n), Noop(currentTerm))
  /\ dropped' = IF IsPrefix(log, log') THEN dropped ELSE dropped \cup {log}
  /\ UNCHANGED <<currentTerm, role, commitIndex, notRaft>>

FollowLeader ==
  /\ role = "Other"
  /\ HasEntryOfTerm(currentTerm)
  /\ Cardinality({i \in DOMAIN log : log[i] = Foreign(log[i].term)}) < MaxForeign
  /\ log' = Append(log, Foreign(currentTerm))
  /\ UNCHANGED <<currentTerm, role, commitIndex, dropped, notRaft>>

\* A leader counts replicas only for entries of its term; a follower takes the
\* leader's word once it has an entry of the leader's term.
AdvanceCommitIndex ==
  /\ role \in {"Leader", "Other"}
  /\ \E n \in (commitIndex + 1)..Len(log) :
       /\ IF role = "Leader" THEN log[n].term = currentTerm ELSE HasEntryOfTerm(currentTerm)
       /\ commitIndex' = n
  /\ UNCHANGED <<currentTerm, role, log, dropped, notRaft>>

-----------------------------------------------------------------------------
(* The command process loop                                                *)

notCpl == <<raftVars, ealVars, clientRequests>>

Dequeue ==
  /\ pc = "dequeue"
  /\ arrived < Cardinality(Cmds)
  /\ arrived' = arrived + 1
  /\ command' = arrived'
  /\ pc' = "detect"
  /\ UNCHANGED <<mLastCheckedTerm, mLastCheckedRole, mLastCommandId, cplState, read,
                 mPersistQueue, notCpl, replyVars, assertion>>

Answer(c, code, base) == answer' = [answer EXCEPT ![c] = [code |-> code, base |-> base]]

\* Mutant of Refreshed: a leader that gives its role up in its own term is believed.
RefreshedAsRead == [term |-> currentTerm, leader |-> IsLeader]

\* refresh reads the term, the role and the term again until both terms agree:
\* terms only grow, so the pair it gets is that of the instant it read the
\* role.  A leader that has just given its role up is not noticed before its
\* term changes.
Refreshed ==
  IF mLastCheckedTerm = currentTerm /\ mLastCheckedRole /\ ~IsLeader
  THEN [term |-> mLastCheckedTerm, leader |-> TRUE]
  ELSE [term |-> currentTerm, leader |-> IsLeader]

\* detectTransition, and what runDistributed does for each transition.
DetectTransition ==
  /\ pc = "detect"
  /\ LET now == Refreshed
         same == now.term = mLastCheckedTerm
     IN
     /\ Asserts(/\ now.term >= mLastCheckedTerm
               /\ (same /\ mLastCheckedRole) => now.leader, "detectTransition")
     /\ mLastCheckedTerm' = now.term
     /\ mLastCheckedRole' = now.leader
     /\ pc' = CASE ~now.leader -> "dequeue"
                [] now.leader /\ same /\ mLastCheckedRole -> "process"
                [] now.leader /\ ~(same /\ mLastCheckedRole) -> "wait"
     /\ IF now.leader THEN UNCHANGED answer ELSE Answer(command, "301", <<>>)
  /\ UNCHANGED <<command, arrived, mLastCommandId, cplState, read, mPersistQueue,
                 replyQueue, replier, notCpl>>

\* waitTillLeaderIsReadyOrStepDown reads five values that other threads write,
\* one after the other, and tries again until they fit.
WaitTerm ==
  /\ pc = "wait"
  /\ IF currentTerm = mLastCheckedTerm
     THEN pc' = "waitLast" /\ UNCHANGED answer
     ELSE pc' = "dequeue" /\ Answer(command, "301", <<>>)
  /\ read' = <<>>
  /\ UNCHANGED <<command, arrived, mLastCheckedTerm, mLastCheckedRole, mLastCommandId, cplState,
                 mPersistQueue, replyQueue, replier, notCpl, assertion>>

WaitRead(from, value, to) ==
  /\ pc = from
  /\ read' = Append(read, value)
  /\ pc' = to
  /\ UNCHANGED <<command, arrived, mLastCheckedTerm, mLastCheckedRole, mLastCommandId, cplState,
                 mPersistQueue, replyVars, notCpl, assertion>>

\* Mutant of OnlyNoopsLeft: only the last entry is looked at.
OnlyLastIsNoop(applied, last) ==
  applied < last /\ log[last].noop /\ log[last].term = mLastCheckedTerm

\* The entries above the applied ones are all no-ops, and the last is that of
\* the expected term.
OnlyNoopsLeft(applied, last) ==
  /\ applied < last
  /\ \A i \in (applied + 1)..last : i \in DOMAIN log /\ log[i].noop
  /\ log[last].term = mLastCheckedTerm

WaitApplied ==
  /\ pc = "waitApplied"
  /\ LET last == read[1]
         ready == read[3] = read[2] /\ read[2] = last /\ OnlyNoopsLeft(mAppliedIndex, last)
     IN
     /\ pc' = IF ready THEN "swap" ELSE "wait"
     /\ mLastCommandId' = IF ready THEN last ELSE mLastCommandId
     /\ Asserts(read[3] = read[2] /\ read[2] = last => last <= Len(log), "getEntry")
  /\ read' = <<>>
  /\ UNCHANGED <<command, arrived, mLastCheckedTerm, mLastCheckedRole, cplState,
                 mPersistQueue, replyVars, notCpl>>

\* Mutant of Teardown: it forgets the loaded tasks and bundles.
TeardownKeepsTasks ==
  /\ mLoadedIndex' = 0 /\ mAppliedIndex' = 0 /\ mApplyingIndex' = 0
  /\ UNCHANGED <<mTaskQueue, mCachedBundles>>

\* teardown of the reader joins its threads and makes it as new.
Teardown ==
  /\ mLoadedIndex' = 0 /\ mAppliedIndex' = 0 /\ mApplyingIndex' = 0
  /\ mTaskQueue' = <<>> /\ mCachedBundles' = <<>>

\* swapStateAndTeardown, under mLoopMutex: the EAL is between two iterations.
\* The swap flushes the write batch: RocksDB holds what the EAL has applied.
SwapStateAndTeardown ==
  /\ pc = "swap"
  /\ ealPc = "idle"
  /\ cplState' = ealState
  /\ ealState' = cplState
  /\ dbState' = ealState
  /\ Teardown
  /\ mShouldRecover' = TRUE
  /\ pc' = "process"
  /\ UNCHANGED <<command, arrived, mLastCheckedTerm, mLastCheckedRole, mLastCommandId, read,
                 raftVars, queueVars, replyVars, ealPc, assertion>>

PushTask(index, code, base) ==
  replyQueue' = Append(replyQueue, [index |-> index, term |-> mLastCheckedTerm, cmd |-> command,
                                    code |-> code, base |-> base, flag |-> 0])

\* A command without events waits for the last entry before it.
ProcessRefused ==
  /\ pc = "process"
  /\ PushTask(mLastCommandId, "refused", cplState)
  /\ pc' = "dequeue"
  /\ UNCHANGED <<command, arrived, mLastCheckedTerm, mLastCheckedRole, mLastCommandId, cplState, read,
                 mPersistQueue, replier, answer, notCpl, assertion>>

\* The CPL applies its events before anything is replicated; the task of the
\* reply loop is queued before the entry.
ProcessAccepted ==
  /\ pc = "process"
  /\ mLastCommandId' = mLastCommandId + 1
  /\ cplState' = Append(cplState, [index |-> mLastCommandId', term |-> mLastCheckedTerm])
  /\ PushTask(mLastCommandId', "200", cplState)
  /\ pc' = "persist"
  /\ UNCHANGED <<command, arrived, mLastCheckedTerm, mLastCheckedRole, read,
                 mPersistQueue, replier, answer, notCpl, assertion>>

PersistAsync ==
  /\ pc = "persist"
  /\ mPersistQueue' = Append(mPersistQueue,
       [index |-> mLastCommandId, term |-> mLastCheckedTerm, cmd |-> command, base |-> Front(cplState)])
  /\ pc' = "dequeue"
  /\ UNCHANGED <<command, arrived, mLastCheckedTerm, mLastCheckedRole, mLastCommandId, cplState, read,
                 replyVars, notCpl, assertion>>

\* persistLoopMain and maySendBatch: a batch is any part of the queue, in order.
SendBatch ==
  /\ \E n \in 1..Len(mPersistQueue) :
       /\ clientRequests' = Append(clientRequests, SubSeq(mPersistQueue, 1, n))
       /\ mPersistQueue' = SubSeq(mPersistQueue, n + 1, Len(mPersistQueue))
  /\ UNCHANGED <<raftVars, cplVars, ealVars, replyVars, assertion>>

-----------------------------------------------------------------------------
(* The event apply loop and the threads of its reader                      *)

notEal == <<raftVars, cplVars, queueVars, replyVars>>

SetCurrentOffset(offset) ==
  /\ Asserts(mAppliedIndex = 0 /\ mLoadedIndex = 0, "setCurrentOffset")
  /\ mAppliedIndex' = offset
  /\ mLoadedIndex' = offset

RecoverSelf ==
  /\ ealPc = "idle"
  /\ mShouldRecover
  /\ ealState' = dbState
  /\ SetCurrentOffset(LastApplied(dbState))
  /\ mShouldRecover' = FALSE
  /\ ealPc' = "load"
  /\ UNCHANGED <<dbState, mApplyingIndex, mTaskQueue, mCachedBundles, notEal>>

\* mRunning: the load and the decrypt threads run from init, at the end of
\* recoverSelf, to teardown.
Running == ~mShouldRecover

\* The load thread takes committed entries only.
LoadEntries ==
  /\ Running
  /\ Len(mTaskQueue) < MaxQueue
  /\ mLoadedIndex < commitIndex
  /\ \E n \in (mLoadedIndex + 1)..commitIndex :
       /\ mTaskQueue' = Append(mTaskQueue, [from |-> mLoadedIndex + 1, to |-> n, flag |-> 0])
       /\ mLoadedIndex' = n
  /\ UNCHANGED <<ealPc, ealState, dbState, mShouldRecover, mAppliedIndex, mApplyingIndex,
                 mCachedBundles, notEal, assertion>>

\* The decrypt threads finish the tasks they claimed in any order.
DecryptEntries ==
  /\ Running
  /\ \E k \in DOMAIN mTaskQueue :
       /\ mTaskQueue[k].flag = 0
       /\ mTaskQueue' = [mTaskQueue EXCEPT ![k].flag = 2]
  /\ UNCHANGED <<ealPc, ealState, dbState, mShouldRecover, mLoadedIndex, mAppliedIndex,
                 mApplyingIndex, mCachedBundles, notEal, assertion>>

\* decryptEntries leaves no-ops out.
BundlesOf(task) ==
  LET size == task.to - task.from + 1
      bundles[k \in 0..size] ==
        IF k = 0 THEN <<>>
        ELSE IF log[task.from + k - 1].noop THEN bundles[k - 1]
        ELSE Append(bundles[k - 1], task.from + k - 1)
  IN bundles[size]

TaskReady == mCachedBundles = <<>> /\ mTaskQueue # <<>> /\ Head(mTaskQueue).flag = 2

\* loadNextCommandEvents
LoadNextCommandEvents ==
  /\ \/ ealPc = "idle" /\ ~mShouldRecover
     \/ ealPc = "load"
  /\ mAppliedIndex' = IF mApplyingIndex > mAppliedIndex THEN mApplyingIndex ELSE mAppliedIndex
  /\ mTaskQueue' = IF TaskReady THEN Tail(mTaskQueue) ELSE mTaskQueue
  /\ LET bundles == IF TaskReady THEN BundlesOf(Head(mTaskQueue)) ELSE mCachedBundles IN
       IF bundles = <<>>
       THEN /\ ealPc' = "idle"
            /\ mCachedBundles' = <<>>
            /\ UNCHANGED mApplyingIndex
       ELSE /\ ealPc' = "apply"
            /\ mCachedBundles' = Tail(bundles)
            /\ mApplyingIndex' = Head(bundles)
  /\ UNCHANGED <<ealState, dbState, mShouldRecover, mLoadedIndex, notEal, assertion>>

ApplyEvents ==
  /\ ealPc = "apply"
  /\ ealState' = Append(ealState, Id(log, mApplyingIndex))
  /\ ealPc' = "idle"
  /\ UNCHANGED <<dbState, mShouldRecover, readerVars, notEal, assertion>>

-----------------------------------------------------------------------------
(* The reply loop                                                          *)

notReply == <<raftVars, cplVars, ealVars, queueVars>>

\* A reply thread claims the first task nobody has claimed.
ClaimTask(t) ==
  /\ replier[t] = NoTask
  /\ \E k \in DOMAIN replyQueue :
       /\ replyQueue[k].flag = 0
       /\ \A j \in 1..(k - 1) : replyQueue[j].flag # 0
       /\ replyQueue' = [replyQueue EXCEPT ![k].flag = 1]
       /\ replier' = [replier EXCEPT ![t] = [index |-> replyQueue[k].index, task |-> replyQueue[k],
                                             phase |-> "terms"]]
  /\ UNCHANGED <<answer, notReply, assertion>>

\* fillResultAndReply, then flag = 2.
ReplyTask(t, code) ==
  /\ Answer(replier[t].task.cmd, code, replier[t].task.base)
  /\ replyQueue' = [k \in DOMAIN replyQueue |->
       IF replyQueue[k].cmd = replier[t].task.cmd THEN [replyQueue[k] EXCEPT !.flag = 2] ELSE replyQueue[k]]
  /\ replier' = [replier EXCEPT ![t] = NoTask]

\* Mutant of CheckTerms: it waits for a lost entry for ever.
CheckTermsNeverQuits(t) ==
  /\ replier[t] # NoTask
  /\ replier[t].phase = "terms"
  /\ replier' = [replier EXCEPT ![t].phase = "commit"]
  /\ UNCHANGED <<replyQueue, answer, notReply, assertion>>

\* waitTillCommittedOrQuit: the term, the last index and the term again, which
\* is the pair at the instant the index was read.
CheckTerms(t) ==
  /\ replier[t] # NoTask
  /\ replier[t].phase = "terms"
  /\ Asserts(currentTerm >= replier[t].task.term, "waitTillCommittedOrQuit")
  /\ IF Len(log) < replier[t].index /\ currentTerm > replier[t].task.term
     THEN ReplyTask(t, "301")
     ELSE /\ replier' = [replier EXCEPT ![t].phase = "commit"]
          /\ UNCHANGED <<replyQueue, answer>>
  /\ UNCHANGED notReply

\* Mutant of CheckCommitted: the term of the committed entry is not compared.
CheckCommittedAnyTerm(t) ==
  /\ replier[t] # NoTask
  /\ replier[t].phase = "commit"
  /\ IF commitIndex < replier[t].index
     THEN /\ replier' = [replier EXCEPT ![t].phase = "terms"]
          /\ UNCHANGED <<replyQueue, answer>>
     ELSE ReplyTask(t, replier[t].task.code)
  /\ UNCHANGED <<notReply, assertion>>

\* ... then the commit index, and the entry once it is committed.
CheckCommitted(t) ==
  /\ replier[t] # NoTask
  /\ replier[t].phase = "commit"
  /\ IF commitIndex < replier[t].index
     THEN /\ replier' = [replier EXCEPT ![t].phase = "terms"]
          /\ UNCHANGED <<replyQueue, answer>>
     ELSE ReplyTask(t, IF log[replier[t].index].term = replier[t].task.term
                       THEN replier[t].task.code ELSE "301")
  /\ UNCHANGED <<notReply, assertion>>

PopTask ==
  /\ replyQueue # <<>>
  /\ Head(replyQueue).flag = 2
  /\ replyQueue' = Tail(replyQueue)
  /\ UNCHANGED <<replier, answer, notReply, assertion>>

-----------------------------------------------------------------------------
Raft ==
  \/ NewTerm \/ StepDown \/ Elect \/ AppendNoop \/ HandleClientRequests
  \/ FollowNewLeader \/ FollowLeader \/ AdvanceCommitIndex

Cpl ==
  \/ Dequeue \/ DetectTransition \/ WaitTerm
  \/ WaitRead("waitLast", Len(log), "waitCommit")
  \/ WaitRead("waitCommit", commitIndex, "waitLoaded")
  \/ WaitRead("waitLoaded", mLoadedIndex, "waitApplied")
  \/ WaitApplied
  \/ SwapStateAndTeardown \/ ProcessRefused \/ ProcessAccepted \/ PersistAsync

Eal == RecoverSelf \/ LoadNextCommandEvents \/ ApplyEvents

Reply(t) == ClaimTask(t) \/ CheckTerms(t) \/ CheckCommitted(t)

Next ==
  \/ Raft \/ Cpl \/ SendBatch
  \/ Eal \/ LoadEntries \/ DecryptEntries
  \/ \E t \in Repliers : Reply(t)
  \/ PopTask

Spec == Init /\ [][Next]_vars

\* Every thread keeps running, and Raft keeps its promise: a replica that is
\* cut off is not modelled here, its leader's entries reach it and get
\* committed.
Fairness ==
  /\ WF_vars(Cpl) /\ WF_vars(SendBatch)
  /\ WF_vars(Eal) /\ WF_vars(LoadEntries) /\ WF_vars(DecryptEntries)
  /\ \A t \in Repliers : WF_vars(Reply(t))
  /\ WF_vars(AppendNoop) /\ WF_vars(HandleClientRequests) /\ WF_vars(AdvanceCommitIndex)
  /\ WF_vars(FollowNewLeader) /\ WF_vars(role = "Stepping" /\ NewTerm)

FairSpec == Spec /\ Fairness

-----------------------------------------------------------------------------
(* Properties                                                              *)

\* Types, and the order of the indexes: what is applied has been loaded, what is
\* loaded is committed, and the reader holds at most kMaxQueueSize tasks.
TypeOK ==
  /\ currentTerm \in 0..MaxTerm /\ mLastCheckedTerm \in 0..currentTerm
  /\ commitIndex \in 0..Len(log) /\ Len(log) <= MaxTerm + MaxForeign + Cardinality(Cmds)
  /\ mLoadedIndex \in 0..commitIndex /\ mAppliedIndex \in 0..mLoadedIndex
  /\ mApplyingIndex \in 0..mLoadedIndex
  /\ Len(mTaskQueue) <= MaxQueue
  /\ \A c \in Cmds : answer[c].code \in {"none", "200", "301", "refused"}

\* An entry that handleClientRequests took from the CPL was decided on exactly
\* the state its predecessors in the log produce, whatever roles and terms the
\* replica went through between the decision and the append: this is why replay
\* of the events is the state the decision was made on.
DecidedOnItsPrefix ==
  \A i \in DOMAIN log : log[i].cmd # NoCmd => log[i].base = StateAt(log, i - 1)

\* A client that got 200 finds its command among the committed entries, and any
\* answer of the state machine, a refusal too, was given on committed state:
\* the reply loop never lets speculative state of the CPL out.
AnswersAreCommitted ==
  \A c \in Cmds :
    /\ answer[c].code = "200" => \E i \in 1..commitIndex : log[i].cmd = c
    /\ answer[c].code \in {"200", "refused"} => IsPrefix(answer[c].base, StateAt(log, commitIndex))

\* What RocksDB holds, and what the EAL holds while it runs, is the replay of a
\* committed prefix of the log: no entry is applied twice, skipped or out of
\* order through swap, teardown, recovery and the decrypt threads.
ReplicaIsReplay ==
  /\ dbState = StateAt(log, LastApplied(dbState))
  /\ LastApplied(dbState) <= commitIndex
  /\ ~mShouldRecover => ealState = StateAt(log, LastApplied(ealState))

\* Every command the CPL dequeues is answered, also when its entry is lost with
\* its leader (waitTillCommittedOrQuit quits) or when leadership is lost while the
\* CPL waits for the EAL.
EveryCommandIsAnswered ==
  \A c \in Cmds : (command = c) ~> (answer[c].code # "none")

\* None of the assertions of detectTransition, getEntry in
\* waitTillLeaderIsReadyOrStepDown, setCurrentOffset and waitTillCommittedOrQuit
\* can fail; release builds keep them.
AssertionsHold == assertion = "none"

=============================================================================
