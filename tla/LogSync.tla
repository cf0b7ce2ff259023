------------------------------- MODULE LogSync -------------------------------
(***************************************************************************)
(* How a node of a new cluster takes over the log of the cluster it is     *)
(* split from (app_util/sync, infra/raft/StreamingService.cpp, the Syncer  *)
(* role of RaftCore, the signal hub).                                      *)
(*                                                                         *)
(* The source cluster is its committed log; an endpoint is one of its      *)
(* nodes, which knows a prefix of that log to be committed and has dropped *)
(* another.  The node runs six threads: the sync thread of LogSyncService, *)
(* the handlers of SyncLog and Startup, the signal hub, the raft loop and  *)
(* the event apply loop.  An operator carries out one plan, Plan: SyncLog  *)
(* and Startup until Startup succeeds.  An application keeps the control   *)
(* state beside the state it persists and hands it to recoverForEAL when   *)
(* it starts; it gives RaftCore the role Syncer (RaftBuilder's argument).  *)
(***************************************************************************)
EXTENDS SplitControl

CONSTANTS
  NoOp,            \* marks the no-op of a leader of the new cluster
  Plan,            \* the plan that creates this cluster
  Requests,        \* the split requests sent to the source cluster, one per plan
  Self,            \* the id of this cluster; the source has id 0
  Endpoint,        \* the nodes of the source cluster
  RouteType, Group,
  RouteAnswers,    \* what the handler of RouteSignal may answer
  MaxLog,          \* bound on the entries of the source's log
  MaxCommands,     \* bound on those of them that are no split
  SourceTerm,      \* the term of the source's leader when it appends an index
  Truncating,      \* the endpoints whose operator calls TruncatePrefix
  MaxTruncations,  \* bound on calls of truncatePrefix at the source
  MaxCrashes,      \* bound on crashes of the node
  MaxSyncCalls,    \* bound on SyncLog calls to one incarnation of the node
  MaxStartups      \* bound on Startup calls that succeed, per incarnation

VARIABLES
  source,   \* the source cluster: log, ctrl; commit and first per endpoint
  raft,     \* RaftCore of the node: role, log, term, commit, begin, pc, queue
  hub,      \* mEventQueue of the signal hub
  service,  \* LogSyncService: lastIndex, endLog, planId, readers, lock
  thread,   \* the sync thread: pc, clientIdx and what fetch has read
  sync,     \* the SyncLog handler
  startup,  \* the Startup handler
  app,      \* the state machine: ctrl, applied, what is saved; recoverForEAL
  status,   \* "up", "down", or the assertion that ended the process
  bounds    \* bound: truncations, crashes, calls so far

node == <<raft, hub, service, thread, sync, startup, app>>
vars == <<source, node, status, bounds>>

RequestOf(plan) == CHOOSE r \in Requests : r.plan = plan
Signal(type, index) == [type |-> type, index |-> index]
SyncRequest(start, end, logs) == [finish |-> FALSE, start |-> start, end |-> end, logs |-> logs]
FinishRequest(index) == [finish |-> TRUE, start |-> index, end |-> 0, logs |-> <<>>]

NewRaft == [role |-> "Syncer", log |-> <<>>, term |-> 0, commit |-> 0, begin |-> 1,
            pc |-> "receive", queue |-> <<>>]
NewService(lastIndex) ==
  [lastIndex |-> lastIndex, endLog |-> FALSE, planId |-> NoPlan, readers |-> <<>>, lock |-> "free"]
NewThread == [pc |-> "top", clientIdx |-> 0, commit |-> 0, first |-> 0, status |-> "OK", logs |-> <<>>]
IdleSync == [pc |-> "idle", plan |-> NoPlan]

Init ==
  /\ source = [log |-> <<>>, ctrl |-> NewCtrlState,
               commit |-> [e \in Endpoint |-> 0], first |-> [e \in Endpoint |-> 1]]
  /\ raft = NewRaft
  /\ hub = <<>>
  /\ service = NewService(0)
  /\ thread = NewThread
  /\ sync = IdleSync
  /\ startup = "idle"
  /\ app = [pc |-> "run", ctrl |-> NewCtrlState, applied |-> 0,
            saved |-> [ctrl |-> NewCtrlState, applied |-> 0]]
  /\ status = "up"
  /\ bounds = [truncations |-> 0, crashes |-> 0, syncCalls |-> 0, startups |-> 0,
               moved |-> FALSE]

-----------------------------------------------------------------------------
(* The source cluster *)

SourceAppend(plan) ==
  /\ Len(source.log) < MaxLog
  /\ source' = [source EXCEPT !.log = Append(@, [term |-> SourceTerm[Len(source.log) + 1], plan |-> plan]),
                              !.ctrl = IF plan = NoPlan THEN @
                                       ELSE ApplySplit(@, RequestOf(plan), Len(source.log) + 1, 0)]
  /\ UNCHANGED <<node, status, bounds>>

SourceCommand ==
  /\ Cardinality({i \in DOMAIN source.log : source.log[i].plan = NoPlan}) < MaxCommands
  /\ SourceAppend(NoPlan)

\* A split command whose process returns another code leaves no entry; nothing
\* follows one that ends the nodes of the source with the assertion of apply.
SourceSplit ==
  \E r \in Requests :
    /\ VerifyCommand(r)
    /\ ProcessSplit(source.ctrl, r) = 200
    /\ MayApplySplit(r, 0)
    /\ SourceAppend(r.plan)

SourceCommit(e) ==
  /\ source.commit[e] < Len(source.log)
  /\ source' = [source EXCEPT !.commit[e] = @ + 1]
  /\ UNCHANGED <<node, status, bounds>>

\* NetAdminServer::TruncatePrefix on an endpoint.
SourceTruncatePrefix(e) ==
  /\ e \in Truncating
  /\ bounds.truncations < MaxTruncations
  /\ \E kept \in (source.first[e] + 1)..source.commit[e] :
       source' = [source EXCEPT !.first[e] = kept]
  /\ bounds' = [bounds EXCEPT !.truncations = @ + 1]
  /\ UNCHANGED <<node, status>>

-----------------------------------------------------------------------------
(* RaftInterface as the service uses it *)

\* RaftCore::getEntry; FALSE is the failed assertion.
MayGetEntry(index) == raft.role # "Syncer" => index <= raft.commit
\* An index that is not in the log leaves the entry as constructed, untagged.
PlanAt(index) == IF index \in DOMAIN raft.log THEN raft.log[index].plan ELSE NoPlan

Fail(assertion) ==
  /\ status' = assertion
  /\ UNCHANGED <<source, node, bounds>>

-----------------------------------------------------------------------------
(* The sync thread: LogSyncService::run *)

EndLog(plan) == plan # NoPlan /\ plan = service.planId

AtThread(pc) == status = "up" /\ thread.pc = pc

\* The loop stops once the split is found; readers are awaited under the lock.
RunLoop ==
  /\ AtThread("top")
  /\ thread' = IF service.endLog THEN [NewThread EXCEPT !.pc = "ended"]
               ELSE [thread EXCEPT !.pc = "wait"]
  /\ UNCHANGED <<source, raft, hub, service, sync, startup, app, status, bounds>>

RunPickReader ==
  /\ AtThread("wait")
  /\ service.lock = "free"
  /\ service.readers # <<>>
  /\ service' = [service EXCEPT !.lock = "thread"]
  /\ thread' = [thread EXCEPT !.pc = "request", !.clientIdx = @ % Len(service.readers)]
  /\ UNCHANGED <<source, raft, hub, sync, startup, app, status, bounds>>

\* fetch returns, and the lock is released.
Fetched(result, logs) ==
  /\ thread' = [thread EXCEPT !.pc = "fetched", !.status = result, !.logs = logs,
                              !.commit = 0, !.first = 0]
  /\ service' = [service EXCEPT !.lock = "free"]
  /\ UNCHANGED <<source, raft, hub, sync, startup, app, status, bounds>>

\* The call fails or passes its deadline: reconnect, ERROR.
FetchFails == AtThread("request") /\ Fetched("ERROR", <<>>)

\* More than mMaxConcurrency calls: first_index is left 0, which the reader
\* takes for a leader that is starting.
FetchThrottled == AtThread("request") /\ Fetched("OK", <<>>)

\* StreamingService::getEntries reads the commit index, then the first index...
FetchReadsIndexes(e) ==
  /\ AtThread("request")
  /\ e = service.readers[thread.clientIdx + 1]
  /\ thread' = [thread EXCEPT !.pc = "entries", !.commit = source.commit[e],
                              !.first = source.first[e]]
  /\ UNCHANGED <<source, raft, hub, service, sync, startup, app, status, bounds>>

\* Mutant of EntriesRead: a start that the log has dropped is moved up.
EntriesFromFirst(e) ==
  LET start == Max({service.lastIndex + 1, source.first[e]})
  IN IF start > thread.commit
     THEN {<<>>}
     ELSE {SubSeq(source.log, start, last) : last \in start..thread.commit}

\* ... then entries up to that commit index: one segment of them, none when the
\* log has dropped the start.
EntriesRead(e) ==
  LET start == service.lastIndex + 1
  IN IF start > thread.commit \/ start < source.first[e]
     THEN {<<>>}
     ELSE {SubSeq(source.log, start, last) : last \in start..thread.commit}

FetchReadsEntries(e) ==
  /\ AtThread("entries")
  /\ e = service.readers[thread.clientIdx + 1]
  /\ IF service.lastIndex + 1 < thread.first
     THEN Fail("source truncated")
     ELSE \E logs \in EntriesRead(e) : Fetched(IF logs = <<>> THEN "NODATA" ELSE "OK", logs)

\* truncateLogs: keep the entries up to the one that ends the plan.
EndsAt(logs) == {i \in DOMAIN logs : EndLog(logs[i].plan)}
\* Mutant of TruncateLogs: what follows the split in the same batch is kept.
KeepLogs(logs) == logs

TruncateLogs(logs) ==
  IF EndsAt(logs) = {} THEN logs ELSE SubSeq(logs, 1, Min(EndsAt(logs)))

RunTruncate ==
  /\ AtThread("fetched")
  /\ thread.status = "OK"
  /\ IF service.endLog
     THEN Fail("truncateLogs")
     ELSE /\ service' = [service EXCEPT !.endLog = EndsAt(thread.logs) # {}]
          /\ thread' = [thread EXCEPT !.pc = IF thread.logs = <<>> THEN "top" ELSE "enqueue",
                                      !.logs = TruncateLogs(@)]
          /\ UNCHANGED <<source, raft, hub, sync, startup, app, status, bounds>>

RunEnqueue ==
  /\ AtThread("enqueue")
  /\ raft' = [raft EXCEPT !.queue =
                Append(@, SyncRequest(service.lastIndex + 1,
                                      service.lastIndex + Len(thread.logs), thread.logs))]
  /\ thread' = [thread EXCEPT !.pc = "advance"]
  /\ UNCHANGED <<source, hub, service, sync, startup, app, status, bounds>>

RunAdvance ==
  /\ AtThread("advance")
  /\ service' = [service EXCEPT !.lastIndex = @ + Len(thread.logs)]
  /\ thread' = [thread EXCEPT !.pc = "top", !.logs = <<>>]
  /\ UNCHANGED <<source, raft, hub, sync, startup, app, status, bounds>>

\* After one second; the lock is not held.
RunSwitchReader ==
  /\ AtThread("fetched")
  /\ thread.status # "OK"
  /\ IF service.readers = <<>>
     THEN Fail("modulo by zero")
     ELSE /\ thread' = [thread EXCEPT !.pc = "top", !.status = "OK",
                          !.clientIdx = (@ + 1) % Len(service.readers)]
          /\ UNCHANGED <<source, raft, hub, service, sync, startup, app, status, bounds>>

-----------------------------------------------------------------------------
(* NetAdminServer::SyncLog and LogSyncService::setTargets *)

\* The operator calls SyncLog for Plan, perhaps after a call for a plan that
\* the source carried out earlier.  No call once Startup has succeeded, unless
\* the node goes down before it has acted on it.
SyncLogCall(plan) ==
  /\ status = "up"
  /\ sync.pc = "idle"
  /\ bounds.syncCalls < MaxSyncCalls
  /\ plan # Plan => ~bounds.moved /\ \E i \in DOMAIN source.log : source.log[i].plan = plan
  /\ bounds.startups = 0
  /\ bounds' = [bounds EXCEPT !.syncCalls = @ + 1, !.moved = @ \/ plan = Plan]
  /\ hub' = Append(hub, Signal("Query", 0))
  /\ sync' = [pc |-> "query", plan |-> plan]
  /\ UNCHANGED <<source, raft, service, thread, startup, app, status>>

\* Mutant of FoundEnd: a log that was complete before the start is not seen.
NeverFoundEnd(plan) == FALSE

\* The last entry synced ends the plan.
FoundEnd(plan) == service.lastIndex # 0 /\ PlanAt(service.lastIndex) = plan

\* setTargets under mReaderMutex, up to what it decides on the last entry.
SetTargets ==
  /\ status = "up"
  /\ sync.pc = "setTargets"
  /\ service.lock = "free"
  /\ IF service.lastIndex # 0 /\ ~MayGetEntry(service.lastIndex)
     THEN Fail("getEntry")
     ELSE LET planned == [service EXCEPT !.planId = sync.plan]
              ends == FoundEnd(sync.plan)
          IN /\ service' = IF ends THEN [planned EXCEPT !.endLog = TRUE]
                           ELSE [planned EXCEPT !.lock = "setTargets"]
             /\ sync' = [sync EXCEPT !.pc = IF ends THEN "idle"
                                          ELSE IF service.endLog THEN "join" ELSE "clear"]
             /\ UNCHANGED <<source, raft, hub, thread, startup, app, status, bounds>>

SetTargetsRestartsThread ==
  /\ status = "up"
  /\ sync.pc = "join"
  /\ thread.pc = "ended"
  /\ service' = [service EXCEPT !.endLog = FALSE]
  /\ thread' = NewThread
  /\ sync' = [sync EXCEPT !.pc = "clear"]
  /\ UNCHANGED <<source, raft, hub, startup, app, status, bounds>>

SetTargetsClearsReaders ==
  /\ status = "up"
  /\ sync.pc = "clear"
  /\ service' = [service EXCEPT !.readers = <<>>]
  /\ sync' = [sync EXCEPT !.pc = "connect"]
  /\ UNCHANGED <<source, raft, hub, thread, startup, app, status, bounds>>

SetTargetsConnects ==
  /\ status = "up"
  /\ sync.pc = "connect"
  /\ service' = [service EXCEPT !.readers = SetToSeq(Endpoint), !.lock = "free"]
  /\ sync' = [sync EXCEPT !.pc = "idle"]
  /\ UNCHANGED <<source, raft, hub, thread, startup, app, status, bounds>>

-----------------------------------------------------------------------------
(* NetAdminServer::Startup and LogSyncService::terminateSyncMode *)

\* The checks on what was synced; a call that fails one changes nothing.
EndsPlan == PlanAt(service.lastIndex) = Plan

StartupCall ==
  /\ status = "up"
  /\ startup = "idle"
  /\ bounds.startups < MaxStartups
  /\ service.endLog
  /\ IF ~MayGetEntry(service.lastIndex)
     THEN Fail("getEntry")
     ELSE /\ EndsPlan
          /\ startup' = "signal"
          /\ UNCHANGED <<source, raft, hub, service, thread, sync, app, status, bounds>>

StopIndex == service.lastIndex + 1

StartupSignals ==
  /\ status = "up"
  /\ startup = "signal"
  /\ hub' = Append(hub, Signal("StopSyncRole", StopIndex))
  /\ startup' = "idle"
  /\ bounds' = [bounds EXCEPT !.startups = @ + 1]
  /\ UNCHANGED <<source, raft, service, thread, sync, app, status>>

-----------------------------------------------------------------------------
(* The signal hub runs the handlers one after the other. *)

HandleQuery ==
  /\ Head(hub).type = "Query"
  /\ sync' = [sync EXCEPT !.pc = IF raft.role = "Syncer" THEN "setTargets" ELSE "idle"]
  /\ UNCHANGED <<raft, app>>

HandleStopSyncRole ==
  /\ Head(hub).type = "StopSyncRole"
  /\ raft' = [raft EXCEPT !.queue = Append(@, FinishRequest(Head(hub).index))]
  /\ UNCHANGED <<sync, app>>

HandleRoute ==
  /\ Head(hub).type = "Route"
  /\ \E has \in RouteAnswers : app' = [app EXCEPT !.pc = IF has THEN "start" ELSE "run"]
  /\ UNCHANGED <<raft, sync>>

HandleSignal ==
  /\ status = "up"
  /\ hub # <<>>
  /\ hub' = Tail(hub)
  /\ HandleQuery \/ HandleStopSyncRole \/ HandleRoute
  /\ UNCHANGED <<source, service, thread, startup, status, bounds>>

-----------------------------------------------------------------------------
(* The raft loop: RaftCore::handleSyncRequest *)

AtRaft(pc) == status = "up" /\ raft.pc = pc

Received == [raft EXCEPT !.queue = Tail(@)]

HandleSyncRequest ==
  /\ AtRaft("receive")
  /\ raft.queue # <<>>
  /\ LET r == Head(raft.queue)
     IN IF raft.role = "Syncer" /\ ~r.finish /\ ~(/\ r.start = Len(raft.log) + 1
                                                  /\ r.logs # <<>>
                                                  /\ Len(raft.log \o r.logs) = r.end)
        THEN Fail("handleSyncRequest")
        ELSE /\ raft' = IF raft.role # "Syncer" THEN Received
                        ELSE IF r.finish
                        THEN [Received EXCEPT !.role = "Follower", !.begin = r.start]
                        ELSE [Received EXCEPT !.log = @ \o r.logs, !.pc = "term"]
             /\ UNCHANGED <<source, hub, service, thread, sync, startup, app, status, bounds>>

HandleSyncRequestSetsTerm ==
  /\ AtRaft("term")
  /\ raft' = [raft EXCEPT !.pc = "receive", !.term = Last(raft.log).term, !.commit = Len(raft.log)]
  /\ UNCHANGED <<source, hub, service, thread, sync, startup, app, status, bounds>>

\* The new cluster elects this node, which commits a no-op: external, see
\* RaftCore.tla.
Lead ==
  /\ AtRaft("receive")
  /\ raft.role = "Follower"
  /\ raft' = [raft EXCEPT !.role = "Leader", !.term = @ + 1,
                          !.log = Append(@, [term |-> raft.term + 1, plan |-> NoOp]),
                          !.commit = Len(raft.log) + 1]
  /\ UNCHANGED <<source, hub, service, thread, sync, startup, app, status, bounds>>

-----------------------------------------------------------------------------
(* The event apply loop, and what the application does with the control state *)

ApplyNext ==
  /\ status = "up"
  /\ app.pc = "run"
  /\ app.applied < raft.commit
  /\ LET i == app.applied + 1
         plan == raft.log[i].plan
         splits == plan \notin {NoPlan, NoOp}
     IN IF splits /\ ~MayApplySplit(RequestOf(plan), Self)
        THEN Fail("apply")
        ELSE /\ app' = [app EXCEPT !.applied = i,
                          !.ctrl = IF splits THEN ApplySplit(@, RequestOf(plan), i, Self) ELSE @]
             /\ UNCHANGED <<source, raft, hub, service, thread, sync, startup, status, bounds>>

\* External: the application persists its state with the control state in it.
SaveState ==
  /\ status = "up"
  /\ app.saved.applied < app.applied
  /\ app' = [app EXCEPT !.saved = [ctrl |-> app.ctrl, applied |-> app.applied]]
  /\ UNCHANGED <<source, raft, hub, service, thread, sync, startup, status, bounds>>

\* What is left is the log, the term and the state that was saved.
Crash ==
  /\ status = "up"
  /\ bounds.crashes < MaxCrashes
  /\ status' = "down"
  /\ raft' = [NewRaft EXCEPT !.log = raft.log, !.term = raft.term]
  /\ hub' = <<>>
  /\ service' = NewService(Len(raft.log))
  /\ thread' = NewThread
  /\ sync' = IdleSync
  /\ startup' = "idle"
  /\ app' = [app EXCEPT !.pc = "run", !.ctrl = NewCtrlState, !.applied = app.saved.applied]
  /\ bounds' = [bounds EXCEPT !.crashes = @ + 1, !.syncCalls = 0,
                              !.startups = IF raft.role = "Syncer" THEN 0 ELSE @]
  /\ UNCHANGED source

\* recoverForEAL asks for the route of a cluster that a split has created, ...
Restart ==
  /\ status = "down"
  /\ status' = "up"
  /\ LET ctrl == DecodeFromString(app.saved.ctrl, Self)
         asks == HasState(ctrl) /\ ctrl.cluster > 0
     IN /\ app' = [app EXCEPT !.ctrl = ctrl, !.pc = IF asks THEN "route" ELSE "run"]
        /\ hub' = IF asks THEN <<Signal("Route", 0)>> ELSE <<>>
  /\ UNCHANGED <<source, raft, service, thread, sync, startup, bounds>>

\* ... and starts raft if it has one.
RecoverStartsRaft ==
  /\ status = "up"
  /\ app.pc = "start"
  /\ hub' = Append(hub, Signal("StopSyncRole", app.ctrl.start))
  /\ app' = [app EXCEPT !.pc = "run"]
  /\ UNCHANGED <<source, raft, service, thread, sync, startup, status, bounds>>

-----------------------------------------------------------------------------

SyncThread ==
  \/ RunLoop \/ RunPickReader \/ RunTruncate \/ RunEnqueue \/ RunAdvance \/ RunSwitchReader
FetchSucceeds == \E e \in Endpoint : FetchReadsIndexes(e)
FetchReturns == \E e \in Endpoint : FetchReadsEntries(e)
StartupHandler == StartupCall \/ StartupSignals
EventApplyLoop == ApplyNext \/ RecoverStartsRaft
SyncLogHandler ==
  SetTargets \/ SetTargetsRestartsThread \/ SetTargetsClearsReaders \/ SetTargetsConnects
RaftLoop == HandleSyncRequest \/ HandleSyncRequestSetsTerm

OtherStep ==
  \/ SourceCommand \/ SourceSplit
  \/ \E e \in Endpoint : SourceCommit(e) \/ SourceTruncatePrefix(e)
  \/ SyncThread \/ FetchSucceeds \/ FetchFails \/ FetchThrottled \/ FetchReturns
  \/ SyncLogHandler
  \/ StartupHandler
  \/ HandleSignal
  \/ RaftLoop \/ Lead
  \/ EventApplyLoop \/ SaveState
  \/ Crash \/ Restart

Next == OtherStep \/ \E r \in Requests : SyncLogCall(r.plan)

Spec == Init /\ [][Next]_vars

\* An assumption on the operator that nothing in SyncLog enforces: it is called
\* again only when the split of the call before is synced and appended.
Synced == thread.pc = "ended" /\ raft.queue = <<>> /\ raft.pc = "receive"
OperatorWaits == bounds.syncCalls = 0 \/ Synced
PatientCall(plan) == OperatorWaits /\ SyncLogCall(plan)
PatientNext == OtherStep \/ \E r \in Requests : PatientCall(r.plan)

\* Threads run; an endpoint that is asked again and again answers in the end and
\* learns what is committed; a node that is down is restarted; the operator goes
\* on with the plan.
Fairness ==
  /\ WF_vars(SyncThread \/ FetchReturns) /\ WF_vars(SyncLogHandler) /\ WF_vars(HandleSignal)
  /\ WF_vars(RaftLoop) /\ WF_vars(EventApplyLoop)
  /\ \A e \in Endpoint : WF_vars(SourceCommit(e)) /\ SF_vars(FetchReadsIndexes(e))
  /\ WF_vars(Restart)
  /\ WF_vars(PatientCall(Plan)) /\ WF_vars(StartupHandler)

PatientSpec == Init /\ [][PatientNext]_vars /\ Fairness

-----------------------------------------------------------------------------
(* Correctness *)

\* What the members hold, and the order of their indexes.
TypeOK ==
  /\ raft.role \in {"Syncer", "Follower", "Leader"}
  /\ raft.commit <= Len(raft.log)
  /\ raft.begin \in 1..(Len(raft.log) + 1)
  /\ service.lock \in {"free", "thread", "setTargets"}
  /\ \A e \in Endpoint : /\ source.commit[e] <= Len(source.log)
                         /\ source.first[e] \in 1..(source.commit[e] + 1)
  /\ app.saved.applied <= app.applied /\ app.applied <= Len(raft.log)

\* What the raft loop has appended and what it is still to append, up to the
\* split, is what the source cluster committed, with no gap and nothing twice:
\* whichever endpoints answered, however often fetch failed, and across a
\* restart, which starts again from the last index of the log.
Queued == FlattenSeq([i \in DOMAIN raft.queue |-> raft.queue[i].logs])
UpToSplit(logs) ==
  LET ends == {i \in DOMAIN logs : logs[i].plan = Plan}
  IN IF ends = {} THEN logs ELSE SubSeq(logs, 1, Min(ends))
SyncedIsPrefix == IsPrefix(UpToSplit(raft.log \o Queued), source.log)

\* A node that has left the role Syncer starts its own log just after the split:
\* the index that Startup or recoverForEAL gave to raft is the one that the
\* state machine computed from the command id, and the old cluster has no entry
\* from there on.  It needs an operator who waits for SyncLog to have worked.
BeginsAfterItsSplit ==
  raft.role # "Syncer" =>
    /\ PlanAt(raft.begin - 1) = Plan
    /\ \A i \in raft.begin..Len(raft.log) : raft.log[i].plan = NoOp
    /\ app.applied >= raft.begin - 1 => app.ctrl.start = raft.begin

\* No group of accounts is served by both clusters: once a leader of the new
\* cluster has applied its log, what it serves the source has given up.
OneClusterServes ==
  raft.role = "Leader" /\ app.pc = "run" /\ app.applied = raft.commit =>
    \A t \in RouteType, g \in Group :
      ~(Serves(source.ctrl, t, g) /\ Serves(app.ctrl, t, g))

\* The assertions of truncateLogs and handleSyncRequest hold, and the sync
\* thread never takes an index modulo zero readers, with the lock not held.
\* SyncLog may be called again at any time, also while setTargets of the call
\* before has left a thread that is between a fetch and its result.
SyncAssertionsHold == status \notin {"truncateLogs", "handleSyncRequest", "modulo by zero"}

\* Once the source has committed the split of the plan that the operator is
\* carrying out, the node leaves the role Syncer,
\* unless a process died on an assertion, as it does when every entry it still
\* needs from an endpoint has been truncated there.
SplitIsFollowed ==
  (bounds.startups = 0 /\ bounds.moved /\ \E i \in DOMAIN source.log : source.log[i].plan = Plan)
    ~> (raft.role # "Syncer" \/ status \notin {"up", "down"})

\* handleSyncRequest sets "term with last entries term": a node that takes part
\* in elections has seen every term of its log.
TermCoversLog ==
  raft.role # "Syncer" /\ raft.log # <<>> => raft.term >= Last(raft.log).term

=============================================================================
