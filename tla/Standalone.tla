----------------------------- MODULE Standalone -----------------------------
(***************************************************************************)
(* A process in standalone mode: app_util/CommandProcessLoop.h processes   *)
(* commands against its own state machine and hands them to the store of   *)
(* module SQLiteStore, the memory backed app_util/EventApplyLoop.h follows *)
(* the store with a second state machine, NetAdminServer::CreateSnapshot   *)
(* saves the latter through infra/es/store/SnapshotUtil.h, and after a     *)
(* crash the process recovers from the largest snapshot and the rows after *)
(* it.                                                                     *)
(*                                                                         *)
(* The state of a state machine is the sequence of events applied to it.   *)
(* Nothing in this mode sets mShouldRecover, so the loop recovers in its   *)
(* constructor only.  A call of CreateSnapshot that finds one running is   *)
(* answered PROCESSING and changes nothing.  The temporary file of a       *)
(* snapshot does not match the pattern of getLargestSnapshot, so only the  *)
(* call that writes it knows of it.                                        *)
(***************************************************************************)
EXTENDS SQLiteStore

CONSTANTS
  MaxSnapshots,    \* bound on calls of CreateSnapshot
  MaxCrashes       \* bound on crashes

ASSUME StandaloneAssumption ==
  /\ MaxSnapshots \in Nat
  /\ MaxCrashes \in Nat

VARIABLES
  input,           \* mInputCommandQueue
  sent,            \* the requests that clients have sent
  cpl,             \* CommandProcessLoop: its state machine and its reader's offset
  eal,             \* EventApplyLoop: state machine, reader's offset, applied index, loading
  admin,           \* the running call of CreateSnapshot
  snapshots,       \* the files of the snapshot directory
  calls,           \* how many snapshots were asked for, how many crashes there were
  undone           \* history: a crash has undone rows that a snapshot holds

vars == <<storeVars, input, sent, cpl, eal, admin, snapshots, calls, undone>>

Nothing == [id |-> 0, request |-> 0]
Idle == [at |-> "idle", offset |-> 0, state |-> <<>>]

Init ==
  /\ db = NoRows
  /\ txn = NoRows
  /\ ids = [command |-> 0, event |-> 0]
  /\ queue = <<>>
  /\ persister = Resting
  /\ answers = [c \in Request |-> "none"]
  /\ status = "down"
  /\ input = <<>>
  /\ sent = {}
  /\ cpl = [state |-> <<>>, offset |-> 0]
  /\ eal = [state |-> <<>>, offset |-> 0, lastApplied |-> 0, found |-> Nothing]
  /\ admin = Idle
  /\ snapshots = {}
  /\ calls = [snapshot |-> 0, crash |-> 0]
  /\ undone = FALSE

-----------------------------------------------------------------------------
(* Recovery *)

\* getLargestSnapshot: one file or none
GetLargestSnapshot == {s \in snapshots : \A t \in snapshots : s.offset >= t.offset}

\* loadLatestSnapshot: what is restored, and the offset that it is restored to
LoadLatestSnapshot ==
  IF snapshots = {} THEN [state |-> <<>>, offset |-> 0]
  ELSE LET s == CHOOSE t \in GetLargestSnapshot : TRUE
       IN [state |-> s.state, offset |-> s.offset]

\* Mutant of RecoverSelf: the reader starts from the first row.
RecoverSelfFromFirst ==
  eal' = [state |-> LoadLatestSnapshot.state, offset |-> 0,
          lastApplied |-> LoadLatestSnapshot.offset, found |-> Nothing]

\* EventApplyLoop::recoverSelf, in its constructor
RecoverSelf ==
  eal' = [state |-> LoadLatestSnapshot.state, offset |-> LoadLatestSnapshot.offset,
          lastApplied |-> LoadLatestSnapshot.offset, found |-> Nothing]

\* The process starts: both loops load the largest snapshot, and recoverOnce begins to
\* replay what the store has after it.
RecoverOnce ==
  /\ status = "down"
  /\ status' = "recovering"
  /\ RecoverSelf
  /\ cpl' = LoadLatestSnapshot
  /\ UNCHANGED <<db, txn, ids, queue, persister, answers, input, sent, admin, snapshots, calls,
                 undone>>

\* Mutant of ReplayEvents: the events of the first row that is loaded are not applied.
ReplayEventsButFirst ==
  /\ status = "recovering"
  /\ \E row \in FindNextCommand(cpl.offset) :
       LET events == GetEventsByCommandId(row.id) IN
       /\ ids' = IdsLoaded(row, events)
       /\ cpl' = [state |-> IF cpl.offset = 0 THEN <<>> ELSE cpl.state \o PayloadsOf(events),
                  offset |-> row.id]
       /\ UNCHANGED <<status, db, txn, queue, persister, answers, input, sent, eal, admin,
                      snapshots, calls, undone>>

\* One turn of the loop of replayEvents
ReplayEvents ==
  /\ status = "recovering"
  /\ \E row \in FindNextCommand(cpl.offset) :
       LET events == GetEventsByCommandId(row.id) IN
       /\ IF LoadThrows(row, events)
          THEN status' = "terminated" /\ UNCHANGED <<ids, cpl>>
          ELSE /\ ids' = IdsLoaded(row, events)
               /\ cpl' = [state |-> cpl.state \o PayloadsOf(events), offset |-> row.id]
               /\ UNCHANGED status
       /\ UNCHANGED <<db, txn, queue, persister, answers, input, sent, eal, admin, snapshots,
                      calls, undone>>

\* Nothing is left to replay, and the threads start.
ReplayCompleted ==
  /\ status = "recovering"
  /\ FindNextCommand(cpl.offset) = {}
  /\ status' = "up"
  /\ UNCHANGED <<db, txn, ids, queue, persister, answers, input, sent, cpl, eal, admin,
                 snapshots, calls, undone>>

\* A snapshot in the directory holds rows of the transaction that is open.
HeldBySnapshot == \E s \in snapshots, r \in txn.command : r.id <= s.offset

\* The process ends, by an exception or at any other moment.  A client does not send its
\* request again.
Crash ==
  /\ \/ status = "terminated" /\ UNCHANGED calls
     \/ /\ status \in {"recovering", "up"}
        /\ calls.crash < MaxCrashes
        /\ calls' = [calls EXCEPT !.crash = @ + 1]
  /\ status' = "down"
  /\ txn' = NoRows
  /\ ids' = [command |-> 0, event |-> 0]
  /\ queue' = <<>>
  /\ persister' = Resting
  /\ input' = <<>>
  /\ cpl' = [state |-> <<>>, offset |-> 0]
  /\ eal' = [state |-> <<>>, offset |-> 0, lastApplied |-> 0, found |-> Nothing]
  /\ admin' = Idle
  /\ undone' = (undone \/ HeldBySnapshot)
  /\ UNCHANGED <<db, answers, sent, snapshots>>

-----------------------------------------------------------------------------
(* CommandProcessLoop::run *)

Send(c) ==
  /\ status = "up"
  /\ c \notin sent
  /\ sent' = sent \cup {c}
  /\ input' = Append(input, c)
  /\ UNCHANGED <<storeVars, cpl, eal, admin, snapshots, calls, undone>>

\* processCommand: process, apply, and hand over to the store
ProcessCommand ==
  /\ status = "up"
  /\ input # <<>>
  /\ LET payloads == Payloads(Head(input)) IN
     /\ cpl' = [cpl EXCEPT !.state = @ \o payloads]
     /\ PersistAsync(Head(input), payloads)
  /\ input' = Tail(input)
  /\ UNCHANGED <<db, txn, persister, status, sent, eal, admin, snapshots, calls, undone>>

-----------------------------------------------------------------------------
(* EventApplyLoop::run.  The thread holds mLoopMutex from the first query    *)
(* to the applied index; its two queries are steps of their own.             *)

LoopMutexFree == eal.found = Nothing /\ admin.at # "writing"

LoadNextCommand ==
  /\ status = "up"
  /\ LoopMutexFree
  /\ \E row \in FindNextCommand(eal.offset) :
       eal' = [eal EXCEPT !.offset = row.id, !.found = PopulateCommand(row)]
  /\ UNCHANGED <<storeVars, input, sent, cpl, admin, snapshots, calls, undone>>

ApplyEvents ==
  /\ status = "up"
  /\ eal.found # Nothing
  /\ eal' = [eal EXCEPT !.state = @ \o PayloadsOf(GetEventsByCommandId(eal.found.id)),
                        !.lastApplied = eal.found.id,
                        !.found = Nothing]
  /\ UNCHANGED <<storeVars, input, sent, cpl, admin, snapshots, calls, undone>>

-----------------------------------------------------------------------------
(* NetAdminServer::CreateSnapshot *)

\* mSnapshotIsRunning is set
CreateSnapshot ==
  /\ status = "up"
  /\ admin.at = "idle"
  /\ calls.snapshot < MaxSnapshots
  /\ admin' = [Idle EXCEPT !.at = "running"]
  /\ calls' = [calls EXCEPT !.snapshot = @ + 1]
  /\ UNCHANGED <<storeVars, input, sent, cpl, eal, snapshots, undone>>

\* takeSnapshotAndPersist, under mLoopMutex: the temporary file is written and synced.
WriteSnapshot ==
  /\ status = "up"
  /\ admin.at = "running"
  /\ LoopMutexFree
  /\ admin' = [at |-> "writing", offset |-> eal.lastApplied, state |-> eal.state]
  /\ UNCHANGED <<storeVars, input, sent, cpl, eal, snapshots, calls, undone>>

\* rename, which replaces a file of that name
RenameSnapshot ==
  /\ status = "up"
  /\ admin.at = "writing"
  /\ snapshots' = {s \in snapshots : s.offset # admin.offset}
                    \cup {[offset |-> admin.offset, state |-> admin.state]}
  /\ admin' = Idle
  /\ UNCHANGED <<storeVars, input, sent, cpl, eal, calls, undone>>

\* The file cannot be created or renamed: the call is answered FAILED.
SnapshotFails ==
  /\ status = "up"
  /\ admin.at # "idle"
  /\ admin.at = "running" => LoopMutexFree
  /\ admin' = Idle
  /\ UNCHANGED <<storeVars, input, sent, cpl, eal, snapshots, calls, undone>>

-----------------------------------------------------------------------------
StoreStep ==
  /\ PersistStep
  /\ UNCHANGED <<input, sent, cpl, eal, admin, snapshots, calls, undone>>

Next ==
  \/ RecoverOnce
  \/ ReplayEvents
  \/ ReplayCompleted
  \/ Crash
  \/ \E c \in Request : Send(c)
  \/ ProcessCommand
  \/ LoadNextCommand
  \/ ApplyEvents
  \/ CreateSnapshot
  \/ WriteSnapshot
  \/ RenameSnapshot
  \/ SnapshotFails
  \/ StoreStep

Spec == Init /\ [][Next]_vars

-----------------------------------------------------------------------------
(* Properties *)

\* What applying the commands of these rows in the order of their ids leads to.
Replay(rows) ==
  FlattenSeq([k \in 1 .. Cardinality(rows) |-> Payloads(SetToSortSeq(rows, ById)[k].request)])

PendingRows ==
  {r \in {persister.batch[k].command : k \in 1 .. Len(persister.batch)} :
     r \notin Visible.command}
  \cup {queue[k].command : k \in 1 .. Len(queue)}

(***************************************************************************)
(* CommandEventStore.h: commands and events are either both persisted or   *)
(* none of them are.  Whatever a crash interrupts, the committed rows hold *)
(* all events of every command of theirs, in order, and no other events.   *)
(***************************************************************************)
StoreIsTransactional ==
  /\ \A r \in db.command :
       PayloadsOf(SetToSortSeq({e \in db.event : e.commandId = r.id}, ById))
         = Payloads(r.request)
  /\ \A e \in db.event : HasId(db.command, e.commandId)

(***************************************************************************)
(* The event apply loop has applied, between two rounds, exactly the rows  *)
(* up to its applied index: none twice after a snapshot, none missing      *)
(* because its command was seen before its events.  A snapshot may be      *)
(* taken while a transaction is open; the property ends with a crash that  *)
(* undoes rows which a snapshot already holds.                             *)
(***************************************************************************)
AppliedIsReplay ==
  (status = "up" /\ eal.found = Nothing /\ ~undone) =>
    eal.state = Replay({r \in Visible.command : r.id <= eal.lastApplied})

(***************************************************************************)
(* What the command process loop decides on is the store plus what is on   *)
(* its way to the store.  After a crash replayEvents has restored exactly  *)
(* the committed rows, the part that the snapshot covers included, as long *)
(* as no crash has undone rows that a snapshot holds.                      *)
(***************************************************************************)
ProcessedIsStored ==
  (status = "up" /\ ~persister.shouldExit /\ ~undone) =>
    cpl.state = Replay(Visible.command) \o Replay(PendingRows)

(***************************************************************************)
(* A snapshot that a start may load is the replay of rows that the store   *)
(* holds.  It fails: the event apply loop reads through the connection of  *)
(* the open transaction.                                                   *)
(***************************************************************************)
SnapshotsAreStored ==
  status = "down" =>
    \A s \in snapshots : s.state = Replay({r \in db.command : r.id <= s.offset})

(***************************************************************************)
(* IdGenerator.h: "During application recovery, when the last used id will *)
(* be loaded from command/event store".  The next id of a running process  *)
(* is larger than every id in the store.                                   *)
(***************************************************************************)
NextIdIsUnused ==
  status = "up" => \A r \in db.command : r.id <= ids.command
=============================================================================
