----------------------------- MODULE SQLiteStore -----------------------------
(***************************************************************************)
(* The command and event store of a standalone application:                *)
(* infra/es/store/SQLiteCommandEventStore.cpp, which hands out ids,        *)
(* queues and persists in batches, SQLiteStoreDao.cpp, which owns the      *)
(* connection, and the queries of ReadonlySQLiteCommandEventStore.cpp.     *)
(*                                                                         *)
(* Readers and the persisting thread share one connection, so a query sees *)
(* the rows of a transaction that is still open.                           *)
(*                                                                         *)
(* A row keeps what the properties tell apart: its ids and its payload.    *)
(* The kth event of request c is <<c, k>>.                                 *)
(***************************************************************************)
EXTENDS Integers, Sequences, FiniteSets, SequencesExt

CONSTANTS
  Request,      \* the commands that clients send
  EventCount    \* how many events processing each of them yields; none if refused

ASSUME RequestAssumption ==
  /\ IsFiniteSet(Request)
  /\ EventCount \in [Request -> Nat]

VARIABLES
  db,           \* the committed rows of COMMAND and EVENT
  txn,          \* the rows that the open transaction has inserted
  ids,          \* mCommandIdGenerator and mEventIdGenerator
  queue,        \* mCommandEventQueue
  persister,    \* the thread in run(): where it is, its batch, mShouldExit
  answers,      \* history: what the client of each request has been told
  status        \* of the process

storeVars == <<db, txn, ids, queue, persister, answers, status>>

NoRows == [command |-> {}, event |-> {}]
Visible == [command |-> db.command \cup txn.command, event |-> db.event \cup txn.event]

Payloads(c) == [k \in 1 .. EventCount[c] |-> <<c, k>>]

-----------------------------------------------------------------------------
(* Queries *)

ById(a, b) == a.id < b.id

\* SELECT ... WHERE ID > ?1 ORDER BY ID ASC LIMIT 1: one row or none
FindNextCommand(offset) ==
  LET later == {r \in Visible.command : r.id > offset}
  IN {r \in later : \A s \in later : r.id <= s.id}

\* SELECT ... WHERE COMMANDID = ?1: the table is scanned in the order of its key
GetEventsByCommandId(id) == SetToSortSeq({e \in Visible.event : e.commandId = id}, ById)

\* The row as a command: what only the process knew of it, its request handle, is gone.
PopulateCommand(row) == [id |-> row.id, request |-> row.request]

PayloadsOf(events) == [k \in 1 .. Len(events) |-> events[k].payload]

-----------------------------------------------------------------------------
(* IdGenerator *)

SetCurrentIdThrows(current, id) == id < current

\* loadNextCommandEvents with mNeedUpdateId: both generators follow what is loaded.
IdsLoaded(row, events) ==
  [command |-> row.id,
   event   |-> IF events = <<>> THEN ids.event ELSE Last(events).id]

LoadThrows(row, events) ==
  \/ SetCurrentIdThrows(ids.command, row.id)
  \/ events # <<>> /\ SetCurrentIdThrows(ids.event, Last(events).id)

-----------------------------------------------------------------------------
(* persistAsync, called by the thread that processes commands *)

EntryOf(c, payloads) ==
  [command |-> [id |-> ids.command + 1, request |-> c],
   events  |-> [k \in 1 .. Len(payloads) |->
                  [id |-> ids.event + k, commandId |-> ids.command + 1,
                   payload |-> payloads[k]]]]

\* A command without events is answered at once and never stored.  Ids are drawn
\* before the queue is asked, and lost if it has been stopped.
PersistAsync(c, payloads) ==
  IF payloads = <<>>
  THEN /\ answers' = [answers EXCEPT ![c] = "done"]
       /\ UNCHANGED <<ids, queue>>
  ELSE /\ ids' = [command |-> ids.command + 1, event |-> ids.event + Len(payloads)]
       /\ queue' = IF persister.shouldExit THEN queue
                   ELSE Append(queue, EntryOf(c, payloads))
       /\ UNCHANGED answers

-----------------------------------------------------------------------------
(* run, in the thread that persists *)

Resting == [at |-> "loop", batch |-> <<>>, next |-> 1, shouldExit |-> FALSE]

RunLoop ==
  /\ status = "up"
  /\ persister.at = "loop"
  /\ persister' = [persister EXCEPT !.at = IF persister.shouldExit THEN "ended" ELSE "dequeue"]
  /\ UNCHANGED <<db, txn, ids, queue, answers, status>>

\* One dequeue that may block, then as many as size() says are left: the whole of what
\* the producer had queued when the two lists of the queue were swapped.
CaptureCommandAndEvents ==
  /\ status = "up"
  /\ persister.at = "dequeue"
  /\ queue # <<>>
  /\ persister' = [persister EXCEPT !.at = "captured", !.batch = queue]
  /\ queue' = <<>>
  /\ UNCHANGED <<db, txn, ids, answers, status>>

\* QueueStoppedException: nothing is left to persist.
CaptureStopped ==
  /\ status = "up"
  /\ persister.at = "dequeue"
  /\ queue = <<>>
  /\ persister.shouldExit
  /\ persister' = [persister EXCEPT !.at = "ended"]
  /\ UNCHANGED <<db, txn, ids, queue, answers, status>>

\* BEGIN, unless the store has been shut down meanwhile; then the batch is dropped.
BeginTransaction ==
  /\ status = "up"
  /\ persister.at = "captured"
  /\ persister' = IF persister.shouldExit
                  THEN [persister EXCEPT !.at = "ended", !.batch = <<>>]
                  ELSE [persister EXCEPT !.at = "events"]
  /\ UNCHANGED <<db, txn, ids, queue, answers, status>>

BatchEvents == FlattenSeq([k \in 1 .. Len(persister.batch) |-> persister.batch[k].events])

HasId(rows, id) == \E r \in rows : r.id = id

\* A row whose key is taken makes handleResultCode throw, out of the thread.
Terminates(answered) ==
  /\ status' = "terminated"
  /\ answers' = answered
  /\ UNCHANGED <<db, txn, ids, queue, persister>>

\* One turn of the loop over the events; after the last one come the commands.
EventPersisted ==
  IF persister.next = Len(BatchEvents)
  THEN [persister EXCEPT !.at = "commands", !.next = 1]
  ELSE [persister EXCEPT !.next = @ + 1]

\* Mutant of PersistEvents: without BEGIN, every INSERT is a transaction of its own.
PersistEventsAutocommit ==
  /\ status = "up"
  /\ persister.at = "events"
  /\ LET row == BatchEvents[persister.next] IN
     IF HasId(Visible.event, row.id)
     THEN Terminates(answers)
     ELSE /\ db' = [db EXCEPT !.event = @ \cup {row}]
          /\ persister' = EventPersisted
          /\ UNCHANGED <<txn, ids, queue, answers, status>>

\* Events first, so that a reader that finds a command finds its events.
PersistEvents ==
  /\ status = "up"
  /\ persister.at = "events"
  /\ LET row == BatchEvents[persister.next] IN
     IF HasId(Visible.event, row.id)
     THEN Terminates(answers)
     ELSE /\ txn' = [txn EXCEPT !.event = @ \cup {row}]
          /\ persister' = EventPersisted
          /\ UNCHANGED <<db, ids, queue, answers, status>>

\* handleResultCode answers each command right after its INSERT.
PersistCommand ==
  /\ status = "up"
  /\ persister.at = "commands"
  /\ persister.next <= Len(persister.batch)
  /\ LET row == persister.batch[persister.next].command IN
     IF HasId(Visible.command, row.id)
     THEN Terminates([answers EXCEPT ![row.request] = "failed"])
     ELSE /\ txn' = [txn EXCEPT !.command = @ \cup {row}]
          /\ answers' = [answers EXCEPT ![row.request] = "done"]
          /\ persister' = [persister EXCEPT !.next = @ + 1]
          /\ UNCHANGED <<db, ids, queue, status>>

\* COMMIT.  A BEGIN or COMMIT that fails throws out of the thread, as a crash does.
Commit ==
  /\ status = "up"
  /\ persister.at = "commands"
  /\ persister.next > Len(persister.batch)
  /\ db' = Visible
  /\ txn' = NoRows
  /\ persister' = [persister EXCEPT !.at = "loop", !.batch = <<>>, !.next = 1]
  /\ UNCHANGED <<ids, queue, answers, status>>

\* shutdown, from another thread at any time
ShutdownStore ==
  /\ status = "up"
  /\ ~persister.shouldExit
  /\ persister' = [persister EXCEPT !.shouldExit = TRUE]
  /\ UNCHANGED <<db, txn, ids, queue, answers, status>>

PersistStep ==
  \/ RunLoop
  \/ CaptureCommandAndEvents
  \/ CaptureStopped
  \/ BeginTransaction
  \/ PersistEvents
  \/ PersistCommand
  \/ Commit
  \/ ShutdownStore
=============================================================================
