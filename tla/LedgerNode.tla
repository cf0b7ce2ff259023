----------------------------- MODULE LedgerNode -----------------------------
(***************************************************************************)
(* One replica of the ledger: the command process loop (CPL) with its      *)
(* memory-backed state machine, the event apply loop (EAL) with its        *)
(* RocksDB-backed one, the write batch, and RocksDB itself, around the     *)
(* replicated log.                                                         *)
(*                                                                         *)
(* The CPL runs ahead of the log: it applies an event as soon as it has    *)
(* emitted it, before the entry is replicated.  When the replica loses its *)
(* leadership that state is worthless.  When it wins one, the CPL takes    *)
(* the state of the EAL, which has applied the committed log, and the EAL  *)
(* starts again from RocksDB.                                              *)
(*                                                                         *)
(* Raft is the environment here (its own module is RaftCore): a log whose  *)
(* committed prefix is final and whose uncommitted suffix may be dropped   *)
(* when the leadership is lost.  The threads of this pipeline, with terms  *)
(* and replies, are in CommandPipeline; here a handover is one step and    *)
(* the data is concrete.                                                   *)
(***************************************************************************)
EXTENDS Ledger

CONSTANTS
  MaxBatchSize,   \* mMaxBatchSize, 500 in the code
  MaxLog          \* bound: entries of the log

ASSUME NodeAssumption == MaxBatchSize \in Nat \ {0} /\ MaxLog \in Nat

VARIABLES
  log,             \* entries: a no-op, or a command and its encoded event
  commitIndex,
  leading,         \* this replica is the leader
  cpl,             \* the machine of the command process loop
  snapshotDone,    \* the done ids in the RocksDB snapshot the CPL reads
  ready,           \* the CPL took over in this leadership and accepts commands
  mLastCommandId,
  eal,             \* the machine of the event apply loop
  mLoadedIndex,    \* the last entry the EAL has consumed, 0 after a teardown
  mShouldRecover,
  batch,           \* mWriteBatch: puts per column family, and last_applied_index
  db,              \* RocksDB: the same columns, durable
  mLastFlushedIndex,
  alive            \* FALSE after a crash, a failed assertion included

raftVars == <<log, commitIndex, leading>>
cplVars == <<cpl, snapshotDone, ready, mLastCommandId>>
ealVars == <<eal, mLoadedIndex, mShouldRecover, mLastFlushedIndex>>
vars == <<raftVars, cplVars, ealVars, batch, db, alive>>

-----------------------------------------------------------------------------
Noop == [noop |-> TRUE]
Entry(c, e) == [noop |-> FALSE, command |-> c, event |-> e]

\* A column family per map of the machine, and the key last_applied_index.
EmptyColumns == [done |-> {}, coa |-> <<>>, meta |-> <<>>, index |-> 0]

\* Put the changes of one bundle, and commit(index), on top of a batch.
PutAll(b, w, index) ==
  [done |-> b.done \cup w.done, coa |-> Overlay(b.coa, w.coa),
   meta |-> Overlay(b.meta, w.meta), index |-> index]

\* One synchronous write of the whole batch.
FlushToRocksDB(d, b) == IF b.index = 0 THEN d ELSE PutAll(d, b, b.index)

\* The machine loadFromRocksDB builds: the done map is not loaded.
LoadFromRocksDB(d) ==
  [done |-> {},
   coa  |-> [n \in DOMAIN d.coa |-> InitAccount(d.coa[n])],
   meta |-> [t \in DOMAIN d.meta |-> InitMetadata(d.meta[t])]]

-----------------------------------------------------------------------------
Init ==
  /\ log = <<>>
  /\ commitIndex = 0
  /\ leading = FALSE
  /\ cpl = EmptyMachine
  /\ snapshotDone = {}
  /\ ready = FALSE
  /\ mLastCommandId = 0
  /\ eal = EmptyMachine
  /\ mLoadedIndex = 0
  /\ mShouldRecover = FALSE
  /\ batch = EmptyColumns
  /\ db = EmptyColumns
  /\ mLastFlushedIndex = 0
  /\ alive = TRUE

(* Raft, the environment                                                   *)

BecomeLeader ==
  /\ alive
  /\ ~leading
  /\ Len(log) < MaxLog
  /\ log' = Append(log, Noop)
  /\ leading' = TRUE
  /\ UNCHANGED <<commitIndex, cplVars, ealVars, batch, db, alive>>

AdvanceCommitIndex ==
  /\ alive
  /\ commitIndex < Len(log)
  /\ commitIndex' = commitIndex + 1
  /\ UNCHANGED <<log, leading, cplVars, ealVars, batch, db, alive>>

\* A new leader may keep any part of the suffix that is not committed.
StepDown ==
  /\ alive
  /\ leading
  /\ \E n \in commitIndex..Len(log) : log' = SubSeq(log, 1, n)
  /\ leading' = FALSE
  /\ ready' = FALSE
  /\ UNCHANGED <<commitIndex, cpl, snapshotDone, mLastCommandId, ealVars, batch, db, alive>>

-----------------------------------------------------------------------------
(* The command process loop                                                *)

\* waitTillLeaderIsReadyOrStepDown: the whole log is committed and loaded, it
\* ends with the no-op of this term, and only no-ops are not applied.
LeaderIsReady ==
  /\ mLoadedIndex = commitIndex
  /\ commitIndex = Len(log)
  /\ log # <<>> /\ log[Len(log)].noop

\* Mutant: the EAL goes on with the state it got from the CPL.
OnBecomeLeaderNoRecovery ==
  /\ alive
  /\ leading /\ ~ready
  /\ LeaderIsReady
  /\ mLastCommandId' = Len(log)
  /\ cpl' = eal
  /\ eal' = cpl
  /\ db' = FlushToRocksDB(db, batch)
  /\ batch' = EmptyColumns
  /\ snapshotDone' = db'.done
  /\ ready' = TRUE
  /\ UNCHANGED <<raftVars, mLoadedIndex, mShouldRecover, mLastFlushedIndex, alive>>

\* swapStateAndTeardown: swap the machines, flush the batch of the EAL, take a
\* snapshot of RocksDB, tear the reader of the log down, ask for a recovery.
OnBecomeLeader ==
  /\ alive
  /\ leading /\ ~ready
  /\ LeaderIsReady
  /\ mLastCommandId' = Len(log)
  /\ cpl' = eal
  /\ eal' = cpl
  /\ db' = FlushToRocksDB(db, batch)
  /\ batch' = EmptyColumns
  /\ snapshotDone' = db'.done
  /\ mLoadedIndex' = 0
  /\ mShouldRecover' = TRUE
  /\ ready' = TRUE
  /\ UNCHANGED <<raftVars, mLastFlushedIndex, alive>>

\* processCommand: a command without events only gets its answer; otherwise
\* the event is applied at once and the entry goes to the log.
ProcessCommand(c) ==
  /\ alive
  /\ ready
  /\ VerifyCommand(c)
  /\ LET hint == Process(c, cpl, snapshotDone) IN
       /\ hint.event # NoEvent
       /\ Len(log) < MaxLog
       /\ cpl' = Apply(hint.event, cpl)
       /\ mLastCommandId' = mLastCommandId + 1
       /\ log' = Append(log, Entry(c, EncodeToString(hint.event)))
  /\ UNCHANGED <<commitIndex, leading, snapshotDone, ready, ealVars, batch, db, alive>>

RefuseCommand(c) ==
  /\ alive
  /\ ready
  /\ VerifyCommand(c)
  /\ Process(c, cpl, snapshotDone).event = NoEvent
  /\ UNCHANGED vars

-----------------------------------------------------------------------------
(* The event apply loop                                                    *)

\* recoverSelf of the loop and of the RocksDB-backed machine.
RecoverSelf ==
  /\ alive
  /\ mShouldRecover
  /\ eal' = LoadFromRocksDB(db)
  /\ mLastFlushedIndex' = db.index
  /\ mLoadedIndex' = db.index
  /\ mShouldRecover' = FALSE
  /\ UNCHANGED <<raftVars, cplVars, batch, db, alive>>

\* decryptEntries leaves no-ops out.
SkipNoop ==
  /\ alive
  /\ ~mShouldRecover
  /\ mLoadedIndex < commitIndex
  /\ log[mLoadedIndex + 1].noop
  /\ mLoadedIndex' = mLoadedIndex + 1
  /\ UNCHANGED <<raftVars, cplVars, eal, mShouldRecover, mLastFlushedIndex, batch, db, alive>>

\* Mutant: last_applied_index is put after the flush, into the next batch.
ApplyEntryIndexAfterFlush ==
  LET i == mLoadedIndex + 1
      e == DecodeEventFromString(log[i].event)
  IN
  /\ alive
  /\ ~mShouldRecover
  /\ mLoadedIndex < commitIndex
  /\ ~log[i].noop
  /\ CanApply(e, eal)
  /\ eal' = Apply(e, eal)
  /\ mLoadedIndex' = i
  /\ LET b == PutAll(batch, Writes(e, eal'), i) IN
       IF i - mLastFlushedIndex < MaxBatchSize
       THEN batch' = b /\ UNCHANGED <<db, mLastFlushedIndex>>
       ELSE /\ db' = [PutAll(db, b, i) EXCEPT !.index = db.index]
            /\ batch' = [EmptyColumns EXCEPT !.index = i]
            /\ mLastFlushedIndex' = i
  /\ UNCHANGED <<raftVars, cplVars, mShouldRecover, alive>>

\* One iteration of run(): apply the events of an entry, then commit(index),
\* which flushes once MaxBatchSize entries are past the last flush.
ApplyEntry ==
  LET i == mLoadedIndex + 1
      e == DecodeEventFromString(log[i].event)
  IN
  /\ alive
  /\ ~mShouldRecover
  /\ mLoadedIndex < commitIndex
  /\ ~log[i].noop
  /\ CanApply(e, eal)
  /\ eal' = Apply(e, eal)
  /\ mLoadedIndex' = i
  /\ LET b == PutAll(batch, Writes(e, eal'), i) IN
       IF i - mLastFlushedIndex < MaxBatchSize
       THEN batch' = b /\ UNCHANGED <<db, mLastFlushedIndex>>
       ELSE /\ db' = FlushToRocksDB(db, b)
            /\ batch' = EmptyColumns
            /\ mLastFlushedIndex' = i
  /\ UNCHANGED <<raftVars, cplVars, mShouldRecover, alive>>

\* An assertion of apply() fails: the process aborts.
AbortOnApply ==
  /\ alive
  /\ ~mShouldRecover
  /\ mLoadedIndex < commitIndex
  /\ ~log[mLoadedIndex + 1].noop
  /\ ~CanApply(DecodeEventFromString(log[mLoadedIndex + 1].event), eal)
  /\ alive' = FALSE
  /\ UNCHANGED <<raftVars, cplVars, ealVars, batch, db>>

-----------------------------------------------------------------------------
(* Crash and restart                                                       *)

Crash ==
  /\ alive
  /\ alive' = FALSE
  /\ UNCHANGED <<raftVars, cplVars, ealVars, batch, db>>

\* RocksDB and the committed log survive.  The replica starts as a follower,
\* and the constructor of the EAL recovers from RocksDB.
Restart ==
  /\ ~alive
  /\ alive' = TRUE
  /\ \E n \in commitIndex..Len(log) : log' = SubSeq(log, 1, n)
  /\ leading' = FALSE
  /\ ready' = FALSE
  /\ cpl' = EmptyMachine
  /\ snapshotDone' = {}
  /\ mLastCommandId' = 0
  /\ eal' = LoadFromRocksDB(db)
  /\ mLoadedIndex' = db.index
  /\ mLastFlushedIndex' = db.index
  /\ mShouldRecover' = FALSE
  /\ batch' = EmptyColumns
  /\ UNCHANGED <<commitIndex, db>>

-----------------------------------------------------------------------------
Next ==
  \/ BecomeLeader \/ AdvanceCommitIndex \/ StepDown
  \/ OnBecomeLeader
  \/ \E c \in Commands : ProcessCommand(c) \/ RefuseCommand(c)
  \/ RecoverSelf \/ SkipNoop \/ ApplyEntry \/ AbortOnApply
  \/ Crash \/ Restart

Spec == Init /\ [][Next]_vars

-----------------------------------------------------------------------------
(* Properties                                                              *)

\* The machine that has applied exactly the events of a log, in order.
ReplayEntry(m, entry) == IF entry.noop THEN m ELSE Apply(DecodeEventFromString(entry.event), m)
Replay(entries) ==
  LET after[n \in 0..Len(entries)] ==
        IF n = 0 THEN EmptyMachine ELSE ReplayEntry(after[n - 1], entries[n])
  IN  after[Len(entries)]

\* Balances are words of Width bits, and every cursor stays inside the log it
\* reads: the EAL never consumes, nor RocksDB holds, an entry that is not
\* committed.
TypeOK ==
  /\ commitIndex \in 0..Len(log) /\ Len(log) <= MaxLog
  /\ db.index <= commitIndex /\ batch.index <= commitIndex
  /\ mLoadedIndex <= commitIndex /\ mLastFlushedIndex <= commitIndex
  /\ \A m \in {cpl, eal, LoadFromRocksDB(batch), LoadFromRocksDB(db)} :
       \A n \in DOMAIN m.coa : /\ m.coa[n].type \in AccountType
                               /\ m.coa[n].balance \in 0..(2^Width - 1)
  /\ leading \in BOOLEAN /\ ready \in BOOLEAN /\ alive \in BOOLEAN
  /\ mShouldRecover \in BOOLEAN
  /\ ready => leading

\* RocksDB is always the replay of the committed log up to the index it
\* records, whatever was batched, swapped or lost: flushToRocksDB writes the
\* changes of the bundles and last_applied_index in one write, so recoverSelf
\* neither skips an entry nor applies one twice.  No write is pending when it
\* runs (the assertion at its head).
DurableIsReplay ==
  LET m == Replay(SubSeq(log, 1, db.index)) IN
  /\ LoadFromRocksDB(db).coa = m.coa
  /\ LoadFromRocksDB(db).meta = m.meta
  /\ db.done = m.done
  /\ mShouldRecover => batch = EmptyColumns

\* The CPL decides every command on the accounts and ranges that the whole log
\* below it produces, its own entries not yet committed included, after any
\* number of lost leaderships, dropped suffixes, crashes and handovers
\* (onBecomeLeader swaps in the state of an EAL that has caught up).
LeaderIsReplay ==
  ready =>
    /\ mLastCommandId = Len(log)
    /\ cpl.coa = Replay(log).coa
    /\ cpl.meta = Replay(log).meta

\* Double entry: the trial balance of the accounts equals that of the opening
\* balances of the accounts created, modulo 2^Width, although the sums of
\* RecordJournalEntry and the balances of applyDebit and applyCredit wrap.
BooksBalance ==
  ready =>
    LET created == {i \in DOMAIN log : ~log[i].noop /\ log[i].event.kind = "Created"} IN
    TrialBalance(cpl.coa) =
      Wrap(MapThenSumSet(LAMBDA i : Signed(DecodeEventFromString(log[i].event).account), created))

\* The journal entry an entry of the log records.
Records(i) == ~log[i].noop /\ log[i].event.kind = "Recorded"

\* One leadership books a journal entry at most once: of the entries after the
\* no-op that opened it, no two record the same id (mDoneMap of the CPL).
BookedOncePerLeadership ==
  \A i, j \in DOMAIN log :
    (/\ i < j /\ Records(i) /\ Records(j)
     /\ \A k \in i..j : ~log[k].noop)
      => log[i].command.id # log[j].command.id

\* A journal entry is booked at most once: the id uniquely identifies it, and
\* a second request with it is answered JOURNAL_ENTRY_ALREADY_PROCESSED.
BookedOnce ==
  \A i, j \in DOMAIN log :
    (i < j /\ Records(i) /\ Records(j)) => log[i].command.id # log[j].command.id

=============================================================================
