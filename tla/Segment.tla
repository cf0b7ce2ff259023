------------------------------- MODULE Segment -------------------------------
(***************************************************************************)
(* One segment of the log, byte by byte: infra/raft/storage/Segment.cpp    *)
(* and the keys of infra/util/CryptoUtil.cpp.  Module SegmentLog has the   *)
(* segments of a log and takes what happens here for granted: that a slot  *)
(* of the meta file stands for an entry.                                   *)
(*                                                                         *)
(* Both files are mapped into memory.  memmove and memset change the slots *)
(* of the meta file in an order that C leaves open; a slot, which fills a  *)
(* cache line, changes at once.  The kernel writes what has changed to the *)
(* disk when syncAt asks for it, and whenever else it likes, a page of the *)
(* meta file at a time.  When the process is killed the memory survives;   *)
(* when the power fails only the disk does.                                *)
(*                                                                         *)
(* The raft loop appends and truncates; other threads read entries up to   *)
(* the commit index at any time.                                           *)
(***************************************************************************)
EXTENDS Integers, Sequences, FiniteSets, SequencesExt, FiniteSetsExt

CONSTANTS
  Entry,          \* log entries: a term, a length in cells and a version of the secret key
  Version,        \* the versions of the secret key there will ever be, from 1 on
  MaxSlots,       \* mMetaSizeLimit, in slots
  SlotsPerPage,   \* how many slots of the meta file reach the disk together
  DataSize,       \* mDataSizeLimit, in cells
  MaxBatch,       \* bound: on the entries of one appendEntries
  MaxCrashes      \* bound: on crashes

ASSUME SegmentAssumption ==
  /\ \A e \in Entry : e.length \in Nat \ {0} /\ e.version \in Version \cup {0}
  /\ \A v \in Version : v \in Nat \ {0}
  /\ {MaxSlots, SlotsPerPage, DataSize, MaxBatch} \subseteq Nat \ {0}

VARIABLES
  memory,         \* the mapped files: data and meta
  disk,           \* what of them has reached the disk
  dataOffset,     \* mDataOffset
  lastIndex,      \* mLastIndex; mFirstIndex is 1, mMetaOffset its slot
  keys,           \* the versions in the key file; none when crypto is disabled
  recent,         \* mRecentUsedSecKeyIndex, from 1
  writer,         \* what the raft loop is doing
  commitIndex,    \* what other threads read up to
  status,         \* "up", "down" or "aborted"
  kept,           \* history: the entries that calls have promised to keep
  tried,          \* history: those, and the ones of a call that has not returned
  metas,          \* history: the slots that belong to the entries of tried
  past,           \* history: "clean"; "torn" once a start has found slots beyond the
                  \* last entry; "revived" once it has taken one of those for an entry
  crashes         \* bound: crashes so far

vars == <<memory, disk, dataOffset, lastIndex, keys, recent, writer, commitIndex, status,
          kept, tried, metas, past, crashes>>

Slots == 1 .. MaxSlots
Cells == 0 .. DataSize - 1

\* Zeros: read as an entry, as a cell and as a slot
NoEntry == [term |-> 0, length |-> 0, version |-> 0]
NoCell == [entry |-> NoEntry, cell |-> 0]
NoDigest == <<>>
NoMeta == [index |-> 0, offset |-> 0, length |-> 0, term |-> 0, digest |-> NoDigest]

Idle == [at |-> "idle", entries |-> <<>>]

\* createActiveSegment: two files of their full size, all zero
Init ==
  /\ memory = [data |-> [c \in Cells |-> NoCell], meta |-> [n \in Slots |-> NoMeta]]
  /\ disk = memory
  /\ dataOffset = 0
  /\ lastIndex = 0
  /\ keys \in {{}, {Min(Version)}}
  /\ recent = 1
  /\ writer = Idle
  /\ commitIndex = 0
  /\ status = "up"
  /\ kept = <<>>
  /\ tried = <<>>
  /\ metas = <<>>
  /\ past = "clean"
  /\ crashes = 0

-----------------------------------------------------------------------------
(* CryptoUtil *)

IsEnabled == keys # {}
DescendingVersions == SetToSortSeq(keys, LAMBDA v, w : v > w)

\* assertValidVersion; version 0 is replaced by the oldest before.
IsValidVersion(version) == IsEnabled => version \in keys \cup {0}

\* init: the key file at a start is the one of the last start, or has a newer key.
KeyFiles == {keys} \cup {keys \cup {v} : v \in {w \in Version : \A k \in keys : k < w}}

\* Different keys and different messages give different digests.
Hmac(index, bytes, version) == <<index, bytes, version>>

-----------------------------------------------------------------------------
(* Slots and cells *)

Bytes(files, offset, length) == [n \in 1 .. length |-> files.data[offset + n - 1]]

Stored(files, n) == Bytes(files, files.meta[n].offset, files.meta[n].length)

\* ParseFromArray: what the cells of one entry, all of them, hold
Serialize(e) == [n \in 1 .. e.length |-> [entry |-> e, cell |-> n]]
Parse(files, n) ==
  IF \E e \in Entry : Serialize(e) = Stored(files, n)
  THEN CHOOSE e \in Entry : Serialize(e) = Stored(files, n) ELSE NoEntry

IsWithInBoundary(index) == index \in 1 .. lastIndex

\* createHMAC, with the oldest key for an entry that has no version
CreateHMAC(index, e) ==
  IF ~IsEnabled THEN NoDigest
  ELSE Hmac(index, Serialize(e), IF e.version = 0 THEN Last(DescendingVersions) ELSE e.version)

LogMeta(index, offset, e) ==
  [index |-> index, offset |-> offset, length |-> e.length, term |-> e.term,
   digest |-> CreateHMAC(index, e)]

\* Mutant of TriedVersions: the recent key alone is tried.
TriedVersionsRecent == {recent}

\* verifyHMAC tries the keys from the recent one on, round the array.
TriedVersions == 1 .. Len(DescendingVersions)

Verifying(files, n) ==
  {k \in TriedVersions \cap 1 .. Len(DescendingVersions) :
     files.meta[n].digest = Hmac(files.meta[n].index, Stored(files, n), DescendingVersions[k])}

VerifyHMAC(files, n) ==
  ~IsEnabled \/ files.meta[n].digest = NoDigest \/ Verifying(files, n) # {}

\* The first of them, from the recent one on, is the recent one from now on.
Distance(k, from) == (k - from + Len(DescendingVersions)) % Len(DescendingVersions)
RecentAfter(from, n) ==
  IF ~IsEnabled \/ memory.meta[n].digest = NoDigest \/ Verifying(memory, n) = {} THEN from
  ELSE CHOOSE k \in Verifying(memory, n) :
         \A j \in Verifying(memory, n) : Distance(k, from) <= Distance(j, from)

-----------------------------------------------------------------------------
(* appendEntries *)

LengthOf(entries) == FoldLeft(LAMBDA sum, e : sum + e.length, 0, entries)
OffsetOf(entries, n) == dataOffset + LengthOf(SubSeq(entries, 1, n - 1))

\* Such a segment is closed, and a new one appended to.
ShouldRoll(entries) ==
  \/ lastIndex + Len(entries) > MaxSlots
  \/ dataOffset + LengthOf(entries) > DataSize

\* The cells of the data file that entries are serialised to
Written(entries) ==
  LET bytes == FoldLeft(LAMBDA done, e : done \o Serialize(e), <<>>, entries)
  IN [c \in Cells |-> IF c - dataOffset \in 0 .. Len(bytes) - 1
                      THEN bytes[c - dataOffset + 1] ELSE memory.data[c]]

SerializeEntries ==
  /\ status = "up"
  /\ writer = Idle
  /\ \E n \in 1 .. MaxBatch : \E entries \in [1 .. n -> Entry] :
       /\ ~ShouldRoll(entries)
       /\ \A m \in 1 .. n : IsValidVersion(entries[m].version)
       /\ memory' = [memory EXCEPT !.data = Written(entries)]
       /\ writer' = [at |-> "syncData", entries |-> entries]
       /\ tried' = kept \o entries
       /\ metas' = metas \o [m \in 1 .. n |->
                                LogMeta(lastIndex + m, OffsetOf(entries, m), entries[m])]
  /\ UNCHANGED <<disk, dataOffset, lastIndex, keys, recent, commitIndex, status, kept, past,
                 crashes>>


\* syncAt of the data
SyncData ==
  /\ status = "up"
  /\ writer.at = "syncData"
  /\ disk' = [disk EXCEPT !.data = memory.data]
  /\ writer' = [writer EXCEPT !.at = "copyMeta"]
  /\ UNCHANGED <<memory, dataOffset, lastIndex, keys, recent, commitIndex, status, kept, tried,
                 metas, past, crashes>>

Page(n) == (n - 1) \div SlotsPerPage

\* The meta file after one more slot has its value in target
SlotWritten(target) == {[memory.meta EXCEPT ![n] = target[n]] : n \in Slots}

\* The meta file once the entries' metas are in it
Appended(entries) ==
  [n \in Slots |-> IF n - lastIndex \in 1 .. Len(entries)
                   THEN LogMeta(n, OffsetOf(entries, n - lastIndex), entries[n - lastIndex])
                   ELSE memory.meta[n]]

CopyMeta ==
  /\ status = "up"
  /\ writer.at = "copyMeta"
  /\ LET target == Appended(writer.entries)
     IN \E meta \in SlotWritten(target) :
          /\ memory' = [memory EXCEPT !.meta = meta]
          /\ writer' = IF meta = target THEN [writer EXCEPT !.at = "syncMeta"] ELSE writer
  /\ UNCHANGED <<disk, dataOffset, lastIndex, keys, recent, commitIndex, status, kept, tried,
                 metas, past, crashes>>

\* syncAt of the metas, then the offsets and mLastIndex, and the call returns.
SyncMeta ==
  /\ status = "up"
  /\ writer.at = "syncMeta"
  /\ disk' = [disk EXCEPT !.meta = memory.meta]
  /\ dataOffset' = dataOffset + LengthOf(writer.entries)
  /\ lastIndex' = lastIndex + Len(writer.entries)
  /\ kept' = tried
  /\ writer' = Idle
  /\ UNCHANGED <<memory, keys, recent, commitIndex, status, tried,
                 metas, past, crashes>>

-----------------------------------------------------------------------------
(* truncateSuffix: what is committed is never truncated, and a segment that   *)
(* would be left empty is dropped by SegmentLog.                              *)

TruncateSuffix ==
  /\ status = "up"
  /\ writer = Idle
  /\ \E lastIndexKept \in 1 .. lastIndex - 1 :
       /\ lastIndexKept >= commitIndex
       /\ lastIndex' = lastIndexKept
       /\ kept' = SubSeq(kept, 1, lastIndexKept)
  /\ writer' = [at |-> "zeroMeta", entries |-> <<>>]
  /\ UNCHANGED <<memory, disk, dataOffset, keys, recent, commitIndex, status, tried,
                 metas, past, crashes>>

ZeroMeta ==
  /\ status = "up"
  /\ writer.at = "zeroMeta"
  /\ LET target == [n \in Slots |-> IF n \in lastIndex + 1 .. Len(tried) THEN NoMeta
                                    ELSE memory.meta[n]]
     IN \E meta \in SlotWritten(target) :
          /\ memory' = [memory EXCEPT !.meta = meta]
          /\ writer' = IF meta = target THEN [writer EXCEPT !.at = "syncZeros"] ELSE writer
  /\ UNCHANGED <<disk, dataOffset, lastIndex, keys, recent, commitIndex, status, kept, tried,
                 metas, past, crashes>>

EndOf(files, n) == IF n = 0 THEN 0 ELSE files.meta[n].offset + files.meta[n].length

\* syncAt of the zeros; entries to come will overwrite the data of the old ones.
SyncZeros ==
  /\ status = "up"
  /\ writer.at = "syncZeros"
  /\ disk' = [disk EXCEPT !.meta = memory.meta]
  /\ dataOffset' = EndOf(memory, lastIndex)
  /\ tried' = kept
  /\ metas' = SubSeq(metas, 1, lastIndex)
  /\ writer' = Idle
  /\ UNCHANGED <<memory, lastIndex, keys, recent, commitIndex, status, kept, past,
                 crashes>>

-----------------------------------------------------------------------------
(* Reads *)

\* RaftCore advances the commit index over entries that the log holds.
Commit ==
  /\ status = "up"
  /\ writer = Idle
  /\ commitIndex < lastIndex
  /\ commitIndex' = commitIndex + 1
  /\ UNCHANGED <<memory, disk, dataOffset, lastIndex, keys, recent, writer, status, kept, tried,
                 metas, past, crashes>>

\* What may be read now: everything by the raft loop between two calls, what is
\* committed by any thread at any time.
Readable == 1 .. (IF writer = Idle THEN lastIndex ELSE commitIndex)

\* getMeta and getEntryAddr find what they assert, and the digest is right.
IsRead(n) ==
  /\ IsWithInBoundary(n)
  /\ memory.meta[n].index = n
  /\ memory.meta[n].offset <= dataOffset
  /\ VerifyHMAC(memory, n)

\* The entries first .. last are read one after the other, until one fails.
Read(first, last) ==
  /\ \/ /\ \A n \in first .. last : IsRead(n)
        /\ recent' = FoldLeft(RecentAfter, recent, [m \in 1 .. last - first + 1 |-> first + m - 1])
        /\ UNCHANGED status
     \/ /\ \E n \in first .. last : ~IsRead(n)
        /\ status' = "aborted"
        /\ UNCHANGED recent
  /\ UNCHANGED <<memory, disk, dataOffset, lastIndex, keys, writer, commitIndex, kept, tried,
                 metas, past, crashes>>

GetEntry ==
  /\ status = "up"
  /\ \E n \in Readable : Read(n, n)

\* How many entries from first on fit into maxLenInBytes; none, when the first
\* one does not
BatchSize(first, maxLenInBytes, maxBatchSize) ==
  Max({n \in 0 .. maxBatchSize :
         MapThenSumSet(LAMBDA m : memory.meta[m].length, first .. first + n - 1)
           <= maxLenInBytes})

GetEntries ==
  /\ status = "up"
  /\ \E first \in Readable : \E maxLenInBytes \in 1 .. DataSize :
       \E maxBatchSize \in 1 .. Cardinality(Readable) - first + 1 :
         Read(first, first + BatchSize(first, maxLenInBytes, maxBatchSize) - 1)

-----------------------------------------------------------------------------
(* Crashes *)

Down(files) ==
  /\ status = "up"
  /\ crashes < MaxCrashes
  /\ memory' = files
  /\ disk' = files
  /\ status' = "down"
  /\ writer' = Idle
  /\ commitIndex' = 0
  /\ crashes' = crashes + 1
  /\ UNCHANGED <<dataOffset, lastIndex, keys, recent, kept, tried, metas, past>>

\* A killed process leaves the mapped files to the kernel, which writes them.
Kill == Down(memory)

\* Of what is not synced, any cells and any pages may have reached the disk.
PowerFailure ==
  \E cells \in SUBSET {c \in Cells : memory.data[c] # disk.data[c]} :
  \E pages \in SUBSET {Page(n) : n \in {n \in Slots : memory.meta[n] # disk.meta[n]}} :
    Down([data |-> [c \in Cells |-> IF c \in cells THEN memory.data[c] ELSE disk.data[c]],
          meta |-> [n \in Slots |-> IF Page(n) \in pages THEN memory.meta[n] ELSE disk.meta[n]]])

\* An entry with a version that the node has no key for: hmac exits the process
\* when the entry's cells are written, and maybe those of entries before it.
ExitOnVersion ==
  /\ writer = Idle
  /\ \E n \in 1 .. MaxBatch : \E entries \in [1 .. n -> Entry] :
       /\ ~ShouldRoll(entries)
       /\ \A m \in 1 .. n : IsValidVersion(entries[m].version) <=> m < n
       /\ Down([memory EXCEPT !.data = Written(entries)])

\* The last index that recoverActiveOrClosedSegment finds: slots are counted as
\* long as each has the index that follows.
LastRecovered(files) ==
  Max({0} \cup {n \in Slots : \A m \in 1 .. n : files.meta[m].index = m})

RecoveredMetas(files) == SubSeq(files.meta, 1, LastRecovered(files))
Recovered(files) == [n \in 1 .. LastRecovered(files) |-> Parse(files, n)]

\* What a memmove or memset that was cut short left beyond the last entry: the
\* scan does not reach it, and nothing removes it.
LeftBehind(files) == {n \in Slots : n > LastRecovered(files) /\ files.meta[n] # NoMeta}

\* Every entry found is one of the last call's, or older, in the slot it was given.
FindsOnlyTried ==
  IsPrefix(Recovered(memory), tried) /\ IsPrefix(RecoveredMetas(memory), metas)

\* The process starts again, maybe with one key more.
Recover ==
  /\ status = "down"
  /\ keys' \in KeyFiles
  /\ lastIndex' = LastRecovered(memory)
  /\ dataOffset' = EndOf(memory, LastRecovered(memory))
  /\ recent' = 1
  /\ status' = "up"
  /\ kept' = Recovered(memory)
  /\ tried' = Recovered(memory)
  /\ metas' = RecoveredMetas(memory)
  /\ past' = IF past = "revived" \/ ~FindsOnlyTried THEN "revived"
             ELSE IF past = "torn" \/ LeftBehind(memory) # {} THEN "torn" ELSE "clean"
  /\ UNCHANGED <<memory, disk, writer, commitIndex, crashes>>

Next ==
  \/ SerializeEntries \/ SyncData \/ CopyMeta \/ SyncMeta
  \/ TruncateSuffix \/ ZeroMeta \/ SyncZeros
  \/ Commit \/ GetEntry \/ GetEntries
  \/ Kill \/ PowerFailure \/ ExitOnVersion \/ Recover

Spec == Init /\ [][Next]_vars

-----------------------------------------------------------------------------

\* Every entry that a thread may read at this moment is there as it was
\* appended, with its term, and its digest is right by some key of the key file:
\* getEntry never fails the assertions of getMeta, getEntryAddr and verifyHMAC,
\* whatever keys were added since the entry was written, while the raft loop
\* appends or truncates, and also beside slots that a crash has left behind, as
\* long as no start has taken one of those for an entry.
ReadsAreRight ==
  past # "revived" =>
    /\ status # "aborted"
    /\ status = "up" =>
         \A n \in Readable :
           IsRead(n) /\ Parse(memory, n) = kept[n] /\ memory.meta[n].term = kept[n].term


\* "make sure about data safety" (Segment.cpp, getEntry): what a start finds are
\* entries that were appended and not truncated.  It fails: a slot that memset or
\* memmove left behind comes back once the slots before it are written again.
NothingComesBack == past # "revived"
=============================================================================
