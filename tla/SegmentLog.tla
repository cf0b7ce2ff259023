------------------------------ MODULE SegmentLog ------------------------------
(***************************************************************************)
(* The segmented log of infra/raft/storage/SegmentLog.cpp and Segment.cpp: *)
(* closed segments that are only read, and one active segment that is      *)
(* appended to.  A segment is a data file and a meta file; the meta file   *)
(* has one slot per entry and decides what the segment holds.              *)
(*                                                                         *)
(* A call of the log is a sequence of operations on files, FileOps, and    *)
(* what it does to the members of the object; a start lists the directory, *)
(* rebuilds the object or fails one of the assertions on the way, and may  *)
(* have to create a segment.  The process is killed between two operations *)
(* or within the memmove or memset of slots, which leaves any of the slots *)
(* changed.  A slot that is zero holds no entry; any other holds one, and  *)
(* an entry is its term.                                                   *)
(*                                                                         *)
(* Calls are those that RaftCore makes: truncatePrefix keeps an index up   *)
(* to the last (RaftCore::truncatePrefix asserts it is committed), and     *)
(* truncateSuffix keeps what is before the first entry or more.            *)
(***************************************************************************)
EXTENDS Integers, Sequences, FiniteSets, SequencesExt

CONSTANTS
  Term,        \* the terms of entries
  MaxSlots,    \* mSegmentMetaSizeLimit, in slots
  MaxBatch,    \* bound on the entries of one appendEntries
  MaxIndex,    \* bound on indexes
  MaxCrashes   \* bound on crashes

ASSUME SizeAssumption == MaxBatch \in 1..MaxSlots /\ MaxSlots \in Nat

VARIABLES
  disk,        \* the directory: first_index; of each meta file its slots, none while it
               \* has no size; of each data file whether it has its size
  firstIndex,  \* mFirstIndex
  lastIndex,   \* mLastIndex
  closed,      \* mClosedSegments
  active,      \* mActiveSegment
  call,        \* the call in progress
  status,      \* "up", "down" after a crash, "aborted" when a start failed
  crashes      \* bound: crashes so far

vars == <<disk, firstIndex, lastIndex, closed, active, call, status, crashes>>
object == <<firstIndex, lastIndex, closed, active>>

-----------------------------------------------------------------------------
(* Files *)

InProgress(first) == [kind |-> "in_progress", first |-> first, last |-> 0]
Closed(first, last) == [kind |-> "closed", first |-> first, last |-> last]
NameOf(segment) == Closed(segment.first, segment.last)

Zeros == [n \in 1..MaxSlots |-> 0]

\* Operations on files.  Each is one system call, or one memmove or memset.
Op(op, name, to, slots) == [op |-> op, name |-> name, to |-> to, slots |-> slots]

Rename(name, to) == <<Op("renameData", name, to, <<>>), Op("renameMeta", name, to, <<>>)>>
Drop(name) == <<Op("dropData", name, name, <<>>), Op("dropMeta", name, name, <<>>)>>

\* open with O_TRUNC, then setFileSize, of the data file and of the meta file
Create(name) ==
  <<Op("openData", name, name, <<>>), Op("sizeData", name, name, <<>>),
    Op("openMeta", name, name, <<>>), Op("sizeMeta", name, name, <<>>)>>

\* slots is a function from the positions that are written.
Write(name, slots) == Op("writeSlots", name, name, slots)
PersistFirstIndex(index) == Op("persistFirstIndex", InProgress(index), InProgress(index), <<>>)

Without(files, name) == Restrict(files, DOMAIN files \ {name})

Apply(d, o) ==
  CASE o.op = "renameData" -> [d EXCEPT !.data = o.to :> @[o.name] @@ Without(@, o.name)]
    [] o.op = "renameMeta" -> [d EXCEPT !.meta = o.to :> @[o.name] @@ Without(@, o.name)]
    [] o.op = "dropData" -> [d EXCEPT !.data = Without(@, o.name)]
    [] o.op = "dropMeta" -> [d EXCEPT !.meta = Without(@, o.name)]
    [] o.op = "openData" -> [d EXCEPT !.data = o.name :> FALSE @@ @]
    [] o.op = "sizeData" -> [d EXCEPT !.data[o.name] = TRUE]
    [] o.op = "openMeta" -> [d EXCEPT !.meta = o.name :> <<>> @@ @]
    [] o.op = "sizeMeta" -> [d EXCEPT !.meta[o.name] = Zeros]
    [] o.op = "writeSlots" -> [d EXCEPT !.meta[o.name] = o.slots @@ @]
    [] o.op = "persistFirstIndex" -> [d EXCEPT !.first = o.name.first]

Run(d, ops) == FoldLeft(Apply, d, ops)

\* What a kill within an operation may leave: memmove and memset have changed any
\* of the slots, a system call has not happened.
Within(d, o) ==
  IF o.op # "writeSlots" THEN {d}
  ELSE {Apply(d, Write(o.name, Restrict(o.slots, done))) : done \in SUBSET DOMAIN o.slots}

CutShort(d, ops) ==
  {Run(d, ops)} \cup UNION {Within(Run(d, SubSeq(ops, 1, n - 1)), ops[n]) : n \in 1..Len(ops)}

\* The slots from the first on that hold an entry
Counted(slots) == Max({n \in 0..Len(slots) : \A m \in 1..n : slots[m] # 0})

-----------------------------------------------------------------------------
(* The calls, on the object and as operations on files *)

Idle == [op |-> "idle", entries |-> <<>>, index |-> 0, roll |-> FALSE]

LengthOf(segment) == segment.last - segment.first + 1

\* The segment that is appended to, after rollActiveSegment if the call rolls.
AppendTo == IF call.roll THEN [first |-> lastIndex + 1, last |-> lastIndex] ELSE active

AppendOps ==
  LET name == InProgress(AppendTo.first)
      slot == LengthOf(AppendTo)
  IN  (IF call.roll
       THEN Rename(InProgress(active.first), NameOf(active)) \o Create(name) ELSE <<>>)
      \o <<Write(name, [n \in slot + 1 .. slot + Len(call.entries) |-> call.entries[n - slot]])>>

\* The segments that start after index: the active one first, then the closed ones
\* from the last to the first.
DroppedSegments(index) ==
  IF active.first <= index THEN <<>>
  ELSE <<active>> \o SetToSortSeq({s \in closed : s.first > index},
                                  LAMBDA s, t : s.first > t.first)

\* The segment that holds index, if there is one.
LastSegment(index) ==
  LET before == {s \in closed \cup {active} : s.first <= index}
  IN  {s \in before : \A t \in before : t.first <= s.first}

FileOf(segment) == IF segment = active THEN InProgress(segment.first) ELSE NameOf(segment)

\* The memset of the slots after index
Zero(segment, index) ==
  Write(FileOf(segment), [n \in index - segment.first + 2 .. LengthOf(segment) |-> 0])

\* Mutant of TruncateSegmentOps: a closed segment keeps its name, which says it is longer.
TruncateSegmentOpsUnnamed(segment, index) ==
  IF segment.last <= index THEN <<>> ELSE <<Zero(segment, index)>>

\* Mutant of TruncateSegmentOps: the slots of the entries that go are not zeroed.
TruncateSegmentOpsUnzeroed(segment, index) ==
  IF segment.last <= index \/ segment = active THEN <<>>
  ELSE Rename(NameOf(segment), Closed(segment.first, index))

\* Segment::truncateSuffix: zero the slots, and rename a closed segment.
TruncateSegmentOps(segment, index) ==
  IF segment.last <= index THEN <<>>
  ELSE <<Zero(segment, index)>>
       \o (IF segment = active THEN <<>> ELSE Rename(NameOf(segment), Closed(segment.first, index)))

\* Everything goes: the segment that holds index only has entries before the first index.
Discards(index) == index < firstIndex

TruncateSuffixOps ==
  LET index   == call.index
      last    == LastSegment(index)
      kept    == IF Discards(index) THEN {} ELSE last
      dropped == DroppedSegments(index)
                 \o (IF Discards(index) THEN SetToSeq(last) ELSE <<>>)
  IN  (IF kept = {} THEN <<>> ELSE TruncateSegmentOps(CHOOSE s \in kept : TRUE, index))
      \o FlattenSeq([n \in 1..Len(dropped) |-> Drop(FileOf(dropped[n]))])
      \o (IF kept = {active} THEN <<>> ELSE Create(InProgress(index + 1)))

FileOps ==
  CASE call.op = "idle" -> <<>>
    [] call.op = "appendEntries" -> AppendOps
    [] call.op = "truncatePrefix" -> <<PersistFirstIndex(call.index)>>
    [] call.op = "truncateSuffix" -> TruncateSuffixOps

-----------------------------------------------------------------------------
(* Actions *)

Request(c) ==
  /\ status = "up"
  /\ call = Idle
  /\ call' = c
  /\ UNCHANGED <<disk, object, status, crashes>>

\* shouldRoll: too many slots, or too much data in a segment that holds some.
RequestAppend ==
  \E n \in 1..MaxBatch : \E entries \in [1..n -> Term], roll \in BOOLEAN :
    /\ lastIndex + n <= MaxIndex
    /\ LengthOf(active) + n > MaxSlots => roll
    /\ roll => LengthOf(active) > 0
    /\ Request([op |-> "appendEntries", entries |-> entries, index |-> 0, roll |-> roll])

RequestTruncatePrefix ==
  \E i \in (firstIndex + 1)..lastIndex :
    Request([op |-> "truncatePrefix", entries |-> <<>>, index |-> i, roll |-> FALSE])

RequestTruncateSuffix ==
  \E i \in (firstIndex - 1)..(lastIndex - 1) :
    Request([op |-> "truncateSuffix", entries |-> <<>>, index |-> i, roll |-> FALSE])

AppendEntries ==
  /\ call.op = "appendEntries"
  /\ closed' = IF call.roll THEN closed \cup {active} ELSE closed
  /\ active' = [AppendTo EXCEPT !.last = @ + Len(call.entries)]
  /\ lastIndex' = lastIndex + Len(call.entries)
  /\ UNCHANGED firstIndex

TruncatePrefix ==
  /\ call.op = "truncatePrefix"
  /\ firstIndex' = call.index
  /\ closed' = {s \in closed : s.last >= call.index}
  /\ UNCHANGED <<lastIndex, active>>

TruncateSuffix ==
  LET index == call.index
      kept  == IF Discards(index) THEN {} ELSE LastSegment(index)
      Cut(s) == IF s \in kept /\ s.last > index THEN [s EXCEPT !.last = index] ELSE s
  IN  /\ call.op = "truncateSuffix"
      /\ lastIndex' = index
      /\ closed' = {Cut(s) : s \in {t \in closed : t.first <= index} \ (LastSegment(index) \ kept)}
      /\ active' = IF active \in kept THEN Cut(active) ELSE [first |-> index + 1, last |-> index]
      /\ firstIndex' = IF active.first > index /\ {s \in closed : s.first <= index} = {}
                       THEN index + 1 ELSE firstIndex

Return ==
  /\ status = "up"
  /\ AppendEntries \/ TruncatePrefix \/ TruncateSuffix
  /\ disk' = Run(disk, FileOps)
  /\ call' = Idle
  /\ UNCHANGED <<status, crashes>>

\* The object is gone; the next start begins with an empty one.
Crash ==
  /\ status = "up"
  /\ crashes < MaxCrashes
  /\ disk' \in CutShort(disk, FileOps)
  /\ status' = "down"
  /\ call' = Idle
  /\ crashes' = crashes + 1
  /\ firstIndex' = 1
  /\ lastIndex' = 0
  /\ closed' = {}
  /\ active' = [first |-> 1, last |-> 0]

-----------------------------------------------------------------------------
(* Recovery: SegmentLog::init *)

ClosedNames(d) == {name \in DOMAIN d.meta : name.kind = "closed"}
ActiveNames(d) == {name \in DOMAIN d.meta : name.kind = "in_progress"}

\* Segments before the first index are retained on disk and ignored.
LoadedNames(d) ==
  LET closedNames == ClosedNames(d)
  IN  {c \in closedNames : \E b \in closedNames : b.first <= c.first /\ d.first <= b.last}

\* Both files are opened and mapped, which fails for a file of size zero.
IsMapped(d, name) == name \in DOMAIN d.data /\ d.data[name] /\ d.meta[name] # <<>>

RecoveredLast(d, name) == name.first + Counted(d.meta[name]) - 1

\* The last of the loaded segments before name, if there is one.
Previous(d, name) ==
  LET before == {c \in LoadedNames(d) : c.first < name.first}
  IN  {c \in before : \A b \in before : b.first <= c.first}

FollowsPrevious(d, name) ==
  /\ \A p \in Previous(d, name) : name.first = p.last + 1
  /\ Previous(d, name) = {} => d.first >= name.first

\* The assertions of listSegments, recoverSegments and recoverActiveOrClosedSegment.
StartSucceeds(d) ==
  /\ \A a, b \in ActiveNames(d) : a = b
  /\ \A a, b \in ClosedNames(d) : a.first = b.first => a = b
  /\ \A c \in ClosedNames(d) : c.first <= c.last
  /\ \A c \in LoadedNames(d) : /\ FollowsPrevious(d, c)
                               /\ IsMapped(d, c)
                               /\ RecoveredLast(d, c) = c.last
  /\ \A a \in ActiveNames(d) : FollowsPrevious(d, a) /\ IsMapped(d, a)

\* The active segment is ignored when all of it is before the first index.
KeptActive(d) == {a \in ActiveNames(d) : d.first <= RecoveredLast(d, a)}

RecoveredLastIndex(d) ==
  LET ends == {c.last : c \in LoadedNames(d)} \cup {RecoveredLast(d, a) : a \in KeptActive(d)}
  IN  IF ends = {} THEN d.first - 1 ELSE Max(ends)

RecoveredActive(d) ==
  IF KeptActive(d) = {}
  THEN [first |-> RecoveredLastIndex(d) + 1, last |-> RecoveredLastIndex(d)]
  ELSE LET a == CHOOSE a \in KeptActive(d) : TRUE IN [first |-> a.first, last |-> RecoveredLast(d, a)]

\* make sure there is an active segment; an empty one may have had this name.
StartOps(d) ==
  IF KeptActive(d) = {} THEN Create(InProgress(RecoveredLastIndex(d) + 1)) ELSE <<>>

Recover ==
  /\ status = "down"
  /\ StartSucceeds(disk)
  /\ status' = "up"
  /\ firstIndex' = disk.first
  /\ lastIndex' = RecoveredLastIndex(disk)
  /\ closed' = {[first |-> c.first, last |-> c.last] : c \in LoadedNames(disk)}
  /\ active' = RecoveredActive(disk)
  /\ disk' = Run(disk, StartOps(disk))
  /\ UNCHANGED <<call, crashes>>

CrashInStart ==
  /\ status = "down"
  /\ StartSucceeds(disk)
  /\ StartOps(disk) # <<>>
  /\ crashes < MaxCrashes
  /\ disk' \in CutShort(disk, StartOps(disk))
  /\ crashes' = crashes + 1
  /\ UNCHANGED <<object, call, status>>

AbortOnStart ==
  /\ status = "down"
  /\ ~StartSucceeds(disk)
  /\ status' = "aborted"
  /\ UNCHANGED <<disk, object, call, crashes>>

-----------------------------------------------------------------------------
\* An empty directory, before the first start
Init ==
  /\ disk = [first |-> 1, meta |-> <<>>, data |-> <<>>]
  /\ firstIndex = 1
  /\ lastIndex = 0
  /\ closed = {}
  /\ active = [first |-> 1, last |-> 0]
  /\ call = Idle
  /\ status = "down"
  /\ crashes = 0

Next ==
  \/ RequestAppend \/ RequestTruncatePrefix \/ RequestTruncateSuffix
  \/ Return
  \/ Crash \/ Recover \/ CrashInStart \/ AbortOnStart

Spec == Init /\ [][Next]_vars

-----------------------------------------------------------------------------
(* Properties *)

\* getSegment: the segment with the largest first index up to index.
SegmentOf(segments, last, index) ==
  LET before == {s \in segments \cup {last} : s.first <= index}
  IN  CHOOSE s \in before : \A t \in before : t.first <= s.first

\* getEntry: 0 where the slot holds no entry
GetEntry(d, segments, last, index) ==
  LET segment == SegmentOf(segments, last, index)
      slots == d.meta[IF segment = last THEN InProgress(last.first) ELSE NameOf(segment)]
  IN  slots[index - segment.first + 1]

\* getTerm: -1 where it fails.  The index before the first one has term 0, for
\* the consistency check of the first entry.
GetTerm(index) ==
  CASE index = firstIndex - 1 -> 0
    [] index \in firstIndex..lastIndex -> GetEntry(disk, closed, active, index)
    [] OTHER -> -1

\* getEntries reads no further than the segment of startIndex.  The length of an
\* entry in bytes is its term.
GetEntries(startIndex, maxLenInBytes, maxBatchSize) ==
  LET segment == SegmentOf(closed, active, startIndex)
      read == [n \in 1..(segment.last - startIndex + 1) |->
                 GetEntry(disk, closed, active, startIndex + n - 1)]
      fits == {n \in 0..Len(read) : n <= maxBatchSize
                                    /\ FoldLeft(+, 0, SubSeq(read, 1, n)) <= maxLenInBytes}
  IN  SubSeq(read, 1, Max(fits))

\* What the log holds: what the object serves, or what the next start would find.
Entries ==
  CASE status = "up" ->
         [n \in 1..(lastIndex - firstIndex + 1) |->
            GetEntry(disk, closed, active, firstIndex + n - 1)]
    [] status # "up" /\ StartSucceeds(disk) ->
         [n \in 1..(RecoveredLastIndex(disk) - disk.first + 1) |->
            GetEntry(disk, {[first |-> c.first, last |-> c.last] : c \in LoadedNames(disk)},
                     RecoveredActive(disk), disk.first + n - 1)]
    [] OTHER -> <<>>

Calls ==
  [op : {"appendEntries"}, entries : UNION {[1..n -> Term] : n \in 1..MaxBatch}, index : {0},
   roll : BOOLEAN]
  \cup [op : {"truncatePrefix", "truncateSuffix"}, entries : {<<>>}, index : 0..MaxIndex,
        roll : {FALSE}]

\* The slots of a segment that hold an entry beyond its last
SlotsAfter(d, name, last) ==
  {<<name.first + n - 1, d.meta[name][n]>> :
     n \in {m \in 1..Len(d.meta[name]) : d.meta[name][m] # 0 /\ name.first + m - 1 > last}}

\* Those of all segments of the log
LeftBehind ==
  CASE status = "up" -> UNION {SlotsAfter(disk, FileOf(s), s.last) : s \in closed \cup {active}}
    [] status # "up" /\ StartSucceeds(disk) ->
         UNION {SlotsAfter(disk, c, RecoveredLast(disk, c)) :
                  c \in LoadedNames(disk) \cup ActiveNames(disk)}
    [] OTHER -> {}

\* Whether the call or the next start creates, renames or drops segments
ChangesFiles ==
  CASE status = "up" ->
         \/ call.roll
         \/ call.op = "truncateSuffix" /\ (Discards(call.index) \/ active.first > call.index)
    [] status # "up" /\ StartSucceeds(disk) -> KeptActive(disk) = {}
    [] OTHER -> FALSE

Abstract == INSTANCE Log WITH
  Call     <- Calls,
  first    <- CASE status = "up" -> firstIndex
                [] status # "up" /\ StartSucceeds(disk) -> disk.first
                [] OTHER -> 1,
  entries  <- Entries,
  left     <- LeftBehind,
  changing <- ChangesFiles,
  status   <- CASE status = "up" -> "up"
                [] status # "up" /\ StartSucceeds(disk) -> "down"
                [] OTHER -> "lost"

\* The segments implement the log that raft relies on: what a call that has returned
\* keeps is found after a kill at any point, in whatever segment it is; what else is
\* found was there before or is of the call that was cut short, and comes back only
\* from slots that a kill within memmove or memset has left behind; and a start is
\* refused only after a kill while segments were created, renamed or dropped, or
\* beside such slots.
ImplementsLog == Abstract!Spec

TypeOK ==
  /\ disk.first \in 1..MaxIndex
  /\ \A name \in DOMAIN disk.meta :
       disk.meta[name] \in {<<>>} \cup [1..MaxSlots -> Term \cup {0}]
  /\ \A name \in DOMAIN disk.data : disk.data[name] \in BOOLEAN
  /\ firstIndex \in 1..MaxIndex + 1
  /\ lastIndex \in 0..MaxIndex
  /\ closed \subseteq [first : 1..MaxIndex, last : 1..MaxIndex]
  /\ active \in [first : 1..MaxIndex + 1, last : 0..MaxIndex]
  /\ call \in Calls \cup {Idle}
  /\ status \in {"up", "down", "aborted"}
  /\ crashes \in 0..MaxCrashes

\* Between calls the segments lie end to end up to the last index, the first of them
\* holds the first index, and each has its two files, under the name that says what
\* it holds, and every slot of it holds an entry; no slot after them does before the
\* first kill.  The directory may hold more segments only before these.
SegmentsMatchFiles ==
  status = "up" /\ call = Idle =>
    /\ active.last = lastIndex
    /\ \A s \in closed \cup {active} :
         \/ \E t \in closed : t.last + 1 = s.first
         \/ s.first <= firstIndex
    /\ \A s \in closed : s.first <= s.last /\ s.last < active.first /\ s.last >= firstIndex
    /\ \A s \in closed \cup {active} :
         FileOf(s) \in DOMAIN disk.meta
         /\ IsMapped(disk, FileOf(s)) /\ Counted(disk.meta[FileOf(s)]) >= LengthOf(s)
    /\ crashes = 0 => LeftBehind = {}
    /\ ActiveNames(disk) = {FileOf(active)}
    /\ \A c \in ClosedNames(disk) : c \in {NameOf(s) : s \in closed} \/ c.last < firstIndex

\* recoverSegments asserts of the segments in the directory that each starts where
\* the one before it ends, whenever a start finds them.
SegmentsFollowEachOther ==
  status = "down" =>
    \A name \in LoadedNames(disk) \cup ActiveNames(disk) : FollowsPrevious(disk, name)

=============================================================================
