---------------------------- MODULE MCSegmentLog ----------------------------
(***************************************************************************)
(* SegmentLog beside an InMemoryLog that gets the same calls, until the    *)
(* first crash: a log in memory does not survive one.                      *)
(***************************************************************************)
EXTENDS SegmentLog

VARIABLE twin   \* the InMemoryLog

Memory == INSTANCE InMemoryLog

TwinReturns ==
  CASE call.op = "appendEntries" ->
         Memory!AppendAll(twin, [n \in 1 .. Len(call.entries) |->
                                   [index |-> lastIndex + n, term |-> call.entries[n]]])
    [] call.op = "truncatePrefix" -> Memory!TruncatePrefix(twin, call.index)
    [] call.op = "truncateSuffix" -> Memory!TruncateSuffix(twin, call.index)

TwinInit == Init /\ twin = Memory!NewLog

TwinNext ==
  \/ (RequestAppend \/ RequestTruncatePrefix \/ RequestTruncateSuffix) /\ UNCHANGED twin
  \/ Return /\ twin' = IF crashes = 0 THEN TwinReturns ELSE twin
  \/ Crash /\ twin' = Memory!NewLog
  \/ (Recover \/ AbortOnStart) /\ UNCHANGED twin
  \/ CrashInStart /\ twin' = Memory!NewLog

TwinSpec == TwinInit /\ [][TwinNext]_<<vars, twin>>

Lengths == 1 .. MaxIndex * Cardinality(Term)

\* The two logs that a RaftCore may be given are the same log: after the same
\* calls they have the same first and last index, the same entries and, from the
\* first index on, the same answers to getTerm; and what getEntries reads from
\* a segment begins what it reads from memory, shorter only where a segment ends.
StoresAgree ==
  crashes = 0 /\ call = Idle =>
    /\ twin.mFirstIndex = firstIndex
    /\ twin.mLastIndex = lastIndex
    /\ \A i \in firstIndex .. MaxIndex + 1 : Memory!GetTerm(twin, i) = GetTerm(i)
    /\ \A i \in firstIndex .. lastIndex :
         /\ Memory!GetEntry(twin, i) = [index |-> i, term |-> GetEntry(disk, closed, active, i)]
         /\ \A n \in 1 .. lastIndex - i + 1 :
              Memory!GetArray(twin, i, n)[n].term = GetEntry(disk, closed, active, i + n - 1)
         /\ \A length \in Lengths, most \in 1 .. MaxIndex :
              LET read == GetEntries(i, length, most)
                  memory == [n \in DOMAIN Memory!GetBatch(twin, i, length, most) |->
                               Memory!GetTerm(twin, i + n - 1)]
              IN  /\ IsPrefix(read, memory)
                  /\ Len(read) < Len(memory) => i + Len(read) \in {s.first : s \in closed \cup {active}}
=============================================================================
