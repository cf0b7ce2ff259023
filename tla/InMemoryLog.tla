----------------------------- MODULE InMemoryLog -----------------------------
(***************************************************************************)
(* infra/raft/storage/InMemoryLog.h, the log of a RaftCore whose storage   *)
(* type is not "file".  A log l is the record of its members; each method  *)
(* is an operator on it.  An entry is its index and its term; the length   *)
(* of an entry in bytes is its term.                                       *)
(***************************************************************************)
EXTENDS Integers, Sequences, FiniteSets, SequencesExt, FiniteSetsExt

NewLog == [mFirstIndex |-> 1, mLastIndex |-> 0, mLog |-> <<>>]

\* What a get finds where there is nothing
NotFound == [index |-> -1, term |-> -1]
Dummy == [index |-> 0, term |-> 0]

\* An entry out of order is refused.
AppendEntry(l, entry) ==
  IF l.mLastIndex + 1 # entry.index THEN l
  ELSE [l EXCEPT !.mLastIndex = @ + 1, !.mLog = Append(@, entry)]

\* appendEntries stops at the first entry that is refused.
AppendAll(l, entries) ==
  LET inOrder == {n \in DOMAIN entries : \A k \in 1 .. n : entries[k].index = l.mLastIndex + k}
  IN  FoldLeft(AppendEntry, l, SubSeq(entries, 1, Max({0} \cup inOrder)))

At(l, index) == l.mLog[index - l.mFirstIndex + 1]

GetEntry(l, index) ==
  CASE index = 0 -> Dummy
    [] index # 0 /\ index \in l.mFirstIndex .. l.mLastIndex -> At(l, index)
    [] OTHER -> NotFound

GetTerm(l, index) == GetEntry(l, index).term

GetArray(l, index, size) ==
  IF index < l.mFirstIndex \/ index + size - 1 > l.mLastIndex THEN <<>>
  ELSE [n \in 1 .. size |-> At(l, index + n - 1)]

\* startIndex is the index after the last one at most.
GetBatch(l, startIndex, maxLenInBytes, maxBatchSize) ==
  LET length(n) == MapThenSumSet(LAMBDA i : At(l, i).term, startIndex .. startIndex + n - 1)
      most == Min({maxBatchSize, l.mLastIndex - startIndex + 1})
      size == Max({n \in 0 .. most : length(n) <= maxLenInBytes})
  IN  IF startIndex > l.mLastIndex THEN <<>>
      ELSE [n \in 1 .. size |-> At(l, startIndex + n - 1)]

\* Mutant of TruncatePrefix: one entry too few is erased.
TruncatePrefixShort(l, firstIndexKept) ==
  IF l.mFirstIndex >= firstIndexKept THEN l
  ELSE [l EXCEPT !.mFirstIndex = firstIndexKept,
                 !.mLog = SubSeq(@, firstIndexKept - l.mFirstIndex, Len(@))]

TruncatePrefix(l, firstIndexKept) ==
  CASE l.mFirstIndex >= firstIndexKept -> l
    [] l.mFirstIndex < firstIndexKept /\ firstIndexKept > l.mLastIndex ->
         [mFirstIndex |-> firstIndexKept, mLastIndex |-> firstIndexKept - 1, mLog |-> <<>>]
    [] l.mFirstIndex < firstIndexKept /\ firstIndexKept <= l.mLastIndex ->
         [l EXCEPT !.mFirstIndex = firstIndexKept,
                   !.mLog = SubSeq(@, firstIndexKept - l.mFirstIndex + 1, Len(@))]

TruncateSuffix(l, lastIndexKept) ==
  CASE l.mLastIndex <= lastIndexKept -> l
    [] l.mLastIndex > lastIndexKept /\ lastIndexKept < l.mFirstIndex ->
         [mFirstIndex |-> lastIndexKept + 1, mLastIndex |-> lastIndexKept, mLog |-> <<>>]
    [] l.mLastIndex > lastIndexKept /\ lastIndexKept >= l.mFirstIndex ->
         [l EXCEPT !.mLastIndex = lastIndexKept,
                   !.mLog = SubSeq(@, 1, lastIndexKept - l.mFirstIndex + 1)]
=============================================================================
