--------------------------------- MODULE Log ---------------------------------
(***************************************************************************)
(* What infra/raft/storage/Log.h promises the raft loop of a persistent    *)
(* log: calls that have returned survive a kill, and a call that a kill    *)
(* cuts short has happened in part, namely                                 *)
(*   - appendEntries has written some of its entries,                      *)
(*   - truncateSuffix has removed some of the entries it was to remove,    *)
(*   - truncatePrefix has happened or not.                                 *)
(* Entries that such a call has written or not removed, and that do not    *)
(* follow the last entry, are left behind: they are not in the log, and    *)
(* come back after a later kill if what is before them is written again.   *)
(*                                                                         *)
(* A kill while files are created, renamed or dropped, by a call or by a   *)
(* start, may leave a directory that every later start refuses, and so may *)
(* any kill once entries are left behind; no other kill does.              *)
(***************************************************************************)
EXTENDS Integers, Sequences, FiniteSets

CONSTANTS
  Call,      \* the calls: records with op, entries (to append) and index (to keep)
  Idle       \* no call in progress

VARIABLES
  first,     \* index of the first entry
  entries,   \* the entries, from first on
  left,      \* what is left behind: pairs of an index and an entry
  call,      \* the call in progress
  changing,  \* whether the call or the start creates, renames or drops files
  status     \* "up", "down" before a start, "lost" when the files are refused

vars == <<first, entries, left, call, changing, status>>

Init ==
  /\ first = 1
  /\ entries = <<>>
  /\ left = {}
  /\ call = Idle
  /\ changing \in BOOLEAN
  /\ status = "down"

last == first + Len(entries) - 1

Request(c) ==
  /\ status = "up"
  /\ call = Idle
  /\ call' = c
  /\ changing' \in BOOLEAN
  /\ UNCHANGED <<first, entries, left, status>>

AppendEntries ==
  /\ call.op = "appendEntries"
  /\ entries' = entries \o call.entries
  /\ first' = first

TruncatePrefix ==
  /\ call.op = "truncatePrefix"
  /\ first' = call.index
  /\ entries' = SubSeq(entries, call.index - first + 1, Len(entries))

TruncateSuffix ==
  /\ call.op = "truncateSuffix"
  /\ entries' = SubSeq(entries, 1, call.index - first + 1)
  /\ first' = first

Return ==
  /\ status = "up"
  /\ call # Idle
  /\ call' = Idle
  /\ UNCHANGED status
  /\ AppendEntries \/ TruncatePrefix \/ TruncateSuffix
  /\ left' \subseteq left
  /\ changing' = FALSE

\* What the call in progress writes or removes
Touched ==
  CASE call.op = "appendEntries" -> {<<last + n, call.entries[n]>> : n \in 1..Len(call.entries)}
    [] call.op = "truncateSuffix" ->
         {<<i, entries[i - first + 1]>> : i \in call.index + 1 .. last}
    [] OTHER -> {}

\* The last index that the call in progress leaves alone
Safe == IF call.op = "truncateSuffix" THEN call.index ELSE last

\* The sequences of entries in doubt that may be found after index
Following(index, doubt) ==
  {s \in UNION {[1..n -> {p[2] : p \in doubt}] : n \in 0..Cardinality(doubt)} :
     \A n \in 1..Len(s) : <<index + n, s[n]>> \in doubt}

Kill ==
  /\ status = "up"
  /\ call' = Idle
  /\ status' = "down"
  /\ \/ first' = first
     \/ call.op = "truncatePrefix" /\ first' = call.index
  /\ LET doubt == left \cup Touched
         kept  == SubSeq(entries, first' - first + 1, Safe - first + 1)
     IN  /\ entries' \in {kept \o found : found \in Following(first' + Len(kept) - 1, doubt)}
         /\ left' \subseteq doubt
  /\ changing' \in BOOLEAN

KillInStart ==
  /\ status = "down"
  /\ changing
  /\ UNCHANGED <<status, call, first, entries>>
  /\ left' \subseteq left
  /\ changing' \in BOOLEAN

LoseFiles ==
  /\ status \in {"up", "down"}
  /\ changing \/ left # {}
  /\ status' = "lost"
  /\ call' = Idle
  /\ first' = 1
  /\ entries' = <<>>
  /\ left' = {}
  /\ changing' = FALSE

Recover ==
  /\ status = "down"
  /\ status' = "up"
  /\ UNCHANGED <<call, first, entries>>
  /\ left' \subseteq left
  /\ changing' = FALSE

Next ==
  \/ \E c \in Call : Request(c)
  \/ Return
  \/ Kill \/ KillInStart \/ LoseFiles
  \/ Recover

Spec == Init /\ [][Next]_vars

=============================================================================
