------------------------------- MODULE Ledger -------------------------------
(***************************************************************************)
(* The rules of the ledger (src/app_ledger/v2/AppStateMachine.cpp and the  *)
(* domain classes under should_be_generated/domain): how a state machine   *)
(* answers a command, which event it emits, and how it applies an event.   *)
(*                                                                         *)
(* A machine is a record of the three maps both state machines own:        *)
(*   done  the ids in mDoneMap (the valid time kept with an id is dropped, *)
(*         nothing reads it);                                              *)
(*   coa   the chart of accounts mCoA, nominal code -> account;            *)
(*   meta  mAccountMetadata, account type -> range of nominal codes.       *)
(* Names, descriptions, purposes, times and versions are dropped.  Values  *)
(* are uint64_t in the code: all arithmetic is modulo 2^Width.             *)
(***************************************************************************)
EXTENDS Integers, Sequences, FiniteSetsExt

CONSTANTS
  Width,      \* bits of an amount and of a balance (64 in the code)
  Commands    \* the verified commands clients may send

ASSUME WidthAssumption == Width \in Nat \ {0}

\* mValue of Amount and Balance wraps.
Wrap(n) == n % 2^Width

-----------------------------------------------------------------------------
(* Commands, events and machines                                           *)

\* AccountType without Unknown: CreateAccountCommand::verifyCommand refuses it.
DebitNormal == {"Asset", "Capital", "CostOfGoodsSold", "Expense"}
CreditNormal == {"Income", "Liability"}
AccountType == DebitNormal \cup CreditNormal

\* The id of a journal entry that carries none.
NoId == ""

NoEvent == [kind |-> "None"]

EmptyMachine == [done |-> {}, coa |-> <<>>, meta |-> <<>>]

\* What ConfigureAccountMetadataCommand, CreateAccountCommand and
\* RecordJournalEntryCommand ask of a request before it is queued.
VerifyCommand(c) ==
  CASE c.kind = "Configure" -> c.range.low < c.range.high
    [] c.kind = "Create"    -> c.account.type \in AccountType
    [] c.kind = "Record"    -> TRUE

\* A map with the entry k -> v added or replaced.
Put(map, k, v) == [x \in DOMAIN map \cup {k} |-> IF x = k THEN v ELSE map[x]]

\* The entries of `over' shadow those of `under'.
Overlay(under, over) ==
  [x \in DOMAIN under \cup DOMAIN over |-> IF x \in DOMAIN over THEN over[x] ELSE under[x]]

-----------------------------------------------------------------------------
(* process(command): a code and at most one event                          *)

Hint(code, event) == [code |-> code, event |-> event]

Overlap(r, s) == ~(r.low > s.high \/ r.high < s.low)

Within(code, r) == r.low <= code /\ code <= r.high

\* Rule 1 compares with the ranges of the other types only; rule 2 looks at
\* the accounts of the type that exist now.
ProcessConfigure(c, m) ==
  IF \E t \in DOMAIN m.meta \ {c.type} : Overlap(c.range, m.meta[t])
  THEN Hint("ACCOUNT_METADATA_RANGE_OVERLAP", NoEvent)
  ELSE IF \E n \in DOMAIN m.coa : m.coa[n].type = c.type /\ ~Within(n, c.range)
  THEN Hint("ACCOUNT_METADATA_RANGE_NOT_COVER_EXISTING_ACCOUNT", NoEvent)
  ELSE Hint("OK", [kind |-> "Configured", type |-> c.type, range |-> c.range])

\* A new account is not compared with the range configured for its type.
ProcessCreate(c, m) ==
  IF c.code \in DOMAIN m.coa
  THEN Hint("ACCOUNT_ALREADY_EXISTS", NoEvent)
  ELSE Hint("OK", [kind |-> "Created", code |-> c.code, account |-> c.account])

\* The check one journal line gets in the loop over the lines.
LineCode(l, coa) ==
  CASE l.code \notin DOMAIN coa -> "ACCOUNT_IN_JOURNAL_ENTRY_NOT_EXIST"
    [] l.code \in DOMAIN coa /\ coa[l.code].currency # l.currency
         -> "JOURNAL_LINE_ISO_CURRENCY_CODE_DOES_NOT_MATCH_ACCOUNT"
    [] l.code \in DOMAIN coa /\ coa[l.code].currency = l.currency
         -> IF l.type = "Unknown" THEN "INVALID_TRANSACTION_TYPE" ELSE "OK"

LinesOf(lines, type) == {i \in DOMAIN lines : lines[i].type = type}

\* debitSum and creditSum, accumulated with Amount::operator+=.
SumOf(lines, type) == Wrap(MapThenSumSet(LAMBDA i : lines[i].amount, LinesOf(lines, type)))

\* Mutant: only RocksDB is asked for the id.
ProcessRecordNoDoneMap(c, m, persisted) ==
  IF c.id \in persisted \/ \E i \in DOMAIN c.lines : LineCode(c.lines[i], m.coa) # "OK"
  THEN Hint("REFUSED", NoEvent)
  ELSE IF SumOf(c.lines, "Debit") # SumOf(c.lines, "Credit")
  THEN Hint("CREDIT_NOT_EQUAL_TO_DEBIT", NoEvent)
  ELSE Hint("OK", [kind |-> "Recorded", id |-> c.id, lines |-> c.lines])

\* `persisted' are the ids the read-only view of RocksDB holds.
ProcessRecord(c, m, persisted) ==
  LET bad == {i \in DOMAIN c.lines : LineCode(c.lines[i], m.coa) # "OK"} IN
  IF c.id \in m.done \cup persisted
  THEN Hint("JOURNAL_ENTRY_ALREADY_PROCESSED", NoEvent)
  ELSE IF bad # {}
  THEN Hint(LineCode(c.lines[Min(bad)], m.coa), NoEvent)
  ELSE IF LinesOf(c.lines, "Debit") = {}
  THEN Hint("NO_DEBIT_IN_JOURNAL_ENTRY", NoEvent)
  ELSE IF LinesOf(c.lines, "Credit") = {}
  THEN Hint("NO_CREDIT_IN_JOURNAL_ENTRY", NoEvent)
  ELSE IF SumOf(c.lines, "Debit") # SumOf(c.lines, "Credit")
  THEN Hint("CREDIT_NOT_EQUAL_TO_DEBIT", NoEvent)
  ELSE Hint("OK", [kind |-> "Recorded", id |-> c.id, lines |-> c.lines])

\* The processors the constructor registers, by type of command.
Process(c, m, persisted) ==
  CASE c.kind = "Configure" -> ProcessConfigure(c, m)
    [] c.kind = "Create"    -> ProcessCreate(c, m)
    [] c.kind = "Record"    -> ProcessRecord(c, m, persisted)

-----------------------------------------------------------------------------
(* apply(event)                                                            *)

ApplyDebit(a, amount) ==
  [a EXCEPT !.balance = Wrap(IF a.type \in DebitNormal THEN @ + amount ELSE @ - amount)]

\* Mutant: a credit increases an expense.
ApplyCreditWrongSign(a, amount) == [a EXCEPT !.balance = Wrap(@ + amount)]

ApplyCredit(a, amount) ==
  [a EXCEPT !.balance = Wrap(IF a.type \in DebitNormal THEN @ - amount ELSE @ + amount)]

ApplyLine(coa, l) ==
  [coa EXCEPT ![l.code] =
     IF l.type = "Debit" THEN ApplyDebit(@, l.amount) ELSE ApplyCredit(@, l.amount)]

\* The loop over the lines of a journal entry.
ApplyLines(coa, lines) ==
  LET after[n \in 0..Len(lines)] == IF n = 0 THEN coa ELSE ApplyLine(after[n - 1], lines[n])
  IN  after[Len(lines)]

\* The assertions apply makes, and the lookup that throws: the process dies
\* when one fails.
CanApply(e, m) ==
  CASE e.kind = "Configured" -> TRUE
    [] e.kind = "Created"    -> e.code \notin DOMAIN m.coa
    [] e.kind = "Recorded"   -> /\ e.id \notin m.done
                                /\ \A i \in DOMAIN e.lines :
                                     /\ e.lines[i].code \in DOMAIN m.coa
                                     /\ e.lines[i].type # "Unknown"

\* The appliers the constructor registers, by type of event.
Apply(e, m) ==
  CASE e.kind = "Configured" -> [m EXCEPT !.meta = Put(@, e.type, e.range)]
    [] e.kind = "Created"    -> [m EXCEPT !.coa = Put(@, e.code, e.account)]
    [] e.kind = "Recorded"   -> [m EXCEPT !.done = @ \cup {e.id},
                                          !.coa = ApplyLines(@, e.lines)]

-----------------------------------------------------------------------------
(* Messages: what an entity is in the log and in RocksDB.  All of version 1. *)

\* AccountTypeUtil and TransactionTypeUtil: a number that is no type is Unknown.
AccountTypeCode ==
  [Unknown |-> 0, Asset |-> 1, Liability |-> 2, Capital |-> 3, Income |-> 4,
   CostOfGoodsSold |-> 5, Expense |-> 6]
TransactionTypeCode == [Unknown |-> 0, Debit |-> 1, Credit |-> 2]

TypeOf(codes, n) ==
  IF n \in Range(codes) THEN CHOOSE t \in DOMAIN codes : codes[t] = n ELSE "Unknown"

\* The fields of an account, of a range and of a line; a type is one of the enum.
IsAccount(a) ==
  /\ a = [type |-> a.type, balance |-> a.balance, currency |-> a.currency]
  /\ a.type \in DOMAIN AccountTypeCode
IsRange(r) == r = [low |-> r.low, high |-> r.high]
IsLine(l) ==
  /\ l = [code |-> l.code, type |-> l.type, amount |-> l.amount, currency |-> l.currency]
  /\ l.type \in DOMAIN TransactionTypeCode

\* Requests are built from messages that have these fields.
ASSUME CommandsAssumption ==
  \A c \in Commands :
    \/ c.kind = "Configure" /\ c.type \in DOMAIN AccountTypeCode /\ IsRange(c.range)
    \/ c.kind = "Create" /\ IsAccount(c.account)
    \/ c.kind = "Record" /\ c.lines \in Seq(Range(c.lines)) /\ \A l \in Range(c.lines) : IsLine(l)

EncodeAmount(value) == [version |-> 1, value |-> value]
EncodeBalance(value) == [version |-> 1, value |-> value]

EncodeAccount(a) ==
  [version |-> 1, type |-> AccountTypeCode[a.type], balance |-> EncodeBalance(a.balance),
   currency |-> a.currency]
InitAccount(p) ==
  [type |-> TypeOf(AccountTypeCode, p.type), balance |-> p.balance.value, currency |-> p.currency]

EncodeMetadata(type, range) ==
  [version |-> 1, type |-> AccountTypeCode[type], low |-> range.low, high |-> range.high]
InitMetadata(p) == [low |-> p.low, high |-> p.high]

EncodeLine(l) ==
  [version |-> 1, code |-> l.code, type |-> TransactionTypeCode[l.type],
   amount |-> EncodeAmount(l.amount), currency |-> l.currency]
InitLine(p) ==
  [code |-> p.code, type |-> TypeOf(TransactionTypeCode, p.type), amount |-> p.amount.value,
   currency |-> p.currency]

\* encodeTo of a journal entry copies the id of the message it fills, which is
\* empty, in place of the id of the entry.
EncodeJournalEntry(e) ==
  [version |-> 1, id |-> NoId, lines |-> [i \in DOMAIN e.lines |-> EncodeLine(e.lines[i])]]
InitJournalEntry(p) == [id |-> p.id, lines |-> [i \in DOMAIN p.lines |-> InitLine(p.lines[i])]]

\* encodeToString and decodeFromString of each event.
EncodeConfigured(e) == [version |-> 1, metadata |-> EncodeMetadata(e.type, e.range)]
DecodeConfigured(p) ==
  [kind |-> "Configured", type |-> TypeOf(AccountTypeCode, p.metadata.type),
   range |-> InitMetadata(p.metadata)]

EncodeCreated(e) == [version |-> 1, code |-> e.code, account |-> EncodeAccount(e.account)]
DecodeCreated(p) == [kind |-> "Created", code |-> p.code, account |-> InitAccount(p.account)]

EncodeRecorded(e) == [version |-> 1, entry |-> EncodeJournalEntry(e)]
DecodeRecorded(p) ==
  LET entry == InitJournalEntry(p.entry)
  IN  [kind |-> "Recorded", id |-> entry.id, lines |-> entry.lines]

\* The metadata of a bundle say of what type the event is.
EncodeToString(e) ==
  [kind |-> e.kind,
   payload |-> CASE e.kind = "Configured" -> EncodeConfigured(e)
                 [] e.kind = "Created"    -> EncodeCreated(e)
                 [] e.kind = "Recorded"   -> EncodeRecorded(e)]

DecodeEventFromString(s) ==
  CASE s.kind = "Configured" -> DecodeConfigured(s.payload)
    [] s.kind = "Created"    -> DecodeCreated(s.payload)
    [] s.kind = "Recorded"   -> DecodeRecorded(s.payload)

\* What the on... callbacks put in the write batch of the RocksDB-backed
\* machine: m is the machine after the event is applied.
Writes(e, m) ==
  CASE e.kind = "Configured" ->
         [EmptyMachine EXCEPT !.meta = Put(<<>>, e.type, EncodeMetadata(e.type, m.meta[e.type]))]
    [] e.kind = "Created"    ->
         [EmptyMachine EXCEPT !.coa = Put(<<>>, e.code, EncodeAccount(m.coa[e.code]))]
    [] e.kind = "Recorded"   ->
         [done |-> {e.id},
          coa  |-> [n \in {e.lines[i].code : i \in DOMAIN e.lines} |-> EncodeAccount(m.coa[n])],
          meta |-> <<>>]

-----------------------------------------------------------------------------
(* Reference definitions the properties compare with                       *)

\* An account's share of the trial balance: debits count up, credits down.
Signed(a) == IF a.type \in DebitNormal THEN a.balance ELSE -a.balance

TrialBalance(coa) == Wrap(MapThenSumSet(LAMBDA n : Signed(coa[n]), DOMAIN coa))

=============================================================================
