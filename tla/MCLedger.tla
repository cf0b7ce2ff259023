------------------------------ MODULE MCLedger ------------------------------
(* Instances of LedgerNode for TLC: a debit-normal and a credit-normal      *)
(* account, amounts of two bits, and requests that meet every check.        *)
EXTENDS LedgerNode

Configure(type, low, high) ==
  [kind |-> "Configure", type |-> type, range |-> [low |-> low, high |-> high]]

Create(code, type, opening) ==
  [kind |-> "Create", code |-> code,
   account |-> [type |-> type, balance |-> opening, currency |-> "CNY"]]

Record(id, lines) == [kind |-> "Record", id |-> id, lines |-> lines]

Line(code, type, amount) == [code |-> code, type |-> type, amount |-> amount, currency |-> "CNY"]

MCCommands ==
  {Configure("Asset", 1, 2), Configure("Liability", 2, 3),
   Create(1, "Asset", 1), Create(3, "Liability", 0),
   Record("j1", <<Line(1, "Debit", 3), Line(3, "Credit", 3)>>),
   \* the debits add up to 5, which is 1 in two bits
   Record("j2", <<Line(1, "Debit", 3), Line(1, "Debit", 2), Line(1, "Credit", 1)>>),
   \* refused: not balanced, one-sided, of no type, in another currency
   Record("j3", <<Line(1, "Debit", 1), Line(1, "Credit", 2)>>),
   Record("j3", <<Line(1, "Credit", 0)>>),
   Record("j3", <<Line(1, "Debit", 0)>>),
   Record("j3", <<Line(1, "Unknown", 0)>>),
   Record("j3", <<[Line(1, "Debit", 0) EXCEPT !.currency = "USD"], Line(1, "Credit", 0)>>)}

\* The fewest commands that book an entry twice.
DedupCommands ==
  {Create(1, "Asset", 1), Record("j1", <<Line(1, "Debit", 2), Line(1, "Credit", 2)>>)}

=============================================================================
