---------------------------- MODULE LedgerProofs ----------------------------
(***************************************************************************)
(* What one replica of the ledger keeps, for every width, every batch      *)
(* size, every set of commands and every length of the log.                *)
(***************************************************************************)
EXTENDS LedgerNode, TLAPS

\* A leaf that names no prover is tried with SMT, with Zenon, and again with SMT and ever more time.
USE SMT, Zenon, SMTT(10), SMTT(20), SMTT(30), SMTT(40), SMTT(60)

-----------------------------------------------------------------------------
(* Induction and recursion                                                 *)

\* A set of natural numbers that is not empty has a least member. The lemmas that count take
\* this as a hypothesis; CountingHolds proves it before the theorems.
Counting == \A S \in SUBSET Nat : S # {} => \E n \in S : \A m \in S : n <= m

\* A set with 0 and, with i - 1, also i, for every i up to n, has the numbers up to n.
LEMMA Upwards ==
  ASSUME Counting, NEW n \in Nat, NEW P, 0 \in P, \A i \in 1..n : i - 1 \in P => i \in P
  PROVE  \A i \in 0..n : i \in P
<1> DEFINE Bad == {i \in 0..n : i \notin P}
<1> SUFFICES ASSUME Bad # {} PROVE FALSE
  OBVIOUS
<1>1. PICK k \in Bad : \A m \in Bad : k <= m
  <2>1. Bad \in SUBSET Nat
    OBVIOUS
  <2> HIDE DEF Bad
  <2> QED
    BY Zenon, <2>1 DEF Counting
<1>2. k \in 1..n /\ k - 1 \in 0..n /\ k \notin P
  <2>1. k # 0
    OBVIOUS
  <2> QED
    BY <2>1
<1>3. k - 1 \in P
  BY <1>1, <1>2
<1> QED
  BY <1>2, <1>3

\* f is what the recursive definition in ApplyLines says of the first n lines.
LinesRun(f, coa, lines, n) ==
  f = [k \in 0..n |-> IF k = 0 THEN coa ELSE ApplyLine(f[k - 1], lines[k])]

\* There is such a function.
LEMMA LinesRunExists ==
  ASSUME Counting, NEW coa, NEW lines, NEW n \in Nat
  PROVE  \E f : LinesRun(f, coa, lines, n)
<1> DEFINE Bad == {k \in Nat : ~\E f : LinesRun(f, coa, lines, k)}
<1>1. ASSUME NEW k \in Bad, \A j \in Bad : k <= j PROVE FALSE
  <2>1. k \in Nat /\ ~\E f : LinesRun(f, coa, lines, k)
    OBVIOUS
  <2>2. CASE k = 0
    <3> DEFINE f == [i \in 0..0 |-> coa]
    <3>1. LinesRun(f, coa, lines, 0)
      BY DEF LinesRun
    <3> QED
      BY Zenon, <2>1, <2>2, <3>1
  <2>3. CASE k # 0
    <3>1. k - 1 \in Nat /\ k - 1 \notin Bad
      <4> HIDE DEF Bad
      <4> QED
        BY <1>1, <2>1, <2>3
    <3>2. PICK f : LinesRun(f, coa, lines, k - 1)
      BY Zenon, <3>1
    <3> HIDE DEF Bad
    <3> DEFINE last == ApplyLine(f[k - 1], lines[k])
               g == [i \in 0..k |-> IF i = k THEN last ELSE f[i]]
    <3>3. \A i \in 0..(k - 1) : f[i] = IF i = 0 THEN coa ELSE ApplyLine(f[i - 1], lines[i])
      BY Zenon, <3>2 DEF LinesRun
    <3>4. ASSUME NEW i \in 0..k PROVE g[i] = IF i = 0 THEN coa ELSE ApplyLine(g[i - 1], lines[i])
      <4>1. CASE i = k
        <5>1. g[i] = last /\ i # 0 /\ i - 1 \in 0..k /\ i - 1 # k
          <6> HIDE DEF last
          <6> QED
            BY <2>1, <2>3, <4>1
        <5>2. g[i - 1] = f[i - 1]
          BY Zenon, <5>1
        <5> QED
          BY Zenon, <4>1, <5>1, <5>2
      <4>2. CASE i # k
        <5>1. i \in 0..(k - 1) /\ (i # 0 => i - 1 \in 0..k /\ i - 1 # k)
          BY <2>1, <4>2
        <5>2. g[i] = f[i] /\ (i # 0 => g[i - 1] = f[i - 1])
          BY Zenon, <4>2, <5>1
        <5> QED
          BY Zenon, <3>3, <5>1, <5>2
      <4> QED
        BY <4>1, <4>2
    <3>5. LinesRun(g, coa, lines, k)
      <4>1. g = [i \in 0..k |-> g[i]]
        OBVIOUS
      <4> HIDE DEF g
      <4> QED
        BY Zenon, <3>4, <4>1 DEF LinesRun
    <3> QED
      BY Zenon, <2>1, <3>5
  <2> QED
    BY <2>2, <2>3
<1>2. Bad = {}
  <2>1. Bad \in SUBSET Nat
    OBVIOUS
  <2> HIDE DEF Bad
  <2> QED
    BY Zenon, <1>1, <2>1 DEF Counting
<1> QED
  BY Zenon, <1>2

\* ApplyLines is the last value of such a function.
LEMMA ApplyLinesIs ==
  ASSUME Counting, NEW coa, NEW lines, Len(lines) \in Nat
  PROVE  \E f : LinesRun(f, coa, lines, Len(lines)) /\ ApplyLines(coa, lines) = f[Len(lines)]
<1> DEFINE Is(f) == f = [k \in 0..Len(lines) |-> IF k = 0 THEN coa ELSE ApplyLine(f[k - 1], lines[k])]
           c == CHOOSE f : Is(f)
<1>1. PICK f : Is(f)
  <2>1. \E f : LinesRun(f, coa, lines, Len(lines))
    BY Zenon, LinesRunExists
  <2> QED
    BY Zenon, <2>1 DEF LinesRun
<1>2. Is(c)
  BY Zenon, <1>1
<1>3. ApplyLines(coa, lines) = c[Len(lines)]
  BY Zenon DEF ApplyLines
<1> QED
  BY Zenon, <1>2, <1>3 DEF LinesRun

\* f is what the recursive definition in Replay says of the first n entries.
ReplayRun(f, entries, n) ==
  f = [k \in 0..n |-> IF k = 0 THEN EmptyMachine ELSE ReplayEntry(f[k - 1], entries[k])]

\* There is such a function.
LEMMA ReplayRunExists ==
  ASSUME Counting, NEW entries, NEW n \in Nat
  PROVE  \E f : ReplayRun(f, entries, n)
<1> DEFINE Bad == {k \in Nat : ~\E f : ReplayRun(f, entries, k)}
<1>1. ASSUME NEW k \in Bad, \A j \in Bad : k <= j PROVE FALSE
  <2>1. k \in Nat /\ ~\E f : ReplayRun(f, entries, k)
    OBVIOUS
  <2>2. CASE k = 0
    <3> DEFINE f == [i \in 0..0 |-> EmptyMachine]
    <3>1. ReplayRun(f, entries, 0)
      BY DEF ReplayRun
    <3> QED
      BY Zenon, <2>1, <2>2, <3>1
  <2>3. CASE k # 0
    <3>1. k - 1 \in Nat /\ k - 1 \notin Bad
      <4> HIDE DEF Bad
      <4> QED
        BY <1>1, <2>1, <2>3
    <3>2. PICK f : ReplayRun(f, entries, k - 1)
      BY Zenon, <3>1
    <3> HIDE DEF Bad
    <3> DEFINE last == ReplayEntry(f[k - 1], entries[k])
               g == [i \in 0..k |-> IF i = k THEN last ELSE f[i]]
    <3>3. \A i \in 0..(k - 1) : f[i] = IF i = 0 THEN EmptyMachine ELSE ReplayEntry(f[i - 1], entries[i])
      BY Zenon, <3>2 DEF ReplayRun
    <3>4. ASSUME NEW i \in 0..k PROVE g[i] = IF i = 0 THEN EmptyMachine ELSE ReplayEntry(g[i - 1], entries[i])
      <4>1. CASE i = k
        <5>1. g[i] = last /\ i # 0 /\ i - 1 \in 0..k /\ i - 1 # k
          <6> HIDE DEF last
          <6> QED
            BY <2>1, <2>3, <4>1
        <5>2. g[i - 1] = f[i - 1]
          BY Zenon, <5>1
        <5> QED
          BY Zenon, <4>1, <5>1, <5>2
      <4>2. CASE i # k
        <5>1. i \in 0..(k - 1) /\ (i # 0 => i - 1 \in 0..k /\ i - 1 # k)
          BY <2>1, <4>2
        <5>2. g[i] = f[i] /\ (i # 0 => g[i - 1] = f[i - 1])
          BY Zenon, <4>2, <5>1
        <5> QED
          BY Zenon, <3>3, <5>1, <5>2
      <4> QED
        BY <4>1, <4>2
    <3>5. ReplayRun(g, entries, k)
      <4>1. g = [i \in 0..k |-> g[i]]
        OBVIOUS
      <4> HIDE DEF g
      <4> QED
        BY Zenon, <3>4, <4>1 DEF ReplayRun
    <3> QED
      BY Zenon, <2>1, <3>5
  <2> QED
    BY <2>2, <2>3
<1>2. Bad = {}
  <2>1. Bad \in SUBSET Nat
    OBVIOUS
  <2> HIDE DEF Bad
  <2> QED
    BY Zenon, <1>1, <2>1 DEF Counting
<1> QED
  BY Zenon, <1>2

\* Replay is the last value of such a function.
LEMMA ReplayIs ==
  ASSUME Counting, NEW entries, Len(entries) \in Nat
  PROVE  \E f : ReplayRun(f, entries, Len(entries)) /\ Replay(entries) = f[Len(entries)]
<1> DEFINE Is(f) == f = [k \in 0..Len(entries) |-> IF k = 0 THEN EmptyMachine ELSE ReplayEntry(f[k - 1], entries[k])]
           c == CHOOSE f : Is(f)
<1>1. PICK f : Is(f)
  <2>1. \E f : ReplayRun(f, entries, Len(entries))
    BY Zenon, ReplayRunExists
  <2> QED
    BY Zenon, <2>1 DEF ReplayRun
<1>2. Is(c)
  BY Zenon, <1>1
<1>3. Replay(entries) = c[Len(entries)]
  BY Zenon DEF Replay
<1> QED
  BY Zenon, <1>2, <1>3 DEF ReplayRun



\* Two sequences begin with the same n entries.
Agree(a, b, n) == \A i \in 1..n : a[i] = b[i]

\* The values of two such functions are the same as far as the entries are.
LEMMA ReplayRunsAgree ==
  ASSUME Counting, NEW a, NEW b, NEW f, NEW g, NEW n \in Nat, NEW k \in Nat, n <= k,
         ReplayRun(f, a, n), ReplayRun(g, b, k), Agree(a, b, n)
  PROVE  \A i \in 0..n : f[i] = g[i]
<1> DEFINE P == {i \in 0..n : f[i] = g[i]}
<1>1. \A i \in 0..n : f[i] = IF i = 0 THEN EmptyMachine ELSE ReplayEntry(f[i - 1], a[i])
  BY Zenon DEF ReplayRun
<1>2. \A i \in 0..k : g[i] = IF i = 0 THEN EmptyMachine ELSE ReplayEntry(g[i - 1], b[i])
  BY Zenon DEF ReplayRun
<1>3. 0 \in P
  <2>1. 0 \in 0..n /\ 0 \in 0..k
    OBVIOUS
  <2> QED
    BY Zenon, <1>1, <1>2, <2>1
<1>4. ASSUME NEW i \in 1..n, i - 1 \in P PROVE i \in P
  <2>1. i \in 0..n /\ i \in 0..k /\ i # 0
    OBVIOUS
  <2>2. f[i] = g[i]
    BY Zenon, <1>1, <1>2, <1>4, <2>1 DEF Agree
  <2> QED
    BY Zenon, <2>1, <2>2
<1>5. \A i \in 0..n : i \in P
  <2> HIDE DEF P
  <2> QED
    BY Zenon, <1>3, <1>4, Upwards
<1> QED
  BY Zenon, <1>5

\* The replay of one entry more applies that entry to the replay of the others.
LEMMA ReplayOneMore ==
  ASSUME Counting, NEW E, NEW a \in Seq(E), NEW b \in Seq(E), Len(b) = Len(a) + 1,
         Agree(a, b, Len(a))
  PROVE  Replay(b) = ReplayEntry(Replay(a), b[Len(b)])
<1>1. Len(a) \in Nat /\ Len(b) \in Nat /\ Len(a) <= Len(b) /\ Len(b) - 1 = Len(a)
      /\ Len(a) \in 0..Len(a) /\ Len(b) \in 0..Len(b) /\ Len(b) # 0 /\ Len(a) <= Len(a)
  OBVIOUS
<1>2. PICK f : ReplayRun(f, a, Len(a)) /\ Replay(a) = f[Len(a)]
  BY Zenon, <1>1, ReplayIs
<1>3. PICK g : ReplayRun(g, b, Len(b)) /\ Replay(b) = g[Len(b)]
  BY Zenon, <1>1, ReplayIs
<1>4. f[Len(a)] = g[Len(a)]
  <2>1. \A i \in 0..Len(a) : f[i] = g[i]
    BY <1>1, <1>2, <1>3, ReplayRunsAgree
  <2> QED
    BY Zenon, <1>1, <2>1
<1>5. g[Len(b)] = ReplayEntry(g[Len(b) - 1], b[Len(b)])
  BY Zenon, <1>1, <1>3 DEF ReplayRun
<1> QED
  BY Zenon, <1>1, <1>2, <1>3, <1>4, <1>5

\* Nothing replayed is the empty machine.
LEMMA ReplayNothing ==
  ASSUME Counting
  PROVE  Replay(<<>>) = EmptyMachine
<1>1. Len(<<>>) = 0 /\ 0 \in Nat /\ 0 \in 0..0
  OBVIOUS
<1>2. PICK f : ReplayRun(f, <<>>, Len(<<>>)) /\ Replay(<<>>) = f[Len(<<>>)]
  BY Zenon, <1>1, ReplayIs
<1> QED
  BY Zenon, <1>1, <1>2 DEF ReplayRun

-----------------------------------------------------------------------------
(* Logs and their prefixes                                                 *)

\* The machine that has applied the first n entries of a log.
At(l, n) == Replay(SubSeq(l, 1, n))

\* What SubSeq returns.
LEMMA PrefixFacts ==
  ASSUME NEW E, NEW l \in Seq(E), NEW n \in 0..Len(l)
  PROVE  /\ SubSeq(l, 1, n) \in Seq(E)
         /\ Len(SubSeq(l, 1, n)) = n
         /\ \A i \in 1..n : SubSeq(l, 1, n)[i] = l[i]
         /\ n = Len(l) => SubSeq(l, 1, n) = l
         /\ n = 0 => SubSeq(l, 1, n) = <<>>
OBVIOUS

\* Logs that are the same up to n have the same state there.
LEMMA AtAgrees ==
  ASSUME NEW E, NEW l \in Seq(E), NEW m \in Seq(E), NEW n \in Nat, n <= Len(l), n <= Len(m),
         Agree(l, m, n)
  PROVE  At(l, n) = At(m, n)
<1>1. SubSeq(l, 1, n) = SubSeq(m, 1, n)
  BY DEF Agree
<1> QED
  BY Zenon, <1>1 DEF At

\* One entry further.
LEMMA AtNext ==
  ASSUME Counting, NEW E, NEW l \in Seq(E), NEW n \in Nat, n < Len(l)
  PROVE  At(l, n + 1) = ReplayEntry(At(l, n), l[n + 1])
<1> DEFINE a == SubSeq(l, 1, n)
           b == SubSeq(l, 1, n + 1)
<1>1. n \in 0..Len(l) /\ n + 1 \in 0..Len(l) /\ n + 1 \in 1..(n + 1) /\ \A i \in 1..n : i \in 1..(n + 1)
  OBVIOUS
<1>2. a \in Seq(E) /\ Len(a) = n /\ \A i \in 1..n : a[i] = l[i]
  BY Zenon, <1>1, PrefixFacts
<1>3. b \in Seq(E) /\ Len(b) = n + 1 /\ \A i \in 1..(n + 1) : b[i] = l[i]
  BY Zenon, <1>1, PrefixFacts
<1> HIDE DEF a, b
<1>4. Replay(b) = ReplayEntry(Replay(a), b[Len(b)])
  <2>1. Agree(a, b, Len(a))
    BY Zenon, <1>1, <1>2, <1>3 DEF Agree
  <2> QED
    BY Zenon, <1>2, <1>3, <2>1, ReplayOneMore
<1> QED
  BY Zenon, <1>1, <1>3, <1>4 DEF At, a, b

\* The two ends.
LEMMA AtEnds ==
  ASSUME Counting, NEW E, NEW l \in Seq(E)
  PROVE  At(l, 0) = EmptyMachine /\ At(l, Len(l)) = Replay(l)
<1>1. 0 \in 0..Len(l) /\ Len(l) \in 0..Len(l)
  OBVIOUS
<1>2. SubSeq(l, 1, 0) = <<>> /\ SubSeq(l, 1, Len(l)) = l
  BY Zenon, <1>1, PrefixFacts
<1> QED
  BY Zenon, <1>2, ReplayNothing DEF At


-----------------------------------------------------------------------------
(* Charts of accounts                                                      *)

\* A map from nominal codes to accounts.
IsChart(coa) ==
  /\ coa = [n \in DOMAIN coa |-> coa[n]]
  /\ \A n \in DOMAIN coa : IsAccount(coa[n])

\* Both sides of an account change only its balance.
LEMMA ApplySideKeepsAccount ==
  ASSUME NEW a, IsAccount(a), NEW amount
  PROVE  IsAccount(ApplyDebit(a, amount)) /\ IsAccount(ApplyCredit(a, amount))
<1>1. ASSUME NEW b PROVE IsAccount([a EXCEPT !.balance = b])
  BY DEF IsAccount
<1> QED
  BY Zenon, <1>1 DEF ApplyDebit, ApplyCredit

\* A line changes an account of its own code only.
LEMMA ApplyLineKeepsChart ==
  ASSUME NEW coa, IsChart(coa), NEW l
  PROVE  /\ IsChart(ApplyLine(coa, l))
         /\ DOMAIN ApplyLine(coa, l) = DOMAIN coa
         /\ \A n \in DOMAIN coa : l.code # n => ApplyLine(coa, l)[n] = coa[n]
<1> DEFINE new == IF l.type = "Debit" THEN ApplyDebit(coa[l.code], l.amount)
                                      ELSE ApplyCredit(coa[l.code], l.amount)
<1>1. ApplyLine(coa, l) = [coa EXCEPT ![l.code] = new]
  BY Zenon DEF ApplyLine
<1>2. l.code \in DOMAIN coa => IsAccount(new)
  BY Zenon, ApplySideKeepsAccount DEF IsChart
<1> HIDE DEF new
<1> DEFINE c == [coa EXCEPT ![l.code] = new]
<1>3. /\ DOMAIN c = DOMAIN coa
      /\ c = [n \in DOMAIN c |-> c[n]]
      /\ \A n \in DOMAIN coa : c[n] = IF l.code = n THEN new ELSE coa[n]
  BY DEF IsChart
<1>4. \A n \in DOMAIN c : IsAccount(c[n])
  <2> HIDE DEF c
  <2> QED
    BY Zenon, <1>2, <1>3 DEF IsChart
<1> HIDE DEF c
<1>5. IsChart(c)
  BY Zenon, <1>3, <1>4 DEF IsChart
<1> QED
  BY Zenon, <1>1, <1>3, <1>5 DEF c

\* The lines of an entry change accounts of their own codes only.
LEMMA ApplyLinesKeepsChart ==
  ASSUME Counting, NEW coa, IsChart(coa), NEW lines, Len(lines) \in Nat
  PROVE  /\ IsChart(ApplyLines(coa, lines))
         /\ DOMAIN ApplyLines(coa, lines) = DOMAIN coa
         /\ \A n \in DOMAIN coa :
              (\A i \in 1..Len(lines) : lines[i].code # n) => ApplyLines(coa, lines)[n] = coa[n]
<1>1. PICK f : LinesRun(f, coa, lines, Len(lines)) /\ ApplyLines(coa, lines) = f[Len(lines)]
  BY Zenon, ApplyLinesIs
<1> DEFINE Good(k) == /\ IsChart(f[k])
                      /\ DOMAIN f[k] = DOMAIN coa
                      /\ \A n \in DOMAIN coa :
                           (\A i \in 1..Len(lines) : lines[i].code # n) => f[k][n] = coa[n]
           P == {k \in 0..Len(lines) : Good(k)}
<1>2. \A k \in 0..Len(lines) : f[k] = IF k = 0 THEN coa ELSE ApplyLine(f[k - 1], lines[k])
  BY Zenon, <1>1 DEF LinesRun
<1>3. 0 \in P
  <2>1. 0 \in 0..Len(lines)
    OBVIOUS
  <2>2. f[0] = coa
    BY Zenon, <1>2, <2>1
  <2> QED
    BY Zenon, <2>1, <2>2
<1>4. ASSUME NEW k \in 1..Len(lines), k - 1 \in P PROVE k \in P
  <2>1. k \in 0..Len(lines) /\ k # 0
    OBVIOUS
  <2>2. f[k] = ApplyLine(f[k - 1], lines[k])
    BY Zenon, <1>2, <2>1
  <2>3. Good(k - 1)
    BY Zenon, <1>4
  <2>4. /\ IsChart(f[k])
        /\ DOMAIN f[k] = DOMAIN f[k - 1]
        /\ \A n \in DOMAIN f[k - 1] : lines[k].code # n => f[k][n] = f[k - 1][n]
    <3>1. IsChart(f[k - 1])
      BY Zenon, <2>3
    <3> DEFINE c == f[k - 1]
               l == lines[k]
    <3>2. IsChart(c)
      BY Zenon, <3>1
    <3> HIDE DEF c, l
    <3>3. /\ IsChart(ApplyLine(c, l))
          /\ DOMAIN ApplyLine(c, l) = DOMAIN c
          /\ \A n \in DOMAIN c : l.code # n => ApplyLine(c, l)[n] = c[n]
      BY Zenon, <3>2, ApplyLineKeepsChart
    <3> QED
      BY Zenon, <2>2, <3>3 DEF c, l
  <2>5. Good(k)
    BY Zenon, <2>3, <2>4
  <2> QED
    BY Zenon, <2>1, <2>5
<1>5. \A k \in 0..Len(lines) : k \in P
  <2> HIDE DEF P
  <2> QED
    BY Zenon, <1>3, <1>4, Upwards
<1>6. Good(Len(lines))
  <2>1. Len(lines) \in 0..Len(lines)
    OBVIOUS
  <2> QED
    BY Zenon, <1>5, <2>1
<1> QED
  BY Zenon, <1>1, <1>6

-----------------------------------------------------------------------------
(* Encoding                                                                *)

\* The number of an account type leads back to the type.
LEMMA AccountTypeRoundTrip ==
  ASSUME NEW t \in DOMAIN AccountTypeCode
  PROVE  TypeOf(AccountTypeCode, AccountTypeCode[t]) = t
<1>1. DOMAIN AccountTypeCode
        = {"Unknown", "Asset", "Liability", "Capital", "Income", "CostOfGoodsSold", "Expense"}
  BY DEF AccountTypeCode
<1>2. \A s \in DOMAIN AccountTypeCode : AccountTypeCode[s] = AccountTypeCode[t] => s = t
  BY <1>1 DEF AccountTypeCode
<1>3. AccountTypeCode[t] \in Range(AccountTypeCode)
  BY Zenon DEF Range
<1> QED
  BY Zenon, <1>2, <1>3 DEF TypeOf

\* The number of a transaction type leads back to the type.
LEMMA TransactionTypeRoundTrip ==
  ASSUME NEW t \in DOMAIN TransactionTypeCode
  PROVE  TypeOf(TransactionTypeCode, TransactionTypeCode[t]) = t
<1>1. DOMAIN TransactionTypeCode = {"Unknown", "Debit", "Credit"}
  BY DEF TransactionTypeCode
<1>2. \A s \in DOMAIN TransactionTypeCode : TransactionTypeCode[s] = TransactionTypeCode[t] => s = t
  BY <1>1 DEF TransactionTypeCode
<1>3. TransactionTypeCode[t] \in Range(TransactionTypeCode)
  BY Zenon DEF Range
<1> QED
  BY Zenon, <1>2, <1>3 DEF TypeOf

\* What RocksDB holds of an account is read back as the account.
LEMMA AccountRoundTrip ==
  ASSUME NEW a, IsAccount(a)
  PROVE  InitAccount(EncodeAccount(a)) = a
<1>1. TypeOf(AccountTypeCode, AccountTypeCode[a.type]) = a.type
  BY Zenon, AccountTypeRoundTrip DEF IsAccount
<1>2. EncodeAccount(a).type = AccountTypeCode[a.type] /\ EncodeAccount(a).balance.value = a.balance
      /\ EncodeAccount(a).currency = a.currency
  BY DEF EncodeAccount, EncodeBalance
<1> QED
  BY Zenon, <1>1, <1>2 DEF InitAccount, IsAccount

\* So is a range.
LEMMA MetadataRoundTrip ==
  ASSUME NEW t, NEW r, IsRange(r)
  PROVE  InitMetadata(EncodeMetadata(t, r)) = r
<1>1. EncodeMetadata(t, r).low = r.low /\ EncodeMetadata(t, r).high = r.high
  BY DEF EncodeMetadata
<1> QED
  BY Zenon, <1>1 DEF InitMetadata, IsRange

\* And a line of an entry of the log.
LEMMA LineRoundTrip ==
  ASSUME NEW l, IsLine(l)
  PROVE  InitLine(EncodeLine(l)) = l
<1>1. TypeOf(TransactionTypeCode, TransactionTypeCode[l.type]) = l.type
  BY Zenon, TransactionTypeRoundTrip DEF IsLine
<1>2. EncodeLine(l).type = TransactionTypeCode[l.type] /\ EncodeLine(l).amount.value = l.amount
      /\ EncodeLine(l).currency = l.currency /\ EncodeLine(l).code = l.code
  BY DEF EncodeLine, EncodeAmount
<1> QED
  BY Zenon, <1>1, <1>2 DEF InitLine, IsLine


-----------------------------------------------------------------------------
(* Events                                                                  *)

\* The event that a command leads to when it is accepted.
EventOf(c) ==
  IF c.kind = "Configure" THEN [kind |-> "Configured", type |-> c.type, range |-> c.range]
  ELSE IF c.kind = "Create" THEN [kind |-> "Created", code |-> c.code, account |-> c.account]
  ELSE [kind |-> "Recorded", id |-> c.id, lines |-> c.lines]

\* The event that is read back from the log: a journal entry has lost its id.
Decoded(c) ==
  IF c.kind = "Record" THEN [kind |-> "Recorded", id |-> NoId, lines |-> c.lines] ELSE EventOf(c)

\* The fields of an event are those of the command.
IsEvent(e) ==
  \/ e.kind = "Configured" /\ IsRange(e.range)
  \/ e.kind = "Created" /\ IsAccount(e.account)
  \/ e.kind = "Recorded" /\ Len(e.lines) \in Nat /\ DOMAIN e.lines = 1..Len(e.lines)

\* A sequence of lines survives encoding.
LEMMA LinesRoundTrip ==
  ASSUME NEW lines, lines \in Seq(Range(lines)), \A l \in Range(lines) : IsLine(l)
  PROVE  LET p == [i \in DOMAIN lines |-> EncodeLine(lines[i])]
         IN  [i \in DOMAIN p |-> InitLine(p[i])] = lines
<1> DEFINE p == [i \in DOMAIN lines |-> EncodeLine(lines[i])]
<1>1. DOMAIN p = DOMAIN lines /\ \A i \in DOMAIN lines : p[i] = EncodeLine(lines[i])
  OBVIOUS
<1>2. \A i \in DOMAIN lines : IsLine(lines[i])
  BY Zenon DEF Range
<1>3. \A i \in DOMAIN lines : InitLine(p[i]) = lines[i]
  <2> HIDE DEF p
  <2> QED
    BY Zenon, <1>1, <1>2, LineRoundTrip
<1>4. lines = [i \in DOMAIN lines |-> lines[i]]
  OBVIOUS
<1> HIDE DEF p
<1>5. [i \in DOMAIN p |-> InitLine(p[i])] = lines
  BY Zenon, <1>1, <1>3, <1>4
<1> QED
  BY Zenon, <1>5 DEF p

\* What the event apply loop reads from the entry of a command.
LEMMA DecodeEncode ==
  ASSUME NEW c \in Commands
  PROVE  DecodeEventFromString(EncodeToString(EventOf(c))) = Decoded(c)
<1> DEFINE e == EventOf(c)
           s == EncodeToString(e)
<1>1. CASE c.kind = "Configure" /\ c.type \in DOMAIN AccountTypeCode /\ IsRange(c.range)
  <2>1. e = [kind |-> "Configured", type |-> c.type, range |-> c.range] /\ Decoded(c) = e
    BY <1>1 DEF EventOf, Decoded
  <2>2. e.kind = "Configured" /\ e.type = c.type /\ e.range = c.range
    BY <2>1
  <2> HIDE DEF e
  <2>3. s = [kind |-> "Configured", payload |-> EncodeConfigured(e)]
    BY <2>2 DEF EncodeToString
  <2>4. s.kind = "Configured" /\ s.payload = EncodeConfigured(e)
    BY <2>3
  <2> HIDE DEF s
  <2>5. DecodeEventFromString(s) = DecodeConfigured(s.payload)
    BY <2>4 DEF DecodeEventFromString
  <2>6. s.payload.metadata = EncodeMetadata(c.type, c.range)
    BY <2>2, <2>4 DEF EncodeConfigured
  <2>7. s.payload.metadata.type = AccountTypeCode[c.type]
    BY <2>6 DEF EncodeMetadata
  <2>8. DecodeConfigured(s.payload) = [kind |-> "Configured", type |-> c.type, range |-> c.range]
    BY Zenon, <1>1, <2>6, <2>7, AccountTypeRoundTrip, MetadataRoundTrip DEF DecodeConfigured
  <2> QED
    BY Zenon, <2>1, <2>5, <2>8 DEF s, e
<1>2. CASE c.kind = "Create" /\ IsAccount(c.account)
  <2>1. e = [kind |-> "Created", code |-> c.code, account |-> c.account] /\ Decoded(c) = e
    BY <1>2 DEF EventOf, Decoded
  <2>2. e.kind = "Created" /\ e.code = c.code /\ e.account = c.account
    BY <2>1
  <2> HIDE DEF e
  <2>3. s = [kind |-> "Created", payload |-> EncodeCreated(e)]
    BY <2>2 DEF EncodeToString
  <2>4. s.kind = "Created" /\ s.payload = EncodeCreated(e)
    BY <2>3
  <2> HIDE DEF s
  <2>5. DecodeEventFromString(s) = DecodeCreated(s.payload)
    BY <2>4 DEF DecodeEventFromString
  <2>6. s.payload.code = c.code /\ s.payload.account = EncodeAccount(c.account)
    BY <2>2, <2>4 DEF EncodeCreated
  <2>7. DecodeCreated(s.payload) = [kind |-> "Created", code |-> c.code, account |-> c.account]
    BY Zenon, <1>2, <2>6, AccountRoundTrip DEF DecodeCreated
  <2> QED
    BY Zenon, <2>1, <2>5, <2>7 DEF s, e
<1>3. CASE c.kind = "Record" /\ c.lines \in Seq(Range(c.lines)) /\ \A l \in Range(c.lines) : IsLine(l)
  <2>1. /\ e = [kind |-> "Recorded", id |-> c.id, lines |-> c.lines]
        /\ Decoded(c) = [kind |-> "Recorded", id |-> NoId, lines |-> c.lines]
    BY <1>3 DEF EventOf, Decoded
  <2>2. e.kind = "Recorded" /\ e.lines = c.lines
    BY <2>1
  <2> HIDE DEF e
  <2>3. s = [kind |-> "Recorded", payload |-> EncodeRecorded(e)]
    BY <2>2 DEF EncodeToString
  <2>4. s.kind = "Recorded" /\ s.payload = EncodeRecorded(e)
    BY <2>3
  <2> HIDE DEF s
  <2>5. DecodeEventFromString(s) = DecodeRecorded(s.payload)
    BY <2>4 DEF DecodeEventFromString
  <2> DEFINE p == [i \in DOMAIN c.lines |-> EncodeLine(c.lines[i])]
  <2>6. s.payload.entry = EncodeJournalEntry(e)
    BY <2>4 DEF EncodeRecorded
  <2>7. s.payload.entry.id = NoId /\ s.payload.entry.lines = p
    BY <2>2, <2>6 DEF EncodeJournalEntry
  <2>8. [i \in DOMAIN p |-> InitLine(p[i])] = c.lines
    BY Zenon, <1>3, LinesRoundTrip
  <2> HIDE DEF p
  <2>9. InitJournalEntry(s.payload.entry) = [id |-> NoId, lines |-> c.lines]
    BY Zenon, <2>7, <2>8 DEF InitJournalEntry
  <2>10. DecodeRecorded(s.payload) = [kind |-> "Recorded", id |-> NoId, lines |-> c.lines]
    BY <2>9 DEF DecodeRecorded
  <2> QED
    BY Zenon, <2>1, <2>5, <2>10 DEF s, e
<1> QED
  BY Zenon, <1>1, <1>2, <1>3, CommandsAssumption

\* Both are events.
LEMMA EventsOfCommands ==
  ASSUME NEW c \in Commands
  PROVE  IsEvent(EventOf(c)) /\ IsEvent(Decoded(c))
<1>1. CASE c.kind = "Configure" /\ IsRange(c.range)
  BY <1>1 DEF EventOf, Decoded, IsEvent
<1>2. CASE c.kind = "Create" /\ IsAccount(c.account)
  BY <1>2 DEF EventOf, Decoded, IsEvent
<1>3. CASE c.kind = "Record" /\ c.lines \in Seq(Range(c.lines))
  <2>1. Len(c.lines) \in Nat /\ DOMAIN c.lines = 1..Len(c.lines)
    BY <1>3
  <2> QED
    BY <1>3, <2>1 DEF EventOf, Decoded, IsEvent
<1> QED
  BY Zenon, <1>1, <1>2, <1>3, CommandsAssumption

\* A command that is accepted leads to its event; a journal entry is accepted only if the
\* done map does not have its id.
LEMMA ProcessEmits ==
  ASSUME NEW c \in Commands, NEW m, NEW persisted, Process(c, m, persisted).event # NoEvent
  PROVE  /\ Process(c, m, persisted).event = EventOf(c)
         /\ c.kind = "Record" => c.id \notin m.done
<1>0. \A code, e : Hint(code, e).event = e
  BY Zenon DEF Hint
<1>1. CASE c.kind = "Configure"
  <2>1. Process(c, m, persisted) = ProcessConfigure(c, m)
    BY <1>1 DEF Process
  <2>2. EventOf(c) = [kind |-> "Configured", type |-> c.type, range |-> c.range] /\ c.kind # "Record"
    BY <1>1 DEF EventOf
  <2>3. ProcessConfigure(c, m).event \in {NoEvent, EventOf(c)}
    BY Zenon, <1>0, <2>2 DEF ProcessConfigure
  <2> QED
    BY Zenon, <2>1, <2>2, <2>3
<1>2. CASE c.kind = "Create"
  <2>1. Process(c, m, persisted) = ProcessCreate(c, m)
    BY <1>2 DEF Process
  <2>2. EventOf(c) = [kind |-> "Created", code |-> c.code, account |-> c.account] /\ c.kind # "Record"
    BY <1>2 DEF EventOf
  <2>3. ProcessCreate(c, m).event \in {NoEvent, EventOf(c)}
    BY Zenon, <1>0, <2>2 DEF ProcessCreate
  <2> QED
    BY Zenon, <2>1, <2>2, <2>3
<1>3. CASE c.kind = "Record"
  <2>1. Process(c, m, persisted) = ProcessRecord(c, m, persisted)
    BY <1>3 DEF Process
  <2>2. EventOf(c) = [kind |-> "Recorded", id |-> c.id, lines |-> c.lines]
    BY <1>3 DEF EventOf
  <2>3. c.id \notin m.done \cup persisted
    BY Zenon, <1>0, <2>1 DEF ProcessRecord
  <2>4. ProcessRecord(c, m, persisted).event \in {NoEvent, EventOf(c)}
    BY Zenon, <1>0, <2>2 DEF ProcessRecord
  <2> QED
    BY Zenon, <2>1, <2>3, <2>4
<1> QED
  BY Zenon, <1>1, <1>2, <1>3, CommandsAssumption


-----------------------------------------------------------------------------
(* Machines                                                                *)

\* A map from account types to ranges of nominal codes.
IsMeta(meta) ==
  /\ meta = [t \in DOMAIN meta |-> meta[t]]
  /\ \A t \in DOMAIN meta : IsRange(meta[t])

IsMachine(m) ==
  /\ m = [done |-> m.done, coa |-> m.coa, meta |-> m.meta]
  /\ IsChart(m.coa)
  /\ IsMeta(m.meta)

\* What apply does to each of the three maps.
NewDone(e, done) == IF e.kind = "Recorded" THEN done \cup {e.id} ELSE done
NewCoa(e, coa) ==
  IF e.kind = "Created" THEN Put(coa, e.code, e.account)
  ELSE IF e.kind = "Recorded" THEN ApplyLines(coa, e.lines) ELSE coa
NewMeta(e, meta) == IF e.kind = "Configured" THEN Put(meta, e.type, e.range) ELSE meta

\* Apply changes each map by itself.
LEMMA ApplyIs ==
  ASSUME NEW e, IsEvent(e), NEW m, IsMachine(m)
  PROVE  Apply(e, m) = [done |-> NewDone(e, m.done), coa |-> NewCoa(e, m.coa), meta |-> NewMeta(e, m.meta)]
<1> DEFINE d == m.done
           coa == m.coa
           meta == m.meta
<1>1. m = [done |-> d, coa |-> coa, meta |-> meta]
  BY Zenon DEF IsMachine
<1> HIDE DEF d, coa, meta
<1>2. CASE e.kind = "Configured"
  <2>1. Apply(e, m) = [m EXCEPT !.meta = Put(@, e.type, e.range)]
    BY <1>2 DEF Apply
  <2>2. Apply(e, m) = [done |-> d, coa |-> coa, meta |-> Put(meta, e.type, e.range)]
    BY <1>1, <2>1
  <2>3. NewDone(e, d) = d /\ NewCoa(e, coa) = coa /\ NewMeta(e, meta) = Put(meta, e.type, e.range)
    BY <1>2 DEF NewDone, NewCoa, NewMeta
  <2> QED
    BY Zenon, <2>2, <2>3 DEF d, coa, meta
<1>3. CASE e.kind = "Created"
  <2>1. Apply(e, m) = [m EXCEPT !.coa = Put(@, e.code, e.account)]
    BY <1>3 DEF Apply
  <2>2. Apply(e, m) = [done |-> d, coa |-> Put(coa, e.code, e.account), meta |-> meta]
    BY <1>1, <2>1
  <2>3. NewDone(e, d) = d /\ NewCoa(e, coa) = Put(coa, e.code, e.account) /\ NewMeta(e, meta) = meta
    BY <1>3 DEF NewDone, NewCoa, NewMeta
  <2> QED
    BY Zenon, <2>2, <2>3 DEF d, coa, meta
<1>4. CASE e.kind = "Recorded"
  <2>1. Apply(e, m) = [m EXCEPT !.done = @ \cup {e.id}, !.coa = ApplyLines(@, e.lines)]
    BY <1>4 DEF Apply
  <2>2. Apply(e, m) = [done |-> d \cup {e.id}, coa |-> ApplyLines(coa, e.lines), meta |-> meta]
    BY <1>1, <2>1
  <2>3. NewDone(e, d) = d \cup {e.id} /\ NewCoa(e, coa) = ApplyLines(coa, e.lines) /\ NewMeta(e, meta) = meta
    BY <1>4 DEF NewDone, NewCoa, NewMeta
  <2> QED
    BY Zenon, <2>2, <2>3 DEF d, coa, meta
<1> QED
  BY Zenon, <1>2, <1>3, <1>4 DEF IsEvent

\* An account created is one more account of a chart.
LEMMA PutKeepsChart ==
  ASSUME NEW coa, IsChart(coa), NEW n, NEW a, IsAccount(a)
  PROVE  IsChart(Put(coa, n, a))
<1> DEFINE c == Put(coa, n, a)
<1>1. /\ DOMAIN c = DOMAIN coa \cup {n}
      /\ c = [x \in DOMAIN c |-> c[x]]
      /\ c[n] = a
      /\ \A x \in DOMAIN coa : x # n => c[x] = coa[x]
  BY DEF Put
<1> HIDE DEF c
<1>2. \A x \in DOMAIN c : IsAccount(c[x])
  BY Zenon, <1>1 DEF IsChart
<1>3. IsChart(c)
  BY Zenon, <1>1, <1>2 DEF IsChart
<1> QED
  BY Zenon, <1>3 DEF c

\* A range configured is one more range.
LEMMA PutKeepsMeta ==
  ASSUME NEW meta, IsMeta(meta), NEW t, NEW r, IsRange(r)
  PROVE  IsMeta(Put(meta, t, r))
<1> DEFINE c == Put(meta, t, r)
<1>1. /\ DOMAIN c = DOMAIN meta \cup {t}
      /\ c = [x \in DOMAIN c |-> c[x]]
      /\ c[t] = r
      /\ \A x \in DOMAIN meta : x # t => c[x] = meta[x]
  BY DEF Put
<1> HIDE DEF c
<1>2. \A x \in DOMAIN c : IsRange(c[x])
  BY Zenon, <1>1 DEF IsMeta
<1>3. IsMeta(c)
  BY Zenon, <1>1, <1>2 DEF IsMeta
<1> QED
  BY Zenon, <1>3 DEF c

\* An event leaves charts and ranges well formed.
LEMMA NewMapsAreMaps ==
  ASSUME Counting, NEW e, IsEvent(e), NEW coa, IsChart(coa), NEW meta, IsMeta(meta)
  PROVE  IsChart(NewCoa(e, coa)) /\ IsMeta(NewMeta(e, meta))
<1>1. CASE e.kind = "Configured" /\ IsRange(e.range)
  <2>1. NewCoa(e, coa) = coa /\ NewMeta(e, meta) = Put(meta, e.type, e.range)
    BY <1>1 DEF NewCoa, NewMeta
  <2> QED
    BY Zenon, <1>1, <2>1, PutKeepsMeta
<1>2. CASE e.kind = "Created" /\ IsAccount(e.account)
  <2>1. NewCoa(e, coa) = Put(coa, e.code, e.account) /\ NewMeta(e, meta) = meta
    BY <1>2 DEF NewCoa, NewMeta
  <2> QED
    BY Zenon, <1>2, <2>1, PutKeepsChart
<1>3. CASE e.kind = "Recorded" /\ Len(e.lines) \in Nat
  <2>1. NewCoa(e, coa) = ApplyLines(coa, e.lines) /\ NewMeta(e, meta) = meta
    BY <1>3 DEF NewCoa, NewMeta
  <2>2. IsChart(ApplyLines(coa, e.lines))
    BY Zenon, <1>3, ApplyLinesKeepsChart
  <2> QED
    BY Zenon, <2>1, <2>2
<1> QED
  BY Zenon, <1>1, <1>2, <1>3 DEF IsEvent

\* An event leaves a machine well formed.
LEMMA ApplyKeepsMachine ==
  ASSUME Counting, NEW e, IsEvent(e), NEW m, IsMachine(m)
  PROVE  /\ IsMachine(Apply(e, m))
         /\ Apply(e, m).done = NewDone(e, m.done)
         /\ Apply(e, m).coa = NewCoa(e, m.coa)
         /\ Apply(e, m).meta = NewMeta(e, m.meta)
<1> DEFINE d == NewDone(e, m.done)
           coa == NewCoa(e, m.coa)
           meta == NewMeta(e, m.meta)
           r == Apply(e, m)
<1>1. r = [done |-> d, coa |-> coa, meta |-> meta]
  BY Zenon, ApplyIs
<1>2. IsChart(coa) /\ IsMeta(meta)
  BY Zenon, NewMapsAreMaps DEF IsMachine
<1> HIDE DEF d, coa, meta, r
<1>3. r.done = d /\ r.coa = coa /\ r.meta = meta
  BY <1>1
<1>4. IsMachine(r)
  BY Zenon, <1>1, <1>2, <1>3 DEF IsMachine
<1> QED
  BY Zenon, <1>3, <1>4 DEF d, coa, meta, r

\* The machine of a replica that has applied nothing.
LEMMA EmptyMachineIsMachine ==
  /\ IsMachine(EmptyMachine)
  /\ EmptyMachine.done = {} /\ EmptyMachine.coa = <<>> /\ EmptyMachine.meta = <<>>
<1>1. EmptyMachine.done = {} /\ EmptyMachine.coa = <<>> /\ EmptyMachine.meta = <<>>
  BY DEF EmptyMachine
<1>2. EmptyMachine = [done |-> EmptyMachine.done, coa |-> EmptyMachine.coa, meta |-> EmptyMachine.meta]
  BY Zenon, <1>1 DEF EmptyMachine
<1>3. DOMAIN <<>> = {} /\ <<>> = [x \in DOMAIN <<>> |-> <<>>[x]]
  OBVIOUS
<1>4. IsChart(<<>>) /\ IsMeta(<<>>)
  BY Zenon, <1>3 DEF IsChart, IsMeta
<1> QED
  BY Zenon, <1>1, <1>2, <1>4 DEF IsMachine


-----------------------------------------------------------------------------
(* Columns of RocksDB                                                      *)

\* The maps of a machine as the columns hold them.
EncodeChart(coa) == [n \in DOMAIN coa |-> EncodeAccount(coa[n])]
EncodeRanges(meta) == [t \in DOMAIN meta |-> EncodeMetadata(t, meta[t])]

\* Maps with the same entries are equal.
LEMMA SameMap ==
  ASSUME NEW f, f = [x \in DOMAIN f |-> f[x]], NEW g, g = [x \in DOMAIN g |-> g[x]],
         DOMAIN f = DOMAIN g, \A x \in DOMAIN f : f[x] = g[x]
  PROVE  f = g
BY Zenon

\* Shadowing twice is shadowing by what shadows.
LEMMA OverlayTwice ==
  ASSUME NEW u, NEW v, NEW w
  PROVE  Overlay(u, Overlay(v, w)) = Overlay(Overlay(u, v), w)
BY DEF Overlay

\* Nothing shadows nothing.
LEMMA OverlayNothing ==
  ASSUME NEW u, u = [x \in DOMAIN u |-> u[x]]
  PROVE  Overlay(u, <<>>) = u
<1>1. DOMAIN <<>> = {}
  OBVIOUS
<1>2. /\ DOMAIN Overlay(u, <<>>) = DOMAIN u
      /\ Overlay(u, <<>>) = [x \in DOMAIN Overlay(u, <<>>) |-> Overlay(u, <<>>)[x]]
      /\ \A x \in DOMAIN u : Overlay(u, <<>>)[x] = u[x]
  BY <1>1 DEF Overlay
<1> QED
  BY Zenon, <1>2, SameMap

\* The column of accounts with one account more.
LEMMA EncodeChartPut ==
  ASSUME NEW coa, NEW n, NEW a
  PROVE  EncodeChart(Put(coa, n, a)) = Overlay(EncodeChart(coa), Put(<<>>, n, EncodeAccount(a)))
<1> DEFINE c == Put(coa, n, a)
           w == Put(<<>>, n, EncodeAccount(a))
           f == EncodeChart(c)
           u == EncodeChart(coa)
           g == Overlay(u, w)
<1>1. DOMAIN c = DOMAIN coa \cup {n} /\ c[n] = a /\ \A x \in DOMAIN coa : x # n => c[x] = coa[x]
  BY DEF Put
<1>2. DOMAIN w = {n} /\ w[n] = EncodeAccount(a)
  <2>1. DOMAIN <<>> = {}
    OBVIOUS
  <2> QED
    BY <2>1 DEF Put
<1>3. DOMAIN u = DOMAIN coa /\ \A x \in DOMAIN coa : u[x] = EncodeAccount(coa[x])
  BY DEF EncodeChart
<1>4. /\ DOMAIN f = DOMAIN c /\ f = [x \in DOMAIN f |-> f[x]]
      /\ \A x \in DOMAIN c : f[x] = EncodeAccount(c[x])
  <2> HIDE DEF c
  <2> QED
    BY DEF EncodeChart
<1>5. /\ DOMAIN g = DOMAIN u \cup DOMAIN w /\ g = [x \in DOMAIN g |-> g[x]]
      /\ \A x \in DOMAIN w : g[x] = w[x]
      /\ \A x \in DOMAIN u \ DOMAIN w : g[x] = u[x]
  <2> HIDE DEF u, w
  <2> QED
    BY DEF Overlay
<1> HIDE DEF c, w, f, u, g
<1>6. DOMAIN f = DOMAIN g /\ \A x \in DOMAIN f : f[x] = g[x]
  <2>1. DOMAIN f = DOMAIN coa \cup {n} /\ DOMAIN g = DOMAIN coa \cup {n}
    BY Zenon, <1>1, <1>2, <1>3, <1>4, <1>5
  <2>2. f[n] = g[n]
    BY Zenon, <1>1, <1>2, <1>4, <1>5
  <2>3. ASSUME NEW x \in DOMAIN coa, x # n PROVE f[x] = g[x]
    <3>1. x \in DOMAIN c /\ x \in DOMAIN u \ DOMAIN w /\ c[x] = coa[x]
      BY Zenon, <1>1, <1>2, <1>3, <2>3
    <3> QED
      BY Zenon, <1>3, <1>4, <1>5, <3>1
  <2> QED
    BY Zenon, <2>1, <2>2, <2>3
<1> QED
  BY Zenon, <1>4, <1>5, <1>6, SameMap DEF c, w, f, u, g

\* The column of ranges with one range more.
LEMMA EncodeRangesPut ==
  ASSUME NEW meta, NEW t, NEW r
  PROVE  EncodeRanges(Put(meta, t, r)) = Overlay(EncodeRanges(meta), Put(<<>>, t, EncodeMetadata(t, r)))
<1> DEFINE c == Put(meta, t, r)
           w == Put(<<>>, t, EncodeMetadata(t, r))
           f == EncodeRanges(c)
           u == EncodeRanges(meta)
           g == Overlay(u, w)
<1>1. DOMAIN c = DOMAIN meta \cup {t} /\ c[t] = r /\ \A x \in DOMAIN meta : x # t => c[x] = meta[x]
  BY DEF Put
<1>2. DOMAIN w = {t} /\ w[t] = EncodeMetadata(t, r)
  <2>1. DOMAIN <<>> = {}
    OBVIOUS
  <2> QED
    BY <2>1 DEF Put
<1>3. DOMAIN u = DOMAIN meta /\ \A x \in DOMAIN meta : u[x] = EncodeMetadata(x, meta[x])
  BY DEF EncodeRanges
<1>4. /\ DOMAIN f = DOMAIN c /\ f = [x \in DOMAIN f |-> f[x]]
      /\ \A x \in DOMAIN c : f[x] = EncodeMetadata(x, c[x])
  <2> HIDE DEF c
  <2> QED
    BY DEF EncodeRanges
<1>5. /\ DOMAIN g = DOMAIN u \cup DOMAIN w /\ g = [x \in DOMAIN g |-> g[x]]
      /\ \A x \in DOMAIN w : g[x] = w[x]
      /\ \A x \in DOMAIN u \ DOMAIN w : g[x] = u[x]
  <2> HIDE DEF u, w
  <2> QED
    BY DEF Overlay
<1> HIDE DEF c, w, f, u, g
<1>6. DOMAIN f = DOMAIN g /\ \A x \in DOMAIN f : f[x] = g[x]
  <2>1. DOMAIN f = DOMAIN meta \cup {t} /\ DOMAIN g = DOMAIN meta \cup {t}
    BY Zenon, <1>1, <1>2, <1>3, <1>4, <1>5
  <2>2. f[t] = g[t]
    BY Zenon, <1>1, <1>2, <1>4, <1>5
  <2>3. ASSUME NEW x \in DOMAIN meta, x # t PROVE f[x] = g[x]
    <3>1. x \in DOMAIN c /\ x \in DOMAIN u \ DOMAIN w /\ c[x] = meta[x]
      BY Zenon, <1>1, <1>2, <1>3, <2>3
    <3> QED
      BY Zenon, <1>3, <1>4, <1>5, <3>1
  <2> QED
    BY Zenon, <2>1, <2>2, <2>3
<1> QED
  BY Zenon, <1>4, <1>5, <1>6, SameMap DEF c, w, f, u, g

\* The column of accounts after the lines of a journal entry: only the accounts of the lines
\* are written, the others have not changed.
LEMMA EncodeChartLines ==
  ASSUME Counting, NEW coa, IsChart(coa), NEW lines, Len(lines) \in Nat, DOMAIN lines = 1..Len(lines),
         \A i \in DOMAIN lines : lines[i].code \in DOMAIN coa
  PROVE  LET c == ApplyLines(coa, lines)
             w == [n \in {lines[i].code : i \in DOMAIN lines} |-> EncodeAccount(c[n])]
         IN  EncodeChart(c) = Overlay(EncodeChart(coa), w)
<1> DEFINE c == ApplyLines(coa, lines)
           S == {lines[i].code : i \in DOMAIN lines}
           w == [n \in S |-> EncodeAccount(c[n])]
           f == EncodeChart(c)
           u == EncodeChart(coa)
           g == Overlay(u, w)
<1>1. /\ DOMAIN c = DOMAIN coa
      /\ \A n \in DOMAIN coa : (\A i \in 1..Len(lines) : lines[i].code # n) => c[n] = coa[n]
  BY Zenon, ApplyLinesKeepsChart
<1> HIDE DEF c
<1>2. S \subseteq DOMAIN coa /\ \A n \in DOMAIN coa : n \notin S => c[n] = coa[n]
  BY Zenon, <1>1
<1> HIDE DEF S
<1>3. DOMAIN w = S /\ \A n \in S : w[n] = EncodeAccount(c[n])
  BY Zenon
<1>4. DOMAIN u = DOMAIN coa /\ \A x \in DOMAIN coa : u[x] = EncodeAccount(coa[x])
  BY DEF EncodeChart
<1>5. /\ DOMAIN f = DOMAIN c /\ f = [x \in DOMAIN f |-> f[x]]
      /\ \A x \in DOMAIN c : f[x] = EncodeAccount(c[x])
  BY DEF EncodeChart
<1>6. /\ DOMAIN g = DOMAIN u \cup DOMAIN w /\ g = [x \in DOMAIN g |-> g[x]]
      /\ \A x \in DOMAIN w : g[x] = w[x]
      /\ \A x \in DOMAIN u \ DOMAIN w : g[x] = u[x]
  <2> HIDE DEF u, w
  <2> QED
    BY DEF Overlay
<1> HIDE DEF w, f, u, g
<1>7. DOMAIN f = DOMAIN g /\ \A x \in DOMAIN f : f[x] = g[x]
  <2>1. DOMAIN f = DOMAIN coa /\ DOMAIN g = DOMAIN coa
    BY Zenon, <1>1, <1>2, <1>3, <1>4, <1>5, <1>6
  <2>2. \A x \in DOMAIN coa : x \in S => f[x] = g[x]
    BY Zenon, <1>1, <1>3, <1>5, <1>6
  <2>3. ASSUME NEW x \in DOMAIN coa, x \notin S PROVE f[x] = g[x]
    <3>1. x \in DOMAIN c /\ x \in DOMAIN u \ DOMAIN w /\ c[x] = coa[x]
      BY Zenon, <1>1, <1>2, <1>3, <1>4, <2>3
    <3> QED
      BY Zenon, <1>4, <1>5, <1>6, <3>1
  <2> QED
    BY Zenon, <2>1, <2>2, <2>3
<1>8. f = g
  BY Zenon, <1>5, <1>6, <1>7, SameMap
<1> QED
  BY Zenon, <1>8 DEF c, S, w, f, u, g


\* The accounts of a journal entry exist, as the lookups of apply want it.
AccountsExist(e, coa) ==
  e.kind = "Recorded" => \A i \in DOMAIN e.lines : e.lines[i].code \in DOMAIN coa

\* What the columns hold when the writes of an event are put on top of them: the machine that
\* has applied the event.
LEMMA WritesFollowApply ==
  ASSUME Counting, NEW e, IsEvent(e), NEW coa, IsChart(coa), NEW meta, IsMeta(meta), NEW done,
         AccountsExist(e, coa), NEW m, m.coa = NewCoa(e, coa), m.meta = NewMeta(e, meta)
  PROVE  /\ done \cup Writes(e, m).done = NewDone(e, done)
         /\ Overlay(EncodeChart(coa), Writes(e, m).coa) = EncodeChart(NewCoa(e, coa))
         /\ Overlay(EncodeRanges(meta), Writes(e, m).meta) = EncodeRanges(NewMeta(e, meta))
<1> DEFINE w == Writes(e, m)
<1>0. /\ EncodeChart(coa) = [n \in DOMAIN EncodeChart(coa) |-> EncodeChart(coa)[n]]
      /\ EncodeRanges(meta) = [t \in DOMAIN EncodeRanges(meta) |-> EncodeRanges(meta)[t]]
  BY DEF EncodeChart, EncodeRanges
<1>00. /\ Overlay(EncodeChart(coa), <<>>) = EncodeChart(coa)
       /\ Overlay(EncodeRanges(meta), <<>>) = EncodeRanges(meta)
  BY Zenon, <1>0, OverlayNothing
<1>1. CASE e.kind = "Configured"
  <2> DEFINE p == Put(<<>>, e.type, EncodeMetadata(e.type, m.meta[e.type]))
  <2>1. w = [EmptyMachine EXCEPT !.meta = p]
    BY <1>1 DEF Writes
  <2>2. NewDone(e, done) = done /\ NewCoa(e, coa) = coa /\ NewMeta(e, meta) = Put(meta, e.type, e.range)
    BY <1>1 DEF NewDone, NewCoa, NewMeta
  <2>3. m.meta[e.type] = e.range
    BY <2>2 DEF Put
  <2>4. Overlay(EncodeRanges(meta), p) = EncodeRanges(NewMeta(e, meta))
    <3>1. EncodeRanges(Put(meta, e.type, e.range))
            = Overlay(EncodeRanges(meta), Put(<<>>, e.type, EncodeMetadata(e.type, e.range)))
      BY ZenonT(30), EncodeRangesPut
    <3> QED
      BY Zenon, <2>2, <2>3, <3>1
  <2> HIDE DEF p
  <2>5. w.done = {} /\ w.coa = <<>> /\ w.meta = p
    BY <2>1 DEF EmptyMachine
  <2> HIDE DEF w
  <2>6. done \cup {} = done
    OBVIOUS
  <2> QED
    BY Zenon, <1>00, <2>2, <2>4, <2>5, <2>6 DEF w
<1>2. CASE e.kind = "Created"
  <2> DEFINE p == Put(<<>>, e.code, EncodeAccount(m.coa[e.code]))
  <2>1. w = [EmptyMachine EXCEPT !.coa = p]
    BY <1>2 DEF Writes
  <2>2. NewDone(e, done) = done /\ NewCoa(e, coa) = Put(coa, e.code, e.account) /\ NewMeta(e, meta) = meta
    BY <1>2 DEF NewDone, NewCoa, NewMeta
  <2>3. m.coa[e.code] = e.account
    BY <2>2 DEF Put
  <2>4. Overlay(EncodeChart(coa), p) = EncodeChart(NewCoa(e, coa))
    <3>1. EncodeChart(Put(coa, e.code, e.account))
            = Overlay(EncodeChart(coa), Put(<<>>, e.code, EncodeAccount(e.account)))
      BY ZenonT(30), EncodeChartPut
    <3> QED
      BY Zenon, <2>2, <2>3, <3>1
  <2> HIDE DEF p
  <2>5. w.done = {} /\ w.coa = p /\ w.meta = <<>>
    BY <2>1 DEF EmptyMachine
  <2> HIDE DEF w
  <2>6. done \cup {} = done
    OBVIOUS
  <2> QED
    BY Zenon, <1>00, <2>2, <2>4, <2>5, <2>6 DEF w
<1>3. CASE e.kind = "Recorded" /\ Len(e.lines) \in Nat /\ DOMAIN e.lines = 1..Len(e.lines)
  <2> DEFINE p == [n \in {e.lines[i].code : i \in DOMAIN e.lines} |-> EncodeAccount(m.coa[n])]
  <2>1. w = [done |-> {e.id}, coa |-> p, meta |-> <<>>]
    BY <1>3 DEF Writes
  <2>2. /\ NewDone(e, done) = done \cup {e.id} /\ NewCoa(e, coa) = ApplyLines(coa, e.lines)
        /\ NewMeta(e, meta) = meta
    BY <1>3 DEF NewDone, NewCoa, NewMeta
  <2>3. Overlay(EncodeChart(coa), p) = EncodeChart(NewCoa(e, coa))
    <3> DEFINE lines == e.lines
    <3>1. /\ Len(lines) \in Nat /\ DOMAIN lines = 1..Len(lines)
          /\ \A i \in DOMAIN lines : lines[i].code \in DOMAIN coa
      BY Zenon, <1>3 DEF AccountsExist
    <3> HIDE DEF lines
    <3>2. EncodeChart(ApplyLines(coa, lines)) =
            Overlay(EncodeChart(coa),
                    [n \in {lines[i].code : i \in DOMAIN lines} |-> EncodeAccount(ApplyLines(coa, lines)[n])])
      BY Zenon, <3>1, EncodeChartLines
    <3> QED
      BY Zenon, <2>2, <3>2 DEF lines
  <2> HIDE DEF p
  <2>4. w.done = {e.id} /\ w.coa = p /\ w.meta = <<>>
    BY <2>1
  <2> HIDE DEF w
  <2> QED
    BY Zenon, <1>00, <2>2, <2>3, <2>4 DEF w
<1> QED
  BY Zenon, <1>1, <1>2, <1>3 DEF IsEvent

\* What is read from the columns of a machine are its maps.
LEMMA LoadEncoded ==
  ASSUME NEW d, NEW m, IsMachine(m), d.coa = EncodeChart(m.coa), d.meta = EncodeRanges(m.meta)
  PROVE  LoadFromRocksDB(d).done = {} /\ LoadFromRocksDB(d).coa = m.coa /\ LoadFromRocksDB(d).meta = m.meta
<1> DEFINE r == LoadFromRocksDB(d)
           a == [n \in DOMAIN d.coa |-> InitAccount(d.coa[n])]
           b == [t \in DOMAIN d.meta |-> InitMetadata(d.meta[t])]
<1>1. r.done = {} /\ r.coa = a /\ r.meta = b
  BY DEF LoadFromRocksDB
<1>2. a = m.coa
  <2>1. DOMAIN d.coa = DOMAIN m.coa /\ \A n \in DOMAIN m.coa : d.coa[n] = EncodeAccount(m.coa[n])
    BY DEF EncodeChart
  <2>2. \A n \in DOMAIN m.coa : InitAccount(d.coa[n]) = m.coa[n]
    BY Zenon, <2>1, AccountRoundTrip DEF IsMachine, IsChart
  <2> QED
    BY Zenon, <2>1, <2>2 DEF IsMachine, IsChart
<1>3. b = m.meta
  <2>1. DOMAIN d.meta = DOMAIN m.meta /\ \A t \in DOMAIN m.meta : d.meta[t] = EncodeMetadata(t, m.meta[t])
    BY DEF EncodeRanges
  <2>2. \A t \in DOMAIN m.meta : InitMetadata(d.meta[t]) = m.meta[t]
    <3>1. \A t \in DOMAIN m.meta : IsRange(m.meta[t])
      BY Zenon DEF IsMachine, IsMeta
    <3> TAKE t \in DOMAIN m.meta
    <3>2. InitMetadata(EncodeMetadata(t, m.meta[t])) = m.meta[t]
      BY Zenon, <3>1, MetadataRoundTrip
    <3> QED
      BY Zenon, <2>1, <3>2
  <2> QED
    BY Zenon, <2>1, <2>2 DEF IsMachine, IsMeta
<1> QED
  BY Zenon, <1>1, <1>2, <1>3

-----------------------------------------------------------------------------
(* The inductive invariant                                                 *)

\* What the log may hold: no-ops, and commands with the event each makes.
Entries == {Noop} \cup {Entry(c, EncodeToString(EventOf(c))) : c \in Commands}

\* The columns d, or those of d with the pending writes b on top, hold the machine m.
Holds(d, m) == d.done = m.done /\ d.coa = EncodeChart(m.coa) /\ d.meta = EncodeRanges(m.meta)
HoldsWith(d, b, m) ==
  /\ d.done \cup b.done = m.done
  /\ Overlay(d.coa, b.coa) = EncodeChart(m.coa)
  /\ Overlay(d.meta, b.meta) = EncodeRanges(m.meta)

\* Machines with the same accounts and ranges.  The ids are another matter: a journal entry
\* loses its id in the log, and loadFromRocksDB leaves the done map empty.
SameMaps(a, b) == a.coa = b.coa /\ a.meta = b.meta

\* The log holds entries, and the cursors are within its committed part.
LogOK ==
  /\ log \in Seq(Entries)
  /\ commitIndex \in 0..Len(log)
  /\ mLoadedIndex \in 0..commitIndex /\ db.index \in 0..commitIndex /\ batch.index \in 0..commitIndex

\* RocksDB holds the replay of the log up to its index.
DbOK == Holds(db, At(log, db.index))

\* The EAL has the replay of the log up to its cursor, and so has RocksDB once the batch is
\* written; since the last entry in the batch the EAL only met no-ops.
EalOK ==
  /\ mShouldRecover => batch = EmptyColumns /\ mLoadedIndex = 0
  /\ ~mShouldRecover =>
       /\ IsMachine(eal) /\ SameMaps(eal, At(log, mLoadedIndex))
       /\ HoldsWith(db, batch, At(log, mLoadedIndex))
       /\ batch.index # 0 => At(log, batch.index) = At(log, mLoadedIndex)
  /\ batch.index = 0 => batch = EmptyColumns

\* Entry i was booked in the leadership that ends the log l.
BookedLately(l, i) ==
  /\ ~l[i].noop /\ l[i].event.kind = "Recorded"
  /\ \A k \in i..Len(l) : ~l[k].noop

\* A CPL that accepts commands has the replay of the whole log, and the ids it has booked.
CplOK ==
  ready => /\ leading
           /\ mLastCommandId = Len(log)
           /\ IsMachine(cpl) /\ SameMaps(cpl, At(log, Len(log)))
           /\ \A i \in 1..Len(log) : BookedLately(log, i) => log[i].command.id \in cpl.done

LedgerInv == LogOK /\ DbOK /\ EalOK /\ CplOK /\ BookedOncePerLeadership

-----------------------------------------------------------------------------
(* Logs and their replays                                                  *)

\* What an entry of the log holds: a command, and a message that is read back as its event.
LEMMA EntryFacts ==
  ASSUME NEW x \in Entries, ~x.noop
  PROVE  \E c \in Commands : /\ x.command = c
                             /\ x.event.kind = EventOf(c).kind
                             /\ DecodeEventFromString(x.event) = Decoded(c)
<1>1. x # Noop
  BY DEF Noop
<1>2. PICK c \in Commands : x = Entry(c, EncodeToString(EventOf(c)))
  BY Zenon, <1>1 DEF Entries
<1>3. x.command = c /\ x.event = EncodeToString(EventOf(c))
  BY <1>2 DEF Entry
<1>4. EncodeToString(EventOf(c)).kind = EventOf(c).kind
  BY DEF EncodeToString
<1> QED
  BY Zenon, <1>3, <1>4, DecodeEncode

\* An entry that records a journal entry holds a Record command.
LEMMA RecordsAre ==
  ASSUME NEW x \in Entries, ~x.noop, x.event.kind = "Recorded"
  PROVE  x.command.kind = "Record"
<1>1. PICK c \in Commands : x.command = c /\ x.event.kind = EventOf(c).kind
  BY Zenon, EntryFacts
<1>2. c.kind = "Configure" \/ c.kind = "Create" \/ c.kind = "Record"
  BY Zenon, CommandsAssumption
<1>3. c.kind = "Configure" => EventOf(c).kind = "Configured"
  BY DEF EventOf
<1>4. c.kind = "Create" => EventOf(c).kind = "Created"
  BY DEF EventOf
<1>5. "Configured" # "Recorded" /\ "Created" # "Recorded"
  OBVIOUS
<1> QED
  BY Zenon, <1>1, <1>2, <1>3, <1>4, <1>5

\* One entry more, and the machine is still a machine.
LEMMA ReplayEntryKeepsMachine ==
  ASSUME Counting, NEW x \in Entries, NEW m, IsMachine(m)
  PROVE  IsMachine(ReplayEntry(m, x))
<1>1. CASE x.noop
  BY Zenon, <1>1 DEF ReplayEntry
<1>2. CASE ~x.noop
  <2>1. PICK c \in Commands : DecodeEventFromString(x.event) = Decoded(c)
    BY Zenon, <1>2, EntryFacts
  <2>2. IsEvent(Decoded(c))
    BY Zenon, EventsOfCommands
  <2>3. IsMachine(Apply(Decoded(c), m))
    BY Zenon, <2>2, ApplyKeepsMachine
  <2> QED
    BY Zenon, <1>2, <2>1, <2>3 DEF ReplayEntry
<1> QED
  BY Zenon, <1>1, <1>2

\* The replay of any part of a log is a machine.
LEMMA AtIsMachine ==
  ASSUME Counting, NEW l \in Seq(Entries), NEW k \in 0..Len(l)
  PROVE  IsMachine(At(l, k))
<1> DEFINE P == {i \in 0..Len(l) : IsMachine(At(l, i))}
<1>1. Len(l) \in Nat /\ \A i \in 1..Len(l) : l[i] \in Entries
  OBVIOUS
<1>2. 0 \in P
  <2>1. IsMachine(At(l, 0))
    BY Zenon, AtEnds, EmptyMachineIsMachine
  <2> QED
    BY <1>1, <2>1
<1>3. ASSUME NEW i \in 1..Len(l), i - 1 \in P PROVE i \in P
  <2> DEFINE j == i - 1
  <2>1. j \in Nat /\ j < Len(l) /\ j + 1 = i /\ i \in 0..Len(l)
    BY <1>1
  <2> HIDE DEF j
  <2>2. At(l, j + 1) = ReplayEntry(At(l, j), l[j + 1])
    BY Zenon, <2>1, AtNext
  <2>3. IsMachine(At(l, j))
    BY Zenon, <1>3 DEF j
  <2>4. IsMachine(At(l, i))
    BY Zenon, <1>1, <2>1, <2>2, <2>3, ReplayEntryKeepsMachine
  <2> QED
    BY Zenon, <2>1, <2>4
<1> HIDE DEF P
<1>4. \A i \in 0..Len(l) : i \in P
  BY Zenon, <1>1, <1>2, <1>3, Upwards
<1> QED
  BY Zenon, <1>4 DEF P

\* An entry is appended.
LEMMA LogGrows ==
  ASSUME Counting, NEW E, NEW l \in Seq(E), NEW x \in E
  PROVE  /\ Append(l, x) \in Seq(E) /\ Len(Append(l, x)) = Len(l) + 1
         /\ Append(l, x)[Len(l) + 1] = x
         /\ \A i \in 1..Len(l) : Append(l, x)[i] = l[i]
         /\ \A k \in 0..Len(l) : At(Append(l, x), k) = At(l, k)
         /\ At(Append(l, x), Len(l) + 1) = ReplayEntry(At(l, Len(l)), x)
<1> DEFINE m == Append(l, x)
<1>1. /\ m \in Seq(E) /\ Len(m) = Len(l) + 1 /\ m[Len(l) + 1] = x
      /\ \A i \in 1..Len(l) : m[i] = l[i]
  OBVIOUS
<1>2. Len(l) \in Nat /\ Len(l) < Len(m)
  BY <1>1
<1> HIDE DEF m
<1>3. ASSUME NEW k \in 0..Len(l) PROVE At(m, k) = At(l, k)
  <2>1. k \in Nat /\ k <= Len(l) /\ k <= Len(m) /\ Agree(m, l, k)
    BY <1>1, <1>2 DEF Agree
  <2> QED
    BY Zenon, <1>1, <2>1, AtAgrees
<1>4. At(m, Len(l) + 1) = ReplayEntry(At(m, Len(l)), m[Len(l) + 1])
  BY Zenon, <1>1, <1>2, AtNext
<1>5. Len(l) \in 0..Len(l)
  BY <1>2
<1> QED
  BY Zenon, <1>1, <1>3, <1>4, <1>5 DEF m

\* A suffix is dropped.
LEMMA LogShrinks ==
  ASSUME Counting, NEW E, NEW l \in Seq(E), NEW n \in 0..Len(l)
  PROVE  /\ SubSeq(l, 1, n) \in Seq(E) /\ Len(SubSeq(l, 1, n)) = n
         /\ \A i \in 1..n : SubSeq(l, 1, n)[i] = l[i]
         /\ \A k \in 0..n : At(SubSeq(l, 1, n), k) = At(l, k)
<1> DEFINE m == SubSeq(l, 1, n)
<1>1. m \in Seq(E) /\ Len(m) = n /\ \A i \in 1..n : m[i] = l[i]
  BY Zenon, PrefixFacts
<1> HIDE DEF m
<1>2. ASSUME NEW k \in 0..n PROVE At(m, k) = At(l, k)
  <2>1. k \in Nat /\ k <= Len(l) /\ k <= Len(m) /\ Agree(m, l, k)
    BY <1>1 DEF Agree
  <2> QED
    BY Zenon, <1>1, <2>1, AtAgrees
<1> QED
  BY Zenon, <1>1, <1>2 DEF m

-----------------------------------------------------------------------------
(* The steps of Raft                                                       *)

\* A step that changes the log above the commit index only keeps what RocksDB and the EAL hold.
LEMMA LogStepKeeps ==
  ASSUME LogOK, DbOK, EalOK, log' \in Seq(Entries), commitIndex' \in commitIndex..Len(log'),
         \A k \in 0..commitIndex : At(log', k) = At(log, k),
         UNCHANGED <<ealVars, batch, db>>
  PROVE  LogOK' /\ DbOK' /\ EalOK'
<1>1. /\ eal' = eal /\ mLoadedIndex' = mLoadedIndex /\ mShouldRecover' = mShouldRecover
      /\ batch' = batch /\ db' = db
  BY Zenon DEF ealVars
<1>2. /\ commitIndex \in Nat /\ Len(log') \in Nat /\ mLoadedIndex \in 0..commitIndex
      /\ db.index \in 0..commitIndex /\ batch.index \in 0..commitIndex
  BY DEF LogOK
<1>3. LogOK'
  BY <1>1, <1>2 DEF LogOK
<1>4. DbOK'
  BY Zenon, <1>1, <1>2 DEF DbOK
<1>5. EalOK'
  BY Zenon, <1>1, <1>2 DEF EalOK
<1> QED
  BY Zenon, <1>3, <1>4, <1>5

\* A log whose entries are some of the first entries of another books no more than that one.
LEMMA ShorterBooksOnce ==
  ASSUME BookedOncePerLeadership, log \in Seq(Entries), log' \in Seq(Entries),
         Len(log') <= Len(log), \A i \in 1..Len(log') : log'[i] = log[i]
  PROVE  BookedOncePerLeadership'
<1>1. /\ DOMAIN log = 1..Len(log) /\ DOMAIN log' = 1..Len(log')
      /\ Len(log) \in Nat /\ Len(log') \in Nat
  OBVIOUS
<1> SUFFICES ASSUME NEW i \in 1..Len(log'), NEW j \in 1..Len(log'), i < j, Records(i)', Records(j)',
                    \A k \in i..j : ~log'[k].noop
             PROVE  log'[i].command.id # log'[j].command.id
  BY Zenon, <1>1 DEF BookedOncePerLeadership
<1>2. i \in DOMAIN log /\ j \in DOMAIN log /\ \A k \in i..j : k \in 1..Len(log')
  BY <1>1
<1>3. log'[i] = log[i] /\ log'[j] = log[j] /\ \A k \in i..j : ~log[k].noop
  BY Zenon, <1>2
<1>4. Records(i) /\ Records(j)
  BY Zenon, <1>3 DEF Records
<1> QED
  BY Zenon, <1>2, <1>3, <1>4 DEF BookedOncePerLeadership

\* An entry more is booked once if the leadership has not booked it.
LEMMA LongerBooksOnce ==
  ASSUME BookedOncePerLeadership, log \in Seq(Entries), NEW x \in Entries, log' = Append(log, x),
         ~x.noop /\ x.event.kind = "Recorded" =>
            \A i \in 1..Len(log) : BookedLately(log, i) => log[i].command.id # x.command.id
  PROVE  BookedOncePerLeadership'
<1>1. /\ DOMAIN log = 1..Len(log) /\ DOMAIN log' = 1..(Len(log) + 1) /\ Len(log) \in Nat
      /\ log'[Len(log) + 1] = x /\ \A i \in 1..Len(log) : log'[i] = log[i]
  OBVIOUS
<1> SUFFICES ASSUME NEW i \in 1..(Len(log) + 1), NEW j \in 1..(Len(log) + 1), i < j,
                    Records(i)', Records(j)', \A k \in i..j : ~log'[k].noop
             PROVE  log'[i].command.id # log'[j].command.id
  BY ZenonT(30), <1>1 DEF BookedOncePerLeadership
<1>2. i \in 1..Len(log) /\ log'[i] = log[i] /\ Records(i)
  <2>1. i \in 1..Len(log)
    BY <1>1
  <2> QED
    BY Zenon, <1>1, <2>1 DEF Records
<1>3. CASE j \in 1..Len(log)
  <2>1. \A k \in i..j : k \in 1..Len(log)
    BY <1>1, <1>2, <1>3
  <2>2. log'[j] = log[j] /\ Records(j) /\ \A k \in i..j : ~log[k].noop
    BY Zenon, <1>1, <1>3, <2>1 DEF Records
  <2> QED
    BY Zenon, <1>1, <1>2, <1>3, <2>2 DEF BookedOncePerLeadership
<1>4. CASE j = Len(log) + 1
  <2>1. \A k \in i..Len(log) : k \in i..j /\ k \in 1..Len(log)
    BY <1>1, <1>2, <1>4
  <2>2. BookedLately(log, i)
    BY Zenon, <1>1, <1>2, <2>1 DEF BookedLately, Records
  <2>3. log'[j] = x
    BY Zenon, <1>1, <1>4
  <2>4. ~x.noop /\ x.event.kind = "Recorded"
    BY Zenon, <2>3 DEF Records
  <2> QED
    BY Zenon, <1>2, <2>2, <2>3, <2>4
<1>5. Len(log) \in Nat
  BY Zenon, <1>1
<1>6. j \in 1..Len(log) \/ j = Len(log) + 1
  BY ONLY <1>5, j \in 1..(Len(log) + 1)
<1> QED
  BY Zenon, <1>3, <1>4, <1>6

\* A leadership starts with a no-op.
LEMMA BecomeLeaderKeeps ==
  ASSUME Counting, LedgerInv, BecomeLeader
  PROVE  LedgerInv'
<1>1. /\ log' = Append(log, Noop) /\ commitIndex' = commitIndex /\ ready' = ready
      /\ ~leading /\ UNCHANGED <<ealVars, batch, db>>
  BY Zenon DEF BecomeLeader, cplVars
<1>2. LogOK /\ DbOK /\ EalOK /\ CplOK /\ BookedOncePerLeadership /\ log \in Seq(Entries)
  BY Zenon DEF LedgerInv, LogOK
<1>3. Noop \in Entries /\ Noop.noop
  BY DEF Entries, Noop
<1>4. /\ log' \in Seq(Entries) /\ Len(log') = Len(log) + 1
      /\ \A k \in 0..Len(log) : At(log', k) = At(log, k)
  <2> DEFINE x == Noop
  <2>1. x \in Entries
    BY Zenon, <1>3
  <2> HIDE DEF x
  <2>2. /\ Append(log, x) \in Seq(Entries) /\ Len(Append(log, x)) = Len(log) + 1
        /\ \A k \in 0..Len(log) : At(Append(log, x), k) = At(log, k)
    BY Zenon, <1>2, <2>1, LogGrows
  <2> QED
    BY Zenon, <1>1, <2>2 DEF x
<1>5. /\ commitIndex' \in commitIndex..Len(log')
      /\ \A k \in 0..commitIndex : k \in 0..Len(log)
  BY <1>1, <1>2, <1>4 DEF LogOK
<1>6. LogOK' /\ DbOK' /\ EalOK'
  BY Zenon, <1>1, <1>2, <1>4, <1>5, LogStepKeeps
<1>7. CplOK'
  BY Zenon, <1>1, <1>2 DEF CplOK
<1>8. BookedOncePerLeadership'
  BY Zenon, <1>1, <1>2, <1>3, LongerBooksOnce
<1> QED
  BY Zenon, <1>6, <1>7, <1>8 DEF LedgerInv

\* The commit index advances.
LEMMA AdvanceKeeps ==
  ASSUME Counting, LedgerInv, AdvanceCommitIndex
  PROVE  LedgerInv'
<1>1. /\ log' = log /\ commitIndex' = commitIndex + 1 /\ commitIndex < Len(log) /\ leading' = leading
      /\ UNCHANGED cplVars /\ UNCHANGED <<ealVars, batch, db>>
  BY Zenon DEF AdvanceCommitIndex
<1>2. LogOK /\ DbOK /\ EalOK /\ CplOK /\ BookedOncePerLeadership /\ log' \in Seq(Entries)
  BY Zenon, <1>1 DEF LedgerInv, LogOK
<1>3. commitIndex' \in commitIndex..Len(log') /\ \A k \in 0..commitIndex : At(log', k) = At(log, k)
  BY <1>1, <1>2 DEF LogOK
<1>4. LogOK' /\ DbOK' /\ EalOK'
  BY Zenon, <1>1, <1>2, <1>3, LogStepKeeps
<1>5. CplOK'
  BY Zenon, <1>1, <1>2 DEF CplOK, cplVars
<1>6. BookedOncePerLeadership'
  BY Zenon, <1>1, <1>2 DEF BookedOncePerLeadership, Records
<1> QED
  BY Zenon, <1>4, <1>5, <1>6 DEF LedgerInv

\* A leadership is lost, and part of the log above the commit index with it.
LEMMA StepDownKeeps ==
  ASSUME Counting, LedgerInv, StepDown
  PROVE  LedgerInv'
<1>1. /\ commitIndex' = commitIndex /\ ~ready' /\ UNCHANGED <<ealVars, batch, db>>
  BY Zenon DEF StepDown
<1>2. PICK n \in commitIndex..Len(log) : log' = SubSeq(log, 1, n)
  BY Zenon DEF StepDown
<1>3. LogOK /\ DbOK /\ EalOK /\ BookedOncePerLeadership /\ log \in Seq(Entries)
  BY Zenon DEF LedgerInv, LogOK
<1>4. /\ n \in 0..Len(log) /\ n <= Len(log) /\ commitIndex \in commitIndex..n
      /\ \A k \in 0..commitIndex : k \in 0..n
  BY <1>3 DEF LogOK
<1>5. /\ log' \in Seq(Entries) /\ Len(log') = n /\ \A i \in 1..n : log'[i] = log[i]
      /\ \A k \in 0..n : At(log', k) = At(log, k)
  BY Zenon, <1>2, <1>3, <1>4, LogShrinks
<1>6. LogOK' /\ DbOK' /\ EalOK'
  BY Zenon, <1>1, <1>3, <1>4, <1>5, LogStepKeeps
<1>7. CplOK'
  BY Zenon, <1>1 DEF CplOK
<1>8. BookedOncePerLeadership'
  BY Zenon, <1>3, <1>4, <1>5, ShorterBooksOnce
<1> QED
  BY Zenon, <1>6, <1>7, <1>8 DEF LedgerInv

-----------------------------------------------------------------------------
(* The steps of the command process loop                                   *)

\* The fields of empty columns.
LEMMA EmptyColumnsAre ==
  /\ EmptyColumns.done = {} /\ EmptyColumns.coa = <<>> /\ EmptyColumns.meta = <<>>
  /\ EmptyColumns.index = 0
BY DEF EmptyColumns

\* A write of the batch leaves RocksDB with what it held under the batch.
LEMMA FlushHolds ==
  ASSUME NEW d, NEW b, NEW m, HoldsWith(d, b, m), b.index # 0
  PROVE  Holds(FlushToRocksDB(d, b), m) /\ FlushToRocksDB(d, b).index = b.index
<1> DEFINE w == FlushToRocksDB(d, b)
<1>1. /\ w.done = d.done \cup b.done /\ w.coa = Overlay(d.coa, b.coa)
      /\ w.meta = Overlay(d.meta, b.meta) /\ w.index = b.index
  BY DEF FlushToRocksDB, PutAll
<1> HIDE DEF w
<1> QED
  BY Zenon, <1>1 DEF Holds, HoldsWith, w

\* A flush at any time leaves RocksDB with a replay of the log.
LEMMA FlushKeepsReplay ==
  ASSUME LogOK, DbOK, EalOK, ~mShouldRecover
  PROVE  LET d == FlushToRocksDB(db, batch)
         IN  Holds(d, At(log, d.index)) /\ d.index \in 0..commitIndex
<1> DEFINE d == FlushToRocksDB(db, batch)
<1>1. CASE batch.index = 0
  <2>1. d = db
    BY Zenon, <1>1 DEF FlushToRocksDB
  <2> HIDE DEF d
  <2> QED
    BY Zenon, <2>1 DEF LogOK, DbOK, d
<1>2. CASE batch.index # 0
  <2>1. HoldsWith(db, batch, At(log, batch.index)) /\ batch.index \in 0..commitIndex
    BY Zenon, <1>2 DEF EalOK, LogOK
  <2> QED
    BY Zenon, <1>2, <2>1, FlushHolds
<1> QED
  BY Zenon, <1>1, <1>2

\* Right after the no-op of a leadership nothing is booked in it.
LEMMA NothingBookedYet ==
  ASSUME log \in Seq(Entries), log # <<>>, log[Len(log)].noop, NEW i \in 1..Len(log)
  PROVE  ~BookedLately(log, i)
<1>1. Len(log) \in i..Len(log)
  OBVIOUS
<1> QED
  BY Zenon, <1>1 DEF BookedLately

\* The CPL takes the state of an EAL that has applied the whole log.
LEMMA OnBecomeLeaderKeeps ==
  ASSUME Counting, LedgerInv, OnBecomeLeader
  PROVE  LedgerInv'
<1>1. /\ leading /\ mLoadedIndex = commitIndex /\ commitIndex = Len(log)
      /\ log # <<>> /\ log[Len(log)].noop
      /\ mLastCommandId' = Len(log) /\ cpl' = eal /\ db' = FlushToRocksDB(db, batch)
      /\ batch' = EmptyColumns /\ mLoadedIndex' = 0 /\ mShouldRecover' = TRUE
      /\ log' = log /\ commitIndex' = commitIndex /\ leading' = leading
  BY Zenon DEF OnBecomeLeader, LeaderIsReady, raftVars
<1>2. LogOK /\ DbOK /\ EalOK /\ BookedOncePerLeadership /\ log \in Seq(Entries) /\ commitIndex \in Nat
  <2>1. LogOK /\ DbOK /\ EalOK /\ BookedOncePerLeadership
    BY Zenon DEF LedgerInv
  <2> QED
    BY <2>1 DEF LogOK
<1>3. ~mShouldRecover
  <2>1. Len(log) # 0
    BY <1>1, <1>2
  <2> QED
    BY Zenon, <1>1, <1>2, <2>1 DEF EalOK
<1>4. Holds(db', At(log, db'.index)) /\ db'.index \in 0..commitIndex
  BY Zenon, <1>1, <1>2, <1>3, FlushKeepsReplay
<1>5. batch'.index = 0
  BY Zenon, <1>1, EmptyColumnsAre
<1>6. LogOK'
  BY <1>1, <1>2, <1>4, <1>5 DEF LogOK
<1>7. DbOK'
  BY Zenon, <1>1, <1>4 DEF DbOK
<1>8. EalOK'
  BY Zenon, <1>1 DEF EalOK
<1>9. CplOK'
  <2>1. IsMachine(cpl') /\ SameMaps(cpl', At(log', Len(log')))
    BY Zenon, <1>1, <1>2, <1>3 DEF EalOK
  <2>2. \A i \in 1..Len(log') : ~BookedLately(log', i)
    BY Zenon, <1>1, <1>2, NothingBookedYet
  <2> QED
    BY Zenon, <1>1, <2>1, <2>2 DEF CplOK
<1>10. BookedOncePerLeadership'
  BY Zenon, <1>1, <1>2 DEF BookedOncePerLeadership, Records
<1> QED
  BY Zenon, <1>6, <1>7, <1>8, <1>9, <1>10 DEF LedgerInv

\* The id is all a journal entry loses: accounts and ranges change alike.
LEMMA DecodedActsAlike ==
  ASSUME NEW c \in Commands, NEW coa, NEW meta
  PROVE  /\ NewCoa(Decoded(c), coa) = NewCoa(EventOf(c), coa)
         /\ NewMeta(Decoded(c), meta) = NewMeta(EventOf(c), meta)
<1>1. CASE c.kind = "Record"
  <2> DEFINE d == Decoded(c)
             e == EventOf(c)
  <2>1. d.kind = "Recorded" /\ d.lines = c.lines
    BY <1>1 DEF Decoded
  <2>2. e.kind = "Recorded" /\ e.lines = c.lines
    BY <1>1 DEF EventOf
  <2>3. "Recorded" # "Created" /\ "Recorded" # "Configured"
    OBVIOUS
  <2> HIDE DEF d, e
  <2> QED
    BY Zenon, <2>1, <2>2, <2>3 DEF NewCoa, NewMeta, d, e
<1>2. CASE c.kind # "Record"
  BY Zenon, <1>2 DEF Decoded
<1> QED
  BY Zenon, <1>1, <1>2

\* A command is decided on the replay of the whole log, and its entry keeps it so.
LEMMA ProcessCommandKeeps ==
  ASSUME Counting, LedgerInv, NEW c \in Commands, ProcessCommand(c)
  PROVE  LedgerInv'
<1> DEFINE e == EventOf(c)
           x == Entry(c, EncodeToString(EventOf(c)))
           n == Len(log)
<1>1. /\ ready /\ Process(c, cpl, snapshotDone).event # NoEvent
      /\ cpl' = Apply(Process(c, cpl, snapshotDone).event, cpl)
      /\ mLastCommandId' = mLastCommandId + 1
      /\ log' = Append(log, Entry(c, EncodeToString(Process(c, cpl, snapshotDone).event)))
      /\ commitIndex' = commitIndex /\ leading' = leading /\ ready' = ready
      /\ UNCHANGED <<ealVars, batch, db>>
  BY Zenon DEF ProcessCommand
<1>2. Process(c, cpl, snapshotDone).event = e /\ (c.kind = "Record" => c.id \notin cpl.done)
  BY Zenon, <1>1, ProcessEmits
<1>3. cpl' = Apply(e, cpl) /\ log' = Append(log, x)
  BY Zenon, <1>1, <1>2
<1>4. LogOK /\ DbOK /\ EalOK /\ BookedOncePerLeadership /\ log \in Seq(Entries) /\ n \in Nat
  <2>1. LogOK /\ DbOK /\ EalOK /\ BookedOncePerLeadership
    BY Zenon DEF LedgerInv
  <2> QED
    BY <2>1 DEF LogOK
<1>5. /\ leading /\ mLastCommandId = n /\ IsMachine(cpl) /\ SameMaps(cpl, At(log, n))
      /\ \A i \in 1..n : BookedLately(log, i) => log[i].command.id \in cpl.done
  BY Zenon, <1>1 DEF LedgerInv, CplOK
<1>6. x \in Entries /\ ~x.noop /\ x.command = c /\ x.event.kind = e.kind
  <2>1. x \in Entries
    BY Zenon DEF Entries
  <2>2. ~x.noop /\ x.command = c /\ x.event = EncodeToString(EventOf(c))
    BY DEF Entry
  <2>3. EncodeToString(EventOf(c)).kind = e.kind
    BY DEF EncodeToString
  <2> QED
    BY Zenon, <2>1, <2>2, <2>3
<1>7. DecodeEventFromString(x.event) = Decoded(c)
  <2>1. x.event = EncodeToString(EventOf(c))
    BY DEF Entry
  <2> QED
    BY Zenon, <2>1, DecodeEncode
<1> HIDE DEF x
<1>8. /\ log' \in Seq(Entries) /\ Len(log') = n + 1 /\ log'[n + 1] = x
      /\ \A i \in 1..n : log'[i] = log[i]
      /\ \A k \in 0..n : At(log', k) = At(log, k)
      /\ At(log', n + 1) = ReplayEntry(At(log, n), x)
  <2>1. /\ Append(log, x) \in Seq(Entries) /\ Len(Append(log, x)) = Len(log) + 1
        /\ Append(log, x)[Len(log) + 1] = x
        /\ \A i \in 1..Len(log) : Append(log, x)[i] = log[i]
        /\ \A k \in 0..Len(log) : At(Append(log, x), k) = At(log, k)
        /\ At(Append(log, x), Len(log) + 1) = ReplayEntry(At(log, Len(log)), x)
    BY ZenonT(30), <1>4, <1>6, LogGrows
  <2> QED
    BY Zenon, <1>3, <2>1
<1>9. LogOK' /\ DbOK' /\ EalOK'
  <2>1. commitIndex' \in commitIndex..Len(log') /\ \A k \in 0..commitIndex : k \in 0..n
    BY <1>1, <1>4, <1>8 DEF LogOK
  <2> QED
    BY Zenon, <1>1, <1>4, <1>8, <2>1, LogStepKeeps
<1>10. IsEvent(e) /\ IsEvent(Decoded(c))
  BY Zenon, EventsOfCommands
<1>11. /\ IsMachine(cpl') /\ cpl'.done = NewDone(e, cpl.done)
       /\ cpl'.coa = NewCoa(e, cpl.coa) /\ cpl'.meta = NewMeta(e, cpl.meta)
  BY Zenon, <1>3, <1>5, <1>10, ApplyKeepsMachine
<1>12. SameMaps(cpl', At(log', n + 1))
  <2> DEFINE m == At(log, n)
  <2>1. IsMachine(m)
    <3>1. n \in 0..Len(log)
      BY <1>4
    <3> QED
      BY Zenon, <1>4, <3>1, AtIsMachine
  <2>2. At(log', n + 1) = Apply(Decoded(c), m)
    BY Zenon, <1>6, <1>7, <1>8 DEF ReplayEntry
  <2> HIDE DEF m
  <2>3. /\ Apply(Decoded(c), m).coa = NewCoa(Decoded(c), m.coa)
        /\ Apply(Decoded(c), m).meta = NewMeta(Decoded(c), m.meta)
    BY Zenon, <1>10, <2>1, ApplyKeepsMachine
  <2>4. /\ NewCoa(Decoded(c), m.coa) = NewCoa(e, m.coa)
        /\ NewMeta(Decoded(c), m.meta) = NewMeta(e, m.meta)
    BY Zenon, DecodedActsAlike
  <2>5. cpl.coa = m.coa /\ cpl.meta = m.meta
    BY Zenon, <1>5 DEF SameMaps, m
  <2> QED
    BY Zenon, <1>11, <2>2, <2>3, <2>4, <2>5 DEF SameMaps
<1>13. ASSUME NEW i \in 1..Len(log'), BookedLately(log', i)
       PROVE  log'[i].command.id \in cpl'.done
  <2>1. CASE i = n + 1
    <3>1. x.event.kind = "Recorded" /\ log'[i] = x
      BY Zenon, <1>8, <1>13, <2>1 DEF BookedLately
    <3>2. e.kind = "Recorded" /\ x.command.kind = "Record"
      BY Zenon, <1>6, <3>1, RecordsAre
    <3>3. e.id = c.id
      BY <1>6, <3>2 DEF EventOf
    <3> HIDE DEF e
    <3> QED
      BY Zenon, <1>6, <1>11, <3>1, <3>2, <3>3 DEF NewDone
  <2>2. CASE i \in 1..n
    <3>1. \A k \in i..n : k \in i..Len(log') /\ k \in 1..n
      BY <1>4, <1>8, <2>2
    <3>2. BookedLately(log, i)
      BY Zenon, <1>8, <1>13, <2>2, <3>1 DEF BookedLately
    <3>3. log[i].command.id \in cpl.done /\ log'[i] = log[i]
      BY Zenon, <1>5, <1>8, <2>2, <3>2
    <3>4. cpl.done \subseteq cpl'.done
      BY Zenon, <1>11 DEF NewDone
    <3> QED
      BY Zenon, <3>3, <3>4
  <2> QED
    BY <1>4, <1>8, <2>1, <2>2
<1>14. CplOK'
  <2>1. mLastCommandId' = Len(log') /\ leading'
    BY Zenon, <1>1, <1>5, <1>8
  <2>2. SameMaps(cpl', At(log', Len(log')))
    BY Zenon, <1>8, <1>12
  <2> QED
    BY Zenon, <1>11, <1>13, <2>1, <2>2 DEF CplOK
<1>15. BookedOncePerLeadership'
  <2>1. ASSUME x.event.kind = "Recorded", NEW i \in 1..n, BookedLately(log, i)
        PROVE  log[i].command.id # x.command.id
    <3>1. c.kind = "Record"
      BY Zenon, <1>6, <2>1, RecordsAre
    <3> QED
      BY Zenon, <1>2, <1>5, <1>6, <2>1, <3>1
  <2> QED
    BY Zenon, <1>3, <1>4, <1>6, <2>1, LongerBooksOnce
<1> QED
  BY Zenon, <1>9, <1>14, <1>15 DEF LedgerInv

-----------------------------------------------------------------------------
(* The steps of the event apply loop, and a restart                        *)

\* Columns that hold a machine hold it with nothing on top.
LEMMA HoldsWithNothing ==
  ASSUME NEW d, NEW m, Holds(d, m)
  PROVE  HoldsWith(d, EmptyColumns, m)
<1>1. /\ d.coa = [x \in DOMAIN d.coa |-> d.coa[x]]
      /\ d.meta = [x \in DOMAIN d.meta |-> d.meta[x]]
  BY DEF Holds, EncodeChart, EncodeRanges
<1>2. Overlay(d.coa, <<>>) = d.coa /\ Overlay(d.meta, <<>>) = d.meta
  BY Zenon, <1>1, OverlayNothing
<1>3. d.done \cup {} = d.done
  OBVIOUS
<1> QED
  BY Zenon, <1>2, <1>3, EmptyColumnsAre DEF Holds, HoldsWith

\* What recoverSelf loads from RocksDB is the replay of the log up to its index.
LEMMA RecoveryLoadsReplay ==
  ASSUME Counting, LogOK, DbOK
  PROVE  /\ IsMachine(LoadFromRocksDB(db))
         /\ SameMaps(LoadFromRocksDB(db), At(log, db.index))
         /\ HoldsWith(db, EmptyColumns, At(log, db.index))
<1> DEFINE m == At(log, db.index)
           r == LoadFromRocksDB(db)
<1>1. IsMachine(m)
  <2>1. log \in Seq(Entries) /\ db.index \in 0..Len(log)
    BY DEF LogOK
  <2> QED
    BY Zenon, <2>1, AtIsMachine
<1>2. Holds(db, m)
  BY Zenon DEF DbOK
<1>3. HoldsWith(db, EmptyColumns, m)
  BY Zenon, <1>2, HoldsWithNothing
<1> HIDE DEF m
<1>4. r.done = {} /\ r.coa = m.coa /\ r.meta = m.meta
  BY Zenon, <1>1, <1>2, LoadEncoded DEF Holds
<1>5. r = [done |-> r.done, coa |-> r.coa, meta |-> r.meta]
  BY DEF LoadFromRocksDB
<1> HIDE DEF r
<1>6. IsMachine(r)
  BY Zenon, <1>1, <1>4, <1>5 DEF IsMachine
<1> QED
  BY Zenon, <1>3, <1>4, <1>6 DEF SameMaps, m, r

\* The EAL starts again from RocksDB.
LEMMA RecoverSelfKeeps ==
  ASSUME Counting, LedgerInv, RecoverSelf
  PROVE  LedgerInv'
<1>1. /\ mShouldRecover /\ eal' = LoadFromRocksDB(db) /\ mLoadedIndex' = db.index
      /\ mShouldRecover' = FALSE /\ batch' = batch /\ db' = db
      /\ UNCHANGED raftVars /\ UNCHANGED cplVars
  BY Zenon DEF RecoverSelf
<1>2. LogOK /\ DbOK /\ EalOK /\ CplOK /\ BookedOncePerLeadership
  BY Zenon DEF LedgerInv
<1>3. batch = EmptyColumns /\ batch.index = 0
  BY Zenon, <1>1, <1>2, EmptyColumnsAre DEF EalOK
<1>4. LogOK'
  BY Zenon, <1>1, <1>2 DEF LogOK, raftVars
<1>5. DbOK'
  BY Zenon, <1>1, <1>2 DEF DbOK, raftVars
<1>6. EalOK'
  <2>1. log' = log
    BY Zenon, <1>1 DEF raftVars
  <2>2. IsMachine(eal') /\ SameMaps(eal', At(log', mLoadedIndex')) /\ HoldsWith(db', batch', At(log', mLoadedIndex'))
    BY Zenon, <1>1, <1>2, <1>3, <2>1, RecoveryLoadsReplay
  <2> QED
    BY Zenon, <1>1, <1>3, <2>2 DEF EalOK
<1>7. CplOK'
  BY Zenon, <1>1, <1>2 DEF CplOK, raftVars, cplVars
<1>8. BookedOncePerLeadership'
  BY Zenon, <1>1, <1>2 DEF BookedOncePerLeadership, Records, raftVars
<1> QED
  BY Zenon, <1>4, <1>5, <1>6, <1>7, <1>8 DEF LedgerInv

\* A restart does the same, with a log that may have lost what was not committed.
LEMMA RestartKeeps ==
  ASSUME Counting, LedgerInv, Restart
  PROVE  LedgerInv'
<1>1. /\ ~ready' /\ eal' = LoadFromRocksDB(db) /\ mLoadedIndex' = db.index
      /\ mShouldRecover' = FALSE /\ batch' = EmptyColumns /\ commitIndex' = commitIndex /\ db' = db
  BY Zenon DEF Restart
<1>2. PICK n \in commitIndex..Len(log) : log' = SubSeq(log, 1, n)
  BY Zenon DEF Restart
<1>3. LogOK /\ DbOK /\ BookedOncePerLeadership /\ log \in Seq(Entries)
  BY Zenon DEF LedgerInv, LogOK
<1>4. /\ n \in 0..Len(log) /\ n <= Len(log) /\ commitIndex \in 0..n /\ 0 \in 0..commitIndex
      /\ db.index \in 0..n /\ db.index \in 0..commitIndex
  BY <1>3 DEF LogOK
<1>5. /\ log' \in Seq(Entries) /\ Len(log') = n /\ \A i \in 1..n : log'[i] = log[i]
      /\ \A k \in 0..n : At(log', k) = At(log, k)
  BY Zenon, <1>2, <1>3, <1>4, LogShrinks
<1>6. At(log', db.index) = At(log, db.index)
  BY Zenon, <1>4, <1>5
<1>7. batch'.index = 0
  BY Zenon, <1>1, EmptyColumnsAre
<1>8. LogOK'
  BY Zenon, <1>1, <1>4, <1>5, <1>7 DEF LogOK
<1>9. DbOK'
  BY Zenon, <1>1, <1>3, <1>6 DEF DbOK
<1>10. EalOK'
  <2>1. IsMachine(eal') /\ SameMaps(eal', At(log', mLoadedIndex')) /\ HoldsWith(db', batch', At(log', mLoadedIndex'))
    BY Zenon, <1>1, <1>3, <1>6, RecoveryLoadsReplay
  <2> QED
    BY Zenon, <1>1, <1>7, <2>1 DEF EalOK
<1>11. CplOK'
  BY Zenon, <1>1 DEF CplOK
<1>12. BookedOncePerLeadership'
  BY Zenon, <1>3, <1>4, <1>5, ShorterBooksOnce
<1> QED
  BY Zenon, <1>8, <1>9, <1>10, <1>11, <1>12 DEF LedgerInv

\* A no-op moves the cursor of the EAL and nothing else.
LEMMA SkipNoopKeeps ==
  ASSUME Counting, LedgerInv, SkipNoop
  PROVE  LedgerInv'
<1>1. /\ ~mShouldRecover /\ mLoadedIndex < commitIndex /\ log[mLoadedIndex + 1].noop
      /\ mLoadedIndex' = mLoadedIndex + 1 /\ eal' = eal /\ mShouldRecover' = mShouldRecover
      /\ batch' = batch /\ db' = db
      /\ UNCHANGED raftVars /\ UNCHANGED cplVars
  BY Zenon DEF SkipNoop
<1>2. LogOK /\ DbOK /\ EalOK /\ CplOK /\ BookedOncePerLeadership
  BY Zenon DEF LedgerInv
<1>3. log' = log /\ commitIndex' = commitIndex /\ leading' = leading
  BY Zenon, <1>1 DEF raftVars
<1>4. /\ log \in Seq(Entries) /\ mLoadedIndex \in Nat /\ mLoadedIndex < Len(log)
      /\ mLoadedIndex + 1 \in 0..commitIndex
  BY <1>1, <1>2 DEF LogOK
<1>5. At(log, mLoadedIndex + 1) = At(log, mLoadedIndex)
  <2>1. At(log, mLoadedIndex + 1) = ReplayEntry(At(log, mLoadedIndex), log[mLoadedIndex + 1])
    BY Zenon, <1>4, AtNext
  <2> QED
    BY Zenon, <1>1, <2>1 DEF ReplayEntry
<1>6. LogOK'
  BY Zenon, <1>1, <1>2, <1>3, <1>4 DEF LogOK
<1>7. DbOK'
  BY Zenon, <1>1, <1>2, <1>3 DEF DbOK
<1>8. EalOK'
  BY Zenon, <1>1, <1>2, <1>3, <1>5 DEF EalOK
<1>9. CplOK'
  BY Zenon, <1>1, <1>2, <1>3 DEF CplOK, cplVars
<1>10. BookedOncePerLeadership'
  BY Zenon, <1>2, <1>3 DEF BookedOncePerLeadership, Records
<1> QED
  BY Zenon, <1>6, <1>7, <1>8, <1>9, <1>10 DEF LedgerInv

\* The batch with the writes of one event more, on top of RocksDB, holds one event more.
LEMMA PutAllHolds ==
  ASSUME Counting, NEW d, NEW b, NEW m, IsMachine(m), HoldsWith(d, b, m), NEW e, IsEvent(e),
         AccountsExist(e, m.coa), NEW r, r.coa = NewCoa(e, m.coa), r.meta = NewMeta(e, m.meta), NEW i
  PROVE  HoldsWith(d, PutAll(b, Writes(e, r), i), Apply(e, m)) /\ PutAll(b, Writes(e, r), i).index = i
<1> DEFINE w == Writes(e, r)
           p == PutAll(b, w, i)
           a == Apply(e, m)
<1>1. /\ p.done = b.done \cup w.done /\ p.coa = Overlay(b.coa, w.coa)
      /\ p.meta = Overlay(b.meta, w.meta) /\ p.index = i
  <2> HIDE DEF w
  <2> QED
    BY DEF PutAll
<1>2. /\ m.done \cup w.done = NewDone(e, m.done)
      /\ Overlay(EncodeChart(m.coa), w.coa) = EncodeChart(NewCoa(e, m.coa))
      /\ Overlay(EncodeRanges(m.meta), w.meta) = EncodeRanges(NewMeta(e, m.meta))
  <2> DEFINE coa == m.coa
             meta == m.meta
             done == m.done
  <2>1. /\ IsChart(coa) /\ IsMeta(meta) /\ AccountsExist(e, coa)
        /\ r.coa = NewCoa(e, coa) /\ r.meta = NewMeta(e, meta)
    BY Zenon DEF IsMachine
  <2> HIDE DEF coa, meta, done
  <2>2. /\ done \cup w.done = NewDone(e, done)
        /\ Overlay(EncodeChart(coa), w.coa) = EncodeChart(NewCoa(e, coa))
        /\ Overlay(EncodeRanges(meta), w.meta) = EncodeRanges(NewMeta(e, meta))
    BY <2>1, WritesFollowApply
  <2> QED
    BY Zenon, <2>2 DEF coa, meta, done
<1>3. a.done = NewDone(e, m.done) /\ a.coa = NewCoa(e, m.coa) /\ a.meta = NewMeta(e, m.meta)
  BY Zenon, ApplyKeepsMachine
<1>4. /\ d.done \cup b.done = m.done /\ Overlay(d.coa, b.coa) = EncodeChart(m.coa)
      /\ Overlay(d.meta, b.meta) = EncodeRanges(m.meta)
  BY Zenon DEF HoldsWith
<1> HIDE DEF w, p, a
<1>5. d.done \cup (b.done \cup w.done) = (d.done \cup b.done) \cup w.done
  OBVIOUS
<1>6. /\ Overlay(d.coa, Overlay(b.coa, w.coa)) = Overlay(Overlay(d.coa, b.coa), w.coa)
      /\ Overlay(d.meta, Overlay(b.meta, w.meta)) = Overlay(Overlay(d.meta, b.meta), w.meta)
  <2>1. \A u, v, y : Overlay(u, Overlay(v, y)) = Overlay(Overlay(u, v), y)
    BY Zenon, OverlayTwice
  <2> HIDE DEF Overlay
  <2> QED
    BY <2>1
<1>7. HoldsWith(d, p, a)
  BY Zenon, <1>1, <1>2, <1>3, <1>4, <1>5, <1>6 DEF HoldsWith
<1> QED
  BY Zenon, <1>1, <1>7 DEF w, p, a

\* The EAL applies an entry, batches its writes, and flushes the batch when it is full.
LEMMA ApplyEntryKeeps ==
  ASSUME Counting, LedgerInv, ApplyEntry
  PROVE  LedgerInv'
<1> DEFINE i == mLoadedIndex + 1
           e == DecodeEventFromString(log[i].event)
           b == PutAll(batch, Writes(e, eal'), i)
           m == At(log, mLoadedIndex)
<1>1. /\ ~mShouldRecover /\ mLoadedIndex < commitIndex /\ ~log[i].noop /\ CanApply(e, eal)
      /\ eal' = Apply(e, eal) /\ mLoadedIndex' = i /\ mShouldRecover' = mShouldRecover
      /\ UNCHANGED raftVars /\ UNCHANGED cplVars
  BY Zenon DEF ApplyEntry
<1>2. \/ batch' = b /\ db' = db
      \/ db' = FlushToRocksDB(db, b) /\ batch' = EmptyColumns
  BY Zenon DEF ApplyEntry
<1> HIDE DEF b
<1>3. LogOK /\ DbOK /\ EalOK /\ CplOK /\ BookedOncePerLeadership
  BY Zenon DEF LedgerInv
<1>4. log' = log /\ commitIndex' = commitIndex /\ leading' = leading
  BY Zenon, <1>1 DEF raftVars
<1>5. /\ log \in Seq(Entries) /\ mLoadedIndex \in Nat /\ mLoadedIndex < Len(log)
      /\ mLoadedIndex \in 0..Len(log) /\ i \in 0..commitIndex /\ i # 0 /\ log[i] \in Entries
      /\ 0 \in 0..commitIndex
  BY <1>1, <1>3 DEF LogOK
<1>6. /\ IsMachine(eal) /\ SameMaps(eal, m) /\ HoldsWith(db, batch, m) /\ IsMachine(m)
  <2>1. IsMachine(m)
    BY Zenon, <1>5, AtIsMachine
  <2> QED
    BY Zenon, <1>1, <1>3, <2>1 DEF EalOK
<1>7. IsEvent(e)
  <2>1. PICK c \in Commands : e = Decoded(c)
    BY Zenon, <1>1, <1>5, EntryFacts
  <2> QED
    BY Zenon, <2>1, EventsOfCommands
<1>8. At(log, i) = Apply(e, m)
  <2>1. At(log, i) = ReplayEntry(m, log[i])
    BY Zenon, <1>5, AtNext
  <2> QED
    BY Zenon, <1>1, <2>1 DEF ReplayEntry
<1> HIDE DEF e, m
<1>9. /\ IsMachine(eal') /\ eal'.coa = NewCoa(e, eal.coa) /\ eal'.meta = NewMeta(e, eal.meta)
  BY Zenon, <1>1, <1>6, <1>7, ApplyKeepsMachine
<1>10. eal'.coa = NewCoa(e, m.coa) /\ eal'.meta = NewMeta(e, m.meta)
  BY Zenon, <1>6, <1>9 DEF SameMaps
<1>11. SameMaps(eal', At(log, i))
  BY Zenon, <1>6, <1>7, <1>8, <1>10, ApplyKeepsMachine DEF SameMaps
<1>12. AccountsExist(e, m.coa)
  <2>1. AccountsExist(e, eal.coa)
    BY <1>1 DEF CanApply, AccountsExist
  <2> QED
    BY Zenon, <1>6, <2>1 DEF SameMaps
<1> HIDE DEF i
<1>13. HoldsWith(db, b, At(log, i)) /\ b.index = i
  <2>1. HoldsWith(db, b, Apply(e, m)) /\ b.index = i
    <3> DEFINE r == eal'
               d == db
               a == batch
    <3>1. /\ IsMachine(m) /\ HoldsWith(d, a, m) /\ IsEvent(e) /\ AccountsExist(e, m.coa)
          /\ r.coa = NewCoa(e, m.coa) /\ r.meta = NewMeta(e, m.meta)
      BY Zenon, <1>6, <1>7, <1>10, <1>12
    <3> HIDE DEF r, d, a
    <3>2. /\ HoldsWith(d, PutAll(a, Writes(e, r), i), Apply(e, m))
          /\ PutAll(a, Writes(e, r), i).index = i
      BY <3>1, PutAllHolds
    <3> QED
      BY Zenon, <3>2 DEF b, r, d, a
  <2> QED
    BY Zenon, <1>8, <2>1
<1>14. /\ Holds(db', At(log, db'.index)) /\ db'.index \in 0..commitIndex
       /\ HoldsWith(db', batch', At(log, i)) /\ batch'.index \in {0, i}
       /\ batch'.index = 0 => batch' = EmptyColumns
  <2>1. CASE batch' = b /\ db' = db
    BY Zenon, <1>3, <1>5, <1>13, <2>1 DEF DbOK, LogOK
  <2>2. CASE db' = FlushToRocksDB(db, b) /\ batch' = EmptyColumns
    <3>1. Holds(db', At(log, i)) /\ db'.index = i
      BY Zenon, <1>5, <1>13, <2>2, FlushHolds
    <3>2. HoldsWith(db', EmptyColumns, At(log, i))
      BY Zenon, <3>1, HoldsWithNothing
    <3> QED
      BY Zenon, <1>5, <2>2, <3>1, <3>2, EmptyColumnsAre
  <2> QED
    BY Zenon, <1>2, <2>1, <2>2
<1>15. LogOK'
  BY Zenon, <1>1, <1>3, <1>4, <1>5, <1>14 DEF LogOK
<1>16. DbOK'
  BY Zenon, <1>4, <1>14 DEF DbOK
<1>17. EalOK'
  BY Zenon, <1>1, <1>4, <1>9, <1>11, <1>14 DEF EalOK
<1>18. CplOK'
  BY Zenon, <1>1, <1>3, <1>4 DEF CplOK, cplVars
<1>19. BookedOncePerLeadership'
  BY Zenon, <1>3, <1>4 DEF BookedOncePerLeadership, Records
<1> QED
  BY Zenon, <1>15, <1>16, <1>17, <1>18, <1>19 DEF LedgerInv

\* A step that changes nothing but `alive', or nothing at all, keeps everything.
LEMMA UnchangedKeeps ==
  ASSUME LedgerInv, UNCHANGED <<raftVars, cplVars, ealVars, batch, db>>
  PROVE  LedgerInv'
<1>1. /\ log' = log /\ commitIndex' = commitIndex /\ leading' = leading
      /\ cpl' = cpl /\ ready' = ready /\ mLastCommandId' = mLastCommandId
      /\ eal' = eal /\ mLoadedIndex' = mLoadedIndex /\ mShouldRecover' = mShouldRecover
      /\ batch' = batch /\ db' = db
  BY Zenon DEF raftVars, cplVars, ealVars
<1>2. LogOK /\ DbOK /\ EalOK /\ CplOK /\ BookedOncePerLeadership
  BY Zenon DEF LedgerInv
<1>3. LogOK'
  BY Zenon, <1>1, <1>2 DEF LogOK
<1>4. DbOK'
  BY Zenon, <1>1, <1>2 DEF DbOK
<1>5. EalOK'
  BY Zenon, <1>1, <1>2 DEF EalOK
<1>6. CplOK'
  BY Zenon, <1>1, <1>2 DEF CplOK
<1>7. BookedOncePerLeadership'
  BY Zenon, <1>1, <1>2 DEF BookedOncePerLeadership, Records
<1> QED
  BY Zenon, <1>3, <1>4, <1>5, <1>6, <1>7 DEF LedgerInv

\* An empty log, an empty RocksDB and empty machines agree.
LEMMA InitHolds ==
  ASSUME Counting, Init
  PROVE  LedgerInv
<1>1. /\ log = <<>> /\ commitIndex = 0 /\ mLoadedIndex = 0 /\ db = EmptyColumns
      /\ batch = EmptyColumns /\ eal = EmptyMachine /\ ~mShouldRecover /\ ~ready
  BY Zenon DEF Init
<1>2. log \in Seq(Entries) /\ Len(log) = 0 /\ DOMAIN log = {}
  BY <1>1
<1>3. At(log, 0) = EmptyMachine
  BY Zenon, <1>2, AtEnds
<1>4. LogOK
  BY <1>1, <1>2, EmptyColumnsAre DEF LogOK
<1>5. Holds(EmptyColumns, EmptyMachine)
  <2>1. EncodeChart(<<>>) = <<>> /\ EncodeRanges(<<>>) = <<>>
    BY DEF EncodeChart, EncodeRanges
  <2> QED
    BY Zenon, <2>1, EmptyColumnsAre, EmptyMachineIsMachine DEF Holds
<1>6. DbOK
  BY Zenon, <1>1, <1>3, <1>5, EmptyColumnsAre DEF DbOK
<1>7. EalOK
  <2>1. HoldsWith(EmptyColumns, EmptyColumns, EmptyMachine)
    BY Zenon, <1>5, HoldsWithNothing
  <2> QED
    BY Zenon, <1>1, <1>3, <2>1, EmptyColumnsAre, EmptyMachineIsMachine DEF EalOK, SameMaps
<1>8. CplOK
  BY Zenon, <1>1 DEF CplOK
<1>9. BookedOncePerLeadership
  BY Zenon, <1>2 DEF BookedOncePerLeadership
<1> QED
  BY Zenon, <1>4, <1>6, <1>7, <1>8, <1>9 DEF LedgerInv

\* Every step keeps the invariant.
LEMMA NextKeeps ==
  ASSUME Counting, LedgerInv, [Next]_vars
  PROVE  LedgerInv'
<1>1. CASE BecomeLeader
  BY Zenon, <1>1, BecomeLeaderKeeps
<1>2. CASE AdvanceCommitIndex
  BY Zenon, <1>2, AdvanceKeeps
<1>3. CASE StepDown
  BY Zenon, <1>3, StepDownKeeps
<1>4. CASE OnBecomeLeader
  BY Zenon, <1>4, OnBecomeLeaderKeeps
<1>5. ASSUME NEW c \in Commands, ProcessCommand(c) PROVE LedgerInv'
  BY Zenon, <1>5, ProcessCommandKeeps
<1>6. ASSUME NEW c \in Commands, RefuseCommand(c) PROVE LedgerInv'
  BY Zenon, <1>6, UnchangedKeeps DEF RefuseCommand, vars
<1>7. CASE RecoverSelf
  BY Zenon, <1>7, RecoverSelfKeeps
<1>8. CASE SkipNoop
  BY Zenon, <1>8, SkipNoopKeeps
<1>9. CASE ApplyEntry
  BY Zenon, <1>9, ApplyEntryKeeps
<1>10. CASE AbortOnApply
  BY Zenon, <1>10, UnchangedKeeps DEF AbortOnApply
<1>11. CASE Crash
  BY Zenon, <1>11, UnchangedKeeps DEF Crash
<1>12. CASE Restart
  BY Zenon, <1>12, RestartKeeps
<1>13. CASE UNCHANGED vars
  BY Zenon, <1>13, UnchangedKeeps DEF vars
<1> QED
  BY Zenon, <1>1, <1>2, <1>3, <1>4, <1>5, <1>6, <1>7, <1>8, <1>9, <1>10, <1>11, <1>12, <1>13 DEF Next

\* What the invariant says of RocksDB and of the CPL, in the words of the properties.
LEMMA InvariantSuffices ==
  ASSUME Counting, LedgerInv
  PROVE  DurableIsReplay /\ LeaderIsReplay /\ BookedOncePerLeadership
<1>1. LogOK /\ DbOK /\ EalOK /\ CplOK /\ BookedOncePerLeadership /\ log \in Seq(Entries)
  BY Zenon DEF LedgerInv, LogOK
<1>2. DurableIsReplay
  <2>1. SameMaps(LoadFromRocksDB(db), At(log, db.index))
    BY Zenon, <1>1, RecoveryLoadsReplay
  <2>2. db.done = At(log, db.index).done /\ (mShouldRecover => batch = EmptyColumns)
    BY Zenon, <1>1 DEF DbOK, EalOK, Holds
  <2> QED
    BY Zenon, <2>1, <2>2 DEF DurableIsReplay, SameMaps, At
<1>3. LeaderIsReplay
  <2>1. At(log, Len(log)) = Replay(log)
    BY Zenon, <1>1, AtEnds
  <2> QED
    BY Zenon, <1>1, <2>1 DEF LeaderIsReplay, CplOK, SameMaps
<1> QED
  BY Zenon, <1>1, <1>2, <1>3

-----------------------------------------------------------------------------
(* The theorems                                                            *)

INSTANCE WellFoundedInduction

\* A set of natural numbers that is not empty has a least member.
LEMMA CountingHolds == Counting
<1> SUFFICES ASSUME NEW P \in SUBSET Nat, P # {} PROVE \E n \in P : \A m \in P : n <= m
  BY Zenon DEF Counting
<1> DEFINE R == {ss \in Nat \X Nat : ss[1] < ss[2]}
<1>1. IsWellFoundedOn(R, Nat)
  BY NatLessThanWellFounded, Zenon DEF OpToRel
<1>2. PICK x \in P : \A y \in P : ~ (<<y, x>> \in R)
  <2> HIDE DEF R
  <2> QED
    BY Zenon, <1>1, WFMin
<1>3. \A y \in P : x <= y
  <2> SUFFICES ASSUME NEW y \in P, y < x PROVE FALSE
    OBVIOUS
  <2>1. <<y, x>> \in R
    OBVIOUS
  <2> QED
    BY <1>2, <2>1
<1> QED
  BY Zenon, <1>3

\* The invariant of a replica: what RocksDB, the batch, the EAL and the CPL hold are replays of
\* the log, through every flush, handover, lost suffix, crash and restart.
THEOREM LedgerInvariant == Spec => []LedgerInv
<1>1. Init => LedgerInv
  BY Zenon, InitHolds, CountingHolds
<1>2. LedgerInv /\ [Next]_vars => LedgerInv'
  BY Zenon, NextKeeps, CountingHolds
<1> QED
  BY <1>1, <1>2, PTL DEF Spec

\* RocksDB is the replay of the committed log up to last_applied_index, for every batch size:
\* flushToRocksDB writes the changes and the index in one write, so a recovery neither skips an
\* entry nor applies one twice.
THEOREM RocksDBIsReplay == Spec => []DurableIsReplay
<1>1. LedgerInv => DurableIsReplay
  BY Zenon, InvariantSuffices, CountingHolds
<1> QED
  BY <1>1, LedgerInvariant, PTL

\* A CPL that accepts commands decides them on the accounts and the ranges that the whole log
\* below it produces (onBecomeLeader takes the state of an EAL that has caught up).
THEOREM LeaderDecidesOnReplay == Spec => []LeaderIsReplay
<1>1. LedgerInv => LeaderIsReplay
  BY Zenon, InvariantSuffices, CountingHolds
<1> QED
  BY <1>1, LedgerInvariant, PTL

\* One leadership books a journal entry at most once (mDoneMap of the CPL).
THEOREM LeadershipBooksOnce == Spec => []BookedOncePerLeadership
<1>1. LedgerInv => BookedOncePerLeadership
  BY Zenon, InvariantSuffices, CountingHolds
<1> QED
  BY <1>1, LedgerInvariant, PTL
=============================================================================
