---------------------------- MODULE LedgerProofs ----------------------------
(***************************************************************************)
(* What holds of the books of a savings group, for any sums, loans,        *)
(* meetings and staff.                                                     *)
(***************************************************************************)
EXTENDS GroupLedger, FiniteSetTheorems, NaturalsInduction, WellFoundedInduction, TLAPS

-----------------------------------------------------------------------------
(* Sums over the lines of a cashbook.                                      *)

LEMMA LeastNat ==
    ASSUME NEW S \in SUBSET Nat, S # {}
    PROVE  \E m \in S : \A k \in S : m <= k
<1> DEFINE R == {ss \in Nat \X Nat : ss[1] < ss[2]}
<1>1. IsWellFoundedOn(R, Nat)
  BY NatLessThanWellFounded DEF OpToRel
<1> HIDE DEF R
<1>2. PICK m \in S : \A k \in S : ~ (<<k, m>> \in R)
  BY <1>1, WFMin
<1>3. \A k \in S : ~ (k < m)
  BY <1>2 DEF R
<1> QED
  BY <1>3

\* Induction over the natural numbers, stated of a set.
LEMMA NatSteps ==
    ASSUME NEW S, 0 \in S, \A n \in Nat : n \in S => n + 1 \in S
    PROVE  \A n \in Nat : n \in S
<1> SUFFICES ASSUME Nat \ S # {} PROVE FALSE
  OBVIOUS
<1>1. PICK m \in Nat \ S : \A k \in Nat \ S : m <= k
  BY LeastNat
<1>2. m # 0 /\ m - 1 \in Nat
  BY <1>1
<1>3. m - 1 \in S
  BY <1>1, <1>2
<1> QED
  BY <1>2, <1>3

\* How each type moves the box.
LEMMA FlowOf ==
    ASSUME NEW e \in Entry
    PROVE  /\ CashFlow(e) \in Int
           /\ e.type \in {"SAVINGS", "LOAN_PRINCIPAL_REPAYMENT", "LOAN_CHARGE_REPAYMENT"} =>
                 CashFlow(e) = e.amount
           /\ e.type = "LOAN_DISBURSEMENT" => CashFlow(e) = -e.amount
           /\ e.type = "WRITE_OFF" => CashFlow(e) = 0
<1>1. /\ e.amount \in Int
      /\ e.type \in {"SAVINGS", "LOAN_PRINCIPAL_REPAYMENT", "LOAN_CHARGE_REPAYMENT",
                     "LOAN_DISBURSEMENT", "WRITE_OFF"}
  BY DEF Entry, CASH_EFFECT
<1>2. CASE e.type = "SAVINGS"
  <2>1. CASH_EFFECT[e.type] = 1
    BY <1>2 DEF CASH_EFFECT
  <2> QED
    BY <1>1, <1>2, <2>1 DEF CashFlow
<1>3. CASE e.type = "LOAN_PRINCIPAL_REPAYMENT"
  <2>1. CASH_EFFECT[e.type] = 1
    BY <1>3 DEF CASH_EFFECT
  <2> QED
    BY <1>1, <1>3, <2>1 DEF CashFlow
<1>4. CASE e.type = "LOAN_CHARGE_REPAYMENT"
  <2>1. CASH_EFFECT[e.type] = 1
    BY <1>4 DEF CASH_EFFECT
  <2> QED
    BY <1>1, <1>4, <2>1 DEF CashFlow
<1>5. CASE e.type = "LOAN_DISBURSEMENT"
  <2>1. CASH_EFFECT[e.type] = -1
    BY <1>5 DEF CASH_EFFECT
  <2> QED
    BY <1>1, <1>5, <2>1 DEF CashFlow
<1>6. CASE e.type = "WRITE_OFF"
  <2>1. CASH_EFFECT[e.type] = 0
    BY <1>6 DEF CASH_EFFECT
  <2> QED
    BY <1>1, <1>6, <2>1 DEF CashFlow
<1> QED
  BY <1>1, <1>2, <1>3, <1>4, <1>5, <1>6

\* BalanceUpTo is the function its definition describes.
LEMMA BalanceFacts ==
    ASSUME NEW lines \in Seq(Entry), NEW at
    PROVE  /\ BalanceUpTo(lines, at)[0] = 0
           /\ \A n \in 1 .. Len(lines) :
                 BalanceUpTo(lines, at)[n] =
                    BalanceUpTo(lines, at)[n - 1]
                      + (IF n \in at THEN CashFlow(lines[n]) ELSE 0)
<1> DEFINE N == Len(lines)
           More(b, n) == b + (IF n \in at THEN CashFlow(lines[n]) ELSE 0)
           Defines(f, m) == f = [n \in 0 .. m |-> IF n = 0 THEN 0 ELSE More(f[n - 1], n)]
           S == {m \in Nat : \E f : Defines(f, m)}
<1>0. N \in Nat
  OBVIOUS
<1> HIDE DEF More, N
<1>1. 0 \in S
  <2>1. Defines([n \in 0 .. 0 |-> 0], 0)
    OBVIOUS
  <2> QED
    BY <2>1
<1>2. ASSUME NEW m \in Nat, m \in S PROVE m + 1 \in S
  <2>1. PICK f : Defines(f, m)
    BY <1>2
  <2> DEFINE g == [n \in 0 .. m + 1 |-> IF n <= m THEN f[n] ELSE More(f[m], m + 1)]
  <2>2. \A n \in 0 .. m + 1 : g[n] = IF n = 0 THEN 0 ELSE More(g[n - 1], n)
    <3> SUFFICES ASSUME NEW n \in 0 .. m + 1
                 PROVE  g[n] = IF n = 0 THEN 0 ELSE More(g[n - 1], n)
      OBVIOUS
    <3>1. CASE n = 0
      BY <2>1, <3>1
    <3>2. CASE n \in 1 .. m
      <4>1. g[n] = f[n] /\ g[n - 1] = f[n - 1]
        BY <3>2
      <4>2. f[n] = More(f[n - 1], n)
        BY <2>1, <3>2
      <4> QED
        BY <3>2, <4>1, <4>2
    <3>3. CASE n = m + 1
      BY <3>3
    <3> QED
      BY <3>1, <3>2, <3>3
  <2>3. \E h : Defines(h, m + 1)
    <3> SUFFICES Defines(g, m + 1)
      OBVIOUS
    <3> QED
      BY <2>2
  <2> QED
    BY <2>3
<1>3. \A m \in Nat : m \in S
  <2> HIDE DEF S
  <2> QED
    BY <1>1, <1>2, NatSteps
<1>4. \E f : Defines(f, N)
  BY <1>0, <1>3
<1>5. BalanceUpTo(lines, at) = CHOOSE f : Defines(f, N)
  BY DEF BalanceUpTo, More, N
<1>6. Defines(BalanceUpTo(lines, at), N)
  BY <1>4, <1>5
<1>7. BalanceUpTo(lines, at)[0] = 0
  BY <1>0, <1>6
<1>8. ASSUME NEW n \in 1 .. N
      PROVE  BalanceUpTo(lines, at)[n] = More(BalanceUpTo(lines, at)[n - 1], n)
  <2>1. n \in 0 .. N /\ n # 0
    BY <1>0
  <2> QED
    BY <1>6, <2>1
<1> QED
  BY <1>7, <1>8 DEF More, N

\* Of equal lines at equal positions the balance is the same.
LEMMA BalanceSame ==
    ASSUME NEW lines \in Seq(Entry), NEW more \in Seq(Entry), NEW at, NEW too,
           Len(lines) <= Len(more),
           \A n \in 1 .. Len(lines) : more[n] = lines[n] /\ (n \in too <=> n \in at)
    PROVE  \A n \in 0 .. Len(lines) :
              /\ BalanceUpTo(lines, at)[n] \in Int
              /\ BalanceUpTo(more, too)[n] = BalanceUpTo(lines, at)[n]
<1> DEFINE A(n) == BalanceUpTo(lines, at)[n]
           B(n) == BalanceUpTo(more, too)[n]
           S == {n \in Nat : n <= Len(lines) => A(n) \in Int /\ B(n) = A(n)}
<1>0. Len(lines) \in Nat /\ Len(more) \in Nat
  OBVIOUS
<1>1. A(0) = 0 /\ B(0) = 0
  BY BalanceFacts
<1>2. ASSUME NEW n \in 1 .. Len(lines)
      PROVE  /\ A(n) = A(n - 1) + (IF n \in at THEN CashFlow(lines[n]) ELSE 0)
             /\ B(n) = B(n - 1) + (IF n \in at THEN CashFlow(lines[n]) ELSE 0)
             /\ CashFlow(lines[n]) \in Int
  <2>1. n \in 1 .. Len(more) /\ more[n] = lines[n] /\ (n \in too <=> n \in at)
    BY <1>0
  <2>2. lines[n] \in Entry
    OBVIOUS
  <2>3. A(n) = A(n - 1) + (IF n \in at THEN CashFlow(lines[n]) ELSE 0)
    BY BalanceFacts
  <2>4. B(n) = B(n - 1) + (IF n \in too THEN CashFlow(more[n]) ELSE 0)
    BY <2>1, BalanceFacts
  <2>5. CashFlow(lines[n]) \in Int
    BY <2>2, FlowOf
  <2> HIDE DEF A, B
  <2> QED
    BY <2>1, <2>3, <2>4, <2>5
<1> HIDE DEF A, B
<1>3. 0 \in S
  BY <1>1
<1>4. ASSUME NEW n \in Nat, n \in S PROVE n + 1 \in S
  <2> SUFFICES ASSUME n + 1 <= Len(lines) PROVE A(n + 1) \in Int /\ B(n + 1) = A(n + 1)
    OBVIOUS
  <2>1. n + 1 \in 1 .. Len(lines) /\ (n + 1) - 1 = n /\ n <= Len(lines)
    BY <1>0
  <2>2. A(n) \in Int /\ B(n) = A(n)
    BY <1>4, <2>1
  <2>3. PICK flow \in Int : A(n + 1) = A(n) + flow /\ B(n + 1) = B(n) + flow
    <3>1. CASE n + 1 \in at
      BY <1>2, <2>1, <3>1
    <3>2. CASE n + 1 \notin at
      BY <1>2, <2>1, <3>2
    <3> QED
      BY <3>1, <3>2
  <2> QED
    BY <2>2, <2>3
<1>5. \A n \in Nat : n \in S
  <2> HIDE DEF S
  <2> QED
    BY <1>3, <1>4, NatSteps
<1> QED
  BY <1>0, <1>5 DEF A, B

LEMMA BalanceIsInt ==
    ASSUME NEW lines \in Seq(Entry), NEW at
    PROVE  BalanceOf(lines, at) \in Int
  BY BalanceSame DEF BalanceOf

\* A line more adds what it does to the box, where it is counted.
LEMMA BalanceAppend ==
    ASSUME NEW lines \in Seq(Entry), NEW e \in Entry, NEW at, NEW too,
           \A n \in 1 .. Len(lines) : n \in too <=> n \in at
    PROVE  BalanceOf(Append(lines, e), too) =
              BalanceOf(lines, at) + (IF Len(lines) + 1 \in too THEN CashFlow(e) ELSE 0)
<1> DEFINE more == Append(lines, e)
           N == Len(lines)
<1>1. /\ N \in Nat /\ more \in Seq(Entry) /\ Len(more) = N + 1 /\ more[N + 1] = e
      /\ \A n \in 1 .. N : more[n] = lines[n]
  OBVIOUS
<1> HIDE DEF more
<1>2. BalanceUpTo(more, too)[N] = BalanceUpTo(lines, at)[N]
  BY <1>1, BalanceSame
<1>3. N + 1 \in 1 .. Len(more) /\ (N + 1) - 1 = N
  BY <1>1
<1>4. BalanceUpTo(more, too)[N + 1] =
         BalanceUpTo(more, too)[N] + (IF N + 1 \in too THEN CashFlow(e) ELSE 0)
  BY <1>1, <1>3, BalanceFacts
<1> QED
  BY <1>1, <1>2, <1>4 DEF BalanceOf, more

\* The three balances that are asked for, when a line is added.
LEMMA PostOne ==
    ASSUME NEW lines \in Seq(Entry), NEW e \in Entry
    PROVE  /\ Append(lines, e) \in Seq(Entry)
           /\ CashBalance(Append(lines, e)) = CashBalance(lines) + CashFlow(e)
           /\ \A k : Takings(Append(lines, e), k) =
                        Takings(lines, k) + (IF e.meeting = k THEN CashFlow(e) ELSE 0)
           /\ \A l : PrincipalBack(Append(lines, e), l) =
                        PrincipalBack(lines, l)
                          + (IF e.loan = l /\ e.type = "LOAN_PRINCIPAL_REPAYMENT"
                             THEN CashFlow(e) ELSE 0)
<1> DEFINE more == Append(lines, e)
           N == Len(lines)
<1>1. /\ N \in Nat /\ more \in Seq(Entry) /\ DOMAIN more = 1 .. N + 1 /\ more[N + 1] = e
      /\ DOMAIN lines = 1 .. N
      /\ \A n \in 1 .. N : more[n] = lines[n]
  OBVIOUS
<1>2. CashBalance(more) = CashBalance(lines) + CashFlow(e)
  <2>1. \A n \in 1 .. N : n \in DOMAIN more <=> n \in DOMAIN lines
    BY <1>1
  <2>2. N + 1 \in DOMAIN more
    BY <1>1
  <2> QED
    BY <2>1, <2>2, BalanceAppend DEF CashBalance
<1>3. ASSUME NEW k
      PROVE  Takings(more, k) = Takings(lines, k) + (IF e.meeting = k THEN CashFlow(e) ELSE 0)
  <2> DEFINE at == {i \in DOMAIN lines : lines[i].meeting = k}
             too == {i \in DOMAIN more : more[i].meeting = k}
  <2>1. \A n \in 1 .. N : n \in too <=> n \in at
    BY <1>1
  <2>2. N + 1 \in too <=> e.meeting = k
    BY <1>1
  <2> HIDE DEF at, too
  <2>3. BalanceOf(more, too) = BalanceOf(lines, at) + (IF N + 1 \in too THEN CashFlow(e) ELSE 0)
    BY <2>1, BalanceAppend
  <2> QED
    BY <2>2, <2>3 DEF Takings, at, too
<1>4. ASSUME NEW l
      PROVE  PrincipalBack(more, l) =
                PrincipalBack(lines, l) + (IF e.loan = l /\ e.type = "LOAN_PRINCIPAL_REPAYMENT"
                                           THEN CashFlow(e) ELSE 0)
  <2> DEFINE Is(i, b) == b[i].loan = l /\ b[i].type = "LOAN_PRINCIPAL_REPAYMENT"
             at == {i \in DOMAIN lines : Is(i, lines)}
             too == {i \in DOMAIN more : Is(i, more)}
  <2>1. \A n \in 1 .. N : n \in too <=> n \in at
    BY <1>1
  <2>2. N + 1 \in too <=> (e.loan = l /\ e.type = "LOAN_PRINCIPAL_REPAYMENT")
    BY <1>1
  <2> HIDE DEF at, too
  <2>3. BalanceOf(more, too) = BalanceOf(lines, at) + (IF N + 1 \in too THEN CashFlow(e) ELSE 0)
    BY <2>1, BalanceAppend
  <2> QED
    BY <2>2, <2>3 DEF PrincipalBack, at, too
<1> QED
  BY <1>1, <1>2, <1>3, <1>4

\* Lines that are not counted add up to nothing.
LEMMA NothingTaken ==
    ASSUME NEW lines \in Seq(Entry), NEW at, \A n \in 1 .. Len(lines) : n \notin at
    PROVE  BalanceOf(lines, at) = 0
<1> DEFINE A(n) == BalanceUpTo(lines, at)[n]
           S == {n \in Nat : n <= Len(lines) => A(n) = 0}
<1>0. Len(lines) \in Nat
  OBVIOUS
<1>1. A(0) = 0
  BY BalanceFacts
<1>2. ASSUME NEW n \in 1 .. Len(lines) PROVE A(n) = A(n - 1) + 0
  BY BalanceFacts
<1> HIDE DEF A
<1>3. 0 \in S
  BY <1>1
<1>4. ASSUME NEW n \in Nat, n \in S PROVE n + 1 \in S
  <2> SUFFICES ASSUME n + 1 <= Len(lines) PROVE A(n + 1) = 0
    OBVIOUS
  <2>1. n + 1 \in 1 .. Len(lines) /\ (n + 1) - 1 = n /\ n <= Len(lines)
    BY <1>0
  <2> QED
    BY <1>2, <1>4, <2>1
<1>5. \A n \in Nat : n \in S
  <2> HIDE DEF S
  <2> QED
    BY <1>3, <1>4, NatSteps
<1> QED
  BY <1>0, <1>5 DEF A, BalanceOf

-----------------------------------------------------------------------------
(* The books of a group: what every request and every line refers to.      *)

MeetingOps == {"save", "lend", "repay", "close", "amend"}

\* What a request holds belongs to what it is about.
RequestFits(w, held) ==
    /\ w.op \in MeetingOps =>
          /\ w.meeting \in held
          /\ w.copy.status # "ABSENT"
          /\ w.copy.status = "CLOSED" => w.copy.counted # Blank
    /\ w.op = "open" => w.meeting \in MeetingNo
    /\ w.op = "lend" /\ w.stage = "checked" => w.amount \in Amount
    /\ w.op = "repay" /\ w.stage # "loaded" => w.loan \in Loan /\ w.amount \in Nat
    /\ w.op = "close" /\ w.stage = "checked" => w.amount \in Nat
    /\ w.op = "write_off" => w.loan \in Loan /\ w.amount # 0

LedgerBooks ==
    /\ LedgerTypeOK
    /\ \A i \in DOMAIN entries : entries[i].meeting \in HeldMeetings \cup {NoId}
    /\ \A s \in Staff : RequestFits(work[s], HeldMeetings)

\* A step that adds to the meetings held leaves the other requests as they were.
LEMMA OtherRequests ==
    ASSUME LedgerBooks, HeldMeetings \subseteq HeldMeetings', NEW s \in Staff,
           NEW r \in LedgerRequest, RequestFits(r, HeldMeetings)', work' = [work EXCEPT ![s] = r]
    PROVE  /\ work' \in [Staff -> LedgerRequest]
           /\ \A p \in Staff : RequestFits(work[p], HeldMeetings)'
<1>1. work \in [Staff -> LedgerRequest]
  BY DEF LedgerBooks, LedgerTypeOK
<1>2. work' \in [Staff -> LedgerRequest]
  BY <1>1
<1>3. ASSUME NEW p \in Staff PROVE RequestFits(work[p], HeldMeetings)'
  <2>1. CASE p = s
    BY <1>1, <2>1
  <2>2. CASE p # s
    <3>1. work'[p] = work[p] /\ RequestFits(work[p], HeldMeetings)
      BY <1>1, <2>2 DEF LedgerBooks
    <3> QED
      BY <3>1 DEF RequestFits
  <2> QED
    BY <2>1, <2>2
<1> QED
  BY <1>2, <1>3

\* A request that is over.
LEMMA NoWorkFits ==
    /\ NoWork \in LedgerRequest
    /\ \A held : RequestFits(NoWork, held)
<1>1. NoWork \in LedgerRequest
  BY DEF NoWork, LedgerRequest, LedgerOps, NoMeetingRow, MeetingRow, NoId, Blank
<1>2. \A held : RequestFits(NoWork, held)
  BY DEF NoWork, RequestFits, MeetingOps
<1> QED
  BY <1>1, <1>2

\* What is added to the lines: the balance of one meeting at most, and the
\* principal back on one loan, change.
Adds(old, new, m, l, flow, back) ==
    /\ new \in Seq(Entry)
    /\ CashBalance(new) = CashBalance(old) + flow
    /\ \A k : Takings(new, k) = Takings(old, k) + (IF m = k THEN flow ELSE 0)
    /\ \A x : PrincipalBack(new, x) = PrincipalBack(old, x) + (IF l = x THEN back ELSE 0)
    /\ \A i \in DOMAIN new :
          \/ i \in DOMAIN old /\ new[i] = old[i]
          \/ new[i].amount # 0 /\ new[i].reverses < i /\ new[i].meeting = m

Posts(m, l, flow, back) == Adds(entries, entries', m, l, flow, back)

LEMMA PostsOne ==
    ASSUME NEW lines \in Seq(Entry), NEW e \in Entry, e.amount # 0, e.reverses <= Len(lines)
    PROVE  Adds(lines, Append(lines, e), e.meeting, e.loan, CashFlow(e),
                IF e.type = "LOAN_PRINCIPAL_REPAYMENT" THEN CashFlow(e) ELSE 0)
<1> DEFINE more == Append(lines, e)
<1>1. \A i \in DOMAIN more : \/ i \in DOMAIN lines /\ more[i] = lines[i]
                             \/ i = Len(lines) + 1 /\ more[i] = e
  <2>1. /\ Len(lines) \in Nat /\ DOMAIN lines = 1 .. Len(lines)
        /\ DOMAIN more = 1 .. Len(lines) + 1
        /\ more[Len(lines) + 1] = e
        /\ \A i \in 1 .. Len(lines) : more[i] = lines[i]
    OBVIOUS
  <2> QED
    BY <2>1
<1>2. e.reverses \in Int /\ Len(lines) \in Nat
  BY DEF Entry
<1>3. \A i \in DOMAIN more :
          \/ i \in DOMAIN lines /\ more[i] = lines[i]
          \/ more[i].amount # 0 /\ more[i].reverses < i /\ more[i].meeting = e.meeting
  BY <1>1, <1>2
<1>4. \A x : PrincipalBack(more, x) =
                PrincipalBack(lines, x)
                  + (IF e.loan = x
                     THEN (IF e.type = "LOAN_PRINCIPAL_REPAYMENT" THEN CashFlow(e) ELSE 0)
                     ELSE 0)
  BY PostOne
<1>5. /\ more \in Seq(Entry)
      /\ CashBalance(more) = CashBalance(lines) + CashFlow(e)
      /\ \A k : Takings(more, k) = Takings(lines, k) + (IF e.meeting = k THEN CashFlow(e) ELSE 0)
  BY PostOne
<1> HIDE DEF more
<1>6. Adds(lines, more, e.meeting, e.loan, CashFlow(e),
           IF e.type = "LOAN_PRINCIPAL_REPAYMENT" THEN CashFlow(e) ELSE 0)
  BY <1>3, <1>4, <1>5 DEF Adds
<1> QED
  BY <1>6 DEF more

\* The balances are integers.
LEMMA BalancesAreInts ==
    ASSUME NEW lines \in Seq(Entry)
    PROVE  /\ CashBalance(lines) \in Int
           /\ \A k : Takings(lines, k) \in Int
           /\ \A l : PrincipalBack(lines, l) \in Int
  BY BalanceIsInt DEF CashBalance, Takings, PrincipalBack

LEMMA AddsTwice ==
    ASSUME NEW a \in Seq(Entry), NEW b \in Seq(Entry), NEW c \in Seq(Entry), NEW m, NEW l,
           NEW flow \in Int, NEW back \in Int, NEW flow2 \in Int, NEW back2 \in Int,
           Adds(a, b, m, l, flow, back), Adds(b, c, m, l, flow2, back2)
    PROVE  Adds(a, c, m, l, flow + flow2, back + back2)
<1>1. CashBalance(c) = CashBalance(a) + (flow + flow2)
  BY BalancesAreInts DEF Adds
<1>2. ASSUME NEW k PROVE Takings(c, k) = Takings(a, k) + (IF m = k THEN flow + flow2 ELSE 0)
  <2>1. Takings(a, k) \in Int
    BY BalancesAreInts
  <2> QED
    BY <2>1 DEF Adds
<1>3. ASSUME NEW x
      PROVE  PrincipalBack(c, x) = PrincipalBack(a, x) + (IF l = x THEN back + back2 ELSE 0)
  <2>1. PrincipalBack(a, x) \in Int
    BY BalancesAreInts
  <2> QED
    BY <2>1 DEF Adds
<1>4. \A i \in DOMAIN c :
          \/ i \in DOMAIN a /\ c[i] = a[i]
          \/ c[i].amount # 0 /\ c[i].reverses < i /\ c[i].meeting = m
  BY DEF Adds
<1> QED
  BY <1>1, <1>2, <1>3, <1>4 DEF Adds

LEMMA LedgerConstants ==
    /\ EntryCap \in Nat /\ MeetingCap \in Nat /\ Amount \subseteq Nat \ {0} /\ Counted \subseteq Nat
    /\ \A x \in Sessions : x.lines \in 0 .. EntryCap /\ x.meetings \in 0 .. MeetingCap
  BY LedgerAssumption DEF Session

\* What a request is.
LEMMA RequestIs ==
    ASSUME LedgerBooks, NEW s \in Staff
    PROVE  /\ work[s] \in LedgerRequest
           /\ RequestFits(work[s], HeldMeetings)
           /\ work[s].meeting \in MeetingNo \cup {NoId}
           /\ work[s].loan \in Loan \cup {NoId}
           /\ work[s].amount \in Int
           /\ work[s].charge \in Nat
           /\ work[s].copy \in MeetingRow
           /\ HeldMeetings \subseteq MeetingNo
           /\ meeting \in [MeetingNo -> MeetingRow]
           /\ loan \in [Loan -> LoanRow]
           /\ work \in [Staff -> LedgerRequest]
           /\ entries \in Seq(Entry)
           /\ Len(entries) \in Nat
  BY DEF LedgerBooks, LedgerTypeOK, LedgerRequest, HeldMeetings

LEMMA SavingsPosted ==
    ASSUME LedgerBooks, NEW s \in Staff, NEW amount \in Amount, RecordSavings(s, amount)
    PROVE  Posts(work[s].meeting, NoId, amount, 0)
<1>1. "SAVINGS" \in DOMAIN CASH_EFFECT
  BY DEF CASH_EFFECT
<1>2. amount \in Int /\ amount # 0 /\ 0 \in 0 .. EntryCap
  BY LedgerConstants
<1>3. PICK e : e = Line("SAVINGS", work[s].meeting, NoId, amount, 0)
  OBVIOUS
<1>4. /\ e \in Entry /\ e.type = "SAVINGS" /\ e.meeting = work[s].meeting /\ e.loan = NoId
      /\ e.amount = amount /\ e.reverses = 0
  BY <1>1, <1>2, <1>3, RequestIs DEF Line, Entry
<1>5. entries' = Append(entries, e)
  BY <1>3 DEF RecordSavings
<1>6. e.reverses <= Len(entries) /\ entries \in Seq(Entry)
  BY <1>4, RequestIs
<1>7. Posts(e.meeting, e.loan, CashFlow(e),
            IF e.type = "LOAN_PRINCIPAL_REPAYMENT" THEN CashFlow(e) ELSE 0)
  BY <1>2, <1>4, <1>5, <1>6, RequestIs, PostsOne DEF Posts
<1>8. CashFlow(e) = amount
  BY <1>4, FlowOf
<1> QED
  BY <1>4, <1>7, <1>8

LEMMA LoanPosted ==
    ASSUME LedgerBooks, NEW s \in Staff, NEW l \in Loan, Disburse(s, l)
    PROVE  Posts(work[s].meeting, l, -work[s].amount, 0)
<1>1. "LOAN_DISBURSEMENT" \in DOMAIN CASH_EFFECT
  BY DEF CASH_EFFECT
<1>2. work[s].amount \in Int /\ work[s].amount # 0 /\ 0 \in 0 .. EntryCap
  BY LedgerConstants, RequestIs DEF Disburse, At, RequestFits
<1>3. PICK e : e = Line("LOAN_DISBURSEMENT", work[s].meeting, l, work[s].amount, 0)
  OBVIOUS
<1>4. /\ e \in Entry /\ e.type = "LOAN_DISBURSEMENT" /\ e.meeting = work[s].meeting /\ e.loan = l
      /\ e.amount = work[s].amount /\ e.reverses = 0
  BY <1>1, <1>2, <1>3, RequestIs DEF Line, Entry
<1>5. entries' = Append(entries, e)
  BY <1>3 DEF Disburse
<1>6. e.reverses <= Len(entries) /\ entries \in Seq(Entry)
  BY <1>4, RequestIs
<1>7. Posts(e.meeting, e.loan, CashFlow(e),
            IF e.type = "LOAN_PRINCIPAL_REPAYMENT" THEN CashFlow(e) ELSE 0)
  BY <1>2, <1>4, <1>5, <1>6, RequestIs, PostsOne DEF Posts
<1>8. CashFlow(e) = -work[s].amount
  BY <1>4, FlowOf
<1> QED
  BY <1>4, <1>7, <1>8

LEMMA WriteOffPosted ==
    ASSUME LedgerBooks, NEW s \in Staff, WriteOff(s)
    PROVE  Posts(NoId, work[s].loan, 0, 0)
<1>1. "WRITE_OFF" \in DOMAIN CASH_EFFECT
  BY DEF CASH_EFFECT
<1>2. work[s].amount \in Int /\ work[s].amount # 0 /\ 0 \in 0 .. EntryCap
  BY LedgerConstants, RequestIs DEF WriteOff, At, RequestFits
<1>3. PICK e : e = Line("WRITE_OFF", NoId, work[s].loan, work[s].amount, 0)
  OBVIOUS
<1>4. /\ e \in Entry /\ e.type = "WRITE_OFF" /\ e.meeting = NoId /\ e.loan = work[s].loan
      /\ e.amount = work[s].amount /\ e.reverses = 0
  BY <1>1, <1>2, <1>3, RequestIs DEF Line, Entry
<1>5. entries' = Append(entries, e)
  BY <1>3 DEF WriteOff
<1>6. e.reverses <= Len(entries) /\ entries \in Seq(Entry)
  BY <1>4, RequestIs
<1>7. Posts(e.meeting, e.loan, CashFlow(e),
            IF e.type = "LOAN_PRINCIPAL_REPAYMENT" THEN CashFlow(e) ELSE 0)
  BY <1>2, <1>4, <1>5, <1>6, RequestIs, PostsOne DEF Posts
<1>8. CashFlow(e) = 0
  BY <1>4, FlowOf
<1> QED
  BY <1>4, <1>7, <1>8

LEMMA ReversalPosted ==
    ASSUME LedgerBooks, NEW i \in DOMAIN entries, ReverseEntry(i)
    PROVE  \E m \in HeldMeetings \cup {NoId} : \E l, flow, back : Posts(m, l, flow, back)
<1>1. /\ entries \in Seq(Entry)
      /\ entries[i] \in Entry /\ entries[i].amount # 0 /\ Len(entries) \in Nat
      /\ entries[i].meeting \in HeldMeetings \cup {NoId}
      /\ i \in Nat /\ i <= Len(entries)
  BY DEF LedgerBooks, LedgerTypeOK
<1>2. /\ entries[i].type \in DOMAIN CASH_EFFECT /\ entries[i].meeting \in MeetingNo \cup {NoId}
      /\ entries[i].loan \in Loan \cup {NoId} /\ entries[i].amount \in Int
  BY <1>1 DEF Entry
<1>3. i \in 0 .. EntryCap
  <2>1. session \in Sessions
    BY DEF LedgerBooks, LedgerTypeOK
  <2>2. Len(entries) + 1 <= session.lines
    BY DEF ReverseEntry, RoomFor
  <2> QED
    BY <1>1, <2>1, <2>2, LedgerConstants
<1>4. PICK e : e = Line(entries[i].type, entries[i].meeting, entries[i].loan, -entries[i].amount, i)
  OBVIOUS
<1>5. e \in Entry /\ e.meeting = entries[i].meeting /\ e.amount = -entries[i].amount
      /\ e.reverses = i
  BY <1>2, <1>3, <1>4 DEF Line, Entry
<1>6. entries' = Append(entries, e)
  BY <1>4 DEF ReverseEntry
<1>7. e.amount # 0 /\ e.reverses <= Len(entries)
  BY <1>1, <1>2, <1>5
<1>8. Posts(e.meeting, e.loan, CashFlow(e),
            IF e.type = "LOAN_PRINCIPAL_REPAYMENT" THEN CashFlow(e) ELSE 0)
  BY <1>1, <1>5, <1>6, <1>7, PostsOne DEF Posts
<1> QED
  BY <1>1, <1>5, <1>8

\* The lines that a part of a repayment comes to.
LEMMA PartPosted ==
    ASSUME NEW lines \in Seq(Entry), NEW k \in MeetingNo, NEW l \in Loan, NEW amount \in Nat,
           NEW type \in {"LOAN_PRINCIPAL_REPAYMENT", "LOAN_CHARGE_REPAYMENT"},
           NEW more,
           more = IF amount = 0 THEN lines ELSE Append(lines, Line(type, k, l, amount, 0))
    PROVE  /\ more \in Seq(Entry)
           /\ Adds(lines, more, k, l, amount,
                   IF type = "LOAN_PRINCIPAL_REPAYMENT" THEN amount ELSE 0)
<1>1. CASE amount = 0
  <2>1. /\ CashBalance(lines) = CashBalance(lines) + 0
        /\ \A x : Takings(lines, x) = Takings(lines, x) + 0
        /\ \A x : PrincipalBack(lines, x) = PrincipalBack(lines, x) + 0
    BY BalancesAreInts
  <2> QED
    BY <1>1, <2>1 DEF Adds
<1>2. CASE amount # 0
  <2>1. type \in DOMAIN CASH_EFFECT /\ 0 \in 0 .. EntryCap
    BY LedgerConstants DEF CASH_EFFECT
  <2>2. PICK e : e = Line(type, k, l, amount, 0)
    OBVIOUS
  <2>3. /\ e \in Entry /\ e.type = type /\ e.meeting = k /\ e.loan = l
        /\ e.amount = amount /\ e.reverses = 0
    BY <2>1, <2>2 DEF Line, Entry
  <2>4. CashFlow(e) = amount
    BY <2>3, FlowOf
  <2>5. more = Append(lines, e) /\ e.reverses <= Len(lines)
    BY <1>2, <2>2, <2>3
  <2>6. Adds(lines, Append(lines, e), e.meeting, e.loan, CashFlow(e),
             IF e.type = "LOAN_PRINCIPAL_REPAYMENT" THEN CashFlow(e) ELSE 0)
    BY <1>2, <2>3, <2>5, PostsOne
  <2>7. more \in Seq(Entry)
    BY <2>3, <2>5
  <2> QED
    BY <2>3, <2>4, <2>5, <2>6, <2>7
<1> QED
  BY <1>1, <1>2

LEMMA RepaymentPosted ==
    ASSUME LedgerBooks, NEW s \in Staff, Repay(s)
    PROVE  Posts(work[s].meeting, work[s].loan, work[s].amount + work[s].charge, work[s].amount)
<1>1. /\ work[s].meeting \in MeetingNo /\ work[s].loan \in Loan /\ work[s].amount \in Nat
      /\ work[s].charge \in Nat /\ entries \in Seq(Entry)
  BY RequestIs DEF Repay, At, RequestFits, MeetingOps
<1>2. PICK a, b : /\ a = IF work[s].amount = 0 THEN <<>>
                         ELSE <<Line("LOAN_PRINCIPAL_REPAYMENT", work[s].meeting, work[s].loan,
                                     work[s].amount, 0)>>
                  /\ b = IF work[s].charge = 0 THEN <<>>
                         ELSE <<Line("LOAN_CHARGE_REPAYMENT", work[s].meeting, work[s].loan,
                                     work[s].charge, 0)>>
                  /\ entries' = entries \o (a \o b)
  BY DEF Repay, RepaymentLines
<1>3. PICK first :
          first = IF work[s].amount = 0 THEN entries
                  ELSE Append(entries, Line("LOAN_PRINCIPAL_REPAYMENT", work[s].meeting,
                                            work[s].loan, work[s].amount, 0))
  OBVIOUS
<1>4. PICK second :
          second = IF work[s].charge = 0 THEN first
                   ELSE Append(first, Line("LOAN_CHARGE_REPAYMENT", work[s].meeting,
                                           work[s].loan, work[s].charge, 0))
  OBVIOUS
<1>5. /\ first \in Seq(Entry)
      /\ Adds(entries, first, work[s].meeting, work[s].loan, work[s].amount, work[s].amount)
  BY <1>1, <1>3, PartPosted
<1>6. /\ second \in Seq(Entry)
      /\ Adds(first, second, work[s].meeting, work[s].loan, work[s].charge, 0)
  BY <1>1, <1>4, <1>5, PartPosted
<1>7. Adds(entries, second, work[s].meeting, work[s].loan,
           work[s].amount + work[s].charge, work[s].amount + 0)
  BY <1>1, <1>5, <1>6, AddsTwice
<1>8. entries' = second
  <2>1. ASSUME NEW x, NEW y
        PROVE  /\ entries \o (<<>> \o <<>>) = entries
               /\ entries \o (<<x>> \o <<>>) = Append(entries, x)
               /\ entries \o (<<>> \o <<y>>) = Append(entries, y)
               /\ entries \o (<<x>> \o <<y>>) = Append(Append(entries, x), y)
    BY <1>1
  <2> QED
    BY <1>2, <1>3, <1>4, <2>1
<1> QED
  BY <1>1, <1>7, <1>8 DEF Posts

\* The number after the last exists.
LEMMA NextIs ==
    ASSUME LedgerBooks
    PROVE  /\ NextNumber \in 1 .. MeetingCap + 1
           /\ \A j \in HeldMeetings : j < NextNumber
           /\ NextNumber = 1 \/ NextNumber - 1 \in HeldMeetings
<1> DEFINE S == {k \in 1 .. MeetingCap + 1 : \A j \in HeldMeetings : j < k}
<1>1. MeetingCap \in Nat /\ HeldMeetings \subseteq 1 .. MeetingCap
  BY LedgerConstants DEF HeldMeetings, MeetingNo
<1>2. MeetingCap + 1 \in S
  BY <1>1
<1>3. PICK m \in S : \A k \in S : m <= k
  <2>1. S \subseteq Nat
    OBVIOUS
  <2>2. S # {}
    BY <1>2
  <2> HIDE DEF S
  <2> QED
    BY <2>1, <2>2, LeastNat
<1>4. m = 1 \/ m - 1 \in HeldMeetings
  <2>1. CASE m = 1
    BY <2>1
  <2>2. CASE m # 1
    <3>1. m - 1 \in 1 .. MeetingCap + 1 /\ ~ (m <= m - 1)
      BY <1>1, <1>3, <2>2
    <3>2. m - 1 \notin S
      BY <1>3, <3>1
    <3>3. PICK j \in HeldMeetings : ~ (j < m - 1)
      BY <3>1, <3>2
    <3>4. j < m
      BY <1>3
    <3> QED
      BY <1>1, <3>1, <3>3, <3>4
  <2> QED
    BY <2>1, <2>2
<1>5. \E k \in 1 .. MeetingCap + 1 : /\ \A j \in HeldMeetings : j < k
                                     /\ k = 1 \/ k - 1 \in HeldMeetings
  BY <1>4
<1> HIDE DEF S
<1> QED
  BY <1>5 DEF NextNumber

LEMMA LedgerBooksInit ==
    LedgerInit => LedgerBooks
<1> SUFFICES ASSUME LedgerInit PROVE LedgerBooks
  OBVIOUS
<1>1. meeting \in [MeetingNo -> MeetingRow]
  BY DEF LedgerInit, NoMeetingRow, MeetingRow, Blank
<1>2. \A k \in MeetingNo : meeting[k].status # "CLOSED"
  BY DEF LedgerInit, NoMeetingRow
<1>3. loan \in [Loan -> LoanRow]
  BY DEF LedgerInit, NoLoan, LoanRow
<1>4. work \in [Staff -> LedgerRequest]
  BY NoWorkFits DEF LedgerInit
<1>5. entries = <<>> /\ tillFlag \in BOOLEAN /\ session \in Sessions
  BY DEF LedgerInit
<1>5a. entries \in Seq(Entry) /\ DOMAIN entries = {}
  BY <1>5
<1>6. LedgerTypeOK
  BY <1>1, <1>2, <1>3, <1>4, <1>5, <1>5a DEF LedgerTypeOK
<1>7. \A s \in Staff : RequestFits(work[s], HeldMeetings)
  BY NoWorkFits DEF LedgerInit
<1> QED
  BY <1>5a, <1>6, <1>7 DEF LedgerBooks

\* What a step must show to keep the books well formed.
LEMMA BooksKept ==
    ASSUME LedgerBooks, session' = session,
           meeting' \in [MeetingNo -> MeetingRow],
           \A k \in MeetingNo :
              meeting'[k] = meeting[k]
                 \/ /\ meeting'[k].status # "ABSENT"
                    /\ meeting'[k].status = "CLOSED" => meeting'[k].counted # Blank,
           entries' = entries
             \/ \E m \in HeldMeetings \cup {NoId} : \E l, flow, back : Posts(m, l, flow, back),
           loan' \in [Loan -> LoanRow],
           tillFlag' \in BOOLEAN,
           work' = work
             \/ \E s \in Staff, r \in LedgerRequest :
                   RequestFits(r, HeldMeetings) /\ work' = [work EXCEPT ![s] = r]
    PROVE  LedgerBooks' /\ HeldMeetings \subseteq HeldMeetings'
<1>1. HeldMeetings \subseteq HeldMeetings'
  BY DEF HeldMeetings
<1>2. \A k \in MeetingNo : meeting'[k].status = "CLOSED" => meeting'[k].counted # Blank
  BY DEF LedgerBooks, LedgerTypeOK
<1>3. /\ entries' \in Seq(Entry)
      /\ \A i \in DOMAIN entries' : /\ entries'[i].amount # 0 /\ entries'[i].reverses < i
                                    /\ entries'[i].meeting \in HeldMeetings' \cup {NoId}
  <2>1. CASE entries' = entries
    BY <1>1, <2>1 DEF LedgerBooks, LedgerTypeOK
  <2>2. CASE \E m \in HeldMeetings \cup {NoId} : \E l, flow, back : Posts(m, l, flow, back)
    <3>1. PICK m \in HeldMeetings \cup {NoId} : \E l, flow, back : Posts(m, l, flow, back)
      BY <2>2
    <3>4. PICK l, flow, back : Posts(m, l, flow, back)
      BY <3>1
    <3>2. \A i \in DOMAIN entries' :
             \/ i \in DOMAIN entries /\ entries'[i] = entries[i]
             \/ /\ entries'[i].amount # 0 /\ entries'[i].reverses < i
                /\ entries'[i].meeting \in HeldMeetings \cup {NoId}
      BY <3>4 DEF Posts, Adds
    <3>3. entries' \in Seq(Entry)
      BY <3>4 DEF Posts, Adds
    <3> QED
      BY <1>1, <3>2, <3>3 DEF LedgerBooks, LedgerTypeOK
  <2> QED
    BY <2>1, <2>2
<1>4. /\ work' \in [Staff -> LedgerRequest]
      /\ \A p \in Staff : RequestFits(work[p], HeldMeetings)'
  <2>1. CASE work' = work
    BY <1>1, <2>1 DEF LedgerBooks, LedgerTypeOK, RequestFits
  <2>2. ASSUME NEW s \in Staff, NEW r \in LedgerRequest, RequestFits(r, HeldMeetings),
               work' = [work EXCEPT ![s] = r]
        PROVE  /\ work' \in [Staff -> LedgerRequest]
               /\ \A p \in Staff : RequestFits(work[p], HeldMeetings)'
    <3>1. RequestFits(r, HeldMeetings)'
      BY <1>1, <2>2 DEF RequestFits
    <3> QED
      BY <1>1, <2>2, <3>1, OtherRequests
  <2> QED
    BY <2>1, <2>2
<1>5. LedgerTypeOK'
  BY <1>2, <1>3, <1>4 DEF LedgerTypeOK, LedgerBooks
<1> QED
  BY <1>1, <1>3, <1>4, <1>5 DEF LedgerBooks

\* The steps that only begin a request or drop one.
LEMMA LedgerLooksKeep ==
    ASSUME LedgerBooks, NEW s \in Staff,
           \/ \E op \in LedgerOps, k \in MeetingNo : LoadMeeting(s, op, k)
           \/ Abort(s) \/ OpenLook(s)
           \/ \E l \in Loan : WriteOffLook(s, l)
    PROVE  /\ UNCHANGED <<meeting, entries, loan, tillFlag, session>>
           /\ \E r \in LedgerRequest :
                 RequestFits(r, HeldMeetings) /\ work' = [work EXCEPT ![s] = r]
<1>0. meeting \in [MeetingNo -> MeetingRow] /\ loan \in [Loan -> LoanRow]
  BY RequestIs
<1>1. ASSUME NEW op \in LedgerOps, NEW k \in MeetingNo, LoadMeeting(s, op, k)
      PROVE  /\ UNCHANGED <<meeting, entries, loan, tillFlag, session>>
             /\ \E r \in LedgerRequest :
                   RequestFits(r, HeldMeetings) /\ work' = [work EXCEPT ![s] = r]
  <2>1. PICK r : r = [NoWork EXCEPT !.op = op, !.meeting = k, !.copy = meeting[k]]
    OBVIOUS
  <2>2. meeting[k] \in MeetingRow /\ op \in MeetingOps /\ k \in HeldMeetings
    BY <1>0, <1>1 DEF LoadMeeting, MeetingOps
  <2>3. /\ r \in LedgerRequest /\ r.op = op /\ r.meeting = k /\ r.copy = meeting[k]
        /\ r.stage = "loaded"
    BY <2>1, <2>2, NoWorkFits DEF NoWork, LedgerRequest
  <2>4. meeting[k].status # "ABSENT" /\ (meeting[k].status = "CLOSED" => meeting[k].counted # Blank)
    BY <2>2 DEF HeldMeetings, LedgerBooks, LedgerTypeOK
  <2>5. RequestFits(r, HeldMeetings)
    BY <2>2, <2>3, <2>4 DEF RequestFits, MeetingOps
  <2> QED
    BY <1>1, <2>1, <2>3, <2>5 DEF LoadMeeting
<1>2. CASE Abort(s)
  BY <1>2, NoWorkFits DEF Abort, Ends
<1>3. CASE OpenLook(s)
  <2>1. PICK n : n = NextNumber
    OBVIOUS
  <2>2. n \in MeetingNo
    <3>1. NextNumber <= session.meetings /\ session \in Sessions
      BY <1>3 DEF OpenLook, LedgerBooks, LedgerTypeOK
    <3> QED
      BY <2>1, <3>1, NextIs, LedgerConstants DEF MeetingNo
  <2>3. PICK amount : amount = OpeningCash(entries)
    OBVIOUS
  <2>4. amount \in Int
    BY <2>3, BalancesAreInts, RequestIs DEF OpeningCash
  <2>5. PICK r : r = [NoWork EXCEPT !.op = "open", !.meeting = n, !.amount = amount]
    OBVIOUS
  <2>6. "open" \in LedgerOps
    BY DEF LedgerOps
  <2>7. r \in LedgerRequest /\ r.op = "open" /\ r.meeting = n
    BY <2>2, <2>4, <2>5, <2>6, NoWorkFits DEF NoWork, LedgerRequest
  <2>8. RequestFits(r, HeldMeetings)
    BY <2>2, <2>7 DEF RequestFits, MeetingOps
  <2> QED
    BY <1>3, <2>1, <2>3, <2>5, <2>7, <2>8 DEF OpenLook
<1>4. ASSUME NEW l \in Loan, WriteOffLook(s, l)
      PROVE  /\ UNCHANGED <<meeting, entries, loan, tillFlag, session>>
             /\ \E r \in LedgerRequest :
                   RequestFits(r, HeldMeetings) /\ work' = [work EXCEPT ![s] = r]
  <2>1. PICK amount : amount = Outstanding(loan[l])
    OBVIOUS
  <2>2. amount \in Int /\ amount # 0
    <3>1. loan[l].principal \in Int /\ loan[l].repaid \in Int
      BY <1>0 DEF LoanRow
    <3>2. amount # 0
      BY <1>4, <2>1 DEF WriteOffLook
    <3> QED
      BY <2>1, <3>1, <3>2 DEF Outstanding
  <2>3. PICK r : r = [NoWork EXCEPT !.op = "write_off", !.loan = l, !.amount = amount]
    OBVIOUS
  <2>4. "write_off" \in LedgerOps
    BY DEF LedgerOps
  <2>5. r \in LedgerRequest /\ r.op = "write_off" /\ r.loan = l /\ r.amount = amount
    BY <2>2, <2>3, <2>4, NoWorkFits DEF NoWork, LedgerRequest
  <2>6. RequestFits(r, HeldMeetings)
    BY <2>2, <2>5 DEF RequestFits, MeetingOps
  <2> QED
    BY <1>4, <2>1, <2>3, <2>5, <2>6 DEF WriteOffLook
<1> QED
  BY <1>1, <1>2, <1>3, <1>4

\* A request that has been checked goes on with what was found.
LEMMA CheckedIs ==
    ASSUME LedgerBooks, NEW s \in Staff, NEW amount \in Int, NEW charge \in Nat,
           NEW l \in Loan \cup {NoId}, Checked(s, amount, charge, l)
    PROVE  \E r \in LedgerRequest :
              /\ work' = [work EXCEPT ![s] = r]
              /\ r.op = work[s].op /\ r.meeting = work[s].meeting /\ r.copy = work[s].copy
              /\ r.stage = "checked" /\ r.amount = amount /\ r.charge = charge /\ r.loan = l
<1> DEFINE new == [work[s] EXCEPT !.stage = "checked", !.amount = amount, !.charge = charge,
                                  !.loan = l]
<1>1. work \in [Staff -> LedgerRequest] /\ work[s] \in LedgerRequest
  BY RequestIs
<1>2. new \in LedgerRequest
  BY <1>1 DEF LedgerRequest
<1>3. /\ new.op = work[s].op /\ new.meeting = work[s].meeting /\ new.copy = work[s].copy
      /\ new.stage = "checked" /\ new.amount = amount /\ new.charge = charge /\ new.loan = l
  BY <1>1 DEF LedgerRequest
<1>4. work' = [work EXCEPT ![s] = new]
  BY <1>1 DEF Checked
<1> HIDE DEF new
<1> QED
  BY <1>2, <1>3, <1>4

\* The same, of the check of a repayment.
LEMMA SettlingIs ==
    ASSUME LedgerBooks, NEW s \in Staff, RepayRead(s)
    PROVE  \E r \in LedgerRequest :
              /\ work' = [work EXCEPT ![s] = r]
              /\ r.op = work[s].op /\ r.meeting = work[s].meeting /\ r.copy = work[s].copy
              /\ r.stage = "settling" /\ r.amount = work[s].amount
              /\ r.charge = work[s].charge /\ r.loan = work[s].loan
              /\ r.settles <=> Settled(s)
<1> DEFINE new == [work[s] EXCEPT !.stage = "settling", !.settles = Settled(s)]
<1>1. work \in [Staff -> LedgerRequest] /\ work[s] \in LedgerRequest
  BY RequestIs
<1>2. Settled(s) \in BOOLEAN
  BY DEF Settled
<1>3. new \in LedgerRequest
  BY <1>1, <1>2 DEF LedgerRequest
<1>4. /\ new.op = work[s].op /\ new.meeting = work[s].meeting /\ new.copy = work[s].copy
      /\ new.stage = "settling" /\ new.amount = work[s].amount
      /\ new.charge = work[s].charge /\ new.loan = work[s].loan
      /\ new.settles = Settled(s)
  BY <1>1 DEF LedgerRequest
<1>5. work' = [work EXCEPT ![s] = new]
  BY <1>1 DEF RepayRead
<1> HIDE DEF new
<1> QED
  BY <1>2, <1>3, <1>4, <1>5

\* The books stay well formed, and no meeting disappears.
LEMMA LedgerBooksStep ==
    LedgerBooks /\ [LedgerNext]_ledgerVars => LedgerBooks' /\ HeldMeetings \subseteq HeldMeetings'
<1> SUFFICES ASSUME LedgerBooks, [LedgerNext]_ledgerVars
             PROVE  LedgerBooks' /\ HeldMeetings \subseteq HeldMeetings'
  OBVIOUS
<1>1. /\ meeting \in [MeetingNo -> MeetingRow] /\ loan \in [Loan -> LoanRow]
      /\ entries \in Seq(Entry) /\ tillFlag \in BOOLEAN
      /\ \A p \in Staff : work[p] \in LedgerRequest
  BY DEF LedgerBooks, LedgerTypeOK
<1> DEFINE Next1(r, s) == RequestFits(r, HeldMeetings) /\ work' = [work EXCEPT ![s] = r]
<1>2. ASSUME UNCHANGED ledgerVars PROVE LedgerBooks' /\ HeldMeetings \subseteq HeldMeetings'
  BY <1>1, <1>2, BooksKept DEF ledgerVars
<1>3. ASSUME NEW s \in Staff,
             UNCHANGED <<meeting, entries, loan, session>>, tillFlag' \in BOOLEAN,
             \E r \in LedgerRequest : Next1(r, s)
      PROVE  LedgerBooks' /\ HeldMeetings \subseteq HeldMeetings'
  BY <1>1, <1>3, BooksKept
<1>4. \A s \in Staff : \E r \in LedgerRequest :
         r = NoWork /\ RequestFits(r, HeldMeetings)
  BY NoWorkFits
<1>5. ASSUME NEW s \in Staff, NEW amount \in Nat, NEW charge \in Nat, NEW l \in Loan \cup {NoId},
             Checked(s, amount, charge, l),
             \/ work[s].op = "lend" /\ amount \in Amount
             \/ work[s].op = "repay" /\ l \in Loan
             \/ work[s].op = "close"
      PROVE  \E r \in LedgerRequest : Next1(r, s)
  <2>1. PICK r \in LedgerRequest :
           /\ work' = [work EXCEPT ![s] = r]
           /\ r.op = work[s].op /\ r.meeting = work[s].meeting /\ r.copy = work[s].copy
           /\ r.stage = "checked" /\ r.amount = amount /\ r.charge = charge /\ r.loan = l
    BY <1>5, CheckedIs
  <2>2. RequestFits(work[s], HeldMeetings)
    BY RequestIs
  <2>3. RequestFits(r, HeldMeetings)
    BY <1>5, <2>1, <2>2 DEF RequestFits, MeetingOps
  <2> QED
    BY <2>1, <2>3
<1> HIDE DEF Next1
<1>6. ASSUME NEW s \in Staff,
             \/ \E op \in LedgerOps, k \in MeetingNo : LoadMeeting(s, op, k)
             \/ Abort(s) \/ OpenLook(s)
             \/ \E l \in Loan : WriteOffLook(s, l)
      PROVE  LedgerBooks' /\ HeldMeetings \subseteq HeldMeetings'
  BY <1>1, <1>3, <1>6, LedgerLooksKeep DEF Next1
<1>7. ASSUME NEW s \in Staff, OpenMeeting(s)
      PROVE  LedgerBooks' /\ HeldMeetings \subseteq HeldMeetings'
  <2>1. PICK k : k = work[s].meeting
    OBVIOUS
  <2>2. k \in MeetingNo /\ work[s].amount \in Int
    BY <1>7, <2>1, RequestIs DEF OpenMeeting, RequestFits
  <2>3. /\ meeting' = [meeting EXCEPT ![k] = [status |-> "OPEN", opening |-> work[s].amount,
                                              counted |-> Blank]]
        /\ entries' = entries /\ loan' = loan /\ tillFlag' = tillFlag /\ session' = session
        /\ work' = [work EXCEPT ![s] = NoWork]
    BY <1>7, <2>1 DEF OpenMeeting, Ends
  <2>4. meeting' \in [MeetingNo -> MeetingRow]
    BY <1>1, <2>2, <2>3 DEF MeetingRow, Blank
  <2>5. \A j \in MeetingNo : meeting'[j] = meeting[j] \/ meeting'[j].status = "OPEN"
    BY <1>1, <2>2, <2>3
  <2> QED
    BY <1>1, <2>3, <2>4, <2>5, NoWorkFits, BooksKept
<1>8. ASSUME NEW s \in Staff, NEW counted \in Counted, CountTill(s, counted)
      PROVE  LedgerBooks' /\ HeldMeetings \subseteq HeldMeetings'
  <2>1. UNCHANGED <<meeting, entries, loan, session>> /\ tillFlag' \in BOOLEAN
    BY <1>1, <1>8 DEF CountTill, At
  <2>2. counted \in Nat /\ NoId \in Loan \cup {NoId} /\ work[s].op = "close" /\ 0 \in Nat
    BY <1>8, LedgerConstants DEF CountTill, At
  <2>3. Checked(s, counted, 0, NoId) \/ Ends(s)
    BY <1>8 DEF CountTill
  <2>4. \E r \in LedgerRequest : Next1(r, s)
    <3>1. CASE Checked(s, counted, 0, NoId)
      BY <1>5, <2>2, <3>1
    <3>2. CASE Ends(s)
      BY <1>4, <3>2 DEF Ends, Next1
    <3> QED
      BY <2>3, <3>1, <3>2
  <2> QED
    BY <1>3, <2>1, <2>4
<1>9. ASSUME NEW s \in Staff, CloseMeeting(s) \/ Amend(s)
      PROVE  LedgerBooks' /\ HeldMeetings \subseteq HeldMeetings'
  <2>1. PICK k : k = work[s].meeting
    OBVIOUS
  <2>2. /\ k \in HeldMeetings /\ k \in MeetingNo /\ work[s].copy \in MeetingRow
        /\ work[s].copy.status # "ABSENT"
        /\ work[s].copy.status = "CLOSED" => work[s].copy.counted # Blank
    BY <1>9, <2>1, RequestIs DEF CloseMeeting, Amend, At, RequestFits, MeetingOps
  <2>3. PICK row : meeting' = [meeting EXCEPT ![k] = row] /\ row \in MeetingRow
                    /\ row.status # "ABSENT" /\ (row.status = "CLOSED" => row.counted # Blank)
    <3>1. CASE CloseMeeting(s)
      <4>0. PICK copy, n : copy = work[s].copy /\ n = work[s].amount
        OBVIOUS
      <4> DEFINE new == [copy EXCEPT !.status = "CLOSED", !.counted = n]
      <4>1. n \in Nat
        BY <3>1, <4>0, RequestIs DEF CloseMeeting, At, RequestFits
      <4>2. new \in MeetingRow /\ new.status = "CLOSED" /\ new.counted # Blank
        <5>1. copy \in MeetingRow /\ n \in Int /\ n # -1
          BY <2>2, <4>0, <4>1
        <5>2. new \in MeetingRow
          BY <5>1 DEF MeetingRow
        <5> QED
          BY <5>1, <5>2 DEF MeetingRow, Blank
      <4>3. meeting' = [meeting EXCEPT ![k] = new]
        BY <2>1, <3>1, <4>0 DEF CloseMeeting
      <4> HIDE DEF new
      <4> QED
        BY <4>2, <4>3
    <3>2. CASE Amend(s)
      BY <2>1, <2>2, <3>2 DEF Amend
    <3> QED
      BY <1>9, <3>1, <3>2
  <2>4. /\ entries' = entries /\ loan' = loan /\ tillFlag' \in BOOLEAN /\ session' = session
        /\ work' = [work EXCEPT ![s] = NoWork]
    BY <1>1, <1>9 DEF CloseMeeting, Amend, At, Ends
  <2>5. meeting' \in [MeetingNo -> MeetingRow]
    BY <1>1, <2>2, <2>3
  <2>6. \A j \in MeetingNo :
           \/ meeting'[j] = meeting[j]
           \/ /\ meeting'[j].status # "ABSENT"
              /\ meeting'[j].status = "CLOSED" => meeting'[j].counted # Blank
    BY <1>1, <2>2, <2>3
  <2> QED
    BY <1>1, <2>4, <2>5, <2>6, NoWorkFits, BooksKept
<1>10. ASSUME NEW s \in Staff, NEW amount \in Amount, RecordSavings(s, amount)
       PROVE  LedgerBooks' /\ HeldMeetings \subseteq HeldMeetings'
  <2>1. work[s].meeting \in HeldMeetings /\ Posts(work[s].meeting, NoId, amount, 0)
    BY <1>10, SavingsPosted, RequestIs DEF RecordSavings, At, RequestFits, MeetingOps
  <2>2. /\ UNCHANGED <<meeting, loan, tillFlag, session>>
        /\ work' = [work EXCEPT ![s] = NoWork]
    BY <1>10 DEF RecordSavings, At, Ends
  <2> QED
    BY <1>1, <2>1, <2>2, NoWorkFits, BooksKept
<1>11. ASSUME NEW s \in Staff, NEW amount \in Amount, LendCheck(s, amount)
       PROVE  LedgerBooks' /\ HeldMeetings \subseteq HeldMeetings'
  <2>1. /\ UNCHANGED <<meeting, entries, loan, tillFlag, session>>
        /\ Checked(s, amount, 0, NoId) /\ work[s].op = "lend"
    BY <1>11 DEF LendCheck, At
  <2>2. amount \in Nat /\ 0 \in Nat /\ NoId \in Loan \cup {NoId}
    BY LedgerConstants
  <2>3. \E r \in LedgerRequest : Next1(r, s)
    BY <1>5, <2>1, <2>2
  <2> QED
    BY <1>1, <1>3, <2>1, <2>3
<1>12. ASSUME NEW s \in Staff, NEW l \in Loan, NEW principal \in Nat, NEW charge \in Nat,
              RepayCheck(s, l, principal, charge)
       PROVE  LedgerBooks' /\ HeldMeetings \subseteq HeldMeetings'
  <2>1. /\ UNCHANGED <<meeting, entries, loan, tillFlag, session>>
        /\ Checked(s, principal, charge, l) /\ work[s].op = "repay"
    BY <1>12 DEF RepayCheck, At
  <2>2. l \in Loan \cup {NoId}
    OBVIOUS
  <2>3. \E r \in LedgerRequest : Next1(r, s)
    BY <1>5, <2>1, <2>2
  <2> QED
    BY <1>1, <1>3, <2>1, <2>3
<1>13. ASSUME NEW s \in Staff, NEW l \in Loan, Disburse(s, l)
       PROVE  LedgerBooks' /\ HeldMeetings \subseteq HeldMeetings'
  <2>1. /\ work[s].meeting \in HeldMeetings /\ Posts(work[s].meeting, l, -work[s].amount, 0)
        /\ work[s].amount \in Amount
    BY <1>13, LoanPosted, RequestIs DEF Disburse, At, RequestFits, MeetingOps
  <2>2. /\ UNCHANGED <<meeting, tillFlag, session>>
        /\ work' = [work EXCEPT ![s] = NoWork]
        /\ loan' = [loan EXCEPT ![l] = [status |-> "DISBURSED", principal |-> work[s].amount,
                                        repaid |-> 0]]
    BY <1>13 DEF Disburse, At, Ends
  <2>3. loan' \in [Loan -> LoanRow]
    BY <1>1, <2>1, <2>2, LedgerConstants DEF LoanRow
  <2> QED
    BY <1>1, <2>1, <2>2, <2>3, NoWorkFits, BooksKept
<1>14. ASSUME NEW s \in Staff, RepayRead(s)
       PROVE  LedgerBooks' /\ HeldMeetings \subseteq HeldMeetings'
  <2>1. PICK r \in LedgerRequest :
           /\ work' = [work EXCEPT ![s] = r]
           /\ r.op = work[s].op /\ r.meeting = work[s].meeting /\ r.copy = work[s].copy
           /\ r.stage = "settling" /\ r.amount = work[s].amount
           /\ r.charge = work[s].charge /\ r.loan = work[s].loan
    BY <1>14, SettlingIs
  <2>2. /\ UNCHANGED <<meeting, entries, loan, tillFlag, session>>
        /\ work[s].op = "repay" /\ work[s].stage = "checked"
    BY <1>14 DEF RepayRead, At
  <2>3. RequestFits(r, HeldMeetings)
    BY <2>1, <2>2, RequestIs DEF RequestFits, MeetingOps
  <2> QED
    BY <1>1, <1>3, <2>1, <2>2, <2>3 DEF Next1
<1>15. ASSUME NEW s \in Staff, Repay(s)
       PROVE  LedgerBooks' /\ HeldMeetings \subseteq HeldMeetings'
  <2>1. /\ work[s].meeting \in HeldMeetings /\ work[s].loan \in Loan /\ work[s].amount \in Nat
        /\ Posts(work[s].meeting, work[s].loan, work[s].amount + work[s].charge, work[s].amount)
    BY <1>15, RepaymentPosted, RequestIs DEF Repay, At, RequestFits, MeetingOps
  <2>2. /\ UNCHANGED <<meeting, tillFlag, session>>
        /\ work' = [work EXCEPT ![s] = NoWork]
    BY <1>15 DEF Repay, At, Ends
  <2>3. loan' \in [Loan -> LoanRow]
    <3>1. loan' = [loan EXCEPT ![work[s].loan].repaid = @ + work[s].amount,
                               ![work[s].loan].status = IF work[s].settles THEN "REPAID" ELSE @]
      BY <1>15 DEF Repay
    <3>2. PICK l, n : l = work[s].loan /\ n = work[s].amount /\ l \in Loan /\ n \in Nat
      BY <2>1
    <3>3. PICK st, back, row :
             /\ st = IF work[s].settles THEN "REPAID" ELSE loan[l].status
             /\ row = loan[l] /\ back = row.repaid + n
      OBVIOUS
    <3>4. loan' = [loan EXCEPT ![l] = [row EXCEPT !.repaid = back, !.status = st]]
      BY <1>1, <3>1, <3>2, <3>3
    <3>5. row \in LoanRow /\ back \in Nat /\ st \in {"ABSENT", "DISBURSED", "REPAID", "WRITTEN_OFF"}
      BY <1>1, <3>2, <3>3 DEF LoanRow
    <3>6. [row EXCEPT !.repaid = back, !.status = st] \in LoanRow
      BY <3>5 DEF LoanRow
    <3> QED
      BY <1>1, <3>2, <3>4, <3>6
  <2> QED
    BY <1>1, <2>1, <2>2, <2>3, NoWorkFits, BooksKept
<1>16. ASSUME NEW s \in Staff, WriteOff(s)
       PROVE  LedgerBooks' /\ HeldMeetings \subseteq HeldMeetings'
  <2>1. Posts(NoId, work[s].loan, 0, 0) /\ work[s].loan \in Loan
    BY <1>16, WriteOffPosted, RequestIs DEF WriteOff, At, RequestFits
  <2>2. /\ UNCHANGED <<meeting, tillFlag, session>>
        /\ work' = [work EXCEPT ![s] = NoWork]
        /\ loan' = [loan EXCEPT ![work[s].loan].status = "WRITTEN_OFF"]
    BY <1>16 DEF WriteOff, At, Ends
  <2>3. loan' \in [Loan -> LoanRow]
    BY <1>1, <2>1, <2>2 DEF LoanRow
  <2> QED
    BY <1>1, <2>1, <2>2, <2>3, NoWorkFits, BooksKept
<1>17. ASSUME NEW i \in DOMAIN entries, ReverseEntry(i)
       PROVE  LedgerBooks' /\ HeldMeetings \subseteq HeldMeetings'
  <2>1. UNCHANGED <<meeting, loan, tillFlag, work, session>>
    BY <1>17 DEF ReverseEntry
  <2> QED
    BY <1>1, <1>17, <2>1, ReversalPosted, BooksKept
<1>18. \A amount \in Amount : amount \in Nat /\ 0 \in Nat
  BY LedgerConstants
<1> QED
  BY <1>2, <1>6, <1>7, <1>8, <1>9, <1>10, <1>11, <1>12, <1>13, <1>14, <1>15, <1>16, <1>17, <1>18
     DEF LedgerNext

\* Rows, lines and requests are well formed, whoever records and however the
\* requests overlap.
THEOREM LedgerTypes ==
    LedgerSpec => []LedgerTypeOK
<1>1. LedgerBooks /\ [LedgerNext]_ledgerVars => LedgerBooks'
  BY LedgerBooksStep
<1>2. LedgerBooks => LedgerTypeOK
  BY DEF LedgerBooks
<1> QED
  BY <1>1, <1>2, LedgerBooksInit, PTL DEF LedgerSpec

\* Whatever is posted while a till is counted, a closing meeting records what its
\* lines add up to: close_meeting's check and wlt_check_meeting_reconciles.
THEOREM LedgerTillReconciles ==
    LedgerSpec => TillReconciles
<1> DEFINE Closing(k) ==
        meeting[k].status # "CLOSED" /\ meeting'[k].status = "CLOSED"
           => meeting'[k].counted = ExpectedCash(meeting'[k], k, entries')
<1>1. ASSUME LedgerBooks, [LedgerNext]_ledgerVars, NEW k \in MeetingNo
      PROVE  Closing(k)
  <2>1. meeting \in [MeetingNo -> MeetingRow]
    BY <1>1 DEF LedgerBooks, LedgerTypeOK
  <2>2. CASE \E s \in Staff : OpenMeeting(s)
    <3>1. PICK s \in Staff : OpenMeeting(s)
      BY <2>2
    <3>2. meeting'[k] = meeting[k] \/ meeting'[k].status = "OPEN"
      BY <2>1, <3>1 DEF OpenMeeting
    <3> QED
      BY <3>2
  <2>3. CASE \E s \in Staff : CloseMeeting(s) \/ Amend(s)
    <3>1. PICK s \in Staff : CloseMeeting(s) \/ Amend(s)
      BY <2>3
    <3>2. PICK row : /\ meeting' = [meeting EXCEPT ![work[s].meeting] = row]
                      /\ Reconciles(row, work[s].meeting)
      BY <3>1 DEF CloseMeeting, Amend
    <3>3. entries' = entries
      BY <3>1 DEF CloseMeeting, Amend
    <3>4. meeting'[k] = meeting[k] \/ (k = work[s].meeting /\ meeting'[k] = row)
      BY <2>1, <3>2
    <3> QED
      BY <3>2, <3>3, <3>4 DEF Reconciles
  <2>4. CASE meeting' = meeting
    BY <2>4
  <2>5. ASSUME NEW s \in Staff, NEW op, NEW n, NEW m, NEW l,
               \/ LoadMeeting(s, op, n) \/ Abort(s) \/ OpenLook(s) \/ CountTill(s, n)
               \/ RecordSavings(s, n) \/ LendCheck(s, n) \/ RepayCheck(s, l, n, m)
        PROVE  meeting' = meeting
    BY <2>5 DEF LoadMeeting, Abort, OpenLook, CountTill, RecordSavings, LendCheck, RepayCheck
  <2>6. ASSUME NEW s \in Staff, NEW l,
               Disburse(s, l) \/ WriteOffLook(s, l) \/ RepayRead(s) \/ Repay(s) \/ WriteOff(s)
        PROVE  meeting' = meeting
    BY <2>6 DEF Disburse, WriteOffLook, RepayRead, Repay, WriteOff
  <2>7. ASSUME NEW i, ReverseEntry(i) PROVE meeting' = meeting
    BY <2>7 DEF ReverseEntry
  <2>8. CASE UNCHANGED ledgerVars
    BY <2>4, <2>8 DEF ledgerVars
  <2> HIDE DEF Closing
  <2> QED
    BY <1>1, <2>2, <2>3, <2>4, <2>5, <2>6, <2>7, <2>8 DEF LedgerNext
<1>2. LedgerBooks /\ [LedgerNext]_ledgerVars => \A k \in MeetingNo : Closing(k)
  BY <1>1
<1>3. LedgerBooks /\ [LedgerNext]_ledgerVars => LedgerBooks'
  BY LedgerBooksStep
<1>4. LedgerBooks /\ [LedgerNext]_ledgerVars
         => [\A k \in MeetingNo :
               meeting[k].status # "CLOSED" /\ meeting'[k].status = "CLOSED"
                  => meeting'[k].counted = ExpectedCash(meeting'[k], k, entries')]_ledgerVars
  BY <1>2
<1> QED
  BY <1>3, <1>4, LedgerBooksInit, PTL DEF LedgerSpec, TillReconciles

-----------------------------------------------------------------------------
(* Loans, one request at a time.                                           *)

OneAtWork == \A s, p \in Staff : work[s] # NoWork /\ work[p] # NoWork => s = p

\* What a request still relies on.
LoanRequestStands(w) ==
    /\ w.op = "lend" /\ w.stage = "checked" /\ MaxLoans # 0 => Cardinality(LoansOut) < MaxLoans
    /\ w.op = "repay" /\ w.stage # "loaded" => w.amount <= Outstanding(loan[w.loan])
    /\ w.op = "repay" /\ w.stage = "settling"
          => (w.settles <=> Outstanding(loan[w.loan]) <= w.amount)

LoanOwes(row) ==
    /\ row.status = "DISBURSED" => Outstanding(row) > 0
    /\ row.status = "REPAID" => Outstanding(row) = 0

LoansStand ==
    session.atOnce = 1 =>
        /\ OneAtWork
        /\ MaxLoans # 0 => Cardinality(LoansOut) <= MaxLoans
        /\ \A l \in Loan : LoanOwes(loan[l])
        /\ \A s \in Staff : LoanRequestStands(work[s])

BackAsBooked ==
    "reverse" \notin session.does => \A l \in Loan : PrincipalBack(entries, l) = loan[l].repaid

LEMMA LedgerFinite ==
    /\ IsFiniteSet(Loan) /\ IsFiniteSet(Staff)
    /\ MaxLoans \in Nat /\ ReservePct \in 0 .. 100 /\ MinMeetings \in Nat
  BY LedgerAssumption

LEMMA BeginsAlone ==
    ASSUME NEW s \in Staff, NEW op, Begins(s, op), session.atOnce = 1
    PROVE  \A p \in Staff : work[p] = NoWork
<1> DEFINE busy == {p \in Staff : work[p] # NoWork}
<1>1. IsFiniteSet(busy)
  BY LedgerFinite, FS_Subset
<1>2. Cardinality(busy) \in Nat /\ Cardinality(busy) < 1
  BY <1>1, FS_CardinalityType DEF Begins
<1>3. busy = {}
  BY <1>1, <1>2, FS_EmptySet
<1> QED
  BY <1>3

\* Who steps is the only one at work, before and after.
LEMMA WorksAlone ==
    ASSUME LedgerBooks, OneAtWork, NEW s \in Staff, NEW r,
           work' = [work EXCEPT ![s] = r],
           work[s] # NoWork \/ \A p \in Staff : work[p] = NoWork
    PROVE  OneAtWork' /\ work'[s] = r /\ \A p \in Staff : p # s => work'[p] = NoWork
<1>1. work \in [Staff -> LedgerRequest]
  BY RequestIs
<1>2. work'[s] = r /\ \A p \in Staff : p # s => work'[p] = work[p] /\ work[p] = NoWork
  BY <1>1 DEF OneAtWork
<1>3. OneAtWork'
  BY <1>2 DEF OneAtWork
<1> QED
  BY <1>2, <1>3

LEMMA NoWorkStands ==
    LoanRequestStands(NoWork) /\ LoanRequestStands(NoWork)'
  BY DEF LoanRequestStands, NoWork

\* A step that leaves the loans alone.
LEMMA LoansUntouched ==
    ASSUME LedgerBooks, LoansStand, loan' = loan, session' = session, NEW s \in Staff, NEW r,
           work' = [work EXCEPT ![s] = r], LoanRequestStands(r),
           session.atOnce = 1 => work[s] # NoWork \/ \A p \in Staff : work[p] = NoWork
    PROVE  LoansStand'
<1> SUFFICES ASSUME session.atOnce = 1 PROVE LoansStand'
  BY DEF LoansStand
<1>1. OneAtWork' /\ work'[s] = r /\ \A p \in Staff : p # s => work'[p] = NoWork
  BY WorksAlone DEF LoansStand
<1>2. LoansOut' = LoansOut
  BY DEF LoansOut
<1>3. LoanRequestStands(r)'
  BY <1>2 DEF LoanRequestStands
<1>4. \A p \in Staff : LoanRequestStands(work[p])'
  BY <1>1, <1>3, NoWorkStands
<1> QED
  BY <1>1, <1>2, <1>4 DEF LoansStand, LoanOwes

\* A step that writes one loan and ends its request.
LEMMA LoanWritten ==
    ASSUME LedgerBooks, LoansStand, session' = session, NEW s \in Staff, work[s] # NoWork,
           work' = [work EXCEPT ![s] = NoWork], NEW l \in Loan, NEW row,
           loan' = [loan EXCEPT ![l] = row], session.atOnce = 1 => LoanOwes(row),
           row.status = "DISBURSED" /\ loan[l].status # "DISBURSED" /\ session.atOnce = 1
              => (MaxLoans # 0 => Cardinality(LoansOut) < MaxLoans)
    PROVE  LoansStand'
<1> SUFFICES ASSUME session.atOnce = 1 PROVE LoansStand'
  BY DEF LoansStand
<1>1. loan \in [Loan -> LoanRow]
  BY RequestIs
<1>2. OneAtWork' /\ work'[s] = NoWork /\ \A p \in Staff : p # s => work'[p] = NoWork
  BY WorksAlone DEF LoansStand
<1>3. \A p \in Staff : LoanRequestStands(work[p])'
  BY <1>2, NoWorkStands
<1>4. \A x \in Loan : LoanOwes(loan[x])'
  <2>1. LoanOwes(row)'
    BY DEF LoanOwes, Outstanding
  <2>2. \A x \in Loan : LoanOwes(loan'[x])
    BY <1>1 DEF LoansStand
  <2> QED
    BY <2>2
<1>5. IsFiniteSet(LoansOut) /\ Cardinality(LoansOut) \in Nat
  BY LedgerFinite, FS_Subset, FS_CardinalityType DEF LoansOut
<1>6. MaxLoans # 0 => Cardinality(LoansOut') <= MaxLoans
  <2>1. CASE row.status = "DISBURSED" /\ loan[l].status # "DISBURSED"
    <3>1. LoansOut' = LoansOut \cup {l} /\ l \notin LoansOut
      BY <1>1, <2>1 DEF LoansOut
    <3>2. Cardinality(LoansOut') = Cardinality(LoansOut) + 1
      BY <1>5, <3>1, FS_AddElement
    <3> QED
      BY <1>5, <2>1, <3>2, LedgerFinite
  <2>2. CASE ~ (row.status = "DISBURSED" /\ loan[l].status # "DISBURSED")
    <3>1. LoansOut' \subseteq LoansOut
      BY <1>1, <2>2 DEF LoansOut
    <3>2. IsFiniteSet(LoansOut') /\ Cardinality(LoansOut') <= Cardinality(LoansOut)
      BY <1>5, <3>1, FS_Subset
    <3>3. Cardinality(LoansOut') \in Nat
      BY <3>2, FS_CardinalityType
    <3> QED
      BY <1>5, <3>2, <3>3, LedgerFinite DEF LoansStand
  <2> QED
    BY <2>1, <2>2
<1> QED
  BY <1>2, <1>3, <1>4, <1>6 DEF LoansStand

\* The row a repayment writes.
LEMMA RepaidRow ==
    ASSUME LedgerBooks, NEW s \in Staff, Repay(s)
    PROVE  \E row \in LoanRow :
              /\ loan' = [loan EXCEPT ![work[s].loan] = row]
              /\ row.principal = loan[work[s].loan].principal
              /\ row.repaid = loan[work[s].loan].repaid + work[s].amount
              /\ row.status = IF work[s].settles THEN "REPAID" ELSE loan[work[s].loan].status
<1>1. loan \in [Loan -> LoanRow] /\ work[s].loan \in Loan /\ work[s].amount \in Nat
  BY RequestIs DEF Repay, At, RequestFits
<1>2. loan' = [loan EXCEPT ![work[s].loan].repaid = @ + work[s].amount,
                           ![work[s].loan].status = IF work[s].settles THEN "REPAID" ELSE @]
  BY DEF Repay
<1>3. PICK l, n, st, back, old :
         /\ l = work[s].loan /\ n = work[s].amount
         /\ st = IF work[s].settles THEN "REPAID" ELSE loan[l].status
         /\ old = loan[l] /\ back = old.repaid + n
  OBVIOUS
<1> DEFINE row == [old EXCEPT !.repaid = back, !.status = st]
<1>4. loan' = [loan EXCEPT ![l] = row]
  BY <1>1, <1>2, <1>3
<1>5. old \in LoanRow /\ back \in Nat /\ st \in {"ABSENT", "DISBURSED", "REPAID", "WRITTEN_OFF"}
  BY <1>1, <1>3 DEF LoanRow
<1>6. row \in LoanRow /\ row.principal = old.principal /\ row.repaid = back /\ row.status = st
  BY <1>5 DEF LoanRow
<1> HIDE DEF row
<1> QED
  BY <1>3, <1>4, <1>6

LEMMA LoansStandInit ==
    LedgerInit => LoansStand /\ BackAsBooked
<1> SUFFICES ASSUME LedgerInit PROVE LoansStand /\ BackAsBooked
  OBVIOUS
<1>1. LoansOut = {}
  BY DEF LedgerInit, LoansOut, NoLoan
<1>2. Cardinality(LoansOut) <= MaxLoans
  BY <1>1, FS_EmptySet, LedgerFinite
<1>3. LoansStand
  BY <1>2, NoWorkStands DEF LedgerInit, LoansStand, OneAtWork, LoanOwes, NoLoan
<1>4. ASSUME NEW l \in Loan PROVE PrincipalBack(entries, l) = loan[l].repaid
  <2>1. entries = <<>> /\ loan[l].repaid = 0
    BY DEF LedgerInit, NoLoan
  <2>2. entries \in Seq(Entry) /\ Len(entries) = 0
    BY <2>1
  <2>3. PrincipalBack(entries, l) = 0
    <3>1. PICK at : at = {i \in DOMAIN entries : /\ entries[i].loan = l
                                                /\ entries[i].type = "LOAN_PRINCIPAL_REPAYMENT"}
      OBVIOUS
    <3>2. \A n \in 1 .. Len(entries) : n \notin at
      BY <2>2
    <3>3. BalanceOf(entries, at) = 0
      BY <2>2, <3>2, NothingTaken
    <3> QED
      BY <3>1, <3>3 DEF PrincipalBack
  <2> QED
    BY <2>1, <2>3
<1> QED
  BY <1>3, <1>4 DEF BackAsBooked

LEMMA LoansStandStep ==
    LedgerBooks /\ LoansStand /\ [LedgerNext]_ledgerVars => LoansStand'
<1> SUFFICES ASSUME LedgerBooks, LoansStand, [LedgerNext]_ledgerVars PROVE LoansStand'
  OBVIOUS
<1>1. /\ work \in [Staff -> LedgerRequest] /\ loan \in [Loan -> LoanRow]
      /\ \A s \in Staff : work[s] \in LedgerRequest
  BY RequestIs DEF LedgerBooks, LedgerTypeOK
<1>2. ASSUME UNCHANGED ledgerVars PROVE LoansStand'
  BY <1>2 DEF ledgerVars, LoansStand, OneAtWork, LoansOut, LoanOwes, LoanRequestStands
<1>3. ASSUME NEW s \in Staff, UNCHANGED <<loan, session>>, NEW r, work' = [work EXCEPT ![s] = r],
             r.op \notin {"lend", "repay"} \/ r.stage = "loaded",
             session.atOnce = 1 => work[s] # NoWork \/ \A p \in Staff : work[p] = NoWork
      PROVE  LoansStand'
  BY <1>3, LoansUntouched DEF LoanRequestStands
<1>4. NoWork.stage = "loaded"
  BY DEF NoWork
<1>5. ASSUME NEW s \in Staff, NEW op, NEW stage, At(s, op, stage), op # "none"
      PROVE  work[s] # NoWork /\ session' = session /\ work[s].op = op /\ work[s].stage = stage
  BY <1>5 DEF At, NoWork
<1>6. ASSUME NEW s \in Staff, NEW op \in LedgerOps, NEW k \in MeetingNo, LoadMeeting(s, op, k)
      PROVE  LoansStand'
  <2>1. PICK r : r = [NoWork EXCEPT !.op = op, !.meeting = k, !.copy = meeting[k]]
    OBVIOUS
  <2>2. r.stage = "loaded"
    BY <2>1 DEF NoWork
  <2> QED
    BY <1>3, <1>6, <2>1, <2>2, BeginsAlone DEF LoadMeeting
<1>7. ASSUME NEW s \in Staff, Abort(s) PROVE LoansStand'
  BY <1>3, <1>4, <1>7 DEF Abort, Ends
<1>8. ASSUME NEW s \in Staff, OpenLook(s) PROVE LoansStand'
  <2>1. PICK r : /\ r = [NoWork EXCEPT !.op = "open", !.meeting = NextNumber,
                                      !.amount = OpeningCash(entries)]
                 /\ work' = [work EXCEPT ![s] = r]
    BY <1>8 DEF OpenLook
  <2>2. r.stage = "loaded"
    BY <2>1 DEF NoWork
  <2> QED
    BY <1>3, <1>8, <2>1, <2>2, BeginsAlone DEF OpenLook
<1>9. ASSUME NEW s \in Staff, NEW l \in Loan, WriteOffLook(s, l) PROVE LoansStand'
  <2>1. PICK r : /\ r = [NoWork EXCEPT !.op = "write_off", !.loan = l,
                                      !.amount = Outstanding(loan[l])]
                 /\ work' = [work EXCEPT ![s] = r]
    BY <1>9 DEF WriteOffLook
  <2>2. r.stage = "loaded"
    BY <2>1 DEF NoWork
  <2> QED
    BY <1>3, <1>9, <2>1, <2>2, BeginsAlone DEF WriteOffLook
<1>10. ASSUME NEW s \in Staff, OpenMeeting(s) PROVE LoansStand'
  <2>1. work[s] # NoWork
    BY <1>10 DEF OpenMeeting, NoWork
  <2> QED
    BY <1>3, <1>4, <1>10, <2>1 DEF OpenMeeting, Ends
<1>11. ASSUME NEW s \in Staff, NEW counted \in Counted, CountTill(s, counted) PROVE LoansStand'
  <2>1. work[s] # NoWork /\ UNCHANGED <<loan, session>> /\ work[s].op = "close"
    BY <1>5, <1>11 DEF CountTill
  <2>2. CASE Ends(s)
    BY <1>3, <1>4, <2>1, <2>2 DEF Ends
  <2>3. CASE Checked(s, counted, 0, NoId)
    <3>1. counted \in Int /\ 0 \in Nat /\ NoId \in Loan \cup {NoId}
      BY LedgerConstants
    <3>2. PICK r \in LedgerRequest : work' = [work EXCEPT ![s] = r] /\ r.op = "close"
      BY <2>1, <2>3, <3>1, CheckedIs
    <3> QED
      BY <1>3, <2>1, <3>2
  <2> QED
    BY <1>11, <2>2, <2>3 DEF CountTill
<1>12. ASSUME NEW s \in Staff, CloseMeeting(s) \/ Amend(s) PROVE LoansStand'
  <2>1. work[s] # NoWork /\ UNCHANGED <<loan, session>> /\ Ends(s)
    BY <1>5, <1>12 DEF CloseMeeting, Amend
  <2> QED
    BY <1>3, <1>4, <2>1 DEF Ends
<1>13. ASSUME NEW s \in Staff, NEW amount \in Amount, RecordSavings(s, amount) PROVE LoansStand'
  <2>1. work[s] # NoWork /\ UNCHANGED <<loan, session>> /\ Ends(s)
    BY <1>5, <1>13 DEF RecordSavings
  <2> QED
    BY <1>3, <1>4, <2>1 DEF Ends
<1>14. ASSUME NEW s \in Staff, NEW amount \in Amount, LendCheck(s, amount) PROVE LoansStand'
  <2>1. /\ work[s] # NoWork /\ work[s].op = "lend" /\ UNCHANGED <<loan, session>>
        /\ Checked(s, amount, 0, NoId)
    BY <1>5, <1>14 DEF LendCheck
  <2>2. amount \in Int /\ 0 \in Nat /\ NoId \in Loan \cup {NoId}
    BY LedgerConstants
  <2>3. PICK r \in LedgerRequest : work' = [work EXCEPT ![s] = r] /\ r.op = "lend"
    BY <2>1, <2>2, CheckedIs
  <2>4. LoanRequestStands(r)
    BY <1>14, <2>3 DEF LoanRequestStands, LendCheck
  <2> QED
    BY <2>1, <2>3, <2>4, LoansUntouched
<1>15. ASSUME NEW s \in Staff, NEW l \in Loan, NEW principal \in Nat, NEW charge \in Nat,
              RepayCheck(s, l, principal, charge)
       PROVE  LoansStand'
  <2>1. /\ work[s] # NoWork /\ work[s].op = "repay" /\ UNCHANGED <<loan, session>>
        /\ Checked(s, principal, charge, l)
    BY <1>5, <1>15 DEF RepayCheck
  <2>2. PICK r \in LedgerRequest : /\ work' = [work EXCEPT ![s] = r]
                                   /\ r.op = "repay" /\ r.stage = "checked"
                                   /\ r.loan = l /\ r.amount = principal
    BY <2>1, CheckedIs
  <2>3. LoanRequestStands(r)
    BY <1>15, <2>2 DEF LoanRequestStands, RepayCheck
  <2> QED
    BY <2>1, <2>2, <2>3, LoansUntouched
<1>16. ASSUME NEW s \in Staff, RepayRead(s) PROVE LoansStand'
  <2>1. /\ work[s] # NoWork /\ work[s].op = "repay" /\ work[s].stage = "checked"
        /\ UNCHANGED <<loan, session>>
    BY <1>5, <1>16 DEF RepayRead
  <2>2. PICK r \in LedgerRequest :
           /\ work' = [work EXCEPT ![s] = r]
           /\ r.op = work[s].op /\ r.stage = "settling" /\ r.amount = work[s].amount
           /\ r.loan = work[s].loan
           /\ r.settles <=> Settled(s)
    BY <1>16, SettlingIs
  <2>3. session.atOnce = 1 => LoanRequestStands(r)
    BY <2>1, <2>2 DEF LoanRequestStands, LoansStand, Settled
  <2>4. session.atOnce = 1 => LoansStand'
    BY <2>1, <2>2, <2>3, LoansUntouched
  <2> QED
    BY <2>1, <2>4 DEF LoansStand
<1>17. ASSUME NEW s \in Staff, NEW l \in Loan, Disburse(s, l) PROVE LoansStand'
  <2>1. /\ work[s] # NoWork /\ work[s].op = "lend" /\ work[s].stage = "checked"
        /\ session' = session /\ Ends(s)
    BY <1>5, <1>17 DEF Disburse
  <2>2. PICK row : /\ row = [status |-> "DISBURSED", principal |-> work[s].amount, repaid |-> 0]
                   /\ loan' = [loan EXCEPT ![l] = row]
    BY <1>17 DEF Disburse
  <2>3. work[s].amount \in Nat /\ work[s].amount > 0
    BY <2>1, RequestIs, LedgerConstants DEF RequestFits
  <2>4. LoanOwes(row)
    BY <2>2, <2>3 DEF LoanOwes, Outstanding
  <2>5. session.atOnce = 1 /\ MaxLoans # 0 => Cardinality(LoansOut) < MaxLoans
    BY <2>1 DEF LoansStand, LoanRequestStands
  <2> QED
    BY <2>1, <2>2, <2>4, <2>5, LoanWritten DEF Ends
<1>18. ASSUME NEW s \in Staff, Repay(s) PROVE LoansStand'
  <2>1. /\ work[s] # NoWork /\ work[s].op = "repay" /\ work[s].stage = "settling"
        /\ session' = session /\ Ends(s)
    BY <1>5, <1>18 DEF Repay
  <2>2. PICK l : l = work[s].loan
    OBVIOUS
  <2>3. PICK row \in LoanRow :
           /\ loan' = [loan EXCEPT ![l] = row]
           /\ row.principal = loan[l].principal
           /\ row.repaid = loan[l].repaid + work[s].amount
           /\ row.status = IF work[s].settles THEN "REPAID" ELSE loan[l].status
    BY <1>18, <2>2, RepaidRow
  <2>4. l \in Loan /\ work[s].amount \in Nat /\ loan[l].principal \in Nat /\ loan[l].repaid \in Nat
    BY <1>1, <2>1, <2>2, RequestIs DEF RequestFits, LoanRow
  <2>5. session.atOnce = 1 => LoanOwes(row)
    <3> SUFFICES ASSUME session.atOnce = 1 PROVE LoanOwes(row)
      OBVIOUS
    <3>1. /\ work[s].amount <= Outstanding(loan[l])
          /\ work[s].settles <=> Outstanding(loan[l]) <= work[s].amount
          /\ LoanOwes(loan[l])
      BY <2>1, <2>2, <2>4 DEF LoansStand, LoanRequestStands
    <3>2. Outstanding(row) = Outstanding(loan[l]) - work[s].amount
      BY <2>3, <2>4 DEF Outstanding
    <3>3. Outstanding(loan[l]) \in Int
      BY <2>4 DEF Outstanding
    <3>4. CASE work[s].settles
      <4>1. row.status = "REPAID"
        BY <2>3, <3>4
      <4> QED
        BY <2>4, <3>1, <3>2, <3>3, <3>4, <4>1 DEF LoanOwes
    <3>5. CASE ~ work[s].settles
      <4>1. row.status = loan[l].status
        BY <2>3, <3>5
      <4>2. Outstanding(loan[l]) > work[s].amount
        BY <2>4, <3>1, <3>3, <3>5
      <4> QED
        BY <2>4, <3>1, <3>2, <3>3, <4>1, <4>2 DEF LoanOwes
    <3> QED
      BY <3>4, <3>5
  <2>6. row.status # "DISBURSED" \/ loan[l].status = "DISBURSED"
    BY <2>3
  <2> QED
    BY <2>1, <2>3, <2>4, <2>5, <2>6, LoanWritten DEF Ends
<1>19. ASSUME NEW s \in Staff, WriteOff(s) PROVE LoansStand'
  <2>1. work[s] # NoWork /\ session' = session /\ Ends(s) /\ work[s].loan \in Loan
    BY <1>5, <1>19, RequestIs DEF WriteOff, At, RequestFits
  <2>2. PICK l, row : /\ l = work[s].loan /\ row = [loan[l] EXCEPT !.status = "WRITTEN_OFF"]
                      /\ loan' = [loan EXCEPT ![l] = row]
    BY <1>19 DEF WriteOff
  <2>3. row.status = "WRITTEN_OFF"
    BY <1>1, <2>1, <2>2 DEF LoanRow
  <2>4. LoanOwes(row)
    BY <2>3 DEF LoanOwes
  <2> QED
    BY <2>1, <2>2, <2>3, <2>4, LoanWritten DEF Ends
<1>20. ASSUME NEW i \in DOMAIN entries, ReverseEntry(i) PROVE LoansStand'
  BY <1>20 DEF ReverseEntry, LoansStand, OneAtWork, LoansOut, LoanOwes, LoanRequestStands
<1>21. \A amount \in Amount : amount \in Nat /\ 0 \in Nat
  BY LedgerConstants
<1> QED
  BY <1>2, <1>6, <1>7, <1>8, <1>9, <1>10, <1>11, <1>12, <1>13, <1>14, <1>15, <1>16, <1>17, <1>18,
     <1>19, <1>20, <1>21 DEF LedgerNext

\* The session is chosen once.
LEMMA SessionStays ==
    [LedgerNext]_ledgerVars => session' = session
<1> SUFFICES ASSUME LedgerNext PROVE session' = session
  BY DEF ledgerVars
<1>1. ASSUME NEW s \in Staff, NEW op, NEW stage, At(s, op, stage) PROVE session' = session
  BY <1>1 DEF At
<1>2. ASSUME NEW s \in Staff,
             \/ \E op \in LedgerOps, k \in MeetingNo : LoadMeeting(s, op, k)
             \/ Abort(s) \/ OpenLook(s) \/ OpenMeeting(s)
             \/ \E l \in Loan : WriteOffLook(s, l)
      PROVE  session' = session
  BY <1>2 DEF LoadMeeting, Abort, OpenLook, OpenMeeting, WriteOffLook
<1>3. ASSUME NEW s \in Staff, CloseMeeting(s) \/ Amend(s) \/ RepayRead(s) \/ Repay(s) \/ WriteOff(s)
      PROVE  session' = session
  BY <1>1, <1>3 DEF CloseMeeting, Amend, RepayRead, Repay, WriteOff
<1>4. ASSUME NEW s \in Staff, NEW n, NEW m, NEW l,
             CountTill(s, n) \/ RecordSavings(s, n) \/ LendCheck(s, n) \/ Disburse(s, l)
               \/ RepayCheck(s, l, n, m)
      PROVE  session' = session
  BY <1>1, <1>4 DEF CountTill, RecordSavings, LendCheck, Disburse, RepayCheck
<1>5. ASSUME NEW i, ReverseEntry(i) PROVE session' = session
  BY <1>5 DEF ReverseEntry
<1> QED
  BY <1>2, <1>3, <1>4, <1>5 DEF LedgerNext

\* What the cashbook shows of repayments is what the repayment rows add up to.
LEMMA BackAsBookedStep ==
    LedgerBooks /\ BackAsBooked /\ [LedgerNext]_ledgerVars => BackAsBooked'
<1> SUFFICES ASSUME LedgerBooks, BackAsBooked, [LedgerNext]_ledgerVars,
                    "reverse" \notin session.does
             PROVE  BackAsBooked'
  BY SessionStays DEF BackAsBooked
<1>1. /\ loan \in [Loan -> LoanRow] /\ entries \in Seq(Entry)
      /\ \A l \in Loan : loan[l].repaid \in Nat /\ PrincipalBack(entries, l) = loan[l].repaid
  BY DEF LedgerBooks, LedgerTypeOK, LoanRow, BackAsBooked
<1>2. ASSUME UNCHANGED <<entries, loan>> PROVE BackAsBooked'
  BY <1>1, <1>2 DEF BackAsBooked
<1>3. ASSUME NEW s \in Staff, NEW amount \in Amount, RecordSavings(s, amount) PROVE BackAsBooked'
  <2>1. Posts(work[s].meeting, NoId, amount, 0) /\ loan' = loan
    BY <1>3, SavingsPosted DEF RecordSavings
  <2>2. \A l \in Loan : PrincipalBack(entries', l) = PrincipalBack(entries, l) + 0
    BY <2>1 DEF Posts, Adds
  <2> QED
    BY <1>1, <2>1, <2>2 DEF BackAsBooked
<1>4. ASSUME NEW s \in Staff, NEW l \in Loan, Disburse(s, l) PROVE BackAsBooked'
  <2>1. Posts(work[s].meeting, l, -work[s].amount, 0)
    BY <1>4, LoanPosted
  <2>2. \A x \in Loan : PrincipalBack(entries', x) = PrincipalBack(entries, x) + 0
    BY <2>1 DEF Posts, Adds
  <2>3. \A x \in Loan : loan'[x].repaid = loan[x].repaid
    BY <1>1, <1>4 DEF Disburse, NoLoan
  <2> QED
    BY <1>1, <2>2, <2>3 DEF BackAsBooked
<1>5. ASSUME NEW s \in Staff, Repay(s) PROVE BackAsBooked'
  <2>1. Posts(work[s].meeting, work[s].loan, work[s].amount + work[s].charge, work[s].amount)
    BY <1>5, RepaymentPosted
  <2>2. PICK q, n : q = work[s].loan /\ n = work[s].amount
    OBVIOUS
  <2>3. PICK row \in LoanRow : loan' = [loan EXCEPT ![q] = row] /\ row.repaid = loan[q].repaid + n
    BY <1>5, <2>2, RepaidRow
  <2>4. ASSUME NEW x \in Loan PROVE PrincipalBack(entries', x) = loan'[x].repaid
    <3>1. PrincipalBack(entries', x) = PrincipalBack(entries, x) + (IF q = x THEN n ELSE 0)
      BY <2>1, <2>2 DEF Posts, Adds
    <3>2. loan'[x] = IF x = q THEN row ELSE loan[x]
      BY <1>1, <2>3
    <3> QED
      BY <1>1, <2>3, <3>1, <3>2
  <2> QED
    BY <2>4 DEF BackAsBooked
<1>6. ASSUME NEW s \in Staff, WriteOff(s) PROVE BackAsBooked'
  <2>1. Posts(NoId, work[s].loan, 0, 0)
    BY <1>6, WriteOffPosted
  <2>2. \A x \in Loan : PrincipalBack(entries', x) = PrincipalBack(entries, x) + 0
    BY <2>1 DEF Posts, Adds
  <2>3. \A x \in Loan : loan'[x].repaid = loan[x].repaid
    BY <1>1, <1>6 DEF WriteOff, LoanRow
  <2> QED
    BY <1>1, <2>2, <2>3 DEF BackAsBooked
<1>7. ASSUME NEW i \in DOMAIN entries, ReverseEntry(i) PROVE FALSE
  BY <1>7 DEF ReverseEntry
<1>8. ASSUME NEW s \in Staff, NEW op, NEW n, NEW m, NEW l,
             \/ LoadMeeting(s, op, n) \/ Abort(s) \/ OpenLook(s) \/ OpenMeeting(s)
             \/ CountTill(s, n) \/ LendCheck(s, n) \/ RepayCheck(s, l, n, m)
      PROVE  UNCHANGED <<entries, loan>>
  BY <1>8 DEF LoadMeeting, Abort, OpenLook, OpenMeeting, CountTill, LendCheck, RepayCheck
<1>9. ASSUME NEW s \in Staff, NEW l, \/ CloseMeeting(s) \/ Amend(s)
                                     \/ RepayRead(s) \/ WriteOffLook(s, l)
      PROVE  UNCHANGED <<entries, loan>>
  BY <1>9 DEF CloseMeeting, Amend, RepayRead, WriteOffLook
<1>10. CASE UNCHANGED ledgerVars
  BY <1>2, <1>10 DEF ledgerVars
<1> QED
  BY <1>2, <1>3, <1>4, <1>5, <1>6, <1>7, <1>8, <1>9, <1>10 DEF LedgerNext

\* With one request at a time a loan is out exactly as long as principal is owed
\* and no more are out than the bylaws allow (disburse_loan, record_repayment); and
\* however requests overlap, the cashbook shows the principal that came back.
THEOREM LedgerLoanStanding ==
    LedgerSpec => []LoanStanding
<1> DEFINE Inv == LedgerBooks /\ LoansStand /\ BackAsBooked
<1>1. LedgerInit => Inv
  BY LedgerBooksInit, LoansStandInit
<1>2. Inv /\ [LedgerNext]_ledgerVars => Inv'
  BY LedgerBooksStep, LoansStandStep, BackAsBookedStep
<1>3. Inv => LoanStanding
  BY DEF LoansStand, BackAsBooked, LoanStanding, LoanOwes
<1> QED
  BY <1>1, <1>2, <1>3, PTL DEF LedgerSpec

\* However requests overlap, a loan's principal back is what the cashbook shows of
\* it, where nothing is reversed: record_repayment writes both or neither.
THEOREM LedgerRepaymentsBooked ==
    LedgerSpec => []BackAsBooked
<1>1. LedgerInit => LedgerBooks /\ BackAsBooked
  BY LedgerBooksInit, LoansStandInit
<1>2. LedgerBooks /\ BackAsBooked /\ [LedgerNext]_ledgerVars => (LedgerBooks /\ BackAsBooked)'
  BY LedgerBooksStep, BackAsBookedStep
<1> QED
  BY <1>1, <1>2, PTL DEF LedgerSpec

-----------------------------------------------------------------------------
(* The till of an orderly group.                                           *)

\* What a request at work in an orderly group relies on.
TillRequest(w) ==
    /\ w.op \in MeetingOps => w.copy = meeting[w.meeting]
    /\ w.op = "open" =>
          /\ \A k \in HeldMeetings : meeting[k].status = "CLOSED" /\ k < w.meeting
          /\ w.amount = CashBalance(entries)
    /\ w.op = "lend" /\ w.stage = "checked" => w.amount <= CashBalance(entries)
    /\ w.op = "close" /\ w.stage = "checked"
          => w.amount = ExpectedCash(w.copy, w.meeting, entries)

\* Only the last meeting can be open; what is in the box is what it expects, or
\* what it closed on.
MeetingBalances(k) ==
    /\ meeting[k].status = "OPEN" => \A j \in HeldMeetings : j <= k
    /\ k - 1 \in HeldMeetings => meeting[k].opening = meeting[k - 1].counted
    /\ meeting[k].status = "OPEN" => ExpectedCash(meeting[k], k, entries) = CashBalance(entries)
    /\ meeting[k].status = "CLOSED" => ExpectedCash(meeting[k], k, entries) = meeting[k].counted
    /\ meeting[k].status = "CLOSED" /\ (\A j \in HeldMeetings : j <= k)
          => meeting[k].counted = CashBalance(entries)

OrderlyTill ==
    Orderly =>
        /\ OneAtWork
        /\ CashBalance(entries) >= 0
        /\ \A k \in HeldMeetings : MeetingBalances(k)
        /\ tillFlag => \E k \in HeldMeetings : meeting[k].status = "OPEN"
        /\ \A s \in Staff : TillRequest(work[s])

LEMMA NoWorkInTill ==
    TillRequest(NoWork) /\ TillRequest(NoWork)'
  BY DEF TillRequest, NoWork, MeetingOps

LEMMA OrderlyTillInit ==
    LedgerInit => OrderlyTill
<1> SUFFICES ASSUME LedgerInit PROVE OrderlyTill
  OBVIOUS
<1>1. HeldMeetings = {} /\ tillFlag = FALSE /\ OneAtWork
  BY DEF LedgerInit, HeldMeetings, NoMeetingRow, OneAtWork
<1>2. CashBalance(entries) = 0
  <2>1. entries = <<>>
    BY DEF LedgerInit
  <2>2. entries \in Seq(Entry) /\ Len(entries) = 0
    BY <2>1
  <2>3. PICK at : at = DOMAIN entries
    OBVIOUS
  <2>4. \A n \in 1 .. Len(entries) : n \notin at
    BY <2>2
  <2>5. BalanceOf(entries, at) = 0
    BY <2>2, <2>4, NothingTaken
  <2> QED
    BY <2>3, <2>5 DEF CashBalance
<1>3. \A s \in Staff : TillRequest(work[s])
  BY NoWorkInTill DEF LedgerInit
<1> QED
  BY <1>1, <1>2, <1>3 DEF OrderlyTill

\* What may be lent is no more than there is.
LEMMA LendableIs ==
    ASSUME NEW lines \in Seq(Entry), CashBalance(lines) >= 0
    PROVE  Lendable(lines) <= CashBalance(lines)
<1>1. PICK cash, pct : cash = CashBalance(lines) /\ pct = ReservePct
  OBVIOUS
<1>2. cash \in Nat /\ pct \in Nat
  BY <1>1, BalancesAreInts, LedgerFinite
<1>3. cash * pct \in Nat
  BY <1>2
<1>4. PICK n : n = cash * pct
  OBVIOUS
<1>5. n \in Nat /\ n \div 100 \in Nat
  BY <1>3, <1>4
<1>6. RoundHalfEven(n, 100) \in Nat
  BY <1>5 DEF RoundHalfEven
<1> QED
  BY <1>1, <1>2, <1>4, <1>6 DEF Lendable

\* A step that leaves rows, lines and the flag alone.
LEMMA TillUntouched ==
    ASSUME LedgerBooks, OrderlyTill, Orderly, UNCHANGED <<meeting, entries, tillFlag, session>>,
           NEW s \in Staff, NEW r, work' = [work EXCEPT ![s] = r], TillRequest(r),
           work[s] # NoWork \/ \A p \in Staff : work[p] = NoWork
    PROVE  OrderlyTill'
<1>1. OneAtWork' /\ work'[s] = r /\ \A p \in Staff : p # s => work'[p] = NoWork
  BY WorksAlone DEF OrderlyTill
<1>2. TillRequest(r)'
  BY DEF TillRequest, HeldMeetings
<1>3. \A p \in Staff : TillRequest(work[p])'
  BY <1>1, <1>2, NoWorkInTill
<1>4. \A k \in HeldMeetings' : MeetingBalances(k)'
  BY DEF OrderlyTill, MeetingBalances, HeldMeetings
<1> QED
  BY <1>1, <1>3, <1>4 DEF OrderlyTill, HeldMeetings

\* A line posted at the open meeting, or one that does not move the box.
LEMMA TillPosted ==
    ASSUME LedgerBooks, OrderlyTill, Orderly, UNCHANGED <<meeting, tillFlag, session>>,
           NEW s \in Staff, work' = [work EXCEPT ![s] = NoWork], work[s] # NoWork,
           NEW m, NEW l, NEW flow \in Int, NEW back, Posts(m, l, flow, back),
           flow = 0 \/ (m \in HeldMeetings /\ meeting[m].status = "OPEN"),
           CashBalance(entries) + flow >= 0
    PROVE  OrderlyTill'
<1>1. OneAtWork' /\ work'[s] = NoWork /\ \A p \in Staff : p # s => work'[p] = NoWork
  BY WorksAlone DEF OrderlyTill
<1>2. \A p \in Staff : TillRequest(work[p])'
  BY <1>1, NoWorkInTill
<1>3. HeldMeetings' = HeldMeetings /\ HeldMeetings \subseteq Int
  BY RequestIs DEF HeldMeetings, MeetingNo
<1>4. CashBalance(entries') = CashBalance(entries) + flow
  BY DEF Posts, Adds
<1>5. ASSUME NEW k \in HeldMeetings PROVE MeetingBalances(k)'
  <2>1. Takings(entries', k) = Takings(entries, k) + (IF m = k THEN flow ELSE 0)
    BY DEF Posts, Adds
  <2>2. /\ entries \in Seq(Entry) /\ meeting[k].opening \in Int /\ meeting[k].counted \in Int
        /\ Takings(entries, k) \in Int /\ CashBalance(entries) \in Int
    BY <1>3, RequestIs, BalancesAreInts DEF MeetingRow
  <2>3. MeetingBalances(k)
    BY DEF OrderlyTill
  <2>4. CASE flow = 0
    <3>1. Takings(entries', k) = Takings(entries, k) /\ CashBalance(entries') = CashBalance(entries)
      BY <1>4, <2>1, <2>2, <2>4
    <3> QED
      BY <1>3, <2>3, <3>1 DEF MeetingBalances, ExpectedCash
  <2>5. CASE m \in HeldMeetings /\ meeting[m].status = "OPEN"
    <3>1. \A j \in HeldMeetings : j <= m
      BY <2>5 DEF OrderlyTill, MeetingBalances
    <3>2. CASE k = m
      <4>1. Takings(entries', k) = Takings(entries, k) + flow
        BY <2>1, <3>2
      <4>2. meeting[k].opening + Takings(entries, k) = CashBalance(entries)
        BY <2>3, <2>5, <3>2 DEF MeetingBalances, ExpectedCash
      <4>3. meeting[k].opening + Takings(entries', k) = CashBalance(entries')
        BY <1>4, <2>2, <4>1, <4>2
      <4>4. meeting'[k] = meeting[k] /\ meeting[k].status = "OPEN"
        BY <2>5, <3>2
      <4>5. k - 1 \in HeldMeetings => meeting'[k].opening = meeting'[k - 1].counted
        BY <2>3 DEF MeetingBalances
      <4> QED
        BY <1>3, <3>1, <3>2, <4>3, <4>4, <4>5 DEF MeetingBalances, ExpectedCash
    <3>3. CASE k # m
      <4>1. ~ (\A j \in HeldMeetings : j <= k)
        BY <1>3, <2>5, <3>1, <3>3
      <4>2. Takings(entries', k) = Takings(entries, k)
        BY <2>1, <2>2, <3>3
      <4> QED
        BY <1>3, <2>3, <4>1, <4>2 DEF MeetingBalances, ExpectedCash
    <3> QED
      BY <3>2, <3>3
  <2> QED
    BY <2>4, <2>5
<1> QED
  BY <1>1, <1>2, <1>3, <1>4, <1>5 DEF OrderlyTill

LEMMA TillOpened ==
    ASSUME LedgerBooks, OrderlyTill, Orderly, NEW s \in Staff, OpenMeeting(s)
    PROVE  OrderlyTill'
<1>1. PICK m : m = work[s].meeting
  OBVIOUS
<1>2. PICK row : row = [status |-> "OPEN", opening |-> work[s].amount, counted |-> Blank]
  OBVIOUS
<1>3. /\ m \in MeetingNo /\ meeting[m].status = "ABSENT" /\ work[s] # NoWork
      /\ work[s].op = "open"
  BY <1>1, RequestIs DEF OpenMeeting, RequestFits, NoWork
<1>4. /\ meeting' = [meeting EXCEPT ![m] = row] /\ work' = [work EXCEPT ![s] = NoWork]
      /\ UNCHANGED <<entries, loan, tillFlag, session>>
  BY <1>1, <1>2 DEF OpenMeeting, Ends
<1>5. /\ meeting \in [MeetingNo -> MeetingRow] /\ entries \in Seq(Entry)
      /\ HeldMeetings \subseteq MeetingNo /\ MeetingNo \subseteq Int
      /\ CashBalance(entries) \in Int
  BY RequestIs, BalancesAreInts DEF MeetingNo
<1>6. /\ \A k \in HeldMeetings : meeting[k].status = "CLOSED" /\ k < m
      /\ row.opening = CashBalance(entries)
  BY <1>1, <1>2, <1>3 DEF OrderlyTill, TillRequest
<1>7. OneAtWork' /\ work'[s] = NoWork /\ \A p \in Staff : p # s => work'[p] = NoWork
  BY <1>3, <1>4, WorksAlone DEF OrderlyTill
<1>8. \A p \in Staff : TillRequest(work[p])'
  BY <1>7, NoWorkInTill
<1>9. HeldMeetings' = HeldMeetings \cup {m} /\ m \notin HeldMeetings
  BY <1>2, <1>3, <1>4, <1>5 DEF HeldMeetings
<1>10. Takings(entries, m) = 0
  <2>1. m # NoId
    BY <1>3 DEF MeetingNo, NoId
  <2>2. \A i \in DOMAIN entries : entries[i].meeting # m
    BY <1>9, <2>1 DEF LedgerBooks
  <2>3. PICK at : at = {i \in DOMAIN entries : entries[i].meeting = m}
    OBVIOUS
  <2>4. \A n \in 1 .. Len(entries) : n \notin at
    BY <2>2, <2>3
  <2>5. BalanceOf(entries, at) = 0
    BY <1>5, <2>4, NothingTaken
  <2> QED
    BY <2>3, <2>5 DEF Takings
<1>11. ASSUME NEW k \in HeldMeetings' PROVE MeetingBalances(k)'
  <2>1. CASE k = m
    <3>1. meeting'[k] = row /\ row.status = "OPEN"
      BY <1>2, <1>3, <1>4, <1>5, <2>1
    <3>2. \A j \in HeldMeetings' : j <= k
      BY <1>3, <1>5, <1>6, <1>9, <2>1
    <3>3. k - 1 \in HeldMeetings' => row.opening = meeting'[k - 1].counted
      <4> SUFFICES ASSUME k - 1 \in HeldMeetings' PROVE row.opening = meeting'[k - 1].counted
        OBVIOUS
      <4>1. k - 1 \in HeldMeetings /\ k - 1 # m
        BY <1>3, <1>5, <1>9, <2>1
      <4>2. meeting'[k - 1] = meeting[k - 1]
        BY <1>4, <1>5, <4>1
      <4>3. meeting[k - 1].status = "CLOSED" /\ \A j \in HeldMeetings : j <= k - 1
        BY <1>3, <1>5, <1>6, <2>1, <4>1
      <4>4. meeting[k - 1].counted = CashBalance(entries)
        BY <4>1, <4>3 DEF OrderlyTill, MeetingBalances
      <4> QED
        BY <1>6, <4>2, <4>4
    <3>4. ExpectedCash(row, k, entries') = CashBalance(entries')
      BY <1>4, <1>5, <1>6, <1>10, <2>1 DEF ExpectedCash
    <3> QED
      BY <3>1, <3>2, <3>3, <3>4 DEF MeetingBalances
  <2>2. CASE k # m
    <3>1. k \in HeldMeetings /\ meeting'[k] = meeting[k] /\ meeting[k].status = "CLOSED" /\ k < m
      BY <1>4, <1>5, <1>6, <1>9, <2>2
    <3>2. ~ (\A j \in HeldMeetings' : j <= k)
      BY <1>3, <1>5, <1>9, <3>1
    <3>3. k - 1 # m
      BY <1>3, <1>5, <3>1
    <3>4. k - 1 \in HeldMeetings' => k - 1 \in HeldMeetings /\ meeting'[k - 1] = meeting[k - 1]
      BY <1>4, <1>5, <1>9, <3>3
    <3>5. MeetingBalances(k)
      BY <3>1 DEF OrderlyTill
    <3> QED
      BY <1>4, <3>1, <3>2, <3>4, <3>5 DEF MeetingBalances
  <2> QED
    BY <2>1, <2>2
<1>12. tillFlag' => \E k \in HeldMeetings' : meeting'[k].status = "OPEN"
  BY <1>2, <1>3, <1>4, <1>5, <1>9
<1> QED
  BY <1>4, <1>7, <1>8, <1>11, <1>12 DEF OrderlyTill

LEMMA TillClosed ==
    ASSUME LedgerBooks, OrderlyTill, Orderly, NEW s \in Staff, CloseMeeting(s)
    PROVE  OrderlyTill'
<1>1. PICK k, n, copy : k = work[s].meeting /\ n = work[s].amount /\ copy = work[s].copy
  OBVIOUS
<1>2. PICK row : row = [copy EXCEPT !.status = "CLOSED", !.counted = n]
  OBVIOUS
<1>3. /\ work[s] # NoWork /\ work[s].op = "close" /\ work[s].stage = "checked"
      /\ copy.status = "OPEN" /\ session' = session
  BY <1>1 DEF CloseMeeting, At, NoWork
<1>4. /\ k \in HeldMeetings /\ k \in MeetingNo /\ copy = meeting[k] /\ n \in Int
      /\ n = ExpectedCash(copy, k, entries) /\ copy \in MeetingRow
  BY <1>1, <1>3, RequestIs DEF OrderlyTill, TillRequest, MeetingOps, RequestFits, HeldMeetings
<1>5. /\ meeting' = [meeting EXCEPT ![k] = row] /\ work' = [work EXCEPT ![s] = NoWork]
      /\ UNCHANGED <<entries, loan, session>> /\ tillFlag' = FALSE
  BY <1>1, <1>2, <1>3 DEF CloseMeeting, Ends
<1>6. row.status = "CLOSED" /\ row.counted = n /\ row.opening = copy.opening
  BY <1>2, <1>4 DEF MeetingRow
<1>7. OneAtWork' /\ work'[s] = NoWork /\ \A p \in Staff : p # s => work'[p] = NoWork
  BY <1>3, <1>5, WorksAlone DEF OrderlyTill
<1>8. \A p \in Staff : TillRequest(work[p])'
  BY <1>7, NoWorkInTill
<1>9. /\ meeting \in [MeetingNo -> MeetingRow] /\ HeldMeetings \subseteq MeetingNo
      /\ MeetingNo \subseteq Int
  BY RequestIs DEF MeetingNo
<1>10. HeldMeetings' = HeldMeetings
  BY <1>4, <1>5, <1>6, <1>9 DEF HeldMeetings
<1>11. MeetingBalances(k) /\ meeting[k].status = "OPEN"
  BY <1>3, <1>4 DEF OrderlyTill
<1>12. \A j \in HeldMeetings : j <= k
  BY <1>11 DEF MeetingBalances
<1>13. n = CashBalance(entries)
  BY <1>4, <1>11 DEF MeetingBalances
<1>14. ASSUME NEW x \in HeldMeetings PROVE MeetingBalances(x)'
  <2>1. CASE x = k
    <3>1. meeting'[x] = row
      BY <1>5, <1>9, <2>1
    <3>2. x - 1 \in HeldMeetings => meeting'[x - 1] = meeting[x - 1]
      BY <1>4, <1>5, <1>9, <2>1
    <3>3. ExpectedCash(row, x, entries') = n
      BY <1>4, <1>5, <1>6, <2>1 DEF ExpectedCash
    <3>4. x - 1 \in HeldMeetings => row.opening = meeting[x - 1].counted
      BY <1>4, <1>6, <1>11, <2>1 DEF MeetingBalances
    <3> QED
      BY <1>5, <1>6, <1>10, <1>13, <3>1, <3>2, <3>3, <3>4 DEF MeetingBalances
  <2>2. CASE x # k
    <3>1. meeting'[x] = meeting[x] /\ x < k
      BY <1>4, <1>5, <1>9, <1>12, <2>2
    <3>2. x - 1 # k
      <4>1. x \in Int /\ k \in Int
        BY <1>4, <1>9
      <4> QED
        BY <3>1, <4>1
    <3>3. x - 1 \in HeldMeetings => meeting'[x - 1] = meeting[x - 1]
      BY <1>5, <1>9, <3>2
    <3>4. MeetingBalances(x)
      BY DEF OrderlyTill
    <3> QED
      BY <1>5, <1>10, <3>1, <3>3, <3>4 DEF MeetingBalances
  <2> QED
    BY <2>1, <2>2
<1> QED
  BY <1>5, <1>7, <1>8, <1>10, <1>14 DEF OrderlyTill

LEMMA OrderlyTillStep ==
    LedgerBooks /\ OrderlyTill /\ [LedgerNext]_ledgerVars => OrderlyTill'
<1> SUFFICES ASSUME LedgerBooks, OrderlyTill, [LedgerNext]_ledgerVars, Orderly
             PROVE  OrderlyTill'
  BY SessionStays DEF OrderlyTill, Orderly
<1>1. /\ work \in [Staff -> LedgerRequest] /\ entries \in Seq(Entry)
      /\ \A s \in Staff : work[s] \in LedgerRequest
      /\ CashBalance(entries) \in Int /\ CashBalance(entries) >= 0
      /\ session.atOnce = 1 /\ "reverse" \notin session.does
  BY BalancesAreInts DEF LedgerBooks, LedgerTypeOK, OrderlyTill, Orderly
<1>2. ASSUME UNCHANGED ledgerVars PROVE OrderlyTill'
  BY <1>2 DEF ledgerVars, OrderlyTill, Orderly, OneAtWork, MeetingBalances, TillRequest,
              HeldMeetings
<1>3. ASSUME NEW s \in Staff, NEW op, NEW stage, At(s, op, stage), op # "none"
      PROVE  /\ work[s] # NoWork /\ session' = session /\ work[s].op = op
             /\ work[s].stage = stage
             /\ op \in {"save", "lend", "repay", "close"}
                   => /\ work[s].meeting \in HeldMeetings
                      /\ meeting[work[s].meeting].status = "OPEN"
  <2>1. work[s] # NoWork /\ session' = session /\ work[s].op = op /\ work[s].stage = stage
    BY <1>3 DEF At, NoWork
  <2>2. op \in {"save", "lend", "repay", "close"} =>
           /\ work[s].meeting \in HeldMeetings /\ work[s].copy = meeting[work[s].meeting]
           /\ work[s].copy.status = "OPEN"
    BY <1>3, RequestIs DEF At, OrderlyTill, TillRequest, MeetingOps, RequestFits
  <2> QED
    BY <2>1, <2>2
<1>4. ASSUME NEW s \in Staff, NEW op \in LedgerOps, NEW k \in MeetingNo, LoadMeeting(s, op, k)
      PROVE  OrderlyTill'
  <2>1. PICK r : r = [NoWork EXCEPT !.op = op, !.meeting = k, !.copy = meeting[k]]
    OBVIOUS
  <2>2. r.stage = "loaded" /\ r.meeting = k /\ r.copy = meeting[k] /\ r.op = op
    BY <2>1 DEF NoWork
  <2>3. op # "open"
    BY <1>4 DEF LoadMeeting
  <2>4. TillRequest(r)
    BY <2>2, <2>3 DEF TillRequest
  <2> QED
    BY <1>1, <1>4, <2>1, <2>4, BeginsAlone, TillUntouched DEF LoadMeeting
<1>5. ASSUME NEW s \in Staff, Abort(s) PROVE OrderlyTill'
  BY <1>5, NoWorkInTill, TillUntouched DEF Abort, Ends
<1>6. ASSUME NEW s \in Staff, OpenLook(s) PROVE OrderlyTill'
  <2>1. PICK n, cash : n = NextNumber /\ cash = CashBalance(entries)
    OBVIOUS
  <2>2. PICK r : /\ r = [NoWork EXCEPT !.op = "open", !.meeting = n, !.amount = cash]
                 /\ work' = [work EXCEPT ![s] = r]
    BY <1>6, <2>1 DEF OpenLook, OpeningCash
  <2>3. r.op = "open" /\ r.meeting = n /\ r.amount = cash
    BY <2>2 DEF NoWork
  <2>4. \A k \in HeldMeetings : meeting[k].status = "CLOSED" /\ k < n
    <3>1. \A k \in HeldMeetings : meeting[k].status # "OPEN"
      BY <1>6 DEF OpenLook, Orderly
    <3>2. \A k \in HeldMeetings : meeting[k].status \in {"OPEN", "CLOSED"}
      BY RequestIs DEF HeldMeetings, MeetingRow
    <3> QED
      BY <2>1, <3>1, <3>2, NextIs
  <2>5. TillRequest(r)
    BY <2>1, <2>3, <2>4 DEF TillRequest, MeetingOps
  <2> QED
    BY <1>1, <1>6, <2>2, <2>5, BeginsAlone, TillUntouched DEF OpenLook
<1>7. ASSUME NEW s \in Staff, NEW l \in Loan, WriteOffLook(s, l) PROVE OrderlyTill'
  <2>1. PICK r : /\ r = [NoWork EXCEPT !.op = "write_off", !.loan = l,
                                      !.amount = Outstanding(loan[l])]
                 /\ work' = [work EXCEPT ![s] = r]
    BY <1>7 DEF WriteOffLook
  <2>2. r.op = "write_off"
    BY <2>1 DEF NoWork
  <2>3. TillRequest(r)
    BY <2>2 DEF TillRequest, MeetingOps
  <2> QED
    BY <1>1, <1>7, <2>1, <2>3, BeginsAlone, TillUntouched DEF WriteOffLook
<1>8. ASSUME NEW s \in Staff, NEW counted \in Counted, CountTill(s, counted) PROVE OrderlyTill'
  <2>1. /\ work[s] # NoWork /\ work[s].op = "close" /\ session' = session
        /\ work[s].meeting \in HeldMeetings /\ meeting[work[s].meeting].status = "OPEN"
        /\ UNCHANGED <<meeting, entries, loan>>
    BY <1>3, <1>8 DEF CountTill
  <2>2. CASE counted = ExpectedCash(work[s].copy, work[s].meeting, entries)
    <3>1. Checked(s, counted, 0, NoId) /\ tillFlag' = tillFlag
      BY <1>8, <2>2 DEF CountTill
    <3>2. counted \in Int /\ 0 \in Nat /\ NoId \in Loan \cup {NoId}
      BY LedgerConstants
    <3>3. PICK r \in LedgerRequest :
             /\ work' = [work EXCEPT ![s] = r]
             /\ r.op = work[s].op /\ r.meeting = work[s].meeting /\ r.copy = work[s].copy
             /\ r.amount = counted
      BY <3>1, <3>2, CheckedIs
    <3>4. TillRequest(r)
      BY <2>1, <2>2, <3>3 DEF TillRequest, OrderlyTill, MeetingOps
    <3> QED
      BY <2>1, <3>1, <3>3, <3>4, TillUntouched
  <2>3. CASE counted # ExpectedCash(work[s].copy, work[s].meeting, entries)
    <3>1. work' = [work EXCEPT ![s] = NoWork]
      BY <1>8, <2>3 DEF CountTill, Ends
    <3>2. OneAtWork' /\ work'[s] = NoWork /\ \A p \in Staff : p # s => work'[p] = NoWork
      BY <2>1, <3>1, WorksAlone DEF OrderlyTill
    <3>3. \A p \in Staff : TillRequest(work[p])'
      BY <3>2, NoWorkInTill
    <3>4. HeldMeetings' = HeldMeetings /\ \A k \in HeldMeetings : MeetingBalances(k)'
      BY <2>1 DEF OrderlyTill, MeetingBalances, HeldMeetings
    <3> QED
      BY <1>1, <2>1, <3>2, <3>3, <3>4 DEF OrderlyTill
  <2> QED
    BY <2>2, <2>3
<1>9. ASSUME NEW s \in Staff, Amend(s) PROVE OrderlyTill'
  <2>1. /\ work[s] # NoWork /\ work[s].op = "amend" /\ Ends(s)
        /\ UNCHANGED <<entries, loan, tillFlag, session>>
    BY <1>3, <1>9 DEF Amend
  <2>2. work[s].copy = meeting[work[s].meeting] /\ work[s].meeting \in MeetingNo
    BY <2>1, RequestIs DEF OrderlyTill, TillRequest, MeetingOps, RequestFits
  <2>3. meeting' = meeting
    BY <1>9, <2>2, RequestIs DEF Amend
  <2> QED
    BY <2>1, <2>3, NoWorkInTill, TillUntouched DEF Ends
<1>10. ASSUME NEW s \in Staff, NEW amount \in Amount, RecordSavings(s, amount) PROVE OrderlyTill'
  <2>1. /\ work[s] # NoWork /\ Ends(s) /\ UNCHANGED <<meeting, tillFlag, session>>
        /\ work[s].meeting \in HeldMeetings /\ meeting[work[s].meeting].status = "OPEN"
    BY <1>3, <1>10 DEF RecordSavings
  <2>2. Posts(work[s].meeting, NoId, amount, 0) /\ amount \in Nat
    BY <1>10, SavingsPosted, LedgerConstants
  <2>3. amount \in Int /\ CashBalance(entries) + amount >= 0
    BY <1>1, <2>2
  <2>4. work' = [work EXCEPT ![s] = NoWork]
    BY <2>1 DEF Ends
  <2>5. PICK m : m = work[s].meeting
    OBVIOUS
  <2>6. Posts(m, NoId, amount, 0) /\ m \in HeldMeetings /\ meeting[m].status = "OPEN"
    BY <2>1, <2>2, <2>5
  <2> QED
    BY <2>1, <2>3, <2>4, <2>6, TillPosted
<1>11. ASSUME NEW s \in Staff, NEW amount \in Amount, LendCheck(s, amount) PROVE OrderlyTill'
  <2>1. /\ work[s] # NoWork /\ work[s].op = "lend"
        /\ UNCHANGED <<meeting, entries, loan, tillFlag, session>>
        /\ Checked(s, amount, 0, NoId)
    BY <1>3, <1>11 DEF LendCheck
  <2>2. amount \in Int /\ 0 \in Nat /\ NoId \in Loan \cup {NoId}
    BY LedgerConstants
  <2>3. PICK r \in LedgerRequest :
           /\ work' = [work EXCEPT ![s] = r]
           /\ r.op = "lend" /\ r.meeting = work[s].meeting /\ r.copy = work[s].copy
           /\ r.amount = amount
    BY <2>1, <2>2, CheckedIs
  <2>4. amount <= CashBalance(entries)
    <3>1. amount <= Lendable(entries) /\ Lendable(entries) <= CashBalance(entries)
      BY <1>1, <1>11, LendableIs DEF LendCheck
    <3>2. Lendable(entries) \in Int
      <4>1. PICK cash, pct : cash = CashBalance(entries) /\ pct = ReservePct
        OBVIOUS
      <4>2. cash \in Int /\ pct \in Int
        BY <1>1, <4>1, LedgerFinite
      <4>3. PICK n : n = cash * pct
        OBVIOUS
      <4>4. n \in Int
        BY <4>2, <4>3
      <4>5. RoundHalfEven(n, 100) \in Int
        BY <4>4 DEF RoundHalfEven
      <4> QED
        BY <4>1, <4>2, <4>3, <4>5 DEF Lendable
    <3> QED
      BY <1>1, <2>2, <3>1, <3>2
  <2>5. TillRequest(r)
    BY <2>1, <2>3, <2>4 DEF TillRequest, OrderlyTill, MeetingOps
  <2> QED
    BY <2>1, <2>3, <2>5, TillUntouched
<1>12. ASSUME NEW s \in Staff, NEW l \in Loan, NEW principal \in Nat, NEW charge \in Nat,
              RepayCheck(s, l, principal, charge)
       PROVE  OrderlyTill'
  <2>1. /\ work[s] # NoWork /\ work[s].op = "repay"
        /\ UNCHANGED <<meeting, entries, loan, tillFlag, session>>
        /\ Checked(s, principal, charge, l)
    BY <1>3, <1>12 DEF RepayCheck
  <2>2. PICK r \in LedgerRequest :
           /\ work' = [work EXCEPT ![s] = r]
           /\ r.op = "repay" /\ r.meeting = work[s].meeting /\ r.copy = work[s].copy
    BY <2>1, CheckedIs
  <2>3. TillRequest(r)
    BY <2>1, <2>2 DEF TillRequest, OrderlyTill, MeetingOps
  <2> QED
    BY <2>1, <2>2, <2>3, TillUntouched
<1>13. ASSUME NEW s \in Staff, RepayRead(s) PROVE OrderlyTill'
  <2>1. /\ work[s] # NoWork /\ work[s].op = "repay"
        /\ UNCHANGED <<meeting, entries, loan, tillFlag, session>>
    BY <1>3, <1>13 DEF RepayRead
  <2>2. PICK r \in LedgerRequest :
           /\ work' = [work EXCEPT ![s] = r]
           /\ r.op = "repay" /\ r.meeting = work[s].meeting /\ r.copy = work[s].copy
    BY <1>13, <2>1, SettlingIs
  <2>3. TillRequest(r)
    BY <2>1, <2>2 DEF TillRequest, OrderlyTill, MeetingOps
  <2> QED
    BY <2>1, <2>2, <2>3, TillUntouched
<1>14. ASSUME NEW s \in Staff, NEW l \in Loan, Disburse(s, l) PROVE OrderlyTill'
  <2>1. /\ work[s] # NoWork /\ Ends(s) /\ UNCHANGED <<meeting, tillFlag, session>>
        /\ work[s].meeting \in HeldMeetings /\ meeting[work[s].meeting].status = "OPEN"
        /\ work[s].op = "lend" /\ work[s].stage = "checked"
    BY <1>3, <1>14 DEF Disburse
  <2>2. Posts(work[s].meeting, l, -work[s].amount, 0)
    BY <1>14, LoanPosted
  <2>3. work[s].amount \in Int /\ work[s].amount <= CashBalance(entries)
    BY <2>1, RequestIs DEF OrderlyTill, TillRequest
  <2>4. -work[s].amount \in Int /\ CashBalance(entries) + (-work[s].amount) >= 0
    BY <1>1, <2>3
  <2> QED
    BY <2>1, <2>2, <2>4, TillPosted DEF Ends
<1>15. ASSUME NEW s \in Staff, Repay(s) PROVE OrderlyTill'
  <2>1. /\ work[s] # NoWork /\ Ends(s) /\ UNCHANGED <<meeting, tillFlag, session>>
        /\ work[s].meeting \in HeldMeetings /\ meeting[work[s].meeting].status = "OPEN"
        /\ work[s].op = "repay" /\ work[s].stage = "settling"
    BY <1>3, <1>15 DEF Repay
  <2>2. Posts(work[s].meeting, work[s].loan, work[s].amount + work[s].charge, work[s].amount)
    BY <1>15, RepaymentPosted
  <2>3. work[s].amount \in Nat /\ work[s].charge \in Nat
    BY <2>1, RequestIs DEF RequestFits
  <2>4. /\ work[s].amount + work[s].charge \in Int
        /\ CashBalance(entries) + (work[s].amount + work[s].charge) >= 0
    BY <1>1, <2>3
  <2> QED
    BY <2>1, <2>2, <2>4, TillPosted DEF Ends
<1>16. ASSUME NEW s \in Staff, WriteOff(s) PROVE OrderlyTill'
  <2>1. work[s] # NoWork /\ Ends(s) /\ UNCHANGED <<meeting, tillFlag, session>>
    BY <1>3, <1>16 DEF WriteOff
  <2>2. Posts(NoId, work[s].loan, 0, 0)
    BY <1>16, WriteOffPosted
  <2>3. 0 \in Int /\ CashBalance(entries) + 0 >= 0
    BY <1>1
  <2>4. work' = [work EXCEPT ![s] = NoWork]
    BY <2>1 DEF Ends
  <2>5. PICK m, l, flow : m = NoId /\ l = work[s].loan /\ flow = 0
    OBVIOUS
  <2>6. /\ Posts(m, l, flow, 0) /\ flow \in Int /\ flow = 0
        /\ CashBalance(entries) + flow >= 0
    BY <2>2, <2>3, <2>5
  <2> QED
    BY <2>1, <2>4, <2>6, TillPosted
<1>17. ASSUME NEW i, ReverseEntry(i) PROVE FALSE
  BY <1>1, <1>17 DEF ReverseEntry
<1>18. \A amount \in Amount : amount \in Nat /\ 0 \in Nat
  BY LedgerConstants
<1> QED
  BY <1>2, <1>4, <1>5, <1>6, <1>7, <1>8, <1>9, <1>10, <1>11, <1>12, <1>13, <1>14, <1>15, <1>16,
     <1>17, <1>18, TillOpened, TillClosed DEF LedgerNext

\* In an orderly group the till of a meeting is the group's cash, whatever the sums,
\* the reserve, the loans and the number of meetings: what one meeting closes on the
\* next opens with (open_meeting, close_meeting), and the box is never overdrawn.
THEOREM LedgerTillCarries ==
    LedgerSpec => []TillCarriesOver
<1>1. LedgerInit => LedgerBooks /\ OrderlyTill
  BY LedgerBooksInit, OrderlyTillInit
<1>2. LedgerBooks /\ OrderlyTill /\ [LedgerNext]_ledgerVars => (LedgerBooks /\ OrderlyTill)'
  BY LedgerBooksStep, OrderlyTillStep
<1>3. LedgerBooks /\ OrderlyTill => TillCarriesOver
  BY DEF OrderlyTill, MeetingBalances, TillCarriesOver
<1> QED
  BY <1>1, <1>2, <1>3, PTL DEF LedgerSpec
=============================================================================
