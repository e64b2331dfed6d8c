---------------------------- MODULE GroupLedger ----------------------------
(***************************************************************************)
(* Meetings, cashbook and loans of one savings group: apps/wlt             *)
(* (services/ledger.py, models/ledger.py, MeetingViewSet) with the trigger *)
(* of migration 0002 that checks a closing till.                           *)
(*                                                                         *)
(* Nothing is locked.  A request loads its meeting and trusts the status   *)
(* of that copy; what it reads later it reads as committed at that moment, *)
(* and it writes in one transaction.                                       *)
(*                                                                         *)
(* Money is counted in birr cents.  Left out: attendance, borrowers,       *)
(* charges owed, schedules and the bank.                                   *)
(***************************************************************************)
EXTENDS Integers, Sequences, FiniteSets

CONSTANTS
    Loan,         \* slots for rows
    Staff,        \* whoever records; each runs one request at a time
    Amount,       \* sums that are saved, lent or repaid
    Counted,      \* sums that may be found in the box
    MinMeetings,  \* loan.min_meetings_before_lending
    MaxLoans,     \* max_concurrent_loans of the bylaws; 0 when they are silent
    ReservePct,   \* reserve_buffer_pct of the bylaws
    MeetingCap,   \* bound: meetings held
    EntryCap,     \* bound: lines of the cashbook
    Sessions      \* the instances a run covers, see Session

LedgerOps == {"open", "save", "lend", "repay", "close", "amend", "write_off", "reverse"}

\* Who records, how many requests run at once, which, whether a meeting is
\* opened while another is open, and how many meetings and lines there may be.
Session == [ staff : SUBSET Staff, atOnce : Nat, does : SUBSET LedgerOps, overlap : BOOLEAN,
             meetings : 0 .. MeetingCap, lines : 0 .. EntryCap ]

ASSUME LedgerAssumption ==
    /\ IsFiniteSet(Loan) /\ IsFiniteSet(Staff)
    /\ Amount \subseteq Nat \ {0} /\ Counted \subseteq Nat
    /\ MinMeetings \in Nat /\ MaxLoans \in Nat /\ ReservePct \in 0 .. 100
    /\ MeetingCap \in Nat /\ EntryCap \in Nat
    /\ Sessions \subseteq Session

VARIABLES
    meeting,   \* meeting[k]: the row with meeting_no k
    entries,   \* the lines of the cashbook, in the order they were committed
    loan,      \* loan[l]: the row, with the principal its repayments add up to
    tillFlag,   \* an UNBALANCED_TILL flag is open
    work,      \* work[s]: the request s is in the middle of
    session    \* chosen once

ledgerVars == <<meeting, entries, loan, tillFlag, work, session>>

MeetingNo == 1 .. MeetingCap
NoId == 0
Blank == -1      \* a count that is null

MeetingRow == [ status : {"ABSENT", "OPEN", "CLOSED"}, opening : Int, counted : Int ]
NoMeetingRow == [status |-> "ABSENT", opening |-> 0, counted |-> Blank]

LoanRow == [ status : {"ABSENT", "DISBURSED", "REPAID", "WRITTEN_OFF"},
             principal : Nat, repaid : Nat ]
NoLoan == [status |-> "ABSENT", principal |-> 0, repaid |-> 0]

\* How each entry type moves the cash box.
CASH_EFFECT ==
    [ SAVINGS |-> 1, LOAN_PRINCIPAL_REPAYMENT |-> 1, LOAN_CHARGE_REPAYMENT |-> 1,
      LOAN_DISBURSEMENT |-> -1, WRITE_OFF |-> 0 ]

Entry == [ type : DOMAIN CASH_EFFECT, meeting : MeetingNo \cup {NoId},
           loan : Loan \cup {NoId}, amount : Int, reverses : 0 .. EntryCap ]

LedgerRequest == [ op : LedgerOps \cup {"none"}, meeting : MeetingNo \cup {NoId},
                   copy : MeetingRow, stage : {"loaded", "checked", "settling"},
                   loan : Loan \cup {NoId}, amount : Int, charge : Nat,
                   settles : BOOLEAN ]

NoWork == [ op |-> "none", meeting |-> NoId, copy |-> NoMeetingRow, stage |-> "loaded",
            loan |-> NoId, amount |-> 0, charge |-> 0, settles |-> FALSE ]

-----------------------------------------------------------------------------

CashFlow(e) == CASH_EFFECT[e.type] * e.amount

\* BalanceUpTo(lines, at)[n]: what the lines at the positions in at do to the
\* box, of the first n.
BalanceUpTo(lines, at) ==
    LET sum[n \in 0 .. Len(lines)] ==
            IF n = 0 THEN 0
            ELSE sum[n - 1] + (IF n \in at THEN CashFlow(lines[n]) ELSE 0)
    IN  sum

BalanceOf(lines, at) == BalanceUpTo(lines, at)[Len(lines)]

\* cash_balance
CashBalance(lines) == BalanceOf(lines, DOMAIN lines)

\* What the lines of meeting k do to the box.
Takings(lines, k) == BalanceOf(lines, {i \in DOMAIN lines : lines[i].meeting = k})

\* expected_cash of meeting k; the trigger computes the same.
ExpectedCash(row, k, lines) == row.opening + Takings(lines, k)

Outstanding(row) == row.principal - row.repaid

\* quantize: to the nearest, and a half to the even neighbour.
RoundHalfEven(n, d) ==
    LET down == n \div d
        twice == 2 * (n % d)
    IN  IF twice > d \/ (twice = d /\ down % 2 = 1) THEN down + 1 ELSE down

\* What may be lent of the cash: all but the reserve buffer.
Lendable(lines) ==
    CashBalance(lines) - RoundHalfEven(CashBalance(lines) * ReservePct, 100)

HeldMeetings == {k \in MeetingNo : meeting[k].status # "ABSENT"}
LoansOut == {l \in Loan : loan[l].status = "DISBURSED"}

\* The number after the last.
NextNumber == CHOOSE k \in 1 .. MeetingCap + 1 :
                 /\ \A j \in HeldMeetings : j < k
                 /\ k = 1 \/ k - 1 \in HeldMeetings

Line(type, k, l, amount, reverses) ==
    [type |-> type, meeting |-> k, loan |-> l, amount |-> amount, reverses |-> reverses]

LedgerInit ==
    /\ meeting = [k \in MeetingNo |-> NoMeetingRow]
    /\ entries = <<>>
    /\ loan = [l \in Loan |-> NoLoan]
    /\ tillFlag = FALSE
    /\ work = [s \in Staff |-> NoWork]
    /\ session \in Sessions

-----------------------------------------------------------------------------
(* Requests.                                                               *)

Begins(s, op) ==
    /\ work[s] = NoWork
    /\ Cardinality({p \in Staff : work[p] # NoWork}) < session.atOnce
    /\ s \in session.staff /\ op \in session.does

Ends(s) == work' = [work EXCEPT ![s] = NoWork]

\* get_object, for a request on meeting k.  Alone, a request that a closed
\* meeting refuses is left out.
LoadMeeting(s, op, k) ==
    /\ Begins(s, op) /\ op \in {"save", "lend", "repay", "close", "amend"}
    /\ k \in HeldMeetings
    /\ session.atOnce = 1 /\ op # "amend" => meeting[k].status = "OPEN"
    /\ work' = [work EXCEPT ![s] = [NoWork EXCEPT !.op = op, !.meeting = k, !.copy = meeting[k]]]
    /\ UNCHANGED <<meeting, entries, loan, tillFlag, session>>

\* The worker dies, or what it found makes the request refuse.
Abort(s) ==
    /\ work[s] # NoWork
    /\ Ends(s)
    /\ UNCHANGED <<meeting, entries, loan, tillFlag, session>>

\* What a request on an open meeting goes on from.
At(s, op, stage) ==
    /\ work[s].op = op /\ work[s].stage = stage
    /\ op \in {"save", "lend", "repay", "close"} => work[s].copy.status = "OPEN"
    /\ UNCHANGED session

Checked(s, amount, charge, l) ==
    work' = [work EXCEPT ![s].stage = "checked", ![s].amount = amount, ![s].charge = charge,
                         ![s].loan = l]

-----------------------------------------------------------------------------
(* Meetings.                                                               *)

\* Wrong: every meeting begins with an empty box.
EmptyBox(lines) == 0

\* open_meeting, up to the insert: the next number and what the box holds.
OpeningCash(lines) == CashBalance(lines)

OpenLook(s) ==
    /\ Begins(s, "open")
    /\ NextNumber <= session.meetings
    /\ session.overlap \/ \A k \in HeldMeetings : meeting[k].status # "OPEN"
    /\ work' = [work EXCEPT ![s] = [NoWork EXCEPT !.op = "open", !.meeting = NextNumber,
                                                  !.amount = OpeningCash(entries)]]
    /\ UNCHANGED <<meeting, entries, loan, tillFlag, session>>

\* The insert.  A number taken meanwhile is refused by the unique constraint,
\* and nothing is kept of the meeting.
OpenMeeting(s) ==
    /\ work[s].op = "open"
    /\ meeting[work[s].meeting].status = "ABSENT"
    /\ meeting' = [meeting EXCEPT ![work[s].meeting] =
                      [status |-> "OPEN", opening |-> work[s].amount, counted |-> Blank]]
    /\ Ends(s)
    /\ UNCHANGED <<entries, loan, tillFlag, session>>

\* close_meeting, up to its transaction.  A count that is off leaves a flag
\* behind and is refused.
CountTill(s, counted) ==
    LET computed == ExpectedCash(work[s].copy, work[s].meeting, entries)
    IN  /\ At(s, "close", "loaded")
        /\ IF counted = computed
           THEN Checked(s, counted, 0, NoId) /\ UNCHANGED tillFlag
           ELSE Ends(s) /\ tillFlag' = TRUE
        /\ UNCHANGED <<meeting, entries, loan>>

\* Wrong: what was counted then is taken as balanced now.
CountedOnce(row, k) == TRUE

\* wlt_check_meeting_reconciles, before every update of a meeting.
Reconciles(row, k) ==
    row.status = "CLOSED" => row.counted = ExpectedCash(row, k, entries)

CloseMeeting(s) ==
    LET k == work[s].meeting
        row == [work[s].copy EXCEPT !.status = "CLOSED", !.counted = work[s].amount]
    IN  /\ At(s, "close", "checked")
        /\ Reconciles(row, k)
        /\ meeting' = [meeting EXCEPT ![k] = row]
        /\ tillFlag' = FALSE
        /\ Ends(s)
        /\ UNCHANGED <<entries, loan>>

\* PATCH of a meeting: all columns of the copy, its status and counts too.
Amend(s) ==
    /\ At(s, "amend", "loaded")
    /\ Reconciles(work[s].copy, work[s].meeting)
    /\ meeting' = [meeting EXCEPT ![work[s].meeting] = work[s].copy]
    /\ Ends(s)
    /\ UNCHANGED <<entries, loan, tillFlag>>

-----------------------------------------------------------------------------
(* Entries and loans.                                                      *)

RoomFor(n) == Len(entries) + n <= session.lines

\* record_savings through post_entry.
RecordSavings(s, amount) ==
    /\ At(s, "save", "loaded")
    /\ RoomFor(1)
    /\ entries' = Append(entries, Line("SAVINGS", work[s].meeting, NoId, amount, 0))
    /\ Ends(s)
    /\ UNCHANGED <<meeting, loan, tillFlag>>

\* disburse_loan, up to the insert: the refusals.
LendCheck(s, principal) ==
    /\ At(s, "lend", "loaded")
    /\ Cardinality({k \in MeetingNo : meeting[k].status = "CLOSED"}) >= MinMeetings
    /\ MaxLoans # 0 => Cardinality(LoansOut) < MaxLoans
    /\ principal <= Lendable(entries)
    /\ Checked(s, principal, 0, NoId)
    /\ UNCHANGED <<meeting, entries, loan, tillFlag>>

Disburse(s, l) ==
    /\ At(s, "lend", "checked")
    /\ loan[l] = NoLoan /\ RoomFor(1)
    /\ loan' = [loan EXCEPT ![l] = [status |-> "DISBURSED", principal |-> work[s].amount,
                                    repaid |-> 0]]
    /\ entries' = Append(entries,
                         Line("LOAN_DISBURSEMENT", work[s].meeting, l, work[s].amount, 0))
    /\ Ends(s)
    /\ UNCHANGED <<meeting, tillFlag>>

\* record_repayment, up to the inserts.  The loan's status is not looked at.
RepayCheck(s, l, principal, charge) ==
    /\ At(s, "repay", "loaded")
    /\ loan[l] # NoLoan
    /\ principal + charge > 0
    /\ principal <= Outstanding(loan[l])
    /\ Checked(s, principal, charge, l)
    /\ UNCHANGED <<meeting, entries, loan, tillFlag>>

\* Wrong: the charge counts as principal.
SettledWithCharge(s) == Outstanding(loan[work[s].loan]) <= work[s].amount + work[s].charge

\* The sum is read again, with the repayment's own row and those committed.
Settled(s) == Outstanding(loan[work[s].loan]) <= work[s].amount

RepayRead(s) ==
    /\ At(s, "repay", "checked")
    /\ work' = [work EXCEPT ![s].stage = "settling", ![s].settles = Settled(s)]
    /\ UNCHANGED <<meeting, entries, loan, tillFlag>>

\* A line for the principal and a line for the charge, where there is one.
RepaymentLines(s) ==
    LET Posted(type, amount) ==
            IF amount = 0 THEN <<>> ELSE <<Line(type, work[s].meeting, work[s].loan, amount, 0)>>
    IN  Posted("LOAN_PRINCIPAL_REPAYMENT", work[s].amount)
            \o Posted("LOAN_CHARGE_REPAYMENT", work[s].charge)

Repay(s) ==
    LET l == work[s].loan
    IN  /\ At(s, "repay", "settling")
        /\ RoomFor(Len(RepaymentLines(s)))
        /\ loan' = [loan EXCEPT ![l].repaid = @ + work[s].amount,
                                ![l].status = IF work[s].settles THEN "REPAID" ELSE @]
        /\ entries' = entries \o RepaymentLines(s)
        /\ Ends(s)
        /\ UNCHANGED <<meeting, tillFlag>>

\* write_off_loan.
WriteOffLook(s, l) ==
    /\ Begins(s, "write_off")
    /\ loan[l].status = "DISBURSED" /\ Outstanding(loan[l]) # 0
    /\ work' = [work EXCEPT ![s] = [NoWork EXCEPT !.op = "write_off", !.loan = l,
                                                  !.amount = Outstanding(loan[l])]]
    /\ UNCHANGED <<meeting, entries, loan, tillFlag, session>>

WriteOff(s) ==
    /\ At(s, "write_off", "loaded")
    /\ RoomFor(1)
    /\ loan' = [loan EXCEPT ![work[s].loan].status = "WRITTEN_OFF"]
    /\ entries' = Append(entries, Line("WRITE_OFF", NoId, work[s].loan, work[s].amount, 0))
    /\ Ends(s)
    /\ UNCHANGED <<meeting, tillFlag>>

\* reverse_entry: the opposite of line i, at the same meeting, open or not.
ReverseEntry(i) ==
    LET e == entries[i]
    IN  /\ "reverse" \in session.does /\ RoomFor(1)
        /\ \A j \in DOMAIN entries : entries[j].reverses # i
        /\ entries' = Append(entries, Line(e.type, e.meeting, e.loan, -e.amount, i))
        /\ UNCHANGED <<meeting, loan, tillFlag, work, session>>

LedgerNext ==
    \/ \E s \in Staff :
          \/ \E op \in LedgerOps, k \in MeetingNo : LoadMeeting(s, op, k)
          \/ Abort(s)
          \/ OpenLook(s) \/ OpenMeeting(s)
          \/ \E counted \in Counted : CountTill(s, counted)
          \/ CloseMeeting(s) \/ Amend(s)
          \/ \E amount \in Amount :
                \/ RecordSavings(s, amount) \/ LendCheck(s, amount)
                \/ \E l \in Loan : RepayCheck(s, l, amount, 0) \/ RepayCheck(s, l, 0, amount)
                                     \/ RepayCheck(s, l, amount, amount)
          \/ \E l \in Loan : Disburse(s, l) \/ WriteOffLook(s, l)
          \/ RepayRead(s) \/ Repay(s) \/ WriteOff(s)
    \/ \E i \in DOMAIN entries : ReverseEntry(i)

LedgerSpec == LedgerInit /\ [][LedgerNext]_ledgerVars

-----------------------------------------------------------------------------
(* Properties.                                                             *)

\* Rows, lines and requests are well formed: no line is for nothing, a reversal
\* points back, and a closed meeting has its count.
LedgerTypeOK ==
    /\ meeting \in [MeetingNo -> MeetingRow]
    /\ \A k \in MeetingNo : meeting[k].status = "CLOSED" => meeting[k].counted # Blank
    /\ entries \in Seq(Entry)
    /\ \A i \in DOMAIN entries : entries[i].amount # 0 /\ entries[i].reverses < i
    /\ loan \in [Loan -> LoanRow]
    /\ tillFlag \in BOOLEAN
    /\ work \in [Staff -> LedgerRequest]
    /\ session \in Sessions

\* Whatever is posted while the till is being counted, the step that closes a
\* meeting records a count that its lines, as committed then, add up to.
TillReconciles ==
    [][\A k \in MeetingNo :
          meeting[k].status # "CLOSED" /\ meeting'[k].status = "CLOSED"
              => meeting'[k].counted = ExpectedCash(meeting'[k], k, entries')]_ledgerVars

\* One request at a time, meetings that do not overlap, no reversals.
Orderly == session.atOnce = 1 /\ ~session.overlap /\ "reverse" \notin session.does

\* In an orderly group the till of a meeting is the group's cash: what one
\* meeting closes on the next opens with, an open meeting expects what the
\* group holds, the box is never overdrawn, and a flagged till is one that is
\* still open.
TillCarriesOver ==
    Orderly =>
        /\ CashBalance(entries) >= 0
        /\ \A k \in HeldMeetings :
              /\ k - 1 \in HeldMeetings => meeting[k].opening = meeting[k - 1].counted
              /\ meeting[k].status = "OPEN"
                    => ExpectedCash(meeting[k], k, entries) = CashBalance(entries)
              /\ meeting[k].status = "CLOSED"
                    => ExpectedCash(meeting[k], k, entries) = meeting[k].counted
        /\ tillFlag => \E k \in HeldMeetings : meeting[k].status = "OPEN"

\* The principal that came back, as the cashbook has it.
PrincipalBack(lines, l) ==
    BalanceOf(lines, {i \in DOMAIN lines : /\ lines[i].loan = l
                                           /\ lines[i].type = "LOAN_PRINCIPAL_REPAYMENT"})

\* One request at a time, a loan is out exactly as long as principal is owed,
\* no more are out than the bylaws allow, and where nothing is reversed the
\* cashbook shows the principal that came back.
LoanStanding ==
    session.atOnce = 1 =>
        /\ MaxLoans # 0 => Cardinality(LoansOut) <= MaxLoans
        /\ \A l \in Loan :
              /\ loan[l].status = "DISBURSED" => Outstanding(loan[l]) > 0
              /\ loan[l].status = "REPAID" => Outstanding(loan[l]) = 0
              /\ "reverse" \notin session.does => PrincipalBack(entries, l) = loan[l].repaid
=============================================================================
