----------------------------- MODULE Readiness ------------------------------
(***************************************************************************)
(* The figures a savings group is judged by: services/indicators.py, the   *)
(* gates and the cards that read them, the nightly refresh that acts on    *)
(* them, and the SQL views that compute them a second time.                *)
(*                                                                         *)
(* One operating group.  Its rows are dated, so what matters is what a     *)
(* later join, exit, bylaw, meeting or payment does to a figure about an   *)
(* earlier day.  Requests run one at a time here; GroupLedger, GroupLife   *)
(* and Linkage have the overlaps.                                          *)
(*                                                                         *)
(* A meeting is opened, recorded and closed in one step; a close that is   *)
(* refused for its till comes before.  A loan is due on one day, as no     *)
(* code writes a schedule.  Percentages and weeks are in tenths, rounded   *)
(* as the code rounds them.  Left out: fines, charges, the social fund,    *)
(* the bank, officers, linkages, the names and ages of rows.               *)
(***************************************************************************)
EXTENDS Integers, Sequences, FiniteSets, SequencesExt

CONSTANTS
    Member,       \* women who may be of the group
    Horizon,      \* bound: the last day, and the latest day of a meeting or bylaw
    Cadence,      \* days between meetings that a bylaw may choose
    Sum,          \* contributions a bylaw may set, and what a woman may save
    Week,         \* days of a week
    Rule,         \* the policy parameters at the group's kebele, see RuleType
    FundBins,     \* FUND_WEEK_BINS: the lower ends, ascending from 0
    SavingBins,   \* COMPLIANCE_BINS: likewise
    StayCap, LoanCap, VersionCap,   \* bounds: rows
    Studies       \* what a behaviour may show, see Study

RuleType == [ rolling : Nat \ {0}, compliant : Nat,            \* indicator.*
              adherence : Nat, attendance : Nat, savings : Nat, meetings : Nat,   \* gate.p1.*
              fundWeeks : Nat, cycles : Nat, weeks : Nat, par : Nat,              \* gate.p2.*
              delinquent : Nat, default : Nat, lendAfter : Nat,                   \* loan.*
              multiple : Nat, floor : Nat, attendanceFloor : Nat, parCeiling : Nat ]   \* risk.*

\* What is read without a place: by card FC-3 and by the views.  Where the
\* kebele or a place above it has a row of its own, it differs from Rule.
GlobalType == [ rolling : Nat \ {0}, delinquent : Nat, default : Nat ]

Study == [ does : SUBSET {"join", "leave", "bylaws", "meet", "miscount", "lend", "repay", "refresh"},
           women : SUBSET Member, sums : SUBSET Sum, cadences : SUBSET Cadence,
           global : GlobalType,
           starts : SUBSET (0 .. Horizon),   \* when its first bylaws may start; 0: or before
           meetings : Nat,          \* how many are held
           until : 0 .. Horizon,    \* its last day
           backdates : BOOLEAN,     \* meetings and bylaws are dated before today, too
           ahead : BOOLEAN ]        \* ... and after it

ASSUME ReadinessAssumption ==
    /\ IsFiniteSet(Member)
    /\ Horizon \in Nat /\ Week \in Nat \ {0} /\ Cadence \subseteq Nat \ {0} /\ Sum \subseteq Nat
    /\ Rule \in RuleType
    /\ Rule.multiple >= 2
    \* 60 days against two months, the longest cadence.
    /\ \A c \in Cadence : Rule.floor >= 2 * c
    /\ StayCap \in Nat /\ LoanCap \in Nat /\ VersionCap \in Nat
    /\ Studies \subseteq Study

Ascends(bins) == bins \in Seq(Nat) /\ \A i, j \in 1 .. Len(bins) : i < j => bins[i] < bins[j]

\* The bins are constants of the code.
ASSUME BinsAssumption ==
    /\ Ascends(FundBins) /\ Len(FundBins) >= 2
    /\ Ascends(SavingBins) /\ Len(SavingBins) >= 3

VARIABLES
    day,        \* today
    standing,   \* the status of Group: it was activated, into the first phase, on day 0
    stays,      \* the rows of GroupMembership
    bylaws,     \* the versions, in order
    meetings,   \* the closed meetings, with who came and what each woman saved
    loans,      \* the loans, in order
    flags,      \* the reasons of its open RiskFlags
    study       \* chosen once

readinessVars == <<day, standing, stays, bylaws, meetings, loans, flags, study>>

Date == 0 .. Horizon
Open == Horizon + 1      \* no end yet: later than every date

Stay == [who : Member, from : Date, to : Date \cup {Open}]
Version == [from : Date, to : Date \cup {Open}, contribution : Sum, cadence : Cadence]
Meeting == [held : Date, nth : Nat,     \* nth: of those held on that day
            came : SUBSET Member, saved : [Member -> Sum \cup {0}]]
Loan == [status : {"DISBURSED", "REPAID", "WRITTEN_OFF"}, batch : Nat, due : Nat,
         principal : Nat, repaid : Nat]
Figured == {"LOW_ATTENDANCE", "HIGH_PAR", "MISSED_MEETINGS"}    \* reasons the figures give
Reason == Figured \cup {"UNBALANCED_TILL"}

-----------------------------------------------------------------------------
(* Rows as they stood on a date.                                           *)

\* Wrong: the members of today.
RosterNow(d) == {s.who : s \in {t \in stays : t.to = Open}}

\* roster_on: a day she left on is a day she was not there.
RosterOn(d) == {s.who : s \in {t \in stays : t.from <= d /\ d < t.to}}

current_members == {s.who : s \in {t \in stays : t.to = Open}}

\* The sheet of a meeting: a day she left on is a day she is asked for.
Sheet(d) == {s.who : s \in {t \in stays : t.from <= d /\ d <= t.to}}

current_bylaw == Last(bylaws)

Covered(d) == \E v \in ToSet(bylaws) : v.from <= d /\ d < v.to

\* bylaw_on(d) or other: no version covers a day before the first.
BylawOn(d, other) ==
    IF Covered(d) THEN CHOOSE v \in ToSet(bylaws) : v.from <= d /\ d < v.to ELSE other

\* compute: `bylaw`.
bylaw == BylawOn(day, current_bylaw)

\* What the last n meetings of S may be: which of two held on one day comes
\* first is the database's to say.
Windows(S, n) ==
    {W \in SUBSET S : /\ Cardinality(W) = IF Cardinality(S) < n THEN Cardinality(S) ELSE n
                      /\ \A m \in W, q \in S \ W : q.held <= m.held}

Recent(S, n) == CHOOSE W \in Windows(S, n) : TRUE

Held == {m \in meetings : m.held <= day}

LatestOf(S) == CHOOSE d \in {m.held : m \in S} : \A m \in S : m.held <= d

-----------------------------------------------------------------------------
(* indicators.compute.                                                     *)

Unmeasured == -1

\* _pct: half up, to a tenth.
Pct(n, d) == IF d = 0 THEN Unmeasured ELSE (2000 * n + d) \div (2 * d)

SumOver(S, f(_)) == FoldSet(LAMBDA x, t : f(x) + t, 0, S)

Expected(S) == SumOver(S, LAMBDA m : Cardinality(RosterOn(m.held)))
Present(S) == SumOver(S, LAMBDA m : Cardinality(m.came))
recent == Recent(Held, Rule.rolling)
attendance_pct == Pct(Present(recent), Expected(recent))

\* Wrong: by what is in force today.
RequiredNow(m) == bylaw.contribution

\* What a woman has to save at a meeting.
Required(m) == BylawOn(m.held, bylaw).contribution

Asked(w) == {m \in recent : w \in RosterOn(m.held)}
Met(w) == {m \in Asked(w) : m.saved[w] >= Required(m)}
Compliant(w) == Pct(Cardinality(Met(w)), Cardinality(Asked(w))) >= 10 * Rule.compliant

savings_compliance_pct ==
    LET asked == {w \in Member : Asked(w) # {}}
    IN  Pct(Cardinality({w \in asked : Compliant(w)}), Cardinality(asked))

\* Meetings held over meetings due, both since the window began.
meeting_adherence_pct ==
    LET cadence == bylaw.cadence
        span == Rule.rolling * cadence
        start == IF day > span THEN day - span ELSE 0
    IN  Pct(Cardinality({m \in Held : m.held >= start}), (day - start) \div cadence)

Owed(l) == loans[l].principal - loans[l].repaid

fund_etb ==
    SumOver(meetings, LAMBDA m : SumOver(Member, LAMBDA w : m.saved[w]))
      - SumOver(DOMAIN loans, LAMBDA l : Owed(l))

\* Weeks of the contributions of the members, at the cadence of that version.
FundWeeks(version) ==
    LET size == Cardinality(current_members)
        per == 2 * version.contribution * size * Week
    IN  IF per = 0 THEN Unmeasured ELSE (20 * fund_etb * version.cadence + per \div 2) \div per

fund_weeks_of_contribution == FundWeeks(bylaw)

OwedLoans == {l \in DOMAIN loans : loans[l].status = "DISBURSED" /\ Owed(l) > 0}
DaysLate(l) == day - loans[l].due

delinquent == {l \in OwedLoans : DaysLate(l) >= Rule.delinquent}
at_risk == {l \in OwedLoans : DaysLate(l) > Rule.default}

par30_pct ==
    IF OwedLoans = {} THEN 0
    ELSE Pct(SumOver(at_risk, Owed), SumOver(OwedLoans, Owed))

\* Wrong: as the bundle counted, a batch with a loan repaid.
BatchesRepaid == Cardinality({loans[l].batch : l \in {k \in DOMAIN loans : loans[k].status = "REPAID"}})

\* _completed_cycles: every loan of the batch is settled.
CompletedCycles ==
    Cardinality({b \in {loans[l].batch : l \in DOMAIN loans} :
                    \A l \in DOMAIN loans : loans[l].batch = b
                        => loans[l].status \in {"REPAID", "WRITTEN_OFF"}})

operating == {"ACTIVE", "AT_RISK", "DORMANT"}

\* Wrong: a multiple of the cadence, however short.
NoFloor(cadence) == cadence * Rule.multiple

\* The days without a meeting that make a group dormant.
DormantAfter(cadence) ==
    IF cadence * Rule.multiple > Rule.floor THEN cadence * Rule.multiple ELSE Rule.floor

\* The latest closed meeting counts here, even one dated ahead.
is_dormant ==
    /\ standing \in operating
    /\ LET anchor == IF meetings = {} THEN 0 ELSE LatestOf(meetings)
       IN  day - anchor > DormantAfter(bylaw.cadence)

MissedTwo == Held # {} /\ day - LatestOf(Held) > 2 * current_bylaw.cadence

risk_reasons ==
    {r \in Figured :
        CASE r = "LOW_ATTENDANCE" ->
                 attendance_pct # Unmeasured /\ attendance_pct < 10 * Rule.attendanceFloor
          [] r = "HIGH_PAR" -> par30_pct > 10 * Rule.parCeiling
          [] OTHER -> MissedTwo}

-----------------------------------------------------------------------------
(* gates: the names of the conditions that are not met.                    *)

AtLeast(threshold, actual) == actual # Unmeasured /\ actual >= threshold

P1ToP2Unmet ==
    {c \in {"meeting_adherence", "attendance", "savings_compliance", "savings_meetings", "par30"} :
        ~ CASE c = "meeting_adherence" -> AtLeast(10 * Rule.adherence, meeting_adherence_pct)
            [] c = "attendance" -> AtLeast(10 * Rule.attendance, attendance_pct)
            [] c = "savings_compliance" -> AtLeast(10 * Rule.savings, savings_compliance_pct)
            [] c = "savings_meetings" -> AtLeast(Rule.meetings, Cardinality(Held))
            [] OTHER -> par30_pct <= 10 * Rule.par}

P2ToP3Unmet ==
    {c \in {"fund_adequacy", "completed_cycles", "par30", "weeks_since_p1"} :
        ~ CASE c = "fund_adequacy" -> AtLeast(10 * Rule.fundWeeks, fund_weeks_of_contribution)
            [] c = "completed_cycles" -> AtLeast(Rule.cycles, CompletedCycles)
            [] c = "par30" -> par30_pct <= 10 * Rule.par
            [] OTHER -> AtLeast(Rule.weeks, day \div Week)}

-----------------------------------------------------------------------------
(* The cards of programme.py and facilitator.py.                           *)

\* Wrong: a group at the gate is shown under it.
BinUpTo(bins, value) ==
    IF value = Unmeasured THEN 0
    ELSE 1 + Cardinality({i \in 2 .. Len(bins) : 10 * bins[i] < value})

\* The bin of a card a group is counted in, 0 when it is not measured.
Bin(bins, value) ==
    IF value = Unmeasured THEN 0
    ELSE 1 + Cardinality({i \in 2 .. Len(bins) : 10 * bins[i] <= value})

fund_adequacy == Bin(FundBins, fund_weeks_of_contribution)
savings_compliance_distribution == Bin(SavingBins, savings_compliance_pct)

\* repayments_overdue: the two blocks of card FC-3, by the global rules.
OverdueCard ==
    LET late == {l \in OwedLoans : DaysLate(l) >= study.global.delinquent}
        default == {l \in late : DaysLate(l) >= study.global.default}
    IN  [DELINQUENT |-> late \ default, DEFAULT |-> default]

-----------------------------------------------------------------------------
(* The materialised views, on the morning they are refreshed.  They ask no *)
(* date of a meeting, read the version without an end, and go by the       *)
(* global rules.                                                           *)

wlt_mv_group_compliance ==
    LET last == Recent(meetings, study.global.rolling) IN Pct(Present(last), Expected(last))

wlt_mv_group_financials ==
    LET owed == {l \in DOMAIN loans : loans[l].status = "DISBURSED"}
        risky == {l \in owed : Owed(l) > 0 /\ loans[l].due < day - study.global.default}
        total == SumOver(owed, Owed)
        open == {loans[l].batch : l \in owed}
    IN  [par30 |-> IF total = 0 THEN 0 ELSE Pct(SumOver(risky, Owed), total),
         weeks |-> FundWeeks(current_bylaw),
         cycles |-> Cardinality({loans[l].batch : l \in DOMAIN loans} \ open)]

-----------------------------------------------------------------------------
(* What happens.                                                           *)

Shows(op) == op \in study.does

\* The dates a form may name.
Named == {d \in 0 .. study.until : /\ d < day => study.backdates
                                  /\ d > day => study.ahead}

ReadinessInit ==
    /\ day = 0 /\ standing = "ACTIVE"
    /\ study \in Studies
    /\ \E w \in study.women : stays = {[who |-> w, from |-> 0, to |-> Open]}
    /\ \E c \in study.cadences, s \in study.sums, first \in study.starts :
          bylaws = <<[from |-> first, to |-> Open, contribution |-> s, cadence |-> c]>>
    /\ meetings = {} /\ loans = <<>> /\ flags = {}

\* add_member.
Join(w) ==
    /\ Shows("join") /\ w \in study.women
    /\ Cardinality(stays) < StayCap
    /\ w \notin current_members
    /\ stays' = stays \cup {[who |-> w, from |-> day, to |-> Open]}
    /\ UNCHANGED <<day, standing, bylaws, meetings, loans, flags, study>>

\* exit_member, of one who owes nothing.
Leave(w) ==
    /\ Shows("leave")
    /\ \E s \in stays :
          /\ s.who = w /\ s.to = Open
          /\ stays' = (stays \ {s}) \cup {[s EXCEPT !.to = day]}
    /\ UNCHANGED <<day, standing, bylaws, meetings, loans, flags, study>>

\* record_bylaws: the version in force ends where the new one starts.
RecordBylaws(from, contribution, cadence) ==
    /\ Shows("bylaws")
    /\ Len(bylaws) < VersionCap
    /\ from > current_bylaw.from
    /\ bylaws' = Append([bylaws EXCEPT ![Len(bylaws)].to = from],
                        [from |-> from, to |-> Open,
                         contribution |-> contribution, cadence |-> cadence])
    /\ UNCHANGED <<day, standing, stays, meetings, loans, flags, study>>

\* open_meeting, record_attendance, record_savings and a close that balances:
\* those who come save the same.
Meet(held, came, saved) ==
    /\ Shows("meet")
    /\ Cardinality(meetings) < study.meetings
    /\ came \subseteq Sheet(held)
    /\ meetings' = meetings \cup
          {[held |-> held, nth |-> Cardinality({m \in meetings : m.held = held}), came |-> came,
            saved |-> [w \in Member |-> IF w \in came THEN saved ELSE 0]]}
    /\ flags' = flags \ {"UNBALANCED_TILL"}
    /\ UNCHANGED <<day, standing, stays, bylaws, loans, study>>

\* close_meeting, refused: the count of the box is not what the books say.
Miscount ==
    /\ Shows("miscount")
    /\ flags' = flags \cup {"UNBALANCED_TILL"}
    /\ UNCHANGED <<day, standing, stays, bylaws, meetings, loans, study>>

\* disburse_loan; nobody names a batch, so it is the latest there is.
Lend(principal, due) ==
    /\ Shows("lend")
    /\ Len(loans) < LoanCap
    /\ Cardinality(meetings) >= Rule.lendAfter
    /\ principal <= fund_etb
    /\ loans' = Append(loans, [status |-> "DISBURSED",
                               batch |-> IF loans = <<>> THEN 1 ELSE Last(loans).batch,
                               due |-> due, principal |-> principal, repaid |-> 0])
    /\ UNCHANGED <<day, standing, stays, bylaws, meetings, flags, study>>

\* record_repayment, which does not ask whether the loan was written off.
Repay(l, amount) ==
    /\ Shows("repay")
    /\ amount > 0 /\ amount <= Owed(l)
    /\ loans' = [loans EXCEPT ![l].repaid = @ + amount,
                              ![l].status = IF amount = Owed(l) THEN "REPAID" ELSE @]
    /\ UNCHANGED <<day, standing, stays, bylaws, meetings, flags, study>>

WriteOff(l) ==
    /\ Shows("repay")
    /\ loans[l].status = "DISBURSED"
    /\ loans' = [loans EXCEPT ![l].status = "WRITTEN_OFF"]
    /\ UNCHANGED <<day, standing, stays, bylaws, meetings, flags, study>>

\* refresh_group_indicators.
NextStatus ==
    IF is_dormant /\ standing = "ACTIVE" THEN "DORMANT"
    ELSE IF ~is_dormant /\ standing = "DORMANT" THEN "ACTIVE"
    ELSE IF standing = "ACTIVE" /\ risk_reasons # {} THEN "AT_RISK"
    ELSE IF standing = "AT_RISK" /\ risk_reasons = {} /\ ~is_dormant THEN "ACTIVE"
    ELSE standing

\* Wrong: the sweep clears whatever the figures do not give.
KeepsNone == {}

\* The flags that are not the sweep's to clear.
Kept == flags \ Figured

Refresh ==
    /\ Shows("refresh")
    /\ flags' = risk_reasons \cup Kept
    /\ standing' = NextStatus
    /\ UNCHANGED <<day, stays, bylaws, meetings, loans, study>>

Tomorrow ==
    /\ day < study.until
    /\ day' = day + 1
    /\ UNCHANGED <<standing, stays, bylaws, meetings, loans, flags, study>>

ReadinessNext ==
    \/ Tomorrow \/ Refresh \/ Miscount
    \/ \E w \in Member : Join(w) \/ Leave(w)
    \/ \E from \in Named, s \in study.sums, c \in study.cadences : RecordBylaws(from, s, c)
    \/ \E held \in Named, came \in SUBSET study.women, s \in study.sums \cup {0} :
          Meet(held, came, s)
    \/ \E principal \in study.sums, due \in Named : Lend(principal, due)
    \/ \E l \in DOMAIN loans : WriteOff(l) \/ \E amount \in study.sums : Repay(l, amount)

ReadinessSpec == ReadinessInit /\ [][ReadinessNext]_readinessVars

-----------------------------------------------------------------------------
(* Properties.                                                             *)

ReadinessTypeOK ==
    /\ day \in Date /\ standing \in operating
    /\ stays \subseteq Stay /\ bylaws \in Seq(Version) /\ meetings \subseteq Meeting
    /\ loans \in Seq(Loan) /\ flags \subseteq Reason /\ study \in Studies

\* What a meeting that is over was measured against does not move: no join,
\* exit or day changes whom it expected, and where a version covered it, only
\* one dated on or before it changes what it asked of them.  No version covers
\* a meeting held before the first: it asks what the bylaws of today do, from
\* one day and one version to the next, and stays one that none covers.
PastStands ==
    [][\A m \in meetings : m.held < day =>
          /\ RosterOn(m.held)' = RosterOn(m.held)
          /\ Covered(m.held)' <=> Covered(m.held)
          /\ IF Covered(m.held) THEN Required(m)' # Required(m) => current_bylaw'.from <= m.held
                                ELSE Required(m)' = bylaw'.contribution]_readinessVars

\* Where the kebele's gates are where the bins of the two cards are set, a
\* group is under the gate on the card exactly if it is measured and the gate
\* holds it back for that.
CardsMatchGates ==
    /\ FundBins[2] = Rule.fundWeeks =>
          (fund_adequacy = 1
             <=> fund_weeks_of_contribution # Unmeasured /\ "fund_adequacy" \in P2ToP3Unmet)
    /\ SavingBins[3] = Rule.savings =>
          (savings_compliance_distribution \in {1, 2}
             <=> savings_compliance_pct # Unmeasured /\ "savings_compliance" \in P1ToP2Unmet)

\* The place has no value of its own for a parameter.
NoOverride(p) == study.global[p] = Rule[p]

\* The views and the service give one figure for attendance, PAR30, cycles and
\* the fund, while no meeting and no bylaw is dated ahead; what PAR30 counts
\* is in default on the facilitator's card, and both call the same loans late.
\* Only the service reads the rules of the place: attendance, PAR30 and what
\* is late agree where it has no value of its own for their parameter, and
\* attendance where no two meetings of one day stand at the edge of the window.
OneDefinition ==
    /\ CardsMatchGates
    /\ NoOverride("rolling") /\ Held = meetings /\ Cardinality(Windows(meetings, Rule.rolling)) = 1
          => wlt_mv_group_compliance = attendance_pct
    /\ NoOverride("default") => wlt_mv_group_financials.par30 = par30_pct
    /\ wlt_mv_group_financials.cycles = CompletedCycles
    /\ current_bylaw.from <= day \/ Len(bylaws) = 1
          => wlt_mv_group_financials.weeks = fund_weeks_of_contribution
    /\ study.global.delinquent <= study.global.default /\ study.global.default <= Rule.default
          => at_risk \subseteq OverdueCard.DEFAULT
    /\ NoOverride("delinquent") => OverdueCard.DEFAULT \cup OverdueCard.DELINQUENT = delinquent

\* After the refresh a group that is at risk says why, and one that is active
\* has nothing of the sweep's own to say unless it was dormant until then.  A
\* till that did not balance puts no group at risk by itself, and is taken
\* back by nothing but a meeting that closes.
AtRiskSaysWhy ==
    [][/\ Refresh => /\ standing' = "AT_RISK" => flags' \cap Figured # {}
                     /\ standing' = "ACTIVE" /\ flags' \cap Figured # {} => standing = "DORMANT"
       /\ "UNBALANCED_TILL" \in flags \ flags' => meetings' # meetings]_readinessVars

\* As tasks.py says: dormancy is set because the clock says so.  After the
\* nightly refresh a group that the definition calls dormant is DORMANT.
DormantByTheClock == [][Refresh => (is_dormant => standing' = "DORMANT")]_readinessVars
=============================================================================
