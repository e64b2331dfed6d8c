----------------------------- MODULE Dashboard ------------------------------
(***************************************************************************)
(* The figures of the youth programme: apps/dashboard over the rows of     *)
(* youths, cases, referrals, placements and their retention checks.        *)
(*                                                                         *)
(* The rows are written one request at a time here (ReferralEngine and     *)
(* Placement have the overlaps); what is asked is whether the screens,     *)
(* each of which counts the same rows its own way, agree with each other.  *)
(*                                                                         *)
(* Days are small numbers, and a month is MonthDays of them.  A youth is   *)
(* cut by one trait.  Left out: partners, profiling and pathways (coverage *)
(* rows, not gates), service attendance (no code records it), trainings,   *)
(* enterprises, medians, targets, the retention card, wording.             *)
(***************************************************************************)
EXTENDS Integers, Sequences, FiniteSets, FiniteSetsExt

CONSTANTS
    Client,       \* youths that may be registered
    TraitOf,      \* TraitOf[c]: sex, age band, disability ...: what cuts a table
    District,     \* woredas
    SlipCap, PostCap,   \* bounds: rows of Referral and of Placement
    Standard,     \* REFERRAL_CONFIRMATION_OVERDUE_DAYS
    MonthDays,    \* days of a month
    Window,       \* months that the cumulative series shows
    CheckDays,    \* CHECKPOINT_DAYS
    ReportMin, ProvisionalMin,   \* the bands of a denominator
    Today,        \* bound: the last day
    Terms         \* what happens: to whom, where, until when, which operations

NoDistrict == "none"

ASSUME DashboardAssumption ==
    /\ SlipCap \in Nat /\ PostCap \in Nat
    /\ Standard \in Nat /\ MonthDays \in Nat \ {0} /\ Window \in Nat \ {0}
    /\ CheckDays \subseteq Nat \ {0} /\ CheckDays # {} /\ IsFiniteSet(CheckDays)
    /\ IsFiniteSet(Client) /\ NoDistrict \notin Client \cup District
    /\ ProvisionalMin \in Nat \ {0} /\ ReportMin \in Nat /\ ProvisionalMin <= ReportMin
    /\ Today \in Nat

VARIABLES
    client,   \* client[c]: the row of Youth, with her Case
    slip,     \* slip[s]: the row of Referral
    post,     \* post[p]: the row of Placement, with its RetentionChecks
    now,      \* the day
    term      \* which of Terms this behaviour shows

dashboardVars == <<client, slip, post, now, term>>

Slip == 1 .. SlipCap
Post == 1 .. PostCap

Never == -1
Day == 0 .. Today

ClientRow == [registered : Day \cup {Never}, home : District \cup {NoDistrict},
              opened : Day \cup {Never}, filed : District \cup {NoDistrict}]
Unregistered == [registered |-> Never, home |-> NoDistrict,
                 opened |-> Never, filed |-> NoDistrict]

SlipStatus == {"ABSENT", "PENDING_CONFIRMATION", "ACTIVE", "COMPLETED", "FAILED",
               "CANCELLED", "REPLACED"}
SlipRow == [of : Client \cup {NoDistrict}, status : SlipStatus,
            made : Day \cup {Never}, confirmed : Day \cup {Never},
            places : BOOLEAN, ended : Nat \cup {Never}]
NoSlip == [of |-> NoDistrict, status |-> "ABSENT", made |-> Never, confirmed |-> Never,
           places |-> FALSE, ended |-> Never]

NotChecked == [k \in CheckDays |-> "PENDING"]
PostRow == [of : Client \cup {NoDistrict}, placed : Day \cup {Never}, exit : Nat \cup {Never},
            check : [CheckDays -> {"PENDING", "RETAINED", "EXITED", "UNREACHABLE"}]]
NoPost == [of |-> NoDistrict, placed |-> Never, exit |-> Never, check |-> NotChecked]

DashboardInit ==
    /\ client = [c \in Client |-> Unregistered]
    /\ slip = [s \in Slip |-> NoSlip]
    /\ post = [p \in Post |-> NoPost]
    /\ now = 0
    /\ term \in Terms

-----------------------------------------------------------------------------
(* The rows.                                                               *)

Does(op) == op \in term.does

\* Days a form may name: a placement does not start in the future, while nothing
\* bounds the day of a confirmation, an outcome or an exit.
Past == IF term.backdates THEN 0 .. now ELSE {now}
AnyDay == IF term.backdates THEN 0 .. term.until ELSE {now}

\* Case.save, which every touch of the case goes through: the district follows.
Touched(c) == client' = [client EXCEPT ![c].filed = client[c].home]

Register(c, d) ==
    /\ Does("register") /\ c \in term.who /\ d \in term.in
    /\ client[c] = Unregistered
    /\ client' = [client EXCEPT ![c].registered = now, ![c].home = d]
    /\ UNCHANGED <<slip, post, now, term>>

\* A PATCH of the youth leaves the copy of the district in her case.
MoveHome(c, d) ==
    /\ Does("move") /\ d \in term.in
    /\ client[c].registered # Never /\ client[c].home # d
    /\ client' = [client EXCEPT ![c].home = d]
    /\ UNCHANGED <<slip, post, now, term>>

OpenCase(c) ==
    /\ Does("register")
    /\ client[c].registered # Never /\ client[c].opened = Never
    /\ client' = [client EXCEPT ![c].opened = now, ![c].filed = client[c].home]
    /\ UNCHANGED <<slip, post, now, term>>

\* Rows are taken in their order.
IsNextSlip(s) == slip[s] = NoSlip /\ s <= term.slips /\ \A q \in 1 .. s - 1 : slip[q] # NoSlip

Made(c) == [NoSlip EXCEPT !.of = c, !.status = "PENDING_CONFIRMATION", !.made = now]

Refer(c, s) ==
    /\ Does("refer")
    /\ client[c].opened # Never /\ IsNextSlip(s)
    /\ slip' = [slip EXCEPT ![s] = Made(c)]
    /\ Touched(c)
    /\ UNCHANGED <<post, now, term>>

\* The parallel rule allows two.
ConfirmSlip(s, d) ==
    /\ Does("refer") /\ d \in AnyDay
    /\ slip[s].status = "PENDING_CONFIRMATION"
    /\ Cardinality({q \in Slip : slip[q].of = slip[s].of /\ slip[q].status = "ACTIVE"}) < 2
    /\ slip' = [slip EXCEPT ![s].status = "ACTIVE", ![s].confirmed = d]
    /\ Touched(slip[s].of)
    /\ UNCHANGED <<post, now, term>>

\* decline, cancel, fail.
EndSlip(s, to) ==
    /\ Does("fail")
    /\ \/ to = "FAILED" /\ slip[s].status \in {"PENDING_CONFIRMATION", "ACTIVE"}
       \/ to = "CANCELLED" /\ slip[s].status = "PENDING_CONFIRMATION"
    /\ slip' = [slip EXCEPT ![s].status = to]
    /\ Touched(slip[s].of)
    /\ UNCHANGED <<post, now, term>>

CompleteSlip(s, places, d) ==
    /\ Does("complete") /\ d \in AnyDay
    /\ slip[s].status = "ACTIVE"
    /\ slip' = [slip EXCEPT ![s].status = "COMPLETED", ![s].places = places, ![s].ended = d]
    /\ Touched(slip[s].of)
    /\ UNCHANGED <<post, now, term>>

ReplaceSlip(s, q) ==
    /\ Does("fail")
    /\ slip[s].status = "FAILED" /\ IsNextSlip(q)
    /\ slip' = [slip EXCEPT ![s].status = "REPLACED", ![q] = Made(slip[s].of)]
    /\ Touched(slip[s].of)
    /\ UNCHANGED <<post, now, term>>

\* From any referral of a category that opens placements, whatever its status,
\* and any number of times.
RecordPost(p, s, d) ==
    /\ Does("place") /\ d \in Past
    /\ slip[s] # NoSlip
    /\ post[p] = NoPost /\ \A q \in 1 .. p - 1 : post[q] # NoPost
    /\ post' = [post EXCEPT ![p] = [NoPost EXCEPT !.of = slip[s].of, !.placed = d]]
    /\ Touched(slip[s].of)
    /\ UNCHANGED <<slip, now, term>>

\* record_check: "EXITED" only where the exit is on the placement.
AnswerCheck(p, k, found) ==
    /\ Does("answer")
    /\ post[p] # NoPost
    /\ found = "EXITED" => post[p].exit # Never
    /\ post[p].check[k] # found
    /\ post' = [post EXCEPT ![p].check[k] = found]
    /\ Touched(post[p].of)
    /\ UNCHANGED <<slip, now, term>>

\* Wrong: only the checks that are due are answered.
AnsweredIfDue(p, k) == post[p].check[k] = "PENDING" /\ post[p].placed + k <= now

\* record_exit answers what is pending.
AnsweredByExit(p, k) == post[p].check[k] = "PENDING"

LeavePost(p, d) ==
    /\ Does("leave") /\ d \in AnyDay
    /\ post[p] # NoPost /\ post[p].exit = Never /\ post[p].placed <= d
    /\ post' = [post EXCEPT
          ![p].exit = d,
          ![p].check = [k \in CheckDays |->
              IF AnsweredByExit(p, k)
              THEN IF d - post[p].placed >= k THEN "RETAINED" ELSE "EXITED"
              ELSE post[p].check[k]]]
    /\ Touched(post[p].of)
    /\ UNCHANGED <<slip, now, term>>

NextMorning ==
    /\ now < term.until
    /\ now' = now + 1
    /\ UNCHANGED <<client, slip, post, term>>

DashboardNext ==
    \/ NextMorning
    \/ \E c \in Client :
          \/ OpenCase(c)
          \/ \E d \in District : Register(c, d) \/ MoveHome(c, d)
          \/ \E s \in Slip : Refer(c, s)
    \/ \E s \in Slip :
          \/ \E d \in Day : ConfirmSlip(s, d)
          \/ \E to \in {"FAILED", "CANCELLED"} : EndSlip(s, to)
          \/ \E places \in BOOLEAN, d \in Day : CompleteSlip(s, places, d)
          \/ \E q \in Slip : ReplaceSlip(s, q)
          \/ \E p \in Post, d \in Day : RecordPost(p, s, d)
    \/ \E p \in Post :
          \/ \E k \in CheckDays, found \in {"RETAINED", "EXITED", "UNREACHABLE"} :
                AnswerCheck(p, k, found)
          \/ \E d \in Day : LeavePost(p, d)

DashboardSpec == DashboardInit /\ [][DashboardNext]_dashboardVars

-----------------------------------------------------------------------------
(* What a viewer may count: everything, or one district's.  Youths go by   *)
(* where they live, and what hangs on a case by the district in its file.  *)

Everywhere == "all"
Viewer == District \cup {Everywhere}
InScope(v, d) == v = Everywhere \/ d = v

YouthOf(v) == {c \in Client : client[c].registered # Never /\ InScope(v, client[c].home)}
SlipsOf(v) == {s \in Slip : slip[s] # NoSlip /\ InScope(v, client[slip[s].of].filed)}
PostsOf(v) == {p \in Post : post[p] # NoPost /\ InScope(v, client[post[p].of].filed)}

BandFor(d) == IF d < ProvisionalMin THEN "suppressed"
              ELSE IF d < ReportMin THEN "provisional" ELSE "report"
Rate(n, d) == [n |-> n, d |-> d, band |-> BandFor(d)]

(* Placements.                                                             *)

\* ReferralQuerySet.placements: the one definition.
Placements(v) == {s \in SlipsOf(v) : slip[s].status = "COMPLETED" /\ slip[s].places}

PlacedYouth(v) == {slip[s].of : s \in Placements(v)}

\* Wrong: referrals are counted, not youths.
CountReferrals(S) == Cardinality(S)

\* Every figure of placements is of youths.
CountYouths(S) == Cardinality({slip[s].of : s \in S})

Traits == {TraitOf[c] : c \in Client}

\* metric_cards: the split of placements.
SplitByTrait(v) ==
    [t \in Traits |-> Rate(CountYouths({s \in Placements(v) : TraitOf[slip[s].of] = t}),
                           Cardinality(PlacedYouth(v)))]

\* disaggregation: one cut of the youths.
Disaggregation(v) ==
    [t \in Traits |->
        LET registered == {c \in YouthOf(v) : TraitOf[c] = t}
        IN  Rate(Cardinality(registered \cap PlacedYouth(v)), Cardinality(registered))]

\* woreda_comparison: the districts where somebody is registered.
WoredaComparison(v) ==
    [d \in {client[c].home : c \in YouthOf(v)} |->
        Rate(CountYouths({s \in Placements(v) : client[slip[s].of].filed = d}),
             Cardinality({c \in YouthOf(v) : client[c].home = d}))]

Month(d) == d \div MonthDays

\* A youth enters the series with her first placement.
FirstPlaced(v, c) == Min({slip[s].ended : s \in {q \in Placements(v) : slip[q].of = c}})

\* Wrong: what is older than the window is lost.
ForgotBefore(v, start) == 0

\* What is older than the window is carried in.
CarriedIn(v, start) ==
    Cardinality({c \in PlacedYouth(v) : Month(FirstPlaced(v, c)) < start})

\* cumulative_placements: the last point of the series.
Cumulative(v) ==
    LET start == Month(now) - (Window - 1)
    IN  CarriedIn(v, start)
          + Cardinality({c \in PlacedYouth(v) :
                            Month(FirstPlaced(v, c)) \in start .. Month(now)})

(* The funnel.                                                             *)

\* Wrong: a referral that has ended is no longer one that was confirmed.
ConfirmedWhileRunning == {"ACTIVE", "REPLACED"}

ConfirmedStatuses == {"ACTIVE", "COMPLETED", "REPLACED"}

\* STAGES, the gates of them: the youths whose date of that stage is set.
Gates == <<"registered", "case_opened", "referred", "partner_confirmed", "closed_successfully">>

Reached(v, gate) ==
    {c \in YouthOf(v) :
        LET hers == {s \in Slip : slip[s].of = c}
        IN  CASE gate = "registered" -> TRUE
              [] gate = "case_opened" -> client[c].opened # Never
              [] gate = "referred" -> hers # {}
              [] gate = "partner_confirmed" ->
                     \E s \in hers : /\ slip[s].status \in ConfirmedStatuses
                                     /\ slip[s].confirmed # Never
              [] OTHER -> \E s \in hers : /\ slip[s].status = "COMPLETED"
                                          /\ slip[s].ended # Never}

\* funnel: how many a gate has lost to the next.
Lost(v, i) == Cardinality(Reached(v, Gates[i])) - Cardinality(Reached(v, Gates[i + 1]))

(* Retention.                                                              *)

\* retention_inputs: the checks that are due.
RetentionInputs(posts, k) ==
    LET due == {p \in posts : post[p].placed + k <= now}
        answered == {p \in due : post[p].check[k] # "PENDING"}
    IN  [due |-> Cardinality(due), answered |-> Cardinality(answered)]

\* retention_by_checkpoint.
Outstanding(v, k) ==
    LET in == RetentionInputs(PostsOf(v), k) IN in.due - in.answered

\* RetentionCheckQuerySet.due, and the size of the queue.
DueChecks(v) ==
    {pk \in PostsOf(v) \X CheckDays :
        LET row == post[pk[1]]
        IN  row.check[pk[2]] = "PENDING" /\ row.placed + pk[2] <= now /\ row.exit = Never}

(* The confirmation standard, in each place that reads it.                 *)

IsPending(s) == slip[s].status = "PENDING_CONFIRMATION"

\* detect_overdue_confirmations, and confirmation_overdue of the decision queue.
OverdueAlert(s) == IsPending(s) /\ slip[s].made < now - Standard

\* Wrong: the last day of the standard is late already.
WaitedUpTo(s) == now - slip[s].made >= Standard

\* awaiting_over_threshold; rules.is_overdue_for_confirmation.
WaitedTooLong(s) == now - slip[s].made > Standard

OverdueQueue(v) == {s \in SlipsOf(v) : IsPending(s) /\ WaitedTooLong(s)}

\* awaiting_confirmation_on_time.
OnTimeQueue(v) == {s \in SlipsOf(v) : IsPending(s) /\ slip[s].made >= now - Standard}

\* results_framework: confirmed within the threshold.
ConfirmedInTime(s) == slip[s].confirmed # Never /\ slip[s].confirmed - slip[s].made <= Standard

-----------------------------------------------------------------------------
(* Properties.                                                             *)

\* Every row is one the tables can hold.
DashboardTypeOK ==
    /\ client \in [Client -> ClientRow]
    /\ slip \in [Slip -> SlipRow]
    /\ post \in [Post -> PostRow]
    /\ now \in Day /\ term \in Terms

Total(table) == MapThenSumSet(LAMBDA x : table[x].n, DOMAIN table)

\* Every case carries the district where its youth lives.
InStep == \A c \in Client : client[c].opened # Never => client[c].filed = client[c].home

\* The headline, the split beside it, the last point of the series and both
\* tables are one number of youths: the tables wherever no youth has moved
\* since her case was last saved, and the series but for outcomes dated ahead.
OneHeadline ==
    \A v \in Viewer :
        LET placed == PlacedYouth(v)
        IN  /\ Total(SplitByTrait(v)) = Cardinality(placed)
            /\ Cumulative(v) =
                   Cardinality({c \in placed : Month(FirstPlaced(v, c)) <= Month(now)})
            /\ InStep => /\ Total(Disaggregation(v)) = Cardinality(placed)
                         /\ Total(WoredaComparison(v)) = Cardinality(placed)

\* No gate of the funnel shows more youths than the gate before it, whatever
\* referrals end, fail and are replaced: no loss is negative.
RowsNest == \A v \in Viewer, i \in 1 .. Len(Gates) - 1 : Lost(v, i) >= 0

\* What metric_cards, disaggregation, woreda_comparison, cumulative_placements
\* and funnel each count from the same rows can stand side by side.
FiguresAgree == OneHeadline /\ RowsNest

\* The checks that the table of checkpoints calls outstanding are those in the
\* queue, so that an exit, dated before or ahead, leaves none that nobody asks.
RetentionAddsUp ==
    \A v \in Viewer :
        MapThenSumSet(LAMBDA k : Outstanding(v, k), CheckDays) = Cardinality(DueChecks(v))

\* Alert, queue and indicator draw one line: a referral is overdue or on time
\* and not both, and an answer entered on its day counts as in time exactly if
\* the referral was not overdue when it came.
OneStandard ==
    [][/\ \A s \in Slip : OverdueAlert(s) <=> s \in OverdueQueue(Everywhere)
       /\ OverdueQueue(Everywhere) \cap OnTimeQueue(Everywhere) = {}
       /\ \A s \in Slip :
             IsPending(s) /\ slip'[s].status = "ACTIVE" /\ slip'[s].confirmed = now
                 => (ConfirmedInTime(s)' <=> s \notin OverdueQueue(Everywhere))]_dashboardVars
=============================================================================
