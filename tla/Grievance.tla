----------------------------- MODULE Grievance -----------------------------
(***************************************************************************)
(* Complaints: apps/grievances (models, services, views, clock).           *)
(*                                                                         *)
(* Every workflow request fetches a complaint with no lock, and then in    *)
(* one transaction asks the locked row whether the edge exists and writes  *)
(* the columns it names, with facts taken from its own copy.  An edit      *)
(* (PATCH) writes all columns of its copy and derives the deadline again.  *)
(*                                                                         *)
(* Days are numbered from 1.  Left out: who may read a complaint, notes,   *)
(* wording, subjects and partners.                                         *)
(***************************************************************************)
EXTENDS Integers, FiniteSets

CONSTANTS
    Complaint,     \* slots for rows; the bound on complaints and appeals
    NoComplaint,
    Officer,       \* whoever works complaints; each runs one request at a time
    Rest,          \* days nobody works: Sundays and public holidays
    Horizon,       \* a day no deadline lies beyond
    Outcome,       \* what may be decided
    ResponseDays,  \* working days to answer, by severity
    AppealWindow,  \* GRIEVANCE_APPEAL_WINDOW_DAYS
    Desks          \* the instances a run covers, see Desk

Severity == DOMAIN ResponseDays
Day == 1 .. Horizon
NoDay == 0

GrievanceStatus == {"RECEIVED", "ACKNOWLEDGED", "UNDER_REVIEW", "AWAITING_COMPLAINANT",
                    "DECIDED", "CLOSED", "APPEALED", "REFERRED_OUT"}

GrievanceOpen == GrievanceStatus \ {"CLOSED", "APPEALED", "REFERRED_OUT"}

\* Kebele, woreda, region, federal.
Tier == 1 .. 4

GrievanceOps == {"acknowledge", "start_review", "pause", "resume", "decide", "close",
                 "appeal", "refer_out", "edit"}

\* Who is on duty, how many requests run at once, which, where complaints
\* enter, how many are raised and up to which day.
Desk == [ duty : SUBSET Officer, atOnce : Nat, does : SUBSET GrievanceOps,
          entry : SUBSET Tier, enter : Nat, until : Day ]

ASSUME GrievanceAssumption ==
    /\ IsFiniteSet(Officer) /\ NoComplaint \notin Complaint
    /\ Rest \subseteq Day /\ Horizon \in Nat /\ Horizon > 0
    /\ "" \notin Outcome
    /\ \A s \in Severity : ResponseDays[s] \in Nat \ {0}
    /\ AppealWindow \in Nat
    /\ Desks \subseteq Desk

VARIABLES
    complaint,  \* complaint[c]: the committed row
    holding,    \* holding[o]: the request officer o is in the middle of
    today,
    desk        \* chosen once

grievanceVars == <<complaint, holding, today, desk>>

GrievanceRow == [ status : GrievanceStatus \cup {"ABSENT"},
                  tier : Tier \cup {0},
                  parent : Complaint \cup {NoComplaint},  \* parent_grievance
                  severity : Severity \cup {""},
                  raised : Day \cup {NoDay},    \* date_raised
                  due : Day \cup {NoDay},       \* due_on
                  acked : BOOLEAN,              \* acknowledged_at is set
                  paused : Day \cup {NoDay},    \* paused_on
                  outcome : Outcome \cup {""},
                  resolved : Day \cup {NoDay},  \* resolution_date
                  told : BOOLEAN ]              \* feedback_given_at is set

NoRow == [ status |-> "ABSENT", tier |-> 0, parent |-> NoComplaint, severity |-> "",
           raised |-> NoDay, due |-> NoDay, acked |-> FALSE, paused |-> NoDay, outcome |-> "",
           resolved |-> NoDay, told |-> FALSE ]

GrievanceRequest == [ op : GrievanceOps \cup {"none"}, on : Complaint \cup {NoComplaint},
                      copy : GrievanceRow ]

NoGrievanceRequest == [op |-> "none", on |-> NoComplaint, copy |-> NoRow]

-----------------------------------------------------------------------------
(* clock.py                                                                *)

WorkingDay(d) == d \notin Rest

\* How many of the days first .. last are worked.
Worked(first, last) == Cardinality({d \in first .. last : WorkingDay(d)})

\* Wrong: the days of rest are counted.
AddWithRests(start, days) == start + days

\* The day on which the last of so many working days after start is worked.
AddWorkingDays(start, days) ==
    IF days = 0 THEN start
    ELSE CHOOSE d \in start .. Horizon : WorkingDay(d) /\ Worked(start + 1, d) = days

\* Signed, counted from the day after start, or backwards from the day before.
WorkingDaysBetween(start, end) ==
    IF end >= start THEN Worked(start + 1, end) ELSE -Worked(end, start - 1)

\* Horizon leaves room for every answer to what is still open on the last day.
ASSUME HorizonAssumption ==
    \A last \in {d.until : d \in Desks}, s \in Severity :
        Worked(last + 1, Horizon) >= ResponseDays[s]

DueOn(raised, severity) == AddWorkingDays(raised, ResponseDays[severity])

\* standing
Standing(row) ==
    IF row.status \notin GrievanceOpen THEN "closed"
    ELSE LET remaining == WorkingDaysBetween(today, row.due)
         IN  IF remaining < 0 THEN "late" ELSE IF remaining <= 2 THEN "due" ELSE "on_time"

\* GrievanceQuerySet.late
Late(row) == row.status \in GrievanceOpen /\ row.due < today

-----------------------------------------------------------------------------

\* The statuses each edge may leave from.  Facts that a body must supply are
\* supplied; a request without them changes nothing.
EdgesFrom ==
    [ acknowledge  |-> {"RECEIVED"},
      start_review |-> {"ACKNOWLEDGED"},
      pause        |-> {"UNDER_REVIEW"},
      resume       |-> {"AWAITING_COMPLAINANT"},
      decide       |-> {"UNDER_REVIEW"},
      close        |-> {"DECIDED"},
      appeal       |-> {"CLOSED"},
      refer_out    |-> {"RECEIVED", "ACKNOWLEDGED", "UNDER_REVIEW", "AWAITING_COMPLAINANT"} ]

GrievanceInit ==
    /\ complaint = [c \in Complaint |-> NoRow]
    /\ holding = [o \in Officer |-> NoGrievanceRequest]
    /\ today = 1
    /\ desk \in Desks

\* save of a new row: the deadline is derived.
NewRow(tier, parent, severity, raised) ==
    [ NoRow EXCEPT !.status = "RECEIVED", !.tier = tier, !.parent = parent,
                   !.severity = severity, !.raised = raised,
                   !.due = DueOn(raised, severity) ]

RaiseComplaint(c, tier, severity, raised) ==
    /\ complaint[c] = NoRow
    /\ Cardinality({d \in Complaint : complaint[d] # NoRow /\ complaint[d].parent = NoComplaint})
          < desk.enter
    /\ tier \in desk.entry
    /\ raised <= today
    /\ complaint' = [complaint EXCEPT ![c] = NewRow(tier, NoComplaint, severity, raised)]
    /\ UNCHANGED <<holding, today, desk>>

\* get_object.  Nothing is asked of the copy: the row may be ready by the time
\* it is locked.  Alone, a request that the row refuses is left out.
Fetch(o, op, c) ==
    /\ holding[o] = NoGrievanceRequest
    /\ Cardinality({p \in Officer : holding[p] # NoGrievanceRequest}) < desk.atOnce
    /\ o \in desk.duty /\ op \in desk.does
    /\ complaint[c] # NoRow
    /\ desk.atOnce = 1 /\ op # "edit" => complaint[c].status \in EdgesFrom[op]
    /\ holding' = [holding EXCEPT ![o] = [op |-> op, on |-> c, copy |-> complaint[c]]]
    /\ UNCHANGED <<complaint, today, desk>>

\* The worker dies, or the request is refused and rolled back.
GiveUp(o) ==
    /\ holding[o] # NoGrievanceRequest
    /\ holding' = [holding EXCEPT ![o] = NoGrievanceRequest]
    /\ UNCHANGED <<complaint, today, desk>>

\* Wrong: the edge is looked for on the copy.
EdgeOnCopy(o, op) == holding[o].copy.status \in EdgesFrom[op]

\* transition_to asks the locked row.
EdgeExists(o, op) == complaint[holding[o].on].status \in EdgesFrom[op]

\* What each handler of the workflow begins and ends with.
Moves(o, op) ==
    /\ holding[o].op = op
    /\ EdgeExists(o, op)
    /\ holding' = [holding EXCEPT ![o] = NoGrievanceRequest]
    /\ UNCHANGED <<today, desk>>

Acknowledge(o) ==
    LET c == holding[o].on
    IN  /\ Moves(o, "acknowledge")
        /\ ~holding[o].copy.acked
        /\ complaint' = [complaint EXCEPT ![c].status = "ACKNOWLEDGED", ![c].acked = TRUE]

StartReview(o) ==
    /\ Moves(o, "start_review")
    /\ complaint' = [complaint EXCEPT ![holding[o].on].status = "UNDER_REVIEW"]

Pause(o) ==
    LET c == holding[o].on
    IN  /\ Moves(o, "pause")
        /\ complaint' = [complaint EXCEPT ![c].status = "AWAITING_COMPLAINANT", ![c].paused = today]

\* Wrong: the wait is counted in calendar days.
DueAfterCalendarWait(row) == AddWorkingDays(row.due, today - row.paused)

\* resume: the deadline moves by the working days of the wait.
DueAfterWait(row) == AddWorkingDays(row.due, WorkingDaysBetween(row.paused, today))

\* The wait and the deadline are those of the copy.
Resume(o) ==
    LET c == holding[o].on
        copy == holding[o].copy
    IN  /\ Moves(o, "resume")
        /\ complaint' = [complaint EXCEPT
               ![c].status = "UNDER_REVIEW", ![c].paused = NoDay,
               ![c].due = IF copy.paused = NoDay THEN copy.due ELSE DueAfterWait(copy)]

Decide(o, outcome, on) ==
    LET c == holding[o].on
    IN  /\ Moves(o, "decide")
        /\ complaint' = [complaint EXCEPT ![c].status = "DECIDED", ![c].outcome = outcome,
                                          ![c].resolved = on]

\* grievance.resolution_date or date.today()
ResolvedOr(row, day) == IF row.resolved = NoDay THEN day ELSE row.resolved

\* record_feedback_and_close
CloseFile(o) ==
    LET c == holding[o].on
    IN  /\ Moves(o, "close")
        /\ complaint' = [complaint EXCEPT
               ![c].status = "CLOSED", ![c].told = TRUE,
               ![c].resolved = ResolvedOr(holding[o].copy, today)]

\* _inside_appeal_window: days since resolution_date.
InsideWindow(row) == today - row.resolved <= AppealWindow

\* _has_a_tier_above
HasTierAbove(row) == row.tier + 1 \in Tier

\* appeal: the complaint is heard again one tier up, as a row of its own.
Appeal(o, child) ==
    LET c == holding[o].on
        copy == holding[o].copy
    IN  /\ Moves(o, "appeal")
        /\ InsideWindow(complaint[c])
        /\ HasTierAbove(complaint[c])
        /\ complaint[child] = NoRow
        /\ complaint' = [complaint EXCEPT
               ![c].status = "APPEALED",
               ![child] = NewRow(copy.tier + 1, c, copy.severity, today)]

ReferOut(o) ==
    LET c == holding[o].on
    IN  /\ Moves(o, "refer_out")
        /\ complaint' = [complaint EXCEPT
               ![c].status = "REFERRED_OUT",
               ![c].resolved = ResolvedOr(holding[o].copy, today)]

\* PATCH: all columns of the copy, and the deadline derived again.
Edit(o, severity) ==
    LET copy == holding[o].copy
    IN  /\ holding[o].op = "edit"
        /\ complaint' = [complaint EXCEPT ![holding[o].on] =
               [copy EXCEPT !.severity = severity, !.due = DueOn(copy.raised, severity)]]
        /\ holding' = [holding EXCEPT ![o] = NoGrievanceRequest]
        /\ UNCHANGED <<today, desk>>

NextDay ==
    /\ today < desk.until
    /\ today' = today + 1
    /\ UNCHANGED <<complaint, holding, desk>>

GrievanceNext ==
    \/ \E c \in Complaint, t \in Tier, s \in Severity, d \in Day : RaiseComplaint(c, t, s, d)
    \/ \E o \in Officer :
          \/ \E op \in GrievanceOps, c \in Complaint : Fetch(o, op, c)
          \/ GiveUp(o)
          \/ Acknowledge(o) \/ StartReview(o) \/ Pause(o) \/ Resume(o)
          \/ \E outcome \in Outcome, d \in 1 .. desk.until : Decide(o, outcome, d)
          \/ CloseFile(o) \/ ReferOut(o)
          \/ \E child \in Complaint : Appeal(o, child)
          \/ \E s \in Severity : Edit(o, s)
    \/ NextDay

GrievanceSpec == GrievanceInit /\ [][GrievanceNext]_grievanceVars

-----------------------------------------------------------------------------
(* Properties.                                                             *)

Appeals(c) == {d \in Complaint : complaint[d] # NoRow /\ complaint[d].parent = c}

\* No edit writes an older copy over a transition that came after it.
NoStaleEdit == desk.atOnce = 1 \/ "edit" \notin desk.does

\* A complaint is heard once at the tier above: it is Appealed exactly when an
\* appeal exists, there is one, and the complainant was told before it, however
\* many officers file the appeal at once.
HeardOnce ==
    NoStaleEdit =>
        \A c \in Complaint :
            /\ complaint[c].status = "APPEALED" <=> Appeals(c) # {}
            /\ \A d, e \in Appeals(c) : d = e
            /\ Appeals(c) # {} => complaint[c].told

\* Whatever races, edits included, a complaint that was decided says what was
\* decided, one that was shut when it ended, and none is shut by a decision
\* the complainant was not told.
AnswerBeforeShut ==
    \A c \in Complaint :
        LET row == complaint[c]
        IN  /\ row.status \in {"DECIDED", "CLOSED", "APPEALED"} => row.outcome # ""
            /\ row.status \in {"CLOSED", "APPEALED"} => row.told
            /\ row.status \in GrievanceStatus \ GrievanceOpen => row.resolved # NoDay

Finished(c) ==
    /\ complaint[c].status \in {"APPEALED", "REFERRED_OUT"}
          => complaint'[c].status = complaint[c].status
    /\ complaint[c].status \in {"DECIDED", "CLOSED", "APPEALED"}
          => complaint'[c].outcome = complaint[c].outcome

\* What is finished stays finished, and a decision is never replaced.
FinishedStays == [][NoStaleEdit => \A c \in Complaint : Finished(c)]_grievanceVars

\* A wait for the complainant costs the programme nothing: a complaint taken up
\* again on a working day has as many working days left as on the day of the
\* pause, whatever rests and holidays lie in between.
WaitCostsNothing ==
    [][desk.atOnce = 1 =>
          \A c \in Complaint :
              LET row == complaint[c]
              IN  row.status = "AWAITING_COMPLAINANT" /\ complaint'[c].status = "UNDER_REVIEW"
                    /\ row.due >= row.paused /\ WorkingDay(today)
                  => WorkingDaysBetween(today, complaint'[c].due)
                        = WorkingDaysBetween(row.paused, row.due)]_grievanceVars

\* The queue of late complaints and the standing shown on each agree, because
\* no deadline ever falls on a day of rest.
QueueAgreesWithClock ==
    \A c \in Complaint : complaint[c].status \in GrievanceOpen =>
        (Late(complaint[c]) <=> Standing(complaint[c]) = "late")
=============================================================================
