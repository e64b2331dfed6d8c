----------------------------- MODULE AlertInbox -----------------------------
(***************************************************************************)
(* The alert inbox: apps/alerts/tasks.py, models.py and views.py.          *)
(*                                                                         *)
(* An alert materialises a condition.  Beat jobs detect the conditions and *)
(* raise alerts, a sweep closes the alerts whose condition has gone, and   *)
(* people action or dismiss them.  A job fetches its queryset once and     *)
(* works through the copies, one short statement at a time, next to other  *)
(* jobs, to people, and to the referrals on which the conditions depend.   *)
(* The referrals move as ReferralLifecycle says, which is what             *)
(* ReferralEngine is shown to implement.                                   *)
(*                                                                         *)
(* All alerts here are about one case.  Left out: summaries, assignees,    *)
(* thresholds and dates.                                                   *)
(***************************************************************************)
EXTENDS ReferralLifecycle

CONSTANTS
    Alert,     \* slots for alert rows; the bound on how many are ever raised
    Beat,      \* workers that run the scheduled jobs
    Person,    \* users who close alerts
    Kinds      \* the alert types detected in this instance

AllKinds == {"STALL", "REFERRAL_CONFIRMATION_OVERDUE", "FOLLOW_UP_DUE",
             "ONWARD_REFERRAL_PROMPT", "REPLACEMENT_REFERRAL_PROMPT",
             "RETENTION_CHECK_DUE", "TRAINING_ONWARD_PROMPT"}

\* The types that name a referral.  TRAINING_ONWARD_PROMPT stands for an alert
\* of type ONWARD_REFERRAL_PROMPT raised with no referral.
ReferralKinds == {"REFERRAL_CONFIRMATION_OVERDUE", "FOLLOW_UP_DUE",
                  "ONWARD_REFERRAL_PROMPT", "REPLACEMENT_REFERRAL_PROMPT"}

ASSUME InboxAssumption ==
    /\ None \notin Referral \cup Alert \cup Person
    /\ Kinds \subseteq AllKinds

\* What an alert is about: its type, and the referral if it names one.
Subject == {s \in Kinds \X (Referral \cup {None}) :
                s[1] \in ReferralKinds <=> s[2] # None}

VARIABLES
    followed,   \* followed[r]: an onward referral follows r
    due,        \* due[s]: the part of the condition that time and case work decide
    alert,      \* alert[a]: the committed row
    job,        \* job[b]: what is left of the job that beat worker b runs
    hand        \* hand[p]: the alert of which person p has fetched an open copy

inboxVars == <<status, replacement, followed, due, alert, job, hand>>

AlertRow == [ status : {"ABSENT", "OPEN", "ACTIONED", "DISMISSED"},
              subject : Subject \cup {None},
              actor : Person \cup {None} ]

NoAlert == [status |-> "ABSENT", subject |-> None, actor |-> None]

Job == [ found : SUBSET Subject,             \* fetched, not yet raised
         raising : Subject \cup {None},      \* exists() said no; insert comes next
         fetched : SUBSET Alert,             \* open copies, not yet re-checked
         closing : Alert \cup {None} ]       \* condition gone; update comes next

NoJob == [found |-> {}, raising |-> None, fetched |-> {}, closing |-> None]

-----------------------------------------------------------------------------

\* The condition a detection job looks for.
Detected(s) ==
    LET r == s[2]
    IN  CASE s[1] = "REFERRAL_CONFIRMATION_OVERDUE" ->
                 status[r] = "PENDING_CONFIRMATION" /\ due[s]
          [] s[1] = "FOLLOW_UP_DUE" -> status[r] = "ACTIVE" /\ due[s]
          [] s[1] = "ONWARD_REFERRAL_PROMPT" -> status[r] = "COMPLETED" /\ ~followed[r]
          [] s[1] = "REPLACEMENT_REFERRAL_PROMPT" ->
                 status[r] = "FAILED" /\ replacement[r] = None
          [] OTHER -> due[s]

\* Wrong: a prompt is taken to hold for as long as its referral has ended so.
StillHoldsByStatus(s) ==
    IF s[1] = "REPLACEMENT_REFERRAL_PROMPT"
    THEN status[s[2]] \in {"FAILED", "REPLACED"}
    ELSE Detected(s)

\* Wrong: the onward prompt is looked up by the wrong identity and never found.
StillHoldsUnfound(s) == s[1] # "ONWARD_REFERRAL_PROMPT" /\ Detected(s)

\* _condition_still_holds: the same, but an overdue confirmation is not asked
\* for its date, and a prompt without a referral finds no row.
StillHolds(s) ==
    CASE s[1] = "REFERRAL_CONFIRMATION_OVERDUE" -> status[s[2]] = "PENDING_CONFIRMATION"
      [] s[1] = "TRAINING_ONWARD_PROMPT" -> FALSE
      [] OTHER -> Detected(s)

OpenFor(s) == {a \in Alert : alert[a].status = "OPEN" /\ alert[a].subject = s}

InboxInit ==
    /\ LifecycleInit
    /\ followed = [r \in Referral |-> FALSE]
    /\ due = [s \in Subject |-> FALSE]
    /\ alert = [a \in Alert |-> NoAlert]
    /\ job = [b \in Beat |-> NoJob]
    /\ hand = [p \in Person |-> None]

(* The case work around the inbox.                                         *)

\* A referral is initiated, moves or is replaced.
ReferralMoves ==
    /\ LifecycleNext
    /\ UNCHANGED <<followed, due, alert, job, hand>>

\* An onward referral follows a completed one, which stays completed.
OnwardFollows(r, q) ==
    /\ status[r] = "COMPLETED"
    /\ Create(q)
    /\ followed' = [followed EXCEPT ![r] = TRUE]
    /\ UNCHANGED <<due, alert, job, hand>>

\* Days pass, a visit is logged, a check is answered.  The waiting time of a
\* pending referral only grows.
ConditionChanges(s) ==
    /\ s[1] \notin {"ONWARD_REFERRAL_PROMPT", "REPLACEMENT_REFERRAL_PROMPT"}
    /\ s[1] = "REFERRAL_CONFIRMATION_OVERDUE" => ~due[s]
    /\ due' = [due EXCEPT ![s] = ~@]
    /\ UNCHANGED <<status, replacement, followed, alert, job, hand>>

(* The detection jobs.                                                     *)

Environment == <<status, replacement, followed, due>>

\* The job's queryset is fetched.
DetectFetch(b, kind) ==
    LET found == {s \in Subject : s[1] = kind /\ Detected(s)}
    IN  /\ job[b] = NoJob
        /\ found # {}
        /\ job' = [job EXCEPT ![b].found = found]
        /\ UNCHANGED <<Environment, alert, hand>>

\* _raise: exists() finds an open alert, and the next row is taken.
RaiseSkip(b, s) ==
    /\ s \in job[b].found /\ job[b].raising = None
    /\ OpenFor(s) # {}
    /\ job' = [job EXCEPT ![b].found = @ \ {s}]
    /\ UNCHANGED <<Environment, alert, hand>>

\* _raise: exists() finds none.
RaiseLook(b, s) ==
    /\ s \in job[b].found /\ job[b].raising = None
    /\ OpenFor(s) = {}
    /\ job' = [job EXCEPT ![b].found = @ \ {s}, ![b].raising = s]
    /\ UNCHANGED <<Environment, alert, hand>>

\* Wrong: the second index, for alerts that name no referral, is forgotten.
IndexWithoutNulls(s) == s[2] # None => OpenFor(s) = {}

\* The partial unique indexes on open alerts.
IndexAllows(s) == OpenFor(s) = {}


\* _raise: the insert, with no second look at the condition.
RaiseInsert(b, a) ==
    /\ job[b].raising # None
    /\ alert[a] = NoAlert
    /\ IndexAllows(job[b].raising)
    /\ alert' = [alert EXCEPT ![a] = [ status |-> "OPEN", subject |-> job[b].raising,
                                       actor |-> None ]]
    /\ job' = [job EXCEPT ![b].raising = None]
    /\ UNCHANGED <<Environment, hand>>

\* _raise: the index refuses the insert and the job goes on.  (Or the bound
\* is reached: no slot is left.)
RaiseLost(b) ==
    /\ job[b].raising # None
    /\ ~IndexAllows(job[b].raising) \/ \A a \in Alert : alert[a] # NoAlert
    /\ job' = [job EXCEPT ![b].raising = None]
    /\ UNCHANGED <<Environment, alert, hand>>

(* The sweep.                                                              *)

\* resolve_cleared_alerts fetches every open alert.
SweepFetch(b) ==
    LET fetched == {a \in Alert : alert[a].status = "OPEN"}
    IN  /\ job[b] = NoJob
        /\ fetched # {}
        /\ job' = [job EXCEPT ![b].fetched = fetched]
        /\ UNCHANGED <<Environment, alert, hand>>

\* The condition still holds.
SweepKeep(b, a) ==
    /\ a \in job[b].fetched /\ job[b].closing = None
    /\ StillHolds(alert[a].subject)
    /\ job' = [job EXCEPT ![b].fetched = @ \ {a}]
    /\ UNCHANGED <<Environment, alert, hand>>

\* The condition has gone.
SweepLook(b, a) ==
    /\ a \in job[b].fetched /\ job[b].closing = None
    /\ ~StillHolds(alert[a].subject)
    /\ job' = [job EXCEPT ![b].fetched = @ \ {a}, ![b].closing = a]
    /\ UNCHANGED <<Environment, alert, hand>>

\* resolve(): is_open is asked of the copy, so the row is written whatever it
\* has become.
Resolve(a, to, who) ==
    alert' = [alert EXCEPT ![a].status = to, ![a].actor = who]

\* The system closes as ACTIONED, by nobody.
SweepClose(b) ==
    /\ job[b].closing # None
    /\ Resolve(job[b].closing, "ACTIONED", None)
    /\ job' = [job EXCEPT ![b].closing = None]
    /\ UNCHANGED <<Environment, hand>>

\* The worker that runs the job dies; each statement has committed by itself.
JobDies(b) ==
    /\ job[b] # NoJob
    /\ job' = [job EXCEPT ![b] = NoJob]
    /\ UNCHANGED <<Environment, alert, hand>>

(* People.                                                                 *)

\* action or dismiss: get_object fetches the alert; a closed one is refused.
PersonFetch(p, a) ==
    /\ hand[p] = None
    /\ alert[a].status = "OPEN"
    /\ hand' = [hand EXCEPT ![p] = a]
    /\ UNCHANGED <<Environment, alert, job>>

\* ... resolve() writes the person's answer, and touch() counts it as activity
\* on the case, which is then no longer stalled.  (The touch is a statement of
\* its own; ConditionChanges already gives every order around it.)
PersonResolve(p, to) ==
    /\ hand[p] # None
    /\ Resolve(hand[p], to, p)
    /\ hand' = [hand EXCEPT ![p] = None]
    /\ due' = [s \in Subject |-> due[s] /\ s[1] # "STALL"]
    /\ UNCHANGED <<status, replacement, followed, job>>

-----------------------------------------------------------------------------

RaiseStep(b) ==
    \/ RaiseLost(b)
    \/ \E s \in Subject : RaiseSkip(b, s) \/ RaiseLook(b, s)
    \/ \E a \in Alert : RaiseInsert(b, a)

InboxNext ==
    \/ ReferralMoves
    \/ \E r, q \in Referral : OnwardFollows(r, q)
    \/ \E s \in Subject : ConditionChanges(s)
    \/ \E b \in Beat :
          \/ \E kind \in Kinds : DetectFetch(b, kind)
          \/ SweepFetch(b) \/ SweepClose(b) \/ RaiseStep(b) \/ JobDies(b)
          \/ \E a \in Alert : SweepKeep(b, a) \/ SweepLook(b, a)
    \/ \E p \in Person :
          \/ \E a \in Alert : PersonFetch(p, a)
          \/ \E to \in {"ACTIONED", "DISMISSED"} : PersonResolve(p, to)

InboxSpec == InboxInit /\ [][InboxNext]_inboxVars

\* Beat starts the sweep every four hours, workers run what they have fetched,
\* and no worker is so unlucky as to die at the same point of every run.
InboxFairSpec ==
    /\ InboxSpec
    /\ \A b \in Beat :
          /\ WF_inboxVars(RaiseStep(b))
          /\ SF_inboxVars(SweepFetch(b)) /\ SF_inboxVars(SweepClose(b))
          /\ \A a \in Alert : SF_inboxVars(SweepKeep(b, a) \/ SweepLook(b, a))

-----------------------------------------------------------------------------
(* Properties.                                                             *)

\* Alerts, jobs and hands are well formed.
InboxTypeOK ==
    /\ status \in [Referral -> Status]
    /\ replacement \in [Referral -> Referral \cup {None}]
    /\ followed \in [Referral -> BOOLEAN]
    /\ due \in [Subject -> BOOLEAN]
    /\ alert \in [Alert -> AlertRow]
    /\ job \in [Beat -> Job]
    /\ hand \in [Person -> Alert \cup {None}]

\* However many beat workers detect one condition at once, an inbox shows it once.
OneOpenAlert ==
    \A a, b \in Alert :
        /\ alert[a].status = "OPEN" /\ alert[b].status = "OPEN"
        /\ alert[a].subject = alert[b].subject
        => a = b

\* The prompts and the confirmation alert: their conditions never come back.
OnceOnly == {"REFERRAL_CONFIRMATION_OVERDUE", "ONWARD_REFERRAL_PROMPT",
             "REPLACEMENT_REFERRAL_PROMPT"}

ClosedBySystem(a) ==
    /\ alert[a].status = "OPEN"
    /\ alert'[a].status = "ACTIONED" /\ alert'[a].actor = None

\* The sweep acts on what it read some time ago, and is right all the same:
\* when it closes an alert about a referral's standing, the condition is gone.
SystemCloseIsRight ==
    [][\A a \in Alert :
          ClosedBySystem(a) /\ alert[a].subject[1] \in OnceOnly
              => ~Detected(alert[a].subject)]_inboxVars

\* An alert whose condition has gone does not stay in the inbox for ever.
ClearedAlertsClose ==
    \A a \in Alert :
        alert[a].status = "OPEN" /\ ~Detected(alert[a].subject)
            ~> alert[a].status # "OPEN" \/ Detected(alert[a].subject)
=============================================================================
