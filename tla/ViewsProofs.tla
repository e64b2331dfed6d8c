---------------------------- MODULE ViewsProofs -----------------------------
(***************************************************************************)
(* Proofs about what is read off the rows: AlertInbox for any number of    *)
(* referrals, alerts, workers and people and any set of alert types, then  *)
(* Dashboard for any youths, districts, rows and checkpoints, and          *)
(* Readiness for any members, studies and policy.                          *)
(*                                                                         *)
(* The argument for the sweep: the conditions of the OnceOnly types go one *)
(* way only, from not yet, through holding, to gone.  Whatever a job has   *)
(* fetched has begun to hold, so a sweep that finds the condition false    *)
(* finds it gone for good, and its late write is right.                    *)
(*                                                                         *)
(* The argument for the figures: each is a fold over rows, so first comes  *)
(* what a fold adds up (Adds), whichever row it takes out first.  A table  *)
(* that counts every youth in one row of it then adds up to the youths,    *)
(* and two sums are one if they differ by rows that add nothing.           *)
(***************************************************************************)
EXTENDS AlertInbox, Dashboard, Readiness, FiniteSetTheorems, SequenceTheorems,
        NaturalsInduction, WellFoundedInduction, TLAPS

\* The condition of s holds or has held.
Begun(s) ==
    LET r == s[2]
    IN  /\ s[1] = "REFERRAL_CONFIRMATION_OVERDUE" => status[r] # "ABSENT" /\ due[s]
        /\ s[1] = "ONWARD_REFERRAL_PROMPT" => status[r] = "COMPLETED"
        /\ s[1] = "REPLACEMENT_REFERRAL_PROMPT" => status[r] \in {"FAILED", "REPLACED"}

\* The condition of s has held and will not hold again.
Spent(s) ==
    LET r == s[2]
    IN  /\ s[1] = "REFERRAL_CONFIRMATION_OVERDUE" =>
              status[r] \notin {"ABSENT", "PENDING_CONFIRMATION"}
        /\ s[1] = "ONWARD_REFERRAL_PROMPT" => status[r] = "COMPLETED" /\ followed[r]
        /\ s[1] = "REPLACEMENT_REFERRAL_PROMPT" =>
              \/ status[r] = "REPLACED"
              \/ status[r] = "FAILED" /\ replacement[r] # None

\* What jobs and alerts are about has begun.
HeldBegun ==
    /\ \A b \in Beat : \A s \in job[b].found : Begun(s)
    /\ \A b \in Beat : job[b].raising # None => Begun(job[b].raising)
    /\ \A a \in Alert : alert[a].status # "ABSENT" =>
          alert[a].subject # None /\ Begun(alert[a].subject)

\* What jobs and people have fetched are rows.
RowsReal ==
    /\ \A b \in Beat : \A a \in job[b].fetched : alert[a].status # "ABSENT"
    /\ \A b \in Beat : job[b].closing # None => alert[job[b].closing].status # "ABSENT"
    /\ \A p \in Person : hand[p] # None => alert[hand[p]].status # "ABSENT"

\* What a sweep is about to close is spent.
ClosingSpent ==
    \A b \in Beat : job[b].closing # None => Spent(alert[job[b].closing].subject)

InboxInv == InboxTypeOK /\ RowsReal /\ HeldBegun /\ ClosingSpent

Unchanged == UNCHANGED <<status, replacement, followed, due>>

-----------------------------------------------------------------------------

\* A subject is a pair whose referral, if it names one, is a referral.
LEMMA SubjectReferral ==
    ASSUME NEW s \in Subject
    PROVE  /\ s[1] \in Kinds /\ s = <<s[1], s[2]>>
           /\ s[1] \in ReferralKinds => s[2] \in Referral
           /\ s # None => TRUE
BY DEF Subject, ReferralKinds

\* Job updates are record updates of a typed record.
LEMMA JobTyped ==
    ASSUME NEW j \in Job
    PROVE  /\ \A F \in SUBSET Subject : [j EXCEPT !.found = F] \in Job
           /\ \A s \in Subject \cup {None} : [j EXCEPT !.raising = s] \in Job
           /\ \A F \in SUBSET Alert : [j EXCEPT !.fetched = F] \in Job
           /\ \A a \in Alert \cup {None} : [j EXCEPT !.closing = a] \in Job
           /\ \A F \in SUBSET Subject, s \in Subject \cup {None} :
                 [j EXCEPT !.found = F, !.raising = s] \in Job
           /\ \A F \in SUBSET Alert, a \in Alert \cup {None} :
                 [j EXCEPT !.fetched = F, !.closing = a] \in Job
BY DEF Job

\* Closing an alert keeps it a row.
LEMMA ResolveTyped ==
    ASSUME alert \in [Alert -> AlertRow], NEW a \in Alert,
           NEW to \in {"ACTIONED", "DISMISSED"}, NEW who \in Person \cup {None},
           Resolve(a, to, who)
    PROVE  alert' \in [Alert -> AlertRow]
BY DEF Resolve, AlertRow

\* The life of a referral stays in range.
LEMMA LifeTyped ==
    ASSUME status \in [Referral -> Status],
           replacement \in [Referral -> Referral \cup {None}],
           LifecycleNext
    PROVE  /\ status' \in [Referral -> Status]
           /\ replacement' \in [Referral -> Referral \cup {None}]
BY DEF LifecycleNext, Create, Move, Replace, Status, Transitions

\* No step takes the inbox out of its types.
LEMMA InboxTypeStep == InboxTypeOK /\ [InboxNext]_inboxVars => InboxTypeOK'
<1> SUFFICES ASSUME InboxTypeOK, [InboxNext]_inboxVars PROVE InboxTypeOK'
  OBVIOUS
<1> USE DEF InboxTypeOK
<1>1. CASE ReferralMoves
  BY <1>1, LifeTyped DEF ReferralMoves
<1>2. ASSUME NEW r \in Referral, NEW q \in Referral, OnwardFollows(r, q)
      PROVE InboxTypeOK'
  BY <1>2 DEF OnwardFollows, Create, Status
<1>3. ASSUME NEW s \in Subject, ConditionChanges(s) PROVE InboxTypeOK'
  BY <1>3 DEF ConditionChanges
<1>4. ASSUME NEW b \in Beat, NEW kind \in Kinds, DetectFetch(b, kind)
      PROVE InboxTypeOK'
  BY <1>4, JobTyped DEF DetectFetch, Environment
<1>5. ASSUME NEW b \in Beat, RaiseStep(b) PROVE InboxTypeOK'
  <2>1. ASSUME NEW s \in Subject, RaiseSkip(b, s) PROVE InboxTypeOK'
    <3>1. job[b].found \ {s} \in SUBSET Subject
      BY DEF Job
    <3> QED
      BY <2>1, <3>1, JobTyped DEF RaiseSkip, Environment
  <2>2. ASSUME NEW s \in Subject, RaiseLook(b, s) PROVE InboxTypeOK'
    <3>1. job[b].found \ {s} \in SUBSET Subject
      BY DEF Job
    <3> QED
      BY <2>2, <3>1, JobTyped DEF RaiseLook, Environment
  <2>3. ASSUME NEW a \in Alert, RaiseInsert(b, a) PROVE InboxTypeOK'
    <3>1. job[b].raising \in Subject
      BY <2>3 DEF RaiseInsert, Job
    <3>2. alert' \in [Alert -> AlertRow]
      BY <2>3, <3>1 DEF RaiseInsert, AlertRow
    <3> QED
      BY <2>3, <3>2, JobTyped DEF RaiseInsert, Environment
  <2>4. CASE RaiseLost(b)
    BY <2>4, JobTyped DEF RaiseLost, Environment
  <2> QED
    BY <1>5, <2>1, <2>2, <2>3, <2>4 DEF RaiseStep
<1>6. ASSUME NEW b \in Beat, SweepFetch(b) PROVE InboxTypeOK'
  BY <1>6, JobTyped DEF SweepFetch, Environment
<1>7. ASSUME NEW b \in Beat, NEW a \in Alert, SweepKeep(b, a) PROVE InboxTypeOK'
  <2>1. job[b].fetched \ {a} \in SUBSET Alert
    BY DEF Job
  <2> QED
    BY <1>7, <2>1, JobTyped DEF SweepKeep, Environment
<1>8. ASSUME NEW b \in Beat, NEW a \in Alert, SweepLook(b, a) PROVE InboxTypeOK'
  <2>1. job[b].fetched \ {a} \in SUBSET Alert
    BY DEF Job
  <2> QED
    BY <1>8, <2>1, JobTyped DEF SweepLook, Environment
<1>9. ASSUME NEW b \in Beat, SweepClose(b) PROVE InboxTypeOK'
  <2>1. job[b].closing \in Alert
    BY <1>9 DEF SweepClose, Job
  <2>2. alert' \in [Alert -> AlertRow]
    BY <1>9, <2>1, ResolveTyped DEF SweepClose
  <2> QED
    BY <1>9, <2>2, JobTyped DEF SweepClose, Environment
<1>10. ASSUME NEW b \in Beat, JobDies(b) PROVE InboxTypeOK'
  <2>1. NoJob \in Job
    BY DEF NoJob, Job
  <2> QED
    BY <1>10, <2>1 DEF JobDies, Environment
<1>11. ASSUME NEW p \in Person, NEW a \in Alert, PersonFetch(p, a) PROVE InboxTypeOK'
  BY <1>11 DEF PersonFetch, Environment
<1>12. ASSUME NEW p \in Person, NEW to \in {"ACTIONED", "DISMISSED"}, PersonResolve(p, to)
       PROVE InboxTypeOK'
  <2>1. hand[p] \in Alert
    BY <1>12 DEF PersonResolve
  <2>2. alert' \in [Alert -> AlertRow]
    BY <1>12, <2>1, ResolveTyped DEF PersonResolve
  <2> QED
    BY <1>12, <2>2 DEF PersonResolve
<1>13. CASE UNCHANGED inboxVars
  BY <1>13 DEF inboxVars
<1> QED
  BY <1>1, <1>2, <1>3, <1>4, <1>5, <1>6, <1>7, <1>8, <1>9, <1>10, <1>11, <1>12, <1>13
     DEF InboxNext

\* Initially the inbox is empty and no job runs.
LEMMA InboxTypeInit == InboxInit => InboxTypeOK
<1> SUFFICES ASSUME InboxInit PROVE InboxTypeOK
  OBVIOUS
<1>1. NoAlert \in AlertRow /\ NoJob \in Job
  BY DEF NoAlert, AlertRow, NoJob, Job
<1> QED
  BY <1>1 DEF InboxInit, LifecycleInit, InboxTypeOK, Status

\* Alerts, jobs and hands stay well formed (the state behind AlertViewSet and
\* the beat jobs).
THEOREM InboxTypes == InboxSpec => []InboxTypeOK
BY InboxTypeInit, InboxTypeStep, PTL DEF InboxSpec

-----------------------------------------------------------------------------
(* One open alert.                                                         *)

\* Closing leaves every other alert alone and never reopens one.
LEMMA ResolveCloses ==
    ASSUME InboxTypeOK, NEW a \in Alert, NEW to \in {"ACTIONED", "DISMISSED"}, NEW who,
           Resolve(a, to, who)
    PROVE  /\ alert'[a].status = to /\ alert'[a].actor = who
           /\ alert'[a].subject = alert[a].subject
           /\ \A c \in Alert : c # a => alert'[c] = alert[c]
BY DEF Resolve, InboxTypeOK, AlertRow

\* The index lets no second open alert in, and nothing else opens one.
LEMMA OneOpenStep ==
    InboxTypeOK /\ OneOpenAlert /\ [InboxNext]_inboxVars => OneOpenAlert'
<1> SUFFICES ASSUME InboxTypeOK, OneOpenAlert, [InboxNext]_inboxVars
             PROVE  OneOpenAlert'
  OBVIOUS
<1>1. CASE UNCHANGED alert
  BY <1>1 DEF OneOpenAlert
<1>2. ASSUME NEW b \in Beat, NEW a \in Alert, RaiseInsert(b, a) PROVE OneOpenAlert'
  <2>1. \A c \in Alert : alert[c].status = "OPEN" => alert[c].subject # job[b].raising
    BY <1>2 DEF RaiseInsert, IndexAllows, OpenFor
  <2>2. \A c \in Alert : c # a => alert'[c] = alert[c]
    BY <1>2 DEF RaiseInsert, InboxTypeOK
  <2>3. alert'[a].subject = job[b].raising
    BY <1>2 DEF RaiseInsert, InboxTypeOK
  <2> QED
    BY <2>1, <2>2, <2>3 DEF OneOpenAlert
<1>3. ASSUME NEW a \in Alert, NEW to \in {"ACTIONED", "DISMISSED"}, NEW who,
             Resolve(a, to, who)
      PROVE  OneOpenAlert'
  BY <1>3, ResolveCloses DEF OneOpenAlert
<1>4. ASSUME NEW b \in Beat, SweepClose(b) PROVE OneOpenAlert'
  <2>1. job[b].closing \in Alert
    BY <1>4 DEF SweepClose, InboxTypeOK, Job
  <2> QED
    BY <1>3, <1>4, <2>1 DEF SweepClose
<1>5. ASSUME NEW p \in Person, NEW to \in {"ACTIONED", "DISMISSED"}, PersonResolve(p, to)
      PROVE  OneOpenAlert'
  <2>1. hand[p] \in Alert
    BY <1>5 DEF PersonResolve, InboxTypeOK
  <2> QED
    BY <1>3, <1>5, <2>1 DEF PersonResolve
<1> QED
  BY <1>1, <1>2, <1>4, <1>5
     DEF InboxNext, ReferralMoves, OnwardFollows, ConditionChanges, DetectFetch,
         RaiseStep, RaiseSkip, RaiseLook, RaiseLost, SweepFetch, SweepKeep, SweepLook,
         JobDies, PersonFetch, inboxVars

\* However many beat workers detect one condition at once, its inbox shows it
\* once (_raise and the two partial unique indexes).
THEOREM InboxShowsOnce == InboxSpec => []OneOpenAlert
<1>1. InboxInit => OneOpenAlert
  BY DEF InboxInit, OneOpenAlert, NoAlert
<1> QED
  BY <1>1, InboxTypes, OneOpenStep, PTL DEF InboxSpec

-----------------------------------------------------------------------------
(* The sweep is right.                                                     *)

\* A condition begins before it is detected, and what is spent is not detected.
LEMMA DetectedBegun ==
    ASSUME NEW s \in Subject, s[1] \in OnceOnly
    PROVE  /\ Detected(s) => Begun(s)
           /\ Spent(s) => ~Detected(s)
           /\ Begun(s) /\ ~StillHolds(s) => Spent(s)
BY DEF OnceOnly, Detected, Begun, Spent, StillHolds

\* Outside the case work nothing begins or ends.
LEMMA SameStanding ==
    ASSUME Unchanged, NEW s
    PROVE  Begun(s)' = Begun(s) /\ Spent(s)' = Spent(s)
BY DEF Unchanged, Begun, Spent

\* One way only: what has begun stays begun, what is spent stays spent.
LEMMA StandingAges ==
    ASSUME InboxTypeOK, [InboxNext]_inboxVars, NEW s \in Subject
    PROVE  (Begun(s) => Begun(s)') /\ (Spent(s) => Spent(s)')
<1>1. s[1] \in OnceOnly => s[2] \in Referral
  BY SubjectReferral DEF OnceOnly, ReferralKinds
<1>2. CASE ReferralMoves
  <2>1. ASSUME NEW r \in Referral, Create(r), UNCHANGED <<followed, due>>
        PROVE  (Begun(s) => Begun(s)') /\ (Spent(s) => Spent(s)')
    BY <1>1, <2>1 DEF InboxTypeOK, Create, Begun, Spent, OnceOnly
  <2>2. ASSUME NEW r \in Referral, NEW to \in Status, Move(r, to), UNCHANGED <<followed, due>>
        PROVE  (Begun(s) => Begun(s)') /\ (Spent(s) => Spent(s)')
    BY <1>1, <2>2 DEF InboxTypeOK, Move, Transitions, Begun, Spent, OnceOnly
  <2>3. ASSUME NEW r \in Referral, NEW q \in Referral, Replace(r, q),
               UNCHANGED <<followed, due>>
        PROVE  (Begun(s) => Begun(s)') /\ (Spent(s) => Spent(s)')
    BY <1>1, <2>3, InboxAssumption
       DEF InboxTypeOK, Replace, Transitions, Begun, Spent, OnceOnly
  <2> QED
    BY <1>2, <2>1, <2>2, <2>3 DEF ReferralMoves, LifecycleNext
<1>3. ASSUME NEW r \in Referral, NEW q \in Referral, OnwardFollows(r, q)
      PROVE  (Begun(s) => Begun(s)') /\ (Spent(s) => Spent(s)')
  BY <1>1, <1>3 DEF InboxTypeOK, OnwardFollows, Create, Begun, Spent, OnceOnly
<1>4. ASSUME NEW x \in Subject, ConditionChanges(x)
      PROVE  (Begun(s) => Begun(s)') /\ (Spent(s) => Spent(s)')
  BY <1>4 DEF InboxTypeOK, ConditionChanges, Begun, Spent
<1>5. ASSUME NEW p \in Person, NEW to, PersonResolve(p, to)
      PROVE  (Begun(s) => Begun(s)') /\ (Spent(s) => Spent(s)')
  BY <1>5 DEF PersonResolve, Begun, Spent
<1>6. CASE Unchanged
  BY <1>6, SameStanding
<1> QED
  BY <1>2, <1>3, <1>4, <1>5, <1>6
     DEF InboxNext, DetectFetch, RaiseStep, RaiseSkip, RaiseLook, RaiseLost, RaiseInsert,
         SweepFetch, SweepClose, SweepKeep, SweepLook, JobDies, PersonFetch, inboxVars,
         Environment, Unchanged

\* Subjects of other types have nothing to wait for.
LEMMA OtherKinds ==
    ASSUME NEW s \in Subject, s[1] \notin OnceOnly
    PROVE  Begun(s) /\ Spent(s)
BY DEF OnceOnly, Begun, Spent

\* An alert, once raised, stays and stays about the same thing.
LEMMA AlertsStay ==
    ASSUME InboxTypeOK, [InboxNext]_inboxVars, NEW x \in Alert, alert[x].status # "ABSENT"
    PROVE  alert'[x].status # "ABSENT" /\ alert'[x].subject = alert[x].subject
<1>1. ASSUME NEW b \in Beat, NEW a \in Alert, RaiseInsert(b, a)
      PROVE  alert'[x] = alert[x]
  <2>1. a # x
    BY <1>1 DEF RaiseInsert, NoAlert
  <2> QED
    BY <1>1, <2>1 DEF RaiseInsert, InboxTypeOK
<1>2. ASSUME NEW b \in Beat, SweepClose(b)
      PROVE  alert'[x].status # "ABSENT" /\ alert'[x].subject = alert[x].subject
  <2>1. job[b].closing \in Alert
    BY <1>2 DEF SweepClose, InboxTypeOK, Job
  <2> QED
    BY <1>2, <2>1, ResolveCloses DEF SweepClose
<1>3. ASSUME NEW p \in Person, NEW to \in {"ACTIONED", "DISMISSED"}, PersonResolve(p, to)
      PROVE  alert'[x].status # "ABSENT" /\ alert'[x].subject = alert[x].subject
  <2>1. hand[p] \in Alert
    BY <1>3 DEF PersonResolve, InboxTypeOK
  <2> QED
    BY <1>3, <2>1, ResolveCloses DEF PersonResolve
<1> QED
  BY <1>1, <1>2, <1>3
     DEF InboxNext, ReferralMoves, OnwardFollows, ConditionChanges, DetectFetch,
         RaiseStep, RaiseSkip, RaiseLook, RaiseLost, SweepFetch, SweepKeep, SweepLook,
         JobDies, PersonFetch, inboxVars

\* Where the alerts that jobs and people hold come from.
LEMMA HoldsFetched ==
    ASSUME InboxTypeOK, [InboxNext]_inboxVars
    PROVE  /\ \A b \in Beat : \A a \in job'[b].fetched :
                 a \in job[b].fetched \/ alert[a].status # "ABSENT"
           /\ \A b \in Beat :
                 \/ job'[b].closing \in {job[b].closing, None}
                 \/ /\ job'[b].closing \in job[b].fetched
                    /\ ~StillHolds(alert[job'[b].closing].subject)
                    /\ UNCHANGED <<alert, status, replacement, followed, due>>
           /\ \A p \in Person :
                 \/ hand'[p] \in {hand[p], None}
                 \/ alert[hand'[p]].status # "ABSENT"
<1> DEFINE Fetched(c) == \A a \in job'[c].fetched :
                             a \in job[c].fetched \/ alert[a].status # "ABSENT"
           Closing(c) == \/ job'[c].closing \in {job[c].closing, None}
                         \/ /\ job'[c].closing \in job[c].fetched
                            /\ ~StillHolds(alert[job'[c].closing].subject)
                            /\ UNCHANGED <<alert, status, replacement, followed, due>>
           Hands == \A p \in Person : \/ hand'[p] \in {hand[p], None}
                                      \/ alert[hand'[p]].status # "ABSENT"
           Jobs == \A c \in Beat : Fetched(c) /\ Closing(c)
<1>1. UNCHANGED job => Jobs
  OBVIOUS
<1>2. UNCHANGED hand => Hands
  OBVIOUS
<1>3. ASSUME NEW b \in Beat, NEW kind \in Kinds, DetectFetch(b, kind) PROVE Jobs /\ Hands
  BY <1>3, <1>2 DEF DetectFetch, InboxTypeOK, Job
<1>4. ASSUME NEW b \in Beat, RaiseStep(b) PROVE Jobs /\ Hands
  <2>1. \A s \in Subject : RaiseSkip(b, s) => Jobs /\ Hands
    BY <1>2 DEF RaiseSkip, InboxTypeOK, Job
  <2>2. \A s \in Subject : RaiseLook(b, s) => Jobs /\ Hands
    BY <1>2 DEF RaiseLook, InboxTypeOK, Job
  <2>3. \A a \in Alert : RaiseInsert(b, a) => Jobs /\ Hands
    BY <1>2 DEF RaiseInsert, InboxTypeOK, Job
  <2>4. RaiseLost(b) => Jobs /\ Hands
    BY <1>2 DEF RaiseLost, InboxTypeOK, Job
  <2> QED
    BY <1>4, <2>1, <2>2, <2>3, <2>4 DEF RaiseStep
<1>5. ASSUME NEW b \in Beat, SweepFetch(b) PROVE Jobs /\ Hands
  <2>1. \A c \in Beat : job'[c].closing = job[c].closing /\ (c # b => job'[c] = job[c])
    BY <1>5 DEF SweepFetch, InboxTypeOK, Job
  <2>2. job'[b].fetched = {a \in Alert : alert[a].status = "OPEN"}
    BY <1>5 DEF SweepFetch, InboxTypeOK, Job
  <2> QED
    BY <1>5, <1>2, <2>1, <2>2 DEF SweepFetch
<1>6. ASSUME NEW b \in Beat, NEW a \in Alert, SweepKeep(b, a) PROVE Jobs /\ Hands
  BY <1>6, <1>2 DEF SweepKeep, InboxTypeOK, Job
<1>7. ASSUME NEW b \in Beat, NEW a \in Alert, SweepLook(b, a) PROVE Jobs /\ Hands
  <2>1. \A c \in Beat : job'[c].fetched \subseteq job[c].fetched
                        /\ (c # b => job'[c].closing = job[c].closing)
    BY <1>7 DEF SweepLook, InboxTypeOK, Job
  <2>2. job'[b].closing = a /\ a \in job[b].fetched /\ ~StillHolds(alert[a].subject)
    BY <1>7 DEF SweepLook, InboxTypeOK, Job
  <2> QED
    BY <1>7, <1>2, <2>1, <2>2 DEF SweepLook, Environment
<1>8. ASSUME NEW b \in Beat, SweepClose(b) PROVE Jobs /\ Hands
  BY <1>8, <1>2 DEF SweepClose, InboxTypeOK, Job
<1>9. ASSUME NEW b \in Beat, JobDies(b) PROVE Jobs /\ Hands
  BY <1>9, <1>2 DEF JobDies, NoJob, InboxTypeOK, Job
<1>10. ASSUME NEW p \in Person, NEW a \in Alert, PersonFetch(p, a) PROVE Jobs /\ Hands
  BY <1>10, <1>1 DEF PersonFetch, InboxTypeOK
<1>11. ASSUME NEW p \in Person, NEW to, PersonResolve(p, to) PROVE Jobs /\ Hands
  BY <1>11, <1>1 DEF PersonResolve, InboxTypeOK
<1>12. Jobs /\ Hands
  BY <1>1, <1>2, <1>3, <1>4, <1>5, <1>6, <1>7, <1>8, <1>9, <1>10, <1>11
     DEF InboxNext, ReferralMoves, OnwardFollows, ConditionChanges, inboxVars
<1> QED
  BY <1>12

\* Jobs and people hold rows, after every step.
LEMMA RowsRealStep ==
    InboxTypeOK /\ RowsReal /\ [InboxNext]_inboxVars => RowsReal'
<1> SUFFICES ASSUME InboxTypeOK, RowsReal, [InboxNext]_inboxVars
             PROVE  RowsReal'
  OBVIOUS
<1>1. \A x \in Alert : alert[x].status # "ABSENT" => alert'[x].status # "ABSENT"
  BY AlertsStay
<1>2. InboxTypeOK'
  BY InboxTypeStep
<1>3. /\ \A b \in Beat : job'[b].fetched \subseteq Alert
      /\ \A b \in Beat : job'[b].closing \in Alert \cup {None}
      /\ \A p \in Person : hand'[p] \in Alert \cup {None}
  BY <1>2 DEF InboxTypeOK, Job
<1> QED
  BY <1>1, <1>3, HoldsFetched DEF RowsReal

\* What jobs hold and alerts name has begun, after every step.
LEMMA HeldBegunStep ==
    InboxTypeOK /\ RowsReal /\ HeldBegun /\ [InboxNext]_inboxVars => HeldBegun'
<1> SUFFICES ASSUME InboxTypeOK, RowsReal, HeldBegun, [InboxNext]_inboxVars
             PROVE  HeldBegun'
  OBVIOUS
<1>1. \A s \in Subject : Begun(s) => Begun(s)'
  BY StandingAges
<1>2. /\ \A b \in Beat : job[b].found \subseteq Subject
      /\ \A b \in Beat : job[b].raising \in Subject \cup {None}
      /\ \A a \in Alert : alert[a].subject \in Subject \cup {None}
  BY DEF InboxTypeOK, Job, AlertRow
<1>3. CASE UNCHANGED <<alert, job>>
  BY <1>1, <1>2, <1>3 DEF HeldBegun
<1>4. ASSUME NEW b \in Beat, NEW kind \in Kinds, DetectFetch(b, kind) PROVE HeldBegun'
  <2>1. \A s \in Subject : Detected(s) => Begun(s)
    BY DetectedBegun, OtherKinds
  <2>2. \A s \in job'[b].found : s \in Subject /\ Begun(s)
    BY <1>4, <2>1 DEF DetectFetch, InboxTypeOK, Job
  <2>3. \A c \in Beat : /\ c # b => job'[c] = job[c]
                        /\ job'[c].raising = job[c].raising
    BY <1>4 DEF DetectFetch, InboxTypeOK, Job
  <2>4. alert' = alert
    BY <1>4 DEF DetectFetch
  <2> QED
    BY <1>1, <1>2, <2>2, <2>3, <2>4 DEF HeldBegun
<1>5. ASSUME NEW b \in Beat, NEW s \in Subject, RaiseSkip(b, s) \/ RaiseLook(b, s)
      PROVE  HeldBegun'
  <2>1. s \in job[b].found
    BY <1>5 DEF RaiseSkip, RaiseLook
  <2>2. \A c \in Beat : /\ job'[c].found \subseteq job[c].found
                        /\ job'[c].raising \in {job[c].raising, s}
    BY <1>5 DEF RaiseSkip, RaiseLook, InboxTypeOK, Job
  <2>3. \A c \in Beat : job'[c].raising = s => job[c].raising = s \/ c = b
    BY <1>5 DEF RaiseSkip, RaiseLook, InboxTypeOK, Job
  <2>4. alert' = alert
    BY <1>5 DEF RaiseSkip, RaiseLook
  <2> QED
    BY <1>1, <1>2, <2>1, <2>2, <2>3, <2>4 DEF HeldBegun
<1>6. ASSUME NEW b \in Beat, NEW a \in Alert, RaiseInsert(b, a) PROVE HeldBegun'
  <2>1. \A c \in Beat : /\ job'[c].found = job[c].found
                        /\ job'[c].raising \in {job[c].raising, None}
    BY <1>6 DEF RaiseInsert, InboxTypeOK, Job
  <2>2. /\ \A c \in Alert : c # a => alert'[c] = alert[c]
        /\ alert'[a].subject = job[b].raising /\ job[b].raising # None
    BY <1>6 DEF RaiseInsert, InboxTypeOK
  <2> QED
    BY <1>1, <1>2, <2>1, <2>2 DEF HeldBegun
<1>7. ASSUME NEW b \in Beat,
             RaiseLost(b) \/ SweepFetch(b) \/ JobDies(b)
               \/ \E a \in Alert : SweepKeep(b, a) \/ SweepLook(b, a)
      PROVE  HeldBegun'
  <2> DEFINE Shrinks == \A c \in Beat : /\ job'[c].found \in {job[c].found, {}}
                                       /\ job'[c].raising \in {job[c].raising, None}
  <2>3. RaiseLost(b) => Shrinks
    BY DEF RaiseLost, InboxTypeOK, Job
  <2>4. SweepFetch(b) => Shrinks
    BY DEF SweepFetch, InboxTypeOK, Job
  <2>5. JobDies(b) => Shrinks
    BY DEF JobDies, NoJob, InboxTypeOK, Job
  <2>6. \A a \in Alert : SweepKeep(b, a) => Shrinks
    BY DEF SweepKeep, InboxTypeOK, Job
  <2>7. \A a \in Alert : SweepLook(b, a) => Shrinks
    BY DEF SweepLook, InboxTypeOK, Job
  <2>1. Shrinks
    BY <1>7, <2>3, <2>4, <2>5, <2>6, <2>7
  <2>2. alert' = alert
    BY <1>7 DEF RaiseLost, SweepFetch, JobDies, SweepKeep, SweepLook
  <2> QED
    BY <1>1, <1>2, <2>1, <2>2 DEF HeldBegun
<1>8. ASSUME NEW a \in Alert, NEW to \in {"ACTIONED", "DISMISSED"}, NEW who,
             Resolve(a, to, who), alert[a].status # "ABSENT",
             \A c \in Beat : job'[c].found = job[c].found /\ job'[c].raising = job[c].raising
      PROVE  HeldBegun'
  <2>1. /\ alert'[a].subject = alert[a].subject
        /\ \A c \in Alert : c # a => alert'[c] = alert[c]
    BY <1>8, ResolveCloses
  <2> QED
    BY <1>1, <1>2, <1>8, <2>1 DEF HeldBegun
<1>9. ASSUME NEW b \in Beat, SweepClose(b) PROVE HeldBegun'
  <2>1. job[b].closing \in Alert /\ alert[job[b].closing].status # "ABSENT"
    BY <1>9 DEF SweepClose, InboxTypeOK, Job, RowsReal
  <2>2. \A c \in Beat : job'[c].found = job[c].found /\ job'[c].raising = job[c].raising
    BY <1>9 DEF SweepClose, InboxTypeOK, Job
  <2> QED
    BY <1>8, <1>9, <2>1, <2>2 DEF SweepClose
<1>10. ASSUME NEW p \in Person, NEW to \in {"ACTIONED", "DISMISSED"}, PersonResolve(p, to)
       PROVE  HeldBegun'
  <2>1. hand[p] \in Alert /\ alert[hand[p]].status # "ABSENT"
    BY <1>10 DEF PersonResolve, InboxTypeOK, RowsReal
  <2> QED
    BY <1>8, <1>10, <2>1 DEF PersonResolve
<1> QED
  BY <1>3, <1>4, <1>5, <1>6, <1>7, <1>9, <1>10
     DEF InboxNext, ReferralMoves, OnwardFollows, ConditionChanges, RaiseStep,
         PersonFetch, inboxVars

\* What a sweep is about to close is spent, after every step.
LEMMA ClosingSpentStep ==
    InboxInv /\ [InboxNext]_inboxVars => ClosingSpent'
<1> SUFFICES ASSUME InboxInv, [InboxNext]_inboxVars PROVE ClosingSpent'
  OBVIOUS
<1>1. InboxTypeOK /\ RowsReal /\ HeldBegun /\ ClosingSpent
  BY DEF InboxInv
<1>2. ASSUME NEW b \in Beat, job'[b].closing # None
      PROVE  \E s \in Subject : s = alert'[job'[b].closing].subject /\ Spent(s)
  <2>1. PICK a \in Alert : a = job'[b].closing
    BY <1>1, <1>2, InboxTypeStep DEF InboxTypeOK, Job
  <2>2. \/ job[b].closing = a
        \/ a \in job[b].fetched /\ ~StillHolds(alert[a].subject)
    BY <1>1, <1>2, <2>1, HoldsFetched
  <2>3. alert[a].status # "ABSENT"
    BY <1>1, <1>2, <2>1, <2>2 DEF RowsReal
  <2>4. PICK s \in Subject : s = alert[a].subject
    BY <1>1, <2>3 DEF HeldBegun, InboxTypeOK, AlertRow
  <2>5. Begun(s) /\ s = alert'[a].subject
    BY <1>1, <2>3, <2>4, AlertsStay DEF HeldBegun
  <2>6. Spent(s)
    <3>1. CASE job[b].closing = a
      BY <1>1, <1>2, <2>1, <2>4, <3>1 DEF ClosingSpent
    <3>2. CASE ~StillHolds(s)
      BY <2>5, <3>2, DetectedBegun, OtherKinds
    <3> QED
      BY <2>2, <2>4, <3>1, <3>2
  <2> QED
    BY <2>1, <2>5, <2>6
<1> QED
  BY <1>1, <1>2, StandingAges DEF ClosingSpent

\* Nothing is fetched, raised or held at first.
LEMMA InboxInvInit == InboxInit => InboxInv
<1> SUFFICES ASSUME InboxInit PROVE RowsReal /\ HeldBegun /\ ClosingSpent
  BY InboxTypeInit DEF InboxInv
<1> QED
  BY DEF InboxInit, RowsReal, HeldBegun, ClosingSpent, NoJob, NoAlert

\* The invariant is inductive.
LEMMA InboxInvStep == InboxInv /\ [InboxNext]_inboxVars => InboxInv'
BY InboxTypeStep, RowsRealStep, HeldBegunStep, ClosingSpentStep DEF InboxInv

\* What jobs fetched has begun, and what a sweep is about to close is spent.
THEOREM InboxInvariant == InboxSpec => []InboxInv
BY InboxInvInit, InboxInvStep, PTL DEF InboxSpec

\* One step of the sweep is right.
LEMMA CloseStep ==
    ASSUME InboxInv, [InboxNext]_inboxVars, NEW a \in Alert, ClosedBySystem(a),
           alert[a].subject[1] \in OnceOnly
    PROVE  ~Detected(alert[a].subject)
<1>1. InboxTypeOK /\ RowsReal /\ HeldBegun /\ ClosingSpent
  BY DEF InboxInv
<1>2. alert'[a] # alert[a]
  BY DEF ClosedBySystem
<1>3. ASSUME NEW b \in Beat, SweepClose(b) PROVE ~Detected(alert[a].subject)
  <2>1. job[b].closing = a
    BY <1>1, <1>2, <1>3, ResolveCloses DEF SweepClose, InboxTypeOK, Job
  <2>2. Spent(alert[a].subject) /\ alert[a].subject \in Subject
    BY <1>1, <1>3, <2>1 DEF SweepClose, ClosingSpent, RowsReal, HeldBegun, InboxTypeOK, AlertRow
  <2> QED
    BY <2>2, DetectedBegun
<1>4. ASSUME NEW p \in Person, NEW to \in {"ACTIONED", "DISMISSED"}, PersonResolve(p, to)
      PROVE  FALSE
  <2>1. hand[p] \in Alert /\ p # None
    BY <1>1, <1>4, InboxAssumption DEF PersonResolve, InboxTypeOK
  <2>2. hand[p] = a => alert'[a].actor = p
    BY <1>1, <1>4, <2>1, ResolveCloses DEF PersonResolve
  <2>3. hand[p] # a => alert'[a] = alert[a]
    BY <1>1, <1>4, <2>1, ResolveCloses DEF PersonResolve
  <2> QED
    BY <1>2, <2>1, <2>2, <2>3 DEF ClosedBySystem
<1>5. ASSUME NEW b \in Beat, NEW x \in Alert, RaiseInsert(b, x) PROVE FALSE
  <2>1. x # a
    BY <1>5 DEF RaiseInsert, NoAlert, ClosedBySystem
  <2> QED
    BY <1>1, <1>2, <1>5, <2>1 DEF RaiseInsert, InboxTypeOK
<1> QED
  BY <1>2, <1>3, <1>4, <1>5
     DEF InboxNext, ReferralMoves, OnwardFollows, ConditionChanges, DetectFetch,
         RaiseStep, RaiseSkip, RaiseLook, RaiseLost, SweepFetch, SweepKeep, SweepLook,
         JobDies, PersonFetch, inboxVars

\* The sweep acts on what it read some time ago, and is right all the same: an
\* alert about a referral's standing that it closes has lost its condition
\* (resolve_cleared_alerts).
THEOREM InboxSweepRight == InboxSpec => SystemCloseIsRight
<1>1. InboxInv /\ [InboxNext]_inboxVars =>
          [\A a \in Alert :
              ClosedBySystem(a) /\ alert[a].subject[1] \in OnceOnly
                  => ~Detected(alert[a].subject)]_inboxVars
  BY CloseStep
<1> QED
  BY <1>1, InboxInvariant, PTL DEF InboxSpec, SystemCloseIsRight

-----------------------------------------------------------------------------
(* Induction over the natural numbers and over the subsets of a finite     *)
(* set, stated of sets; and what MapThenFoldSet adds up.                   *)

LEMMA LeastNat ==
    ASSUME NEW S \in SUBSET Nat, S # {}
    PROVE  \E m \in S : \A k \in S : m <= k
<1> DEFINE R == {ss \in Nat \X Nat : ss[1] < ss[2]}
<1>1. IsWellFoundedOn(R, Nat)
  BY NatLessThanWellFounded DEF OpToRel
<1> HIDE DEF R
<1>2. PICK m \in S : \A k \in S : ~ (<<k, m>> \in R)
  BY <1>1, WFMin
<1>3. \A k \in S : ~ (k < m)
  BY <1>2 DEF R
<1> QED
  BY <1>3

LEMMA NatSteps ==
    ASSUME NEW S, 0 \in S, \A n \in Nat : n \in S => n + 1 \in S
    PROVE  \A n \in Nat : n \in S
<1> SUFFICES ASSUME Nat \ S # {} PROVE FALSE
  OBVIOUS
<1>1. PICK m \in Nat \ S : \A k \in Nat \ S : m <= k
  BY LeastNat
<1>2. m # 0 /\ m - 1 \in Nat
  BY <1>1
<1>3. m - 1 \in S
  BY <1>1, <1>2
<1> QED
  BY <1>2, <1>3

LEMMA SubsetSteps ==
    ASSUME NEW S, IsFiniteSet(S), NEW G,
           {} \in G, \A s \in SUBSET S : \A x \in S \ s : s \in G => s \cup {x} \in G
    PROVE  \A s \in SUBSET S : s \in G
<1> DEFINE N == {n \in Nat : \A s \in SUBSET S : Cardinality(s) = n => s \in G}
<1>1. \A s \in SUBSET S : IsFiniteSet(s) /\ Cardinality(s) \in Nat
  BY FS_Subset, FS_CardinalityType
<1>2. 0 \in N
  <2>1. \A s \in SUBSET S : Cardinality(s) = 0 => s = {}
    BY <1>1, FS_EmptySet
  <2> QED
    BY <2>1
<1>3. ASSUME NEW n \in Nat, n \in N
      PROVE  n + 1 \in N
  <2> SUFFICES ASSUME NEW s \in SUBSET S, Cardinality(s) = n + 1
               PROVE  s \in G
    OBVIOUS
  <2>1. s # {}
    BY FS_EmptySet
  <2>2. PICK x : x \in s
    BY <2>1
  <2>3. Cardinality(s \ {x}) = n
    <3>1. IsFiniteSet(s) /\ Cardinality(s) = n + 1
      BY <1>1
    <3>2. Cardinality(s \ {x}) = Cardinality(s) - 1
      BY <2>2, <3>1, FS_RemoveElement
    <3> QED
      BY <1>3, <3>1, <3>2
  <2>4. s \ {x} \in G
    BY <1>3, <2>3
  <2>5. s = (s \ {x}) \cup {x} /\ x \in S \ (s \ {x})
    BY <2>2
  <2> QED
    BY <2>4, <2>5
<1> HIDE DEF N
<1>4. \A n \in Nat : n \in N
  BY <1>2, <1>3, NatSteps
<1> QED
  BY <1>1, <1>4 DEF N

\* The function that a fold computes by taking out one element after the other.
Adds(h, S, F) ==
    h = [s \in SUBSET S |-> IF s = {} THEN 0
                            ELSE F[CHOOSE x \in s : TRUE] + h[s \ {CHOOSE x \in s : TRUE}]]

LEMMA AddsExists ==
    ASSUME NEW S, IsFiniteSet(S), NEW F
    PROVE  \E h : Adds(h, S, F)
<1> DEFINE pick(s) == CHOOSE x \in s : TRUE
           N == {n \in Nat : \E h : \A s \in SUBSET S : Cardinality(s) <= n =>
                                h[s] = IF s = {} THEN 0 ELSE F[pick(s)] + h[s \ {pick(s)}]}
<1>1. \A s \in SUBSET S : IsFiniteSet(s) /\ Cardinality(s) \in Nat
  BY FS_Subset, FS_CardinalityType
<1>2. \A s \in SUBSET S : s # {} => pick(s) \in s /\ s \ {pick(s)} \in SUBSET S
                                    /\ Cardinality(s \ {pick(s)}) = Cardinality(s) - 1
  BY <1>1, FS_RemoveElement
<1> HIDE DEF pick
<1>3. 0 \in N
  <2>1. \A s \in SUBSET S : Cardinality(s) <= 0 => s = {}
    BY <1>1, FS_EmptySet
  <2>2. PICK h : h = [s \in SUBSET S |-> 0]
    OBVIOUS
  <2>3. \A s \in SUBSET S : Cardinality(s) <= 0 =>
            h[s] = IF s = {} THEN 0 ELSE F[pick(s)] + h[s \ {pick(s)}]
    BY <2>1, <2>2
  <2> QED
    BY <2>3
<1>4. ASSUME NEW n \in Nat, n \in N
      PROVE  n + 1 \in N
  <2>1. PICK h : \A s \in SUBSET S : Cardinality(s) <= n =>
                    h[s] = IF s = {} THEN 0 ELSE F[pick(s)] + h[s \ {pick(s)}]
    BY <1>4
  <2>2. PICK g : g = [s \in SUBSET S |-> IF Cardinality(s) <= n THEN h[s]
                                         ELSE F[pick(s)] + h[s \ {pick(s)}]]
    OBVIOUS
  <2>3. ASSUME NEW s \in SUBSET S, Cardinality(s) <= n + 1
        PROVE  g[s] = IF s = {} THEN 0 ELSE F[pick(s)] + g[s \ {pick(s)}]
    <3>1. CASE s = {}
      <4>1. Cardinality(s) <= n
        BY <3>1, FS_EmptySet
      <4>2. g[s] = h[s] /\ h[s] = 0
        BY <2>1, <2>2, <3>1, <4>1
      <4> QED
        BY <3>1, <4>2
    <3>2. CASE s # {}
      <4>1. s \ {pick(s)} \in SUBSET S /\ Cardinality(s \ {pick(s)}) <= n
        BY <1>1, <1>2, <2>3, <3>2
      <4>2. g[s \ {pick(s)}] = h[s \ {pick(s)}]
        BY <2>2, <4>1
      <4>3. g[s] = F[pick(s)] + h[s \ {pick(s)}]
        BY <2>1, <2>2, <3>2
      <4> QED
        BY <3>2, <4>2, <4>3
    <3> QED
      BY <3>1, <3>2
  <2>4. \A s \in SUBSET S : Cardinality(s) <= n + 1 =>
            g[s] = IF s = {} THEN 0 ELSE F[pick(s)] + g[s \ {pick(s)}]
    BY <2>3
  <2>5. n + 1 \in Nat
    BY <1>4
  <2> QED
    BY <2>4, <2>5, Zenon
<1> HIDE DEF N
<1>5. Cardinality(S) \in N
  BY <1>1, <1>3, <1>4, NatSteps
<1>6. PICK h : \A s \in SUBSET S : Cardinality(s) <= Cardinality(S) =>
                  h[s] = IF s = {} THEN 0 ELSE F[pick(s)] + h[s \ {pick(s)}]
  BY <1>5 DEF N
<1>7. PICK g : g = [s \in SUBSET S |-> h[s]]
  OBVIOUS
<1>8. \A s \in SUBSET S : Cardinality(s) <= Cardinality(S)
  BY FS_Subset
<1>9. \A s \in SUBSET S : g[s] = IF s = {} THEN 0 ELSE F[pick(s)] + g[s \ {pick(s)}]
  BY <1>2, <1>6, <1>7, <1>8
<1>10. g = [s \in SUBSET S |-> IF s = {} THEN 0 ELSE F[pick(s)] + g[s \ {pick(s)}]]
  BY <1>7, <1>9
<1> QED
  BY <1>10 DEF Adds, pick

\* Any element may be taken out first.
LEMMA AddsStep ==
    ASSUME NEW S, IsFiniteSet(S), NEW F \in [S -> Int], NEW h, Adds(h, S, F)
    PROVE  /\ h[{}] = 0
           /\ \A s \in SUBSET S : h[s] \in Int
           /\ \A s \in SUBSET S : \A x \in S \ s : h[s \cup {x}] = F[x] + h[s]
<1> DEFINE pick(s) == CHOOSE x \in s : TRUE
           Splits(s) == h[s] \in Int /\ \A x \in s : h[s] = F[x] + h[s \ {x}]
           N == {n \in Nat : \A s \in SUBSET S : Cardinality(s) <= n => Splits(s)}
<1>1. \A s \in SUBSET S : h[s] = IF s = {} THEN 0 ELSE F[pick(s)] + h[s \ {pick(s)}]
  BY DEF Adds
<1>2. \A s : s # {} => pick(s) \in s
  OBVIOUS
<1> HIDE DEF pick
<1>3. \A s \in SUBSET S : IsFiniteSet(s) /\ Cardinality(s) \in Nat /\ Cardinality(s) <= Cardinality(S)
  BY FS_Subset, FS_CardinalityType
<1>4. \A s \in SUBSET S : \A x \in s : Cardinality(s \ {x}) = Cardinality(s) - 1
  BY <1>3, FS_RemoveElement
<1>5. 0 \in N
  <2>1. \A s \in SUBSET S : Cardinality(s) <= 0 => s = {}
    BY <1>3, FS_EmptySet
  <2>2. h[{}] = 0
    BY <1>1
  <2>3. Splits({})
    BY <2>2
  <2> QED
    BY <2>1, <2>3
<1>6. ASSUME NEW n \in Nat, n \in N
      PROVE  n + 1 \in N
  <2>1. \A s \in SUBSET S : Cardinality(s) <= n => Splits(s)
    BY <1>6
  <2>2. ASSUME NEW s \in SUBSET S, Cardinality(s) <= n + 1, s # {}
        PROVE  Splits(s)
    <3>1. PICK y \in s : h[s] = F[y] + h[s \ {y}]
      BY <1>1, <1>2, <2>2
    <3>2. \A x \in s : Splits(s \ {x})
      <4> TAKE x \in s
      <4>1. s \ {x} \in SUBSET S /\ Cardinality(s \ {x}) <= n
        BY <1>3, <1>4, <1>6, <2>2
      <4> QED
        BY <2>1, <4>1
    <3>3. ASSUME NEW x \in s, x # y
          PROVE  h[s] = F[x] + h[s \ {x}]
      <4>1. PICK r : r = s \ {x, y}
        OBVIOUS
      <4>2. x \in s \ {y} /\ y \in s \ {x} /\ (s \ {y}) \ {x} = r /\ (s \ {x}) \ {y} = r
        BY <3>3, <4>1
      <4>3. h[s \ {y}] = F[x] + h[r] /\ h[s \ {x}] = F[y] + h[r]
        BY <3>2, <4>2
      <4>4. h[r] \in Int
        <5>1. r \in SUBSET S /\ Cardinality(r) <= n
          <6>1. s \ {y} \in SUBSET S /\ Cardinality(s \ {y}) = Cardinality(s) - 1
            BY <1>4
          <6>2. r \in SUBSET S /\ Cardinality(r) = Cardinality(s \ {y}) - 1
            BY <1>4, <4>2, <6>1
          <6> QED
            BY <1>3, <1>6, <2>2, <6>1, <6>2
        <5> QED
          BY <2>1, <5>1
      <4>5. F[x] \in Int /\ F[y] \in Int
        OBVIOUS
      <4> QED
        BY <3>1, <4>3, <4>4, <4>5
    <3>4. h[s \ {y}] \in Int /\ F[y] \in Int
      BY <3>2
    <3>5. h[s] \in Int
      BY <3>1, <3>4
    <3>6. \A x \in s : h[s] = F[x] + h[s \ {x}]
      BY <3>1, <3>3
    <3> QED
      BY <3>5, <3>6
  <2>3. Splits({})
    <3>1. h[{}] = 0
      BY <1>1
    <3> QED
      BY <3>1
  <2> HIDE DEF Splits
  <2> QED
    BY <1>6, <2>2, <2>3
<1>7. Cardinality(S) \in Nat
  BY <1>3
<1> HIDE DEF N
<1>8. Cardinality(S) \in N
  BY <1>5, <1>6, <1>7, NatSteps
<1>9. \A s \in SUBSET S : Splits(s)
  BY <1>3, <1>8 DEF N
<1>10. ASSUME NEW s \in SUBSET S, NEW x \in S \ s
       PROVE  h[s \cup {x}] = F[x] + h[s]
  <2>1. s \cup {x} \in SUBSET S /\ x \in s \cup {x} /\ (s \cup {x}) \ {x} = s
    OBVIOUS
  <2> QED
    BY <1>9, <2>1
<1> QED
  BY <1>1, <1>9, <1>10

\* A set is counted class by class.
LEMMA AddsClasses ==
    ASSUME NEW T, IsFiniteSet(T), NEW P, IsFiniteSet(P), NEW class, \A c \in P : class[c] \in T,
           NEW F \in [T -> Int], \A t \in T : F[t] = Cardinality({c \in P : class[c] = t}),
           NEW h, Adds(h, T, F)
    PROVE  h[T] = Cardinality(P)
<1> DEFINE In(s) == {c \in P : class[c] \in s}
           G == {s \in SUBSET T : h[s] = Cardinality(In(s))}
<1>3. /\ h[{}] = 0
      /\ \A s \in SUBSET T : \A x \in T \ s : h[s \cup {x}] = F[x] + h[s]
  BY AddsStep
<1>4. {} \in G
  <2>1. In({}) = {}
    OBVIOUS
  <2> QED
    BY <1>3, <2>1, FS_EmptySet
<1>5. ASSUME NEW s \in SUBSET T, NEW x \in T \ s, s \in G
      PROVE  s \cup {x} \in G
  <2> DEFINE X == {c \in P : class[c] = x}
  <2>1. In(s \cup {x}) = In(s) \cup X /\ In(s) \cap X = {}
    BY <1>5
  <2>2. IsFiniteSet(In(s)) /\ IsFiniteSet(X)
    BY FS_Subset
  <2>3. Cardinality(In(s) \cup X) = Cardinality(In(s)) + Cardinality(X)
    <3>1. Cardinality(In(s) \cap X) = 0
      BY <2>1, FS_EmptySet
    <3>2. Cardinality(In(s)) \in Nat /\ Cardinality(X) \in Nat
      BY <2>2, FS_CardinalityType
    <3>3. Cardinality(In(s) \cup X) = Cardinality(In(s)) + Cardinality(X) - Cardinality(In(s) \cap X)
      BY <2>2, FS_Union
    <3> HIDE DEF In, X
    <3> QED
      BY <3>1, <3>2, <3>3
  <2>4. F[x] = Cardinality(X)
    BY <1>5
  <2>5. h[s \cup {x}] = F[x] + h[s] /\ h[s] = Cardinality(In(s))
    BY <1>3, <1>5
  <2>6. Cardinality(In(s)) \in Nat /\ Cardinality(X) \in Nat
    BY <2>2, FS_CardinalityType
  <2>7. h[s \cup {x}] = Cardinality(In(s \cup {x}))
    <3>1. PICK a, b, u : a = In(s) /\ b = X /\ u = In(s \cup {x})
      OBVIOUS
    <3>2. u = a \cup b /\ Cardinality(a \cup b) = Cardinality(a) + Cardinality(b)
      BY <2>1, <2>3, <3>1
    <3>3. /\ h[s \cup {x}] = Cardinality(b) + Cardinality(a)
          /\ Cardinality(a) \in Nat /\ Cardinality(b) \in Nat
      BY <2>4, <2>5, <2>6, <3>1
    <3>4. h[s \cup {x}] = Cardinality(u)
      BY <3>2, <3>3
    <3> QED
      BY <3>1, <3>4
  <2> QED
    BY <1>5, <2>7
<1> HIDE DEF G
<1>6. T \in G
  BY <1>4, <1>5, SubsetSteps
<1>7. In(T) = P
  OBVIOUS
<1> QED
  BY <1>6, <1>7 DEF G

\* What adds nothing may be left out.
LEMMA AddsZeros ==
    ASSUME NEW S, IsFiniteSet(S), NEW F \in [S -> Int], NEW h, Adds(h, S, F),
           NEW Z \in SUBSET S, \A x \in S \ Z : F[x] = 0,
           NEW E \in [Z -> Int], \A x \in Z : E[x] = F[x], NEW g, Adds(g, Z, E)
    PROVE  h[S] = g[Z]
<1>1. IsFiniteSet(Z)
  BY FS_Subset
<1>2. /\ h[{}] = 0 /\ \A s \in SUBSET S : h[s] \in Int
      /\ \A s \in SUBSET S : \A x \in S \ s : h[s \cup {x}] = F[x] + h[s]
  BY AddsStep
<1>3. /\ g[{}] = 0
      /\ \A s \in SUBSET Z : \A x \in Z \ s : g[s \cup {x}] = E[x] + g[s]
  BY <1>1, AddsStep
<1> DEFINE G == {s \in SUBSET S : h[s] = g[s \cap Z]}
<1>4. {} \in G
  <2>1. {} \cap Z = {}
    OBVIOUS
  <2> QED
    BY <1>2, <1>3, <2>1
<1>5. ASSUME NEW s \in SUBSET S, NEW x \in S \ s, s \in G
      PROVE  s \cup {x} \in G
  <2>1. h[s \cup {x}] = F[x] + h[s] /\ h[s] = g[s \cap Z] /\ h[s] \in Int
    BY <1>2, <1>5
  <2>2. CASE x \in Z
    <3>1. (s \cup {x}) \cap Z = (s \cap Z) \cup {x} /\ s \cap Z \in SUBSET Z /\ x \in Z \ (s \cap Z)
      BY <1>5, <2>2
    <3>2. g[(s \cup {x}) \cap Z] = E[x] + g[s \cap Z]
      BY <1>3, <3>1
    <3> QED
      BY <1>5, <2>1, <2>2, <3>2
  <2>3. CASE x \notin Z
    <3>1. (s \cup {x}) \cap Z = s \cap Z
      BY <2>3
    <3>2. F[x] = 0
      BY <1>5, <2>3
    <3>3. h[s \cup {x}] = h[s]
      BY <2>1, <3>2
    <3>4. h[s \cup {x}] = g[(s \cup {x}) \cap Z]
      BY <2>1, <3>1, <3>3
    <3> QED
      BY <1>5, <3>4
  <2> QED
    BY <2>2, <2>3
<1> HIDE DEF G
<1>6. S \in G
  BY <1>4, <1>5, SubsetSteps
<1>7. S \cap Z = Z
  OBVIOUS
<1> QED
  BY <1>6, <1>7 DEF G

\* What is never negative adds up to no less than each of it.
LEMMA AddsGrow ==
    ASSUME NEW S, IsFiniteSet(S), NEW F \in [S -> Int], \A x \in S : F[x] >= 0, NEW h, Adds(h, S, F)
    PROVE  h[S] \in Nat /\ \A x \in S : F[x] <= h[S]
<1>1. /\ h[{}] = 0
      /\ \A s \in SUBSET S : \A x \in S \ s : h[s \cup {x}] = F[x] + h[s]
  BY AddsStep
<1> DEFINE G == {s \in SUBSET S : h[s] \in Nat /\ \A x \in s : F[x] <= h[s]}
<1>2. {} \in G
  BY <1>1
<1>3. ASSUME NEW s \in SUBSET S, NEW z \in S \ s, s \in G
      PROVE  s \cup {z} \in G
  <2>1. h[s \cup {z}] = F[z] + h[s] /\ h[s] \in Nat /\ F[z] \in Nat
    <3>1. F[z] \in Int /\ F[z] >= 0
      BY <1>3
    <3> QED
      BY <1>1, <1>3, <3>1
  <2>2. ASSUME NEW x \in s \cup {z}
        PROVE  F[x] <= h[s \cup {z}]
    <3>1. x = z \/ (x \in s /\ F[x] <= h[s] /\ F[x] \in Int)
      BY <1>3, <2>2
    <3> QED
      BY <2>1, <3>1
  <2> QED
    BY <1>3, <2>1, <2>2
<1> HIDE DEF G
<1>4. S \in G
  BY <1>2, <1>3, SubsetSteps
<1> QED
  BY <1>4 DEF G

-----------------------------------------------------------------------------
(* The rows of the youth programme.                                        *)

When == Nat \cup {Never}
ClientSort == [registered : When, home : District \cup {NoDistrict},
               opened : When, filed : District \cup {NoDistrict}]
SlipSort == [of : Client \cup {NoDistrict}, status : SlipStatus, made : When,
             confirmed : When, places : BOOLEAN, ended : When]
PostSort == [of : Client \cup {NoDistrict}, placed : When, exit : When,
             check : [CheckDays -> {"PENDING", "RETAINED", "EXITED", "UNREACHABLE"}]]

\* A referral is of a youth with a case, and dated as far as it has come.
SlipTrue(r) ==
    r # NoSlip =>
        /\ r.of \in Client /\ client[r.of].opened # Never /\ r.made \in Nat
        /\ r.status \in {"ACTIVE", "COMPLETED"} => r.confirmed # Never
        /\ r.status = "COMPLETED" => r.ended # Never

\* A placement that has ended has no check left to ask.
PostTrue(r) ==
    r # NoPost => /\ r.of \in Client /\ r.placed \in Nat
                  /\ r.exit # Never => \A k \in CheckDays : r.check[k] # "PENDING"

ClientsSound ==
    /\ client \in [Client -> ClientSort]
    /\ \A c \in Client : client[c].opened # Never => client[c].registered # Never
SlipsSound == slip \in [Slip -> SlipSort] /\ \A s \in Slip : SlipTrue(slip[s])
PostsSound == post \in [Post -> PostSort] /\ \A p \in Post : PostTrue(post[p])
DashboardSound == now \in Nat /\ ClientsSound /\ SlipsSound /\ PostsSound

LEMMA BlankRows ==
    NoSlip \in SlipSort /\ NoPost \in PostSort /\ NoSlip.status = "ABSENT" /\ NoPost.exit = Never
BY DEF NoSlip, NoPost, SlipSort, PostSort, SlipStatus, When, NotChecked

LEMMA DashboardBegins ==
    ASSUME DashboardInit
    PROVE  DashboardSound
<1>1. ClientsSound
  BY DEF DashboardInit, ClientsSound, ClientSort, Unregistered, When
<1>2. SlipsSound
  BY BlankRows DEF DashboardInit, SlipsSound, SlipTrue
<1>3. PostsSound
  BY BlankRows DEF DashboardInit, PostsSound, PostTrue
<1> QED
  BY <1>1, <1>2, <1>3 DEF DashboardInit, DashboardSound

\* A case stays open, whatever becomes of its youth's row.
CasesStay == \A c \in Client : client[c].opened # Never => client'[c].opened # Never

LEMMA TouchedKeeps ==
    ASSUME ClientsSound, NEW c \in Client, Touched(c)
    PROVE  ClientsSound' /\ CasesStay
<1>1. PICK d : d = client[c].home
  OBVIOUS
<1>2. d \in District \cup {NoDistrict} /\ client' = [client EXCEPT ![c].filed = d]
  BY <1>1 DEF Touched, ClientsSound, ClientSort
<1> QED
  BY <1>2 DEF ClientsSound, CasesStay, ClientSort

LEMMA ClientsKept ==
    ASSUME DashboardSound, [DashboardNext]_dashboardVars
    PROVE  ClientsSound' /\ CasesStay
<1>1. CASE UNCHANGED client
  BY <1>1 DEF DashboardSound, ClientsSound, CasesStay
<1>2. \A s \in Slip : slip[s] # NoSlip => slip[s].of \in Client
  BY DEF DashboardSound, SlipsSound, SlipTrue
<1>3. \A p \in Post : post[p] # NoPost => post[p].of \in Client
  BY DEF DashboardSound, PostsSound, PostTrue
<1>4. \A s \in Slip : slip[s].status # "ABSENT" => slip[s] # NoSlip
  BY BlankRows
<1>5. ASSUME NEW c \in Client, OpenCase(c) \/ \E d \in District : Register(c, d) \/ MoveHome(c, d)
      PROVE  ClientsSound' /\ CasesStay
  <2>1. CASE OpenCase(c)
    <3>1. PICK d : d = client[c].home
      OBVIOUS
    <3>2. PICK h : h = [client EXCEPT ![c].opened = now]
      OBVIOUS
    <3>3. /\ client \in [Client -> ClientSort] /\ client[c].registered # Never
          /\ now \in Nat /\ d \in District \cup {NoDistrict}
          /\ client' = [h EXCEPT ![c].filed = d]
      BY <2>1, <3>1, <3>2 DEF OpenCase, DashboardSound, ClientsSound, ClientSort
    <3>4. h \in [Client -> ClientSort] /\ h[c] = [client[c] EXCEPT !.opened = now]
      BY <3>2, <3>3 DEF ClientSort, When
    <3>5. /\ client' \in [Client -> ClientSort]
          /\ \A x \in Client \ {c} : client'[x] = client[x]
          /\ client'[c].registered = client[c].registered /\ client'[c].opened = now
      BY <3>2, <3>3, <3>4 DEF ClientSort
    <3> QED
      BY <3>3, <3>5 DEF DashboardSound, ClientsSound, CasesStay, Never
  <2>2. ASSUME NEW d \in District, Register(c, d)
        PROVE  ClientsSound' /\ CasesStay
    <3>1. PICK h : h = [client EXCEPT ![c].registered = now]
      OBVIOUS
    <3>2. /\ client \in [Client -> ClientSort] /\ now \in Nat
          /\ client' = [h EXCEPT ![c].home = d]
      BY <2>2, <3>1 DEF Register, DashboardSound, ClientsSound
    <3>3. h \in [Client -> ClientSort] /\ h[c] = [client[c] EXCEPT !.registered = now]
      BY <3>1, <3>2 DEF ClientSort, When
    <3>4. /\ client' \in [Client -> ClientSort]
          /\ \A x \in Client \ {c} : client'[x] = client[x]
          /\ client'[c].opened = client[c].opened /\ client'[c].registered = now
      BY <3>1, <3>2, <3>3 DEF ClientSort
    <3> QED
      BY <3>2, <3>4 DEF DashboardSound, ClientsSound, CasesStay, Never
  <2>3. ASSUME NEW d \in District, MoveHome(c, d)
        PROVE  ClientsSound' /\ CasesStay
    <3>1. client' = [client EXCEPT ![c].home = d]
      BY <2>3 DEF MoveHome
    <3> QED
      BY <3>1 DEF DashboardSound, ClientsSound, CasesStay, ClientSort
  <2> QED
    BY <1>5, <2>1, <2>2, <2>3
<1>6. ASSUME NEW c \in Client, NEW s \in Slip, Refer(c, s)
      PROVE  ClientsSound' /\ CasesStay
  BY <1>6, TouchedKeeps DEF Refer, DashboardSound
<1>7. ASSUME NEW s \in Slip, NEW d, ConfirmSlip(s, d)
      PROVE  ClientsSound' /\ CasesStay
  BY <1>2, <1>4, <1>7, TouchedKeeps DEF ConfirmSlip, DashboardSound
<1>8. ASSUME NEW s \in Slip, NEW to, EndSlip(s, to)
      PROVE  ClientsSound' /\ CasesStay
  BY <1>2, <1>4, <1>8, TouchedKeeps DEF EndSlip, DashboardSound
<1>9. ASSUME NEW s \in Slip, NEW places, NEW d, CompleteSlip(s, places, d)
      PROVE  ClientsSound' /\ CasesStay
  BY <1>2, <1>4, <1>9, TouchedKeeps DEF CompleteSlip, DashboardSound
<1>10. ASSUME NEW s \in Slip, NEW q \in Slip, ReplaceSlip(s, q)
       PROVE  ClientsSound' /\ CasesStay
  BY <1>2, <1>4, <1>10, TouchedKeeps DEF ReplaceSlip, DashboardSound
<1>11. ASSUME NEW p \in Post, NEW s \in Slip, NEW d, RecordPost(p, s, d)
       PROVE  ClientsSound' /\ CasesStay
  BY <1>2, <1>11, TouchedKeeps DEF RecordPost, DashboardSound
<1>12. ASSUME NEW p \in Post, NEW k, NEW found, AnswerCheck(p, k, found)
       PROVE  ClientsSound' /\ CasesStay
  BY <1>3, <1>12, TouchedKeeps DEF AnswerCheck, DashboardSound
<1>13. ASSUME NEW p \in Post, NEW d, LeavePost(p, d)
       PROVE  ClientsSound' /\ CasesStay
  BY <1>3, <1>13, TouchedKeeps DEF LeavePost, DashboardSound
<1>14. ASSUME NextMorning \/ UNCHANGED dashboardVars
       PROVE  ClientsSound' /\ CasesStay
  BY <1>1, <1>14 DEF NextMorning, dashboardVars
<1> QED
  BY <1>5, <1>6, <1>7, <1>8, <1>9, <1>10, <1>11, <1>12, <1>13, <1>14 DEF DashboardNext

LEMMA SlipWritten ==
    ASSUME SlipsSound, CasesStay, NEW s \in Slip, NEW r \in SlipSort, SlipTrue(r),
           slip' = [slip EXCEPT ![s] = r]
    PROVE  SlipsSound'
BY DEF SlipsSound, SlipTrue, CasesStay

LEMMA SlipsStay ==
    ASSUME SlipsSound, CasesStay, UNCHANGED slip
    PROVE  SlipsSound'
BY DEF SlipsSound, SlipTrue, CasesStay

LEMMA MadeIsTrue ==
    ASSUME NEW c \in Client, now \in Nat, client[c].opened # Never
    PROVE  Made(c) \in SlipSort /\ SlipTrue(Made(c))
BY DEF Made, NoSlip, SlipSort, SlipTrue, SlipStatus, When

LEMMA SlipsKept ==
    ASSUME DashboardSound, [DashboardNext]_dashboardVars, CasesStay
    PROVE  SlipsSound'
<1>1. SlipsSound /\ now \in Nat /\ slip \in [Slip -> SlipSort] /\ \A s \in Slip : SlipTrue(slip[s])
  BY DEF DashboardSound, SlipsSound
<1>2. CASE UNCHANGED slip
  BY <1>1, <1>2, SlipsStay
<1>3. \A s \in Slip : slip[s].status # "ABSENT" => slip[s] # NoSlip
  BY BlankRows
<1>4. \A s \in Slip : slip[s] # NoSlip => slip[s].of \in Client /\ client[slip[s].of].opened # Never
  BY <1>1 DEF SlipTrue
<1>5. ASSUME NEW c \in Client, NEW s \in Slip, Refer(c, s)
      PROVE  SlipsSound'
  <2>1. PICK r : r = Made(c)
    OBVIOUS
  <2>2. r \in SlipSort /\ SlipTrue(r)
    BY <1>1, <1>5, <2>1, MadeIsTrue DEF Refer
  <2> QED
    BY <1>1, <1>5, <2>1, <2>2, SlipWritten DEF Refer
<1>6. ASSUME NEW s \in Slip, NEW d \in Day, ConfirmSlip(s, d)
      PROVE  SlipsSound'
  <2>1. PICK h : h = [slip EXCEPT ![s].status = "ACTIVE"]
    OBVIOUS
  <2>2. PICK r : r = [[slip[s] EXCEPT !.status = "ACTIVE"] EXCEPT !.confirmed = d]
    OBVIOUS
  <2>3. slip' = [h EXCEPT ![s].confirmed = d] /\ slip[s] # NoSlip
    BY <1>3, <1>6, <2>1 DEF ConfirmSlip
  <2>4. r \in SlipSort /\ SlipTrue(r)
    <3>1. d \in Nat /\ d # Never
      BY DEF Day, Never
    <3>2. r \in SlipSort /\ r.of = slip[s].of /\ r.status = "ACTIVE" /\ r.confirmed = d /\ r.made = slip[s].made
      BY <1>1, <2>2, <3>1 DEF SlipSort, SlipStatus, When
    <3> QED
      BY <1>1, <2>3, <3>1, <3>2 DEF SlipTrue
  <2>5. slip' = [slip EXCEPT ![s] = r]
    BY <1>1, <2>1, <2>2, <2>3 DEF SlipSort
  <2> QED
    BY <1>1, <2>4, <2>5, SlipWritten
<1>7. ASSUME NEW s \in Slip, NEW to, EndSlip(s, to)
      PROVE  SlipsSound'
  <2>1. PICK r : r = [slip[s] EXCEPT !.status = to]
    OBVIOUS
  <2>2. slip[s] # NoSlip /\ to \in {"FAILED", "CANCELLED"} /\ slip' = [slip EXCEPT ![s] = r]
    BY <1>1, <1>3, <1>7, <2>1 DEF EndSlip, SlipSort
  <2>3. r \in SlipSort /\ SlipTrue(r)
    BY <1>1, <2>1, <2>2 DEF SlipTrue, SlipSort, SlipStatus
  <2> QED
    BY <1>1, <2>2, <2>3, SlipWritten
<1>8. ASSUME NEW s \in Slip, NEW places \in BOOLEAN, NEW d \in Day, CompleteSlip(s, places, d)
      PROVE  SlipsSound'
  <2>1. PICK h : h = [slip EXCEPT ![s].status = "COMPLETED"]
    OBVIOUS
  <2>2. PICK g : g = [h EXCEPT ![s].places = places]
    OBVIOUS
  <2>3. PICK r : r = [[[slip[s] EXCEPT !.status = "COMPLETED"] EXCEPT !.places = places] EXCEPT !.ended = d]
    OBVIOUS
  <2>4. slip' = [g EXCEPT ![s].ended = d] /\ slip[s] # NoSlip /\ slip[s].status = "ACTIVE"
    BY <1>3, <1>8, <2>1, <2>2 DEF CompleteSlip
  <2>5. r \in SlipSort /\ SlipTrue(r)
    <3>1. d \in Nat /\ d # Never
      BY DEF Day, Never
    <3>2. /\ r \in SlipSort /\ r.of = slip[s].of /\ r.status = "COMPLETED" /\ r.ended = d
          /\ r.made = slip[s].made /\ r.confirmed = slip[s].confirmed
      BY <1>1, <2>3, <3>1 DEF SlipSort, SlipStatus, When
    <3> QED
      BY <1>1, <2>4, <3>1, <3>2 DEF SlipTrue
  <2>6. slip' = [slip EXCEPT ![s] = r]
    BY <1>1, <2>1, <2>2, <2>3, <2>4 DEF SlipSort
  <2> QED
    BY <1>1, <2>5, <2>6, SlipWritten
<1>9. ASSUME NEW s \in Slip, NEW q \in Slip, ReplaceSlip(s, q)
      PROVE  SlipsSound'
  <2>1. PICK r : r = [slip[s] EXCEPT !.status = "REPLACED"]
    OBVIOUS
  <2>2. PICK m : m = Made(slip[s].of)
    OBVIOUS
  <2>3. slip[s] # NoSlip /\ slip[q] = NoSlip /\ slip' = [[slip EXCEPT ![s] = r] EXCEPT ![q] = m]
    BY <1>1, <1>3, <1>9, <2>1, <2>2 DEF ReplaceSlip, IsNextSlip, SlipSort
  <2>4. r \in SlipSort /\ SlipTrue(r)
    BY <1>1, <2>1, <2>3 DEF SlipTrue, SlipSort, SlipStatus
  <2>5. m \in SlipSort /\ SlipTrue(m)
    BY <1>1, <1>4, <2>2, <2>3, MadeIsTrue
  <2>6. /\ slip' \in [Slip -> SlipSort]
        /\ \A x \in Slip : slip'[x] \in {slip[x], r, m}
    BY <1>1, <2>3, <2>4, <2>5
  <2>7. \A x \in Slip : SlipTrue(slip'[x])
    BY <1>1, <2>4, <2>5, <2>6
  <2> QED
    BY <2>6, <2>7 DEF SlipsSound, SlipTrue, CasesStay
<1>10. ASSUME NEW c \in Client, OpenCase(c) \/ \E d \in District : Register(c, d) \/ MoveHome(c, d)
       PROVE  SlipsSound'
  BY <1>2, <1>10 DEF OpenCase, Register, MoveHome
<1>11. ASSUME NEW p \in Post, NEW s \in Slip, NEW d, RecordPost(p, s, d)
       PROVE  SlipsSound'
  BY <1>2, <1>11 DEF RecordPost
<1>12. ASSUME NEW p \in Post, NEW k, NEW found, AnswerCheck(p, k, found)
       PROVE  SlipsSound'
  BY <1>2, <1>12 DEF AnswerCheck
<1>13. ASSUME NEW p \in Post, NEW d, LeavePost(p, d)
       PROVE  SlipsSound'
  BY <1>2, <1>13 DEF LeavePost
<1>14. ASSUME NextMorning \/ UNCHANGED dashboardVars
       PROVE  SlipsSound'
  BY <1>2, <1>14 DEF NextMorning, dashboardVars
<1> QED
  BY <1>5, <1>6, <1>7, <1>8, <1>9, <1>10, <1>11, <1>12, <1>13, <1>14 DEF DashboardNext

LEMMA PostsKept ==
    ASSUME DashboardSound, [DashboardNext]_dashboardVars
    PROVE  PostsSound'
<1>1. PostsSound /\ post \in [Post -> PostSort] /\ \A p \in Post : PostTrue(post[p])
  BY DEF DashboardSound, PostsSound
<1>2. CASE UNCHANGED post
  BY <1>1, <1>2 DEF PostsSound, PostTrue
<1>3. ASSUME NEW p \in Post, NEW r \in PostSort, PostTrue(r), post' = [post EXCEPT ![p] = r]
      PROVE  PostsSound'
  BY <1>1, <1>3 DEF PostsSound, PostTrue
<1>4. ASSUME NEW p \in Post, NEW s \in Slip, NEW d \in Day, RecordPost(p, s, d)
      PROVE  PostsSound'
  <2>1. PICK r : r = [NoPost EXCEPT !.of = slip[s].of, !.placed = d]
    OBVIOUS
  <2>2. slip[s].of \in Client
    BY <1>4 DEF RecordPost, DashboardSound, SlipsSound, SlipTrue
  <2>3. r \in PostSort /\ PostTrue(r)
    <3>1. NoPost \in PostSort /\ NoPost.exit = Never /\ d \in Nat
      BY BlankRows DEF Day
    <3>2. r \in PostSort /\ r.of = slip[s].of /\ r.placed = d /\ r.exit = Never
      BY <2>1, <2>2, <3>1 DEF PostSort, When
    <3> QED
      BY <2>2, <3>1, <3>2 DEF PostTrue
  <2> QED
    BY <1>3, <1>4, <2>1, <2>3 DEF RecordPost
<1>5. ASSUME NEW p \in Post, NEW k \in CheckDays, NEW found \in {"RETAINED", "EXITED", "UNREACHABLE"},
             AnswerCheck(p, k, found)
      PROVE  PostsSound'
  <2>1. PICK g : g = [post[p].check EXCEPT ![k] = found]
    OBVIOUS
  <2>2. PICK r : r = [post[p] EXCEPT !.check = g]
    OBVIOUS
  <2>3. post[p] # NoPost /\ post' = [post EXCEPT ![p] = r]
    BY <1>1, <1>5, <2>1, <2>2 DEF AnswerCheck, PostSort
  <2>4. r \in PostSort /\ PostTrue(r)
    BY <1>1, <2>1, <2>2, <2>3 DEF PostTrue, PostSort
  <2> QED
    BY <1>3, <2>3, <2>4
<1>6. ASSUME NEW p \in Post, NEW d \in Day, LeavePost(p, d)
      PROVE  PostsSound'
  <2>1. PICK g : g = [k \in CheckDays |->
              IF AnsweredByExit(p, k)
              THEN IF d - post[p].placed >= k THEN "RETAINED" ELSE "EXITED"
              ELSE post[p].check[k]]
    OBVIOUS
  <2>2. PICK h : h = [post EXCEPT ![p].exit = d]
    OBVIOUS
  <2>3. PICK r : r = [[post[p] EXCEPT !.exit = d] EXCEPT !.check = g]
    OBVIOUS
  <2>4. post[p] # NoPost /\ post' = [h EXCEPT ![p].check = g]
    BY <1>6, <2>1, <2>2 DEF LeavePost
  <2>5. post' = [post EXCEPT ![p] = r]
    BY <1>1, <2>2, <2>3, <2>4 DEF PostSort
  <2>6. /\ g \in [CheckDays -> {"PENDING", "RETAINED", "EXITED", "UNREACHABLE"}]
        /\ \A k \in CheckDays : g[k] # "PENDING"
    BY <1>1, <2>1 DEF AnsweredByExit, PostSort
  <2>7. r \in PostSort /\ PostTrue(r)
    <3>1. d \in Nat /\ post[p] \in PostSort
      BY <1>1 DEF Day
    <3>2. r \in PostSort /\ r.of = post[p].of /\ r.placed = post[p].placed /\ r.check = g
      BY <2>3, <2>6, <3>1 DEF PostSort, When
    <3> QED
      BY <1>1, <2>4, <2>6, <3>2 DEF PostTrue
  <2> QED
    BY <1>3, <2>5, <2>7
<1>7. ASSUME NEW c \in Client, OpenCase(c) \/ \E d \in District : Register(c, d) \/ MoveHome(c, d)
      PROVE  PostsSound'
  BY <1>2, <1>7 DEF OpenCase, Register, MoveHome
<1>8. ASSUME NEW c \in Client, NEW s \in Slip, Refer(c, s)
      PROVE  PostsSound'
  BY <1>2, <1>8 DEF Refer
<1>9. ASSUME NEW s \in Slip, NEW d, NEW places,
             ConfirmSlip(s, d) \/ EndSlip(s, d) \/ CompleteSlip(s, places, d) \/ ReplaceSlip(s, d)
      PROVE  PostsSound'
  BY <1>2, <1>9 DEF ConfirmSlip, EndSlip, CompleteSlip, ReplaceSlip
<1>10. ASSUME NextMorning \/ UNCHANGED dashboardVars
       PROVE  PostsSound'
  BY <1>2, <1>10 DEF NextMorning, dashboardVars
<1> QED
  BY <1>4, <1>5, <1>6, <1>7, <1>8, <1>9, <1>10 DEF DashboardNext

LEMMA DashboardKept ==
    ASSUME DashboardSound, [DashboardNext]_dashboardVars
    PROVE  DashboardSound' /\ CasesStay
<1>1. now \in Nat
  BY DEF DashboardSound
<1>2. CASE NextMorning \/ UNCHANGED dashboardVars
  BY <1>1, <1>2, ClientsKept, SlipsKept, PostsKept DEF DashboardSound, NextMorning, dashboardVars
<1>3. ASSUME NEW c \in Client, NEW d, NEW s,
             OpenCase(c) \/ Register(c, d) \/ MoveHome(c, d) \/ Refer(c, s)
      PROVE  UNCHANGED now
  BY <1>3 DEF OpenCase, Register, MoveHome, Refer
<1>4. ASSUME NEW s \in Slip, NEW d, NEW places, NEW p,
             \/ ConfirmSlip(s, d) \/ EndSlip(s, d) \/ CompleteSlip(s, places, d) \/ ReplaceSlip(s, d)
             \/ RecordPost(p, s, d)
      PROVE  UNCHANGED now
  BY <1>4 DEF ConfirmSlip, EndSlip, CompleteSlip, ReplaceSlip, RecordPost
<1>5. ASSUME NEW p \in Post, NEW k, NEW found, AnswerCheck(p, k, found) \/ LeavePost(p, k)
      PROVE  UNCHANGED now
  BY <1>5 DEF AnswerCheck, LeavePost
<1>6. CASE UNCHANGED now
  BY <1>1, <1>6, ClientsKept, SlipsKept, PostsKept DEF DashboardSound
<1> QED
  BY <1>2, <1>3, <1>4, <1>5, <1>6 DEF DashboardNext

LEMMA DashboardAlways == DashboardSpec => []DashboardSound
BY DashboardBegins, DashboardKept, PTL DEF DashboardSpec

\* No request dates a referral again.
LEMMA DatesStay ==
    ASSUME DashboardSound, [DashboardNext]_dashboardVars
    PROVE  \A s \in Slip : slip[s] # NoSlip => slip'[s].made = slip[s].made
<1> USE DEF SlipSort
<1>1. slip \in [Slip -> SlipSort]
  BY DEF DashboardSound, SlipsSound
<1> SUFFICES ASSUME NEW t \in Slip, slip[t] # NoSlip
             PROVE  slip'[t].made = slip[t].made
  OBVIOUS
<1>2. CASE UNCHANGED slip
  BY <1>2
<1>3. ASSUME NEW c \in Client, NEW s \in Slip, Refer(c, s)
      PROVE  slip'[t].made = slip[t].made
  <2>1. PICK r : r = Made(c)
    OBVIOUS
  <2> QED
    BY <1>1, <1>3, <2>1 DEF Refer, IsNextSlip
<1>4. ASSUME NEW s \in Slip, NEW d, ConfirmSlip(s, d)
      PROVE  slip'[t].made = slip[t].made
  <2>1. PICK h : h = [slip EXCEPT ![s].status = "ACTIVE"]
    OBVIOUS
  <2>2. h[t].made = slip[t].made /\ slip'[t].made = h[t].made
    BY <1>1, <1>4, <2>1 DEF ConfirmSlip
  <2> QED
    BY <2>2
<1>5. ASSUME NEW s \in Slip, NEW to, EndSlip(s, to)
      PROVE  slip'[t].made = slip[t].made
  BY <1>1, <1>5 DEF EndSlip
<1>6. ASSUME NEW s \in Slip, NEW places, NEW d, CompleteSlip(s, places, d)
      PROVE  slip'[t].made = slip[t].made
  <2>1. PICK h : h = [slip EXCEPT ![s].status = "COMPLETED"]
    OBVIOUS
  <2>2. PICK g : g = [h EXCEPT ![s].places = places]
    OBVIOUS
  <2>3. h[t].made = slip[t].made /\ g[t].made = h[t].made /\ slip'[t].made = g[t].made
    BY <1>1, <1>6, <2>1, <2>2 DEF CompleteSlip
  <2> QED
    BY <2>3
<1>7. ASSUME NEW s \in Slip, NEW q \in Slip, ReplaceSlip(s, q)
      PROVE  slip'[t].made = slip[t].made
  <2>1. PICK h : h = [slip EXCEPT ![s].status = "REPLACED"]
    OBVIOUS
  <2>2. PICK m : m = Made(slip[s].of)
    OBVIOUS
  <2>3. t # q /\ slip' = [h EXCEPT ![q] = m] /\ h[t].made = slip[t].made
    BY <1>1, <1>7, <2>1, <2>2 DEF ReplaceSlip, IsNextSlip
  <2> QED
    BY <1>1, <2>1, <2>3
<1>8. ASSUME NEW c \in Client, OpenCase(c) \/ \E d \in District : Register(c, d) \/ MoveHome(c, d)
      PROVE  UNCHANGED slip
  BY <1>8 DEF OpenCase, Register, MoveHome
<1>9. ASSUME NEW p \in Post, NEW s, NEW d, RecordPost(p, s, d) \/ AnswerCheck(p, s, d) \/ LeavePost(p, d)
      PROVE  UNCHANGED slip
  BY <1>9 DEF RecordPost, AnswerCheck, LeavePost
<1>10. ASSUME NextMorning \/ UNCHANGED dashboardVars
       PROVE  UNCHANGED slip
  BY <1>10 DEF NextMorning, dashboardVars
<1> QED
  BY <1>2, <1>3, <1>4, <1>5, <1>6, <1>7, <1>8, <1>9, <1>10 DEF DashboardNext

\* Alert, queue and indicator draw one line, whatever the standard is: the
\* three of them read one date, and no request changes it.
OneLine ==
    /\ \A s \in Slip : OverdueAlert(s) <=> s \in OverdueQueue(Everywhere)
    /\ OverdueQueue(Everywhere) \cap OnTimeQueue(Everywhere) = {}
    /\ \A s \in Slip :
          IsPending(s) /\ slip'[s].status = "ACTIVE" /\ slip'[s].confirmed = now
              => (ConfirmedInTime(s)' <=> s \notin OverdueQueue(Everywhere))

LEMMA StepOneLine ==
    ASSUME DashboardSound, [DashboardNext]_dashboardVars
    PROVE  OneLine
<1>1. now \in Nat /\ Standard \in Nat /\ Never \notin Nat
  BY DashboardAssumption DEF DashboardSound, Never
<1>2. \A s \in Slip : IsPending(s) => slip[s] # NoSlip
  BY BlankRows DEF IsPending
<1>3. \A s \in Slip : IsPending(s) => slip[s].made \in Nat
  BY <1>2 DEF DashboardSound, SlipsSound, SlipTrue
<1>4. \A s \in Slip : IsPending(s) => (OverdueAlert(s) <=> WaitedTooLong(s))
  BY <1>1, <1>3 DEF OverdueAlert, WaitedTooLong
<1>5. \A s \in Slip : s \in OverdueQueue(Everywhere) <=> IsPending(s) /\ WaitedTooLong(s)
  BY <1>2 DEF OverdueQueue, SlipsOf, InScope
<1>6. \A s \in Slip : OverdueAlert(s) <=> s \in OverdueQueue(Everywhere)
  BY <1>4, <1>5 DEF OverdueAlert
<1>7. OverdueQueue(Everywhere) \cap OnTimeQueue(Everywhere) = {}
  <2> SUFFICES ASSUME NEW s \in OverdueQueue(Everywhere), s \in OnTimeQueue(Everywhere)
               PROVE  FALSE
    OBVIOUS
  <2>1. s \in Slip
    BY DEF OverdueQueue, SlipsOf
  <2>2. slip[s].made >= now - Standard /\ IsPending(s) /\ WaitedTooLong(s)
    BY <1>5, <2>1 DEF OnTimeQueue
  <2> QED
    BY <1>1, <1>3, <2>1, <2>2 DEF WaitedTooLong
<1>8. ASSUME NEW s \in Slip, IsPending(s), slip'[s].status = "ACTIVE", slip'[s].confirmed = now
      PROVE  ConfirmedInTime(s)' <=> s \notin OverdueQueue(Everywhere)
  <2>1. slip'[s].made = slip[s].made /\ slip[s].made \in Nat
    BY <1>2, <1>3, <1>8, DatesStay
  <2>2. ConfirmedInTime(s)' <=> now - slip[s].made <= Standard
    BY <1>1, <1>8, <2>1 DEF ConfirmedInTime
  <2> QED
    BY <1>1, <1>5, <1>8, <2>1, <2>2 DEF WaitedTooLong
<1> QED
  BY <1>6, <1>7, <1>8 DEF OneLine

\* The alert of an overdue confirmation, the queue beside it and the figure of
\* the results framework agree about every referral, at every step.
THEOREM StandardIsOne == DashboardSpec => OneStandard
<1>1. DashboardSound /\ [DashboardNext]_dashboardVars => OneLine
  BY StepOneLine
<1> QED
  BY <1>1, DashboardAlways, PTL DEF DashboardSpec, OneStandard, OneLine

-----------------------------------------------------------------------------
(* Retention: the table of checkpoints and the queue.                      *)

\* A set paired with one label is as large as before.
LEMMA PairedAlike ==
    ASSUME NEW S, IsFiniteSet(S), NEW k
    PROVE  IsFiniteSet(S \X {k}) /\ Cardinality(S \X {k}) = Cardinality(S)
<1>1. IsFiniteSet({k}) /\ Cardinality({k}) = 1
  BY FS_Singleton
<1>2. Cardinality(S) \in Nat
  BY FS_CardinalityType
<1>3. IsFiniteSet(S \X {k}) /\ Cardinality(S \X {k}) = Cardinality(S) * Cardinality({k})
  BY <1>1, FS_Product
<1> QED
  BY <1>1, <1>2, <1>3

LEMMA RowsAreFinite ==
    IsFiniteSet(Slip) /\ IsFiniteSet(Post) /\ IsFiniteSet(Client) /\ IsFiniteSet(CheckDays)
BY DashboardAssumption, FS_Interval DEF Slip, Post

\* The checks of a checkpoint that are due and not answered.
Unanswered(v, k) ==
    {p \in PostsOf(v) : post[p].placed + k <= now /\ post[p].check[k] = "PENDING"}

LEMMA OutstandingCounts ==
    ASSUME NEW v, NEW k
    PROVE  /\ Outstanding(v, k) = Cardinality(Unanswered(v, k))
           /\ Outstanding(v, k) \in Int
           /\ IsFiniteSet(Unanswered(v, k))
<1> DEFINE ripe == {p \in PostsOf(v) : post[p].placed + k <= now}
           answered == {p \in ripe : post[p].check[k] # "PENDING"}
<1>1. IsFiniteSet(PostsOf(v))
  <2>1. PostsOf(v) \in SUBSET Post
    BY DEF PostsOf
  <2> QED
    BY <2>1, RowsAreFinite, FS_Subset
<1>2. IsFiniteSet(ripe) /\ IsFiniteSet(answered)
  <2>1. ripe \in SUBSET PostsOf(v) /\ answered \in SUBSET PostsOf(v)
    OBVIOUS
  <2> QED
    BY <1>1, <2>1, FS_Subset
<1>3. Outstanding(v, k) = Cardinality(ripe) - Cardinality(answered)
  BY DEF Outstanding, RetentionInputs
<1>4. Unanswered(v, k) = ripe \ answered /\ ripe \cap answered = answered
  BY DEF Unanswered
<1>5. IsFiniteSet(ripe \ answered) /\ Cardinality(ripe \ answered) = Cardinality(ripe) - Cardinality(ripe \cap answered)
  BY <1>2, FS_Difference
<1>6. Cardinality(ripe) \in Nat /\ Cardinality(answered) \in Nat
  BY <1>2, FS_CardinalityType
<1>7. PICK a, d, u : a = answered /\ d = ripe /\ u = Unanswered(v, k)
  OBVIOUS
<1>8. /\ IsFiniteSet(u) /\ Cardinality(d) \in Nat /\ Cardinality(a) \in Nat
      /\ Outstanding(v, k) = Cardinality(d) - Cardinality(a)
      /\ Cardinality(u) = Cardinality(d) - Cardinality(a)
  <2> HIDE DEF ripe, answered
  <2>1. u = d \ a /\ d \cap a = a
    BY <1>4, <1>7
  <2>2. IsFiniteSet(d \ a) /\ Cardinality(d \ a) = Cardinality(d) - Cardinality(d \cap a)
    BY <1>5, <1>7
  <2> QED
    BY <1>3, <1>6, <1>7, <2>1, <2>2
<1>9. Outstanding(v, k) = Cardinality(u) /\ Outstanding(v, k) \in Int
  BY <1>8
<1> QED
  BY <1>7, <1>8, <1>9

AllOutstanding(v) == MapThenSumSet(LAMBDA k : Outstanding(v, k), CheckDays)

LEMMA OutstandingAdds ==
    ASSUME NEW v, NEW F, \A k \in CheckDays : F[k] = Outstanding(v, k)
    PROVE  \E h : Adds(h, CheckDays, F) /\ AllOutstanding(v) = h[CheckDays]
<1> DEFINE pick(s) == CHOOSE x \in s : TRUE
           Is(h) == h = [s \in SUBSET CheckDays |->
                            IF s = {} THEN 0 ELSE Outstanding(v, pick(s)) + h[s \ {pick(s)}]]
<1>1. AllOutstanding(v) = (CHOOSE h : Is(h))[CheckDays]
  BY DEF AllOutstanding, MapThenSumSet, MapThenFoldSet
<1>2. \A s \in SUBSET CheckDays : s # {} => F[pick(s)] = Outstanding(v, pick(s))
  OBVIOUS
<1>3. \A h : Adds(h, CheckDays, F) <=> Is(h)
  <2> SUFFICES ASSUME NEW h
               PROVE  Adds(h, CheckDays, F) <=> Is(h)
    OBVIOUS
  <2>1. Adds(h, CheckDays, F)
           <=> h = [s \in SUBSET CheckDays |-> IF s = {} THEN 0 ELSE F[pick(s)] + h[s \ {pick(s)}]]
    BY DEF Adds
  <2> HIDE DEF pick
  <2>2. [s \in SUBSET CheckDays |-> IF s = {} THEN 0 ELSE F[pick(s)] + h[s \ {pick(s)}]]
           = [s \in SUBSET CheckDays |-> IF s = {} THEN 0 ELSE Outstanding(v, pick(s)) + h[s \ {pick(s)}]]
    BY <1>2
  <2> QED
    BY <2>1, <2>2
<1>4. PICK h : Adds(h, CheckDays, F)
  BY RowsAreFinite, AddsExists
<1> HIDE DEF Is
<1>5. Is(CHOOSE g : Is(g))
  BY <1>3, <1>4
<1> QED
  BY <1>1, <1>3, <1>5

LEMMA QueueIsUnanswered ==
    ASSUME DashboardSound, NEW v
    PROVE  /\ IsFiniteSet(DueChecks(v))
           /\ \A c \in DueChecks(v) : c[2] \in CheckDays
           /\ \A k \in CheckDays : {c \in DueChecks(v) : c[2] = k} = Unanswered(v, k) \X {k}
<1>1. \A p \in PostsOf(v), k \in CheckDays : post[p].check[k] = "PENDING" => post[p].exit = Never
  BY DEF PostsOf, DashboardSound, PostsSound, PostTrue
<1>2. IsFiniteSet(PostsOf(v) \X CheckDays)
  <2>1. PostsOf(v) \in SUBSET Post
    BY DEF PostsOf
  <2>2. IsFiniteSet(PostsOf(v))
    BY <2>1, RowsAreFinite, FS_Subset
  <2> QED
    BY <2>2, RowsAreFinite, FS_Product
<1>3. DueChecks(v) \in SUBSET (PostsOf(v) \X CheckDays)
  BY DEF DueChecks
<1>4. IsFiniteSet(DueChecks(v))
  BY <1>2, <1>3, FS_Subset
<1>5. ASSUME NEW k \in CheckDays, NEW c, c \in DueChecks(v), c[2] = k
      PROVE  c \in Unanswered(v, k) \X {k}
  BY <1>5 DEF DueChecks, Unanswered
<1>6. ASSUME NEW k \in CheckDays, NEW p \in Unanswered(v, k)
      PROVE  <<p, k>> \in DueChecks(v)
  BY <1>1, <1>6 DEF DueChecks, Unanswered
<1> QED
  BY <1>3, <1>4, <1>5, <1>6

LEMMA RetentionAlways ==
    ASSUME DashboardSound
    PROVE  RetentionAddsUp
<1> SUFFICES ASSUME NEW v \in Viewer
             PROVE  AllOutstanding(v) = Cardinality(DueChecks(v))
  BY DEF RetentionAddsUp, AllOutstanding
<1>1. PICK F : F = [k \in CheckDays |-> Outstanding(v, k)]
  OBVIOUS
<1>2. PICK h : Adds(h, CheckDays, F) /\ AllOutstanding(v) = h[CheckDays]
  <2>1. \A k \in CheckDays : F[k] = Outstanding(v, k)
    BY <1>1
  <2> QED
    BY <2>1, OutstandingAdds
<1>3. PICK P : P = DueChecks(v)
  OBVIOUS
<1>4. PICK class : class = [c \in P |-> c[2]]
  OBVIOUS
<1>5. /\ IsFiniteSet(P) /\ \A c \in P : class[c] \in CheckDays
      /\ \A k \in CheckDays : {c \in P : class[c] = k} = Unanswered(v, k) \X {k}
  <2>1. \A k : {c \in P : class[c] = k} = {c \in P : c[2] = k}
    BY <1>4
  <2> QED
    BY <1>3, <1>4, <2>1, QueueIsUnanswered
<1>6. F \in [CheckDays -> Int]
  BY <1>1, OutstandingCounts
<1>7. \A k \in CheckDays : F[k] = Cardinality({c \in P : class[c] = k})
  <2> SUFFICES ASSUME NEW k \in CheckDays
               PROVE  F[k] = Cardinality(Unanswered(v, k) \X {k})
    BY <1>5
  <2>1. Cardinality(Unanswered(v, k) \X {k}) = Cardinality(Unanswered(v, k))
    BY OutstandingCounts, PairedAlike
  <2> QED
    BY <1>1, <2>1, OutstandingCounts
<1>8. h[CheckDays] = Cardinality(P)
  BY <1>2, <1>5, <1>6, <1>7, RowsAreFinite, AddsClasses
<1> QED
  BY <1>2, <1>3, <1>8

\* Whatever the checkpoints, exits and answers: the outstanding checks of the
\* table, added up, are those of the queue, for every viewer.
THEOREM RetentionAgrees == DashboardSpec => []RetentionAddsUp
BY RetentionAlways, DashboardAlways, PTL

-----------------------------------------------------------------------------
(* The headline, the tables and the series.                                *)

LEMMA TotalAdds ==
    ASSUME NEW table, IsFiniteSet(DOMAIN table), NEW F, \A x \in DOMAIN table : F[x] = table[x].n
    PROVE  \E h : Adds(h, DOMAIN table, F) /\ Total(table) = h[DOMAIN table]
<1> DEFINE T == DOMAIN table
           pick(s) == CHOOSE x \in s : TRUE
           Is(h) == h = [s \in SUBSET T |-> IF s = {} THEN 0 ELSE table[pick(s)].n + h[s \ {pick(s)}]]
<1>1. Total(table) = (CHOOSE h : Is(h))[T]
  BY DEF Total, MapThenSumSet, MapThenFoldSet
<1>2. \A s \in SUBSET T : s # {} => F[pick(s)] = table[pick(s)].n
  OBVIOUS
<1>3. \A h : Adds(h, T, F) <=> Is(h)
  <2> SUFFICES ASSUME NEW h
               PROVE  Adds(h, T, F) <=> Is(h)
    OBVIOUS
  <2>1. Adds(h, T, F)
           <=> h = [s \in SUBSET T |-> IF s = {} THEN 0 ELSE F[pick(s)] + h[s \ {pick(s)}]]
    BY DEF Adds
  <2> HIDE DEF pick
  <2>2. [s \in SUBSET T |-> IF s = {} THEN 0 ELSE F[pick(s)] + h[s \ {pick(s)}]]
           = [s \in SUBSET T |-> IF s = {} THEN 0 ELSE table[pick(s)].n + h[s \ {pick(s)}]]
    BY <1>2
  <2> QED
    BY <2>1, <2>2
<1>4. PICK h : Adds(h, T, F)
  BY AddsExists
<1> HIDE DEF Is
<1>5. Is(CHOOSE g : Is(g))
  BY <1>3, <1>4
<1> QED
  BY <1>1, <1>3, <1>5

\* A table that counts each youth in one row of it adds up to the youths.
LEMMA TotalCounts ==
    ASSUME NEW table, NEW T, DOMAIN table = T, IsFiniteSet(T), NEW P, IsFiniteSet(P),
           NEW class, \A c \in P : class[c] \in T,
           \A t \in T : table[t].n = Cardinality({c \in P : class[c] = t})
    PROVE  Total(table) = Cardinality(P)
<1>1. PICK F : F = [t \in T |-> table[t].n]
  OBVIOUS
<1>2. \A t \in T : table[t].n \in Int
  <2> SUFFICES ASSUME NEW t \in T
               PROVE  table[t].n \in Int
    OBVIOUS
  <2>1. PICK u : u = {c \in P : class[c] = t}
    OBVIOUS
  <2>2. IsFiniteSet(u)
    BY <2>1, FS_Subset
  <2>3. Cardinality(u) \in Nat
    BY <2>2, FS_CardinalityType
  <2> QED
    BY <2>1, <2>3
<1>3. F \in [T -> Int] /\ \A t \in T : F[t] = table[t].n
  BY <1>1, <1>2
<1>4. PICK h : Adds(h, T, F) /\ Total(table) = h[T]
  BY <1>3, TotalAdds
<1>5. \A t \in T : F[t] = Cardinality({c \in P : class[c] = t})
  BY <1>3
<1> QED
  BY <1>3, <1>4, <1>5, AddsClasses

LEMMA ImageIsFinite ==
    ASSUME NEW S, IsFiniteSet(S), NEW f
    PROVE  IsFiniteSet({f[x] : x \in S})
<1> DEFINE T == {f[x] : x \in S}
           g == [x \in S |-> f[x]]
<1>1. g \in Surjection(S, T)
  BY DEF Surjection
<1> QED
  BY <1>1, FS_Surjection

\* The youths placed are youths with a case and, as long as their cases are in
\* step with where they live, among those a viewer may see.
LEMMA PlacedAre ==
    ASSUME DashboardSound, NEW v
    PROVE  /\ PlacedYouth(v) \subseteq Client
           /\ IsFiniteSet(PlacedYouth(v))
           /\ \A s \in Placements(v) : s \in Slip /\ slip[s].of \in Client /\ slip[s].ended \in Nat
           /\ InStep => PlacedYouth(v) \subseteq YouthOf(v)
<1>1. \A s \in Placements(v) : /\ s \in Slip /\ slip[s] # NoSlip /\ slip[s].status = "COMPLETED"
                               /\ InScope(v, client[slip[s].of].filed)
  BY DEF Placements, SlipsOf
<1>2. \A s \in Placements(v) : /\ slip[s].of \in Client /\ client[slip[s].of].opened # Never
                               /\ slip[s].ended # Never /\ slip[s] \in SlipSort
  BY <1>1 DEF DashboardSound, SlipsSound, SlipTrue
<1>3. PlacedYouth(v) \subseteq Client
  BY <1>2 DEF PlacedYouth
<1>4. IsFiniteSet(PlacedYouth(v))
  BY <1>3, RowsAreFinite, FS_Subset
<1>5. \A s \in Placements(v) : slip[s].ended \in Nat
  BY <1>2 DEF SlipSort, When
<1>6. InStep => PlacedYouth(v) \subseteq YouthOf(v)
  BY <1>1, <1>2 DEF InStep, PlacedYouth, YouthOf, DashboardSound, ClientsSound
<1> QED
  BY <1>1, <1>2, <1>3, <1>4, <1>5, <1>6

LEMMA SplitAddsUp ==
    ASSUME DashboardSound, NEW v
    PROVE  Total(SplitByTrait(v)) = Cardinality(PlacedYouth(v))
<1>1. PICK table : table = SplitByTrait(v)
  OBVIOUS
<1>2. PICK P : P = PlacedYouth(v)
  OBVIOUS
<1>3. DOMAIN table = Traits /\ IsFiniteSet(Traits)
  BY <1>1, RowsAreFinite, ImageIsFinite DEF SplitByTrait, Traits
<1>4. IsFiniteSet(P) /\ \A c \in P : TraitOf[c] \in Traits
  BY <1>2, PlacedAre DEF Traits
<1>5. ASSUME NEW t \in Traits
      PROVE  table[t].n = Cardinality({c \in P : TraitOf[c] = t})
  <2>1. table[t].n = Cardinality({slip[s].of : s \in {s \in Placements(v) : TraitOf[slip[s].of] = t}})
    BY <1>1 DEF SplitByTrait, Rate, CountYouths
  <2>2. {slip[s].of : s \in {s \in Placements(v) : TraitOf[slip[s].of] = t}} = {c \in P : TraitOf[c] = t}
    BY <1>2 DEF PlacedYouth
  <2> QED
    BY <2>1, <2>2
<1> QED
  BY <1>1, <1>2, <1>3, <1>4, <1>5, TotalCounts

LEMMA DisaggregationAddsUp ==
    ASSUME DashboardSound, NEW v, InStep
    PROVE  Total(Disaggregation(v)) = Cardinality(PlacedYouth(v))
<1>1. PICK table : table = Disaggregation(v)
  OBVIOUS
<1>2. PICK P : P = PlacedYouth(v)
  OBVIOUS
<1>3. DOMAIN table = Traits /\ IsFiniteSet(Traits)
  BY <1>1, RowsAreFinite, ImageIsFinite DEF Disaggregation, Traits
<1>4. IsFiniteSet(P) /\ \A c \in P : TraitOf[c] \in Traits
  BY <1>2, PlacedAre DEF Traits
<1>5. ASSUME NEW t \in Traits
      PROVE  table[t].n = Cardinality({c \in P : TraitOf[c] = t})
  <2>1. table[t].n = Cardinality({c \in YouthOf(v) : TraitOf[c] = t} \cap PlacedYouth(v))
    BY <1>1 DEF Disaggregation, Rate
  <2>2. {c \in YouthOf(v) : TraitOf[c] = t} \cap PlacedYouth(v) = {c \in P : TraitOf[c] = t}
    BY <1>2, PlacedAre
  <2> QED
    BY <2>1, <2>2
<1> QED
  BY <1>1, <1>2, <1>3, <1>4, <1>5, TotalCounts

LEMMA WoredasAddUp ==
    ASSUME DashboardSound, NEW v, InStep
    PROVE  Total(WoredaComparison(v)) = Cardinality(PlacedYouth(v))
<1>1. PICK table : table = WoredaComparison(v)
  OBVIOUS
<1>2. PICK P : P = PlacedYouth(v)
  OBVIOUS
<1>3. PICK class : class = [c \in Client |-> client[c].home]
  OBVIOUS
<1>4. PICK T : T = {client[c].home : c \in YouthOf(v)}
  OBVIOUS
<1>5. DOMAIN table = T /\ IsFiniteSet(T)
  <2>1. YouthOf(v) \in SUBSET Client
    BY DEF YouthOf
  <2>2. IsFiniteSet(YouthOf(v))
    BY <2>1, RowsAreFinite, FS_Subset
  <2>3. T = {class[c] : c \in YouthOf(v)}
    BY <1>3, <1>4, <2>1
  <2>4. IsFiniteSet(T)
    BY <2>2, <2>3, ImageIsFinite
  <2> QED
    BY <1>1, <1>4, <2>4 DEF WoredaComparison
<1>6. IsFiniteSet(P) /\ P \subseteq Client /\ P \subseteq YouthOf(v) /\ \A c \in P : class[c] \in T
  BY <1>2, <1>3, <1>4, PlacedAre
<1>7. \A s \in Placements(v) : slip[s].of \in P /\ client[slip[s].of].filed = client[slip[s].of].home
  <2>1. \A s \in Placements(v) : slip[s].of \in P /\ slip[s].of \in Client /\ slip[s] # NoSlip /\ s \in Slip
    BY <1>2, PlacedAre DEF PlacedYouth, Placements, SlipsOf
  <2>2. \A s \in Placements(v) : client[slip[s].of].opened # Never
    BY <2>1 DEF DashboardSound, SlipsSound, SlipTrue
  <2> QED
    BY <2>1, <2>2 DEF InStep
<1>8. ASSUME NEW t \in T
      PROVE  table[t].n = Cardinality({c \in P : class[c] = t})
  <2>1. table[t].n = Cardinality({slip[s].of : s \in {s \in Placements(v) : client[slip[s].of].filed = t}})
    BY <1>1, <1>4 DEF WoredaComparison, Rate, CountYouths
  <2>2. {slip[s].of : s \in {s \in Placements(v) : client[slip[s].of].filed = t}} = {c \in P : class[c] = t}
    BY <1>2, <1>3, <1>6, <1>7 DEF PlacedYouth
  <2> QED
    BY <2>1, <2>2
<1> QED
  BY <1>1, <1>2, <1>5, <1>6, <1>8, TotalCounts

LEMMA FirstIsADay ==
    ASSUME DashboardSound, NEW v, NEW c \in PlacedYouth(v)
    PROVE  FirstPlaced(v, c) \in Nat
<1> DEFINE S == {slip[s].ended : s \in {q \in Placements(v) : slip[q].of = c}}
<1>1. S # {} /\ S \in SUBSET Nat
  BY PlacedAre DEF PlacedYouth
<1>2. \E m \in S : \A k \in S : m <= k
  BY <1>1, LeastNat
<1>3. FirstPlaced(v, c) \in S
  BY <1>2 DEF FirstPlaced, Min
<1> QED
  BY <1>1, <1>3

LEMMA SeriesAddsUp ==
    ASSUME DashboardSound, NEW v
    PROVE  Cumulative(v) = Cardinality({c \in PlacedYouth(v) : Month(FirstPlaced(v, c)) <= Month(now)})
<1>1. PICK start : start = Month(now) - (Window - 1)
  OBVIOUS
<1>2. PICK P : P = PlacedYouth(v)
  OBVIOUS
<1>3. PICK m : m = [c \in P |-> Month(FirstPlaced(v, c))]
  OBVIOUS
<1>4. PICK last : last = Month(now)
  OBVIOUS
<1>5. last \in Int /\ start \in Int /\ start <= last /\ \A c \in P : m[c] \in Int
  <2>1. MonthDays \in Nat \ {0} /\ Window \in Nat \ {0} /\ now \in Nat
    BY DashboardAssumption DEF DashboardSound
  <2>2. \A d \in Nat : Month(d) \in Int
    BY <2>1 DEF Month
  <2>3. \A c \in P : m[c] \in Int
    BY <1>2, <1>3, <2>2, FirstIsADay
  <2> QED
    BY <1>1, <1>4, <2>1, <2>2, <2>3
<1>6. PICK a, b, u : /\ a = {c \in P : m[c] < start} /\ b = {c \in P : m[c] \in start .. last}
                     /\ u = {c \in P : m[c] <= last}
  OBVIOUS
<1>7. u = a \cup b /\ a \cap b = {} /\ a \in SUBSET P /\ b \in SUBSET P
  BY <1>5, <1>6
<1>8. IsFiniteSet(a) /\ IsFiniteSet(b)
  <2>1. IsFiniteSet(P)
    BY <1>2, PlacedAre
  <2> QED
    BY <1>7, <2>1, FS_Subset
<1>9. Cardinality(u) = Cardinality(a) + Cardinality(b)
  <2>1. Cardinality(a \cup b) = Cardinality(a) + Cardinality(b) - Cardinality(a \cap b)
    BY <1>8, FS_Union
  <2>2. Cardinality(a) \in Nat /\ Cardinality(b) \in Nat /\ Cardinality(a \cap b) = 0
    BY <1>7, <1>8, FS_CardinalityType, FS_EmptySet
  <2> QED
    BY <1>7, <2>1, <2>2
<1>10. CarriedIn(v, start) = Cardinality(a)
  <2>1. {c \in PlacedYouth(v) : Month(FirstPlaced(v, c)) < start} = a
    BY <1>2, <1>3, <1>6
  <2> QED
    BY <2>1 DEF CarriedIn
<1>11. Cumulative(v) = CarriedIn(v, start) + Cardinality(b)
  <2>1. {c \in PlacedYouth(v) : Month(FirstPlaced(v, c)) \in start .. Month(now)} = b
    BY <1>2, <1>3, <1>4, <1>6
  <2> QED
    BY <1>1, <2>1 DEF Cumulative
<1>12. {c \in PlacedYouth(v) : Month(FirstPlaced(v, c)) <= Month(now)} = u
  BY <1>2, <1>3, <1>4, <1>6
<1> QED
  BY <1>9, <1>10, <1>11, <1>12

LEMMA HeadlineAlways ==
    ASSUME DashboardSound
    PROVE  OneHeadline
BY SplitAddsUp, DisaggregationAddsUp, WoredasAddUp, SeriesAddsUp DEF OneHeadline

-----------------------------------------------------------------------------
(* The funnel.                                                             *)

\* Every gate lets through only youths that the gate before it let through.
LEMMA GatesNest ==
    ASSUME DashboardSound, NEW v, NEW i \in 1 .. Len(Gates) - 1
    PROVE  Reached(v, Gates[i + 1]) \subseteq Reached(v, Gates[i])
<1>1. \A s \in Slip : slip[s].of \in Client =>
          /\ slip[s] # NoSlip /\ client[slip[s].of].opened # Never
          /\ slip[s].status = "COMPLETED" => slip[s].confirmed # Never
  <2>1. NoSlip.of \notin Client
    BY DashboardAssumption DEF NoSlip
  <2> QED
    BY <2>1 DEF DashboardSound, SlipsSound, SlipTrue
<1> SUFFICES ASSUME NEW c \in Reached(v, Gates[i + 1])
             PROVE  c \in Reached(v, Gates[i])
  OBVIOUS
<1>2. c \in YouthOf(v) /\ c \in Client
  BY DEF Reached, YouthOf
<1>3. i \in 1 .. 4
  BY DEF Gates
<1>4. CASE i = 1
  <2>1. Gates[i] = "registered"
    BY <1>4 DEF Gates
  <2> QED
    BY <1>2, <2>1 DEF Reached
<1>5. CASE i = 2
  <2>1. Gates[i] = "case_opened" /\ Gates[i + 1] = "referred"
    BY <1>5 DEF Gates
  <2>2. \E s \in Slip : slip[s].of = c
    BY <2>1 DEF Reached
  <2> QED
    BY <1>1, <1>2, <2>1, <2>2 DEF Reached
<1>6. CASE i = 3
  <2>1. Gates[i] = "referred" /\ Gates[i + 1] = "partner_confirmed"
    BY <1>6 DEF Gates
  <2>2. \E s \in Slip : slip[s].of = c
    BY <2>1 DEF Reached
  <2> QED
    BY <1>2, <2>1, <2>2 DEF Reached
<1>7. CASE i = 4
  <2>1. Gates[i] = "partner_confirmed" /\ Gates[i + 1] = "closed_successfully"
    BY <1>7 DEF Gates
  <2>2. PICK s \in Slip : slip[s].of = c /\ slip[s].status = "COMPLETED"
    BY <2>1 DEF Reached
  <2>3. slip[s].confirmed # Never /\ slip[s].status \in ConfirmedStatuses
    BY <1>1, <1>2, <2>2 DEF ConfirmedStatuses
  <2> QED
    BY <1>2, <2>1, <2>2, <2>3 DEF Reached
<1> QED
  BY <1>3, <1>4, <1>5, <1>6, <1>7

LEMMA FunnelAlways ==
    ASSUME DashboardSound
    PROVE  RowsNest
<1> SUFFICES ASSUME NEW v \in Viewer, NEW i \in 1 .. Len(Gates) - 1
             PROVE  Lost(v, i) >= 0
  BY DEF RowsNest
<1>1. PICK a, b : a = Reached(v, Gates[i]) /\ b = Reached(v, Gates[i + 1])
  OBVIOUS
<1>2. b \subseteq a /\ IsFiniteSet(a)
  <2>1. a \in SUBSET Client
    BY <1>1 DEF Reached, YouthOf
  <2> QED
    BY <1>1, <2>1, GatesNest, RowsAreFinite, FS_Subset
<1>3. IsFiniteSet(b) /\ Cardinality(b) <= Cardinality(a)
  BY <1>2, FS_Subset
<1>4. Cardinality(a) \in Nat /\ Cardinality(b) \in Nat
  BY <1>2, <1>3, FS_CardinalityType
<1> QED
  BY <1>1, <1>3, <1>4 DEF Lost

\* For every viewer, and whatever youths move, referrals end and outcomes are
\* dated: the headline, its split, the tables and the series are one number of
\* youths, and no gate of the funnel gains any.
THEOREM FiguresAreOne == DashboardSpec => []FiguresAgree
<1>1. DashboardSound => FiguresAgree
  BY HeadlineAlways, FunnelAlways DEF FiguresAgree
<1> QED
  BY <1>1, DashboardAlways, PTL

-----------------------------------------------------------------------------
(* The rows of a savings group.                                            *)

StaySort == [who : Member, from : Nat, to : Nat]
LoanSort == [status : {"DISBURSED", "REPAID", "WRITTEN_OFF"}, batch : Nat, due : Nat,
             principal : Nat, repaid : Nat]

Covers(v, d) == v.from <= d /\ d < v.to

\* The versions follow each other, and the last has no end.
BylawsSound ==
    /\ bylaws \in Seq(Version) /\ Len(bylaws) > 0
    /\ bylaws[Len(bylaws)].to = Open
    /\ \A i, j \in 1 .. Len(bylaws) : i < j => bylaws[i].to <= bylaws[j].from

StaysSound == stays \subseteq StaySort
\* The meetings of a day are told apart by how many were held before.
OnDay(S, d) == {m \in S : m.held = d}
MeetingsSound ==
    /\ IsFiniteSet(meetings)
    /\ \A m \in meetings : /\ m.held \in Date /\ m.saved \in [Member -> Nat]
                           /\ m.nth \in Nat /\ m.nth < Cardinality(OnDay(meetings, m.held))
LoansSound ==
    /\ loans \in Seq(LoanSort)
    /\ \A l \in 1 .. Len(loans) : loans[l].repaid <= loans[l].principal

\* A group that never met has lent nothing, and nothing puts it at risk.
QuietSound ==
    meetings = {} => standing # "AT_RISK" /\ \A l \in 1 .. Len(loans) : Owed(l) = 0

ReadinessSound ==
    /\ day \in Date /\ study \in Studies /\ standing \in operating
    /\ BylawsSound /\ StaysSound /\ MeetingsSound /\ LoansSound /\ QuietSound

LEMMA StudiesAre ==
    ASSUME study \in Studies
    PROVE  /\ study.until \in Date /\ study.until \in Nat /\ study.sums \subseteq Nat
           /\ study.cadences \subseteq Cadence /\ study.sums \subseteq Sum /\ study.women \subseteq Member
           /\ Named \subseteq Date /\ study.starts \subseteq Date /\ study.global \in GlobalType
<1>1. study \in Study /\ Horizon \in Nat
  BY ReadinessAssumption
<1>2. study.until \in 0 .. Horizon /\ study.sums \subseteq Sum
  BY <1>1 DEF Study
<1>3. study.cadences \subseteq Cadence /\ study.women \subseteq Member
  BY <1>1 DEF Study
<1>4. study.starts \subseteq 0 .. Horizon /\ study.global \in GlobalType
  BY <1>1 DEF Study
<1> QED
  BY <1>1, <1>2, <1>3, <1>4, ReadinessAssumption DEF Date, Named

LEMMA ReadinessBegins ==
    ASSUME ReadinessInit
    PROVE  ReadinessSound
<1>1. Horizon \in Nat /\ Sum \subseteq Nat /\ study \in Studies
  BY ReadinessAssumption DEF ReadinessInit
<1>2. PICK c \in study.cadences, s \in study.sums, first \in study.starts :
          bylaws = <<[from |-> first, to |-> Open, contribution |-> s, cadence |-> c]>>
  BY DEF ReadinessInit
<1>3. PICK v : v = [from |-> first, to |-> Open, contribution |-> s, cadence |-> c]
  OBVIOUS
<1>4. v \in Version /\ v.to = Open
  BY <1>1, <1>3, StudiesAre DEF Version, Date, Open
<1>5. Len(bylaws) = 1 /\ bylaws[1] = v /\ bylaws \in Seq(Version)
  BY <1>2, <1>3, <1>4
<1>6. BylawsSound
  BY <1>4, <1>5 DEF BylawsSound
<1>7. StaysSound
  <2>1. PICK w \in study.women : stays = {[who |-> w, from |-> 0, to |-> Open]}
    BY DEF ReadinessInit
  <2> QED
    BY <1>1, <2>1, StudiesAre DEF StaysSound, StaySort, Open
<1>8. MeetingsSound /\ LoansSound /\ QuietSound
  BY FS_EmptySet DEF ReadinessInit, MeetingsSound, LoansSound, QuietSound
<1> QED
  BY <1>1, <1>6, <1>7, <1>8 DEF ReadinessInit, ReadinessSound, Date, operating

\* What the members owe, as a fold and as the function it computes.
TotalOwed(S) == SumOver(S, Owed)

LEMMA OwedAdds ==
    ASSUME NEW S, IsFiniteSet(S), NEW F, \A l \in S : F[l] = Owed(l)
    PROVE  \E h : Adds(h, S, F) /\ TotalOwed(S) = h[S]
<1> DEFINE pick(s) == CHOOSE x \in s : TRUE
           Is(h) == h = [s \in SUBSET S |-> IF s = {} THEN 0 ELSE Owed(pick(s)) + h[s \ {pick(s)}]]
<1>1. TotalOwed(S) = (CHOOSE h : Is(h))[S]
  BY DEF TotalOwed, SumOver, FoldSet, MapThenFoldSet
<1>2. \A s \in SUBSET S : s # {} => F[pick(s)] = Owed(pick(s))
  OBVIOUS
<1>3. \A h : Adds(h, S, F) <=> Is(h)
  <2> SUFFICES ASSUME NEW h
               PROVE  Adds(h, S, F) <=> Is(h)
    OBVIOUS
  <2>1. Adds(h, S, F)
           <=> h = [s \in SUBSET S |-> IF s = {} THEN 0 ELSE F[pick(s)] + h[s \ {pick(s)}]]
    BY DEF Adds
  <2> HIDE DEF pick
  <2>2. [s \in SUBSET S |-> IF s = {} THEN 0 ELSE F[pick(s)] + h[s \ {pick(s)}]]
           = [s \in SUBSET S |-> IF s = {} THEN 0 ELSE Owed(pick(s)) + h[s \ {pick(s)}]]
    BY <1>2
  <2> QED
    BY <2>1, <2>2
<1>4. PICK h : Adds(h, S, F)
  BY AddsExists
<1> HIDE DEF Is
<1>5. Is(CHOOSE g : Is(g))
  BY <1>3, <1>4
<1> QED
  BY <1>1, <1>3, <1>5

\* Loans of which nothing is owed may be left out, whatever else they are.
LEMMA OwedLeavesOut ==
    ASSUME NEW S, IsFiniteSet(S), \A l \in S : Owed(l) \in Int, NEW Z \in SUBSET S,
           \A l \in S \ Z : Owed(l) = 0
    PROVE  TotalOwed(S) = TotalOwed(Z)
<1>1. PICK F : F = [l \in S |-> Owed(l)]
  OBVIOUS
<1>2. PICK E : E = [l \in Z |-> Owed(l)]
  OBVIOUS
<1>3. /\ F \in [S -> Int] /\ \A l \in S : F[l] = Owed(l)
      /\ E \in [Z -> Int] /\ \A l \in Z : E[l] = F[l] /\ E[l] = Owed(l)
      /\ \A l \in S \ Z : F[l] = 0
  BY <1>1, <1>2
<1>4. IsFiniteSet(Z)
  BY FS_Subset
<1>5. PICK h : Adds(h, S, F) /\ TotalOwed(S) = h[S]
  BY <1>3, OwedAdds
<1>6. PICK g : Adds(g, Z, E) /\ TotalOwed(Z) = g[Z]
  BY <1>3, <1>4, OwedAdds
<1>7. h[S] = g[Z]
  BY <1>3, <1>5, <1>6, AddsZeros
<1> QED
  BY <1>5, <1>6, <1>7

LEMMA OwedBounds ==
    ASSUME NEW S, IsFiniteSet(S), \A l \in S : Owed(l) \in Nat
    PROVE  TotalOwed(S) \in Nat /\ \A l \in S : Owed(l) <= TotalOwed(S)
<1>1. PICK F : F = [l \in S |-> Owed(l)]
  OBVIOUS
<1>2. F \in [S -> Int] /\ \A l \in S : F[l] = Owed(l) /\ F[l] >= 0
  BY <1>1
<1>3. PICK h : Adds(h, S, F) /\ TotalOwed(S) = h[S]
  BY <1>2, OwedAdds
<1>4. h[S] \in Nat /\ \A l \in S : F[l] <= h[S]
  BY <1>2, <1>3, AddsGrow
<1> QED
  BY <1>2, <1>3, <1>4

LEMMA NothingOwed == TotalOwed({}) = 0
<1>1. IsFiniteSet({})
  BY FS_EmptySet
<1>2. PICK F : F = [l \in {} |-> 0]
  OBVIOUS
<1>3. F \in [{} -> Int] /\ \A l \in {} : F[l] = Owed(l)
  BY <1>2
<1>4. PICK h : Adds(h, {}, F) /\ TotalOwed({}) = h[{}]
  BY <1>1, <1>3, OwedAdds
<1>5. h[{}] = 0
  BY <1>1, <1>3, <1>4, AddsStep
<1> QED
  BY <1>4, <1>5

LEMMA NothingSaved ==
    ASSUME meetings = {}
    PROVE  fund_etb = 0 - TotalOwed(DOMAIN loans)
<1>1. SumOver({}, LAMBDA m : SumOver(Member, LAMBDA w : m.saved[w])) = 0
  BY DEF SumOver, FoldSet, MapThenFoldSet
<1> QED
  BY <1>1 DEF fund_etb, TotalOwed, SumOver

LEMMA LoansAre ==
    ASSUME LoansSound
    PROVE  /\ DOMAIN loans = 1 .. Len(loans) /\ Len(loans) \in Nat /\ IsFiniteSet(DOMAIN loans)
           /\ \A l \in DOMAIN loans : Owed(l) \in Nat /\ loans[l].due \in Nat
<1>1. loans \in Seq(LoanSort)
  BY DEF LoansSound
<1>2. DOMAIN loans = 1 .. Len(loans) /\ Len(loans) \in Nat
  BY <1>1
<1>3. IsFiniteSet(1 .. Len(loans))
  BY <1>2, FS_Interval
<1>4. \A l \in 1 .. Len(loans) : loans[l] \in LoanSort /\ loans[l].repaid <= loans[l].principal
  BY <1>1, <1>2 DEF LoansSound
<1>5. \A l \in 1 .. Len(loans) : Owed(l) \in Nat /\ loans[l].due \in Nat
  BY <1>4 DEF Owed, LoanSort
<1> QED
  BY <1>2, <1>3, <1>5

\* A group that never met and owes nothing has a fund of nothing and nothing
\* to be at risk for.
LEMMA QuietGroup ==
    ASSUME LoansSound, meetings = {}, \A l \in 1 .. Len(loans) : Owed(l) = 0
    PROVE  fund_etb = 0 /\ risk_reasons = {}
<1>1. fund_etb = 0
  <2>1. TotalOwed(DOMAIN loans) = TotalOwed({})
    <3>1. \A l \in DOMAIN loans : Owed(l) \in Int /\ Owed(l) = 0
      BY LoansAre
    <3> QED
      BY <3>1, LoansAre, OwedLeavesOut
  <2> QED
    BY <2>1, NothingOwed, NothingSaved
<1>2. Held = {} /\ recent = {}
  <2>1. Held = {}
    BY DEF Held
  <2>2. Windows({}, Rule.rolling) = {{}}
    <3>1. Cardinality({}) = 0
      BY FS_EmptySet
    <3>2. Rule.rolling \in Nat \ {0}
      BY ReadinessAssumption DEF RuleType
    <3>3. PICK n : n = Rule.rolling
      OBVIOUS
    <3>4. {} \in Windows({}, n)
      BY <3>1, <3>2, <3>3 DEF Windows
    <3>5. \A W \in Windows({}, n) : W = {}
      BY DEF Windows
    <3> QED
      BY <3>3, <3>4, <3>5
  <2> QED
    BY <2>1, <2>2 DEF recent, Recent
<1>3. attendance_pct = Unmeasured
  <2>1. SumOver({}, LAMBDA m : Cardinality(RosterOn(m.held))) = 0
    BY DEF SumOver, FoldSet, MapThenFoldSet
  <2>2. Expected(recent) = 0
    BY <1>2, <2>1 DEF Expected, SumOver
  <2> QED
    BY <2>2 DEF attendance_pct, Pct
<1>4. par30_pct = 0
  <2>1. OwedLoans = {}
    BY LoansAre DEF OwedLoans
  <2> QED
    BY <2>1 DEF par30_pct
<1>5. ~MissedTwo
  BY <1>2 DEF MissedTwo
<1>6. Rule.parCeiling \in Nat
  BY ReadinessAssumption DEF RuleType
<1>7. \A r \in Figured : r \notin risk_reasons
  BY <1>3, <1>4, <1>5, <1>6 DEF risk_reasons, Figured
<1> QED
  BY <1>1, <1>7 DEF risk_reasons

-----------------------------------------------------------------------------
(* The steps.                                                              *)

LEMMA RecordKeeps ==
    ASSUME ReadinessSound, NEW from \in Named, NEW s \in study.sums, NEW c \in study.cadences,
           RecordBylaws(from, s, c)
    PROVE  /\ BylawsSound'
           /\ \A d \in Date : Covered(d)' <=> Covered(d)
           /\ \A d \in Date : d < from /\ Covered(d) => \E v \in ToSet(bylaws), w \in ToSet(bylaws') :
                 Covers(v, d) /\ Covers(w, d) /\ v.contribution = w.contribution
           /\ current_bylaw'.from = from
<1>1. /\ BylawsSound /\ bylaws \in Seq(Version) /\ Horizon \in Nat
      /\ from \in Date /\ s \in Sum /\ c \in Cadence
  BY ReadinessAssumption, StudiesAre DEF ReadinessSound, BylawsSound
<1>2. PICK n : n = Len(bylaws)
  OBVIOUS
<1>3. n \in Nat \ {0} /\ DOMAIN bylaws = 1 .. n /\ \A i \in 1 .. n : bylaws[i] \in Version
  BY <1>1, <1>2 DEF BylawsSound
<1>4. PICK last : last = [bylaws[n] EXCEPT !.to = from]
  OBVIOUS
<1>5. PICK v : v = [from |-> from, to |-> Open, contribution |-> s, cadence |-> c]
  OBVIOUS
<1>6. PICK b : b = [bylaws EXCEPT ![n] = last]
  OBVIOUS
<1>7. bylaws' = Append(b, v) /\ bylaws[n].from < from
  <2>1. current_bylaw = bylaws[n]
    BY <1>2 DEF current_bylaw, Last
  <2> QED
    BY <1>2, <1>3, <1>4, <1>5, <1>6, <2>1 DEF RecordBylaws
<1>8. /\ last \in Version /\ last.from = bylaws[n].from /\ last.to = from
      /\ last.contribution = bylaws[n].contribution
      /\ v \in Version /\ v.from = from /\ v.to = Open
  BY <1>1, <1>3, <1>4, <1>5 DEF Version, Date
<1>9. b \in Seq(Version) /\ Len(b) = n /\ \A i \in 1 .. n : b[i] = IF i = n THEN last ELSE bylaws[i]
  BY <1>1, <1>2, <1>3, <1>6, <1>8
<1>10. /\ bylaws' \in Seq(Version) /\ Len(bylaws') = n + 1 /\ bylaws'[n + 1] = v
       /\ \A i \in 1 .. n : bylaws'[i] = IF i = n THEN last ELSE bylaws[i]
  BY <1>7, <1>8, <1>9, AppendProperties
<1>11. \A i, j \in 1 .. n : i < j => bylaws[i].to <= bylaws[j].from
  BY <1>1, <1>2 DEF BylawsSound
<1>12. bylaws[n].to = Open /\ \A i \in 1 .. n : bylaws[i].from \in Date /\ bylaws[i].to \in Date \cup {Open}
  BY <1>1, <1>2, <1>3 DEF BylawsSound, Version
<1>13. \A i \in 1 .. n : bylaws[i].to \in Nat /\ bylaws[i].from \in Nat /\ from \in Nat /\ Open \in Nat /\ from < Open
  BY <1>1, <1>12 DEF Date, Open
<1>14. \A i, j \in 1 .. n + 1 : i < j => bylaws'[i].to <= bylaws'[j].from
  <2> SUFFICES ASSUME NEW i \in 1 .. n + 1, NEW j \in 1 .. n + 1, i < j
               PROVE  bylaws'[i].to <= bylaws'[j].from
    OBVIOUS
  <2>1. i \in 1 .. n /\ n \in 1 .. n
    BY <1>3
  <2>2. CASE j = n + 1
    <3>1. CASE i = n
      BY <1>8, <1>10, <1>13, <2>1, <2>2, <3>1
    <3>2. CASE i # n
      <4>1. i < n /\ bylaws[i].to <= bylaws[n].from
        BY <1>3, <1>11, <2>1, <3>2
      <4> QED
        BY <1>7, <1>8, <1>10, <1>13, <2>1, <2>2, <3>2, <4>1
    <3> QED
      BY <3>1, <3>2
  <2>3. CASE j # n + 1
    <3>1. j \in 1 .. n /\ i # n
      BY <1>3, <2>1, <2>3
    <3>2. bylaws'[i] = bylaws[i] /\ bylaws'[j].from = bylaws[j].from
      BY <1>8, <1>10, <2>1, <3>1
    <3> QED
      BY <1>11, <2>1, <3>1, <3>2
  <2> QED
    BY <2>2, <2>3
<1>15. ASSUME NEW d \in Date, d < from, NEW i \in 1 .. n
       PROVE  /\ Covers(bylaws'[i], d) <=> Covers(bylaws[i], d)
              /\ bylaws'[i].contribution = bylaws[i].contribution
  <2>1. CASE i = n
    <3>1. d \in Nat /\ d < Open
      BY <1>1 DEF Date, Open
    <3> QED
      BY <1>8, <1>10, <1>12, <1>15, <2>1, <3>1 DEF Covers
  <2>2. CASE i # n
    BY <1>10, <2>2
  <2> QED
    BY <2>1, <2>2
<1>16. /\ \A d : Covered(d) <=> \E i \in 1 .. n : Covers(bylaws[i], d)
       /\ \A d : Covered(d)' <=> \E i \in 1 .. n + 1 : Covers(bylaws'[i], d)
  <2>1. \A d : Covered(d) <=> \E i \in 1 .. n : Covers(bylaws[i], d)
    BY <1>3 DEF Covered, Covers, ToSet
  <2>2. DOMAIN bylaws' = 1 .. n + 1
    BY <1>3, <1>10
  <2>3. \A d : Covered(d)' <=> \E i \in 1 .. n + 1 : Covers(bylaws'[i], d)
    BY <2>2 DEF Covered, Covers, ToSet
  <2> QED
    BY <2>1, <2>3
<1>17. BylawsSound'
  BY <1>3, <1>8, <1>10, <1>14 DEF BylawsSound
<1>18. current_bylaw'.from = from
  BY <1>3, <1>8, <1>10 DEF current_bylaw, Last
<1>19. ASSUME NEW d \in Date
       PROVE  Covered(d)' <=> Covered(d)
  <2>1. CASE d < from
    <3>1. ~ Covers(v, d) /\ \A i \in 1 .. n + 1 : i \in 1 .. n \/ i = n + 1
      BY <1>1, <1>3, <1>8, <2>1 DEF Covers, Date
    <3>2. \A i \in 1 .. n : i \in 1 .. n + 1
      BY <1>3
    <3> QED
      BY <1>10, <1>15, <1>16, <2>1, <3>1, <3>2
  <2>2. CASE ~ d < from
    <3>1. d \in Nat /\ from <= d /\ d < Open
      BY <1>1, <2>2 DEF Date, Open
    <3>2. Covers(bylaws[n], d) /\ Covers(bylaws'[n + 1], d)
      BY <1>3, <1>7, <1>8, <1>10, <1>12, <1>13, <3>1 DEF Covers
    <3> QED
      BY <1>3, <1>16, <3>2
  <2> QED
    BY <2>1, <2>2
<1>20. ASSUME NEW d \in Date, d < from, Covered(d)
       PROVE  \E u \in ToSet(bylaws), w \in ToSet(bylaws') :
                 Covers(u, d) /\ Covers(w, d) /\ u.contribution = w.contribution
  <2>1. PICK i \in 1 .. n : Covers(bylaws[i], d)
    BY <1>16, <1>20
  <2>2. bylaws[i] \in ToSet(bylaws)
    BY <1>3 DEF ToSet
  <2>3. bylaws'[i] \in ToSet(bylaws')
    <3>1. DOMAIN bylaws' = 1 .. n + 1 /\ i \in 1 .. n + 1
      BY <1>3, <1>10
    <3> QED
      BY <3>1 DEF ToSet
  <2> QED
    BY <1>15, <1>20, <2>1, <2>2, <2>3
<1> QED
  BY <1>17, <1>18, <1>19, <1>20

LEMMA RepayKeeps ==
    ASSUME ReadinessSound, NEW l \in DOMAIN loans, NEW amount \in study.sums, Repay(l, amount)
    PROVE  LoansSound' /\ meetings # {}
<1>1. LoansSound /\ loans \in Seq(LoanSort) /\ amount \in Nat
  BY StudiesAre DEF ReadinessSound, LoansSound
<1>2. PICK n : n = Len(loans)
  OBVIOUS
<1>3. n \in Nat /\ DOMAIN loans = 1 .. n /\ l \in 1 .. n /\ \A i \in 1 .. n : loans[i] \in LoanSort
  BY <1>1, <1>2
<1>4. /\ loans[l].repaid \in Nat /\ loans[l].principal \in Nat /\ loans[l].repaid <= loans[l].principal
      /\ amount > 0 /\ amount <= loans[l].principal - loans[l].repaid
  BY <1>1, <1>2, <1>3 DEF Repay, Owed, LoansSound, LoanSort
<1>5. PICK paid : paid = loans[l].repaid + amount
  OBVIOUS
<1>6. PICK h : h = [loans EXCEPT ![l].repaid = paid]
  OBVIOUS
<1>7. PICK to : to = IF amount = Owed(l) THEN "REPAID" ELSE h[l].status
  OBVIOUS
<1>8. loans' = [h EXCEPT ![l].status = to]
  BY <1>5, <1>6, <1>7 DEF Repay
<1>9. PICK r : r = [[loans[l] EXCEPT !.repaid = paid] EXCEPT !.status = to]
  OBVIOUS
<1>10. loans' = [loans EXCEPT ![l] = r]
  BY <1>3, <1>6, <1>8, <1>9 DEF LoanSort
<1>11. to \in {"DISBURSED", "REPAID", "WRITTEN_OFF"}
  BY <1>3, <1>6, <1>7 DEF LoanSort
<1>12. r \in LoanSort /\ r.repaid = paid /\ r.principal = loans[l].principal
  <2>1. paid \in Nat /\ loans[l] \in LoanSort
    BY <1>1, <1>3, <1>4, <1>5
  <2> QED
    BY <1>9, <1>11, <2>1 DEF LoanSort
<1>13. loans' \in Seq(LoanSort) /\ Len(loans') = n
  BY <1>1, <1>2, <1>3, <1>10, <1>12
<1>14. LoansSound'
  BY <1>1, <1>2, <1>3, <1>4, <1>5, <1>10, <1>12, <1>13 DEF LoansSound
<1>15. meetings # {}
  <2>1. Owed(l) # 0
    BY <1>1, <1>4 DEF Owed
  <2> QED
    BY <1>2, <1>3, <2>1 DEF ReadinessSound, QuietSound
<1> QED
  BY <1>14, <1>15

LEMMA WriteOffKeeps ==
    ASSUME ReadinessSound, NEW l \in DOMAIN loans, WriteOff(l)
    PROVE  LoansSound' /\ Len(loans') = Len(loans) /\ \A i \in 1 .. Len(loans) : Owed(i)' = Owed(i)
<1>1. LoansSound /\ loans \in Seq(LoanSort)
  BY DEF ReadinessSound, LoansSound
<1>2. PICK n : n = Len(loans)
  OBVIOUS
<1>3. n \in Nat /\ DOMAIN loans = 1 .. n /\ l \in 1 .. n /\ \A i \in 1 .. n : loans[i] \in LoanSort
  BY <1>1, <1>2
<1>4. PICK r : r = [loans[l] EXCEPT !.status = "WRITTEN_OFF"]
  OBVIOUS
<1>5. loans' = [loans EXCEPT ![l] = r]
  BY <1>3, <1>4 DEF WriteOff
<1>6. r \in LoanSort /\ r.repaid = loans[l].repaid /\ r.principal = loans[l].principal
  BY <1>3, <1>4 DEF LoanSort
<1>7. loans' \in Seq(LoanSort) /\ Len(loans') = n
  BY <1>1, <1>2, <1>3, <1>5, <1>6
<1>8. \A i \in 1 .. n : loans'[i].repaid = loans[i].repaid /\ loans'[i].principal = loans[i].principal
  BY <1>3, <1>5, <1>6
<1>9. \A i \in 1 .. n : Owed(i)' = Owed(i)
  BY <1>8 DEF Owed
<1> QED
  BY <1>1, <1>2, <1>7, <1>8, <1>9 DEF LoansSound

LEMMA LendKeeps ==
    ASSUME ReadinessSound, NEW principal \in study.sums, NEW by \in Named, Lend(principal, by)
    PROVE  LoansSound' /\ QuietSound'
<1>1. LoansSound /\ loans \in Seq(LoanSort) /\ principal \in Nat /\ by \in Nat
  BY StudiesAre, ReadinessAssumption DEF ReadinessSound, LoansSound, Date
<1>2. PICK n : n = Len(loans)
  OBVIOUS
<1>3. n \in Nat /\ DOMAIN loans = 1 .. n /\ \A i \in 1 .. n : loans[i] \in LoanSort
  BY <1>1, <1>2
<1>4. PICK batch : batch = IF loans = <<>> THEN 1 ELSE Last(loans).batch
  OBVIOUS
<1>5. batch \in Nat
  <2>1. CASE loans = <<>>
    BY <1>4, <2>1
  <2>2. CASE loans # <<>>
    <3>1. n \in 1 .. n
      BY <1>1, <1>2, <1>3, <2>2
    <3> QED
      BY <1>2, <1>3, <1>4, <2>2, <3>1 DEF Last, LoanSort
  <2> QED
    BY <2>1, <2>2
<1>6. PICK r : r = [status |-> "DISBURSED", batch |-> batch, due |-> by, principal |-> principal, repaid |-> 0]
  OBVIOUS
<1>7. r \in LoanSort /\ r.principal = principal /\ r.repaid = 0
  BY <1>1, <1>5, <1>6 DEF LoanSort
<1>8. loans' = Append(loans, r) /\ principal <= fund_etb /\ meetings' = meetings /\ standing' = standing
  BY <1>4, <1>6 DEF Lend
<1>9. /\ loans' \in Seq(LoanSort) /\ Len(loans') = n + 1 /\ loans'[n + 1] = r
      /\ \A i \in 1 .. n : loans'[i] = loans[i]
  BY <1>1, <1>2, <1>7, <1>8, AppendProperties
<1>10. LoansSound'
  BY <1>1, <1>2, <1>3, <1>7, <1>9 DEF LoansSound
<1>11. QuietSound'
  <2> SUFFICES ASSUME meetings = {}
               PROVE  standing # "AT_RISK" /\ \A l \in 1 .. n + 1 : Owed(l)' = 0
    BY <1>8, <1>9 DEF QuietSound
  <2>1. standing # "AT_RISK" /\ \A l \in 1 .. n : Owed(l) = 0
    BY <1>2 DEF ReadinessSound, QuietSound
  <2>2. principal = 0
    BY <1>1, <1>2, <1>8, <2>1, QuietGroup
  <2>3. \A l \in 1 .. n : Owed(l)' = 0
    BY <1>9, <2>1 DEF Owed
  <2>4. Owed(n + 1)' = 0
    BY <1>7, <1>9, <2>2 DEF Owed
  <2> QED
    BY <1>3, <2>1, <2>3, <2>4
<1> QED
  BY <1>10, <1>11

LEMMA MeetKeeps ==
    ASSUME ReadinessSound, NEW held \in Named, NEW came, NEW s \in Nat, Meet(held, came, s)
    PROVE  MeetingsSound' /\ meetings' # {} /\ meetings' # meetings
<1>1. PICK before : before = Cardinality(OnDay(meetings, held))
  OBVIOUS
<1>2. PICK m : m = [held |-> held, nth |-> before, came |-> came,
                    saved |-> [w \in Member |-> IF w \in came THEN s ELSE 0]]
  OBVIOUS
<1>3. /\ meetings' = meetings \cup {m}
      /\ m.held = held /\ held \in Date /\ m.nth = before /\ m.saved \in [Member -> Nat]
  BY <1>1, <1>2, StudiesAre DEF Meet, OnDay, ReadinessSound
<1>4. /\ IsFiniteSet(meetings)
      /\ \A q \in meetings : /\ q.held \in Date /\ q.saved \in [Member -> Nat]
                             /\ q.nth \in Nat /\ q.nth < Cardinality(OnDay(meetings, q.held))
  BY DEF ReadinessSound, MeetingsSound
<1>5. \A d : IsFiniteSet(OnDay(meetings, d)) /\ Cardinality(OnDay(meetings, d)) \in Nat
  BY <1>4, FS_Subset, FS_CardinalityType DEF OnDay
<1>6. m \notin meetings
  BY <1>1, <1>3, <1>4, <1>5
<1>7. Cardinality(OnDay(meetings', held)) = before + 1
  <2>1. OnDay(meetings', held) = OnDay(meetings, held) \cup {m} /\ m \notin OnDay(meetings, held)
    BY <1>3, <1>6 DEF OnDay
  <2> QED
    BY <1>1, <1>5, <2>1, FS_AddElement
<1>8. \A d : d # held => OnDay(meetings', d) = OnDay(meetings, d)
  BY <1>3 DEF OnDay
<1>9. IsFiniteSet(meetings')
  BY <1>3, <1>4, FS_AddElement
<1>10. ASSUME NEW q \in meetings'
       PROVE  /\ q.held \in Date /\ q.saved \in [Member -> Nat]
              /\ q.nth \in Nat /\ q.nth < Cardinality(OnDay(meetings', q.held))
  <2>1. before \in Nat
    BY <1>1, <1>5
  <2>2. CASE q = m
    BY <1>3, <1>7, <2>1, <2>2
  <2>3. CASE q # m
    <3>1. q \in meetings
      BY <1>3, <2>3
    <3>2. CASE q.held = held
      BY <1>1, <1>4, <1>7, <2>1, <3>1, <3>2
    <3>3. CASE q.held # held
      BY <1>4, <1>8, <3>1, <3>3
    <3> QED
      BY <3>2, <3>3
  <2> QED
    BY <2>2, <2>3
<1> QED
  BY <1>3, <1>6, <1>9, <1>10 DEF MeetingsSound, OnDay

\* A stay begins and ends today; no day that is past changes hands.
LEMMA JoinKeeps ==
    ASSUME ReadinessSound, NEW w \in Member, Join(w)
    PROVE  StaysSound' /\ \A d \in Nat : d < day => RosterOn(d)' = RosterOn(d)
<1>1. PICK s : s = [who |-> w, from |-> day, to |-> Open]
  OBVIOUS
<1>2. s \in StaySort /\ s.from = day /\ day \in Nat
  BY <1>1, ReadinessAssumption DEF ReadinessSound, StaySort, Date, Open
<1>3. stays' = stays \cup {s} /\ stays \subseteq StaySort
  BY <1>1 DEF Join, ReadinessSound, StaysSound
<1>4. ASSUME NEW d \in Nat, d < day
      PROVE  RosterOn(d)' = RosterOn(d)
  <2>1. {t \in stays' : t.from <= d /\ d < t.to} = {t \in stays : t.from <= d /\ d < t.to}
    BY <1>2, <1>3, <1>4
  <2> QED
    BY <2>1 DEF RosterOn
<1> QED
  BY <1>2, <1>3, <1>4 DEF StaysSound

LEMMA LeaveKeeps ==
    ASSUME ReadinessSound, NEW w \in Member, Leave(w)
    PROVE  StaysSound' /\ \A d \in Date : d < day => RosterOn(d)' = RosterOn(d)
<1>1. PICK s \in stays : s.who = w /\ s.to = Open /\ stays' = (stays \ {s}) \cup {[s EXCEPT !.to = day]}
  BY DEF Leave
<1>2. PICK r : r = [s EXCEPT !.to = day]
  OBVIOUS
<1>3. /\ stays \subseteq StaySort /\ s \in StaySort /\ day \in Nat /\ Horizon \in Nat
      /\ stays' = (stays \ {s}) \cup {r}
  BY <1>1, <1>2, ReadinessAssumption DEF ReadinessSound, StaysSound, Date
<1>4. r \in StaySort /\ r.who = s.who /\ r.from = s.from /\ r.to = day
  BY <1>2, <1>3 DEF StaySort
<1>5. ASSUME NEW d \in Date, d < day
      PROVE  RosterOn(d)' = RosterOn(d)
  <2>1. d \in Nat /\ d < Open /\ s.from \in Nat
    BY <1>3 DEF Date, Open, StaySort
  <2>2. (s.from <= d /\ d < s.to) <=> (r.from <= d /\ d < r.to)
    BY <1>1, <1>4, <1>5, <2>1
  <2>3. \A x : x \in RosterOn(d)' <=> \E t \in stays' : t.who = x /\ t.from <= d /\ d < t.to
    BY DEF RosterOn
  <2>4. \A x : x \in RosterOn(d) <=> \E t \in stays : t.who = x /\ t.from <= d /\ d < t.to
    BY DEF RosterOn
  <2>5. \A x : x \in RosterOn(d)' <=> x \in RosterOn(d)
    BY <1>3, <1>4, <2>2, <2>3, <2>4
  <2>6. RosterOn(d)' = {x \in RosterOn(d)' : TRUE} /\ RosterOn(d) = {x \in RosterOn(d) : TRUE}
    OBVIOUS
  <2> QED
    BY <2>5, <2>6
<1> QED
  BY <1>3, <1>4, <1>5 DEF StaysSound

\* One version covers a day, so it is the one that bylaw_on finds.
LEMMA OneCovers ==
    ASSUME NEW b \in Seq(Version), \A i, j \in 1 .. Len(b) : i < j => b[i].to <= b[j].from,
           NEW d \in Date, NEW v \in ToSet(b), Covers(v, d)
    PROVE  (CHOOSE x \in ToSet(b) : x.from <= d /\ d < x.to) = v
<1>1. DOMAIN b = 1 .. Len(b) /\ Len(b) \in Nat /\ \A i \in 1 .. Len(b) : b[i] \in Version
  OBVIOUS
<1>2. d \in Nat /\ \A i \in 1 .. Len(b) : b[i].from \in Nat /\ b[i].to \in Nat
  <2>1. Horizon \in Nat
    BY ReadinessAssumption
  <2>2. \A t \in Date : t \in Nat
    BY <2>1 DEF Date
  <2>3. \A t \in Date \cup {Open} : t \in Nat
    BY <2>1, <2>2 DEF Open
  <2>4. \A v1 \in Version : v1.from \in Date /\ v1.to \in Date \cup {Open}
    BY DEF Version
  <2> QED
    BY <1>1, <2>2, <2>3, <2>4
<1>3. PICK i \in 1 .. Len(b) : b[i] = v
  BY <1>1 DEF ToSet
<1>4. ASSUME NEW x \in ToSet(b), Covers(x, d)
      PROVE  x = v
  <2>1. PICK j \in 1 .. Len(b) : b[j] = x
    BY <1>1 DEF ToSet
  <2>2. ~ i < j /\ ~ j < i
    BY <1>2, <1>3, <1>4, <2>1 DEF Covers
  <2>3. i = j
    BY <1>1, <2>2
  <2> QED
    BY <1>3, <2>1, <2>3
<1>5. \A x \in ToSet(b) : x.from <= d /\ d < x.to <=> x = v
  BY <1>4 DEF Covers
<1> QED
  BY <1>5

LEMMA BylawIs ==
    ASSUME BylawsSound, NEW d \in Date, NEW v \in ToSet(bylaws), Covers(v, d), NEW other
    PROVE  BylawOn(d, other) = v
<1>1. PICK b : b = bylaws
  OBVIOUS
<1>2. b \in Seq(Version) /\ \A i, j \in 1 .. Len(b) : i < j => b[i].to <= b[j].from
  BY <1>1 DEF BylawsSound
<1>3. Covered(d)
  BY DEF Covered, Covers
<1> QED
  BY <1>1, <1>2, <1>3, OneCovers DEF BylawOn

\* The version of today, or the current one.
LEMMA BylawStands ==
    ASSUME BylawsSound
    PROVE  bylaw \in Version /\ current_bylaw \in Version
<1>1. /\ bylaws \in Seq(Version) /\ Len(bylaws) \in Nat \ {0}
      /\ DOMAIN bylaws = 1 .. Len(bylaws) /\ \A i \in 1 .. Len(bylaws) : bylaws[i] \in Version
  BY DEF BylawsSound
<1>2. current_bylaw \in Version
  BY <1>1 DEF current_bylaw, Last
<1>3. \A v \in ToSet(bylaws) : v \in Version
  BY <1>1 DEF ToSet
<1> QED
  BY <1>2, <1>3 DEF bylaw, BylawOn, Covered

\* A meeting of the past keeps whom it expected and what it asked of them.
Stands ==
    \A m \in meetings : m.held < day =>
        /\ RosterOn(m.held)' = RosterOn(m.held)
        /\ Covered(m.held)' <=> Covered(m.held)
        /\ IF Covered(m.held) THEN Required(m)' # Required(m) => current_bylaw'.from <= m.held
                              ELSE Required(m)' = bylaw'.contribution

LEMMA SameBylaws ==
    ASSUME UNCHANGED bylaws, NEW m
    PROVE  /\ Covered(m.held)' <=> Covered(m.held)
           /\ IF Covered(m.held) THEN Required(m)' = Required(m) ELSE Required(m)' = bylaw'.contribution
<1>1. Covered(m.held)' <=> Covered(m.held)
  BY DEF Covered
<1>2. CASE Covered(m.held)
  BY <1>1, <1>2 DEF Required, BylawOn
<1>3. CASE ~ Covered(m.held)
  BY <1>1, <1>3 DEF Required, BylawOn
<1> QED
  BY <1>1, <1>2, <1>3

LEMMA SameStays ==
    ASSUME UNCHANGED stays
    PROVE  \A d : RosterOn(d)' = RosterOn(d)
BY DEF RosterOn

LEMMA RefreshQuiet ==
    ASSUME ReadinessSound, Refresh
    PROVE  QuietSound' /\ standing' \in operating
<1>1. standing' \in operating
  BY DEF Refresh, NextStatus, ReadinessSound, operating
<1>2. QuietSound'
  <2> SUFFICES ASSUME meetings = {}
               PROVE  standing' # "AT_RISK" /\ \A l \in 1 .. Len(loans) : Owed(l)' = 0
    BY DEF Refresh, QuietSound
  <2>1. standing # "AT_RISK" /\ \A l \in 1 .. Len(loans) : Owed(l) = 0
    BY DEF ReadinessSound, QuietSound
  <2>2. risk_reasons = {}
    BY <2>1, QuietGroup DEF ReadinessSound
  <2>3. standing' # "AT_RISK"
    BY <2>1, <2>2 DEF Refresh, NextStatus
  <2> QED
    BY <2>1, <2>3 DEF Refresh, Owed
<1> QED
  BY <1>1, <1>2

LEMMA ReadinessKept ==
    ASSUME ReadinessSound, [ReadinessNext]_readinessVars
    PROVE  ReadinessSound' /\ Stands
<1>1. \A m \in meetings : m.held \in Date /\ m.held \in Nat
  BY ReadinessAssumption DEF ReadinessSound, MeetingsSound, Date
<1> USE DEF ReadinessSound
<1>2. ASSUME UNCHANGED <<bylaws, stays>>
      PROVE  Stands /\ BylawsSound' /\ StaysSound'
  BY <1>2, SameBylaws, SameStays DEF Stands, BylawsSound, StaysSound
<1>3. ASSUME UNCHANGED meetings
      PROVE  MeetingsSound'
  BY <1>3 DEF MeetingsSound
<1>4. ASSUME UNCHANGED loans
      PROVE  LoansSound'
  BY <1>4 DEF LoansSound
<1>5. ASSUME UNCHANGED <<meetings, loans, standing>>
      PROVE  QuietSound'
  BY <1>5 DEF QuietSound, Owed
<1>6. CASE Tomorrow
  <2>1. day' \in Date
    BY <1>6, StudiesAre, ReadinessAssumption DEF Tomorrow, Date
  <2> QED
    BY <1>2, <1>3, <1>4, <1>5, <1>6, <2>1 DEF Tomorrow
<1>7. CASE Refresh
  BY <1>2, <1>3, <1>4, <1>7, RefreshQuiet DEF Refresh
<1>8. ASSUME NEW w \in Member, Join(w)
      PROVE  ReadinessSound' /\ Stands
  <2>1. Stands /\ StaysSound'
    BY <1>1, <1>8, JoinKeeps, SameBylaws DEF Stands, Join
  <2>2. BylawsSound'
    BY <1>8 DEF Join, BylawsSound
  <2> QED
    BY <1>3, <1>4, <1>5, <1>8, <2>1, <2>2 DEF Join
<1>9. ASSUME NEW w \in Member, Leave(w)
      PROVE  ReadinessSound' /\ Stands
  <2>1. Stands /\ StaysSound'
    BY <1>1, <1>9, LeaveKeeps, SameBylaws DEF Stands, Leave
  <2>2. BylawsSound'
    BY <1>9 DEF Leave, BylawsSound
  <2> QED
    BY <1>3, <1>4, <1>5, <1>9, <2>1, <2>2 DEF Leave
<1>10. ASSUME NEW from \in Named, NEW s \in study.sums, NEW c \in study.cadences, RecordBylaws(from, s, c)
       PROVE  ReadinessSound' /\ Stands
  <2>1. BylawsSound' /\ current_bylaw'.from = from
    BY <1>10, RecordKeeps
  <2>2. ASSUME NEW m \in meetings, ~ from <= m.held, Covered(m.held)
        PROVE  Required(m)' = Required(m)
    <3>1. m.held \in Date /\ m.held < from
      BY <1>1, <2>2, StudiesAre, ReadinessAssumption DEF Date
    <3>2. PICK v \in ToSet(bylaws), w \in ToSet(bylaws') :
             Covers(v, m.held) /\ Covers(w, m.held) /\ v.contribution = w.contribution
      BY <1>10, <2>2, <3>1, RecordKeeps
    <3>3. Required(m) = v.contribution
      BY <3>1, <3>2, BylawIs DEF Required
    <3>4. Required(m)' = w.contribution
      <4>1. PICK b, d : b = bylaws' /\ d = m.held
        OBVIOUS
      <4>2. b \in Seq(Version) /\ \A i, j \in 1 .. Len(b) : i < j => b[i].to <= b[j].from
        BY <2>1, <4>1 DEF BylawsSound
      <4>3. (CHOOSE x \in ToSet(b) : x.from <= d /\ d < x.to) = w
        BY <3>1, <3>2, <4>1, <4>2, OneCovers
      <4>4. Covered(m.held)'
        BY <1>10, <2>2, <3>1, RecordKeeps
      <4> QED
        BY <4>1, <4>3, <4>4 DEF Required, BylawOn
    <3> QED
      BY <3>2, <3>3, <3>4
  <2>3. ASSUME NEW m \in meetings
        PROVE  Covered(m.held)' <=> Covered(m.held)
    BY <1>1, <1>10, RecordKeeps
  <2>4. ASSUME NEW m \in meetings, ~ Covered(m.held)
        PROVE  Required(m)' = bylaw'.contribution
    BY <2>3, <2>4 DEF Required, BylawOn
  <2>5. UNCHANGED stays
    BY <1>10 DEF RecordBylaws
  <2>6. Stands
    BY <2>1, <2>2, <2>3, <2>4, <2>5, SameStays DEF Stands
  <2>7. StaysSound'
    BY <2>5 DEF StaysSound
  <2> QED
    BY <1>3, <1>4, <1>5, <1>10, <2>1, <2>6, <2>7 DEF RecordBylaws
<1>11. ASSUME NEW held \in Named, NEW came, NEW s \in study.sums \cup {0}, Meet(held, came, s)
       PROVE  ReadinessSound' /\ Stands
  <2>1. MeetingsSound' /\ QuietSound'
    <3>1. s \in Nat
      BY StudiesAre
    <3> QED
      BY <1>11, <3>1, MeetKeeps DEF QuietSound
  <2> QED
    BY <1>2, <1>4, <1>11, <2>1 DEF Meet
<1>12. ASSUME NEW principal \in study.sums, NEW by \in Named, Lend(principal, by)
       PROVE  ReadinessSound' /\ Stands
  BY <1>2, <1>3, <1>12, LendKeeps DEF Lend
<1>13. ASSUME NEW l \in DOMAIN loans, NEW amount \in study.sums, Repay(l, amount)
       PROVE  ReadinessSound' /\ Stands
  <2>1. LoansSound' /\ QuietSound'
    BY <1>13, RepayKeeps DEF QuietSound, Repay
  <2> QED
    BY <1>2, <1>3, <1>13, <2>1 DEF Repay
<1>14. ASSUME NEW l \in DOMAIN loans, WriteOff(l)
       PROVE  ReadinessSound' /\ Stands
  <2>1. LoansSound' /\ QuietSound'
    BY <1>14, WriteOffKeeps DEF QuietSound, WriteOff
  <2> QED
    BY <1>2, <1>3, <1>14, <2>1 DEF WriteOff
<1>15. CASE Miscount
  BY <1>2, <1>3, <1>4, <1>5, <1>15 DEF Miscount
<1>16. CASE UNCHANGED readinessVars
  BY <1>2, <1>3, <1>4, <1>5, <1>16 DEF readinessVars
<1> QED
  BY <1>6, <1>7, <1>8, <1>9, <1>10, <1>11, <1>12, <1>13, <1>14, <1>15, <1>16 DEF ReadinessNext

LEMMA ReadinessAlways == ReadinessSpec => []ReadinessSound
BY ReadinessBegins, ReadinessKept, PTL DEF ReadinessSpec

\* Whatever joins, exits, bylaws and meetings follow: whom a meeting of the
\* past expected stays; what one that a version covered asked changes only by
\* a version dated on or before it; and one held before the first version asks
\* what the bylaws of the day do, always.
THEOREM ThePastStands == ReadinessSpec => PastStands
<1>1. ReadinessSound /\ [ReadinessNext]_readinessVars => Stands
  BY ReadinessKept
<1> QED
  BY <1>1, ReadinessAlways, PTL DEF ReadinessSpec, PastStands, Stands

-----------------------------------------------------------------------------
(* What a group is at risk for.                                            *)

LEMMA LatestIs ==
    ASSUME NEW S, S # {}, \A m \in S : m.held \in Date
    PROVE  LatestOf(S) \in {m.held : m \in S} /\ \A m \in S : m.held <= LatestOf(S)
<1>1. Horizon \in Nat
  BY ReadinessAssumption
<1>2. PICK left : left = {Horizon - m.held : m \in S}
  OBVIOUS
<1>3. left \in SUBSET Nat /\ left # {}
  BY <1>1, <1>2 DEF Date
<1>4. PICK k \in left : \A x \in left : k <= x
  BY <1>3, LeastNat
<1>5. PICK z \in S : k = Horizon - z.held
  BY <1>2, <1>4
<1>6. \A m \in S : m.held <= z.held
  <2> SUFFICES ASSUME NEW m \in S
               PROVE  m.held <= z.held
    OBVIOUS
  <2>1. k <= Horizon - m.held
    BY <1>2, <1>4
  <2>2. m.held \in Nat /\ z.held \in Nat
    BY <1>1 DEF Date
  <2> QED
    BY <1>1, <1>5, <2>1, <2>2
<1>7. \E d \in {m.held : m \in S} : \A m \in S : m.held <= d
  BY <1>6
<1> QED
  BY <1>7 DEF LatestOf

\* No group is dormant sooner than after two of its meetings were missed.
LEMMA DormantMissedTwo ==
    ASSUME ReadinessSound, meetings # {}, is_dormant
    PROVE  MissedTwo
<1>1. /\ day \in Date /\ BylawsSound /\ \A m \in meetings : m.held \in Date
      /\ Horizon \in Nat /\ Rule.floor \in Nat /\ Rule.multiple \in Nat
  BY ReadinessAssumption DEF ReadinessSound, MeetingsSound, RuleType
<1>2. bylaw \in Version
  BY <1>1, BylawStands
<1>3. DormantAfter(bylaw.cadence) >= Rule.floor
  <2>1. PICK c \in Cadence : c = bylaw.cadence
    BY <1>2 DEF Version
  <2>2. c * Rule.multiple \in Nat
    <3>1. c \in Nat
      BY ReadinessAssumption
    <3> QED
      BY <1>1, <3>1
  <2>3. DormantAfter(c) >= Rule.floor
    BY <1>1, <2>2 DEF DormantAfter
  <2> QED
    BY <2>1, <2>3
<1>4. PICK last : last = LatestOf(meetings)
  OBVIOUS
<1>5. last \in Date /\ \A m \in meetings : m.held <= last
  BY <1>1, <1>4, LatestIs
<1>6. DormantAfter(bylaw.cadence) \in Nat
  <2>1. bylaw.cadence \in Nat
    BY <1>2, ReadinessAssumption DEF Version
  <2> QED
    BY <1>1, <2>1 DEF DormantAfter
<1>7. day - last > DormantAfter(bylaw.cadence)
  BY <1>4 DEF is_dormant
<1>8. day - last > Rule.floor
  BY <1>1, <1>3, <1>5, <1>6, <1>7 DEF Date
<1>9. Held = meetings
  <2>1. \A m \in meetings : m.held <= day
    BY <1>1, <1>5, <1>8 DEF Date
  <2> QED
    BY <2>1 DEF Held
<1>10. current_bylaw \in Version
  BY <1>1, BylawStands
<1>11. PICK c \in Cadence : c = current_bylaw.cadence
  BY <1>10 DEF Version
<1>12. c \in Nat /\ Rule.floor >= 2 * c
  BY ReadinessAssumption
<1>13. day - last > 2 * c
  BY <1>1, <1>5, <1>8, <1>12 DEF Date
<1> QED
  BY <1>4, <1>9, <1>11, <1>13 DEF MissedTwo

LEMMA RefreshSaysWhy ==
    ASSUME ReadinessSound, Refresh
    PROVE  /\ standing' = "AT_RISK" => flags' \cap Figured # {}
           /\ standing' = "ACTIVE" /\ flags' \cap Figured # {} => standing = "DORMANT"
<1>1. flags' \cap Figured = risk_reasons /\ standing' = NextStatus /\ standing \in operating
  BY DEF Refresh, Kept, risk_reasons, ReadinessSound
<1>2. standing = "AT_RISK" /\ is_dormant => risk_reasons # {}
  <2> SUFFICES ASSUME standing = "AT_RISK", is_dormant
               PROVE  "MISSED_MEETINGS" \in risk_reasons
    OBVIOUS
  <2>1. meetings # {}
    BY DEF ReadinessSound, QuietSound
  <2> QED
    BY <2>1, DormantMissedTwo DEF risk_reasons, Figured
<1> QED
  BY <1>1, <1>2 DEF NextStatus, operating

\* Only a meeting that closes takes the flag of a till back.
LEMMA TillIsKept ==
    ASSUME ReadinessSound, [ReadinessNext]_readinessVars,
           "UNBALANCED_TILL" \in flags, "UNBALANCED_TILL" \notin flags'
    PROVE  meetings' # meetings
<1>1. CASE UNCHANGED flags
  BY <1>1
<1>2. CASE Refresh
  BY <1>2 DEF Refresh, Kept, Figured
<1>3. CASE Miscount
  BY <1>3 DEF Miscount
<1>4. ASSUME NEW held \in Named, NEW came, NEW s \in study.sums \cup {0}, Meet(held, came, s)
      PROVE  meetings' # meetings
  <2>1. s \in Nat
    BY StudiesAre DEF ReadinessSound
  <2> QED
    BY <1>4, <2>1, MeetKeeps
<1> QED
  BY <1>1, <1>2, <1>3, <1>4
     DEF ReadinessNext, readinessVars, Tomorrow, Join, Leave, RecordBylaws, Lend, Repay, WriteOff

\* Whatever the policy: a refresh that leaves a group at risk leaves a reason
\* of the figures with it, one that leaves it active leaves none unless it was
\* dormant, and the flag of a till waits for a meeting that closes.
THEOREM AtRiskIsTold == ReadinessSpec => AtRiskSaysWhy
<1>1. ReadinessSound /\ [ReadinessNext]_readinessVars
         => /\ Refresh => /\ standing' = "AT_RISK" => flags' \cap Figured # {}
                          /\ standing' = "ACTIVE" /\ flags' \cap Figured # {} => standing = "DORMANT"
            /\ "UNBALANCED_TILL" \in flags \ flags' => meetings' # meetings
  BY RefreshSaysWhy, TillIsKept
<1> QED
  BY <1>1, ReadinessAlways, PTL DEF ReadinessSpec, AtRiskSaysWhy

-----------------------------------------------------------------------------
(* One definition of each figure.                                          *)

\* A value is in the first k bins of those that ascend exactly if it is under
\* the lower end of the next.
LEMMA UnderTheGate ==
    ASSUME NEW bins, Ascends(bins), NEW k \in Nat \ {0}, k < Len(bins), NEW value \in Int, value # Unmeasured
    PROVE  Bin(bins, value) \in Nat \ {0} /\ (Bin(bins, value) <= k <=> value < 10 * bins[k + 1])
<1>1. PICK n : n = Len(bins)
  OBVIOUS
<1>2. n \in Nat /\ k + 1 \in 2 .. n /\ \A i \in 1 .. n : bins[i] \in Nat
  BY <1>1 DEF Ascends
<1>3. PICK S : S = {i \in 2 .. n : 10 * bins[i] <= value}
  OBVIOUS
<1>4. Bin(bins, value) = 1 + Cardinality(S)
  BY <1>1, <1>3 DEF Bin
<1>5. IsFiniteSet(S) /\ Cardinality(S) \in Nat
  <2>1. IsFiniteSet(2 .. n)
    BY <1>2, FS_Interval
  <2>2. IsFiniteSet(S)
    BY <1>3, <2>1, FS_Subset
  <2> QED
    BY <2>2, FS_CardinalityType
<1>6. ASSUME value < 10 * bins[k + 1]
      PROVE  Cardinality(S) <= k - 1
  <2>1. S \subseteq 2 .. k
    <3> SUFFICES ASSUME NEW i \in S, i > k
                 PROVE  FALSE
      BY <1>2, <1>3
    <3>1. i \in 2 .. n /\ 10 * bins[i] <= value
      BY <1>3
    <3>2. bins[k + 1] <= bins[i]
      <4>1. CASE i = k + 1
        BY <1>2, <4>1
      <4>2. CASE i # k + 1
        <5>1. k + 1 < i /\ k + 1 \in 1 .. n /\ i \in 1 .. n
          BY <1>2, <3>1, <4>2
        <5>2. bins[k + 1] < bins[i]
          BY <1>1, <5>1 DEF Ascends
        <5> QED
          BY <1>2, <5>1, <5>2
      <4> QED
        BY <4>1, <4>2
    <3> QED
      BY <1>2, <1>6, <3>1, <3>2
  <2>2. IsFiniteSet(2 .. k) /\ Cardinality(2 .. k) = k - 1
    BY FS_Interval
  <2> QED
    BY <2>1, <2>2, FS_Subset
<1>7. ASSUME value >= 10 * bins[k + 1]
      PROVE  Cardinality(S) >= k
  <2>1. 2 .. k + 1 \subseteq S
    <3> SUFFICES ASSUME NEW i \in 2 .. k + 1
                 PROVE  10 * bins[i] <= value
      BY <1>2, <1>3
    <3>1. bins[i] <= bins[k + 1]
      <4>1. CASE i = k + 1
        BY <1>2, <4>1
      <4>2. CASE i # k + 1
        <5>1. i < k + 1 /\ k + 1 \in 1 .. n /\ i \in 1 .. n
          BY <1>2, <4>2
        <5>2. bins[i] < bins[k + 1]
          BY <1>1, <5>1 DEF Ascends
        <5> QED
          BY <1>2, <5>1, <5>2
      <4> QED
        BY <4>1, <4>2
    <3>2. bins[i] \in Nat /\ bins[k + 1] \in Nat
      BY <1>2
    <3> QED
      BY <1>7, <3>1, <3>2
  <2>2. IsFiniteSet(2 .. k + 1) /\ Cardinality(2 .. k + 1) = k
    BY FS_Interval
  <2>3. Cardinality(2 .. k + 1) <= Cardinality(S)
    BY <1>5, <2>1, FS_Subset
  <2> QED
    BY <2>2, <2>3
<1>8. bins[k + 1] \in Nat
  BY <1>2
<1> QED
  BY <1>4, <1>5, <1>6, <1>7, <1>8

\* What was saved is a whole number, and so is the fund.
SavedAt(m) == SumOver(Member, LAMBDA w : m.saved[w])
SavedAll == SumOver(meetings, LAMBDA m : SumOver(Member, LAMBDA w : m.saved[w]))

LEMMA SavedAtIsInt ==
    ASSUME NEW m, m.saved \in [Member -> Nat]
    PROVE  SavedAt(m) \in Int
<1> DEFINE pick(s) == CHOOSE x \in s : TRUE
           Is(h) == h = [s \in SUBSET Member |-> IF s = {} THEN 0 ELSE m.saved[pick(s)] + h[s \ {pick(s)}]]
<1>1. SavedAt(m) = (CHOOSE h : Is(h))[Member]
  BY DEF SavedAt, SumOver, FoldSet, MapThenFoldSet
<1>2. PICK F : F = m.saved
  OBVIOUS
<1>3. F \in [Member -> Int] /\ IsFiniteSet(Member)
  BY <1>2, ReadinessAssumption
<1>4. \A h : Adds(h, Member, F) <=> Is(h)
  BY <1>2 DEF Adds
<1>5. PICK h : Adds(h, Member, F)
  BY <1>3, AddsExists
<1> HIDE DEF Is
<1>6. Is(CHOOSE g : Is(g))
  BY <1>4, <1>5
<1>7. PICK g : Adds(g, Member, F) /\ SavedAt(m) = g[Member]
  BY <1>1, <1>4, <1>6
<1> QED
  BY <1>3, <1>7, AddsStep

LEMMA SavedIsInt ==
    ASSUME MeetingsSound
    PROVE  SavedAll \in Int
<1> DEFINE pick(s) == CHOOSE x \in s : TRUE
           Is(h) == h = [s \in SUBSET meetings |-> IF s = {} THEN 0 ELSE SavedAt(pick(s)) + h[s \ {pick(s)}]]
<1>1. SavedAll = (CHOOSE h : Is(h))[meetings]
  BY DEF SavedAll, SavedAt, SumOver, FoldSet, MapThenFoldSet
<1>2. PICK F : F = [m \in meetings |-> SavedAt(m)]
  OBVIOUS
<1>3. F \in [meetings -> Int] /\ IsFiniteSet(meetings) /\ \A m \in meetings : F[m] = SavedAt(m)
  BY <1>2, SavedAtIsInt DEF MeetingsSound
<1>4. \A s \in SUBSET meetings : s # {} => F[pick(s)] = SavedAt(pick(s))
  BY <1>3
<1>5. \A h : Adds(h, meetings, F) <=> Is(h)
  <2> SUFFICES ASSUME NEW h
               PROVE  Adds(h, meetings, F) <=> Is(h)
    OBVIOUS
  <2>1. Adds(h, meetings, F)
           <=> h = [s \in SUBSET meetings |-> IF s = {} THEN 0 ELSE F[pick(s)] + h[s \ {pick(s)}]]
    BY DEF Adds
  <2> HIDE DEF pick
  <2>2. [s \in SUBSET meetings |-> IF s = {} THEN 0 ELSE F[pick(s)] + h[s \ {pick(s)}]]
           = [s \in SUBSET meetings |-> IF s = {} THEN 0 ELSE SavedAt(pick(s)) + h[s \ {pick(s)}]]
    BY <1>4
  <2> QED
    BY <2>1, <2>2
<1>6. PICK h : Adds(h, meetings, F)
  BY <1>3, AddsExists
<1> HIDE DEF Is
<1>7. Is(CHOOSE g : Is(g))
  BY <1>5, <1>6
<1>8. PICK g : Adds(g, meetings, F) /\ SavedAll = g[meetings]
  BY <1>1, <1>5, <1>7
<1> QED
  BY <1>3, <1>8, AddsStep

LEMMA FundIsInt ==
    ASSUME ReadinessSound
    PROVE  fund_etb \in Int
<1>1. SavedAll \in Int
  BY SavedIsInt DEF ReadinessSound
<1>2. TotalOwed(DOMAIN loans) \in Nat
  BY LoansAre, OwedBounds DEF ReadinessSound
<1>3. fund_etb = SavedAll - TotalOwed(DOMAIN loans)
  BY DEF fund_etb, SavedAll, TotalOwed, SumOver
<1> QED
  BY <1>1, <1>2, <1>3

LEMMA WeeksAreInt ==
    ASSUME ReadinessSound
    PROVE  fund_weeks_of_contribution \in Int
<1>1. fund_etb \in Int
  BY FundIsInt
<1>2. PICK v : v = bylaw
  OBVIOUS
<1>3. v \in Version
  BY <1>2, BylawStands DEF ReadinessSound
<1>4. v.contribution \in Nat /\ v.cadence \in Nat /\ Week \in Nat
  BY <1>3, ReadinessAssumption DEF Version
<1>5. Cardinality(current_members) \in Nat
  <2>1. current_members \in SUBSET Member
    BY DEF current_members, ReadinessSound, StaysSound, StaySort
  <2>2. IsFiniteSet(current_members)
    BY <2>1, ReadinessAssumption, FS_Subset
  <2> QED
    BY <2>2, FS_CardinalityType
<1>6. PICK per : per = 2 * v.contribution * Cardinality(current_members) * Week
  OBVIOUS
<1>7. per \in Nat
  <2>1. PICK a, b, c : a = v.contribution /\ b = Cardinality(current_members) /\ c = Week
    OBVIOUS
  <2>2. a \in Nat /\ b \in Nat /\ c \in Nat
    BY <1>4, <1>5, <2>1
  <2>3. 2 * a \in Nat
    BY <2>2
  <2>4. 2 * a * b \in Nat
    BY <2>2, <2>3
  <2>5. 2 * a * b * c \in Nat
    BY <2>2, <2>4
  <2> QED
    BY <1>6, <2>1, <2>5
<1>8. PICK top : top = 20 * fund_etb * v.cadence + per \div 2
  OBVIOUS
<1>9. top \in Int
  <2>1. 20 * fund_etb \in Int
    BY <1>1
  <2>2. 20 * fund_etb * v.cadence \in Int
    BY <1>4, <2>1
  <2>3. per \div 2 \in Int
    BY <1>7
  <2> QED
    BY <1>8, <2>2, <2>3
<1>10. per # 0 => top \div per \in Int
  BY <1>7, <1>9
<1>11. fund_weeks_of_contribution = IF per = 0 THEN Unmeasured ELSE top \div per
  BY <1>2, <1>6, <1>8 DEF fund_weeks_of_contribution, FundWeeks
<1> QED
  BY <1>10, <1>11 DEF Unmeasured

LEMMA ComplianceIsInt == savings_compliance_pct \in Int
<1>1. PICK asked : asked = {w \in Member : Asked(w) # {}}
  OBVIOUS
<1>2. PICK met : met = {w \in asked : Compliant(w)}
  OBVIOUS
<1>3. IsFiniteSet(asked) /\ IsFiniteSet(met)
  <2>1. asked \in SUBSET Member /\ met \in SUBSET Member
    BY <1>1, <1>2
  <2> QED
    BY <2>1, ReadinessAssumption, FS_Subset
<1>4. PICK n, d : n = Cardinality(met) /\ d = Cardinality(asked)
  OBVIOUS
<1>5. n \in Nat /\ d \in Nat
  BY <1>3, <1>4, FS_CardinalityType
<1>6. d # 0 => (2000 * n + d) \div (2 * d) \in Int
  <2>1. d # 0 => 2 * d \in Nat \ {0} /\ 2000 * n + d \in Int
    BY <1>5
  <2> QED
    BY <2>1
<1>7. savings_compliance_pct = IF d = 0 THEN Unmeasured ELSE (2000 * n + d) \div (2 * d)
  BY <1>1, <1>2, <1>4 DEF savings_compliance_pct, Pct
<1> QED
  BY <1>6, <1>7 DEF Unmeasured

LEMMA CardsAlways ==
    ASSUME ReadinessSound
    PROVE  CardsMatchGates
<1>1. PICK w : w = fund_weeks_of_contribution
  OBVIOUS
<1>2. PICK c : c = savings_compliance_pct
  OBVIOUS
<1>3. w \in Int /\ c \in Int
  BY <1>1, <1>2, WeeksAreInt, ComplianceIsInt
<1>4. Ascends(FundBins) /\ 1 < Len(FundBins) /\ Ascends(SavingBins) /\ 2 < Len(SavingBins)
  BY BinsAssumption DEF Ascends
<1>5. "fund_adequacy" \in P2ToP3Unmet <=> ~ (w # Unmeasured /\ w >= 10 * Rule.fundWeeks)
  BY <1>1 DEF P2ToP3Unmet, AtLeast
<1>6. "savings_compliance" \in P1ToP2Unmet <=> ~ (c # Unmeasured /\ c >= 10 * Rule.savings)
  BY <1>2 DEF P1ToP2Unmet, AtLeast
<1>7. Rule.fundWeeks \in Nat /\ Rule.savings \in Nat
  BY ReadinessAssumption DEF RuleType
<1>8. FundBins[2] = Rule.fundWeeks
         => (fund_adequacy = 1 <=> w # Unmeasured /\ "fund_adequacy" \in P2ToP3Unmet)
  <2> HAVE FundBins[2] = Rule.fundWeeks
  <2>1. CASE w = Unmeasured
    BY <1>1, <2>1 DEF fund_adequacy, Bin
  <2>2. CASE w # Unmeasured
    <3>1. Bin(FundBins, w) \in Nat \ {0} /\ (Bin(FundBins, w) <= 1 <=> w < 10 * FundBins[1 + 1])
      BY <1>3, <1>4, <2>2, UnderTheGate
    <3>2. FundBins[1 + 1] = Rule.fundWeeks
      OBVIOUS
    <3> QED
      BY <1>1, <1>3, <1>5, <1>7, <2>2, <3>1, <3>2 DEF fund_adequacy
  <2> QED
    BY <2>1, <2>2
<1>9. SavingBins[3] = Rule.savings
         => (savings_compliance_distribution \in {1, 2}
               <=> c # Unmeasured /\ "savings_compliance" \in P1ToP2Unmet)
  <2> HAVE SavingBins[3] = Rule.savings
  <2>1. CASE c = Unmeasured
    BY <1>2, <2>1 DEF savings_compliance_distribution, Bin
  <2>2. CASE c # Unmeasured
    <3>1. Bin(SavingBins, c) \in Nat \ {0} /\ (Bin(SavingBins, c) <= 2 <=> c < 10 * SavingBins[2 + 1])
      BY <1>3, <1>4, <2>2, UnderTheGate
    <3>2. SavingBins[2 + 1] = Rule.savings
      OBVIOUS
    <3>3. Bin(SavingBins, c) \in {1, 2} <=> c < 10 * Rule.savings
      BY <3>1, <3>2
    <3> QED
      BY <1>2, <1>3, <1>6, <1>7, <2>2, <3>3 DEF savings_compliance_distribution
  <2> QED
    BY <2>1, <2>2
<1> QED
  BY <1>1, <1>2, <1>8, <1>9 DEF CardsMatchGates

LEMMA Par30Agrees ==
    ASSUME ReadinessSound, NoOverride("default")
    PROVE  wlt_mv_group_financials.par30 = par30_pct
<1>1. DOMAIN loans = 1 .. Len(loans) /\ IsFiniteSet(DOMAIN loans) /\ \A l \in DOMAIN loans : Owed(l) \in Nat
  BY LoansAre DEF ReadinessSound
<1>2. PICK owed : owed = {l \in DOMAIN loans : loans[l].status = "DISBURSED"}
  OBVIOUS
<1>3. PICK risky : risky = {l \in owed : Owed(l) > 0 /\ loans[l].due < day - study.global.default}
  OBVIOUS
<1>4. IsFiniteSet(owed) /\ IsFiniteSet(OwedLoans) /\ OwedLoans \in SUBSET owed
  <2>1. owed \in SUBSET DOMAIN loans /\ OwedLoans \in SUBSET DOMAIN loans
    BY <1>2 DEF OwedLoans
  <2> QED
    BY <1>1, <1>2, <2>1, FS_Subset DEF OwedLoans
<1>5. TotalOwed(owed) = TotalOwed(OwedLoans)
  <2>1. \A l \in owed : Owed(l) \in Int
    BY <1>1, <1>2
  <2>2. \A l \in owed \ OwedLoans : Owed(l) = 0
    BY <1>1, <1>2 DEF OwedLoans
  <2> QED
    BY <1>4, <2>1, <2>2, OwedLeavesOut
<1>6. TotalOwed(OwedLoans) = 0 <=> OwedLoans = {}
  <2>1. \A l \in OwedLoans : Owed(l) \in Nat /\ Owed(l) > 0
    BY <1>1 DEF OwedLoans
  <2>2. TotalOwed(OwedLoans) \in Nat /\ \A l \in OwedLoans : Owed(l) <= TotalOwed(OwedLoans)
    BY <1>4, <2>1, OwedBounds
  <2>3. OwedLoans # {} => TotalOwed(OwedLoans) # 0
    BY <2>1, <2>2
  <2> QED
    BY <2>3, NothingOwed
<1>7. risky = at_risk
  <2>1. \A l \in DOMAIN loans : loans[l].due \in Nat
    BY LoansAre DEF ReadinessSound
  <2>2. day \in Nat /\ Rule.default \in Nat
    BY ReadinessAssumption DEF ReadinessSound, Date, RuleType
  <2>3. \A l \in DOMAIN loans : loans[l].due < day - Rule.default <=> day - loans[l].due > Rule.default
    BY <2>1, <2>2
  <2>4. study.global.default = Rule.default
    BY DEF NoOverride
  <2> QED
    BY <1>2, <1>3, <2>3, <2>4 DEF at_risk, OwedLoans, DaysLate
<1>8. wlt_mv_group_financials.par30 = IF TotalOwed(owed) = 0 THEN 0 ELSE Pct(TotalOwed(risky), TotalOwed(owed))
  BY <1>2, <1>3 DEF wlt_mv_group_financials, TotalOwed
<1>9. par30_pct = IF OwedLoans = {} THEN 0 ELSE Pct(TotalOwed(at_risk), TotalOwed(OwedLoans))
  BY DEF par30_pct, TotalOwed
<1> QED
  BY <1>5, <1>6, <1>7, <1>8, <1>9

LEMMA CyclesAgree ==
    ASSUME ReadinessSound
    PROVE  wlt_mv_group_financials.cycles = CompletedCycles
<1>1. DOMAIN loans = 1 .. Len(loans) /\ \A l \in DOMAIN loans : loans[l] \in LoanSort
  BY LoansAre DEF ReadinessSound, LoansSound
<1>2. \A l \in DOMAIN loans : loans[l].status # "DISBURSED" <=> loans[l].status \in {"REPAID", "WRITTEN_OFF"}
  BY <1>1 DEF LoanSort
<1>3. PICK owed : owed = {l \in DOMAIN loans : loans[l].status = "DISBURSED"}
  OBVIOUS
<1>4. PICK a : a = {loans[l].batch : l \in DOMAIN loans} \ {loans[l].batch : l \in owed}
  OBVIOUS
<1>5. PICK b : b = {x \in {loans[l].batch : l \in DOMAIN loans} :
                       \A l \in DOMAIN loans : loans[l].batch = x => loans[l].status \in {"REPAID", "WRITTEN_OFF"}}
  OBVIOUS
<1>6. a = b
  BY <1>2, <1>3, <1>4, <1>5
<1>7. wlt_mv_group_financials.cycles = Cardinality(a)
  BY <1>3, <1>4 DEF wlt_mv_group_financials
<1>8. CompletedCycles = Cardinality(b)
  BY <1>5 DEF CompletedCycles
<1> QED
  BY <1>6, <1>7, <1>8

LEMMA WeeksAgree ==
    ASSUME ReadinessSound, current_bylaw.from <= day \/ Len(bylaws) = 1
    PROVE  wlt_mv_group_financials.weeks = fund_weeks_of_contribution
<1>1. /\ bylaws \in Seq(Version) /\ Len(bylaws) \in Nat \ {0} /\ bylaws[Len(bylaws)].to = Open
      /\ DOMAIN bylaws = 1 .. Len(bylaws)
  BY DEF ReadinessSound, BylawsSound
<1>2. current_bylaw = bylaws[Len(bylaws)] /\ current_bylaw \in ToSet(bylaws)
  BY <1>1 DEF current_bylaw, Last, ToSet
<1>3. day \in Date /\ day < Open
  BY ReadinessAssumption DEF ReadinessSound, Date, Open
<1>4. bylaw = current_bylaw
  <2>1. CASE Covers(current_bylaw, day)
    BY <1>2, <1>3, <2>1, BylawIs DEF bylaw, ReadinessSound
  <2>2. CASE ~ Covers(current_bylaw, day)
    <3>1. Len(bylaws) = 1
      BY <1>1, <1>2, <1>3, <2>2 DEF Covers
    <3>2. ToSet(bylaws) = {current_bylaw}
      BY <1>1, <1>2, <3>1 DEF ToSet
    <3>3. ~ Covered(day)
      BY <2>2, <3>2 DEF Covered, Covers
    <3> QED
      BY <3>3 DEF bylaw, BylawOn
  <2> QED
    BY <2>1, <2>2
<1> QED
  BY <1>4 DEF wlt_mv_group_financials, fund_weeks_of_contribution

LEMMA LateAgrees ==
    ASSUME ReadinessSound
    PROVE  /\ study.global.delinquent <= study.global.default /\ study.global.default <= Rule.default
                 => at_risk \subseteq OverdueCard.DEFAULT
           /\ NoOverride("delinquent") => OverdueCard.DEFAULT \cup OverdueCard.DELINQUENT = delinquent
<1>1. \A l \in OwedLoans : DaysLate(l) \in Int
  <2>1. \A l \in OwedLoans : loans[l].due \in Nat
    BY LoansAre DEF OwedLoans, ReadinessSound
  <2> QED
    BY <2>1, ReadinessAssumption DEF DaysLate, ReadinessSound, Date
<1>2. PICK e, f : e = study.global.delinquent /\ f = study.global.default
  OBVIOUS
<1>3. Rule.default \in Nat /\ e \in Nat /\ f \in Nat
  BY <1>2, ReadinessAssumption, StudiesAre DEF RuleType, GlobalType, ReadinessSound
<1>4. PICK late : late = {l \in OwedLoans : DaysLate(l) >= e}
  OBVIOUS
<1>5. /\ OverdueCard.DEFAULT = {l \in late : DaysLate(l) >= f}
      /\ OverdueCard.DELINQUENT = late \ OverdueCard.DEFAULT
  BY <1>2, <1>4 DEF OverdueCard
<1>6. e <= f /\ f <= Rule.default => at_risk \subseteq OverdueCard.DEFAULT
  BY <1>1, <1>3, <1>4, <1>5 DEF at_risk
<1>7. NoOverride("delinquent") => late = delinquent
  BY <1>2, <1>4 DEF NoOverride, delinquent
<1>8. OverdueCard.DEFAULT \cup OverdueCard.DELINQUENT = late
  BY <1>5
<1> QED
  BY <1>2, <1>6, <1>7, <1>8

LEMMA DefinitionAlways ==
    ASSUME ReadinessSound
    PROVE  OneDefinition
<1>1. NoOverride("rolling") /\ Held = meetings => wlt_mv_group_compliance = attendance_pct
  BY DEF wlt_mv_group_compliance, attendance_pct, recent, NoOverride
<1> QED
  BY <1>1, CardsAlways, Par30Agrees, CyclesAgree, WeeksAgree, LateAgrees DEF OneDefinition

\* The views, the service, the gates and the cards give one figure each, for
\* every history of rows: a gate and a card where the kebele's gate is where
\* the bin is, and what is read without a place where the place has no value
\* of its own for the parameter.
THEOREM DefinitionIsOne == ReadinessSpec => []OneDefinition
BY DefinitionAlways, ReadinessAlways, PTL
=============================================================================
