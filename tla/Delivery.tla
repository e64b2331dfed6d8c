------------------------------ MODULE Delivery ------------------------------
(***************************************************************************)
(* What is delivered to a youth and how its result is verified: a course   *)
(* (apps.training), an enterprise with a milestone (apps.enterprises), and *)
(* the contacts by which the outcome of a referral becomes a verified one  *)
(* (apps.followups).                                                       *)
(*                                                                         *)
(* A request loads its row and the case, asks its questions of that copy,  *)
(* and saves: the whole copy, or, where the code names them, some columns. *)
(* Nothing locks a row here but the completion of a referral.              *)
(*                                                                         *)
(* A date is set or not, and so is a reason, and today is one day.  Left   *)
(* out: which referral a row comes from, certificates, registration,       *)
(* mentoring, deletion, and the case's own requests, which are Casework's. *)
(***************************************************************************)
EXTENDS Naturals, FiniteSets

CONSTANTS
    Provider,   \* requests that may be on their way at once
    Contact,    \* the follow-ups that may be recorded
    Result,     \* the outcomes a referral may be completed with
    NoResult,   \* none yet
    PlacingResult,   \* those that count as a placement
    Rounds      \* what is done: which operations, and how many at once

ASSUME DeliveryAssumption ==
    /\ IsFiniteSet(Provider) /\ Contact \cap {"nobody", "completer"} = {}
    /\ NoResult \notin Result
    /\ PlacingResult \subseteq Result
    /\ Rounds \subseteq [does : SUBSET STRING, atOnce : Nat]

VARIABLES
    course,     \* the row of TrainingEnrolment
    venture,    \* the row of Enterprise
    milestone,  \* the row of EnterpriseMilestone
    referred,   \* the row of Referral, once it is Active
    log,        \* log[f]: the rows of FollowUp
    caseStatus, \* case_status: PLACED, or one of those that are not
    task,       \* task[v]: the request v, with the copies it has read
    round       \* which of Rounds this behaviour shows

deliveryVars == <<course, venture, milestone, referred, log, caseStatus, task, round>>

CourseRow == [ status : {"ENROLLED", "COMPLETED", "FAILED_ASSESSMENT", "DROPPED_OUT"},
               finished : BOOLEAN,    \* completion_date
               left : BOOLEAN,        \* dropout_date and dropout_reason
               attended : BOOLEAN,    \* attendance_rate
               dropoutFlag : BOOLEAN, triggersOnward : BOOLEAN ]
VentureRow == [ plan : {"DRAFTED", "APPROVED"}, support : {"NONE", "GRANT", "LOAN"},
                disbursed : BOOLEAN, trading : BOOLEAN, closed : BOOLEAN ]
MilestoneRow == [ status : {"PENDING", "ACHIEVED", "MISSED"}, dated : BOOLEAN, note : BOOLEAN ]

\* Who stands behind an outcome: the user who completed the referral, or the
\* one who verified it by a contact; the method names a contact, or nothing.
ReferredRow == [ status : {"ACTIVE", "COMPLETED"}, outcome : Result \cup {NoResult},
                 source : {"", "SELF_REPORTED", "EMPLOYER_CONFIRMED"},
                 verifier : Contact \cup {"nobody", "completer"},
                 method : Contact \cup {"nobody", "completer"} ]
ContactRow == [ made : BOOLEAN, reached : BOOLEAN, about : BOOLEAN ]   \* about: a referral

CourseOps == {"complete", "fail_assessment", "drop_out", "attendance", "edit_course"}
VentureOps == {"plan_status", "disburse", "trading", "close", "edit_venture"}
MilestoneOps == {"achieve", "miss"}
ReferredOps == {"complete_referral", "verify", "edit_referral"}
DeliveryOps == CourseOps \cup VentureOps \cup MilestoneOps \cup ReferredOps \cup {"contact"}

\* by: the contact a verification starts from.
Task == [ op : DeliveryOps \cup {""}, course : CourseRow, venture : VentureRow,
          milestone : MilestoneRow, referred : ReferredRow, placed : BOOLEAN,
          by : Contact \cup {"nobody"} ]

NewCourse == [ status |-> "ENROLLED", finished |-> FALSE, left |-> FALSE,
               attended |-> FALSE, dropoutFlag |-> FALSE, triggersOnward |-> FALSE ]
NewVenture == [ plan |-> "DRAFTED", support |-> "NONE", disbursed |-> FALSE,
                trading |-> FALSE, closed |-> FALSE ]
NewMilestone == [ status |-> "PENDING", dated |-> FALSE, note |-> FALSE ]
ActiveReferral == [ status |-> "ACTIVE", outcome |-> NoResult, source |-> "",
                    verifier |-> "nobody", method |-> "nobody" ]
NoTask == [ op |-> "", course |-> NewCourse, venture |-> NewVenture,
            milestone |-> NewMilestone, referred |-> ActiveReferral, placed |-> FALSE,
            by |-> "nobody" ]

DeliveryInit ==
    /\ course = NewCourse /\ venture = NewVenture /\ milestone = NewMilestone
    /\ referred = ActiveReferral
    /\ log = [f \in Contact |-> [made |-> FALSE, reached |-> FALSE, about |-> FALSE]]
    /\ caseStatus = "SERVICE_DELIVERY"
    /\ task = [v \in Provider |-> NoTask]
    /\ round \in Rounds

-----------------------------------------------------------------------------
(* A request.                                                              *)

\* get_object, and the case by select_related: of the rows, the one it is for.
LoadTask(v, op, f) ==
    /\ op \in round.does /\ task[v] = NoTask
    /\ Cardinality({u \in Provider : task[u] # NoTask}) < round.atOnce
    /\ (op = "verify") = (f # "nobody")
    /\ op = "verify" => log[f].made
    /\ task' = [task EXCEPT ![v] =
         [NoTask EXCEPT !.op = op, !.by = f, !.placed = caseStatus = "PLACED",
                        !.course = IF op \in CourseOps THEN course ELSE @,
                        !.venture = IF op \in VentureOps THEN venture ELSE @,
                        !.milestone = IF op \in MilestoneOps THEN milestone ELSE @,
                        !.referred = IF op \in ReferredOps THEN referred ELSE @]]
    /\ UNCHANGED <<course, venture, milestone, referred, log, caseStatus, round>>

\* The payload is invalid, or the service or full_clean refuses: nothing is saved.
Refuse(v) ==
    /\ task[v] # NoTask
    /\ task' = [task EXCEPT ![v] = NoTask]
    /\ UNCHANGED <<course, venture, milestone, referred, log, caseStatus, round>>

Answers(v) == task' = [task EXCEPT ![v] = NoTask] /\ UNCHANGED round

\* Wrong: saves the case as it was loaded.
TouchWhole(copy, status) == IF copy.placed THEN "PLACED" ELSE "SERVICE_DELIVERY"

\* case.touch(): what is left of case_status, of which it writes nothing.
Touch(copy, status) == status

-----------------------------------------------------------------------------
(* The course.                                                             *)

\* TrainingEnrolment.save: the two flags follow the status that is saved.
Derived(row) == [row EXCEPT !.dropoutFlag = row.status = "DROPPED_OUT",
                            !.triggersOnward = row.status = "COMPLETED"]

SavesCourse(v, row) ==
    /\ course' = Derived(row)
    /\ caseStatus' = Touch(task[v], caseStatus)
    /\ Answers(v)
    /\ UNCHANGED <<venture, milestone, referred, log>>

\* complete, fail_assessment and drop_out, of a copy that is still enrolled.
Complete(v) ==
    /\ task[v].op = "complete" /\ task[v].course.status = "ENROLLED"
    /\ SavesCourse(v, [task[v].course EXCEPT !.status = "COMPLETED", !.finished = TRUE])

FailAssessment(v) ==
    /\ task[v].op = "fail_assessment" /\ task[v].course.status = "ENROLLED"
    /\ SavesCourse(v, [task[v].course EXCEPT !.status = "FAILED_ASSESSMENT",
                                             !.finished = TRUE])

DropOut(v) ==
    /\ task[v].op = "drop_out" /\ task[v].course.status = "ENROLLED"
    /\ SavesCourse(v, [task[v].course EXCEPT !.status = "DROPPED_OUT", !.left = TRUE])

\* Wrong: the flags of the copy go with it, whatever columns are named.
RateAndFlags(row, copy) ==
    [row EXCEPT !.attended = TRUE, !.dropoutFlag = Derived(copy).dropoutFlag,
                !.triggersOnward = Derived(copy).triggersOnward]

\* save(update_fields=["attendance_rate", ...]): the status is not among them,
\* so the flags are not.
RateAlone(row, copy) == [row EXCEPT !.attended = TRUE]

RecordAttendanceRate(v) ==
    /\ task[v].op = "attendance"
    /\ course' = RateAlone(course, task[v].course)
    /\ Answers(v)
    /\ UNCHANGED <<venture, milestone, referred, log, caseStatus>>

\* PATCH: the copy, its status included, however the row has moved on.
EditCourse(v) ==
    /\ task[v].op = "edit_course"
    /\ \E rated \in BOOLEAN : course' = Derived([task[v].course EXCEPT !.attended = rated])
    /\ Answers(v)
    /\ UNCHANGED <<venture, milestone, referred, log, caseStatus>>

-----------------------------------------------------------------------------
(* The enterprise.                                                         *)

SavesVenture(v, row) ==
    /\ venture' = row
    /\ Answers(v)
    /\ UNCHANGED <<course, milestone, referred, log>>

\* set_plan_status: any status, at any time.
SetPlanStatus(v, plan) ==
    /\ task[v].op = "plan_status"
    /\ SavesVenture(v, [task[v].venture EXCEPT !.plan = plan])
    /\ caseStatus' = Touch(task[v], caseStatus)

\* record_disbursement, with _mark_case_placed by the status it had read.
RecordDisbursement(v, support) ==
    LET copy == task[v]
        marked == IF copy.placed THEN caseStatus ELSE "PLACED"
    IN  /\ copy.op = "disburse"
        /\ copy.venture.plan = "APPROVED" /\ support # "NONE"
        /\ SavesVenture(v, [copy.venture EXCEPT !.support = support, !.disbursed = TRUE])
        /\ caseStatus' = Touch([copy EXCEPT !.placed = TRUE], marked)

RecordTrading(v) ==
    /\ task[v].op = "trading"
    /\ SavesVenture(v, [task[v].venture EXCEPT !.trading = TRUE])
    /\ caseStatus' = Touch(task[v], caseStatus)

CloseEnterprise(v) ==
    /\ task[v].op = "close" /\ ~task[v].venture.closed
    /\ SavesVenture(v, [task[v].venture EXCEPT !.closed = TRUE])
    /\ caseStatus' = Touch(task[v], caseStatus)

\* PATCH: what the serializer lets a client change is left out, so the copy.
EditVenture(v) ==
    /\ task[v].op = "edit_venture"
    /\ SavesVenture(v, task[v].venture)
    /\ UNCHANGED caseStatus

\* achieve_milestone and miss_milestone, of a copy that is still pending.  The
\* note is required of a miss alone, and only the achievement touches the case.
AchieveMilestone(v, noted) ==
    /\ task[v].op = "achieve" /\ task[v].milestone.status = "PENDING"
    /\ milestone' = [task[v].milestone EXCEPT !.status = "ACHIEVED", !.dated = TRUE,
                                              !.note = @ \/ noted]
    /\ caseStatus' = Touch(task[v], caseStatus)
    /\ Answers(v)
    /\ UNCHANGED <<course, venture, referred, log>>

MissMilestone(v) ==
    /\ task[v].op = "miss" /\ task[v].milestone.status = "PENDING"
    /\ milestone' = [task[v].milestone EXCEPT !.status = "MISSED", !.note = TRUE]
    /\ Answers(v)
    /\ UNCHANGED <<course, venture, referred, log, caseStatus>>

-----------------------------------------------------------------------------
(* The contacts and what they verify.                                      *)

\* A follow-up by POST, answered or not, about the referral or about nothing.
RecordAttempt(f, reached, about) ==
    /\ "contact" \in round.does
    /\ ~log[f].made
    /\ log' = [log EXCEPT ![f] = [made |-> TRUE, reached |-> reached, about |-> about]]
    /\ UNCHANGED <<course, venture, milestone, referred, caseStatus, task, round>>

\* transition_to: the edge by the locked row, everything else by the copy; the
\* verifier is the actor unless the copy has one, the method may be typed in.
CompleteReferral(v, result, typed) ==
    LET copy == task[v].referred
    IN  /\ task[v].op = "complete_referral" /\ referred.status = "ACTIVE"
        /\ referred' = [copy EXCEPT !.status = "COMPLETED", !.outcome = result,
                           !.method = IF typed THEN "completer" ELSE @,
                           !.verifier = IF @ = "nobody" THEN "completer" ELSE @]
        /\ caseStatus' = IF result \in PlacingResult /\ ~task[v].placed THEN "PLACED"
                         ELSE Touch(task[v], caseStatus)
        /\ Answers(v)
        /\ UNCHANGED <<course, venture, milestone, log>>

\* Wrong: whoever stood behind it first stays.
StampMissing(row, source, f) ==
    [row EXCEPT !.source = source, !.method = f,
                !.verifier = IF @ = "nobody" THEN f ELSE @]

\* The three columns a verification writes, and no others.
Stamp(row, source, f) == [row EXCEPT !.source = source, !.verifier = f, !.method = f]

\* verify_referral_outcome: what the youth says herself has no verifier.
VerifyReferralOutcome(v, source) ==
    LET f == task[v].by
        copy == task[v].referred
    IN  /\ task[v].op = "verify"
        /\ log[f].about /\ log[f].reached
        /\ copy.status = "COMPLETED" /\ copy.outcome # NoResult
        /\ referred' = IF source = "SELF_REPORTED"
                       THEN [referred EXCEPT !.source = source, !.method = f]
                       ELSE Stamp(referred, source, f)
        /\ caseStatus' = IF source = "SELF_REPORTED" THEN caseStatus
                         ELSE Touch(task[v], caseStatus)
        /\ Answers(v)
        /\ UNCHANGED <<course, venture, milestone, log>>

\* PATCH: the outcome and its three stamps are read-only, so they are the copy's.
EditReferral(v) ==
    /\ task[v].op = "edit_referral"
    /\ referred' = task[v].referred
    /\ Answers(v)
    /\ UNCHANGED <<course, venture, milestone, log, caseStatus>>

-----------------------------------------------------------------------------

DeliveryStep(v) ==
    \/ \E op \in DeliveryOps, f \in Contact \cup {"nobody"} : LoadTask(v, op, f)
    \/ Refuse(v)
    \/ Complete(v) \/ FailAssessment(v) \/ DropOut(v)
    \/ RecordAttendanceRate(v) \/ EditCourse(v)
    \/ \E plan \in {"DRAFTED", "APPROVED"} : SetPlanStatus(v, plan)
    \/ \E support \in {"NONE", "GRANT", "LOAN"} : RecordDisbursement(v, support)
    \/ RecordTrading(v) \/ CloseEnterprise(v) \/ EditVenture(v)
    \/ \E noted \in BOOLEAN : AchieveMilestone(v, noted)
    \/ MissMilestone(v)
    \/ \E result \in Result, typed \in BOOLEAN : CompleteReferral(v, result, typed)
    \/ \E source \in {"SELF_REPORTED", "EMPLOYER_CONFIRMED"} : VerifyReferralOutcome(v, source)
    \/ EditReferral(v)

DeliveryNext ==
    \/ \E v \in Provider : DeliveryStep(v)
    \/ \E f \in Contact, reached \in BOOLEAN, about \in BOOLEAN : RecordAttempt(f, reached, about)

DeliverySpec == DeliveryInit /\ [][DeliveryNext]_deliveryVars

-----------------------------------------------------------------------------
(* Properties.                                                             *)

\* However many conclude a course or settle a milestone at once, and whatever
\* old copies are saved over them, each row tells one story: its dates and its
\* flags are those of the status it ends with, the money has its kind, and once
\* it reached the youth no request that loaded the case before sends her back.
RowsTell ==
    /\ course.finished <=> course.status \in {"COMPLETED", "FAILED_ASSESSMENT"}
    /\ course.left <=> course.status = "DROPPED_OUT"
    /\ Derived(course) = course
    /\ venture.disbursed <=> venture.support # "NONE"
    /\ venture.disbursed => caseStatus = "PLACED"
    /\ milestone.dated <=> milestone.status = "ACHIEVED"
    /\ milestone.status = "MISSED" => milestone.note

\* An outcome leaves the queue of the unverified by one contact only: one that
\* reached the youth about that referral, whose verifier and method the row
\* bears, over whatever stood there before, and there is an outcome to verify.
\* Not when a PATCH overlaps: it can bring back a row that is not completed.
VerifiedTogether ==
    ( /\ "edit_referral" \notin round.does \/ round.atOnce = 1
      /\ referred.source \notin {"", "SELF_REPORTED"} )
        => /\ referred.verifier \in Contact
           /\ referred.method = referred.verifier
           /\ log[referred.verifier].reached /\ log[referred.verifier].about
           /\ referred.status = "COMPLETED" /\ referred.outcome # NoResult

\* What was delivered, and what was verified of it, is one story (the services of
\* training, enterprises and followups).
OneStory == RowsTell /\ VerifiedTogether
=============================================================================
