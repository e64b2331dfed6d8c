----------------------------- MODULE CasesProofs -----------------------------
(* What is kept beside a youth's referrals, and the versioned thresholds,  *)
(* for any workers, providers, contacts, records, places, keys and days.   *)
EXTENDS Placement, Delivery, Intake, Policy, FiniteSetTheorems, SequenceTheorems, TLAPS

-----------------------------------------------------------------------------
(* Induction over the natural numbers, stated of sets: the library's       *)
(* theorem takes a predicate, which the provers cannot instantiate.        *)

LEMMA LeastNat ==
    ASSUME NEW S \in SUBSET Nat, S # {}
    PROVE  \E m \in S : \A k \in S : m <= k
<1> DEFINE R == {ss \in Nat \X Nat : ss[1] < ss[2]}
<1>1. IsWellFoundedOn(R, Nat)
  BY NatLessThanWellFounded DEF OpToRel
<1> HIDE DEF R
<1>2. PICK m \in S : \A k \in S : ~ (<<k, m>> \in R)
  BY <1>1, WFMin
<1>3. \A k \in S : ~ (k < m)
  BY <1>2 DEF R
<1> QED
  BY <1>3

LEMMA NatSteps ==
    ASSUME NEW S, 0 \in S, \A n \in Nat : n \in S => n + 1 \in S
    PROVE  \A n \in Nat : n \in S
<1> SUFFICES ASSUME Nat \ S # {} PROVE FALSE
  OBVIOUS
<1>1. PICK m \in Nat \ S : \A k \in Nat \ S : m <= k
  BY LeastNat
<1>2. m # 0 /\ m - 1 \in Nat
  BY <1>1
<1>3. m - 1 \in S
  BY <1>1, <1>2
<1> QED
  BY <1>2, <1>3

-----------------------------------------------------------------------------
(* Delivery.                                                               *)

DeliveryTypeOK ==
    /\ course \in CourseRow /\ venture \in VentureRow /\ milestone \in MilestoneRow
    /\ referred \in ReferredRow
    /\ log \in [Contact -> ContactRow]
    /\ caseStatus \in {"SERVICE_DELIVERY", "PLACED"}
    /\ task \in [Provider -> Task]
    /\ round \in [does : SUBSET STRING, atOnce : Nat]

CourseTells(row) ==
    /\ row.finished <=> row.status \in {"COMPLETED", "FAILED_ASSESSMENT"}
    /\ row.left <=> row.status = "DROPPED_OUT"
    /\ row.dropoutFlag <=> row.status = "DROPPED_OUT"
    /\ row.triggersOnward <=> row.status = "COMPLETED"
VentureTells(row) == row.disbursed <=> row.support # "NONE"
MilestoneTells(row) ==
    /\ row.dated <=> row.status = "ACHIEVED"
    /\ row.status = "MISSED" => row.note

\* The rows and every copy that may be saved over them.
CopiesTell ==
    /\ CourseTells(course) /\ VentureTells(venture) /\ MilestoneTells(milestone)
    /\ \A v \in Provider : /\ CourseTells(task[v].course) /\ VentureTells(task[v].venture)
                           /\ MilestoneTells(task[v].milestone)

\* Money means a placed youth, and whoever has seen either still does.
PlacedStays ==
    /\ venture.disbursed => caseStatus = "PLACED"
    /\ \A v \in Provider :
          task[v].placed \/ task[v].venture.disbursed => caseStatus = "PLACED"

Settled(row) == row.status = "COMPLETED" /\ row.outcome # NoResult

\* A verified outcome bears its contact.
Vouched(row) ==
    row.source \notin {"", "SELF_REPORTED"} =>
        /\ row.verifier \in Contact /\ row.method = row.verifier
        /\ log[row.verifier].reached /\ log[row.verifier].about

\* What is known of the copies of the referral: with one request there is one,
\* and it is the row; without PATCH a completed row stays completed.
ReferralHolds ==
    /\ Vouched(referred)
    /\ referred.source # "" => Settled(referred)
    /\ referred.status = "COMPLETED" => Settled(referred)
    /\ \A v \in Provider :
          LET copy == task[v].referred
          IN  /\ copy.source # "" => Settled(copy)
              /\ copy.status = "COMPLETED" => Settled(copy)
              /\ round.atOnce # 1 =>
                    /\ task[v].op # "edit_referral"
                    /\ copy.status = "COMPLETED" => referred.status = "COMPLETED"

Singly ==
    round.atOnce = 1 =>
        /\ \A u, v \in Provider : task[u] # NoTask /\ task[v] # NoTask => u = v
        /\ \A v \in Provider :
              task[v].op \in ReferredOps => task[v].referred = referred

LogKept ==
    /\ \A f \in Contact : log[f].reached \/ log[f].about => log[f].made
    /\ \A v \in Provider : task[v].op = "verify" => task[v].by \in Contact

NoOverlap == "edit_referral" \notin round.does \/ round.atOnce = 1
DeliveryInvariant ==
    /\ DeliveryTypeOK /\ CopiesTell /\ PlacedStays /\ LogKept
    /\ Singly /\ (NoOverlap => ReferralHolds)

LEMMA NoTaskFacts ==
    /\ NoTask \in Task /\ NoTask.op = "" /\ ~NoTask.placed /\ NoTask.by = "nobody"
    /\ NoTask.course = NewCourse /\ NoTask.venture = NewVenture
    /\ NoTask.milestone = NewMilestone /\ NoTask.referred = ActiveReferral
    /\ CourseTells(NewCourse) /\ VentureTells(NewVenture) /\ MilestoneTells(NewMilestone)
    /\ ActiveReferral \in ReferredRow /\ ActiveReferral.source = ""
    /\ ActiveReferral.status = "ACTIVE" /\ ~NewVenture.disbursed
    /\ NewCourse \in CourseRow /\ NewVenture \in VentureRow /\ NewMilestone \in MilestoneRow
<1>1. /\ NewCourse \in CourseRow /\ NewVenture \in VentureRow /\ NewMilestone \in MilestoneRow
      /\ ~NewVenture.disbursed
  BY DEF NewCourse, NewVenture, NewMilestone, CourseRow, VentureRow, MilestoneRow
<1>2. /\ ActiveReferral \in ReferredRow /\ ActiveReferral.source = ""
      /\ ActiveReferral.status = "ACTIVE"
  BY DEF ActiveReferral, ReferredRow
<1>3. CourseTells(NewCourse) /\ VentureTells(NewVenture) /\ MilestoneTells(NewMilestone)
  BY DEF CourseTells, VentureTells, MilestoneTells, NewCourse, NewVenture, NewMilestone
<1>4. NoTask \in Task
  BY <1>1, <1>2 DEF NoTask, Task
<1> QED
  BY <1>1, <1>2, <1>3, <1>4 DEF NoTask

LEMMA DeliveryStarts == DeliveryInit => DeliveryInvariant
<1> SUFFICES ASSUME DeliveryInit PROVE DeliveryInvariant
  OBVIOUS
<1>1. DeliveryTypeOK
  BY NoTaskFacts, DeliveryAssumption DEF DeliveryInit, DeliveryTypeOK, ContactRow
<1>2. CopiesTell /\ PlacedStays /\ LogKept
  BY NoTaskFacts DEF DeliveryInit, CopiesTell, PlacedStays, LogKept
<1>3. Singly /\ ReferralHolds
  BY NoTaskFacts DEF DeliveryInit, Singly, ReferralHolds, Vouched, ReferredOps
<1> QED
  BY <1>1, <1>2, <1>3 DEF DeliveryInvariant

\* A request ends, with whatever it has written.
LEMMA AnswersFacts ==
    ASSUME DeliveryTypeOK, NEW v \in Provider, Answers(v)
    PROVE  /\ task' \in [Provider -> Task] /\ round' = round
           /\ \A u \in Provider : task'[u] = NoTask \/ (u # v /\ task'[u] = task[u])
BY NoTaskFacts DEF DeliveryTypeOK, Answers

\* Rows that tell one story go on to, and so do the copies that are left.
LEMMA StoriesKept ==
    ASSUME DeliveryInvariant, NEW v \in Provider, Answers(v),
           CourseTells(course'), VentureTells(venture'), MilestoneTells(milestone'),
           caseStatus = "PLACED" => caseStatus' = "PLACED",
           venture'.disbursed => caseStatus' = "PLACED",
           log' = log
    PROVE  CopiesTell' /\ PlacedStays' /\ LogKept'
<1>1. \A u \in Provider : task'[u] = NoTask \/ task'[u] = task[u]
  BY AnswersFacts DEF DeliveryInvariant
<1>2. CopiesTell'
  BY <1>1, NoTaskFacts DEF DeliveryInvariant, CopiesTell
<1>3. PlacedStays'
  BY <1>1, NoTaskFacts DEF DeliveryInvariant, PlacedStays
<1>4. LogKept'
  BY <1>1, NoTaskFacts DEF DeliveryInvariant, LogKept
<1> QED
  BY <1>2, <1>3, <1>4

\* The referral's half, of a step that leaves the referral as it is.
LEMMA ReferralKept ==
    ASSUME DeliveryInvariant, NEW v \in Provider, Answers(v), referred' = referred, log' = log
    PROVE  Singly' /\ (NoOverlap => ReferralHolds)'
<1>1. round' = round /\ \A u \in Provider : task'[u] = NoTask \/ task'[u] = task[u]
  BY AnswersFacts DEF DeliveryInvariant
<1>2. Singly'
  BY <1>1, NoTaskFacts DEF DeliveryInvariant, Singly, ReferredOps
<1>3. ASSUME NoOverlap' PROVE ReferralHolds'
  <2>1. ReferralHolds
    BY <1>1, <1>3 DEF DeliveryInvariant, NoOverlap
  <2> QED
    BY <1>1, <2>1, NoTaskFacts DEF ReferralHolds, Vouched, Settled
<1> QED
  BY <1>2, <1>3

LEMMA CourseRows ==
    ASSUME NEW row \in CourseRow
    PROVE  /\ Derived(row) \in CourseRow
           /\ Derived(row).status = row.status /\ Derived(row).finished = row.finished
           /\ Derived(row).left = row.left
           /\ Derived(row).dropoutFlag <=> row.status = "DROPPED_OUT"
           /\ Derived(row).triggersOnward <=> row.status = "COMPLETED"
           /\ CourseTells(row) => Derived(row) = row
<1>1. Derived(row) \in CourseRow
  BY DEF Derived, CourseRow
<1>2. /\ Derived(row).status = row.status /\ Derived(row).finished = row.finished
      /\ Derived(row).left = row.left
      /\ Derived(row).dropoutFlag <=> row.status = "DROPPED_OUT"
      /\ Derived(row).triggersOnward <=> row.status = "COMPLETED"
      /\ Derived(row).attended = row.attended
  BY DEF Derived, CourseRow
<1>3. CourseTells(row) => Derived(row) = row
  BY <1>1, <1>2 DEF CourseTells, CourseRow
<1> QED
  BY <1>1, <1>2, <1>3

\* Every step on the course: what is saved is a row of which no date and no flag
\* contradicts the status.
LEMMA CourseSteps ==
    ASSUME DeliveryInvariant, NEW v \in Provider,
           \/ Complete(v) \/ FailAssessment(v) \/ DropOut(v)
           \/ RecordAttendanceRate(v) \/ EditCourse(v)
    PROVE  DeliveryInvariant'
<1> DEFINE copy == task[v].course
<1>1. /\ copy \in CourseRow /\ CourseTells(copy) /\ course \in CourseRow /\ CourseTells(course)
  BY DEF DeliveryInvariant, DeliveryTypeOK, Task, CopiesTell
<1>2. /\ Answers(v) /\ UNCHANGED <<venture, milestone, referred, log>>
      /\ caseStatus' = caseStatus
  BY DEF Complete, FailAssessment, DropOut, RecordAttendanceRate, EditCourse, SavesCourse, Touch
<1>3. course' \in CourseRow /\ CourseTells(course')
  <2>1. ASSUME NEW row \in CourseRow,
               row.finished <=> row.status \in {"COMPLETED", "FAILED_ASSESSMENT"},
               row.left <=> row.status = "DROPPED_OUT"
        PROVE  Derived(row) \in CourseRow /\ CourseTells(Derived(row))
    BY <2>1, CourseRows DEF CourseTells
  <2>2. CASE Complete(v)
    <3> DEFINE row == [copy EXCEPT !.status = "COMPLETED", !.finished = TRUE]
    <3>1. /\ row \in CourseRow /\ row.finished /\ row.status = "COMPLETED" /\ row.left = copy.left
          /\ course' = Derived(row) /\ copy.status = "ENROLLED"
      BY <1>1, <2>2 DEF Complete, SavesCourse, CourseRow
    <3> HIDE DEF row, copy
    <3> QED
      BY <1>1, <2>1, <3>1 DEF CourseTells
  <2>3. CASE FailAssessment(v)
    <3> DEFINE row == [copy EXCEPT !.status = "FAILED_ASSESSMENT", !.finished = TRUE]
    <3>1. /\ row \in CourseRow /\ row.finished /\ row.status = "FAILED_ASSESSMENT"
          /\ row.left = copy.left /\ course' = Derived(row) /\ copy.status = "ENROLLED"
      BY <1>1, <2>3 DEF FailAssessment, SavesCourse, CourseRow
    <3> HIDE DEF row, copy
    <3> QED
      BY <1>1, <2>1, <3>1 DEF CourseTells
  <2>4. CASE DropOut(v)
    <3> DEFINE row == [copy EXCEPT !.status = "DROPPED_OUT", !.left = TRUE]
    <3>1. /\ row \in CourseRow /\ row.finished = copy.finished /\ row.status = "DROPPED_OUT"
          /\ row.left /\ course' = Derived(row) /\ copy.status = "ENROLLED"
      BY <1>1, <2>4 DEF DropOut, SavesCourse, CourseRow
    <3> HIDE DEF row, copy
    <3> QED
      BY <1>1, <2>1, <3>1 DEF CourseTells
  <2>5. CASE RecordAttendanceRate(v)
    BY <1>1, <2>5 DEF RecordAttendanceRate, RateAlone, CourseRow, CourseTells
  <2>6. CASE EditCourse(v)
    <3>1. PICK rated \in BOOLEAN : course' = Derived([copy EXCEPT !.attended = rated])
      BY <2>6 DEF EditCourse
    <3> DEFINE row == [copy EXCEPT !.attended = rated]
    <3>2. /\ row \in CourseRow /\ row.finished = copy.finished /\ row.status = copy.status
          /\ row.left = copy.left
      BY <1>1 DEF CourseRow
    <3> HIDE DEF row, copy
    <3> QED
      BY <1>1, <2>1, <3>1, <3>2 DEF CourseTells, row
  <2> QED
    BY <2>2, <2>3, <2>4, <2>5, <2>6
<1>4. DeliveryTypeOK'
  BY <1>2, <1>3, AnswersFacts DEF DeliveryInvariant, DeliveryTypeOK
<1>5. CopiesTell' /\ PlacedStays' /\ LogKept'
  BY <1>2, <1>3, StoriesKept DEF DeliveryInvariant, CopiesTell, PlacedStays
<1> QED
  BY <1>2, <1>4, <1>5, ReferralKept DEF DeliveryInvariant

LEMMA VentureSteps ==
    ASSUME DeliveryInvariant, NEW v \in Provider,
           \/ \E plan \in {"DRAFTED", "APPROVED"} : SetPlanStatus(v, plan)
           \/ \E support \in {"NONE", "GRANT", "LOAN"} : RecordDisbursement(v, support)
           \/ RecordTrading(v) \/ CloseEnterprise(v) \/ EditVenture(v)
    PROVE  DeliveryInvariant'
<1> DEFINE copy == task[v].venture
<1>1. /\ copy \in VentureRow /\ VentureTells(copy) /\ caseStatus \in {"SERVICE_DELIVERY", "PLACED"}
      /\ task[v].placed \/ copy.disbursed => caseStatus = "PLACED"
  BY DEF DeliveryInvariant, DeliveryTypeOK, Task, CopiesTell, PlacedStays
<1>2. /\ Answers(v) /\ UNCHANGED <<course, milestone, referred, log>>
  BY DEF SetPlanStatus, RecordDisbursement, RecordTrading, CloseEnterprise, EditVenture, SavesVenture
<1>3. /\ venture' \in VentureRow /\ VentureTells(venture')
      /\ caseStatus' \in {caseStatus, "PLACED"}
      /\ venture'.disbursed => caseStatus' = "PLACED"
  <2>1. CASE \E plan \in {"DRAFTED", "APPROVED"} : SetPlanStatus(v, plan)
    BY <1>1, <2>1 DEF SetPlanStatus, SavesVenture, Touch, VentureRow, VentureTells
  <2>2. CASE \E support \in {"NONE", "GRANT", "LOAN"} : RecordDisbursement(v, support)
    BY <1>1, <2>2 DEF RecordDisbursement, SavesVenture, Touch, VentureRow, VentureTells
  <2>3. CASE RecordTrading(v)
    BY <1>1, <2>3 DEF RecordTrading, SavesVenture, Touch, VentureRow, VentureTells
  <2>4. CASE CloseEnterprise(v)
    BY <1>1, <2>4 DEF CloseEnterprise, SavesVenture, Touch, VentureRow, VentureTells
  <2>5. CASE EditVenture(v)
    BY <1>1, <2>5 DEF EditVenture, SavesVenture
  <2> QED
    BY <2>1, <2>2, <2>3, <2>4, <2>5
<1>4. DeliveryTypeOK'
  BY <1>1, <1>2, <1>3, AnswersFacts DEF DeliveryInvariant, DeliveryTypeOK
<1>5. CopiesTell' /\ PlacedStays' /\ LogKept'
  BY <1>2, <1>3, StoriesKept DEF DeliveryInvariant, CopiesTell
<1> QED
  BY <1>2, <1>4, <1>5, ReferralKept DEF DeliveryInvariant

LEMMA MilestoneSteps ==
    ASSUME DeliveryInvariant, NEW v \in Provider,
           (\E noted \in BOOLEAN : AchieveMilestone(v, noted)) \/ MissMilestone(v)
    PROVE  DeliveryInvariant'
<1> DEFINE copy == task[v].milestone
<1>1. copy \in MilestoneRow /\ MilestoneTells(copy)
  BY DEF DeliveryInvariant, DeliveryTypeOK, Task, CopiesTell
<1>2. /\ Answers(v) /\ UNCHANGED <<course, venture, referred, log>> /\ caseStatus' = caseStatus
  BY DEF AchieveMilestone, MissMilestone, Touch
<1>3. milestone' \in MilestoneRow /\ MilestoneTells(milestone')
  <2>1. CASE \E noted \in BOOLEAN : AchieveMilestone(v, noted)
    BY <1>1, <2>1 DEF AchieveMilestone, MilestoneRow, MilestoneTells
  <2>2. CASE MissMilestone(v)
    BY <1>1, <2>2 DEF MissMilestone, MilestoneRow, MilestoneTells
  <2> QED
    BY <2>1, <2>2
<1>4. DeliveryTypeOK'
  BY <1>2, <1>3, AnswersFacts DEF DeliveryInvariant, DeliveryTypeOK
<1>5. CopiesTell' /\ PlacedStays' /\ LogKept'
  BY <1>2, <1>3, StoriesKept DEF DeliveryInvariant, CopiesTell, PlacedStays
<1> QED
  BY <1>2, <1>4, <1>5, ReferralKept DEF DeliveryInvariant

\* What a request on the referral knows of it.
LEMMA CopyFacts ==
    ASSUME DeliveryInvariant, NoOverlap, NEW v \in Provider, task[v].op \in ReferredOps
    PROVE  /\ task[v].referred.source # "" => Settled(task[v].referred)
           /\ task[v].referred.status = "COMPLETED" => Settled(referred)
           /\ task[v].op = "edit_referral" => task[v].referred = referred
BY DEF DeliveryInvariant, ReferralHolds, Singly

\* A step that writes the referral, and leaves it vouched for and settled.
LEMMA ReferralWritten ==
    ASSUME DeliveryInvariant, NEW v \in Provider, Answers(v), log' = log,
           task[v].op \in ReferredOps,
           NoOverlap => /\ Vouched(referred')
                        /\ referred'.source # "" => Settled(referred')
                        /\ referred'.status = "COMPLETED" => Settled(referred')
                        /\ referred.status = "COMPLETED" => referred'.status = "COMPLETED"
    PROVE  Singly' /\ (NoOverlap => ReferralHolds)'
<1>1. /\ round' = round
      /\ \A u \in Provider : task'[u] = NoTask \/ (u # v /\ task'[u] = task[u])
  BY AnswersFacts DEF DeliveryInvariant
<1>2. Singly'
  <2>1. ASSUME round.atOnce = 1 PROVE \A u \in Provider : task'[u] = NoTask
    <3>1. task[v] # NoTask
      BY NoTaskFacts DEF ReferredOps
    <3> QED
      BY <1>1, <2>1, <3>1 DEF DeliveryInvariant, Singly
  <2> QED
    BY <1>1, <2>1, NoTaskFacts DEF Singly, ReferredOps
<1>3. ASSUME NoOverlap' PROVE ReferralHolds'
  <2>1. NoOverlap /\ ReferralHolds
    BY <1>1, <1>3 DEF DeliveryInvariant, NoOverlap
  <2>2. Vouched(referred)'
    BY <2>1 DEF Vouched
  <2> QED
    BY <1>1, <2>1, <2>2, NoTaskFacts DEF ReferralHolds, Settled
<1> QED
  BY <1>2, <1>3

LEMMA ReferralSteps ==
    ASSUME DeliveryInvariant, NEW v \in Provider,
           \/ \E result \in Result, typed \in BOOLEAN : CompleteReferral(v, result, typed)
           \/ \E source \in {"SELF_REPORTED", "EMPLOYER_CONFIRMED"} :
                 VerifyReferralOutcome(v, source)
           \/ EditReferral(v)
    PROVE  DeliveryInvariant'
<1> DEFINE copy == task[v].referred
           f == task[v].by
<1>1. /\ copy \in ReferredRow /\ referred \in ReferredRow
      /\ task[v].op = "verify" => f \in Contact
      /\ caseStatus \in {"SERVICE_DELIVERY", "PLACED"}
  BY DEF DeliveryInvariant, DeliveryTypeOK, Task, LogKept
<1>2. /\ Answers(v) /\ UNCHANGED <<course, venture, milestone, log>>
      /\ caseStatus' \in {caseStatus, "PLACED"} /\ task[v].op \in ReferredOps
  BY DEF CompleteReferral, VerifyReferralOutcome, EditReferral, Touch, ReferredOps
<1>3. /\ referred' \in ReferredRow
      /\ NoOverlap => /\ Vouched(referred')
                      /\ referred'.source # "" => Settled(referred')
                      /\ referred'.status = "COMPLETED" => Settled(referred')
                      /\ referred.status = "COMPLETED" => referred'.status = "COMPLETED"
  <2>1. ASSUME NEW result \in Result, NEW typed \in BOOLEAN, CompleteReferral(v, result, typed)
        PROVE  <1>3
    <3>1. referred.status = "ACTIVE" /\ result # NoResult
      BY <2>1, DeliveryAssumption DEF CompleteReferral
    <3>2. /\ referred' \in ReferredRow /\ referred'.source = copy.source
          /\ Settled(referred')
      <4>1. PICK m \in {copy.method, "completer"}, w \in {copy.verifier, "completer"} :
               referred' = [copy EXCEPT !.status = "COMPLETED", !.outcome = result,
                                        !.method = m, !.verifier = w]
        BY <1>1, <2>1 DEF CompleteReferral
      <4>2. m \in Contact \cup {"nobody", "completer"} /\ w \in Contact \cup {"nobody", "completer"}
        BY <1>1 DEF ReferredRow
      <4> HIDE DEF copy
      <4> QED
        BY <1>1, <3>1, <4>1, <4>2 DEF ReferredRow, Settled
    <3>3. NoOverlap => copy.source = ""
      BY <1>2, <3>1, CopyFacts DEF Settled
    <3> QED
      BY <3>1, <3>2, <3>3 DEF Vouched, Settled
  <2>2. ASSUME NEW source \in {"SELF_REPORTED", "EMPLOYER_CONFIRMED"},
               VerifyReferralOutcome(v, source)
        PROVE  <1>3
    <3>1. /\ f \in Contact /\ log[f].about /\ log[f].reached /\ copy.status = "COMPLETED"
      BY <1>1, <2>2 DEF VerifyReferralOutcome
    <3>2. /\ referred' \in ReferredRow /\ referred'.source = source /\ referred'.method = f
          /\ source # "SELF_REPORTED" => referred'.verifier = f
          /\ referred'.status = referred.status /\ referred'.outcome = referred.outcome
      BY <1>1, <2>2, <3>1 DEF VerifyReferralOutcome, Stamp, ReferredRow
    <3>3. NoOverlap => Settled(referred)
      BY <1>2, <3>1, CopyFacts
    <3> QED
      BY <3>1, <3>2, <3>3 DEF Vouched, Settled
  <2>3. CASE EditReferral(v)
    <3>1. referred' = copy /\ task[v].op = "edit_referral"
      BY <2>3 DEF EditReferral
    <3>2. NoOverlap => ReferralHolds
      BY DEF DeliveryInvariant
    <3> QED
      BY <1>1, <1>2, <3>1, <3>2, CopyFacts DEF ReferralHolds
  <2> QED
    BY <2>1, <2>2, <2>3
<1>4. DeliveryTypeOK'
  BY <1>1, <1>2, <1>3, AnswersFacts DEF DeliveryInvariant, DeliveryTypeOK
<1>5. CopiesTell' /\ PlacedStays' /\ LogKept'
  BY <1>1, <1>2, StoriesKept DEF DeliveryInvariant, CopiesTell, PlacedStays
<1> QED
  BY <1>2, <1>3, <1>4, <1>5, ReferralWritten DEF DeliveryInvariant

LEMMA RefuseStep ==
    ASSUME DeliveryInvariant, NEW v \in Provider, Refuse(v)
    PROVE  DeliveryInvariant'
<1>1. /\ Answers(v) /\ UNCHANGED <<course, venture, milestone, referred, log, caseStatus>>
  BY DEF Refuse, Answers
<1>2. DeliveryTypeOK'
  BY <1>1, AnswersFacts DEF DeliveryInvariant, DeliveryTypeOK
<1>3. CopiesTell' /\ PlacedStays' /\ LogKept'
  BY <1>1, StoriesKept DEF DeliveryInvariant, CopiesTell, PlacedStays
<1> QED
  BY <1>1, <1>2, <1>3, ReferralKept DEF DeliveryInvariant

\* Where requests do not overlap, one is taken up when there is none.
LEMMA NoTaskElse ==
    ASSUME DeliveryTypeOK, NEW v \in Provider, NEW op, NEW f, LoadTask(v, op, f), round.atOnce = 1
    PROVE  \A u \in Provider : task[u] = NoTask
<1> DEFINE busy == {u \in Provider : task[u] # NoTask}
<1>1. IsFiniteSet(busy)
  BY DeliveryAssumption, FS_Subset
<1>2. Cardinality(busy) \in Nat /\ Cardinality(busy) < 1
  BY <1>1, FS_CardinalityType DEF LoadTask
<1>3. busy = {}
  BY <1>1, <1>2, FS_EmptySet
<1> QED
  BY <1>3

LEMMA LoadTaskStep ==
    ASSUME DeliveryInvariant, NEW v \in Provider,
           NEW op \in DeliveryOps, NEW f \in Contact \cup {"nobody"}, LoadTask(v, op, f)
    PROVE  DeliveryInvariant'
<1> DEFINE t == task'[v]
<1>1. /\ DeliveryTypeOK
      /\ course \in CourseRow /\ venture \in VentureRow /\ milestone \in MilestoneRow
      /\ referred \in ReferredRow
  BY DEF DeliveryInvariant, DeliveryTypeOK
<1>2. /\ UNCHANGED <<course, venture, milestone, referred, log, caseStatus, round>>
      /\ \A u \in Provider : u # v => task'[u] = task[u]
      /\ t = [NoTask EXCEPT !.op = op, !.by = f, !.placed = (caseStatus = "PLACED"),
                            !.course = IF op \in CourseOps THEN course ELSE NewCourse,
                            !.venture = IF op \in VentureOps THEN venture ELSE NewVenture,
                            !.milestone = IF op \in MilestoneOps THEN milestone ELSE NewMilestone,
                            !.referred = IF op \in ReferredOps THEN referred ELSE ActiveReferral]
      /\ op \in round.does /\ (op = "verify" => f # "nobody")
  BY <1>1, NoTaskFacts DEF LoadTask, DeliveryTypeOK, Task, NoTask
<1>3. /\ t.op = op /\ t.by = f /\ t.placed = (caseStatus = "PLACED")
      /\ t.course = (IF op \in CourseOps THEN course ELSE NewCourse)
      /\ t.venture = (IF op \in VentureOps THEN venture ELSE NewVenture)
      /\ t.milestone = (IF op \in MilestoneOps THEN milestone ELSE NewMilestone)
      /\ t.referred = (IF op \in ReferredOps THEN referred ELSE ActiveReferral)
  BY <1>2 DEF NoTask
<1>4. t \in Task
  BY <1>1, <1>2, NoTaskFacts DEF Task
<1>5. task' \in [Provider -> Task]
  <2>1. task' = [task EXCEPT ![v] = t]
    BY <1>1 DEF LoadTask, DeliveryTypeOK
  <2> HIDE DEF t
  <2> QED
    BY <1>1, <1>4, <2>1 DEF DeliveryTypeOK
<1> HIDE DEF t
<1>6. DeliveryTypeOK'
  BY <1>1, <1>2, <1>5 DEF DeliveryTypeOK
<1>7. CopiesTell'
  <2>1. CourseTells(t.course) /\ VentureTells(t.venture) /\ MilestoneTells(t.milestone)
    BY <1>3, NoTaskFacts DEF DeliveryInvariant, CopiesTell
  <2> QED
    BY <1>2, <2>1 DEF DeliveryInvariant, CopiesTell, t
<1>8. PlacedStays'
  <2>1. t.placed \/ t.venture.disbursed => caseStatus = "PLACED"
    BY <1>3, NoTaskFacts DEF DeliveryInvariant, PlacedStays
  <2> QED
    BY <1>2, <2>1 DEF DeliveryInvariant, PlacedStays, t
<1>9. LogKept'
  BY <1>2, <1>3 DEF DeliveryInvariant, LogKept, t
<1>10. Singly'
  <2>1. ASSUME round.atOnce = 1 PROVE \A u \in Provider : task[u] = NoTask
    BY <1>1, <2>1, NoTaskElse
  <2>2. op \in ReferredOps => t.referred = referred
    BY <1>3
  <2>3. round.atOnce = 1 => \A u \in Provider : u # v => task'[u] = NoTask
    BY <1>2, <2>1
  <2>4. NoTask.op \notin ReferredOps
    BY NoTaskFacts DEF ReferredOps
  <2>5. ASSUME round.atOnce = 1, NEW u \in Provider, task'[u].op \in ReferredOps
        PROVE  task'[u].referred = referred
    BY <1>3, <2>2, <2>3, <2>4, <2>5 DEF t
  <2> QED
    BY <1>2, <2>3, <2>5 DEF Singly
<1>11. ASSUME NoOverlap' PROVE ReferralHolds'
  <2>1. NoOverlap /\ ReferralHolds
    BY <1>2, <1>11 DEF DeliveryInvariant, NoOverlap
  <2>2. Vouched(referred)'
    BY <1>2, <2>1 DEF ReferralHolds, Vouched
  <2>3. /\ t.referred.source # "" => Settled(t.referred)
        /\ t.referred.status = "COMPLETED" => Settled(t.referred)
        /\ round.atOnce # 1 =>
              /\ t.op # "edit_referral"
              /\ t.referred.status = "COMPLETED" => referred.status = "COMPLETED"
    <3>1. /\ referred.source # "" => Settled(referred)
          /\ referred.status = "COMPLETED" => Settled(referred)
          /\ round.atOnce # 1 => op # "edit_referral"
      BY <1>2, <2>1 DEF ReferralHolds, NoOverlap
    <3>2. t.referred = referred \/ t.referred = ActiveReferral
      BY <1>3
    <3> QED
      BY <1>3, <3>1, <3>2, NoTaskFacts
  <2>4. ASSUME NEW u \in Provider
        PROVE  LET copy == task'[u].referred
               IN  /\ copy.source # "" => Settled(copy)
                   /\ copy.status = "COMPLETED" => Settled(copy)
                   /\ round.atOnce # 1 =>
                         /\ task'[u].op # "edit_referral"
                         /\ copy.status = "COMPLETED" => referred.status = "COMPLETED"
    <3>1. CASE u = v
      <4>1. round.atOnce # 1 /\ t.referred.status = "COMPLETED" => referred.status = "COMPLETED"
        BY <2>3
      <4> QED
        BY <2>3, <3>1, <4>1 DEF t
    <3>2. CASE u # v
      <4>1. task'[u] = task[u]
        BY <1>2, <3>2
      <4> QED
        BY <2>1, <4>1 DEF ReferralHolds
    <3> QED
      BY <3>1, <3>2
  <2>5. UNCHANGED <<referred, round>>
    BY <1>2
  <2> QED
    BY <2>1, <2>2, <2>4, <2>5 DEF ReferralHolds, Settled
<1> QED
  BY <1>6, <1>7, <1>8, <1>9, <1>10, <1>11 DEF DeliveryInvariant

\* A contact is recorded once, so that what it vouches for is not rewritten.
LEMMA AttemptStep ==
    ASSUME DeliveryInvariant, NEW f \in Contact, NEW reached \in BOOLEAN, NEW about \in BOOLEAN,
           RecordAttempt(f, reached, about)
    PROVE  DeliveryInvariant'
<1>1. /\ UNCHANGED <<course, venture, milestone, referred, caseStatus, task, round>>
      /\ log' \in [Contact -> ContactRow]
      /\ \A h \in Contact : log[h].reached \/ log[h].about => log'[h] = log[h]
      /\ \A h \in Contact : log'[h].reached \/ log'[h].about => log'[h].made
  BY DEF RecordAttempt, DeliveryInvariant, DeliveryTypeOK, LogKept, ContactRow
<1>2. DeliveryTypeOK' /\ CopiesTell' /\ PlacedStays' /\ Singly'
  BY <1>1 DEF DeliveryInvariant, DeliveryTypeOK, CopiesTell, PlacedStays, Singly
<1>3. LogKept'
  BY <1>1 DEF DeliveryInvariant, LogKept
<1>4. ASSUME NoOverlap' PROVE ReferralHolds'
  <2>1. NoOverlap /\ ReferralHolds
    BY <1>1, <1>4 DEF DeliveryInvariant, NoOverlap
  <2>2. Vouched(referred)'
    BY <1>1, <2>1 DEF ReferralHolds, Vouched
  <2> QED
    BY <1>1, <2>1, <2>2 DEF ReferralHolds
<1> QED
  BY <1>2, <1>3, <1>4 DEF DeliveryInvariant

LEMMA DeliveryKept == DeliveryInvariant /\ [DeliveryNext]_deliveryVars => DeliveryInvariant'
<1> SUFFICES ASSUME DeliveryInvariant, [DeliveryNext]_deliveryVars PROVE DeliveryInvariant'
  OBVIOUS
<1>1. ASSUME NEW v \in Provider, DeliveryStep(v) PROVE DeliveryInvariant'
  BY <1>1, LoadTaskStep, RefuseStep, CourseSteps, VentureSteps, MilestoneSteps, ReferralSteps
     DEF DeliveryStep
<1>2. CASE UNCHANGED deliveryVars
  BY <1>2 DEF deliveryVars, DeliveryInvariant, DeliveryTypeOK, CopiesTell, PlacedStays, LogKept,
              Singly, NoOverlap, ReferralHolds, Vouched
<1> QED
  BY <1>1, <1>2, AttemptStep DEF DeliveryNext

\* What is delivered and verified is well formed, old copies included
\* (services of training, enterprises and followups).
THEOREM DeliverySound == DeliverySpec => []DeliveryInvariant
BY DeliveryStarts, DeliveryKept, PTL DEF DeliverySpec

\* However many conclude a course, pay out, settle a milestone or verify an
\* outcome at once on old copies, each row tells one story, and a verified
\* outcome bears the one contact that vouches for it.
THEOREM DeliveryOneStory == DeliverySpec => []OneStory
<1>1. DeliveryInvariant => OneStory
  <2> SUFFICES ASSUME DeliveryInvariant PROVE OneStory
    OBVIOUS
  <2>1. Derived(course) = course
    BY CourseRows DEF DeliveryInvariant, DeliveryTypeOK, CopiesTell
  <2>2. RowsTell
    BY <2>1 DEF DeliveryInvariant, CopiesTell, PlacedStays, RowsTell, CourseTells, VentureTells,
                MilestoneTells
  <2>3. VerifiedTogether
    BY DEF DeliveryInvariant, ReferralHolds, NoOverlap, Vouched, Settled, VerifiedTogether
  <2> QED
    BY <2>2, <2>3 DEF OneStory
<1> QED
  BY <1>1, DeliverySound, PTL

-----------------------------------------------------------------------------
(* Intake: what a workbook is judged against, row by row.                  *)

LEMMA SeenAfterFacts ==
    ASSUME NEW sheet \in Seq(SheetRow), NEW seen
    PROVE  /\ SeenAfter(sheet, seen)[0] = seen
           /\ \A n \in 1 .. Len(sheet) :
                 SeenAfter(sheet, seen)[n] =
                    IF sheet[n].fault = "none" /\ ~Known(sheet[n].who, SeenAfter(sheet, seen)[n - 1])
                    THEN SeenAfter(sheet, seen)[n - 1] \cup Keys(sheet[n].who)
                    ELSE SeenAfter(sheet, seen)[n - 1]
<1> DEFINE Next1(b, n) == IF sheet[n].fault = "none" /\ ~Known(sheet[n].who, b)
                         THEN b \cup Keys(sheet[n].who) ELSE b
           Defines(f, m) == f = [n \in 0 .. m |-> IF n = 0 THEN seen ELSE Next1(f[n - 1], n)]
           S == {m \in Nat : \E f : Defines(f, m)}
<1> HIDE DEF Next1
<1>1. 0 \in S
  <2>1. Defines([n \in 0 .. 0 |-> seen], 0)
    OBVIOUS
  <2> QED
    BY <2>1
<1>2. ASSUME NEW m \in Nat, m \in S PROVE m + 1 \in S
  <2>1. PICK f : Defines(f, m)
    BY <1>2
  <2> DEFINE g == [n \in 0 .. m + 1 |-> IF n <= m THEN f[n] ELSE Next1(f[m], m + 1)]
  <2>2. \A n \in 0 .. m + 1 : g[n] = IF n = 0 THEN seen ELSE Next1(g[n - 1], n)
    <3> SUFFICES ASSUME NEW n \in 0 .. m + 1
                 PROVE  g[n] = IF n = 0 THEN seen ELSE Next1(g[n - 1], n)
      OBVIOUS
    <3>1. CASE n = 0
      BY <2>1, <3>1
    <3>2. CASE n \in 1 .. m
      <4>1. g[n] = f[n] /\ g[n - 1] = f[n - 1]
        BY <3>2
      <4>2. f[n] = Next1(f[n - 1], n)
        BY <2>1, <3>2
      <4> QED
        BY <3>2, <4>1, <4>2
    <3>3. CASE n = m + 1
      BY <3>3
    <3> QED
      BY <3>1, <3>2, <3>3
  <2>3. \E h : Defines(h, m + 1)
    <3> HIDE DEF Next1
    <3> SUFFICES Defines(g, m + 1)
      OBVIOUS
    <3> QED
      BY <2>2
  <2> QED
    BY <2>3
<1>3. \A m \in Nat : m \in S
  <2> HIDE DEF S
  <2> QED
    BY <1>1, <1>2, NatSteps
<1>4. \E f : Defines(f, Len(sheet))
  BY <1>3, LenProperties
<1>5. SeenAfter(sheet, seen) = CHOOSE f : Defines(f, Len(sheet))
  BY DEF SeenAfter, Next1
<1>6. Defines(SeenAfter(sheet, seen), Len(sheet))
  BY <1>4, <1>5
<1>7. Len(sheet) \in Nat
  BY LenProperties
<1>8. SeenAfter(sheet, seen)[0] = seen
  BY <1>6, <1>7
<1>9. ASSUME NEW n \in 1 .. Len(sheet)
      PROVE  SeenAfter(sheet, seen)[n] = Next1(SeenAfter(sheet, seen)[n - 1], n)
  <2>1. n \in 0 .. Len(sheet) /\ n # 0
    BY <1>7
  <2> QED
    BY <1>6, <2>1
<1> QED
  BY <1>8, <1>9 DEF Next1

LEMMA SeenGrows ==
    ASSUME NEW sheet \in Seq(SheetRow), NEW seen
    PROVE  \A n \in 0 .. Len(sheet) : \A m \in 0 .. n :
              SeenAfter(sheet, seen)[m] \subseteq SeenAfter(sheet, seen)[n]
<1> DEFINE A(n) == SeenAfter(sheet, seen)[n]
           S == {n \in Nat : n \in 0 .. Len(sheet) => \A m \in 0 .. n : A(m) \subseteq A(n)}
<1>0. Len(sheet) \in Nat
  BY LenProperties
<1>1. ASSUME NEW n \in 1 .. Len(sheet) PROVE A(n - 1) \subseteq A(n)
  <2>1. A(n) = IF sheet[n].fault = "none" /\ ~Known(sheet[n].who, A(n - 1))
               THEN A(n - 1) \cup Keys(sheet[n].who) ELSE A(n - 1)
    BY SeenAfterFacts
  <2> HIDE DEF A
  <2> QED
    BY <2>1
<1> HIDE DEF A
<1>2. 0 \in S
  OBVIOUS
<1>3. ASSUME NEW n \in Nat, n \in S PROVE n + 1 \in S
  <2> SUFFICES ASSUME n + 1 \in 0 .. Len(sheet), NEW m \in 0 .. n + 1
               PROVE  A(m) \subseteq A(n + 1)
    OBVIOUS
  <2>1. n \in 0 .. Len(sheet) /\ n + 1 \in 1 .. Len(sheet) /\ (n + 1) - 1 = n
    BY <1>0
  <2>2. A(n) \subseteq A(n + 1)
    BY <1>1, <2>1
  <2>3. CASE m = n + 1
    BY <2>3
  <2>4. CASE m \in 0 .. n
    BY <1>3, <2>1, <2>2, <2>4
  <2> QED
    BY <2>3, <2>4
<1>4. \A n \in Nat : n \in S
  <2> HIDE DEF S
  <2> QED
    BY <1>2, <1>3, NatSteps
<1> QED
  BY <1>0, <1>4 DEF A

NewOnes(sheet, seen) == {i \in DOMAIN sheet : RowStatus(sheet, seen, i) = "new"}

\* The new rows are those without a fault whose woman or man is not known yet.
LEMMA NewMeansUnknown ==
    ASSUME NEW sheet \in Seq(SheetRow), NEW seen, NEW i \in DOMAIN sheet
    PROVE  /\ i \in NewOnes(sheet, seen)
                  <=> sheet[i].fault = "none" /\ ~Known(sheet[i].who, SeenBefore(sheet, seen, i))
           /\ RowStatus(sheet, seen, i) \in {"error", "duplicate", "new"}
           /\ RowStatus(sheet, seen, i) = "duplicate" =>
                 Known(sheet[i].who, SeenBefore(sheet, seen, i))
<1>1. sheet[i].fault \in {"none", "cell", "form"}
  <2>1. i \in 1 .. Len(sheet)
    BY LenProperties
  <2>2. sheet[i] \in SheetRow
    BY <2>1, ElementOfSeq
  <2> QED
    BY <2>2 DEF SheetRow
<1>2. CASE sheet[i].fault = "cell"
  BY <1>2 DEF NewOnes, RowStatus
<1>3. CASE sheet[i].fault # "cell" /\ Known(sheet[i].who, SeenBefore(sheet, seen, i))
  BY <1>3 DEF NewOnes, RowStatus
<1>4. CASE sheet[i].fault = "form" /\ ~Known(sheet[i].who, SeenBefore(sheet, seen, i))
  BY <1>4 DEF NewOnes, RowStatus
<1>5. CASE sheet[i].fault = "none" /\ ~Known(sheet[i].who, SeenBefore(sheet, seen, i))
  BY <1>5 DEF NewOnes, RowStatus
<1> QED
  BY <1>1, <1>2, <1>3, <1>4, <1>5

\* A new row adds who it is about to what is seen from there on.
LEMMA NewIsSeen ==
    ASSUME NEW sheet \in Seq(SheetRow), NEW seen, NEW i \in NewOnes(sheet, seen),
           NEW n \in i .. Len(sheet)
    PROVE  Keys(sheet[i].who) \subseteq SeenAfter(sheet, seen)[n]
<1>0. Len(sheet) \in Nat /\ i \in 1 .. Len(sheet) /\ i \in DOMAIN sheet
  BY LenProperties DEF NewOnes
<1>1. sheet[i].fault = "none" /\ ~Known(sheet[i].who, SeenAfter(sheet, seen)[i - 1])
  BY <1>0, NewMeansUnknown DEF SeenBefore
<1>2. Keys(sheet[i].who) \subseteq SeenAfter(sheet, seen)[i]
  <2>1. SeenAfter(sheet, seen)[i] = SeenAfter(sheet, seen)[i - 1] \cup Keys(sheet[i].who)
    BY <1>0, <1>1, SeenAfterFacts
  <2> QED
    BY <2>1
<1>3. n \in 0 .. Len(sheet) /\ i \in 0 .. n
  BY <1>0
<1>4. SeenAfter(sheet, seen)[i] \subseteq SeenAfter(sheet, seen)[n]
  BY <1>3, SeenGrows
<1> QED
  BY <1>2, <1>4

\* Nothing else does.
LEMMA SeenIsOldOrNew ==
    ASSUME NEW sheet \in Seq(SheetRow), NEW seen
    PROVE  \A n \in 0 .. Len(sheet) :
              SeenAfter(sheet, seen)[n]
                 \subseteq seen \cup UNION {Keys(sheet[i].who) : i \in NewOnes(sheet, seen)}
<1> DEFINE A(n) == SeenAfter(sheet, seen)[n]
           All == seen \cup UNION {Keys(sheet[i].who) : i \in NewOnes(sheet, seen)}
           S == {n \in Nat : n \in 0 .. Len(sheet) => A(n) \subseteq All}
<1>0. Len(sheet) \in Nat
  BY LenProperties
<1>1. ASSUME NEW n \in 1 .. Len(sheet), A(n - 1) \subseteq All PROVE A(n) \subseteq All
  <2>1. n \in DOMAIN sheet
    BY <1>0, LenProperties
  <2>2. CASE sheet[n].fault = "none" /\ ~Known(sheet[n].who, A(n - 1))
    <3>1. n \in NewOnes(sheet, seen)
      BY <2>1, <2>2, NewMeansUnknown DEF SeenBefore
    <3>2. A(n) = A(n - 1) \cup Keys(sheet[n].who)
      BY <2>2, SeenAfterFacts
    <3> QED
      BY <1>1, <3>1, <3>2
  <2>3. CASE ~(sheet[n].fault = "none" /\ ~Known(sheet[n].who, A(n - 1)))
    <3>1. A(n) = A(n - 1)
      BY <2>3, SeenAfterFacts
    <3> QED
      BY <1>1, <3>1
  <2> QED
    BY <2>2, <2>3
<1>2. A(0) = seen
  BY SeenAfterFacts
<1>3. 0 \in S
  BY <1>2
<1>4. ASSUME NEW n \in Nat, n \in S PROVE n + 1 \in S
  <2> HIDE DEF A, All
  <2> SUFFICES ASSUME n + 1 \in 0 .. Len(sheet) PROVE A(n + 1) \subseteq All
    OBVIOUS
  <2>1. n \in 0 .. Len(sheet) /\ n + 1 \in 1 .. Len(sheet) /\ (n + 1) - 1 = n
    BY <1>0
  <2> QED
    BY <1>1, <1>4, <2>1
<1>5. \A n \in Nat : n \in S
  <2> HIDE DEF S
  <2> QED
    BY <1>3, <1>4, NatSteps
<1> QED
  BY <1>0, <1>5

\* No two new rows share an identity, and none shares one with what was on file.
LEMMA NewApart ==
    ASSUME NEW sheet \in Seq(SheetRow), NEW seen, NEW i \in NewOnes(sheet, seen)
    PROVE  /\ Keys(sheet[i].who) \cap seen = {}
           /\ \A j \in NewOnes(sheet, seen) :
                 j # i => Keys(sheet[j].who) \cap Keys(sheet[i].who) = {}
<1>0. Len(sheet) \in Nat /\ NewOnes(sheet, seen) \subseteq 1 .. Len(sheet)
        /\ DOMAIN sheet = 1 .. Len(sheet)
  BY LenProperties DEF NewOnes
<1>1. \A k \in NewOnes(sheet, seen) :
         Keys(sheet[k].who) \cap SeenAfter(sheet, seen)[k - 1] = {}
  BY <1>0, NewMeansUnknown DEF SeenBefore, Known
<1>2. \A k \in NewOnes(sheet, seen) : \A j \in NewOnes(sheet, seen) :
         j < k => Keys(sheet[j].who) \cap Keys(sheet[k].who) = {}
  <2> SUFFICES ASSUME NEW k \in NewOnes(sheet, seen), NEW j \in NewOnes(sheet, seen), j < k
               PROVE  Keys(sheet[j].who) \cap Keys(sheet[k].who) = {}
    OBVIOUS
  <2>1. k - 1 \in j .. Len(sheet)
    BY <1>0
  <2>2. Keys(sheet[j].who) \subseteq SeenAfter(sheet, seen)[k - 1]
    BY <2>1, NewIsSeen
  <2> QED
    BY <1>1, <2>2
<1>3. Keys(sheet[i].who) \cap seen = {}
  <2>1. i - 1 \in 0 .. Len(sheet) /\ 0 \in 0 .. i - 1
    BY <1>0
  <2>2. SeenAfter(sheet, seen)[0] \subseteq SeenAfter(sheet, seen)[i - 1]
    BY <2>1, SeenGrows
  <2>3. SeenAfter(sheet, seen)[0] = seen
    BY SeenAfterFacts
  <2> QED
    BY <1>1, <2>2, <2>3
<1>4. \A j \in NewOnes(sheet, seen) : j # i => j < i \/ i < j
  BY <1>0
<1> QED
  BY <1>2, <1>3, <1>4

\* The rows that are written: each new one once, in some order.
LEMMA NewRowsOnce ==
    ASSUME NEW sheet \in Seq(SheetRow), NEW seen
    PROVE  /\ NewRows(sheet, seen) \in Seq(Person)
           /\ \E at \in [1 .. Len(NewRows(sheet, seen)) -> NewOnes(sheet, seen)] :
                 /\ \A n \in 1 .. Len(NewRows(sheet, seen)) :
                       NewRows(sheet, seen)[n] = sheet[at[n]].who
                 /\ \A n, m \in 1 .. Len(NewRows(sheet, seen)) : n # m => at[n] # at[m]
                 /\ \A i \in NewOnes(sheet, seen) :
                       \E n \in 1 .. Len(NewRows(sheet, seen)) : at[n] = i
<1> DEFINE new == NewOnes(sheet, seen)
           count(i) == Cardinality({j \in new : j <= i})
           nth(n) == CHOOSE i \in new : count(i) = n
           found == [n \in 1 .. Cardinality(new) |-> sheet[nth(n)].who]
<1>1. Len(sheet) \in Nat /\ new \in SUBSET (1 .. Len(sheet))
  BY LenProperties DEF NewOnes
<1>2. IsFiniteSet(new) /\ Cardinality(new) \in Nat
  <2>1. IsFiniteSet(1 .. Len(sheet))
    BY <1>1, FS_Interval
  <2> QED
    BY <1>1, <2>1, FS_Subset, FS_CardinalityType
<1> HIDE DEF new
<1>3. NewRows(sheet, seen) = found
  BY DEF NewRows, NewOnes, new
<1>4. \A i \in new : /\ IsFiniteSet({j \in new : j <= i})
                     /\ count(i) \in 1 .. Cardinality(new)
  <2> TAKE i \in new
  <2> DEFINE T == {j \in new : j <= i}
  <2>1. T \in SUBSET new /\ i \in T
    BY <1>1
  <2>2. IsFiniteSet(T) /\ Cardinality(T) <= Cardinality(new) /\ Cardinality(T) \in Nat
    BY <1>2, <2>1, FS_Subset, FS_CardinalityType
  <2>3. Cardinality(T) # 0
    BY <2>1, <2>2, FS_EmptySet
  <2> QED
    BY <1>2, <2>2, <2>3
<1>5. \A i, j \in new : i < j => count(i) # count(j)
  <2> SUFFICES ASSUME NEW i \in new, NEW j \in new, i < j, count(i) = count(j) PROVE FALSE
    OBVIOUS
  <2>0. new \subseteq Nat
    BY <1>1
  <2>1. {k \in new : k <= i} \in SUBSET {k \in new : k <= j}
    <3>1. \A k \in new : k <= i => k <= j
      BY <2>0
    <3> QED
      BY <3>1
  <2>2. {k \in new : k <= j} = {k \in new : k <= i}
    BY <1>4, <2>1, FS_Subset
  <2>3. j \in {k \in new : k <= j} /\ j \notin {k \in new : k <= i}
    BY <2>0
  <2> QED
    BY <2>2, <2>3
<1>6. \A i, j \in new : i # j => i < j \/ j < i
  <2>1. \A i \in new : i \in Nat
    BY <1>1
  <2>2. \A a, b \in Nat : a # b => a < b \/ b < a
    OBVIOUS
  <2> QED
    BY <2>1, <2>2
<1>7. \A n \in 1 .. Cardinality(new) : \E i \in new : count(i) = n
  <2> DEFINE c == [i \in new |-> count(i)]
  <2>1. c \in [new -> 1 .. Cardinality(new)]
    BY <1>4
  <2>2. \A i, j \in new : c[i] = c[j] => i = j
    BY <1>5, <1>6
  <2>3. c \in Injection(new, 1 .. Cardinality(new))
    BY <2>1, <2>2 DEF Injection, IsInjective
  <2>4. IsFiniteSet(1 .. Cardinality(new)) /\ Cardinality(1 .. Cardinality(new)) = Cardinality(new)
    BY <1>2, FS_Interval
  <2>5. c \in Surjection(new, 1 .. Cardinality(new))
    BY <2>3, <2>4, FS_Injection
  <2> QED
    BY <2>5 DEF Surjection
<1> HIDE DEF count
<1>8. \A n \in 1 .. Cardinality(new) : nth(n) \in new /\ count(nth(n)) = n
  BY <1>7
<1> HIDE DEF nth
<1>9. \A i \in new : count(i) \in 1 .. Cardinality(new) /\ nth(count(i)) = i
  BY <1>4, <1>5, <1>6, <1>8
<1>10. \A i \in new : sheet[i].who \in Person
  <2> TAKE i \in new
  <2>1. sheet[i] \in SheetRow
    BY <1>1, ElementOfSeq
  <2> QED
    BY <2>1 DEF SheetRow
<1>11. found \in Seq(Person) /\ Len(found) = Cardinality(new)
  <2>1. \A n \in 1 .. Cardinality(new) : sheet[nth(n)].who \in Person
    BY <1>8, <1>10
  <2>2. found \in [1 .. Cardinality(new) -> Person]
    BY <2>1
  <2> QED
    BY <1>2, <2>2, SeqDef, LenProperties
<1> DEFINE at == [n \in 1 .. Cardinality(new) |-> nth(n)]
<1>12. /\ at \in [1 .. Len(found) -> new]
       /\ \A n \in 1 .. Len(found) : found[n] = sheet[at[n]].who
       /\ \A n, m \in 1 .. Len(found) : n # m => at[n] # at[m]
       /\ \A i \in new : \E n \in 1 .. Len(found) : at[n] = i
  <2>1. \A n, m \in 1 .. Cardinality(new) : n # m => nth(n) # nth(m)
    BY <1>8
  <2>2. \A i \in new : \E n \in 1 .. Cardinality(new) : nth(n) = i
    BY <1>9
  <2>3. at \in [1 .. Cardinality(new) -> new]
    BY <1>8
  <2> QED
    BY <1>11, <2>1, <2>2, <2>3
<1> HIDE DEF found, at
<1> QED
  BY <1>3, <1>11, <1>12 DEF new

AllKeys == UNION {Keys(p) : p \in Person}

Request == [op : IntakeOps \cup {""}, sheet : Seq(SheetRow), seen : SUBSET AllKeys, which : Nat]

IntakeTypeOK ==
    /\ youth \in Seq(Person) /\ filed \in SUBSET Person
    /\ sent \in [Clerk -> Request]
    /\ register \in Registers

\* Whoever corrects a record corrects one that is there.
EditsExist ==
    \A k \in Clerk : sent[k].op = "edit" => /\ "edit" \in register.does
                                             /\ sent[k].which \in DOMAIN youth

\* Unless records are corrected, nobody who was read, or filed, goes off file.
StaysOnFile ==
    "edit" \notin register.does =>
        /\ \A who \in filed : Known(who, ExistingIndex)
        /\ \A k \in Clerk : sent[k].seen \subseteq ExistingIndex

\* One workbook at a time is judged against the register as it is.
ByWorkbook == register.does \cap {"form", "edit"} = {} /\ register.atOnce = 1

JudgedAgainstAll ==
    ByWorkbook =>
        /\ \A k, l \in Clerk : sent[k] # NoDesk /\ sent[l] # NoDesk => k = l
        /\ \A k \in Clerk : sent[k].op \in {"preview", "commit"} => sent[k].seen = ExistingIndex

OnePerIdentity ==
    ByWorkbook =>
        \A i, j \in DOMAIN youth : i # j => Keys(youth[i]) \cap Keys(youth[j]) = {}

IntakeInvariant ==
    /\ IntakeTypeOK
    /\ EditsExist
    /\ StaysOnFile
    /\ JudgedAgainstAll
    /\ OnePerIdentity

LEMMA NoDeskIsRequest == NoDesk \in Request /\ NoDesk.op = "" /\ NoDesk.seen = {}
<1>1. <<>> \in Seq(SheetRow)
  BY EmptySeq
<1> QED
  BY <1>1 DEF NoDesk, Request

LEMMA IntakeStartsSound == IntakeInit => IntakeInvariant
<1> SUFFICES ASSUME IntakeInit PROVE IntakeInvariant
  OBVIOUS
<1>1. youth \in Seq(Person) /\ DOMAIN youth = {}
  <2>1. <<>> \in Seq(Person) /\ Len(<<>>) = 0
    BY EmptySeq
  <2>2. DOMAIN youth = 1 .. 0
    BY <2>1, LenProperties DEF IntakeInit
  <2> QED
    BY <2>1, <2>2 DEF IntakeInit
<1>2. IntakeTypeOK
  BY <1>1, NoDeskIsRequest DEF IntakeTypeOK, IntakeInit
<1>3. EditsExist /\ StaysOnFile /\ JudgedAgainstAll /\ OnePerIdentity
  BY <1>1, NoDeskIsRequest
     DEF IntakeInit, EditsExist, StaysOnFile, JudgedAgainstAll, OnePerIdentity, ByWorkbook
<1> QED
  BY <1>2, <1>3 DEF IntakeInvariant

\* A request that starts while one at a time may run is the only one.
LEMMA OneStarts ==
    ASSUME IntakeTypeOK, NEW k \in Clerk, NEW op, IntakeStarts(k, op), register.atOnce = 1
    PROVE  \A l \in Clerk : sent[l] = NoDesk
<1>1. IsFiniteSet({l \in Clerk : sent[l] # NoDesk})
  BY IntakeAssumption, FS_Subset
<1>2. Cardinality({l \in Clerk : sent[l] # NoDesk}) \in Nat
  BY <1>1, FS_CardinalityType
<1>3. Cardinality({l \in Clerk : sent[l] # NoDesk}) = 0
  BY <1>2 DEF IntakeStarts
<1>4. {l \in Clerk : sent[l] # NoDesk} = {}
  BY <1>1, <1>3, FS_EmptySet
<1> QED
  BY <1>4

LEMMA BeginStep ==
    ASSUME IntakeInvariant, NEW k \in Clerk, NEW op \in IntakeOps, NEW sheet \in register.sheets,
           BeginImport(k, op, sheet)
    PROVE  IntakeInvariant'
<1> USE DEF IntakeInvariant
<1>1. sheet \in Seq(SheetRow)
  BY IntakeAssumption DEF IntakeTypeOK
<1>2. ExistingIndex \in SUBSET AllKeys
  <2>1. \A i \in DOMAIN youth : youth[i] \in Person
    BY LenProperties, ElementOfSeq DEF IntakeTypeOK
  <2> QED
    BY <2>1 DEF ExistingIndex, AllKeys
<1> DEFINE r == [NoDesk EXCEPT !.op = op, !.sheet = sheet, !.seen = ExistingIndex]
<1>3. r \in Request /\ r.op = op /\ op \in {"preview", "commit"} /\ r.seen = ExistingIndex
  BY <1>1, <1>2, NoDeskIsRequest DEF Request, NoDesk, BeginImport
<1> HIDE DEF r
<1>4. sent' = [sent EXCEPT ![k] = r] /\ UNCHANGED <<youth, filed, register>>
  BY DEF BeginImport, r
<1>5. ExistingIndex' = ExistingIndex
  BY <1>4 DEF ExistingIndex
<1>6. IntakeTypeOK' /\ EditsExist'
  BY <1>3, <1>4 DEF IntakeTypeOK, EditsExist
<1>7. StaysOnFile' /\ OnePerIdentity'
  BY <1>3, <1>4, <1>5 DEF StaysOnFile, OnePerIdentity, ByWorkbook, IntakeTypeOK
<1>8. JudgedAgainstAll'
  <2> SUFFICES ASSUME ByWorkbook
               PROVE  /\ \A a, b \in Clerk : sent'[a] # NoDesk /\ sent'[b] # NoDesk => a = b
                      /\ \A a \in Clerk : sent'[a].op \in {"preview", "commit"} =>
                            sent'[a].seen = ExistingIndex
    BY <1>4, <1>5 DEF JudgedAgainstAll, ByWorkbook
  <2>1. \A l \in Clerk : sent[l] = NoDesk
    BY OneStarts DEF BeginImport, ByWorkbook
  <2>2. sent'[k] = r /\ \A l \in Clerk : l # k => sent'[l] = NoDesk
    BY <1>4, <2>1 DEF IntakeTypeOK
  <2> QED
    BY <1>3, <2>2, NoDeskIsRequest
<1> QED
  BY <1>6, <1>7, <1>8

LEMMA LoadYouthStep ==
    ASSUME IntakeInvariant, NEW k \in Clerk, NEW i \in 1 .. YouthCap, LoadYouth(k, i)
    PROVE  IntakeInvariant'
<1> USE DEF IntakeInvariant
<1> DEFINE r == [NoDesk EXCEPT !.op = "edit", !.which = i]
<1>1. r \in Request /\ r.op = "edit" /\ r.which = i /\ r.seen = {}
  <2>1. i \in Nat
    BY IntakeAssumption
  <2>2. "edit" \in IntakeOps
    BY DEF IntakeOps
  <2>3. r \in Request
    BY <2>1, <2>2, NoDeskIsRequest DEF Request
  <2> QED
    BY <2>3 DEF NoDesk
<1> HIDE DEF r
<1>2. sent' = [sent EXCEPT ![k] = r] /\ UNCHANGED <<youth, filed, register>>
  BY DEF LoadYouth, r
<1>3. i \in DOMAIN youth /\ "edit" \in register.does
  BY DEF LoadYouth, IntakeStarts
<1>4. IntakeTypeOK' /\ EditsExist'
  BY <1>1, <1>2, <1>3 DEF IntakeTypeOK, EditsExist
<1> QED
  BY <1>2, <1>3, <1>4 DEF StaysOnFile, OnePerIdentity, JudgedAgainstAll, ByWorkbook

LEMMA ReportStep ==
    ASSUME IntakeInvariant, NEW k \in Clerk, IntakeEnds(k), UNCHANGED <<youth, filed>>
    PROVE  IntakeInvariant'
<1> USE DEF IntakeInvariant
<1>1. sent' = [sent EXCEPT ![k] = NoDesk] /\ UNCHANGED <<youth, filed, register>>
  BY DEF IntakeEnds
<1>2. \A l \in Clerk : sent'[l] = NoDesk \/ sent'[l] = sent[l]
  BY <1>1 DEF IntakeTypeOK
<1>3. ExistingIndex' = ExistingIndex
  BY <1>1 DEF ExistingIndex
<1>4. IntakeTypeOK' /\ EditsExist'
  BY <1>1, <1>2, NoDeskIsRequest DEF IntakeTypeOK, EditsExist
<1>5. StaysOnFile' /\ OnePerIdentity' /\ JudgedAgainstAll'
  BY <1>1, <1>2, <1>3, NoDeskIsRequest
     DEF StaysOnFile, OnePerIdentity, JudgedAgainstAll, ByWorkbook
<1> QED
  BY <1>4, <1>5

\* Adding rows leaves everybody on file.
LEMMA OnFileKept ==
    ASSUME youth \in Seq(Person), NEW found \in Seq(Person), youth' = youth \o found
    PROVE  /\ youth' \in Seq(Person)
           /\ DOMAIN youth' = 1 .. Len(youth) + Len(found)
           /\ \A i \in DOMAIN youth : i \in DOMAIN youth' /\ youth'[i] = youth[i]
           /\ \A n \in 1 .. Len(found) : youth'[Len(youth) + n] = found[n]
           /\ ExistingIndex \subseteq ExistingIndex'
<1>1. /\ youth' \in Seq(Person) /\ Len(youth') = Len(youth) + Len(found)
      /\ \A i \in 1 .. Len(youth) + Len(found) :
            youth'[i] = IF i <= Len(youth) THEN youth[i] ELSE found[i - Len(youth)]
  BY ConcatProperties
<1>2. Len(youth) \in Nat /\ Len(found) \in Nat /\ DOMAIN youth = 1 .. Len(youth)
        /\ DOMAIN youth' = 1 .. Len(youth')
  BY <1>1, LenProperties
<1>3. \A i \in DOMAIN youth : i \in DOMAIN youth' /\ youth'[i] = youth[i]
  BY <1>1, <1>2
<1>4. \A n \in 1 .. Len(found) : youth'[Len(youth) + n] = found[n]
  <2> TAKE n \in 1 .. Len(found)
  <2>1. Len(youth) + n \in 1 .. Len(youth) + Len(found) /\ ~(Len(youth) + n <= Len(youth))
          /\ (Len(youth) + n) - Len(youth) = n
    BY <1>2
  <2> QED
    BY <1>1, <2>1
<1>5. ExistingIndex \subseteq ExistingIndex'
  BY <1>3 DEF ExistingIndex
<1> QED
  BY <1>1, <1>2, <1>3, <1>4, <1>5

LEMMA RegisterYouthStep ==
    ASSUME IntakeInvariant, NEW who \in Person, RegisterYouth(who)
    PROVE  IntakeInvariant'
<1> USE DEF IntakeInvariant
<1>1. <<who>> \in Seq(Person) /\ youth' = youth \o <<who>>
  <2>1. youth \in Seq(Person)
    BY DEF IntakeTypeOK
  <2>2. youth' = Append(youth, who)
    BY DEF RegisterYouth
  <2>3. Append(youth, who) = youth \o <<who>>
    BY <2>1, AppendIsConcat
  <2>4. <<who>> \in Seq(Person)
    OBVIOUS
  <2> QED
    BY <2>2, <2>3, <2>4
<1>2. /\ youth' \in Seq(Person) /\ ExistingIndex \subseteq ExistingIndex'
      /\ \A i \in DOMAIN youth : i \in DOMAIN youth'
  BY <1>1, OnFileKept DEF IntakeTypeOK
<1>3. UNCHANGED <<filed, sent, register>> /\ ~ByWorkbook
  BY DEF RegisterYouth, ByWorkbook
<1>4. IntakeTypeOK' /\ EditsExist'
  BY <1>2, <1>3 DEF IntakeTypeOK, EditsExist
<1>5. StaysOnFile'
  BY <1>2, <1>3 DEF StaysOnFile, Known
<1>6. JudgedAgainstAll' /\ OnePerIdentity'
  BY <1>3 DEF JudgedAgainstAll, OnePerIdentity, ByWorkbook
<1> QED
  BY <1>4, <1>5, <1>6

LEMMA EditYouthStep ==
    ASSUME IntakeInvariant, NEW k \in Clerk, NEW who \in Person, EditYouth(k, who)
    PROVE  IntakeInvariant'
<1> USE DEF IntakeInvariant
<1>1. "edit" \in register.does /\ sent[k].which \in 1 .. Len(youth) /\ youth \in Seq(Person)
  BY LenProperties DEF EditYouth, EditsExist, IntakeTypeOK
<1>2. youth' \in Seq(Person) /\ DOMAIN youth' = DOMAIN youth
  <2>1. youth' = [youth EXCEPT ![sent[k].which] = who]
    BY DEF EditYouth
  <2>2. youth' \in Seq(Person) /\ Len(youth') = Len(youth)
    BY <1>1, <2>1, ExceptSeq
  <2> QED
    BY <1>1, <2>2, LenProperties
<1>3. sent' = [sent EXCEPT ![k] = NoDesk] /\ UNCHANGED <<filed, register>>
  BY DEF EditYouth, IntakeEnds
<1>4. IntakeTypeOK' /\ EditsExist'
  BY <1>2, <1>3, NoDeskIsRequest DEF IntakeTypeOK, EditsExist
<1>5. StaysOnFile' /\ OnePerIdentity' /\ JudgedAgainstAll'
  BY <1>1, <1>3 DEF StaysOnFile, OnePerIdentity, JudgedAgainstAll, ByWorkbook
<1> QED
  BY <1>4, <1>5

LEMMA CommitStep ==
    ASSUME IntakeInvariant, NEW k \in Clerk, CommitImport(k)
    PROVE  IntakeInvariant'
<1> USE DEF IntakeInvariant
<1> DEFINE sheet == sent[k].sheet
           seen == sent[k].seen
           found == NewRows(sheet, seen)
<1>1. /\ sent[k].op = "commit" /\ ~HasError(sheet, seen) /\ youth' = youth \o found
      /\ filed' = filed \cup {sheet[i].who : i \in DOMAIN sheet}
      /\ sent' = [sent EXCEPT ![k] = NoDesk] /\ register' = register
  BY DEF CommitImport, IntakeEnds
<1>2. sent[k] \in Request /\ sheet \in Seq(SheetRow)
  BY DEF IntakeTypeOK, Request
<1> HIDE DEF sheet, seen, found
<1>3. PICK at \in [1 .. Len(found) -> NewOnes(sheet, seen)] :
         /\ \A n \in 1 .. Len(found) : found[n] = sheet[at[n]].who
         /\ \A n, m \in 1 .. Len(found) : n # m => at[n] # at[m]
         /\ \A i \in NewOnes(sheet, seen) : \E n \in 1 .. Len(found) : at[n] = i
  <2>1. found = NewRows(sheet, seen)
    BY DEF found
  <2> QED
    BY <1>2, <2>1, NewRowsOnce
<1>4. found \in Seq(Person)
  BY <1>2, NewRowsOnce DEF found
<1>5. /\ youth' \in Seq(Person) /\ DOMAIN youth' = 1 .. Len(youth) + Len(found)
      /\ \A i \in DOMAIN youth : i \in DOMAIN youth' /\ youth'[i] = youth[i]
      /\ \A n \in 1 .. Len(found) : youth'[Len(youth) + n] = found[n]
      /\ ExistingIndex \subseteq ExistingIndex'
  BY <1>1, <1>4, OnFileKept DEF IntakeTypeOK
<1>6. Len(youth) \in Nat /\ Len(found) \in Nat /\ DOMAIN youth = 1 .. Len(youth)
  BY <1>4, LenProperties DEF IntakeTypeOK
<1>7. \A i \in DOMAIN sheet : sheet[i].who \in Person
  <2> TAKE i \in DOMAIN sheet
  <2>1. sheet[i] \in SheetRow
    BY <1>2, LenProperties, ElementOfSeq
  <2> QED
    BY <2>1 DEF SheetRow
<1>8. IntakeTypeOK' /\ EditsExist'
  BY <1>1, <1>5, <1>7, NoDeskIsRequest DEF IntakeTypeOK, EditsExist
<1>9. StaysOnFile'
  <2> SUFFICES ASSUME "edit" \notin register.does
               PROVE  /\ \A who \in filed' : Known(who, ExistingIndex')
                      /\ \A l \in Clerk : sent'[l].seen \subseteq ExistingIndex'
    BY <1>1 DEF StaysOnFile
  <2>1. seen \subseteq ExistingIndex'
    BY <1>5 DEF StaysOnFile, seen
  <2>2. \A i \in NewOnes(sheet, seen) : Keys(sheet[i].who) \subseteq ExistingIndex'
    <3> TAKE i \in NewOnes(sheet, seen)
    <3>1. PICK n \in 1 .. Len(found) : at[n] = i
      BY <1>3
    <3>2. Len(youth) + n \in DOMAIN youth' /\ youth'[Len(youth) + n] = sheet[i].who
      BY <1>3, <1>5, <1>6, <3>1
    <3> QED
      BY <3>2 DEF ExistingIndex
  <2>3. \A n \in 0 .. Len(sheet) : SeenAfter(sheet, seen)[n] \subseteq ExistingIndex'
    BY <1>2, <2>1, <2>2, SeenIsOldOrNew
  <2>4. \A i \in DOMAIN sheet : Known(sheet[i].who, ExistingIndex')
    <3> TAKE i \in DOMAIN sheet
    <3>1. CASE i \in NewOnes(sheet, seen)
      <4>1. Keys(sheet[i].who) # {}
        BY DEF Keys
      <4> QED
        BY <2>2, <3>1, <4>1 DEF Known
    <3>2. CASE i \notin NewOnes(sheet, seen)
      <4>1. RowStatus(sheet, seen, i) = "duplicate"
        BY <1>1, <1>2, <3>2, NewMeansUnknown DEF HasError, NewOnes
      <4>2. Known(sheet[i].who, SeenAfter(sheet, seen)[i - 1])
        BY <1>2, <4>1, NewMeansUnknown DEF SeenBefore
      <4>3. i - 1 \in 0 .. Len(sheet)
        BY <1>2, LenProperties
      <4>4. SeenAfter(sheet, seen)[i - 1] \subseteq ExistingIndex'
        BY <2>3, <4>3
      <4> QED
        BY <4>2, <4>4 DEF Known
    <3> QED
      BY <3>1, <3>2
  <2>5. \A who \in filed : Known(who, ExistingIndex')
    BY <1>5 DEF StaysOnFile, Known
  <2>6. \A l \in Clerk : sent'[l].seen \subseteq ExistingIndex'
    BY <1>1, <1>5, NoDeskIsRequest DEF StaysOnFile, IntakeTypeOK
  <2> QED
    BY <1>1, <2>4, <2>5, <2>6
<1>10. ASSUME ByWorkbook PROVE JudgedAgainstAll' /\ OnePerIdentity'
  <2>1. seen = ExistingIndex
    BY <1>1, <1>10 DEF JudgedAgainstAll, seen
  <2>2. sent[k] # NoDesk
    BY <1>1, NoDeskIsRequest
  <2>3. \A l \in Clerk : sent'[l] = NoDesk
    BY <1>1, <1>10, <2>2 DEF JudgedAgainstAll, IntakeTypeOK
  <2>4. JudgedAgainstAll'
    BY <1>1, <2>3, NoDeskIsRequest DEF JudgedAgainstAll, ByWorkbook
  <2>5. ASSUME NEW i \in DOMAIN youth', NEW j \in DOMAIN youth', i < j
        PROVE  Keys(youth'[i]) \cap Keys(youth'[j]) = {}
    <3>1. CASE j \in DOMAIN youth
      <4>1. i \in DOMAIN youth
        BY <1>5, <1>6, <2>5, <3>1
      <4> QED
        BY <1>5, <1>10, <2>5, <3>1, <4>1 DEF OnePerIdentity
    <3>2. CASE j \notin DOMAIN youth
      <4> DEFINE m == j - Len(youth)
      <4>1. m \in 1 .. Len(found) /\ j = Len(youth) + m
        BY <1>5, <1>6, <3>2
      <4>2. youth'[j] = sheet[at[m]].who /\ at[m] \in NewOnes(sheet, seen)
        BY <1>3, <1>5, <4>1
      <4>3. CASE i \in DOMAIN youth
        <5>1. Keys(youth'[i]) \subseteq seen
          BY <1>5, <2>1, <4>3 DEF ExistingIndex
        <5> QED
          BY <1>2, <4>2, <5>1, NewApart
      <4>4. CASE i \notin DOMAIN youth
        <5> DEFINE n == i - Len(youth)
        <5>1. n \in 1 .. Len(found) /\ i = Len(youth) + n /\ n # m
          BY <1>5, <1>6, <2>5, <4>1, <4>4
        <5>2. youth'[i] = sheet[at[n]].who /\ at[n] \in NewOnes(sheet, seen) /\ at[n] # at[m]
          BY <1>3, <1>5, <4>1, <5>1
        <5>3. Keys(sheet[at[n]].who) \cap Keys(sheet[at[m]].who) = {}
          BY <1>2, <4>2, <5>2, NewApart
        <5> QED
          BY <4>2, <5>2, <5>3
      <4> QED
        BY <4>3, <4>4
    <3> QED
      BY <3>1, <3>2
  <2>6. \A i, j \in DOMAIN youth' : i # j => i < j \/ j < i
    BY <1>5, <1>6
  <2>7. OnePerIdentity'
    BY <2>5, <2>6 DEF OnePerIdentity
  <2> QED
    BY <2>4, <2>7
<1>11. ASSUME ~ByWorkbook PROVE JudgedAgainstAll' /\ OnePerIdentity'
  BY <1>1, <1>11 DEF JudgedAgainstAll, OnePerIdentity, ByWorkbook
<1> QED
  BY <1>8, <1>9, <1>10, <1>11

LEMMA IntakeKept == IntakeInvariant /\ [IntakeNext]_intakeVars => IntakeInvariant'
<1> SUFFICES ASSUME IntakeInvariant, [IntakeNext]_intakeVars PROVE IntakeInvariant'
  OBVIOUS
<1>1. ASSUME NEW k \in Clerk, NEW op \in IntakeOps, NEW sheet \in register.sheets,
             BeginImport(k, op, sheet)
      PROVE  IntakeInvariant'
  BY <1>1, BeginStep
<1>2. ASSUME NEW k \in Clerk, ReportImport(k) PROVE IntakeInvariant'
  BY <1>2, ReportStep DEF ReportImport
<1>3. ASSUME NEW k \in Clerk, CommitImport(k) PROVE IntakeInvariant'
  BY <1>3, CommitStep
<1>4. ASSUME NEW k \in Clerk, NEW i \in 1 .. YouthCap, LoadYouth(k, i) PROVE IntakeInvariant'
  BY <1>4, LoadYouthStep
<1>5. ASSUME NEW k \in Clerk, NEW who \in Person, EditYouth(k, who) PROVE IntakeInvariant'
  BY <1>5, EditYouthStep
<1>6. ASSUME NEW who \in Person, RegisterYouth(who) PROVE IntakeInvariant'
  BY <1>6, RegisterYouthStep
<1>7. CASE UNCHANGED intakeVars
  BY <1>7 DEF intakeVars, IntakeInvariant, IntakeTypeOK, EditsExist, StaysOnFile,
              JudgedAgainstAll, OnePerIdentity, ByWorkbook, ExistingIndex
<1> QED
  BY <1>1, <1>2, <1>3, <1>4, <1>5, <1>6, <1>7 DEF IntakeNext

\* Whatever workbooks come, one after another or together: a workbook sent again
\* adds nobody, and workbooks in turn put nobody on file twice (run_import).
THEOREM IntakeOnFileOnce == IntakeSpec => []OnFileOnce
<1>1. IntakeInvariant => OnFileOnce
  BY DEF IntakeInvariant, StaysOnFile, OnePerIdentity, ByWorkbook, OnFileOnce
<1> QED
  BY <1>1, IntakeStartsSound, IntakeKept, PTL DEF IntakeSpec

-----------------------------------------------------------------------------
(* Casework: what a request on a case is in the middle of.                 *)

LEMMA AtMostOne ==
    ASSUME NEW S, IsFiniteSet(S)
    PROVE  Cardinality(S) <= 1 <=> \A x, y \in S : x = y
<1>1. ASSUME Cardinality(S) <= 1, NEW x \in S, NEW y \in S, x # y PROVE FALSE
  <2>1. {x, y} \in SUBSET S
    OBVIOUS
  <2>2. Cardinality({x, y}) <= Cardinality(S) /\ Cardinality({x, y}) \in Nat
        /\ Cardinality(S) \in Nat
    BY <2>1, FS_Subset, FS_CardinalityType
  <2>3. Cardinality({x}) = 1 /\ IsFiniteSet({x})
    BY FS_Singleton
  <2>4. {x, y} = {x} \cup {y} /\ y \notin {x}
    BY <1>1
  <2>5. Cardinality({x} \cup {y}) = Cardinality({x}) + 1
    BY <2>3, <2>4, FS_AddElement
  <2> QED
    BY <1>1, <2>2, <2>3, <2>4, <2>5
<1>2. ASSUME \A x, y \in S : x = y PROVE Cardinality(S) <= 1
  <2>1. CASE S = {}
    BY <2>1, FS_EmptySet
  <2>2. CASE S # {}
    <3>1. PICK x : S = {x}
      BY <1>2, <2>2
    <3> QED
      BY <3>1, FS_Singleton
  <2> QED
    BY <2>1, <2>2
<1> QED
  BY <1>1, <1>2

\* How far a request gets, by what it is for.
Reaches(op, stage) ==
    \/ stage = "begun"
    \/ op \in {"edit", "note"} /\ stage \in {"superseding", "inserting", "syncing"}
    \/ op = "resolve" /\ stage = "syncing"
    \/ op = "choose" /\ stage = "pointing"
    \/ op = "place" /\ stage \in {"opening", "marking"}
    \/ op = "leave" /\ stage = "answering"

CaseTypes ==
    /\ case \in CaseRow
    /\ act \in [ActionId -> ActionRow]
    /\ path \in [PathwayId -> PathwayRow]
    /\ job \in [Worker -> Job]
    /\ shift \in Shifts

JobsFit ==
    \A w \in Worker : /\ Reaches(job[w].op, job[w].stage)
                      /\ job[w].op \in shift.does \cup {"none"}
                      /\ job[w].op \in {"resolve", "amend"} => job[w].id \in ActionId
                      /\ job[w].op \in {"revise", "reword", "move"} => job[w].id \in PathwayId
                      /\ job[w].stage = "pointing" => job[w].id \in PathwayId

\* Where requests run one after the other.
OneJob == shift.atOnce = 1 => \A v, w \in Worker : job[v] # Idle /\ job[w] # Idle => v = w

CaseJobs == CaseTypes /\ JobsFit /\ OneJob

LEMMA IdleIsJob ==
    /\ Idle \in Job /\ Idle.op = "none" /\ Idle.stage = "begun"
    /\ NewCase \in CaseRow /\ NoAction \in ActionRow /\ NoPathway \in PathwayRow
<1>1. PathwayCap \in Nat /\ ActionCap \in Nat
  BY CaseworkAssumption
<1>2. NewCase \in CaseRow
  BY <1>1 DEF NewCase, CaseRow
<1>3. NoAction \in ActionRow
  BY DEF NoAction, ActionRow
<1>4. NoPathway \in PathwayRow
  BY <1>1 DEF NoPathway, PathwayRow
<1>5. Idle \in Job
  BY <1>1, <1>2, <1>3, <1>4 DEF Idle, Job, Stage
<1> QED
  BY <1>2, <1>3, <1>4, <1>5 DEF Idle

LEMMA CaseJobsStart == CaseworkInit => CaseJobs
<1> SUFFICES ASSUME CaseworkInit PROVE CaseJobs
  OBVIOUS
<1>1. CaseTypes
  <2>1. case \in CaseRow
    BY CaseworkAssumption DEF CaseworkInit, Shift, Created
  <2> QED
    BY <2>1, IdleIsJob DEF CaseworkInit, CaseTypes
<1>2. JobsFit /\ OneJob
  BY IdleIsJob DEF CaseworkInit, JobsFit, OneJob, Reaches
<1> QED
  BY <1>1, <1>2 DEF CaseJobs

\* What a job may be, next to what its shift does.
JobFits(r) ==
    /\ r \in Job
    /\ Reaches(r.op, r.stage)
    /\ r.op \in shift.does \cup {"none"}
    /\ r.op \in {"resolve", "amend"} => r.id \in ActionId
    /\ r.op \in {"revise", "reword", "move"} => r.id \in PathwayId
    /\ r.stage = "pointing" => r.id \in PathwayId

\* A step that gives one worker a job that fits leaves every job fitting.
LEMMA PutJob ==
    ASSUME CaseJobs, NEW w \in Worker, NEW r, JobFits(r),
           job' = [job EXCEPT ![w] = r], shift' = shift,
           case' \in CaseRow, act' \in [ActionId -> ActionRow], path' \in [PathwayId -> PathwayRow],
           job[w] # Idle \/ (shift.atOnce = 1 => \A v \in Worker : job[v] = Idle)
    PROVE  CaseJobs' /\ job'[w] = r /\ \A v \in Worker \ {w} : job'[v] = job[v]
<1>1. job'[w] = r /\ \A v \in Worker \ {w} : job'[v] = job[v]
  BY DEF CaseJobs, CaseTypes
<1>2. CaseTypes'
  BY <1>1 DEF CaseJobs, CaseTypes, JobFits
<1>3. JobsFit'
  BY <1>1 DEF CaseJobs, JobsFit, JobFits
<1>4. OneJob'
  BY <1>1 DEF CaseJobs, OneJob
<1> QED
  BY <1>1, <1>2, <1>3, <1>4 DEF CaseJobs

\* Where one request runs at a time, one that starts finds nobody at work.
LEMMA StartsAlone ==
    ASSUME CaseJobs, NEW w \in Worker, NEW op, Starts(w, op), shift.atOnce = 1
    PROVE  \A v \in Worker : job[v] = Idle
<1>1. IsFiniteSet({v \in Worker : job[v] # Idle})
  BY CaseworkAssumption, FS_Subset
<1>2. Cardinality({v \in Worker : job[v] # Idle}) \in Nat
  BY <1>1, FS_CardinalityType
<1>3. Cardinality({v \in Worker : job[v] # Idle}) = 0
  BY <1>2 DEF Starts
<1>4. {v \in Worker : job[v] # Idle} = {}
  BY <1>1, <1>3, FS_EmptySet
<1> QED
  BY <1>4

LEMMA StartStep ==
    ASSUME CaseJobs, NEW w \in Worker, NEW op, Starts(w, op), NEW r, JobFits(r),
           job' = [job EXCEPT ![w] = r], UNCHANGED <<case, act, path, shift>>
    PROVE  CaseJobs' /\ job'[w] = r /\ \A v \in Worker \ {w} : job'[v] = job[v]
<1>1. shift.atOnce = 1 => \A v \in Worker : job[v] = Idle
  BY StartsAlone
<1> QED
  BY <1>1, PutJob DEF CaseJobs, CaseTypes

LEMMA FinishStep ==
    ASSUME CaseJobs, NEW w \in Worker, job[w] # Idle, Finishes(w), shift' = shift,
           case' \in CaseRow, act' \in [ActionId -> ActionRow], path' \in [PathwayId -> PathwayRow]
    PROVE  CaseJobs' /\ job'[w] = Idle /\ \A v \in Worker \ {w} : job'[v] = job[v]
<1>1. JobFits(Idle)
  BY IdleIsJob DEF JobFits, Reaches
<1> QED
  BY <1>1, PutJob DEF Finishes

LEMMA GoesStep ==
    ASSUME CaseJobs, NEW w \in Worker, job[w] # Idle, NEW stage \in Stage, stage # "pointing",
           Goes(w, stage), Reaches(job[w].op, stage), shift' = shift,
           case' \in CaseRow, act' \in [ActionId -> ActionRow], path' \in [PathwayId -> PathwayRow]
    PROVE  /\ CaseJobs'
           /\ job'[w].op = job[w].op /\ job'[w].stage = stage /\ job'[w].copy = job[w].copy
           /\ job'[w].id = job[w].id /\ job'[w].assignment = job[w].assignment
           /\ job'[w].body = job[w].body
           /\ \A v \in Worker \ {w} : job'[v] = job[v]
<1> DEFINE r == [job[w] EXCEPT !.stage = stage]
<1>1. job[w] \in Job
  BY DEF CaseJobs, CaseTypes
<1>2. /\ r \in Job /\ r.op = job[w].op /\ r.stage = stage /\ r.copy = job[w].copy
      /\ r.id = job[w].id /\ r.assignment = job[w].assignment /\ r.body = job[w].body
  BY <1>1 DEF Job
<1>3. job' = [job EXCEPT ![w] = r]
  BY DEF Goes
<1> HIDE DEF r
<1>4. JobFits(r)
  BY <1>2 DEF JobFits, CaseJobs, JobsFit
<1> QED
  BY <1>2, <1>3, <1>4, PutJob

Made == {i \in PathwayId : path[i].made}

\* No assignment changes cases.
Rooted == "move" \notin shift.does

\* Pathways are made in order; once there is one there is a current one; the
\* others name what replaced them, each something else.
ChainHolds ==
    /\ \A i \in PathwayId : /\ path[i].made \/ path[i] = NoPathway
                            /\ path[i].current => path[i].made
                            /\ path[i].here
    /\ \A i, j \in PathwayId : i < j /\ path[j].made => path[i].made
    /\ Made # {} => Current # {}
    /\ \A i, j \in Current : i = j
    /\ \A i \in Made \ Current : path[i].by \in Made /\ path[i].by > i
    /\ \A i, j \in Made \ Current : path[i].by = path[j].by => i = j

\* A copy of a pathway is what its row is, or was while it was current.
CopyFits(r) ==
    r.op \in {"revise", "reword"} =>
        /\ r.id \in PathwayId /\ path[r.id].made
        /\ r.assignment.here
        /\ r.assignment = path[r.id] \/ (r.assignment.current /\ ~path[r.id].current)

\* With one request at a time: what it works on is as it is ...
FreshJob(r) ==
    /\ r.op \in {"edit", "clear", "assign"} /\ r.stage = "begun" => r.copy = case
    /\ r.op \in {"revise", "reword"} => r.assignment = path[r.id]
    /\ Rooted /\ r.stage = "pointing" => Current = {r.id}
    /\ r.stage = "inserting" /\ {"clear", "amend"} \cap shift.does = {} => OpenActions = {}

\* ... and where it has nothing to write any more, the case agrees.
PointerFits(r) == Rooted /\ r.stage # "pointing" => Current = {case.pathway} \ {0}

NextFits(r) ==
    {"clear", "amend"} \cap shift.does = {} =>
        /\ \A i, j \in OpenActions : i = j
        /\ r.stage \notin {"superseding", "inserting", "syncing"} => ShowsNext

Steady == shift.atOnce = 1 /\ ~shift.dies

Agrees(r) == FreshJob(r) /\ PointerFits(r) /\ NextFits(r)

\* Whoever is at work answers for what the case shows; at rest it shows all.
CaseSettled ==
    Steady => /\ AtRest => Agrees(Idle)
              /\ \A w \in Worker : job[w] # Idle => Agrees(job[w])

CaseInvariant ==
    /\ CaseJobs
    /\ OneCurrent(path)
    /\ Rooted => ChainHolds
    /\ Rooted => \A w \in Worker : CopyFits(job[w])
    /\ CaseSettled

LEMMA CaseInvariantStarts == CaseworkInit => CaseInvariant
<1> SUFFICES ASSUME CaseworkInit PROVE CaseInvariant
  OBVIOUS
<1>1. CaseJobs
  BY CaseJobsStart
<1>2. \A i \in PathwayId : /\ path[i] = NoPathway /\ ~path[i].made /\ ~path[i].current
                           /\ path[i].here
  BY DEF CaseworkInit, NoPathway
<1>3. Made = {} /\ Current = {}
  BY <1>2 DEF Made, Current
<1>4. ChainHolds
  BY <1>2, <1>3 DEF ChainHolds
<1>5. OneCurrent(path)
  BY <1>3, FS_EmptySet DEF OneCurrent, Current
<1>6. \A i \in ActionId : act[i] = NoAction /\ act[i].status # "OPEN"
  BY DEF CaseworkInit, NoAction
<1>7. OpenActions = {}
  BY <1>6 DEF OpenActions
<1>8. ShowsNext /\ case.pathway = 0
  <2>1. case = shift.opened /\ shift.opened \in Created
    BY CaseworkAssumption DEF CaseworkInit, Shift
  <2> QED
    BY <1>6, <2>1 DEF ShowsNext, Created
<1>9. \A w \in Worker : job[w] = Idle /\ job[w].op = "none" /\ job[w].stage = "begun"
  BY IdleIsJob DEF CaseworkInit
<1>10. Agrees(Idle)
  BY <1>3, <1>7, <1>8, IdleIsJob DEF Agrees, FreshJob, PointerFits, NextFits
<1> QED
  BY <1>1, <1>4, <1>5, <1>9, <1>10, IdleIsJob DEF CaseInvariant, CaseSettled, CopyFits

\* If only w moves, and its job agrees with the case it leaves, the case is settled.
LEMMA SettledBy ==
    ASSUME NEW w \in Worker, \A v \in Worker \ {w} : job'[v] = job[v],
           CaseJobs, job[w] # Idle \/ (shift.atOnce = 1 => \A v \in Worker : job[v] = Idle),
           Steady => Agrees(job[w])' , shift' = shift
    PROVE  CaseSettled'
<1> SUFFICES ASSUME Steady
             PROVE  /\ AtRest' => Agrees(Idle)'
                    /\ \A u \in Worker : job'[u] # Idle => Agrees(job[u])'
  BY DEF CaseSettled, Steady
<1>1. \A v \in Worker \ {w} : job'[v] = Idle
  BY DEF Steady, CaseJobs, OneJob
<1>2. AtRest' => Agrees(Idle)'
  <2> SUFFICES ASSUME AtRest' PROVE Agrees(Idle)'
    OBVIOUS
  <2>1. job'[w] = Idle
    BY DEF AtRest
  <2>2. FreshJob(job[w])' /\ PointerFits(job[w])' /\ NextFits(job[w])'
    BY DEF Agrees
  <2> QED
    BY <2>1, <2>2 DEF Agrees, FreshJob, PointerFits, NextFits
<1> QED
  BY <1>1, <1>2

LEMMA ChainKept ==
    ASSUME CaseInvariant, path' = path, shift' = shift
    PROVE  /\ Current' = Current /\ OneCurrent(path)' /\ (Rooted => ChainHolds)'
BY DEF CaseInvariant, Rooted, ChainHolds, Made, Current, OneCurrent

LEMMA ShowsKept ==
    ASSUME act' = act, shift' = shift, case'.next = case.next
    PROVE  ShowsNext' <=> ShowsNext
BY DEF ShowsNext, Summary, OpenActions

\* A request that starts with a copy that is fresh.
LEMMA StartKeeps ==
    ASSUME CaseInvariant, NEW w \in Worker, NEW op, Starts(w, op), NEW r, JobFits(r),
           job' = [job EXCEPT ![w] = r], UNCHANGED <<case, act, path, shift>>,
           Rooted => CopyFits(r), FreshJob(r), r.stage \in {"begun", "superseding"}
    PROVE  CaseInvariant'
<1> USE DEF CaseInvariant
<1>1. CaseJobs' /\ job'[w] = r /\ \A v \in Worker \ {w} : job'[v] = job[v]
  BY StartStep
<1>2. /\ Current' = Current /\ OneCurrent(path)' /\ (Rooted => ChainHolds)'
      /\ Rooted' = Rooted
  BY ChainKept DEF Rooted
<1>3. OpenActions' = OpenActions /\ ShowsNext' = ShowsNext
  BY DEF OpenActions, Summary, ShowsNext
<1>4. (Rooted => \A v \in Worker : CopyFits(job[v]))'
  BY <1>1, <1>2 DEF CopyFits
<1>5. shift.atOnce = 1 => \A v \in Worker : job[v] = Idle
  BY StartsAlone
<1>6. Steady => Agrees(job[w])'
  <2> SUFFICES ASSUME Steady PROVE Agrees(job[w])'
    OBVIOUS
  <2>1. FreshJob(Idle) /\ PointerFits(Idle) /\ NextFits(Idle)
    BY <1>5 DEF Steady, CaseSettled, AtRest, Agrees
  <2>2. FreshJob(job[w])'
    BY <1>1, <1>2, <1>3 DEF FreshJob
  <2>3. PointerFits(job[w])'
    BY <1>1, <1>2, <2>1, IdleIsJob DEF PointerFits
  <2>4. NextFits(job[w])'
    BY <1>1, <1>3, <2>1, IdleIsJob DEF NextFits
  <2> QED
    BY <2>2, <2>3, <2>4 DEF Agrees
<1>7. CaseSettled'
  BY <1>1, <1>5, <1>6, SettledBy
<1> QED
  BY <1>1, <1>2, <1>4, <1>7

\* A request that finishes, if what it leaves behind agrees.
LEMMA FinishKeeps ==
    ASSUME CaseInvariant, NEW w \in Worker, job[w] # Idle, Finishes(w),
           UNCHANGED <<path, shift>>, case' \in CaseRow, act' \in [ActionId -> ActionRow],
           Steady => PointerFits(Idle)' /\ NextFits(Idle)'
    PROVE  CaseInvariant'
<1> USE DEF CaseInvariant
<1>1. CaseJobs' /\ job'[w] = Idle /\ \A v \in Worker \ {w} : job'[v] = job[v]
  BY FinishStep DEF CaseJobs, CaseTypes
<1>2. OneCurrent(path)' /\ (Rooted => ChainHolds)'
  BY ChainKept
<1>3. (Rooted => \A v \in Worker : CopyFits(job[v]))'
  BY <1>1, IdleIsJob DEF CopyFits, Rooted
<1>4. Steady => Agrees(job[w])'
  BY <1>1, IdleIsJob DEF Agrees, FreshJob, PointerFits, NextFits
<1>5. CaseSettled'
  BY <1>1, <1>4, SettledBy
<1> QED
  BY <1>1, <1>2, <1>3, <1>5

\* A request that goes on, if it agrees with what it has written.
LEMMA GoesKeeps ==
    ASSUME CaseInvariant, NEW w \in Worker, job[w] # Idle, NEW stage \in Stage, stage # "pointing",
           Goes(w, stage), Reaches(job[w].op, stage), UNCHANGED <<path, shift>>,
           case' \in CaseRow, act' \in [ActionId -> ActionRow], stage # "begun",
           Steady /\ {"clear", "amend"} \cap shift.does = {} =>
              /\ stage = "inserting" => OpenActions' = {}
              /\ \A i, j \in OpenActions' : i = j
              /\ stage \notin {"superseding", "inserting", "syncing"} => ShowsNext',
           Steady /\ Rooted => Current = {case'.pathway} \ {0}
    PROVE  CaseInvariant'
<1> USE DEF CaseInvariant
<1>1. /\ CaseJobs' /\ job'[w].op = job[w].op /\ job'[w].stage = stage
      /\ job'[w].id = job[w].id /\ job'[w].assignment = job[w].assignment
      /\ \A v \in Worker \ {w} : job'[v] = job[v]
  BY GoesStep DEF CaseJobs, CaseTypes
<1>2. /\ Current' = Current /\ OneCurrent(path)' /\ (Rooted => ChainHolds)'
      /\ Rooted' = Rooted
  BY ChainKept DEF Rooted
<1>3. (Rooted => \A v \in Worker : CopyFits(job[v]))'
  <2> SUFFICES ASSUME Rooted, NEW v \in Worker PROVE CopyFits(job[v])'
    BY <1>2
  <2>1. CopyFits(job[v])
    OBVIOUS
  <2>2. job'[v].op = job[v].op /\ job'[v].id = job[v].id /\ job'[v].assignment = job[v].assignment
    BY <1>1
  <2> QED
    BY <2>1, <2>2 DEF CopyFits
<1>4. Steady => Agrees(job[w])'
  <2> SUFFICES ASSUME Steady PROVE Agrees(job[w])'
    OBVIOUS
  <2>1. FreshJob(job[w])
    BY DEF CaseSettled, Agrees
  <2>2. FreshJob(job[w])'
    BY <1>1, <1>2, <2>1 DEF FreshJob
  <2>3. PointerFits(job[w])'
    BY <1>1, <1>2 DEF PointerFits
  <2>4. NextFits(job[w])'
    BY <1>1 DEF NextFits, ShowsNext
  <2> QED
    BY <2>2, <2>3, <2>4 DEF Agrees
<1>5. CaseSettled'
  BY <1>1, <1>4, SettledBy
<1> QED
  BY <1>1, <1>2, <1>3, <1>5

\* What holds of the job of whoever takes a step.
LEMMA JobHere ==
    ASSUME CaseInvariant, NEW w \in Worker
    PROVE  /\ job[w] \in Job /\ job[w].copy \in CaseRow /\ Reaches(job[w].op, job[w].stage)
           /\ case \in CaseRow /\ act \in [ActionId -> ActionRow]
           /\ job[w].op # "none" \/ job[w].stage # "begun" => job[w] # Idle
           /\ Steady /\ job[w] # Idle =>
                 FreshJob(job[w]) /\ PointerFits(job[w]) /\ NextFits(job[w])
           /\ job[w].op \in shift.does \cup {"none"}
<1>1. job[w] \in Job
  BY DEF CaseInvariant, CaseJobs, CaseTypes
<1>2. job[w].copy \in CaseRow
  BY <1>1 DEF Job
<1> QED
  BY <1>1, <1>2, IdleIsJob
     DEF CaseInvariant, CaseJobs, CaseTypes, JobsFit, CaseSettled, Agrees

LEMMA CurrentKept == path' = path => Current' = Current
BY DEF Current

LEMMA SummaryKept == act' = act => OpenActions' = OpenActions /\ Summary' = Summary
BY DEF OpenActions, Summary

LEMMA RootedKept == shift' = shift => Rooted' = Rooted
BY DEF Rooted

LEMMA DieStep ==
    ASSUME CaseInvariant, NEW w \in Worker, Die(w)
    PROVE  CaseInvariant'
<1>1. job[w] # Idle /\ Finishes(w) /\ UNCHANGED <<case, act, path, shift>> /\ ~Steady
  BY DEF Die, Steady
<1> QED
  BY <1>1, JobHere, FinishKeeps

LEMMA AssignStep ==
    ASSUME CaseInvariant, NEW w \in Worker, Assign(w)
    PROVE  CaseInvariant'
<1>1. /\ job[w].op = "assign" /\ case' = job[w].copy
      /\ Finishes(w) /\ UNCHANGED <<act, path, shift>>
  BY DEF Assign
<1>2. job[w] # Idle /\ job[w].stage = "begun"
  BY <1>1, JobHere DEF Reaches
<1>3. Steady => case' = case /\ PointerFits(job[w]) /\ NextFits(job[w])
  BY <1>1, <1>2, JobHere DEF FreshJob
<1>4. Steady => PointerFits(Idle)' /\ NextFits(Idle)'
  BY <1>1, <1>2, <1>3, IdleIsJob, CurrentKept, SummaryKept, ShowsKept, RootedKept DEF PointerFits, NextFits
<1> QED
  BY <1>1, <1>2, <1>4, JobHere, FinishKeeps

LEMMA ClearNextStep ==
    ASSUME CaseInvariant, NEW w \in Worker, ClearNext(w)
    PROVE  CaseInvariant'
<1>1. /\ job[w].op = "clear" /\ case' = [job[w].copy EXCEPT !.next = ""]
      /\ Finishes(w) /\ UNCHANGED <<act, path, shift>>
  BY DEF ClearNext
<1>2. job[w] # Idle /\ job[w].stage = "begun" /\ "clear" \in shift.does
  BY <1>1, JobHere DEF Reaches
<1>3. case' \in CaseRow /\ case'.pathway = job[w].copy.pathway
  BY <1>1, JobHere DEF CaseRow
<1>4. Steady => job[w].copy = case /\ PointerFits(job[w])
  BY <1>1, <1>2, JobHere DEF FreshJob
<1>5. Steady => PointerFits(Idle)' /\ NextFits(Idle)'
  BY <1>1, <1>2, <1>3, <1>4, RootedKept DEF PointerFits, NextFits, Current
<1> QED
  BY <1>1, <1>2, <1>3, <1>5, JobHere, FinishKeeps

LEMMA EditCaseStep ==
    ASSUME CaseInvariant, NEW w \in Worker, NEW status \in {"ACTIVE", "PLACED", "EXITED"},
           NEW closed \in BOOLEAN, NEW given \in Body \cup {""}, EditCase(w, status, closed, given)
    PROVE  CaseInvariant'
<1> DEFINE copy == job[w].copy
           next == IF given = "" THEN copy.next ELSE given
           row == [copy EXCEPT !.status = status, !.closed = closed, !.next = next]
<1>1. /\ job[w].op = "edit" /\ job[w].stage = "begun" /\ case' = row
      /\ UNCHANGED <<act, path, shift>>
      /\ IF given \notin {"", case.next}
         THEN job' = [job EXCEPT ![w].stage = "superseding", ![w].body = given] ELSE Finishes(w)
  BY DEF EditCase
<1>2. job[w] # Idle /\ copy \in CaseRow
  BY <1>1, JobHere
<1>3. row \in CaseRow /\ row.pathway = copy.pathway /\ row.next = next
  BY <1>2 DEF CaseRow
<1>4. Steady => copy = case /\ PointerFits(job[w]) /\ NextFits(job[w])
  BY <1>1, <1>2, JobHere DEF FreshJob
<1> HIDE DEF row
<1>5. CASE given \in {"", case.next}
  <2>1. Steady => case'.pathway = case.pathway /\ case'.next = case.next
    BY <1>1, <1>3, <1>4, <1>5
  <2>2. Steady => PointerFits(Idle)' /\ NextFits(Idle)'
    BY <1>1, <1>4, <2>1, IdleIsJob, CurrentKept, SummaryKept, ShowsKept, RootedKept DEF PointerFits, NextFits
  <2> QED
    BY <1>1, <1>2, <1>3, <1>5, <2>2, JobHere, FinishKeeps
<1>6. CASE given \notin {"", case.next}
  <2> DEFINE r == [job[w] EXCEPT !.stage = "superseding", !.body = given]
  <2>1. job' = [job EXCEPT ![w] = r]
    BY <1>1, <1>6
  <2>2. /\ r \in Job /\ r.op = "edit" /\ r.stage = "superseding" /\ r.id = job[w].id
    BY <1>1, JobHere DEF Job, Stage
  <2> HIDE DEF r
  <2>3. JobFits(r)
    BY <1>1, <2>2, JobHere DEF JobFits, Reaches
  <2>4. CaseJobs' /\ job'[w] = r /\ \A v \in Worker \ {w} : job'[v] = job[v]
    BY <1>1, <1>2, <1>3, <2>1, <2>3, PutJob DEF CaseInvariant, CaseJobs, CaseTypes
  <2>5. /\ Current' = Current /\ OneCurrent(path)' /\ (Rooted => ChainHolds)'
        /\ Rooted' = Rooted
    BY <1>1, ChainKept DEF Rooted
  <2>6. (Rooted => \A v \in Worker : CopyFits(job[v]))'
    BY <1>1, <2>2, <2>4, <2>5 DEF CaseInvariant, CopyFits
  <2>7. Steady => Agrees(job[w])'
    <3>1. job'[w] = r /\ OpenActions' = OpenActions /\ case'.pathway = copy.pathway
      BY <1>1, <1>3, <2>4 DEF OpenActions
    <3>2. FreshJob(job[w])'
      BY <2>2, <2>5, <3>1 DEF FreshJob
    <3>3. Steady => PointerFits(job[w])'
      BY <1>1, <1>4, <2>2, <2>5, <3>1 DEF PointerFits
    <3>4. Steady => NextFits(job[w])'
      BY <1>1, <1>4, <2>2, <3>1 DEF NextFits
    <3> QED
      BY <3>2, <3>3, <3>4 DEF Agrees
  <2>8. CaseSettled'
    BY <1>1, <1>2, <2>4, <2>7, SettledBy DEF CaseInvariant
  <2> QED
    BY <2>4, <2>5, <2>6, <2>8 DEF CaseInvariant
<1> QED
  BY <1>5, <1>6

LEMMA SupersedeStep ==
    ASSUME CaseInvariant, NEW w \in Worker, Supersede(w)
    PROVE  CaseInvariant'
<1>1. /\ job[w].stage = "superseding" /\ Goes(w, "inserting") /\ UNCHANGED <<case, path, shift>>
      /\ act' = [i \in ActionId |->
                    IF i \in OpenActions THEN [act[i] EXCEPT !.status = "SUPERSEDED"] ELSE act[i]]
  BY DEF Supersede, IsSuperseded
<1>2. act' \in [ActionId -> ActionRow]
  <2>1. \A i \in ActionId : act[i] \in ActionRow
    BY JobHere
  <2>2. \A i \in ActionId : [act[i] EXCEPT !.status = "SUPERSEDED"] \in ActionRow
    BY <2>1 DEF ActionRow
  <2> QED
    BY <1>1, <2>1, <2>2
<1>3. OpenActions' = {}
  <2>1. \A i \in ActionId : act'[i].status # "OPEN"
    <3> TAKE i \in ActionId
    <3>1. act[i] \in ActionRow
      BY JobHere
    <3>2. CASE i \in OpenActions
      BY <1>1, <3>1, <3>2 DEF ActionRow
    <3>3. CASE i \notin OpenActions
      BY <1>1, <3>3 DEF OpenActions
    <3> QED
      BY <3>2, <3>3
  <2> QED
    BY <2>1 DEF OpenActions
<1>4. job[w] # Idle /\ Reaches(job[w].op, "inserting")
  BY <1>1, JobHere DEF Reaches
<1>5. Steady /\ Rooted => Current = {case'.pathway} \ {0}
  BY <1>1, <1>4, JobHere DEF PointerFits
<1>6. "inserting" \in Stage /\ case' \in CaseRow
  BY <1>1, JobHere DEF Stage
<1> QED
  BY <1>1, <1>2, <1>3, <1>4, <1>5, <1>6, GoesKeeps

LEMMA InsertActionStep ==
    ASSUME CaseInvariant, NEW w \in Worker, NEW i \in ActionId, InsertAction(w, i)
    PROVE  CaseInvariant'
<1>1. /\ job[w].stage = "inserting" /\ Goes(w, "syncing") /\ UNCHANGED <<case, path, shift>>
      /\ act' = [act EXCEPT ![i] = [status |-> "OPEN", body |-> job[w].body, resolved |-> FALSE]]
  BY DEF InsertAction
<1>2. act' \in [ActionId -> ActionRow]
  BY <1>1, JobHere DEF ActionRow, Job
<1>3. job[w] # Idle /\ Reaches(job[w].op, "syncing") /\ "syncing" \in Stage /\ case' \in CaseRow
  BY <1>1, JobHere DEF Reaches, Stage
<1>4. Steady /\ Rooted => Current = {case'.pathway} \ {0}
  BY <1>1, <1>3, JobHere DEF PointerFits
<1>5. Steady /\ {"clear", "amend"} \cap shift.does = {} => \A j, k \in OpenActions' : j = k
  <2> SUFFICES ASSUME Steady, {"clear", "amend"} \cap shift.does = {}, NEW j \in OpenActions'
               PROVE  j = i
    OBVIOUS
  <2>1. OpenActions = {}
    BY <1>1, <1>3, JobHere DEF FreshJob
  <2>2. j # i => act'[j] = act[j]
    BY <1>1, JobHere DEF OpenActions
  <2> QED
    BY <2>1, <2>2 DEF OpenActions
<1> QED
  BY <1>1, <1>2, <1>3, <1>4, <1>5, GoesKeeps

LEMMA Caps == ActionCap \in Nat /\ PathwayCap \in Nat
BY CaseworkAssumption

LEMMA GreatestNat ==
    ASSUME NEW S \in SUBSET Nat, S # {}, NEW n \in Nat, \A k \in S : k <= n
    PROVE  \E m \in S : \A k \in S : k <= m
<1> DEFINE T == {n - k : k \in S}
<1>1. T \in SUBSET Nat /\ T # {}
  <2>1. \A k \in S : n - k \in Nat
    OBVIOUS
  <2> QED
    BY <2>1
<1>2. PICK t \in T : \A u \in T : t <= u
  BY <1>1, LeastNat
<1>3. PICK m \in S : t = n - m
  BY <1>2
<1>4. \A k \in S : n - m <= n - k
  BY <1>2, <1>3
<1>5. \A k \in S : k <= m
  <2> TAKE k \in S
  <2>1. n - m <= n - k
    BY <1>4
  <2> QED
    BY <2>1
<1> QED
  BY <1>5

LEMMA SummaryIsText ==
    ASSUME act \in [ActionId -> ActionRow]
    PROVE  Summary \in Body \cup {""}
<1>1. CASE OpenActions = {}
  BY <1>1 DEF Summary
<1>2. CASE OpenActions # {}
  <2>1. OpenActions \in SUBSET Nat /\ \A k \in OpenActions : k <= ActionCap
    <3>1. \A k \in 1 .. ActionCap : k \in Nat /\ k <= ActionCap
      BY Caps
    <3>2. OpenActions \subseteq 1 .. ActionCap
      BY DEF OpenActions, ActionId
    <3> QED
      BY <3>1, <3>2
  <2>2. \E m \in OpenActions : \A k \in OpenActions : k <= m
    BY <1>2, <2>1, Caps, GreatestNat
  <2>3. PICK m \in OpenActions : Summary = act[m].body
    BY <1>2, <2>2 DEF Summary
  <2>4. act[m] \in ActionRow
    BY <2>3 DEF OpenActions
  <2> QED
    BY <2>3, <2>4 DEF ActionRow
<1> QED
  BY <1>1, <1>2

LEMMA SyncSummaryStep ==
    ASSUME CaseInvariant, NEW w \in Worker, SyncSummary(w)
    PROVE  CaseInvariant'
<1>1. /\ job[w].stage = "syncing" /\ case' = [case EXCEPT !.next = Summary]
      /\ Finishes(w) /\ UNCHANGED <<act, path, shift>>
  BY DEF SyncSummary
<1>2. job[w] # Idle
  BY <1>1, JobHere
<1>3. case' \in CaseRow /\ case'.pathway = case.pathway /\ case'.next = Summary
  BY <1>1, JobHere, SummaryIsText DEF CaseRow
<1>4. ShowsNext'
  <2>1. Summary' = Summary
    BY <1>1, SummaryKept
  <2> QED
    BY <1>3, <2>1 DEF ShowsNext
<1>5. Steady => PointerFits(Idle)' /\ NextFits(Idle)'
  BY <1>1, <1>2, <1>3, <1>4, JobHere, IdleIsJob, CurrentKept, SummaryKept, RootedKept DEF PointerFits, NextFits
<1> QED
  BY <1>1, <1>2, <1>3, <1>5, JobHere, FinishKeeps

LEMMA ResolveStep ==
    ASSUME CaseInvariant, NEW w \in Worker, Resolve(w)
    PROVE  CaseInvariant'
<1>1. /\ job[w].op = "resolve" /\ job[w].stage = "begun" /\ Goes(w, "syncing")
      /\ act' = [act EXCEPT ![job[w].id] = Resolved(act[job[w].id])]
      /\ UNCHANGED <<case, path, shift>>
  BY DEF Resolve
<1>2. job[w].id \in ActionId
  BY <1>1 DEF CaseInvariant, CaseJobs, JobsFit
<1>3. act' \in [ActionId -> ActionRow] /\ Resolved(act[job[w].id]).status = "DONE"
  <2>1. act[job[w].id] \in ActionRow
    BY <1>2, JobHere
  <2>2. /\ Resolved(act[job[w].id]) \in ActionRow
        /\ Resolved(act[job[w].id]).status = "DONE"
    BY <2>1 DEF Resolved, ActionRow
  <2> QED
    BY <1>1, <1>2, <2>2, JobHere
<1>4. OpenActions' \subseteq OpenActions
  <2>1. \A i \in ActionId : act'[i].status = "OPEN" => act[i].status = "OPEN"
    <3> TAKE i \in ActionId
    <3>1. CASE i = job[w].id
      BY <1>1, <1>2, <1>3, <3>1, JobHere
    <3>2. CASE i # job[w].id
      BY <1>1, <3>2, JobHere
    <3> QED
      BY <3>1, <3>2
  <2> QED
    BY <2>1 DEF OpenActions
<1>5. job[w] # Idle /\ Reaches(job[w].op, "syncing") /\ "syncing" \in Stage /\ case' \in CaseRow
  BY <1>1, JobHere DEF Reaches, Stage
<1>6. Steady /\ Rooted => Current = {case'.pathway} \ {0}
  BY <1>1, <1>5, JobHere DEF PointerFits
<1>7. Steady /\ {"clear", "amend"} \cap shift.does = {} => \A j, k \in OpenActions' : j = k
  BY <1>4, <1>5, JobHere DEF NextFits
<1> QED
  BY <1>1, <1>3, <1>5, <1>6, <1>7, GoesKeeps

LEMMA AmendActionStep ==
    ASSUME CaseInvariant, NEW w \in Worker, NEW body \in Body,
           NEW status \in {"OPEN", "DONE", "SUPERSEDED"}, AmendAction(w, body, status)
    PROVE  CaseInvariant'
<1> DEFINE row == [job[w].action EXCEPT !.status = status, !.body = body]
<1>1. /\ job[w].op = "amend" /\ Finishes(w) /\ UNCHANGED <<case, path, shift>>
      /\ act' = [act EXCEPT ![job[w].id] = row]
  BY DEF AmendAction
<1>2. job[w] # Idle /\ job[w].stage = "begun" /\ "amend" \in shift.does
  BY <1>1, JobHere DEF Reaches
<1>3. row \in ActionRow
  <2>1. job[w].action \in ActionRow
    BY JobHere DEF Job
  <2> QED
    BY <2>1 DEF ActionRow
<1>4. act' \in [ActionId -> ActionRow]
  BY <1>1, <1>3, JobHere
<1>5. Steady => PointerFits(Idle)' /\ NextFits(Idle)'
  BY <1>1, <1>2, JobHere, CurrentKept, RootedKept DEF PointerFits, NextFits
<1> QED
  BY <1>1, <1>2, <1>4, <1>5, JobHere, FinishKeeps

LEMMA PointCaseStep ==
    ASSUME CaseInvariant, NEW w \in Worker, PointCase(w)
    PROVE  CaseInvariant'
<1>1. /\ job[w].stage = "pointing" /\ case' = [case EXCEPT !.pathway = job[w].id]
      /\ Finishes(w) /\ UNCHANGED <<act, path, shift>>
  BY DEF PointCase
<1>2. job[w].id \in PathwayId
  BY <1>1 DEF CaseInvariant, CaseJobs, JobsFit
<1>3. /\ job[w] # Idle /\ case' \in CaseRow /\ case'.pathway = job[w].id /\ case'.next = case.next
      /\ job[w].id # 0
  <2>1. job[w].id \in 0 .. PathwayCap /\ job[w].id # 0
    BY <1>2, Caps DEF PathwayId
  <2>2. case \in CaseRow /\ job[w] # Idle
    BY <1>1, JobHere
  <2> QED
    BY <1>1, <2>1, <2>2 DEF CaseRow
<1>4. Steady => PointerFits(Idle)' /\ NextFits(Idle)'
  BY <1>1, <1>2, <1>3, JobHere, CurrentKept, SummaryKept, ShowsKept, RootedKept DEF PointerFits, NextFits, FreshJob
<1> QED
  BY <1>1, <1>3, <1>4, JobHere, FinishKeeps

LEMMA OneIsCurrent ==
    ASSUME NEW entries, OneCurrent(entries), NEW i \in PathwayId, NEW j \in PathwayId,
           entries[i].current, entries[i].here, entries[j].current, entries[j].here
    PROVE  i = j
<1> DEFINE S == {k \in PathwayId : entries[k].current /\ entries[k].here}
<1>1. S \in SUBSET (1 .. PathwayCap) /\ IsFiniteSet(1 .. PathwayCap)
  BY FS_Interval, Caps DEF PathwayId
<1>2. IsFiniteSet(S)
  BY <1>1, FS_Subset
<1>3. \A x, y \in S : x = y
  BY <1>2, AtMostOne DEF OneCurrent
<1> QED
  BY <1>3

\* Where assignments change cases the index is all that is left to keep.
LEMMA UnrootedStep ==
    ASSUME CaseInvariant, ~Rooted, NEW w \in Worker, job[w] # Idle, job[w].stage = "begun",
           NEW r, JobFits(r), r.op \in {"none", "choose"}, r.stage \in {"begun", "pointing"},
           job' = [job EXCEPT ![w] = r], UNCHANGED <<act, shift>>,
           case' \in CaseRow, case'.next = case.next,
           path' \in [PathwayId -> PathwayRow], OneCurrent(path)'
    PROVE  CaseInvariant'
<1>1. /\ CaseJobs' /\ job'[w] = r /\ \A v \in Worker \ {w} : job'[v] = job[v]
      /\ Rooted' = Rooted /\ OpenActions' = OpenActions /\ (ShowsNext' <=> ShowsNext)
  BY PutJob, RootedKept, SummaryKept, ShowsKept DEF CaseInvariant, CaseJobs, CaseTypes
<1>2. Steady => Agrees(job[w])'
  <2> SUFFICES ASSUME Steady PROVE Agrees(job[w])'
    OBVIOUS
  <2>1. NextFits(job[w])
    BY JobHere
  <2>2. NextFits(job[w])'
    BY <1>1, <2>1 DEF NextFits
  <2>3. FreshJob(job[w])' /\ PointerFits(job[w])'
    BY <1>1 DEF FreshJob, PointerFits
  <2> QED
    BY <2>2, <2>3 DEF Agrees
<1>3. CaseSettled'
  BY <1>1, <1>2, SettledBy DEF CaseInvariant
<1> QED
  BY <1>1, <1>3 DEF CaseInvariant

\* What a request on a pathway holds of it.
LEMMA PathwayCopy ==
    ASSUME CaseInvariant, NEW w \in Worker, job[w].op \in {"revise", "reword", "move"}
    PROVE  /\ job[w].id \in PathwayId /\ path[job[w].id] \in PathwayRow
           /\ job[w].assignment \in PathwayRow
           /\ job[w].stage = "begun" /\ job[w] # Idle
<1>1. job[w].id \in PathwayId /\ job[w] \in Job /\ path \in [PathwayId -> PathwayRow]
  BY DEF CaseInvariant, CaseJobs, CaseTypes, JobsFit
<1> QED
  BY <1>1, JobHere DEF Job, Reaches

LEMMA MoveStep ==
    ASSUME CaseInvariant, NEW w \in Worker, MovePathway(w)
    PROVE  CaseInvariant'
<1> DEFINE moved == [job[w].assignment EXCEPT !.here = ~job[w].assignment.here]
<1>1. /\ job[w].op = "move" /\ path' = [path EXCEPT ![job[w].id] = moved] /\ OneCurrent(path')
      /\ Finishes(w) /\ UNCHANGED <<case, act, shift>>
  BY DEF MovePathway
<1>2. ~Rooted
  BY <1>1, JobHere DEF Rooted
<1>3. moved \in PathwayRow
  BY <1>1, PathwayCopy DEF PathwayRow
<1> HIDE DEF moved
<1>4. path' \in [PathwayId -> PathwayRow] /\ OneCurrent(path)'
  BY <1>1, <1>3 DEF CaseInvariant, CaseJobs, CaseTypes, OneCurrent
<1>5. JobFits(Idle)
  BY IdleIsJob DEF JobFits, Reaches
<1> QED
  BY <1>1, <1>2, <1>4, <1>5, IdleIsJob, JobHere, PathwayCopy, UnrootedStep DEF Finishes

\* A copy that is saved back changes nothing: if its row has been replaced
\* since, the index refuses it.
LEMMA RewordStep ==
    ASSUME CaseInvariant, Rooted, NEW w \in Worker, RewordPathway(w)
    PROVE  CaseInvariant'
<1> DEFINE id == job[w].id
           copy == job[w].assignment
           entries == [path EXCEPT ![id] = copy]
<1>1. /\ job[w].op = "reword" /\ OneCurrent(entries) /\ path' = entries
      /\ Finishes(w) /\ UNCHANGED <<case, act, shift>>
  BY DEF RewordPathway
<1>2. /\ job[w] # Idle /\ job[w].stage = "begun" /\ id \in PathwayId /\ path[id].made
      /\ copy = path[id] \/ (copy.current /\ ~path[id].current)
      /\ copy.here
  BY <1>1, JobHere DEF Reaches, CaseInvariant, CopyFits
<1>3. path \in [PathwayId -> PathwayRow]
  BY DEF CaseInvariant, CaseJobs, CaseTypes
<1>4. copy = path[id]
  <2> SUFFICES ASSUME copy.current, ~path[id].current PROVE FALSE
    BY <1>2
  <2>1. PICK c \in Current : TRUE
    BY <1>2 DEF CaseInvariant, ChainHolds, Made
  <2>2. c \in PathwayId /\ c # id /\ entries[c].current /\ entries[id].current
    BY <1>2, <1>3, <2>1 DEF Current
  <2>3. entries[c].here /\ entries[id].here
    BY <1>2, <1>3, <2>1, <2>2 DEF Current
  <2> HIDE DEF entries
  <2> QED
    BY <1>1, <1>2, <2>2, <2>3, OneIsCurrent
<1>5. path' = path
  BY <1>1, <1>3, <1>4
<1>6. Steady => PointerFits(Idle)' /\ NextFits(Idle)'
  BY <1>1, <1>2, <1>5, JobHere, IdleIsJob, CurrentKept, SummaryKept, ShowsKept, RootedKept DEF PointerFits, NextFits
<1> QED
  BY <1>1, <1>2, <1>5, <1>6, JobHere, FinishKeeps

\* The first pathway of a case.
LEMMA ChooseStep ==
    ASSUME CaseInvariant, Rooted, NEW w \in Worker, NEW i \in PathwayId, ChoosePathway(w, i)
    PROVE  CaseInvariant'
<1> DEFINE first == [NoPathway EXCEPT !.made = TRUE, !.current = TRUE]
           entries == [path EXCEPT ![i] = first]
           r == [job[w] EXCEPT !.stage = "pointing", !.id = i]
<1>1. /\ job[w].op = "choose" /\ NextPathway(i) /\ OneCurrent(entries) /\ path' = entries
      /\ UNCHANGED <<case, act, shift>>
  BY DEF ChoosePathway
<1>2. job' = [job EXCEPT ![w] = r]
  BY DEF ChoosePathway
<1>3. /\ r \in Job /\ r.op = "choose" /\ r.stage = "pointing" /\ r.id = i
  <2>1. i \in 0 .. ActionCap + PathwayCap
    BY Caps DEF PathwayId
  <2> QED
    BY <1>1, <2>1, JobHere DEF Job, Stage
<1>4. /\ path \in [PathwayId -> PathwayRow] /\ first \in PathwayRow
      /\ first.made /\ first.current /\ first.here
  <2>1. NoPathway \in PathwayRow /\ NoPathway.here
    BY IdleIsJob DEF NoPathway
  <2> QED
    BY <2>1 DEF CaseInvariant, CaseJobs, CaseTypes, PathwayRow
<1> HIDE DEF first
<1>5. /\ path' \in [PathwayId -> PathwayRow]
      /\ path'[i].made /\ path'[i].current /\ path'[i].here
      /\ \A j \in PathwayId : j # i => path'[j] = path[j]
  BY <1>1, <1>4
<1> HIDE DEF r
<1>6. Current = {}
  <2> SUFFICES ASSUME NEW c \in Current PROVE FALSE
    OBVIOUS
  <2>1. c \in PathwayId /\ path[c].current /\ path[c].here /\ c # i
    BY <1>1 DEF Current, NextPathway, NoPathway
  <2>2. path'[c].current /\ path'[c].here
    BY <1>5, <2>1
  <2> QED
    BY <1>1, <1>5, <2>1, <2>2, OneIsCurrent
<1>7. Made = {}
  BY <1>6 DEF CaseInvariant, ChainHolds
<1>8. Made' = {i} /\ Current' = {i}
  <2>1. \A j \in PathwayId : j # i => ~path[j].made /\ ~path[j].current
    BY <1>7 DEF Made, CaseInvariant, ChainHolds
  <2> QED
    BY <1>5, <2>1 DEF Made, Current
<1>9. ChainHolds'
  <2>1. \A j \in PathwayId : j # i => path'[j] = NoPathway
    BY <1>5, <1>7 DEF CaseInvariant, ChainHolds, Made
  <2>2. \A j \in PathwayId : j >= i
    <3> SUFFICES ASSUME NEW j \in PathwayId, j < i PROVE FALSE
      BY Caps DEF PathwayId
    <3>1. path[j] # NoPathway
      BY <1>1 DEF NextPathway
    <3> QED
      BY <1>7, <3>1 DEF CaseInvariant, ChainHolds, Made
  <2>3. \A j, k \in PathwayId : j < k /\ path'[k].made => path'[j].made
    <3> SUFFICES ASSUME NEW j \in PathwayId, NEW k \in PathwayId, j < k, path'[k].made
                 PROVE  FALSE
      OBVIOUS
    <3>1. k = i
      BY <2>1 DEF NoPathway
    <3> QED
      BY <2>2, <3>1, Caps DEF PathwayId
  <2>4. \A j \in PathwayId : /\ path'[j].made \/ path'[j] = NoPathway
                             /\ path'[j].current => path'[j].made
                             /\ path'[j].here
    BY <1>5, <2>1 DEF NoPathway
  <2> QED
    BY <1>8, <2>3, <2>4 DEF ChainHolds
<1>10. job[w] # Idle /\ JobFits(r)
  BY <1>1, <1>3, JobHere DEF JobFits, Reaches
<1>11. CaseJobs' /\ job'[w] = r /\ \A v \in Worker \ {w} : job'[v] = job[v]
  BY <1>1, <1>2, <1>5, <1>10, PutJob DEF CaseInvariant, CaseJobs, CaseTypes
<1>12. \A v \in Worker : CopyFits(job[v])'
  BY <1>3, <1>7, <1>11 DEF CaseInvariant, CopyFits, Made
<1>13. Steady => Agrees(job[w])'
  <2> SUFFICES ASSUME Steady PROVE Agrees(job[w])'
    OBVIOUS
  <2>1. NextFits(job[w])
    BY <1>10, JobHere
  <2>2. job[w].stage = "begun"
    BY DEF ChoosePathway
  <2>3. NextFits(job[w])'
    BY <1>1, <1>3, <1>11, <2>1, <2>2, SummaryKept, ShowsKept DEF NextFits
  <2> QED
    BY <1>3, <1>8, <1>11, <2>3 DEF Agrees, FreshJob, PointerFits
<1>14. CaseSettled'
  BY <1>1, <1>10, <1>11, <1>13, SettledBy DEF CaseInvariant
<1> QED
  BY <1>1, <1>9, <1>11, <1>12, <1>14 DEF CaseInvariant, OneCurrent

\* The current pathway stands down for its replacement; an old copy of one that
\* has been replaced already cannot.
LEMMA ReviseStep ==
    ASSUME CaseInvariant, Rooted, NEW w \in Worker, NEW i \in PathwayId, Revise(w, i)
    PROVE  CaseInvariant'
<1> DEFINE id == job[w].id
           copy == job[w].assignment
           old == [path[id] EXCEPT !.current = FALSE, !.by = i]
           new == [NoPathway EXCEPT !.made = TRUE, !.current = TRUE, !.here = copy.here]
           entries == [path EXCEPT ![id] = old, ![i] = new]
<1>1. job[w].op = "revise" /\ Reaches(job[w].op, job[w].stage)
  BY JobHere DEF Revise
<1>2. /\ job[w] # Idle /\ job[w].stage = "begun" /\ id \in PathwayId /\ path[id].made
      /\ copy = path[id] \/ ~path[id].current
      /\ copy.here
  BY <1>1, JobHere DEF Reaches, CaseInvariant, CopyFits
<1>3. /\ copy.current /\ NextPathway(i) /\ OneCurrent(entries)
      /\ path' = entries /\ case' = [case EXCEPT !.pathway = i]
      /\ Finishes(w) /\ UNCHANGED <<act, shift>>
  BY <1>2 DEF Revise
<1>4. /\ path \in [PathwayId -> PathwayRow] /\ path[id] \in PathwayRow /\ path[id].here
      /\ path[i] = NoPathway /\ ~path[i].made /\ ~path[i].current /\ i # id
      /\ i \in 1 .. PathwayCap
  BY <1>2, <1>3, Caps
     DEF CaseInvariant, CaseJobs, CaseTypes, PathwayId, ChainHolds, NextPathway, NoPathway
<1>rows. /\ old \in PathwayRow /\ old.made /\ ~old.current /\ old.by = i /\ old.here
       /\ new \in PathwayRow /\ new.made /\ new.current /\ new.by = 0 /\ new.here
  <2>1. i \in 0 .. PathwayCap /\ 0 \in 0 .. PathwayCap
    BY <1>4, Caps
  <2> QED
    BY <1>2, <1>4, <2>1 DEF PathwayRow, NoPathway
<1> HIDE DEF old, new
<1>5. /\ path' \in [PathwayId -> PathwayRow] /\ path'[i] = new /\ path'[id] = old
      /\ \A j \in PathwayId : j # i /\ j # id => path'[j] = path[j]
  BY <1>2, <1>3, <1>4, <1>rows
<1>6. \A c \in Current : c = id
  <2> SUFFICES ASSUME NEW c \in Current, c # id PROVE FALSE
    OBVIOUS
  <2>1. c \in PathwayId /\ path[c].current /\ path[c].here /\ c # i
    BY <1>4 DEF Current
  <2>2. path'[c].current /\ path'[i].current /\ path'[c].here /\ path'[i].here
    BY <1>5, <1>rows, <2>1
  <2> QED
    BY <1>3, <2>1, <2>2, OneIsCurrent
<1>7. Current = {id}
  BY <1>2, <1>6 DEF CaseInvariant, ChainHolds, Made
<1>8. Made' = Made \cup {i} /\ Current' = {i}
  <2>1. \A j \in PathwayId : path'[j].made <=> path[j].made \/ j = i
    BY <1>2, <1>5, <1>rows
  <2>2. \A j \in PathwayId : path'[j].current /\ path'[j].here <=> j = i
    BY <1>5, <1>7, <1>rows DEF Current
  <2> QED
    BY <2>1, <2>2 DEF Made, Current
<1>9. id < i
  <2>1. ~(i < id)
    BY <1>2, <1>4 DEF CaseInvariant, ChainHolds
  <2> QED
    BY <1>2, <1>4, <2>1, Caps DEF PathwayId
<1>10. ChainHolds'
  <2>1. \A j \in PathwayId : /\ path'[j].made \/ path'[j] = NoPathway
                             /\ path'[j].current => path'[j].made
                             /\ path'[j].here
    <3> TAKE j \in PathwayId
    <3>1. CASE j \in {i, id}
      BY <1>5, <1>rows, <3>1
    <3>2. CASE j \notin {i, id}
      BY <1>5, <3>2 DEF CaseInvariant, ChainHolds
    <3> QED
      BY <3>1, <3>2
  <2>2. \A j, k \in PathwayId : j < k /\ k \in Made' => j \in Made'
    <3> SUFFICES ASSUME NEW j \in PathwayId, NEW k \in PathwayId, j < k, k \in Made'
                 PROVE  j \in Made'
      OBVIOUS
    <3>1. CASE k = i
      <4>1. path[j] # NoPathway
        BY <1>3, <3>1 DEF NextPathway
      <4>2. path[j].made
        BY <4>1 DEF CaseInvariant, ChainHolds
      <4> QED
        BY <1>8, <4>2 DEF Made
    <3>2. CASE k # i
      <4>1. path[k].made
        BY <1>8, <3>2 DEF Made
      <4>2. path[j].made
        BY <4>1 DEF CaseInvariant, ChainHolds
      <4> QED
        BY <1>8, <4>2 DEF Made
    <3> QED
      BY <3>1, <3>2
  <2>3. Made' \ Current' = (Made \ Current) \cup {id}
    BY <1>2, <1>4, <1>7, <1>8 DEF Made
  <2>4. \A j \in Made \ Current : path'[j].by = path[j].by /\ path[j].by \in Made /\ path[j].by > j
    BY <1>4, <1>5, <1>7 DEF CaseInvariant, ChainHolds, Made
  <2>5. path'[id].by = i
    BY <1>5, <1>rows
  <2>6. \A j \in Made' \ Current' : path'[j].by \in Made' /\ path'[j].by > j
    BY <1>2, <1>8, <1>9, <2>3, <2>4, <2>5
  <2>7. \A j, k \in Made' \ Current' : path'[j].by = path'[k].by => j = k
    <3>1. \A j \in Made \ Current : path'[j].by # i
      BY <1>4, <2>4 DEF Made
    <3>2. \A j, k \in Made \ Current : path'[j].by = path'[k].by => j = k
      BY <2>4 DEF CaseInvariant, ChainHolds
    <3> QED
      BY <2>3, <2>5, <3>1, <3>2
  <2> QED
    BY <1>8, <2>1, <2>2, <2>6, <2>7 DEF ChainHolds, Made
<1>11. case' \in CaseRow /\ case'.pathway = i /\ case'.next = case.next
  <2>1. i \in 0 .. PathwayCap
    BY <1>4, Caps
  <2>2. case \in CaseRow
    BY JobHere
  <2> QED
    BY <1>3, <2>1, <2>2 DEF CaseRow
<1>12. CaseJobs' /\ job'[w] = Idle /\ \A v \in Worker \ {w} : job'[v] = job[v]
  BY <1>2, <1>3, <1>5, <1>11, FinishStep DEF CaseInvariant, CaseJobs, CaseTypes
<1>13. \A v \in Worker : CopyFits(job[v])'
  <2> SUFFICES ASSUME NEW v \in Worker, v # w, job[v].op \in {"revise", "reword"}
               PROVE  CopyFits(job[v])'
    BY <1>12, IdleIsJob DEF CopyFits
  <2>1. /\ job[v].id \in PathwayId /\ path[job[v].id].made
        /\ job[v].assignment.here
        /\ job[v].assignment = path[job[v].id]
             \/ (job[v].assignment.current /\ ~path[job[v].id].current)
    BY DEF CaseInvariant, CopyFits
  <2>2. CASE job[v].id = id
    <3>1. job[v].assignment.current
      BY <1>7, <2>1, <2>2 DEF Current
    <3> QED
      BY <1>5, <1>12, <1>rows, <2>2, <2>1, <3>1 DEF CopyFits
  <2>3. CASE job[v].id # id
    <3>1. path'[job[v].id] = path[job[v].id]
      BY <1>4, <1>5, <2>1, <2>3
    <3> QED
      BY <1>12, <2>1, <3>1 DEF CopyFits
  <2> QED
    BY <2>2, <2>3
<1>14. Steady => Agrees(job[w])'
  <2> SUFFICES ASSUME Steady PROVE Agrees(job[w])'
    OBVIOUS
  <2>1. NextFits(job[w])
    BY <1>2, JobHere
  <2>2. NextFits(job[w])'
    BY <1>2, <1>3, <1>11, <1>12, <2>1, IdleIsJob, SummaryKept, ShowsKept DEF NextFits
  <2>3. i # 0
    BY <1>4
  <2> QED
    BY <1>8, <1>11, <1>12, <2>2, <2>3, IdleIsJob DEF Agrees, FreshJob, PointerFits
<1>15. CaseSettled'
  BY <1>2, <1>3, <1>12, <1>14, SettledBy DEF CaseInvariant
<1> QED
  BY <1>3, <1>10, <1>12, <1>13, <1>15 DEF CaseInvariant, OneCurrent

\* With assignments that change cases.
LEMMA UnrootedPathways ==
    ASSUME CaseInvariant, ~Rooted, NEW w \in Worker, NEW i \in PathwayId,
           RewordPathway(w) \/ ChoosePathway(w, i) \/ Revise(w, i)
    PROVE  CaseInvariant'
<1>1. JobFits(Idle) /\ Idle.op = "none" /\ Idle.stage = "begun"
  BY IdleIsJob DEF JobFits, Reaches
<1>2. path \in [PathwayId -> PathwayRow] /\ case \in CaseRow
  BY DEF CaseInvariant, CaseJobs, CaseTypes
<1>3. CASE RewordPathway(w)
  <2>1. path' \in [PathwayId -> PathwayRow] /\ OneCurrent(path)'
    BY <1>2, <1>3, PathwayCopy DEF RewordPathway, OneCurrent
  <2> QED
    BY <1>1, <1>3, <2>1, JobHere, PathwayCopy, UnrootedStep DEF RewordPathway, Finishes
<1>4. CASE ChoosePathway(w, i)
  <2> DEFINE r == [job[w] EXCEPT !.stage = "pointing", !.id = i]
             first == [NoPathway EXCEPT !.made = TRUE, !.current = TRUE]
  <2>1. /\ job' = [job EXCEPT ![w] = r] /\ path' = [path EXCEPT ![i] = first] /\ OneCurrent(path')
        /\ job[w].op = "choose" /\ job[w].stage = "begun" /\ UNCHANGED <<case, act, shift>>
    BY <1>4 DEF ChoosePathway
  <2>2. r \in Job /\ r.op = "choose" /\ r.stage = "pointing" /\ r.id = i
    <3>1. i \in 0 .. ActionCap + PathwayCap
      BY Caps DEF PathwayId
    <3> QED
      BY <2>1, <3>1, JobHere DEF Job, Stage
  <2>3. first \in PathwayRow
    BY IdleIsJob DEF PathwayRow
  <2> HIDE DEF r, first
  <2>4. JobFits(r)
    BY <2>1, <2>2, JobHere DEF JobFits, Reaches
  <2>5. path' \in [PathwayId -> PathwayRow] /\ OneCurrent(path)'
    BY <1>2, <2>1, <2>3 DEF OneCurrent
  <2> QED
    BY <1>2, <2>1, <2>2, <2>4, <2>5, JobHere, UnrootedStep
<1>5. CASE Revise(w, i)
  <2> DEFINE id == job[w].id
             copy == job[w].assignment
             old == [path[id] EXCEPT !.current = FALSE, !.by = i]
             new == [NoPathway EXCEPT !.made = TRUE, !.current = TRUE, !.here = copy.here]
  <2>1. /\ job[w].op = "revise" /\ NextPathway(i) /\ Finishes(w) /\ UNCHANGED <<act, shift>>
        /\ case' = [case EXCEPT !.pathway = IF copy.here THEN i ELSE case.pathway]
    BY <1>5 DEF Revise
  <2>2. id \in PathwayId /\ path[id] \in PathwayRow /\ copy \in PathwayRow
    BY <2>1, PathwayCopy
  <2>3. /\ i \in 0 .. PathwayCap /\ 0 \in 0 .. PathwayCap
    BY Caps DEF PathwayId
  <2>4. old \in PathwayRow /\ new \in PathwayRow
    BY <2>2, <2>3 DEF PathwayRow, NoPathway
  <2>5. path' \in [PathwayId -> PathwayRow] /\ OneCurrent(path)'
    <3>1. path' = [path EXCEPT ![id] = old, ![i] = new] /\ OneCurrent(path')
      BY <1>5, <2>2 DEF Revise
    <3> HIDE DEF old, new
    <3> QED
      BY <1>2, <2>4, <3>1 DEF OneCurrent
  <2>6. case' \in CaseRow /\ case'.next = case.next
    <3>1. case.pathway \in 0 .. PathwayCap
      BY <1>2 DEF CaseRow
    <3>2. PICK p \in 0 .. PathwayCap : case' = [case EXCEPT !.pathway = p]
      BY <2>1, <2>3, <3>1
    <3> QED
      BY <1>2, <3>2 DEF CaseRow
  <2> QED
    BY <1>1, <2>1, <2>5, <2>6, PathwayCopy, UnrootedStep DEF Finishes
<1> QED
  BY <1>3, <1>4, <1>5

LEMMA CaseStartStep ==
    ASSUME CaseInvariant, NEW w \in Worker, CaseStart(w)
    PROVE  CaseInvariant'
<1>0. /\ case \in CaseRow /\ act \in [ActionId -> ActionRow] /\ path \in [PathwayId -> PathwayRow]
      /\ Idle \in Job
  BY IdleIsJob DEF CaseInvariant, CaseJobs, CaseTypes
<1>1. ASSUME NEW op \in CaseOps, LoadCase(w, op) PROVE CaseInvariant'
  <2> DEFINE r == [Idle EXCEPT !.op = op, !.copy = case]
  <2>1. /\ r \in Job /\ r.op = op /\ r.stage = "begun" /\ r.copy = case
    BY <1>0, IdleIsJob DEF Job
  <2>2. /\ Starts(w, op) /\ op \in {"edit", "clear", "assign"} /\ op \in shift.does
        /\ job' = [job EXCEPT ![w] = r] /\ UNCHANGED <<case, act, path, shift>>
    BY <1>1 DEF LoadCase, Starts
  <2> HIDE DEF r
  <2>3. JobFits(r) /\ CopyFits(r) /\ FreshJob(r)
    BY <2>1, <2>2 DEF JobFits, Reaches, CopyFits, FreshJob
  <2> QED
    BY <2>1, <2>2, <2>3, StartKeeps
<1>2. ASSUME NEW b \in Body, BeginNote(w, b) PROVE CaseInvariant'
  <2> DEFINE r == [Idle EXCEPT !.op = "note", !.stage = "superseding", !.body = b]
  <2>1. /\ r \in Job /\ r.op = "note" /\ r.stage = "superseding"
    BY <1>0, IdleIsJob DEF Job, CaseOps, Stage
  <2>2. /\ Starts(w, "note") /\ "note" \in shift.does
        /\ job' = [job EXCEPT ![w] = r] /\ UNCHANGED <<case, act, path, shift>>
    BY <1>2 DEF BeginNote, Starts
  <2> HIDE DEF r
  <2>3. JobFits(r) /\ CopyFits(r) /\ FreshJob(r)
    BY <2>1, <2>2 DEF JobFits, Reaches, CopyFits, FreshJob
  <2> QED
    BY <2>1, <2>2, <2>3, StartKeeps
<1>3. ASSUME NEW op \in CaseOps, NEW i \in ActionId, LoadAction(w, op, i) PROVE CaseInvariant'
  <2> DEFINE r == [Idle EXCEPT !.op = op, !.id = i, !.action = act[i]]
  <2>1. /\ r \in Job /\ r.op = op /\ r.stage = "begun" /\ r.id = i
    <3>1. i \in 0 .. ActionCap + PathwayCap
      BY Caps DEF ActionId
    <3> QED
      BY <1>0, <3>1, IdleIsJob DEF Job
  <2>2. /\ Starts(w, op) /\ op \in {"resolve", "amend"} /\ op \in shift.does
        /\ job' = [job EXCEPT ![w] = r] /\ UNCHANGED <<case, act, path, shift>>
    BY <1>3 DEF LoadAction, Starts
  <2> HIDE DEF r
  <2>3. r.op \notin {"revise", "reword", "move", "edit", "clear", "assign"} /\ r.op \in shift.does
    BY <2>1, <2>2
  <2>4. JobFits(r)
    BY <2>1, <2>3 DEF JobFits, Reaches
  <2>5. CopyFits(r) /\ FreshJob(r)
    BY <2>1, <2>3 DEF CopyFits, FreshJob
  <2> QED
    BY <2>1, <2>2, <2>4, <2>5, StartKeeps
<1>4. ASSUME BeginChoose(w) PROVE CaseInvariant'
  <2> DEFINE r == [Idle EXCEPT !.op = "choose"]
  <2>1. /\ r \in Job /\ r.op = "choose" /\ r.stage = "begun"
    BY <1>0, IdleIsJob DEF Job, CaseOps
  <2>2. /\ Starts(w, "choose") /\ "choose" \in shift.does
        /\ job' = [job EXCEPT ![w] = r] /\ UNCHANGED <<case, act, path, shift>>
    BY <1>4 DEF BeginChoose, Starts
  <2> HIDE DEF r
  <2>3. JobFits(r) /\ CopyFits(r) /\ FreshJob(r)
    BY <2>1, <2>2 DEF JobFits, Reaches, CopyFits, FreshJob
  <2> QED
    BY <2>1, <2>2, <2>3, StartKeeps
<1>5. ASSUME NEW op \in CaseOps, NEW i \in PathwayId, LoadPathway(w, op, i) PROVE CaseInvariant'
  <2> DEFINE r == [Idle EXCEPT !.op = op, !.id = i, !.assignment = path[i]]
  <2>1. /\ r \in Job /\ r.op = op /\ r.stage = "begun" /\ r.id = i /\ r.assignment = path[i]
    <3>1. i \in 0 .. ActionCap + PathwayCap
      BY Caps DEF PathwayId
    <3> QED
      BY <1>0, <3>1, IdleIsJob DEF Job
  <2>2. /\ Starts(w, op) /\ op \in {"revise", "reword", "move"} /\ op \in shift.does
        /\ job' = [job EXCEPT ![w] = r] /\ UNCHANGED <<case, act, path, shift>>
    BY <1>5 DEF LoadPathway, Starts
  <2> HIDE DEF r
  <2>3. Rooted => path[i].made /\ path[i].here
    BY <1>5 DEF LoadPathway, CaseInvariant, ChainHolds
  <2>4. r.op \notin {"resolve", "amend", "edit", "clear", "assign"} /\ r.op \in shift.does
    BY <2>1, <2>2
  <2>5. JobFits(r)
    BY <2>1, <2>4 DEF JobFits, Reaches
  <2>6. (Rooted => CopyFits(r)) /\ FreshJob(r)
    <3>1. r.id \in PathwayId /\ r.assignment = path[r.id]
      BY <2>1
    <3>2. r.stage \notin {"pointing", "inserting"}
      BY <2>1
    <3>3. Rooted => CopyFits(r)
      BY <2>1, <2>3, <3>1 DEF CopyFits
    <3>4. ~(r.op \in {"edit", "clear", "assign"})
      BY <2>4
    <3>5. FreshJob(r)
      BY <3>1, <3>2, <3>4 DEF FreshJob
    <3> QED
      BY <3>3, <3>5
  <2> QED
    BY <2>1, <2>2, <2>5, <2>6, StartKeeps
<1> QED
  BY <1>1, <1>2, <1>3, <1>4, <1>5 DEF CaseStart

LEMMA CaseStepStep ==
    ASSUME CaseInvariant, NEW w \in Worker, CaseStep(w)
    PROVE  CaseInvariant'
<1>1. ASSUME RewordPathway(w) \/ (\E i \in PathwayId : ChoosePathway(w, i) \/ Revise(w, i))
      PROVE  CaseInvariant'
  <2>1. CASE Rooted
    BY <1>1, <2>1, RewordStep, ChooseStep, ReviseStep
  <2>2. CASE ~Rooted
    <3>1. ASSUME RewordPathway(w) PROVE job[w].id \in PathwayId
      BY <3>1, PathwayCopy DEF RewordPathway
    <3> QED
      BY <1>1, <2>2, <3>1, UnrootedPathways
  <2> QED
    BY <2>1, <2>2
<1> QED
  BY <1>1, DieStep, AssignStep, ClearNextStep, EditCaseStep, SupersedeStep, SyncSummaryStep,
     ResolveStep, InsertActionStep, AmendActionStep, PointCaseStep, MoveStep
     DEF CaseStep

-----------------------------------------------------------------------------
(* Placement: what a request holds of a placement and its checks.          *)

PlacementOps == {"place", "answer", "leave", "correct"}

Elsewhere(r) == r.op \notin PlacementOps /\ r.stage \notin {"opening", "answering"}

\* A step on the case leaves what others do with a placement alone, and ends
\* such a request only if it dies.
LEMMA CaseFrame ==
    ASSUME CaseInvariant, NEW w \in Worker, CaseStart(w) \/ CaseStep(w)
    PROVE  /\ \A v \in Worker : job'[v] = job[v] \/ (v = w /\ Elsewhere(job'[v]))
           /\ \A v \in Worker : job[v].stage = "opening" => job'[v] = job[v] \/ shift.dies
           /\ shift' = shift
<1>0. /\ job \in [Worker -> Job] /\ job[w] \in Job /\ Reaches(job[w].op, job[w].stage)
      /\ Elsewhere(Idle) /\ Idle.stage # "opening"
  BY JobHere, IdleIsJob DEF CaseInvariant, CaseJobs, CaseTypes, Elsewhere, PlacementOps
<1> DEFINE Does == /\ \A v \in Worker \ {w} : job'[v] = job[v]
                   /\ Elsewhere(job'[w])
                   /\ job[w].stage = "opening" => shift.dies
                   /\ shift' = shift
<1>1. ASSUME Die(w) PROVE Does
  BY <1>0, <1>1 DEF Die, Finishes
<1>2. ASSUME Assign(w) \/ ClearNext(w) \/ SyncSummary(w) \/ PointCase(w) \/ RewordPathway(w)
               \/ MovePathway(w)
               \/ (\E b \in Body, s \in {"OPEN", "DONE", "SUPERSEDED"} : AmendAction(w, b, s))
               \/ (\E i \in PathwayId : Revise(w, i))
      PROVE  Does
  <2>1. Finishes(w) /\ shift' = shift
    BY <1>2 DEF Assign, ClearNext, SyncSummary, PointCase, RewordPathway, MovePathway,
           AmendAction, Revise
  <2>2. job[w].stage # "opening"
    BY <1>0, <1>2
       DEF Assign, ClearNext, SyncSummary, PointCase, RewordPathway, MovePathway, AmendAction,
           Revise, Reaches
  <2> QED
    BY <1>0, <2>1, <2>2 DEF Finishes
<1>3. ASSUME Supersede(w) \/ Resolve(w) \/ (\E i \in ActionId : InsertAction(w, i)) PROVE Does
  <2>1. /\ \E s \in {"inserting", "syncing"} : Goes(w, s)
        /\ shift' = shift /\ job[w].stage # "opening" /\ job[w].op \in {"edit", "note", "resolve"}
    BY <1>0, <1>3 DEF Supersede, Resolve, InsertAction, Reaches
  <2> QED
    BY <1>0, <2>1 DEF Goes, Elsewhere, PlacementOps, Job
<1>4. ASSUME NEW s \in {"ACTIVE", "PLACED", "EXITED"}, NEW closed \in BOOLEAN,
             NEW given \in Body \cup {""}, EditCase(w, s, closed, given)
      PROVE  Does
  <2>1. /\ job[w].op = "edit" /\ job[w].stage = "begun" /\ shift' = shift
        /\ \/ job' = [job EXCEPT ![w].stage = "superseding", ![w].body = given]
           \/ Finishes(w)
    BY <1>4 DEF EditCase
  <2>2. CASE Finishes(w)
    BY <1>0, <2>1, <2>2 DEF Finishes
  <2>3. CASE job' = [job EXCEPT ![w].stage = "superseding", ![w].body = given]
    BY <1>0, <2>1, <2>3 DEF Elsewhere, PlacementOps, Job
  <2> QED
    BY <2>1, <2>2, <2>3
<1>5. ASSUME NEW i \in PathwayId, ChoosePathway(w, i) PROVE Does
  BY <1>0, <1>5 DEF ChoosePathway, Elsewhere, PlacementOps, Job
<1>6. ASSUME CaseStart(w) PROVE Does
  <2>1. job[w].stage # "opening" /\ shift' = shift
    BY <1>6, IdleIsJob
       DEF CaseStart, LoadCase, BeginNote, LoadAction, BeginChoose, LoadPathway, Starts
  <2>2. (\A v \in Worker \ {w} : job'[v] = job[v]) /\ Elsewhere(job'[w])
    <3>1. ASSUME NEW op \in CaseOps, LoadCase(w, op) PROVE <2>2
      BY <1>0, <3>1 DEF LoadCase, Elsewhere, PlacementOps, Idle
    <3>2. ASSUME NEW b \in Body, BeginNote(w, b) PROVE <2>2
      BY <1>0, <3>2 DEF BeginNote, Elsewhere, PlacementOps, Idle
    <3>3. ASSUME NEW op \in CaseOps, NEW i \in ActionId, LoadAction(w, op, i) PROVE <2>2
      BY <1>0, <3>3 DEF LoadAction, Elsewhere, PlacementOps, Idle
    <3>4. ASSUME BeginChoose(w) PROVE <2>2
      BY <1>0, <3>4 DEF BeginChoose, Elsewhere, PlacementOps, Idle
    <3>5. ASSUME NEW op \in CaseOps, NEW i \in PathwayId, LoadPathway(w, op, i) PROVE <2>2
      BY <1>0, <3>5 DEF LoadPathway, Elsewhere, PlacementOps, Idle
    <3> QED
      BY <1>6, <3>1, <3>2, <3>3, <3>4, <3>5 DEF CaseStart
  <2> QED
    BY <1>0, <2>1, <2>2
<1>7. Does
  BY <1>1, <1>2, <1>3, <1>4, <1>5, <1>6 DEF CaseStep
<1> QED
  BY <1>7

Serial == shift.atOnce = 1

PlacementTypes ==
    /\ placement \in [PlacementId -> PlacementRow]
    /\ check \in [PlacementId -> [Checkpoint -> CheckStatus]]
    /\ visit \in [Worker -> Visit]

\* What a request on a placement holds of it.
VisitFits(r, v) ==
    /\ r.stage = "opening" =>
          /\ v.placement \in PlacementId /\ v.checkpoint \in 1 .. Checkpoints + 1
          /\ Serial => ~placement[v.placement].left
    /\ r.op = "answer" =>
          /\ v.placement \in PlacementId /\ v.checkpoint \in Checkpoint
          /\ "correct" \notin shift.does /\ v.row.left => placement[v.placement].left
    /\ r.op \in {"leave", "correct"} =>
          v.placement \in PlacementId /\ placement[v.placement].made /\ v.row.made
    /\ r.op = "correct" /\ Serial => v.row = placement[v.placement]
    /\ r.stage = "answering" =>
          /\ v.row.left
          /\ Serial => v.pending = PendingChecks(v.placement)

\* A check that is missing is about to be opened.
StillOpening(p, k) ==
    \E w \in Worker : /\ job[w].stage = "opening" /\ visit[w].placement = p
                      /\ visit[w].checkpoint <= k

ChecksFit ==
    \A p \in PlacementId :
        /\ "correct" \notin shift.does /\ ~placement[p].left =>
              \A k \in Checkpoint : check[p][k] # "EXITED"
        /\ Serial /\ placement[p].left => PendingChecks(p) = {}
        /\ ~shift.dies /\ placement[p].made =>
              \A k \in Checkpoint : check[p][k] = "ABSENT" => StillOpening(p, k)

PlacementInvariant ==
    /\ CaseInvariant
    /\ PlacementTypes
    /\ \A w \in Worker : VisitFits(job[w], visit[w])
    /\ ChecksFit

LEMMA Bounds == PlacementCap \in Nat /\ Checkpoints \in Nat
BY PlacementAssumption

LEMMA NoVisitFits ==
    /\ NoVisit \in Visit /\ NoPlacement \in PlacementRow
    /\ \A r : Elsewhere(r) => \A v : VisitFits(r, v)
<1>1. NoPlacement \in PlacementRow
  BY Bounds DEF NoPlacement, PlacementRow
<1>2. NoVisit \in Visit
  BY <1>1, Bounds DEF NoVisit, Visit
<1> QED
  BY <1>1, <1>2 DEF Elsewhere, PlacementOps, VisitFits

LEMMA PlacementStarts == PlacementInit => PlacementInvariant
<1> SUFFICES ASSUME PlacementInit PROVE PlacementInvariant
  OBVIOUS
<1>1. CaseInvariant /\ \A w \in Worker : job[w] = Idle
  BY CaseInvariantStarts DEF PlacementInit, CaseworkInit
<1>2. PlacementTypes
  BY NoVisitFits DEF PlacementInit, PlacementTypes, CheckStatus
<1>3. \A w \in Worker : VisitFits(job[w], visit[w])
  <2>1. Elsewhere(Idle)
    BY IdleIsJob DEF Elsewhere, PlacementOps
  <2> QED
    BY <1>1, <2>1, NoVisitFits
<1>4. ChecksFit
  BY DEF PlacementInit, ChecksFit, NoPlacement, PendingChecks
<1> QED
  BY <1>1, <1>2, <1>3, <1>4 DEF PlacementInvariant

\* A step on the case.
LEMMA CaseworkStepKeeps ==
    ASSUME PlacementInvariant, CaseworkStep
    PROVE  PlacementInvariant'
<1> USE DEF PlacementInvariant
<1>1. PICK w \in Worker : CaseStart(w) \/ CaseStep(w)
  BY DEF CaseworkStep, CaseworkNext
<1>2. CaseInvariant'
  BY <1>1, CaseStartStep, CaseStepStep
<1>3. /\ \A v \in Worker : job'[v] = job[v] \/ Elsewhere(job'[v])
      /\ \A v \in Worker : job[v].stage = "opening" => job'[v] = job[v] \/ shift.dies
      /\ shift' = shift
  BY <1>1, CaseFrame
<1>4. /\ visit' = [v \in Worker |-> IF job'[v] = Idle THEN NoVisit ELSE visit[v]]
      /\ UNCHANGED <<placement, check>>
  BY DEF CaseworkStep
<1>5. PlacementTypes'
  BY <1>4, NoVisitFits DEF PlacementTypes
<1>6. \A v \in Worker : VisitFits(job[v], visit[v])'
  <2> SUFFICES ASSUME NEW v \in Worker PROVE VisitFits(job[v], visit[v])'
    OBVIOUS
  <2>1. CASE Elsewhere(job'[v])
    BY <2>1 DEF VisitFits, Elsewhere, PlacementOps
  <2>2. CASE ~Elsewhere(job'[v])
    <3>1. job'[v] = job[v] /\ job[v] # Idle
      BY <1>3, <2>2, IdleIsJob DEF Elsewhere, PlacementOps
    <3>2. visit'[v] = visit[v]
      BY <1>4, <3>1
    <3> QED
      BY <1>3, <1>4, <3>1, <3>2 DEF VisitFits, Serial, PendingChecks
  <2> QED
    BY <2>1, <2>2
<1>7. ChecksFit'
  <2>1. \A p, k : ~shift.dies /\ StillOpening(p, k) => StillOpening(p, k)'
    <3> SUFFICES ASSUME NEW p, NEW k, ~shift.dies, NEW v \in Worker,
                        job[v].stage = "opening", visit[v].placement = p, visit[v].checkpoint <= k
                 PROVE  StillOpening(p, k)'
      BY DEF StillOpening
    <3>1. job'[v] = job[v] /\ job[v] # Idle
      BY <1>3, IdleIsJob
    <3>2. visit'[v] = visit[v]
      BY <1>4, <3>1
    <3> QED
      BY <3>1, <3>2 DEF StillOpening
  <2> QED
    BY <1>3, <1>4, <2>1 DEF ChecksFit, Serial, PendingChecks
<1> QED
  BY <1>2, <1>5, <1>6, <1>7

LEMMA GoesSame ==
    ASSUME CaseInvariant, NEW w \in Worker, job[w] # Idle,
           NEW stage \in {"opening", "marking", "answering"}, Goes(w, stage),
           Reaches(job[w].op, stage), job[w].stage \in {"begun", "opening"},
           UNCHANGED <<case, act, path, shift>>
    PROVE  CaseInvariant' /\ job'[w].op = job[w].op /\ job'[w].stage = stage
             /\ \A v \in Worker \ {w} : job'[v] = job[v]
<1>1. Steady => PointerFits(job[w]) /\ NextFits(job[w])
  BY JobHere
<1>2. Steady /\ Rooted => Current = {case'.pathway} \ {0}
  BY <1>1 DEF PointerFits
<1>3. Steady /\ {"clear", "amend"} \cap shift.does = {} =>
         (\A i, j \in OpenActions' : i = j) /\ ShowsNext'
  BY <1>1, SummaryKept, ShowsKept DEF NextFits
<1>4. stage \in Stage /\ case' \in CaseRow /\ act' \in [ActionId -> ActionRow]
  BY JobHere DEF Stage
<1>5. CaseInvariant'
  BY <1>2, <1>3, <1>4, GoesKeeps
<1>6. path' \in [PathwayId -> PathwayRow] /\ CaseJobs
  BY DEF CaseInvariant, CaseJobs, CaseTypes
<1> QED
  BY <1>4, <1>5, <1>6, GoesStep

LEMMA FinishSame ==
    ASSUME CaseInvariant, NEW w \in Worker, job[w] # Idle, Finishes(w),
           job[w].stage \in {"begun", "opening", "marking", "answering"},
           UNCHANGED <<act, path, shift>>, case' \in CaseRow,
           case'.pathway = case.pathway, case'.next = case.next
    PROVE  CaseInvariant' /\ job'[w] = Idle /\ \A v \in Worker \ {w} : job'[v] = job[v]
<1>1. Steady => PointerFits(job[w]) /\ NextFits(job[w])
  BY JobHere
<1>2. Steady => PointerFits(Idle)' /\ NextFits(Idle)'
  BY <1>1, IdleIsJob, CurrentKept, SummaryKept, ShowsKept, RootedKept DEF PointerFits, NextFits
<1>3. act' \in [ActionId -> ActionRow]
  BY JobHere
<1>4. CaseInvariant'
  BY <1>2, <1>3, FinishKeeps
<1>5. job \in [Worker -> Job]
  BY DEF CaseInvariant, CaseJobs, CaseTypes
<1> QED
  BY <1>4, <1>5 DEF Finishes

LEMMA StartElse ==
    ASSUME CaseInvariant, NEW w \in Worker, NEW op \in PlacementOps, Starts(w, op),
           job' = [job EXCEPT ![w] = [Idle EXCEPT !.op = op]]
             \/ job' = [job EXCEPT ![w] = [Idle EXCEPT !.op = op, !.copy = case]],
           UNCHANGED <<case, act, path, shift>>
    PROVE  /\ CaseInvariant'
           /\ job'[w].op = op /\ job'[w].stage = "begun" /\ job[w].stage = "begun"
           /\ \A v \in Worker \ {w} : job'[v] = job[v]
<1>1. PICK r : /\ job' = [job EXCEPT ![w] = r]
               /\ r = [Idle EXCEPT !.op = op] \/ r = [Idle EXCEPT !.op = op, !.copy = case]
  OBVIOUS
<1>2. op \in CaseOps /\ case \in CaseRow /\ job \in [Worker -> Job]
  BY DEF PlacementOps, CaseOps, CaseInvariant, CaseJobs, CaseTypes
<1>3. r \in Job /\ r.op = op /\ r.stage = "begun"
  BY <1>1, <1>2, IdleIsJob DEF Job
<1>4. op \in shift.does /\ job[w] = Idle
  BY DEF Starts
<1>5. JobFits(r) /\ CopyFits(r) /\ FreshJob(r)
  BY <1>3, <1>4 DEF JobFits, Reaches, CopyFits, FreshJob, PlacementOps
<1> QED
  BY <1>1, <1>2, <1>3, <1>4, <1>5, IdleIsJob, StartKeeps

\* The other requests are as they were.
LEMMA OthersFit ==
    ASSUME PlacementInvariant, NEW w \in Worker, \A v \in Worker \ {w} : job'[v] = job[v],
           \A v \in Worker \ {w} : visit'[v] = visit[v],
           UNCHANGED <<placement, check, shift>>, VisitFits(job[w], visit[w])'
    PROVE  \A v \in Worker : VisitFits(job[v], visit[v])'
<1> SUFFICES ASSUME NEW v \in Worker, v # w PROVE VisitFits(job[v], visit[v])'
  OBVIOUS
<1>1. VisitFits(job[v], visit[v]) /\ job'[v] = job[v] /\ visit'[v] = visit[v]
  BY DEF PlacementInvariant
<1> QED
  BY <1>1 DEF VisitFits, Serial, PendingChecks

\* Checks and placements are as they were, and whoever is opening some still is.
LEMMA ChecksKept ==
    ASSUME ChecksFit, UNCHANGED <<placement, check, shift>>, NEW w \in Worker,
           \A v \in Worker \ {w} : job'[v] = job[v] /\ visit'[v] = visit[v],
           job[w].stage # "opening"
    PROVE  ChecksFit'
<1>1. \A p, k : StillOpening(p, k) => StillOpening(p, k)'
  BY DEF StillOpening
<1> QED
  BY <1>1 DEF ChecksFit, Serial, PendingChecks

LEMMA BeginPlaceStep ==
    ASSUME PlacementInvariant, NEW w \in Worker, BeginPlace(w)
    PROVE  PlacementInvariant'
<1> USE DEF PlacementInvariant
<1>1. /\ CaseInvariant' /\ job'[w].op = "place" /\ job'[w].stage = "begun"
      /\ job[w].stage = "begun" /\ \A v \in Worker \ {w} : job'[v] = job[v]
  BY StartElse DEF BeginPlace, PlacementOps
<1>2. UNCHANGED <<shift, placement, check, visit>>
  BY DEF BeginPlace
<1>3. VisitFits(job[w], visit[w])'
  BY <1>1 DEF VisitFits
<1>4. PlacementTypes'
  BY <1>2 DEF PlacementTypes
<1> QED
  BY <1>1, <1>2, <1>3, <1>4, OthersFit, ChecksKept

LEMMA LoadCheckStep ==
    ASSUME PlacementInvariant, NEW w \in Worker, NEW p \in PlacementId, NEW k \in Checkpoint,
           LoadCheck(w, p, k)
    PROVE  PlacementInvariant'
<1> USE DEF PlacementInvariant
<1>1. /\ CaseInvariant' /\ job'[w].op = "answer" /\ job'[w].stage = "begun"
      /\ job[w].stage = "begun" /\ \A v \in Worker \ {w} : job'[v] = job[v]
  BY StartElse DEF LoadCheck, PlacementOps
<1> DEFINE s == [NoVisit EXCEPT !.placement = p, !.checkpoint = k, !.row = placement[p]]
<1>2. UNCHANGED <<shift, placement, check>> /\ visit' = [visit EXCEPT ![w] = s]
  BY DEF LoadCheck
<1>3. /\ s \in Visit /\ s.placement = p /\ s.checkpoint = k /\ s.row = placement[p]
  <2>1. p \in 0 .. PlacementCap /\ k \in 0 .. Checkpoints + 1 /\ placement[p] \in PlacementRow
    BY Bounds DEF PlacementId, Checkpoint, PlacementTypes
  <2> QED
    BY <2>1, NoVisitFits DEF Visit
<1> HIDE DEF s
<1>4. visit'[w] = s /\ \A v \in Worker \ {w} : visit'[v] = visit[v]
  BY <1>2 DEF PlacementTypes
<1>5. VisitFits(job[w], visit[w])'
  BY <1>1, <1>2, <1>3, <1>4 DEF VisitFits
<1>6. PlacementTypes'
  BY <1>2, <1>3 DEF PlacementTypes
<1> QED
  BY <1>1, <1>2, <1>4, <1>5, <1>6, OthersFit, ChecksKept

LEMMA LoadPlacementStep ==
    ASSUME PlacementInvariant, NEW w \in Worker, NEW op, NEW p \in PlacementId,
           LoadPlacement(w, op, p)
    PROVE  PlacementInvariant'
<1> USE DEF PlacementInvariant
<1>0. op \in {"leave", "correct"}
  BY DEF LoadPlacement
<1>1. /\ CaseInvariant' /\ job'[w].op = op /\ job'[w].stage = "begun"
      /\ job[w].stage = "begun" /\ \A v \in Worker \ {w} : job'[v] = job[v]
  BY <1>0, StartElse DEF LoadPlacement, PlacementOps
<1> DEFINE s == [NoVisit EXCEPT !.placement = p, !.row = placement[p]]
<1>2. UNCHANGED <<shift, placement, check>> /\ visit' = [visit EXCEPT ![w] = s]
  BY DEF LoadPlacement
<1>3. /\ s \in Visit /\ s.placement = p /\ s.row = placement[p]
  <2>1. p \in 0 .. PlacementCap /\ placement[p] \in PlacementRow
    BY Bounds DEF PlacementId, PlacementTypes
  <2> QED
    BY <2>1, NoVisitFits DEF Visit
<1> HIDE DEF s
<1>4. visit'[w] = s /\ \A v \in Worker \ {w} : visit'[v] = visit[v]
  BY <1>2 DEF PlacementTypes
<1>5. VisitFits(job[w], visit[w])'
  <2>1. placement[p].made
    BY DEF LoadPlacement
  <2> QED
    BY <1>0, <1>1, <1>2, <1>3, <1>4, <2>1 DEF VisitFits
<1>6. PlacementTypes'
  BY <1>2, <1>3 DEF PlacementTypes
<1> QED
  BY <1>1, <1>2, <1>4, <1>5, <1>6, OthersFit, ChecksKept

\* Who is at work with others does not rely on what the others hold being as it
\* was; who is at work alone has no others.
LEMMA OthersStay ==
    ASSUME PlacementInvariant, NEW w \in Worker, job[w] # Idle, shift' = shift,
           \A v \in Worker \ {w} : job'[v] = job[v] /\ visit'[v] = visit[v],
           "correct" \notin shift.does =>
              \A p \in PlacementId : placement[p].left => placement'[p].left,
           \A p \in PlacementId : placement[p].made => placement'[p].made,
           VisitFits(job[w], visit[w])'
    PROVE  \A v \in Worker : VisitFits(job[v], visit[v])'
<1> SUFFICES ASSUME NEW v \in Worker, v # w PROVE VisitFits(job[v], visit[v])'
  OBVIOUS
<1>1. VisitFits(job[v], visit[v]) /\ job'[v] = job[v] /\ visit'[v] = visit[v]
  BY DEF PlacementInvariant
<1>2. CASE Serial
  <2>1. job'[v] = Idle
    BY <1>1, <1>2 DEF Serial, PlacementInvariant, CaseInvariant, CaseJobs, OneJob
  <2> QED
    BY <2>1, IdleIsJob DEF VisitFits
<1>3. CASE ~Serial
  BY <1>1, <1>3 DEF VisitFits, Serial
<1> QED
  BY <1>2, <1>3

LEMMA InsertPlacementStep ==
    ASSUME PlacementInvariant, NEW w \in Worker, NEW p \in PlacementId, InsertPlacement(w, p)
    PROVE  PlacementInvariant'
<1> USE DEF PlacementInvariant
<1>1. /\ job[w].op = "place" /\ job[w].stage = "begun" /\ placement[p] = NoPlacement
      /\ placement' = [placement EXCEPT ![p].made = TRUE] /\ Goes(w, "opening")
      /\ UNCHANGED <<case, act, path, shift, check>>
  BY DEF InsertPlacement
<1>2. job[w] # Idle
  BY <1>1, JobHere
<1>3. /\ CaseInvariant' /\ job'[w].op = "place" /\ job'[w].stage = "opening"
      /\ \A v \in Worker \ {w} : job'[v] = job[v]
  BY <1>1, <1>2, GoesSame DEF Reaches
<1>4. /\ visit'[w] \in Visit /\ visit'[w].placement = p /\ visit'[w].checkpoint = 1
      /\ \A v \in Worker \ {w} : visit'[v] = visit[v]
      /\ visit' \in [Worker -> Visit]
  <2> DEFINE s == [visit[w] EXCEPT !.placement = p, !.checkpoint = 1]
  <2>1. visit' = [visit EXCEPT ![w] = s]
    BY DEF InsertPlacement
  <2>2. p \in 0 .. PlacementCap /\ 1 \in 0 .. Checkpoints + 1 /\ visit[w] \in Visit
    BY Bounds DEF PlacementId, PlacementTypes
  <2>3. s \in Visit /\ s.placement = p /\ s.checkpoint = 1
    BY <2>2 DEF Visit
  <2> QED
    BY <2>1, <2>3 DEF PlacementTypes
<1>5. /\ placement' \in [PlacementId -> PlacementRow] /\ ~placement'[p].left
      /\ \A q \in PlacementId : placement'[q].left = placement[q].left
      /\ \A q \in PlacementId : placement[q].made => placement'[q].made
      /\ \A q \in PlacementId : q # p => placement'[q] = placement[q]
  <2>1. placement[p] \in PlacementRow /\ placement \in [PlacementId -> PlacementRow]
    BY DEF PlacementTypes
  <2>2. /\ [placement[p] EXCEPT !.made = TRUE] \in PlacementRow
        /\ [placement[p] EXCEPT !.made = TRUE].left = placement[p].left
        /\ [placement[p] EXCEPT !.made = TRUE].made
    BY <2>1 DEF PlacementRow
  <2>3. ~placement[p].left
    BY <1>1 DEF NoPlacement
  <2> QED
    BY <1>1, <2>1, <2>2, <2>3
<1>6. VisitFits(job[w], visit[w])'
  <2>1. 1 \in 1 .. Checkpoints + 1
    BY Bounds
  <2> QED
    BY <1>3, <1>4, <1>5, <2>1 DEF VisitFits
<1>7. \A v \in Worker : VisitFits(job[v], visit[v])'
  BY <1>1, <1>2, <1>3, <1>4, <1>5, <1>6, OthersStay
<1>8. ChecksFit'
  <2>1. \A q, k : StillOpening(q, k) => StillOpening(q, k)'
    BY <1>1, <1>3, <1>4 DEF StillOpening
  <2>2. \A k \in Checkpoint : StillOpening(p, k)'
    <3>1. \A k \in Checkpoint : 1 <= k
      BY Bounds DEF Checkpoint
    <3> QED
      BY <1>3, <1>4, <3>1 DEF StillOpening
  <2> SUFFICES ASSUME NEW q \in PlacementId
               PROVE  /\ "correct" \notin shift.does /\ ~placement'[q].left =>
                            \A k \in Checkpoint : check[q][k] # "EXITED"
                      /\ Serial /\ placement'[q].left => PendingChecks(q) = {}
                      /\ ~shift.dies /\ placement'[q].made =>
                            \A k \in Checkpoint : check[q][k] = "ABSENT" => StillOpening(q, k)'
    BY <1>1 DEF ChecksFit, Serial, PendingChecks
  <2>3. CASE q = p
    BY <1>5, <2>2, <2>3 DEF ChecksFit
  <2>4. CASE q # p
    BY <1>5, <2>1, <2>4 DEF ChecksFit
  <2> QED
    BY <2>3, <2>4
<1>9. PlacementTypes'
  BY <1>1, <1>4, <1>5 DEF PlacementTypes
<1> QED
  BY <1>3, <1>7, <1>8, <1>9

LEMMA CaseUnmoved ==
    ASSUME CaseInvariant, UNCHANGED <<case, act, path, job, shift>>
    PROVE  CaseInvariant'
<1>1. /\ Current' = Current /\ OpenActions' = OpenActions /\ (ShowsNext' <=> ShowsNext)
      /\ Rooted' = Rooted
  BY CurrentKept, SummaryKept, ShowsKept, RootedKept
<1>2. CaseJobs'
  BY DEF CaseInvariant, CaseJobs, CaseTypes, JobsFit, OneJob
<1>3. OneCurrent(path)' /\ (Rooted => ChainHolds)'
  BY ChainKept
<1>4. (Rooted => \A w \in Worker : CopyFits(job[w]))'
  BY <1>1 DEF CaseInvariant, CopyFits
<1>5. CaseSettled'
  <2>1. Agrees(Idle) => Agrees(Idle)'
    BY <1>1 DEF Agrees, FreshJob, PointerFits, NextFits
  <2>2. \A w \in Worker : Agrees(job[w]) => Agrees(job[w])'
    BY <1>1 DEF Agrees, FreshJob, PointerFits, NextFits
  <2> QED
    BY <2>1, <2>2 DEF CaseInvariant, CaseSettled, Steady, AtRest
<1> QED
  BY <1>2, <1>3, <1>4, <1>5 DEF CaseInvariant

LEMMA OpenCheckpointStep ==
    ASSUME PlacementInvariant, NEW w \in Worker, OpenCheckpoint(w)
    PROVE  PlacementInvariant'
<1> USE DEF PlacementInvariant
<1> DEFINE p == visit[w].placement
           n == visit[w].checkpoint
<1>1. job[w].stage = "opening" /\ UNCHANGED <<case, act, path, shift, placement>>
  BY DEF OpenCheckpoint
<1>2. /\ job[w] # Idle /\ job[w].op = "place"
      /\ p \in PlacementId /\ n \in 1 .. Checkpoints + 1
      /\ Serial => ~placement[p].left
  BY <1>1, JobHere DEF Reaches, VisitFits
<1>3. CASE n > Checkpoints
  <2>1. Goes(w, "marking") /\ UNCHANGED <<check, visit>>
    BY <1>3 DEF OpenCheckpoint
  <2>2. /\ CaseInvariant' /\ job'[w].op = "place" /\ job'[w].stage = "marking"
        /\ \A v \in Worker \ {w} : job'[v] = job[v]
    BY <1>1, <1>2, <2>1, GoesSame DEF Reaches
  <2>3. VisitFits(job[w], visit[w])'
    BY <2>2 DEF VisitFits
  <2>4. \A v \in Worker : VisitFits(job[v], visit[v])'
    BY <1>1, <1>2, <2>1, <2>2, <2>3, OthersStay
  <2>5. ChecksFit'
    <3>1. \A q : \A k \in Checkpoint : StillOpening(q, k) => StillOpening(q, k)'
      <4> SUFFICES ASSUME NEW q, NEW k \in Checkpoint, NEW v \in Worker,
                          job[v].stage = "opening", visit[v].placement = q,
                          visit[v].checkpoint <= k
                   PROVE  StillOpening(q, k)'
        BY DEF StillOpening
      <4>1. v # w
        BY <1>2, <1>3, Bounds DEF Checkpoint
      <4> QED
        BY <2>1, <2>2, <4>1 DEF StillOpening
    <3> QED
      BY <1>1, <2>1, <3>1 DEF ChecksFit, Serial, PendingChecks
  <2>6. PlacementTypes'
    BY <1>1, <2>1 DEF PlacementTypes
  <2> QED
    BY <2>2, <2>4, <2>5, <2>6
<1>4. CASE ~(n > Checkpoints)
  <2> DEFINE s == [visit[w] EXCEPT !.checkpoint = n + 1]
  <2>1. /\ check' = [check EXCEPT ![p][n] = "PENDING"] /\ UNCHANGED job
        /\ visit' = [visit EXCEPT ![w] = s]
    BY <1>4 DEF OpenCheckpoint
  <2>2. n \in Checkpoint /\ n + 1 \in 1 .. Checkpoints + 1 /\ n + 1 \in 0 .. Checkpoints + 1
    BY <1>2, <1>4, Bounds DEF Checkpoint
  <2>3. /\ s \in Visit /\ s.placement = p /\ s.checkpoint = n + 1
    BY <2>2 DEF PlacementTypes, Visit
  <2> HIDE DEF s
  <2>4. /\ visit'[w] = s /\ \A v \in Worker \ {w} : visit'[v] = visit[v]
        /\ visit' \in [Worker -> Visit]
    BY <2>1, <2>3 DEF PlacementTypes
  <2>5. /\ check' \in [PlacementId -> [Checkpoint -> CheckStatus]] /\ check'[p][n] = "PENDING"
        /\ \A q \in PlacementId, k \in Checkpoint : ~(q = p /\ k = n) => check'[q][k] = check[q][k]
    BY <1>2, <2>1, <2>2 DEF PlacementTypes, CheckStatus
  <2>6. CaseInvariant'
    BY <1>1, <2>1, CaseUnmoved
  <2>7. VisitFits(job[w], visit[w])'
    BY <1>1, <1>2, <2>1, <2>2, <2>3, <2>4 DEF VisitFits, Serial
  <2>8. \A v \in Worker : VisitFits(job[v], visit[v])'
    BY <1>1, <1>2, <2>1, <2>4, <2>7, OthersStay
  <2>9. ChecksFit'
    <3> SUFFICES ASSUME NEW q \in PlacementId
                 PROVE  /\ "correct" \notin shift.does /\ ~placement[q].left =>
                              \A k \in Checkpoint : check'[q][k] # "EXITED"
                        /\ Serial /\ placement[q].left => PendingChecks(q)' = {}
                        /\ ~shift.dies /\ placement[q].made =>
                              \A k \in Checkpoint : check'[q][k] = "ABSENT" =>
                                 StillOpening(q, k)'
      BY <1>1 DEF ChecksFit, Serial
    <3>1. \A k \in Checkpoint : check'[q][k] \in {"EXITED", "ABSENT"} => check'[q][k] = check[q][k]
      BY <2>2, <2>5
    <3>2. Serial /\ placement[q].left => PendingChecks(q)' = {}
      BY <1>2, <2>5 DEF ChecksFit, PendingChecks
    <3>3. \A k \in Checkpoint : StillOpening(q, k) /\ check'[q][k] = "ABSENT" =>
             StillOpening(q, k)'
      <4> SUFFICES ASSUME NEW k \in Checkpoint, NEW v \in Worker, check'[q][k] = "ABSENT",
                          job[v].stage = "opening", visit[v].placement = q,
                          visit[v].checkpoint <= k
                   PROVE  StillOpening(q, k)'
        BY DEF StillOpening
      <4>1. CASE v # w
        BY <2>1, <2>4, <4>1 DEF StillOpening
      <4>2. CASE v = w
        <5>1. q = p /\ n <= k /\ k # n
          BY <2>5, <4>2
        <5>2. n + 1 <= k
          BY <2>2, <5>1, Bounds DEF Checkpoint
        <5> QED
          BY <1>1, <2>1, <2>3, <2>4, <4>2, <5>1, <5>2 DEF StillOpening
      <4> QED
        BY <4>1, <4>2
    <3> QED
      BY <3>1, <3>2, <3>3 DEF ChecksFit
  <2>10. PlacementTypes'
    BY <1>1, <2>4, <2>5 DEF PlacementTypes
  <2> QED
    BY <2>6, <2>8, <2>9, <2>10
<1> QED
  BY <1>3, <1>4

\* A request that ends and holds nothing any more.
LEMMA NothingHeld ==
    ASSUME PlacementInvariant, NEW w \in Worker, job'[w] = Idle, visit' = [visit EXCEPT ![w] = NoVisit]
    PROVE  /\ VisitFits(job[w], visit[w])'
           /\ visit' \in [Worker -> Visit]
           /\ \A v \in Worker \ {w} : visit'[v] = visit[v]
<1>1. Elsewhere(Idle)
  BY IdleIsJob DEF Elsewhere, PlacementOps
<1>2. VisitFits(job[w], visit[w])'
  BY <1>1 DEF VisitFits, Elsewhere, PlacementOps
<1> QED
  BY <1>2, NoVisitFits DEF PlacementInvariant, PlacementTypes

LEMMA MarkCasePlacedStep ==
    ASSUME PlacementInvariant, NEW w \in Worker, MarkCasePlaced(w)
    PROVE  PlacementInvariant'
<1> USE DEF PlacementInvariant
<1>1. /\ job[w].stage = "marking" /\ Finishes(w) /\ visit' = [visit EXCEPT ![w] = NoVisit]
      /\ case' = case \/ case' = [case EXCEPT !.status = "PLACED"]
      /\ UNCHANGED <<act, path, shift, placement, check>>
  BY DEF MarkCasePlaced
<1>2. job[w] # Idle /\ case \in CaseRow
  BY <1>1, JobHere
<1>3. case' \in CaseRow /\ case'.pathway = case.pathway /\ case'.next = case.next
  BY <1>1, <1>2 DEF CaseRow
<1>4. CaseInvariant' /\ job'[w] = Idle /\ \A v \in Worker \ {w} : job'[v] = job[v]
  BY <1>1, <1>2, <1>3, FinishSame
<1>5. PlacementTypes'
  BY <1>1, <1>4, NothingHeld DEF PlacementTypes
<1>6. (\A v \in Worker : VisitFits(job[v], visit[v])') /\ ChecksFit'
  BY <1>1, <1>4, NothingHeld, OthersFit, ChecksKept
<1> QED
  BY <1>4, <1>5, <1>6

LEMMA RecordCheckStep ==
    ASSUME PlacementInvariant, NEW w \in Worker,
           NEW answer \in {"RETAINED", "EXITED", "UNREACHABLE"}, RecordCheck(w, answer)
    PROVE  PlacementInvariant'
<1> USE DEF PlacementInvariant
<1> DEFINE p == visit[w].placement
           n == visit[w].checkpoint
<1>1. /\ job[w].op = "answer" /\ Finishes(w) /\ visit' = [visit EXCEPT ![w] = NoVisit]
      /\ answer = "EXITED" => visit[w].row.left
      /\ check' = [check EXCEPT ![p][n] = answer]
      /\ UNCHANGED <<case, act, path, shift, placement>>
  BY DEF RecordCheck
<1>2. /\ job[w] # Idle /\ job[w].stage = "begun" /\ case \in CaseRow
      /\ p \in PlacementId /\ n \in Checkpoint
      /\ "correct" \notin shift.does /\ visit[w].row.left => placement[p].left
  BY <1>1, JobHere DEF Reaches, VisitFits
<1>3. CaseInvariant' /\ job'[w] = Idle /\ \A v \in Worker \ {w} : job'[v] = job[v]
  BY <1>1, <1>2, FinishSame
<1>4. /\ check' \in [PlacementId -> [Checkpoint -> CheckStatus]] /\ check'[p][n] = answer
      /\ \A q \in PlacementId, k \in Checkpoint : ~(q = p /\ k = n) => check'[q][k] = check[q][k]
  BY <1>1, <1>2 DEF PlacementTypes, CheckStatus
<1>5. PlacementTypes'
  BY <1>1, <1>3, <1>4, NothingHeld DEF PlacementTypes
<1>6. \A v \in Worker : VisitFits(job[v], visit[v])'
  BY <1>1, <1>2, <1>3, NothingHeld, OthersStay
<1>7. ChecksFit'
  <2>1. \A q, k : StillOpening(q, k) => StillOpening(q, k)'
    BY <1>2, <1>3, <1>1, NothingHeld DEF StillOpening
  <2> SUFFICES ASSUME NEW q \in PlacementId
               PROVE  /\ "correct" \notin shift.does /\ ~placement[q].left =>
                            \A k \in Checkpoint : check'[q][k] # "EXITED"
                      /\ Serial /\ placement[q].left => PendingChecks(q)' = {}
                      /\ ~shift.dies /\ placement[q].made =>
                            \A k \in Checkpoint : check'[q][k] = "ABSENT" => StillOpening(q, k)'
    BY <1>1 DEF ChecksFit, Serial
  <2>2. \A k \in Checkpoint : check'[q][k] \in {"PENDING", "ABSENT"} => check'[q][k] = check[q][k]
    BY <1>4
  <2>3. "correct" \notin shift.does /\ ~placement[q].left =>
           \A k \in Checkpoint : check'[q][k] # "EXITED"
    BY <1>1, <1>2, <1>4 DEF ChecksFit
  <2> QED
    BY <2>1, <2>2, <2>3 DEF ChecksFit, PendingChecks
<1> QED
  BY <1>3, <1>5, <1>6, <1>7

LEMMA BeginExitStep ==
    ASSUME PlacementInvariant, NEW w \in Worker, NEW held \in 0 .. Checkpoints, BeginExit(w, held)
    PROVE  PlacementInvariant'
<1> USE DEF PlacementInvariant
<1> DEFINE p == visit[w].placement
           row == [visit[w].row EXCEPT !.left = TRUE, !.held = held]
           s == [visit[w] EXCEPT !.row = row, !.pending = PendingChecks(p)]
<1>1. /\ job[w].op = "leave" /\ job[w].stage = "begun" /\ Goes(w, "answering")
      /\ visit' = [visit EXCEPT ![w] = s]
      /\ UNCHANGED <<case, act, path, shift, placement, check>>
  BY DEF BeginExit, ChecksToAnswer
<1>2. job[w] # Idle /\ p \in PlacementId /\ placement[p].made /\ visit[w].row.made
  BY <1>1, JobHere DEF VisitFits
<1>3. /\ CaseInvariant' /\ job'[w].op = "leave" /\ job'[w].stage = "answering"
      /\ \A v \in Worker \ {w} : job'[v] = job[v]
  BY <1>1, <1>2, GoesSame DEF Reaches
<1>4. /\ s \in Visit /\ s.placement = p /\ s.row.left /\ s.row.made /\ s.pending = PendingChecks(p)
  <2>1. visit[w] \in Visit /\ visit[w].row \in PlacementRow
    BY DEF PlacementTypes, Visit
  <2>2. row \in PlacementRow /\ row.left /\ row.made
    BY <1>2, <2>1 DEF PlacementRow
  <2>3. PendingChecks(p) \in SUBSET Checkpoint
    BY DEF PendingChecks
  <2> HIDE DEF row
  <2> QED
    BY <2>1, <2>2, <2>3 DEF Visit
<1> HIDE DEF s
<1>5. visit'[w] = s /\ (\A v \in Worker \ {w} : visit'[v] = visit[v]) /\ visit' \in [Worker -> Visit]
  BY <1>1, <1>4 DEF PlacementTypes
<1>6. VisitFits(job[w], visit[w])'
  BY <1>1, <1>2, <1>3, <1>4, <1>5 DEF VisitFits, PendingChecks
<1>7. PlacementTypes'
  BY <1>1, <1>5 DEF PlacementTypes
<1>8. (\A v \in Worker : VisitFits(job[v], visit[v])') /\ ChecksFit'
  BY <1>1, <1>3, <1>5, <1>6, OthersFit, ChecksKept
<1> QED
  BY <1>3, <1>7, <1>8

LEMMA CommitExitStep ==
    ASSUME PlacementInvariant, NEW w \in Worker, CommitExit(w)
    PROVE  PlacementInvariant'
<1> USE DEF PlacementInvariant
<1> DEFINE v == visit[w]
           p == visit[w].placement
           Answer(k) == IF k <= v.row.held THEN "RETAINED" ELSE "EXITED"
<1>1. /\ job[w].stage = "answering" /\ Finishes(w) /\ visit' = [visit EXCEPT ![w] = NoVisit]
      /\ placement' = [placement EXCEPT ![p] = v.row]
      /\ check' = [check EXCEPT ![p] =
                      [k \in Checkpoint |-> IF k \in v.pending THEN Answer(k) ELSE check[p][k]]]
      /\ UNCHANGED <<case, act, path, shift>>
  BY DEF CommitExit
<1>2. /\ job[w] # Idle /\ job[w].op = "leave" /\ case \in CaseRow
      /\ p \in PlacementId /\ placement[p].made /\ v.row.made /\ v.row.left
      /\ Serial => v.pending = PendingChecks(p)
  BY <1>1, JobHere DEF Reaches, VisitFits
<1>3. CaseInvariant' /\ job'[w] = Idle /\ \A u \in Worker \ {w} : job'[u] = job[u]
  BY <1>1, <1>2, FinishSame
<1>4. /\ check' \in [PlacementId -> [Checkpoint -> CheckStatus]]
      /\ \A k \in Checkpoint : \/ check'[p][k] = check[p][k] /\ k \notin v.pending
                               \/ check'[p][k] \in {"RETAINED", "EXITED"}
      /\ \A q \in PlacementId : q # p => check'[q] = check[q]
  <2>1. [k \in Checkpoint |-> IF k \in v.pending THEN Answer(k) ELSE check[p][k]]
           \in [Checkpoint -> CheckStatus]
    BY <1>2 DEF PlacementTypes, CheckStatus
  <2>2. check'[p] = [k \in Checkpoint |-> IF k \in v.pending THEN Answer(k) ELSE check[p][k]]
    BY <1>1, <1>2 DEF PlacementTypes
  <2>3. \A k \in Checkpoint : Answer(k) \in {"RETAINED", "EXITED"}
    OBVIOUS
  <2> HIDE DEF Answer
  <2>4. \A k \in Checkpoint : check'[p][k] = IF k \in v.pending THEN Answer(k) ELSE check[p][k]
    BY <2>2
  <2> QED
    BY <1>1, <1>2, <2>1, <2>3, <2>4 DEF PlacementTypes
<1>5. /\ placement' \in [PlacementId -> PlacementRow] /\ placement'[p] = v.row
      /\ \A q \in PlacementId : q # p => placement'[q] = placement[q]
  BY <1>1, <1>2 DEF PlacementTypes, Visit
<1>6. /\ VisitFits(job[w], visit[w])' /\ visit' \in [Worker -> Visit]
      /\ \A u \in Worker \ {w} : visit'[u] = visit[u]
  BY <1>1, <1>3, NothingHeld
<1>7. PlacementTypes'
  BY <1>4, <1>5, <1>6 DEF PlacementTypes
<1>8. \A u \in Worker : VisitFits(job[u], visit[u])'
  <2>1. \A q \in PlacementId : /\ placement[q].left => placement'[q].left
                               /\ placement[q].made => placement'[q].made
    BY <1>2, <1>5
  <2> QED
    BY <1>1, <1>2, <1>3, <1>6, <2>1, OthersStay
<1>9. ChecksFit'
  <2>1. \A q, k : StillOpening(q, k) => StillOpening(q, k)'
    BY <1>1, <1>3, <1>6 DEF StillOpening
  <2> SUFFICES ASSUME NEW q \in PlacementId
               PROVE  /\ "correct" \notin shift.does /\ ~placement'[q].left =>
                            \A k \in Checkpoint : check'[q][k] # "EXITED"
                      /\ Serial /\ placement'[q].left => PendingChecks(q)' = {}
                      /\ ~shift.dies /\ placement'[q].made =>
                            \A k \in Checkpoint : check'[q][k] = "ABSENT" => StillOpening(q, k)'
    BY <1>1 DEF ChecksFit, Serial
  <2>2. CASE q # p
    BY <1>4, <1>5, <2>1, <2>2 DEF ChecksFit, PendingChecks
  <2>3. CASE q = p
    <3>1. placement'[q].left
      BY <1>2, <1>5, <2>3
    <3>2. Serial => PendingChecks(q)' = {}
      BY <1>2, <1>4, <2>3 DEF PendingChecks
    <3>3. \A k \in Checkpoint : check'[q][k] = "ABSENT" => check[q][k] = "ABSENT"
      BY <1>4, <2>3
    <3> QED
      BY <1>2, <2>1, <2>3, <3>1, <3>2, <3>3 DEF ChecksFit
  <2> QED
    BY <2>2, <2>3
<1> QED
  BY <1>3, <1>7, <1>8, <1>9

LEMMA CorrectPlacementStep ==
    ASSUME PlacementInvariant, NEW w \in Worker, CorrectPlacement(w)
    PROVE  PlacementInvariant'
<1> USE DEF PlacementInvariant
<1> DEFINE v == visit[w]
           p == visit[w].placement
<1>1. /\ job[w].op = "correct" /\ Finishes(w) /\ visit' = [visit EXCEPT ![w] = NoVisit]
      /\ placement' = [placement EXCEPT ![p] = v.row]
      /\ UNCHANGED <<case, act, path, shift, check>>
  BY DEF CorrectPlacement
<1>2. /\ job[w] # Idle /\ job[w].stage = "begun" /\ case \in CaseRow
      /\ p \in PlacementId /\ placement[p].made /\ v.row.made
      /\ Serial => v.row = placement[p]
      /\ "correct" \in shift.does
  BY <1>1, JobHere DEF Reaches, VisitFits
<1>3. CaseInvariant' /\ job'[w] = Idle /\ \A u \in Worker \ {w} : job'[u] = job[u]
  BY <1>1, <1>2, FinishSame
<1>4. /\ placement' \in [PlacementId -> PlacementRow] /\ placement'[p] = v.row
      /\ \A q \in PlacementId : q # p => placement'[q] = placement[q]
  BY <1>1, <1>2 DEF PlacementTypes, Visit
<1>5. /\ VisitFits(job[w], visit[w])' /\ visit' \in [Worker -> Visit]
      /\ \A u \in Worker \ {w} : visit'[u] = visit[u]
  BY <1>1, <1>3, NothingHeld
<1>6. PlacementTypes'
  BY <1>1, <1>4, <1>5 DEF PlacementTypes
<1>7. \A u \in Worker : VisitFits(job[u], visit[u])'
  <2>1. \A q \in PlacementId : placement[q].made => placement'[q].made
    BY <1>2, <1>4
  <2> QED
    BY <1>1, <1>2, <1>3, <1>5, <2>1, OthersStay
<1>8. ChecksFit'
  <2>1. \A q, k : StillOpening(q, k) => StillOpening(q, k)'
    BY <1>2, <1>3, <1>5 DEF StillOpening
  <2>2. \A q \in PlacementId : placement'[q].made => placement[q].made
    BY <1>2, <1>4
  <2>3. Serial => \A q \in PlacementId : placement'[q].left = placement[q].left
    BY <1>2, <1>4
  <2> QED
    BY <1>1, <1>2, <2>1, <2>2, <2>3 DEF ChecksFit, Serial, PendingChecks
<1> QED
  BY <1>3, <1>6, <1>7, <1>8

LEMMA PlacementKept ==
    PlacementInvariant /\ [PlacementNext]_<<caseworkVars, placementVars>> => PlacementInvariant'
<1> SUFFICES ASSUME PlacementInvariant, [PlacementNext]_<<caseworkVars, placementVars>>
             PROVE  PlacementInvariant'
  OBVIOUS
<1>1. ASSUME NEW w \in Worker, PlacementStep(w) PROVE PlacementInvariant'
  BY <1>1, BeginPlaceStep, OpenCheckpointStep, MarkCasePlacedStep, InsertPlacementStep,
     LoadCheckStep, RecordCheckStep, LoadPlacementStep, BeginExitStep, CommitExitStep,
     CorrectPlacementStep
     DEF PlacementStep
<1>2. CASE UNCHANGED <<caseworkVars, placementVars>>
  <2>1. CaseInvariant'
    BY <1>2, CaseUnmoved DEF caseworkVars, PlacementInvariant
  <2>2. UNCHANGED <<job, shift, placement, check, visit>>
    BY <1>2 DEF caseworkVars, placementVars
  <2> QED
    BY <2>1, <2>2
       DEF PlacementInvariant, PlacementTypes, VisitFits, ChecksFit, StillOpening, Serial,
           PendingChecks
<1> QED
  BY <1>1, <1>2, CaseworkStepKeeps DEF PlacementNext

\* The case, its actions, pathways, placements and checks are well formed
\* between any two statements of any requests, and what is under way fits them.
THEOREM PlacementSound == PlacementSpec => []PlacementInvariant
BY PlacementStarts, PlacementKept, PTL DEF PlacementSpec

\* However reworded, revised and chosen at once, a case has one current pathway
\* at most, and unless assignments change cases they form one chain that ends in
\* it (PathwayAssignment.revise and its index).
THEOREM CasePathwayChain == PlacementSpec => []PathwayChain
<1>1. PlacementInvariant => PathwayChain
  <2> SUFFICES ASSUME CaseInvariant PROVE PathwayChain
    BY DEF PlacementInvariant
  <2>1. Cardinality(Current) <= 1
    BY DEF CaseInvariant, OneCurrent, Current
  <2> QED
    BY <2>1 DEF CaseInvariant, Rooted, ChainHolds, PathwayChain, Made
<1> QED
  BY <1>1, PlacementSound, PTL

\* One request at a time keeps the case's summary and its pointer true, but for
\* what the property names (sync_case_summary, revise; create, validate_case).
THEOREM CaseSummaryFollows == PlacementSpec => []SummaryFollows
<1>1. PlacementInvariant => SummaryFollows
  <2> SUFFICES ASSUME PlacementInvariant, AtRest, Steady
               PROVE  /\ Rooted => Current = {case.pathway} \ {0}
                      /\ {"clear", "amend"} \cap shift.does = {} =>
                            ShowsNext /\ Cardinality(OpenActions) <= 1
    BY DEF SummaryFollows, Steady, Rooted
  <2>1. PointerFits(Idle) /\ NextFits(Idle)
    BY DEF PlacementInvariant, CaseInvariant, CaseSettled, Agrees
  <2>2. IsFiniteSet(OpenActions)
    <3>1. OpenActions \in SUBSET (1 .. ActionCap) /\ IsFiniteSet(1 .. ActionCap)
      BY Caps, FS_Interval DEF OpenActions, ActionId
    <3> QED
      BY <3>1, FS_Subset
  <2>3. Rooted => Current = {case.pathway} \ {0}
    BY <2>1, IdleIsJob DEF PointerFits
  <2>4. {"clear", "amend"} \cap shift.does = {} =>
           ShowsNext /\ \A i, j \in OpenActions : i = j
    BY <2>1, IdleIsJob DEF NextFits
  <2> QED
    BY <2>2, <2>3, <2>4, AtMostOne
<1> QED
  BY <1>1, PlacementSound, PTL

\* No placement falls out of the retention figures: exits, answers and the opening
\* of checks leave none of them open or missing (record_exit, open_checkpoints).
THEOREM PlacementFollowedUp == PlacementSpec => []FollowedUp
<1>1. PlacementInvariant => FollowedUp
  <2> SUFFICES ASSUME PlacementInvariant, NEW p \in PlacementId
               PROVE  /\ "correct" \notin shift.does /\ ~placement[p].left =>
                            \A k \in Checkpoint : check[p][k] # "EXITED"
                      /\ shift.atOnce = 1 /\ placement[p].left => PendingChecks(p) = {}
                      /\ AtRest /\ ~shift.dies /\ placement[p].made =>
                            \A k \in Checkpoint : check[p][k] # "ABSENT"
    BY DEF FollowedUp
  <2>1. AtRest => \A k : ~StillOpening(p, k)
    BY IdleIsJob DEF AtRest, StillOpening
  <2> QED
    BY <2>1 DEF PlacementInvariant, ChecksFit, Serial
<1> QED
  BY <1>1, PlacementSound, PTL

-----------------------------------------------------------------------------
(* The readers of the thresholds.                                          *)

RowSort == [key : Key, scope : Scope, value : Value, from : Nat, to : Nat]

LEMMA Places == Cardinality(Place) \in Nat /\ Node \subseteq Nat /\ \A n \in Node : n <= Cardinality(Place)
BY FS_CardinalityType, PolicyAssumption DEF Node

LEMMA FirstIs ==
    ASSUME NEW S \in SUBSET Nat, S # {}
    PROVE  First(S) \in S /\ \A i \in S : First(S) <= i
BY LeastNat DEF First

\* How a row ranks against a position of the chain.
LEMMA RankOf ==
    ASSUME NEW r \in RowSort, NEW chain
    PROVE  /\ r.scope = Nowhere => Rank(r, chain) = Cardinality(Place) + 1
           /\ r.scope # Nowhere /\ (\E n \in Node : chain[n] = r.scope) =>
                 /\ Rank(r, chain) \in Node /\ chain[Rank(r, chain)] = r.scope
                 /\ \A n \in Node : chain[n] = r.scope => Rank(r, chain) <= n
<1> DEFINE S == {n \in Node : chain[n] = r.scope}
<1>1. S \in SUBSET Nat
  BY Places
<1>2. ASSUME \E n \in Node : chain[n] = r.scope
      PROVE  First(S) \in S /\ \A i \in S : First(S) <= i
  BY <1>1, <1>2, FirstIs
<1>3. r.scope # Nowhere => Rank(r, chain) = First(S)
  BY DEF Rank
<1> HIDE DEF S
<1>4. \A n : n \in S <=> n \in Node /\ chain[n] = r.scope
  BY DEF S
<1> QED
  BY <1>2, <1>3, <1>4 DEF Rank

\* Where every row looked at ranks alike, the one that started last is kept.
LEMMA KeptAmong ==
    ASSUME rows \in SUBSET RowSort, NEW day \in Nat, NEW key, NEW place, NEW best \in Nat, NEW found,
           found \in SUBSET Seen(key, place, day), found # {},
           \A r \in Seen(key, place, day) :
              /\ Rank(r, LocationChain(place)) \in Nat
              /\ r \in found => Rank(r, LocationChain(place)) = best
              /\ r \notin found => Rank(r, LocationChain(place)) > best
    PROVE  SetValue(key, place, day) = Latest(found)
<1> DEFINE mine == Seen(key, place, day)
           kept == {r \in mine : \A q \in mine : ~Beats(q, r, LocationChain(place))}
           last == {s \in found : \A q \in found : q.from <= s.from}
<1>1. \A r \in mine : r.from \in Nat
  BY DEF Seen, InForce, RowSort
<1>2. ASSUME NEW r \in mine PROVE r \in kept <=> r \in last
  <2>1. CASE r \in found
    <3>1. \A q \in mine : Beats(q, r, LocationChain(place)) <=> q \in found /\ q.from > r.from
      BY <2>1 DEF Beats
    <3> QED
      BY <1>1, <2>1, <3>1
  <2>2. CASE r \notin found
    <3>1. PICK q \in found : TRUE
      OBVIOUS
    <3>2. Beats(q, r, LocationChain(place))
      BY <2>2, <3>1 DEF Beats
    <3> QED
      BY <2>2, <3>1, <3>2
  <2> QED
    BY <2>1, <2>2
<1>3. kept = last
  BY <1>2
<1>4. mine # {}
  OBVIOUS
<1>5. SetValue(key, place, day) = {r.value : r \in kept}
  BY <1>4 DEF SetValue
<1> HIDE DEF kept, last
<1>6. {r.value : r \in kept} = {r.value : r \in last}
  BY <1>3
<1> QED
  BY <1>5, <1>6 DEF Latest, last

LEMMA ReadersAgree ==
    ASSUME rows \in SUBSET RowSort, NEW day \in Nat, NEW key \in Key, NEW place \in Scope
    PROVE  ResolveKey(key, place, day) = SetValue(key, place, day)
<1> DEFINE chain == LocationChain(place)
           mine == Seen(key, place, day)
           placed == {n \in Node : chain[n] # Nowhere /\ AtScope(key, chain[n], day) # {}}
           everywhere == AtScope(key, Nowhere, day)
<1>1. /\ placed \in SUBSET Nat
      /\ mine \in SUBSET RowSort
  BY Places DEF Seen, InForce
<1>2. \A r \in mine : /\ r.scope = Nowhere \/ \E n \in Node : chain[n] = r.scope
                      /\ Rank(r, chain) \in Nat
  <2> SUFFICES ASSUME NEW r \in mine
               PROVE  /\ r.scope = Nowhere \/ \E n \in Node : chain[n] = r.scope
                      /\ Rank(r, chain) \in Nat
    OBVIOUS
  <2>1. r.scope = Nowhere \/ \E n \in Node : chain[n] = r.scope
    BY DEF Seen
  <2>2. r \in RowSort
    BY <1>1
  <2>3. CASE r.scope = Nowhere
    BY <2>2, <2>3, RankOf, Places
  <2>4. CASE r.scope # Nowhere
    BY <2>1, <2>2, <2>4, RankOf, Places
  <2> QED
    BY <2>1, <2>3, <2>4
<1>3. ASSUME NEW n \in Node PROVE AtScope(key, chain[n], day) \subseteq mine
  BY DEF AtScope, Seen
<1>4. everywhere \subseteq mine
  BY DEF AtScope, Seen
<1>5. CASE placed # {}
  <2> DEFINE m == First(placed)
             found == AtScope(key, chain[m], day)
  <2>1. m \in placed /\ \A i \in placed : m <= i
    BY <1>1, <1>5, FirstIs
  <2> HIDE DEF m
  <2>2. m \in Node /\ chain[m] # Nowhere /\ found # {}
    BY <2>1
  <2>3. ASSUME NEW r \in mine
        PROVE  /\ r \in found => Rank(r, chain) = m
               /\ r \notin found => Rank(r, chain) > m
    <3>1. r.key = key /\ r \in InForce(day) /\ r \in RowSort
      BY <1>1 DEF Seen
    <3>2. r \in found <=> r.scope = chain[m]
      BY <3>1 DEF AtScope
    <3>3. CASE r.scope = Nowhere
      BY <2>2, <3>1, <3>2, <3>3, RankOf, Places
    <3>4. CASE r.scope # Nowhere
      <4> DEFINE k == Rank(r, chain)
      <4>1. /\ k \in Node /\ chain[k] = r.scope
            /\ \A n \in Node : chain[n] = r.scope => k <= n
        BY <1>2, <3>1, <3>4, RankOf
      <4> HIDE DEF k
      <4>2. r \in AtScope(key, chain[k], day)
        BY <3>1, <4>1 DEF AtScope
      <4>3. k \in placed
        BY <3>4, <4>1, <4>2
      <4>4. m <= k
        BY <2>1, <4>3
      <4>5. r.scope = chain[m] => k <= m
        BY <2>2, <4>1
      <4>6. r.scope # chain[m] => k # m
        BY <4>1
      <4>7. k \in Nat /\ m \in Nat
        BY <2>2, <4>1, Places
      <4>8. (r \in found => k = m) /\ (r \notin found => k > m)
        <5> HIDE DEF found
        <5> QED
          BY <3>2, <4>4, <4>5, <4>6, <4>7
      <4> QED
        BY <4>8 DEF k
    <3> QED
      BY <3>3, <3>4
  <2>4. found \subseteq mine
    BY <1>3, <2>2
  <2>5. m \in Nat
    BY <2>2, Places
  <2> HIDE DEF found
  <2>6. SetValue(key, place, day) = Latest(found)
    BY <1>2, <2>2, <2>3, <2>4, <2>5, KeptAmong
  <2>7. ResolveKey(key, place, day) = Latest(found)
    BY <1>5 DEF ResolveKey, m, found
  <2> QED
    BY <2>6, <2>7
<1>6. CASE placed = {} /\ everywhere # {}
  <2>1. ASSUME NEW r \in mine PROVE r.scope = Nowhere
    <3>1. ASSUME NEW n \in Node, chain[n] = r.scope, r.scope # Nowhere PROVE FALSE
      <4>1. r \in AtScope(key, chain[n], day)
        BY <3>1 DEF AtScope, Seen
      <4> QED
        BY <1>6, <3>1, <4>1
    <3> QED
      BY <1>2, <3>1
  <2>2. mine = everywhere
    BY <1>4, <2>1 DEF Seen, AtScope
  <2>3. \A r \in mine : Rank(r, chain) = Cardinality(Place) + 1
    BY <1>1, <2>1, RankOf
  <2>4. Cardinality(Place) + 1 \in Nat
    BY Places
  <2> HIDE DEF everywhere
  <2>5. SetValue(key, place, day) = Latest(everywhere)
    BY <1>2, <1>6, <2>2, <2>3, <2>4, KeptAmong
  <2>6. ResolveKey(key, place, day) = Latest(everywhere)
    BY <1>6 DEF ResolveKey, everywhere
  <2> QED
    BY <2>5, <2>6
<1>7. CASE placed = {} /\ everywhere = {}
  <2>1. mine = {}
    <3> SUFFICES ASSUME NEW r \in mine PROVE FALSE
      OBVIOUS
    <3>1. r \in AtScope(key, r.scope, day)
      BY DEF AtScope, Seen
    <3>2. r.scope # Nowhere
      BY <1>7, <3>1
    <3>3. PICK n \in Node : chain[n] = r.scope
      BY <1>2, <3>2
    <3>4. n \in placed
      BY <3>1, <3>2, <3>3
    <3> QED
      BY <1>7, <3>4
  <2>2. SetValue(key, place, day) = {Fallback[key]}
    BY <2>1 DEF SetValue
  <2>3. ResolveKey(key, place, day) = {Fallback[key]}
    BY <1>7 DEF ResolveKey
  <2> QED
    BY <2>2, <2>3
<1> QED
  BY <1>5, <1>6, <1>7




\* Two rows say the same: what the readers look at.
Alike(r, q) == r.key = q.key /\ r.scope = q.scope /\ r.from = q.from /\ r.value = q.value

\* A day reads as before if the rows in force on it say what they said.
LEMMA ReadsAsBefore ==
    ASSUME NEW day, NEW key, NEW place,
           \A r \in InForce(day) : \E q \in InForce(day)' : Alike(r, q),
           \A q \in InForce(day)' : \E r \in InForce(day) : Alike(r, q)
    PROVE  SetValue(key, place, day)' = SetValue(key, place, day)
<1> DEFINE chain == LocationChain(place)
           mine == Seen(key, place, day)
           next == Seen(key, place, day)'
           Kept(S) == {r \in S : \A q \in S : ~Beats(q, r, chain)}
<1>1. \A r, q : Alike(r, q) => Rank(r, chain) = Rank(q, chain)
  BY DEF Rank, Alike
<1>2. \A r, q, s, t : Alike(r, q) /\ Alike(s, t) => (Beats(r, s, chain) <=> Beats(q, t, chain))
  BY <1>1 DEF Beats, Alike
<1>3. ASSUME NEW r \in mine PROVE \E q \in next : Alike(r, q)
  BY DEF Seen, Alike
<1>4. ASSUME NEW q \in next PROVE \E r \in mine : Alike(r, q)
  BY DEF Seen, Alike
<1>5. SetValue(key, place, day) = IF mine = {} THEN {Fallback[key]} ELSE {r.value : r \in Kept(mine)}
  BY DEF SetValue
<1>6. SetValue(key, place, day)' = IF next = {} THEN {Fallback[key]} ELSE {r.value : r \in Kept(next)}
  BY DEF SetValue
<1> HIDE DEF mine, next, chain
<1>7. ASSUME NEW r \in Kept(mine) PROVE \E q \in Kept(next) : r.value = q.value
  <2>1. PICK q \in next : Alike(r, q)
    BY <1>3, <1>7
  <2>2. ASSUME NEW t \in next PROVE ~Beats(t, q, chain)
    <3>1. PICK s \in mine : Alike(s, t)
      BY <1>4
    <3> QED
      BY <1>2, <2>1, <3>1
  <2> QED
    BY <2>1, <2>2 DEF Alike
<1>8. ASSUME NEW q \in Kept(next) PROVE \E r \in Kept(mine) : r.value = q.value
  <2>1. PICK r \in mine : Alike(r, q)
    BY <1>4, <1>8
  <2>2. ASSUME NEW s \in mine PROVE ~Beats(s, r, chain)
    <3>1. PICK t \in next : Alike(s, t)
      BY <1>3
    <3> QED
      BY <1>2, <2>1, <3>1
  <2> QED
    BY <2>1, <2>2 DEF Alike
<1>9. {r.value : r \in Kept(mine)} = {r.value : r \in Kept(next)}
  <2> HIDE DEF Kept
  <2> QED
    BY <1>7, <1>8
<1>10. mine = {} <=> next = {}
  BY <1>3, <1>4
<1> QED
  BY <1>5, <1>6, <1>9, <1>10

\* The days gone by are on record, and where rows are superseded in order they
\* still read as recorded.
DaysStand ==
    /\ rows \in SUBSET RowSort /\ onDate \in Nat \ {0} /\ regime \in Regime
    /\ Len(was) = onDate - 1
    /\ was \in Seq([Scope -> [Key -> SUBSET Value]])
    /\ regime.orderly =>
          \A day \in 1 .. onDate - 1, place \in Scope, key \in Key :
             SetValue(key, place, day) = was[day][place][key]

LEMMA ValueRead ==
    ASSUME rows \in SUBSET RowSort, NEW day, NEW key \in Key, NEW place
    PROVE  SetValue(key, place, day) \in SUBSET Value
<1> DEFINE mine == Seen(key, place, day)
           best == {r \in mine : \A q \in mine : ~Beats(q, r, LocationChain(place))}
<1>1. best \in SUBSET RowSort
  BY DEF Seen, InForce
<1>2. SetValue(key, place, day) = IF mine = {} THEN {Fallback[key]} ELSE {r.value : r \in best}
  BY DEF SetValue
<1> HIDE DEF best, mine
<1>3. {r.value : r \in best} \in SUBSET Value
  BY <1>1 DEF RowSort
<1> QED
  BY <1>2, <1>3, PolicyAssumption

\* Rows that start today or later, or end today or later, change no day gone by.
LEMMA RowsLeaveDays ==
    ASSUME DaysStand, rows' \in SUBSET RowSort, UNCHANGED <<onDate, was, regime>>,
           regime.orderly =>
              /\ \A r \in rows : r \in rows'
                                 \/ \E q \in rows' : Alike(r, q) /\ r.to = Open /\ q.to >= onDate
              /\ \A q \in rows' : \/ q \in rows
                                  \/ q.from >= onDate
                                  \/ \E r \in rows : Alike(r, q) /\ r.to = Open /\ q.to >= onDate
    PROVE  DaysStand'
<1> SUFFICES ASSUME regime.orderly, NEW day \in 1 .. onDate - 1, NEW place \in Scope, NEW key \in Key
             PROVE  SetValue(key, place, day)' = was[day][place][key]
  BY DEF DaysStand
<1>1. onDate \in Nat /\ day \in Nat /\ day < onDate
  BY DEF DaysStand
<1>2. ASSUME NEW r \in InForce(day) PROVE \E q \in InForce(day)' : Alike(r, q)
  <2>1. r \in rows /\ r \in RowSort /\ r.from <= day
    BY DEF InForce, DaysStand
  <2>2. CASE r \in rows'
    BY <2>2 DEF InForce, Alike
  <2>3. CASE \E q \in rows' : Alike(r, q) /\ r.to = Open /\ q.to >= onDate
    <3>1. PICK q \in rows' : Alike(r, q) /\ q.to >= onDate
      BY <2>3
    <3>2. q.to \in Nat /\ q.to > day
      BY <1>1, <3>1 DEF RowSort
    <3>3. q.from <= day
      BY <2>1, <3>1 DEF Alike
    <3> QED
      BY <3>1, <3>2, <3>3 DEF InForce
  <2> QED
    BY <2>1, <2>2, <2>3
<1>3. ASSUME NEW q \in InForce(day)' PROVE \E r \in InForce(day) : Alike(r, q)
  <2>1. q \in rows' /\ q \in RowSort /\ q.from <= day /\ (q.to = Open \/ q.to > day)
    BY DEF InForce
  <2>2. CASE q \in rows
    BY <2>1, <2>2 DEF InForce, Alike
  <2>3. CASE q.from >= onDate
    BY <1>1, <2>1, <2>3 DEF RowSort
  <2>4. CASE \E r \in rows : Alike(r, q) /\ r.to = Open /\ q.to >= onDate
    BY <2>1, <2>4 DEF InForce, Alike
  <2> QED
    BY <2>1, <2>2, <2>3, <2>4
<1>4. SetValue(key, place, day)' = SetValue(key, place, day)
  BY <1>2, <1>3, ReadsAsBefore
<1> QED
  BY <1>4 DEF DaysStand

LEMMA DaysKept ==
    ASSUME DaysStand, [PolicyNext]_policyVars
    PROVE  DaysStand'
<1>1. onDate \in Nat \ {0} /\ rows \in SUBSET RowSort /\ regime \in Regime
  BY DEF DaysStand
<1>2. ASSUME NEW key \in Key, NEW scope \in Scope, NEW value \in Value, NEW from \in 1 .. LastDay + 1,
             AddParameter(key, scope, value, from)
      PROVE  DaysStand'
  <2> DEFINE q == [key |-> key, scope |-> scope, value |-> value, from |-> from, to |-> Open]
  <2>1. from \in Nat
    BY PolicyAssumption
  <2>2. q \in RowSort /\ q.from = from
    BY <2>1 DEF RowSort, Open
  <2>3. rows' = rows \cup {q} /\ (regime.orderly => from >= onDate)
        /\ UNCHANGED <<onDate, was, regime>>
    BY <1>2 DEF AddParameter, RowsMove
  <2> HIDE DEF q
  <2>4. rows' \in SUBSET RowSort
    BY <1>1, <2>2, <2>3
  <2>5. regime.orderly =>
              /\ \A r \in rows : r \in rows'
              /\ \A t \in rows' : t \in rows \/ t.from >= onDate
    BY <2>2, <2>3
  <2> QED
    BY <2>3, <2>4, <2>5, RowsLeaveDays
<1>3. ASSUME NEW r \in rows, NEW to \in 2 .. LastDay + 1, CloseParameter(r, to)
      PROVE  DaysStand'
  <2> DEFINE q == [r EXCEPT !.to = to]
  <2>1. to \in Nat
    BY PolicyAssumption
  <2>2. r \in RowSort
    BY <1>1
  <2>3. q \in RowSort /\ Alike(r, q) /\ q.to = to
    BY <2>1, <2>2 DEF RowSort, Alike
  <2>4. rows' = (rows \ {r}) \cup {q} /\ r.to = Open /\ (regime.orderly => to >= onDate)
        /\ UNCHANGED <<onDate, was, regime>>
    BY <1>3 DEF CloseParameter, RowsMove
  <2> HIDE DEF q
  <2>5. rows' \in SUBSET RowSort
    BY <1>1, <2>3, <2>4
  <2>6. regime.orderly =>
              /\ \A s \in rows : s \in rows'
                                 \/ \E t \in rows' : Alike(s, t) /\ s.to = Open /\ t.to >= onDate
              /\ \A t \in rows' : \/ t \in rows
                                  \/ \E s \in rows : Alike(s, t) /\ s.to = Open /\ t.to >= onDate
    BY <2>3, <2>4
  <2> QED
    BY <2>4, <2>5, <2>6, RowsLeaveDays
<1>4. ASSUME NEW r \in rows, NEW value \in Value, RewriteParameter(r, value)
      PROVE  DaysStand'
  <2> DEFINE q == [r EXCEPT !.value = value]
  <2>1. r \in RowSort
    BY <1>1
  <2>2. q \in RowSort
    BY <2>1 DEF RowSort
  <2>3. rows' = (rows \ {r}) \cup {q} /\ ~regime.orderly /\ UNCHANGED <<onDate, was, regime>>
    BY <1>4 DEF RewriteParameter, RowsMove
  <2> HIDE DEF q
  <2>4. rows' \in SUBSET RowSort
    BY <1>1, <2>2, <2>3
  <2> QED
    BY <2>3, <2>4, RowsLeaveDays
<1>5. ASSUME PolicyDay PROVE DaysStand'
  <2> DEFINE now == [place \in Scope |-> [key \in Key |-> SetValue(key, place, onDate)]]
  <2>1. was' = Append(was, now) /\ onDate' = onDate + 1 /\ UNCHANGED <<rows, regime>>
    BY <1>5 DEF PolicyDay, RowsMove
  <2>2. \A key \in Key, place \in Scope : SetValue(key, place, onDate) \in SUBSET Value
    BY <1>1, ValueRead
  <2>3. now \in [Scope -> [Key -> SUBSET Value]]
    BY <2>2
  <2>4. \A key \in Key, place \in Scope : now[place][key] = SetValue(key, place, onDate)
    OBVIOUS
  <2> HIDE DEF now
  <2>5. /\ was' \in Seq([Scope -> [Key -> SUBSET Value]]) /\ Len(was') = onDate
        /\ was'[onDate] = now
        /\ \A day \in 1 .. onDate - 1 : was'[day] = was[day]
    BY <1>1, <2>1, <2>3 DEF DaysStand
  <2>6. ASSUME NEW day, NEW key, NEW place PROVE SetValue(key, place, day)' = SetValue(key, place, day)
    <3>1. InForce(day)' = InForce(day)
      BY <2>1 DEF InForce
    <3> QED
      BY <3>1 DEF SetValue, Seen
  <2>7. ASSUME regime.orderly, NEW day \in 1 .. onDate, NEW place \in Scope, NEW key \in Key
        PROVE  SetValue(key, place, day)' = was'[day][place][key]
    <3>1. CASE day = onDate
      BY <2>4, <2>5, <2>6, <3>1
    <3>2. CASE day # onDate
      <4>1. day \in 1 .. onDate - 1
        BY <1>1, <3>2
      <4>2. SetValue(key, place, day) = was[day][place][key]
        BY <2>7, <4>1 DEF DaysStand
      <4>3. was'[day] = was[day]
        BY <2>5, <4>1
      <4> QED
        BY <2>6, <4>2, <4>3
    <3> QED
      BY <3>1, <3>2
  <2>8. onDate' - 1 = onDate /\ onDate' \in Nat \ {0}
    BY <1>1, <2>1
  <2> QED
    BY <1>1, <2>1, <2>5, <2>7, <2>8 DEF DaysStand
<1>6. ASSUME UNCHANGED <<rows, onDate, was, regime>> PROVE DaysStand'
  BY <1>6, RowsLeaveDays, <1>1
<1>7. ASSUME NEW d \in Decider,
             \/ \E place \in Place, look \in BOOLEAN : Evaluate(d, place, look)
             \/ ReuseVersion(d) \/ NeedsVersion(d) \/ MintVersion(d) \/ Refused(d)
      PROVE  UNCHANGED <<rows, onDate, was, regime>>
  BY <1>7 DEF Evaluate, ReuseVersion, NeedsVersion, MintVersion, Refused, Names, NamesGate, NamesEvent,
              Proceeds
<1> QED
  BY <1>2, <1>3, <1>4, <1>5, <1>6, <1>7 DEF PolicyNext, policyVars

\* Both readers of the thresholds give one answer at every place on every day,
\* and a day gone by reads as it did as long as rows are superseded in order:
\* resolve, PolicySet._load and the rows of PolicyParameter.
THEOREM PolicyRulesOfTheDay == PolicySpec => []RulesOfTheDay
<1>1. PolicyInit => DaysStand
  BY PolicyAssumption DEF PolicyInit, DaysStand
<1>2. DaysStand => RulesOfTheDay
  <2> SUFFICES ASSUME DaysStand, NEW day \in 1 .. onDate, NEW place \in Scope, NEW key \in Key
               PROVE  /\ ResolveKey(key, place, day) = SetValue(key, place, day)
                      /\ regime.orderly /\ day < onDate => SetValue(key, place, day) = was[day][place][key]
    BY DEF RulesOfTheDay
  <2>1. day \in Nat /\ onDate \in Nat /\ rows \in SUBSET RowSort
    BY DEF DaysStand
  <2>2. day < onDate => day \in 1 .. onDate - 1
    BY <2>1
  <2> QED
    BY <2>1, <2>2, ReadersAgree DEF DaysStand
<1>3. DaysStand /\ [PolicyNext]_policyVars => DaysStand'
  BY DaysKept
<1> QED
  BY <1>1, <1>2, <1>3, PTL DEF PolicySpec


-----------------------------------------------------------------------------
(* The versions that decisions name.                                       *)

Rules == [Key -> Value]
VersionRow == [rules : Rules, of : Decider \cup {"all", "none"}]
CallSort == [stage : {"", "gate", "mint_gate", "event", "mint_event"}, look : BOOLEAN, rules : Rules,
             judged : Rules, gate : Nat, apart : BOOLEAN]

\* What a decision has read, and the version it has given its gate, are so.
CallTrue(d) ==
    /\ call[d].stage \notin {"event", "mint_event"} => \A n \in DOMAIN versions : versions[n].of # d
    /\ call[d].stage \in {"gate", "mint_gate"} =>
          /\ call[d].rules = call[d].judged
          /\ ~call[d].apart => LoadedSets(Nowhere, onDate) = {call[d].judged}
    /\ call[d].stage \in {"event", "mint_event"} =>
          /\ call[d].gate \in DOMAIN versions
          /\ versions[call[d].gate].of \in {d, "all"}
          /\ versions[call[d].gate].rules = call[d].judged
          /\ ~call[d].apart => call[d].rules = call[d].judged

OnRecord(n, rules) == n \in DOMAIN versions /\ versions[n] = [rules |-> rules, of |-> "all"]

VersionsSound ==
    /\ versions \in Seq(VersionRow) /\ call \in [Decider -> CallSort] /\ regime \in Regime
    /\ \A d \in Decider : CallTrue(d)
    /\ \A e \in verdicts : /\ OnRecord(e.gate, e.judged)
                           /\ ~e.apart => OnRecord(e.event, e.judged)

LEMMA LatestIs ==
    ASSUME VersionsSound, NEW d \in Decider, Visible(d) # {}
    PROVE  LatestVersion(d) \in Visible(d) /\ \A i \in Visible(d) : i <= LatestVersion(d)
<1>1. Visible(d) \in SUBSET (1 .. Len(versions)) /\ Len(versions) \in Nat
  BY DEF Visible, VersionsSound
<1> DEFINE Above == {Len(versions) - i : i \in Visible(d)}
<1>2. Above \in SUBSET Nat /\ Above # {}
  BY <1>1
<1>3. PICK m \in Above : \A k \in Above : m <= k
  BY <1>2, LeastNat
<1>4. PICK n \in Visible(d) : m = Len(versions) - n
  BY <1>3
<1>5. ASSUME NEW i \in Visible(d) PROVE i <= n
  <2>1. Len(versions) - i \in Above
    OBVIOUS
  <2>2. Len(versions) - n <= Len(versions) - i
    BY <1>3, <1>4, <2>1
  <2>3. i \in Nat /\ n \in Nat
    BY <1>1
  <2> QED
    BY <1>1, <2>2, <2>3
<1> QED
  BY <1>5 DEF LatestVersion

LEMMA EndedTable ==
    ASSUME NEW T \in Seq(VersionRow), NEW d \in Decider, NEW x \in {"all", "none"}
    PROVE  /\ Ended(T, d, x) \in Seq(VersionRow) /\ Len(Ended(T, d, x)) = Len(T)
           /\ \A n \in DOMAIN T : /\ T[n].of = d => Ended(T, d, x)[n] = [rules |-> T[n].rules, of |-> x]
                                  /\ T[n].of # d => Ended(T, d, x)[n] = T[n]
<1>1. \A n \in DOMAIN T : T[n] \in VersionRow
  OBVIOUS
<1>2. \A n \in DOMAIN T : [T[n] EXCEPT !.of = x] = [rules |-> T[n].rules, of |-> x]
                          /\ [T[n] EXCEPT !.of = x] \in VersionRow
  BY <1>1 DEF VersionRow
<1>3. DOMAIN T = 1 .. Len(T) /\ Len(T) \in Nat
  OBVIOUS
<1>4. Ended(T, d, x) \in [1 .. Len(T) -> VersionRow]
  BY <1>1, <1>2, <1>3 DEF Ended
<1>5. Ended(T, d, x) \in Seq(VersionRow) /\ Len(Ended(T, d, x)) = Len(T)
  BY <1>3, <1>4
<1> QED
  BY <1>2, <1>5 DEF Ended

\* What a decision does to the versions: those of others stay, and new ones are its own
\* or everybody's.
OwnMove(d) ==
    /\ versions' \in Seq(VersionRow)
    /\ \A n \in DOMAIN versions :
          /\ n \in DOMAIN versions' /\ versions'[n].rules = versions[n].rules
          /\ versions[n].of # d => versions'[n] = versions[n]
          /\ versions[n].of = d => versions'[n].of \in {d, "all", "none"}
    /\ \A n \in DOMAIN versions' : n \notin DOMAIN versions => versions'[n].of \in {d, "all"}

LEMMA SoundAfter ==
    ASSUME VersionsSound, NEW d \in Decider, OwnMove(d), CallTrue(d)',
           NEW next \in CallSort, call' = [call EXCEPT ![d] = next], UNCHANGED <<rows, onDate, regime>>,
           \A e \in verdicts' : \/ e \in verdicts
                                \/ /\ OnRecord(e.gate, e.judged)'
                                   /\ ~e.apart => OnRecord(e.event, e.judged)'
    PROVE  VersionsSound'
<1>1. d \notin {"all", "none"} /\ \A e \in Decider : e \notin {"all", "none"}
  BY PolicyAssumption
<1>2. LoadedSets(Nowhere, onDate)' = LoadedSets(Nowhere, onDate)
  BY DEF LoadedSets, SetValue, Seen, InForce
<1>3. ASSUME NEW e \in Decider, e # d PROVE CallTrue(e)'
  <2>1. call'[e] = call[e]
    BY <1>3 DEF VersionsSound
  <2>2. CallTrue(e)
    BY DEF VersionsSound
  <2>3. \A n \in DOMAIN versions' : versions'[n].of = e => n \in DOMAIN versions /\ versions[n].of = e
    BY <1>1, <1>3 DEF OwnMove
  <2>4. \A n \in DOMAIN versions : versions[n].of \in {e, "all"} => n \in DOMAIN versions' /\ versions'[n] = versions[n]
    BY <1>1, <1>3 DEF OwnMove
  <2> QED
    BY <1>2, <2>1, <2>2, <2>3, <2>4 DEF CallTrue
<1>4. ASSUME NEW n, NEW rules, OnRecord(n, rules) PROVE OnRecord(n, rules)'
  <2>1. versions[n].of = "all"
    BY <1>4 DEF OnRecord
  <2> QED
    BY <1>1, <1>4, <2>1 DEF OnRecord, OwnMove
<1>5. call' \in [Decider -> CallSort]
  BY DEF VersionsSound
<1>6. \A e \in Decider : CallTrue(e)'
  BY <1>3
<1>7. \A e \in verdicts' : OnRecord(e.gate, e.judged)' /\ (~e.apart => OnRecord(e.event, e.judged)')
  BY <1>4 DEF VersionsSound
<1> QED
  BY <1>5, <1>6, <1>7 DEF VersionsSound, OwnMove

LEMMA NothingMoves ==
    ASSUME VersionsSound, NEW d \in Decider, versions' = versions
    PROVE  OwnMove(d)
BY DEF VersionsSound, OwnMove

\* The table a decision works on: what there is, or that and a version of its own.
Tabled(d, version, table) ==
    /\ \/ /\ table = versions
          /\ version \in DOMAIN versions /\ versions[version].of \in {d, "all"}
       \/ /\ table = Append(versions, [rules |-> call[d].rules, of |-> d])
          /\ version = Len(versions) + 1
    /\ table[version].rules = call[d].rules

LEMMA TableFacts ==
    ASSUME VersionsSound, NEW d \in Decider, NEW version, NEW table, Tabled(d, version, table)
    PROVE  /\ table \in Seq(VersionRow) /\ version \in DOMAIN table /\ version \in Nat
           /\ table[version].of \in {d, "all"} /\ table[version].rules = call[d].rules
           /\ \A n \in DOMAIN versions : n \in DOMAIN table /\ table[n] = versions[n]
           /\ \A n \in DOMAIN table : n \notin DOMAIN versions => table[n].of = d
<1>1. versions \in Seq(VersionRow) /\ call[d] \in CallSort
  BY DEF VersionsSound
<1>2. [rules |-> call[d].rules, of |-> d] \in VersionRow
  BY <1>1 DEF CallSort, VersionRow
<1>3. CASE table = versions /\ version \in DOMAIN versions /\ versions[version].of \in {d, "all"}
  BY <1>1, <1>3 DEF Tabled
<1>4. CASE table = Append(versions, [rules |-> call[d].rules, of |-> d]) /\ version = Len(versions) + 1
  <2> DEFINE v == [rules |-> call[d].rules, of |-> d]
  <2>1. v.of = d /\ v \in VersionRow
    BY <1>2
  <2> HIDE DEF v
  <2>2. table = Append(versions, v) /\ version = Len(versions) + 1
    BY <1>4 DEF v
  <2>3. /\ table \in Seq(VersionRow) /\ Len(table) = Len(versions) + 1 /\ Len(versions) \in Nat
        /\ DOMAIN table = 1 .. Len(versions) + 1 /\ DOMAIN versions = 1 .. Len(versions)
        /\ table[Len(versions) + 1] = v /\ \A n \in 1 .. Len(versions) : table[n] = versions[n]
    BY <1>1, <2>1, <2>2
  <2>4. version \in DOMAIN table /\ version \in Nat /\ table[version] = v
    BY <2>2, <2>3
  <2>5. \A n \in DOMAIN versions : n \in DOMAIN table /\ table[n] = versions[n]
    BY <2>3
  <2>6. \A n \in DOMAIN table : n \notin DOMAIN versions => n = Len(versions) + 1
    BY <2>3
  <2>7. \A n \in DOMAIN table : n \notin DOMAIN versions => table[n] = v
    BY <2>3, <2>6
  <2>8. table[version].rules = call[d].rules
    BY DEF Tabled
  <2> QED
    BY <2>1, <2>3, <2>4, <2>5, <2>7, <2>8
<1> QED
  BY <1>3, <1>4 DEF Tabled

LEMMA NamesKeeps ==
    ASSUME VersionsSound, NEW d \in Decider, NEW version, NEW table, Tabled(d, version, table),
           Names(d, version, table), rows \in SUBSET RowSort
    PROVE  VersionsSound'
<1>1. /\ table \in Seq(VersionRow) /\ version \in DOMAIN table /\ version \in Nat
      /\ table[version].of \in {d, "all"} /\ table[version].rules = call[d].rules
      /\ \A n \in DOMAIN versions : n \in DOMAIN table /\ table[n] = versions[n]
      /\ \A n \in DOMAIN table : n \notin DOMAIN versions => table[n].of = d
  BY TableFacts
<1>2. call \in [Decider -> CallSort] /\ call[d] \in CallSort /\ CallTrue(d)
  BY DEF VersionsSound
<1>3. d \notin {"all", "none"}
  BY PolicyAssumption
<1> DEFINE final == Ended(table, d, "all")
<1>4. /\ final \in Seq(VersionRow) /\ Len(final) = Len(table) /\ DOMAIN final = DOMAIN table
      /\ \A n \in DOMAIN table : /\ table[n].of = d => final[n] = [rules |-> table[n].rules, of |-> "all"]
                                 /\ table[n].of # d => final[n] = table[n]
  BY <1>1, EndedTable
<1> HIDE DEF final
<1>5. versions' = final => OwnMove(d)
  BY <1>1, <1>4 DEF OwnMove, VersionsSound
<1>6. versions' = table => OwnMove(d)
  BY <1>1, <1>3 DEF OwnMove, VersionsSound
<1>7. NoCall \in CallSort
  BY PolicyAssumption DEF NoCall, CallSort, Rules
<1>8. \A n \in DOMAIN final : final[n].of # d
  BY <1>3, <1>4
<1>9. ASSUME NEW n \in DOMAIN table, table[n].of \in {d, "all"}
      PROVE  final[n] = [rules |-> table[n].rules, of |-> "all"]
  <2>1. table[n] \in VersionRow
    BY <1>1
  <2>2. table[n] = [rules |-> table[n].rules, of |-> table[n].of]
    BY <2>1 DEF VersionRow
  <2> QED
    BY <1>3, <1>4, <1>9, <2>2
<1>10. NoCall.stage = ""
  BY DEF NoCall
<1>11. call'[d] = NoCall /\ versions' = final => CallTrue(d)'
  BY <1>8, <1>10 DEF CallTrue
<1>12. CASE NamesGate(d, version, table) /\ call[d].look /\ versions' = final /\ Proceeds(d, NoCall)
  <2>1. call' = [call EXCEPT ![d] = NoCall] /\ call'[d] = NoCall /\ UNCHANGED <<rows, onDate, regime, verdicts>>
    BY <1>2, <1>12 DEF Proceeds, NamesGate
  <2>2. CallTrue(d)'
    BY <1>12, <1>11, <2>1
  <2> QED
    BY <1>5, <1>7, <1>12, <2>1, <2>2, SoundAfter
<1>13. CASE /\ NamesGate(d, version, table) /\ ~call[d].look /\ versions' = table
            /\ \E rules \in LoadedSets(Nowhere, onDate) :
                Proceeds(d, [call[d] EXCEPT !.stage = "event", !.rules = rules, !.gate = version])
  <2>1. PICK rules \in LoadedSets(Nowhere, onDate) :
                Proceeds(d, [call[d] EXCEPT !.stage = "event", !.rules = rules, !.gate = version])
    BY <1>13
  <2> DEFINE next == [call[d] EXCEPT !.stage = "event", !.rules = rules, !.gate = version]
  <2>2. /\ next \in CallSort /\ next.stage = "event" /\ next.rules = rules /\ next.gate = version
        /\ next.judged = call[d].judged /\ next.apart = call[d].apart
    BY <1>1, <1>2, <2>1 DEF CallSort, LoadedSets, Rules
  <2>3. call' = [call EXCEPT ![d] = next] /\ UNCHANGED <<rows, onDate, regime, verdicts>>
    BY <1>13, <2>1 DEF Proceeds, NamesGate
  <2> HIDE DEF next
  <2>4. call'[d] = next
    BY <1>2, <2>3
  <2>5. call[d].stage \in {"gate", "mint_gate"}
    BY <1>13 DEF NamesGate
  <2>6. call[d].rules = call[d].judged /\ (~call[d].apart => rules = call[d].judged)
    BY <1>2, <2>1, <2>5 DEF CallTrue
  <2>7. CallTrue(d)'
    BY <1>1, <1>13, <2>2, <2>4, <2>6 DEF CallTrue
  <2> QED
    BY <1>6, <1>13, <2>2, <2>3, <2>7, SoundAfter
<1>14. CASE NamesEvent(d, version, table)
  <2>7. PICK e : e = [judged |-> call[d].judged, gate |-> call[d].gate, event |-> version,
                      apart |-> call[d].apart]
    OBVIOUS
  <2>1. /\ call' = [call EXCEPT ![d] = NoCall] /\ call'[d] = NoCall /\ UNCHANGED <<rows, onDate, regime>>
        /\ versions' = final /\ verdicts' = verdicts \cup {e}
        /\ call[d].stage \in {"event", "mint_event"}
    BY <1>2, <1>14, <2>7 DEF Proceeds, NamesEvent, final
  <2>2. e.judged = call[d].judged /\ e.gate = call[d].gate /\ e.event = version /\ e.apart = call[d].apart
    BY <2>7
  <2>3. CallTrue(d)'
    BY <1>11, <2>1
  <2>4. /\ call[d].gate \in DOMAIN versions /\ versions[call[d].gate].of \in {d, "all"}
        /\ versions[call[d].gate].rules = call[d].judged
        /\ ~call[d].apart => call[d].rules = call[d].judged
    BY <1>2, <2>1 DEF CallTrue
  <2>5. OnRecord(e.gate, e.judged)'
    BY <1>1, <1>4, <1>9, <2>1, <2>2, <2>4 DEF OnRecord
  <2>6. ~e.apart => OnRecord(e.event, e.judged)'
    BY <1>1, <1>4, <1>9, <2>1, <2>2, <2>4 DEF OnRecord
  <2> QED
    BY <1>5, <1>7, <2>1, <2>3, <2>5, <2>6, SoundAfter
<1> QED
  BY <1>12, <1>13, <1>14 DEF Names, NamesGate, final


LEMMA VersionsKept ==
    ASSUME VersionsSound, rows \in SUBSET RowSort, [PolicyNext]_policyVars
    PROVE  VersionsSound'
<1>1. /\ versions \in Seq(VersionRow) /\ call \in [Decider -> CallSort]
      /\ \A d \in Decider : call[d] \in CallSort /\ CallTrue(d)
  BY DEF VersionsSound
<1>2. ASSUME RowsMove PROVE VersionsSound'
  <2>1. UNCHANGED <<versions, verdicts, regime>>
    BY <1>2 DEF RowsMove
  <2>2. ASSUME NEW d \in Decider PROVE call'[d] \in CallSort /\ CallTrue(d)'
    <3>1. call'[d] = [call[d] EXCEPT !.apart = call[d].apart \/ call[d].stage \in {"gate", "mint_gate"}]
      BY <1>2 DEF RowsMove
    <3>2. /\ call'[d] \in CallSort /\ call'[d].stage = call[d].stage /\ call'[d].rules = call[d].rules
          /\ call'[d].judged = call[d].judged /\ call'[d].gate = call[d].gate
          /\ call'[d].apart = (call[d].apart \/ call[d].stage \in {"gate", "mint_gate"})
      BY <1>1, <3>1 DEF CallSort
    <3>3. CallTrue(d)
      BY <1>1
    <3> QED
      BY <2>1, <3>2, <3>3 DEF CallTrue
  <2>3. call' \in [Decider -> CallSort]
    BY <1>2, <2>2 DEF RowsMove
  <2>4. ASSUME NEW n, NEW rules, OnRecord(n, rules) PROVE OnRecord(n, rules)'
    BY <2>1, <2>4 DEF OnRecord
  <2>5. \A e \in verdicts' : OnRecord(e.gate, e.judged)' /\ (~e.apart => OnRecord(e.event, e.judged)')
    BY <2>1, <2>4 DEF VersionsSound
  <2> QED
    BY <2>1, <2>2, <2>3, <2>5 DEF VersionsSound
<1>3. ASSUME NEW d \in Decider, NEW place \in Place, NEW look \in BOOLEAN, Evaluate(d, place, look)
      PROVE  VersionsSound'
  <2>1. PICK rules \in LoadedSets(place, onDate) :
          Proceeds(d, [stage |-> "gate", look |-> look, rules |-> rules, judged |-> rules, gate |-> 0,
                       apart |-> LoadedSets(Nowhere, onDate) # {rules}])
    BY <1>3 DEF Evaluate
  <2>2. PICK next : next = [stage |-> "gate", look |-> look, rules |-> rules, judged |-> rules, gate |-> 0,
                            apart |-> LoadedSets(Nowhere, onDate) # {rules}]
    OBVIOUS
  <2>3. rules \in Rules
    BY <2>1 DEF LoadedSets, Rules
  <2>4. /\ next \in CallSort /\ next.stage = "gate" /\ next.rules = rules /\ next.judged = rules
        /\ next.apart = (LoadedSets(Nowhere, onDate) # {rules})
    BY <2>2, <2>3 DEF CallSort
  <2>5. call' = [call EXCEPT ![d] = next] /\ UNCHANGED <<rows, onDate, regime, versions, verdicts>>
    BY <1>3, <2>1, <2>2 DEF Evaluate, Proceeds
  <2>6. call'[d] = next /\ LoadedSets(Nowhere, onDate)' = LoadedSets(Nowhere, onDate)
    BY <1>1, <2>5 DEF LoadedSets, SetValue, Seen, InForce
  <2>7. \A n \in DOMAIN versions : versions[n].of # d
    <3>1. call[d].stage = "" /\ CallTrue(d)
      BY <1>1, <1>3 DEF Evaluate
    <3> QED
      BY <3>1 DEF CallTrue
  <2>8. CallTrue(d)'
    BY <2>4, <2>5, <2>6, <2>7 DEF CallTrue
  <2> QED
    BY <2>4, <2>5, <2>8, NothingMoves, SoundAfter
<1>4. ASSUME NEW d \in Decider, NeedsVersion(d) PROVE VersionsSound'
  <2>1. PICK next : next = [call[d] EXCEPT !.stage = IF @ = "gate" THEN "mint_gate" ELSE "mint_event"]
    OBVIOUS
  <2>2. /\ next \in CallSort /\ next.stage = IF call[d].stage = "gate" THEN "mint_gate" ELSE "mint_event"
        /\ next.rules = call[d].rules /\ next.judged = call[d].judged /\ next.gate = call[d].gate
        /\ next.apart = call[d].apart
    BY <1>1, <2>1 DEF CallSort
  <2>3. call' = [call EXCEPT ![d] = next] /\ UNCHANGED <<rows, onDate, regime, versions, verdicts>>
        /\ call[d].stage \in {"gate", "event"}
    BY <1>4, <2>1 DEF NeedsVersion, Proceeds
  <2>4. call'[d] = next /\ LoadedSets(Nowhere, onDate)' = LoadedSets(Nowhere, onDate)
    BY <1>1, <2>3 DEF LoadedSets, SetValue, Seen, InForce
  <2>5. CallTrue(d)
    BY <1>1
  <2>6. CallTrue(d)'
    <3>1. CASE call[d].stage = "gate"
      BY <2>2, <2>3, <2>4, <2>5, <3>1 DEF CallTrue
    <3>2. CASE call[d].stage = "event"
      BY <2>2, <2>3, <2>4, <2>5, <3>2 DEF CallTrue
    <3> QED
      BY <2>3, <3>1, <3>2
  <2> QED
    BY <2>2, <2>3, <2>6, NothingMoves, SoundAfter
<1>5. ASSUME NEW d \in Decider, ReuseVersion(d) PROVE VersionsSound'
  <2>1. PICK v, T : v = LatestVersion(d) /\ T = versions
    OBVIOUS
  <2>2. Visible(d) # {} /\ versions[v].rules = call[d].rules
    BY <1>5, <2>1 DEF ReuseVersion, LatestSays, LatestVersion
  <2>3. v \in Visible(d)
    BY <2>1, <2>2, LatestIs
  <2>4. Tabled(d, v, T)
    BY <2>1, <2>2, <2>3 DEF Tabled, Visible
  <2>5. Names(d, v, T)
    BY <1>5, <2>1 DEF ReuseVersion
  <2> QED
    BY <2>4, <2>5, NamesKeeps
<1>6. ASSUME NEW d \in Decider, MintVersion(d) PROVE VersionsSound'
  <2>1. PICK v, T : v = Len(versions) + 1 /\ T = Append(versions, [rules |-> call[d].rules, of |-> d])
    OBVIOUS
  <2>2. T[v].rules = call[d].rules
    <3>1. [rules |-> call[d].rules, of |-> d] \in VersionRow
      BY <1>1 DEF CallSort, VersionRow
    <3>2. T[v] = [rules |-> call[d].rules, of |-> d]
      BY <1>1, <2>1, <3>1
    <3> QED
      BY <3>2
  <2>3. Tabled(d, v, T)
    BY <2>1, <2>2 DEF Tabled
  <2>4. Names(d, v, T)
    BY <1>6, <2>1 DEF MintVersion
  <2> QED
    BY <2>3, <2>4, NamesKeeps
<1>7. ASSUME NEW d \in Decider, Refused(d) PROVE VersionsSound'
  <2> DEFINE final == Ended(versions, d, "none")
  <2>1. /\ final \in Seq(VersionRow) /\ Len(final) = Len(versions) /\ DOMAIN final = DOMAIN versions
        /\ \A n \in DOMAIN versions :
              /\ versions[n].of = d => final[n] = [rules |-> versions[n].rules, of |-> "none"]
              /\ versions[n].of # d => final[n] = versions[n]
    BY <1>1, EndedTable
  <2>2. call' = [call EXCEPT ![d] = NoCall] /\ UNCHANGED <<rows, onDate, regime, verdicts>>
        /\ versions' = final
    BY <1>7 DEF Refused, Proceeds
  <2> HIDE DEF final
  <2>3. d # "none"
    BY PolicyAssumption
  <2>4. OwnMove(d)
    BY <2>1, <2>2 DEF OwnMove
  <2>5. call'[d] = NoCall /\ NoCall.stage = "" /\ NoCall \in CallSort
    BY <1>1, <2>2, PolicyAssumption DEF NoCall, CallSort, Rules
  <2>6. \A n \in DOMAIN versions' : versions'[n].of # d
    BY <2>1, <2>2, <2>3
  <2>7. CallTrue(d)'
    BY <2>5, <2>6 DEF CallTrue
  <2> QED
    BY <2>2, <2>4, <2>5, <2>7, SoundAfter
<1>8. ASSUME UNCHANGED policyVars PROVE VersionsSound'
  <2>1. LoadedSets(Nowhere, onDate)' = LoadedSets(Nowhere, onDate)
    BY <1>8 DEF LoadedSets, SetValue, Seen, InForce, policyVars
  <2> QED
    BY <1>8, <2>1 DEF VersionsSound, CallTrue, OnRecord, policyVars
<1>9. ASSUME \/ \E key \in Key, scope \in Scope, value \in Value, from \in 1 .. LastDay + 1 :
                   AddParameter(key, scope, value, from)
             \/ \E r \in rows :
                   \/ \E to \in 2 .. LastDay + 1 : CloseParameter(r, to)
                   \/ \E value \in Value : RewriteParameter(r, value)
             \/ PolicyDay
      PROVE  RowsMove
  BY <1>9 DEF AddParameter, CloseParameter, RewriteParameter, PolicyDay
<1> QED
  BY <1>2, <1>3, <1>4, <1>5, <1>6, <1>7, <1>8, <1>9 DEF PolicyNext


-----------------------------------------------------------------------------
(* One decision at a time: a version is a change.                          *)

Told(T, n) == T[n].of # "none"

\* No two versions on file that follow one another say the same.
Changes(T) ==
    \A n, m \in DOMAIN T :
       n < m /\ Told(T, n) /\ Told(T, m) /\ (\A i \in n + 1 .. m - 1 : ~Told(T, i))
         => T[n].rules # T[m].rules

\* Only the last version can still be taken back.
LastIsOwn(T) == \A n \in DOMAIN T : T[n].of \in Decider => n = Len(T)

Sole ==
    regime.atOnce = 1 =>
       /\ \A d, e \in Decider : call[d].stage # "" /\ call[e].stage # "" => d = e
       /\ \A d \in Decider : call[d].stage \in {"mint_gate", "mint_event"} => ~LatestSays(d, call[d].rules)
       /\ Changes(versions) /\ LastIsOwn(versions)

\* The end of a decision: everybody sees its versions, or the last one goes.
LEMMA ChangesAtEnd ==
    ASSUME NEW T \in Seq(VersionRow), NEW d \in Decider, NEW x \in {"all", "none"}, Changes(T),
           x = "none" => LastIsOwn(T)
    PROVE  Changes(Ended(T, d, x))
<1> DEFINE U == Ended(T, d, x)
<1>1. /\ U \in Seq(VersionRow) /\ Len(U) = Len(T) /\ DOMAIN U = DOMAIN T /\ DOMAIN T = 1 .. Len(T)
      /\ Len(T) \in Nat
      /\ \A n \in DOMAIN T : /\ T[n].of = d => U[n] = [rules |-> T[n].rules, of |-> x]
                             /\ T[n].of # d => U[n] = T[n]
  BY EndedTable
<1> HIDE DEF U
<1>2. d \notin {"all", "none"}
  BY PolicyAssumption
<1>3. \A n \in DOMAIN T : /\ U[n].rules = T[n].rules
                          /\ Told(U, n) <=> Told(T, n) /\ (T[n].of = d => x = "all")
  BY <1>1, <1>2 DEF Told
<1> SUFFICES ASSUME NEW n \in DOMAIN U, NEW m \in DOMAIN U,
                    n < m, Told(U, n), Told(U, m), \A i \in n + 1 .. m - 1 : ~Told(U, i)
             PROVE  U[n].rules # U[m].rules
  BY DEF Changes, U
<1>4. Told(T, n) /\ Told(T, m)
  BY <1>1, <1>3
<1>5. ASSUME NEW i \in n + 1 .. m - 1 PROVE ~Told(T, i)
  <2>1. i \in DOMAIN T /\ i # Len(T)
    BY <1>1
  <2>2. T[i].of = d => x = "all"
    <3>1. CASE x = "all"
      BY <3>1
    <3>2. CASE x = "none"
      BY <2>1, <3>2 DEF LastIsOwn
    <3> QED
      BY <3>1, <3>2
  <2> QED
    BY <1>3, <2>1, <2>2
<1>6. T[n].rules # T[m].rules
  BY <1>1, <1>4, <1>5 DEF Changes
<1> QED
  BY <1>1, <1>3, <1>6

\* A new version differs from the last one on file.
LEMMA ChangesAtMint ==
    ASSUME NEW T \in Seq(VersionRow), Changes(T), NEW v \in VersionRow,
           \A n \in DOMAIN T : Told(T, n) /\ (\A i \in n + 1 .. Len(T) : ~Told(T, i)) => T[n].rules # v.rules
    PROVE  Changes(Append(T, v))
<1>1. PICK U : U = Append(T, v)
  OBVIOUS
<1>2. /\ U \in Seq(VersionRow) /\ Len(U) = Len(T) + 1 /\ Len(T) \in Nat /\ DOMAIN T = 1 .. Len(T)
      /\ DOMAIN U = 1 .. Len(T) + 1
      /\ U[Len(T) + 1] = v /\ \A n \in 1 .. Len(T) : U[n] = T[n]
  BY <1>1
<1>3. \A n \in 1 .. Len(T) : Told(U, n) <=> Told(T, n)
  BY <1>2 DEF Told
<1> SUFFICES ASSUME NEW n \in DOMAIN U, NEW m \in DOMAIN U,
                    n < m, Told(U, n), Told(U, m), \A i \in n + 1 .. m - 1 : ~Told(U, i)
             PROVE  U[n].rules # U[m].rules
  BY <1>1 DEF Changes
<1>4. n \in 1 .. Len(T)
  BY <1>2
<1>5. CASE m = Len(T) + 1
  <2>1. \A i \in n + 1 .. Len(T) : ~Told(T, i)
    BY <1>2, <1>3, <1>4, <1>5
  <2> QED
    BY <1>2, <1>3, <1>4, <1>5, <2>1
<1>6. CASE m # Len(T) + 1
  <2>1. m \in 1 .. Len(T) /\ \A i \in n + 1 .. m - 1 : i \in 1 .. Len(T)
    BY <1>2, <1>4, <1>6
  <2>2. \A i \in n + 1 .. m - 1 : ~Told(T, i)
    BY <1>3, <2>1
  <2> QED
    BY <1>2, <1>3, <1>4, <2>1, <2>2 DEF Changes
<1> QED
  BY <1>5, <1>6

LEMMA RowAt ==
    ASSUME NEW T \in Seq(VersionRow), NEW n \in DOMAIN T
    PROVE  T[n] \in VersionRow
OBVIOUS

\* Alone, a decision sees whatever is on file.
LEMMA SeesAll ==
    ASSUME VersionsSound, Sole, regime.atOnce = 1, NEW d \in Decider, call[d].stage # "",
           NEW n \in DOMAIN versions, Told(versions, n)
    PROVE  n \in Visible(d)
<1>1. versions[n] \in VersionRow
  <2>1. versions \in Seq(VersionRow)
    BY DEF VersionsSound
  <2> QED
    BY <2>1, RowAt
<1>2. CASE versions[n].of \in Decider
  <2>1. PICK e \in Decider : versions[n].of = e
    BY <1>2
  <2>2. CallTrue(e)
    BY DEF VersionsSound
  <2>3. call[e].stage \in {"event", "mint_event"}
    BY <2>1, <2>2 DEF CallTrue
  <2>4. e = d
    BY <2>3 DEF Sole
  <2> QED
    BY <2>1, <2>4 DEF Visible
<1>3. CASE versions[n].of \notin Decider
  BY <1>1, <1>3 DEF VersionRow, Told, Visible
<1> QED
  BY <1>2, <1>3

LEMMA MintChanges ==
    ASSUME VersionsSound, Sole, regime.atOnce = 1, NEW d \in Decider,
           call[d].stage \in {"mint_gate", "mint_event"}
    PROVE  Changes(Append(versions, [rules |-> call[d].rules, of |-> d]))
<1>1. PICK v : v = [rules |-> call[d].rules, of |-> d]
  OBVIOUS
<1>2. v \in VersionRow /\ v.rules = call[d].rules /\ versions \in Seq(VersionRow) /\ Changes(versions)
  BY <1>1 DEF VersionsSound, CallSort, VersionRow, Sole
<1>3. ASSUME NEW n \in DOMAIN versions, Told(versions, n), \A i \in n + 1 .. Len(versions) : ~Told(versions, i)
      PROVE  versions[n].rules # v.rules
  <2>1. n \in Visible(d)
    BY <1>3, SeesAll
  <2>2. LatestVersion(d) \in Visible(d) /\ \A i \in Visible(d) : i <= LatestVersion(d)
    BY <2>1, LatestIs
  <2>3. \A i \in Visible(d) : i \in DOMAIN versions /\ Told(versions, i)
    BY PolicyAssumption DEF Visible, Told
  <2>4. LatestVersion(d) = n
    <3> DEFINE k == LatestVersion(d)
    <3>1. k \in 1 .. Len(versions) /\ Told(versions, k) /\ n <= k /\ n \in 1 .. Len(versions)
          /\ Len(versions) \in Nat
      BY <1>2, <2>1, <2>2, <2>3
    <3> HIDE DEF k
    <3>2. ~ (k > n)
      BY <1>3, <3>1
    <3> QED
      BY <3>1, <3>2 DEF k
  <2>5. ~LatestSays(d, call[d].rules)
    BY DEF Sole
  <2>6. n # 0
    BY <1>2
  <2> QED
    BY <1>2, <2>4, <2>5, <2>6 DEF LatestSays
<1> QED
  BY <1>1, <1>2, <1>3, ChangesAtMint


LEMMA OnlyMine ==
    ASSUME VersionsSound, Sole, regime.atOnce = 1, NEW d \in Decider, call[d].stage # "",
           NEW n \in DOMAIN versions, versions[n].of \in Decider
    PROVE  versions[n].of = d
<1>1. PICK e \in Decider : versions[n].of = e
  OBVIOUS
<1>2. CallTrue(e)
  BY DEF VersionsSound
<1>3. call[e].stage \in {"event", "mint_event"}
  BY <1>1, <1>2 DEF CallTrue
<1> QED
  BY <1>1, <1>3 DEF Sole

LEMMA SoleNames ==
    ASSUME VersionsSound, Sole, regime.atOnce = 1, NEW d \in Decider, NEW version, NEW table,
           Tabled(d, version, table), Names(d, version, table), Changes(table),
           \/ table = versions
           \/ /\ call[d].stage \in {"mint_gate", "mint_event"}
              /\ table = Append(versions, [rules |-> call[d].rules, of |-> d])
    PROVE  Sole'
<1>1. /\ table \in Seq(VersionRow)
      /\ \A n \in DOMAIN versions : n \in DOMAIN table /\ table[n] = versions[n]
      /\ \A n \in DOMAIN table : n \notin DOMAIN versions => table[n].of = d
  BY TableFacts
<1>2. /\ call \in [Decider -> CallSort] /\ CallTrue(d) /\ versions \in Seq(VersionRow)
  BY DEF VersionsSound
<1>3. d \notin {"all", "none"} /\ \A e \in Decider : e \notin {"all", "none"}
  BY PolicyAssumption
<1>4. call[d].stage # "" /\ regime' = regime
  BY DEF Names, NamesGate, NamesEvent, Proceeds
<1>5. \A n \in DOMAIN table : table[n].of \in Decider => table[n].of = d
  BY <1>1, <1>4, OnlyMine
<1> DEFINE final == Ended(table, d, "all")
<1>6. Changes(final)
  BY <1>1, ChangesAtEnd
<1>7. LastIsOwn(final)
  <2>1. /\ DOMAIN final = DOMAIN table
        /\ \A n \in DOMAIN table : /\ table[n].of = d => final[n] = [rules |-> table[n].rules, of |-> "all"]
                                   /\ table[n].of # d => final[n] = table[n]
    BY <1>1, EndedTable
  <2> HIDE DEF final
  <2>2. \A n \in DOMAIN final : final[n].of \notin Decider
    BY <1>3, <1>5, <2>1
  <2> QED
    BY <2>2 DEF LastIsOwn
<1> HIDE DEF final
<1>8. ASSUME NEW c, call' = [call EXCEPT ![d] = c], c.stage \notin {"mint_gate", "mint_event"}
      PROVE  /\ \A e, f \in Decider : call'[e].stage # "" /\ call'[f].stage # "" => e = f
             /\ \A e \in Decider : call'[e].stage \notin {"mint_gate", "mint_event"}
  <2>1. \A e \in Decider : e # d => call[e].stage = ""
    BY <1>4 DEF Sole
  <2>2. \A e \in Decider : call'[e] = IF e = d THEN c ELSE call[e]
    BY <1>2, <1>8
  <2>3. \A e \in Decider : call'[e].stage # "" => e = d
    BY <2>1, <2>2
  <2>4. \A e \in Decider : call'[e].stage \notin {"mint_gate", "mint_event"}
    BY <1>8, <2>1, <2>2
  <2> QED
    BY <2>3, <2>4
<1>9. CASE versions' = final /\ Proceeds(d, NoCall)
  <2>1. call' = [call EXCEPT ![d] = NoCall] /\ NoCall.stage = ""
    BY <1>9 DEF Proceeds, NoCall
  <2> QED
    BY <1>6, <1>7, <1>8, <1>9, <2>1 DEF Sole
<1>10. CASE /\ call[d].stage \in {"gate", "mint_gate"} /\ versions' = table
            /\ \E rules \in LoadedSets(Nowhere, onDate) :
                  Proceeds(d, [call[d] EXCEPT !.stage = "event", !.rules = rules, !.gate = version])
  <2>1. PICK rules : Proceeds(d, [call[d] EXCEPT !.stage = "event", !.rules = rules, !.gate = version])
    BY <1>10
  <2>2. PICK c : c = [call[d] EXCEPT !.stage = "event", !.rules = rules, !.gate = version]
    OBVIOUS
  <2>3. c.stage = "event" /\ call' = [call EXCEPT ![d] = c]
    BY <1>2, <2>1, <2>2 DEF Proceeds, CallSort
  <2>4. LastIsOwn(table)
    <3>1. CASE table = versions
      BY <3>1 DEF Sole
    <3>2. CASE table = Append(versions, [rules |-> call[d].rules, of |-> d])
      <4>1. \A n \in DOMAIN versions : table[n].of # d
        BY <1>1, <1>2, <1>10 DEF CallTrue
      <4>2. [rules |-> call[d].rules, of |-> d] \in VersionRow
        BY <1>2 DEF CallSort, VersionRow
      <4>3. Len(table) = Len(versions) + 1 /\ DOMAIN table = 1 .. Len(versions) + 1
            /\ DOMAIN versions = 1 .. Len(versions) /\ Len(versions) \in Nat
        BY <1>2, <3>2, <4>2
      <4> QED
        BY <1>5, <4>1, <4>3 DEF LastIsOwn
    <3> QED
      BY <3>1, <3>2
  <2> QED
    BY <1>8, <1>10, <2>3, <2>4 DEF Sole
<1> QED
  BY <1>9, <1>10 DEF Names, NamesGate, NamesEvent, final

LEMMA SoleKept ==
    ASSUME VersionsSound, Sole, rows \in SUBSET RowSort, [PolicyNext]_policyVars
    PROVE  Sole'
<1>1. regime' = regime
  BY DEF PolicyNext, AddParameter, CloseParameter, RewriteParameter, PolicyDay, RowsMove, Evaluate,
         ReuseVersion, NeedsVersion, MintVersion, Refused, Names, NamesGate, NamesEvent, Proceeds, policyVars
<1> SUFFICES ASSUME regime.atOnce = 1
             PROVE  Sole'
  BY <1>1 DEF Sole
<1>2. /\ versions \in Seq(VersionRow) /\ call \in [Decider -> CallSort]
      /\ \A d \in Decider : call[d] \in CallSort /\ CallTrue(d)
      /\ Changes(versions) /\ LastIsOwn(versions)
  BY DEF VersionsSound, Sole
<1>3. ASSUME versions' = versions,
             \A d \in Decider : call'[d].stage = call[d].stage /\ call'[d].rules = call[d].rules
      PROVE  Sole'
  <2>1. \A d, rules : LatestSays(d, rules)' <=> LatestSays(d, rules)
    BY <1>3 DEF LatestSays, LatestVersion, Visible
  <2> QED
    BY <1>1, <1>2, <1>3, <2>1 DEF Sole
<1>4. ASSUME RowsMove PROVE Sole'
  <2>1. \A d \in Decider : call'[d] = [call[d] EXCEPT !.apart = call[d].apart
                                                        \/ call[d].stage \in {"gate", "mint_gate"}]
    BY <1>4 DEF RowsMove
  <2>2. \A d \in Decider : call'[d].stage = call[d].stage /\ call'[d].rules = call[d].rules
    BY <1>2, <2>1 DEF CallSort
  <2> QED
    BY <1>3, <1>4, <2>2 DEF RowsMove
<1>5. ASSUME NEW d \in Decider, NEW place \in Place, NEW look \in BOOLEAN, Evaluate(d, place, look)
      PROVE  Sole'
  <2> DEFINE busy == {e \in Decider : call[e].stage # ""}
  <2>1. busy = {}
    <3>1. Cardinality(busy) < 1
      BY <1>5 DEF Evaluate
    <3>2. IsFiniteSet(busy)
      BY PolicyAssumption, FS_Subset
    <3> HIDE DEF busy
    <3>3. Cardinality(busy) = 0
      BY <3>1, <3>2, FS_CardinalityType
    <3> QED
      BY <3>2, <3>3, FS_EmptySet
  <2>2. PICK c : c.stage = "gate" /\ call' = [call EXCEPT ![d] = c]
    BY <1>5 DEF Evaluate, Proceeds
  <2>3. \A e \in Decider : call'[e].stage = IF e = d THEN "gate" ELSE ""
    BY <1>2, <2>1, <2>2
  <2>4. versions' = versions
    BY <1>5 DEF Evaluate
  <2> QED
    BY <1>1, <1>2, <2>3, <2>4 DEF Sole
<1>6. ASSUME NEW d \in Decider, NeedsVersion(d) PROVE Sole'
  <2>1. PICK c : c = [call[d] EXCEPT !.stage = IF @ = "gate" THEN "mint_gate" ELSE "mint_event"]
    OBVIOUS
  <2>2. c.stage \in {"mint_gate", "mint_event"} /\ c.rules = call[d].rules
    BY <1>2, <2>1 DEF CallSort
  <2>3. /\ call' = [call EXCEPT ![d] = c] /\ versions' = versions /\ call[d].stage # ""
        /\ ~LatestSays(d, call[d].rules)
    BY <1>6, <2>1 DEF NeedsVersion, Proceeds
  <2>4. \A e \in Decider : e # d => call[e].stage = ""
    BY <2>3 DEF Sole
  <2>5. \A e \in Decider : call'[e] = IF e = d THEN c ELSE call[e]
    BY <1>2, <2>3
  <2>6. \A rules : LatestSays(d, rules)' <=> LatestSays(d, rules)
    BY <2>3 DEF LatestSays, LatestVersion, Visible
  <2> QED
    BY <1>1, <1>2, <2>2, <2>3, <2>4, <2>5, <2>6 DEF Sole
<1>7. ASSUME NEW d \in Decider, ReuseVersion(d) PROVE Sole'
  <2>1. PICK v, T : v = LatestVersion(d) /\ T = versions
    OBVIOUS
  <2>2. Visible(d) # {} /\ versions[v].rules = call[d].rules
    BY <1>7, <2>1 DEF ReuseVersion, LatestSays, LatestVersion
  <2>3. v \in Visible(d)
    BY <2>1, <2>2, LatestIs
  <2>4. Tabled(d, v, T)
    BY <2>1, <2>2, <2>3 DEF Tabled, Visible
  <2>5. Names(d, v, T) /\ Changes(T)
    BY <1>2, <1>7, <2>1 DEF ReuseVersion
  <2> QED
    BY <2>1, <2>4, <2>5, SoleNames
<1>8. ASSUME NEW d \in Decider, MintVersion(d) PROVE Sole'
  <2>1. PICK v, T : v = Len(versions) + 1 /\ T = Append(versions, [rules |-> call[d].rules, of |-> d])
    OBVIOUS
  <2>2. T[v].rules = call[d].rules
    <3>1. [rules |-> call[d].rules, of |-> d] \in VersionRow
      BY <1>2 DEF CallSort, VersionRow
    <3>2. T[v] = [rules |-> call[d].rules, of |-> d]
      BY <1>2, <2>1, <3>1
    <3> QED
      BY <3>2
  <2>3. Tabled(d, v, T)
    BY <2>1, <2>2 DEF Tabled
  <2>4. Names(d, v, T) /\ call[d].stage \in {"mint_gate", "mint_event"}
    BY <1>8, <2>1 DEF MintVersion
  <2>5. Changes(T)
    BY <2>1, <2>4, MintChanges
  <2> QED
    BY <2>1, <2>3, <2>4, <2>5, SoleNames
<1>9. ASSUME NEW d \in Decider, Refused(d) PROVE Sole'
  <2> DEFINE final == Ended(versions, d, "none")
  <2>1. /\ Len(final) = Len(versions) /\ DOMAIN final = DOMAIN versions
        /\ \A n \in DOMAIN versions :
              /\ versions[n].of = d => final[n] = [rules |-> versions[n].rules, of |-> "none"]
              /\ versions[n].of # d => final[n] = versions[n]
    BY <1>2, EndedTable
  <2>2. Changes(final)
    BY <1>2, ChangesAtEnd
  <2>3. call' = [call EXCEPT ![d] = NoCall] /\ NoCall.stage = "" /\ versions' = final /\ call[d].stage # ""
    BY <1>9 DEF Refused, Proceeds, NoCall
  <2> HIDE DEF final
  <2>4. LastIsOwn(final)
    BY <1>2, <2>1, PolicyAssumption DEF LastIsOwn
  <2>5. \A e \in Decider : e # d => call[e].stage = ""
    BY <2>3 DEF Sole
  <2>6. \A e \in Decider : call'[e].stage = ""
    BY <1>2, <2>3, <2>5
  <2> QED
    BY <2>2, <2>3, <2>4, <2>6 DEF Sole
<1>10. CASE UNCHANGED policyVars
  BY <1>3, <1>10 DEF policyVars
<1>11. ASSUME \/ \E key \in Key, scope \in Scope, value \in Value, from \in 1 .. LastDay + 1 :
                    AddParameter(key, scope, value, from)
              \/ \E r \in rows :
                    \/ \E to \in 2 .. LastDay + 1 : CloseParameter(r, to)
                    \/ \E value \in Value : RewriteParameter(r, value)
              \/ PolicyDay
       PROVE  RowsMove
  BY <1>11 DEF AddParameter, CloseParameter, RewriteParameter, PolicyDay
<1> QED
  BY <1>4, <1>5, <1>6, <1>7, <1>8, <1>9, <1>10, <1>11 DEF PolicyNext

\* A decision can be explained by the versions it names, whoever else decides;
\* and one at a time, a version is a change: evaluate, submit, current_version.
THEOREM PolicyVersionsTell == PolicySpec => []VersionsTell
<1> DEFINE Inv == DaysStand /\ VersionsSound /\ Sole
<1>1. PolicyInit => Inv
  <2> SUFFICES ASSUME PolicyInit PROVE Inv
    OBVIOUS
  <2>1. DaysStand
    BY PolicyAssumption DEF PolicyInit, DaysStand
  <2>2. NoCall \in CallSort /\ NoCall.stage = ""
    BY PolicyAssumption DEF NoCall, CallSort, Rules
  <2>3. versions = <<>> /\ call = [d \in Decider |-> NoCall] /\ verdicts = {} /\ regime \in Regime
    BY PolicyAssumption DEF PolicyInit
  <2>4. /\ versions \in Seq(VersionRow) /\ DOMAIN versions = {} /\ Len(versions) = 0
        /\ call \in [Decider -> CallSort]
        /\ \A d \in Decider : call[d].stage = ""
    <3>1. versions \in Seq(VersionRow) /\ DOMAIN versions = {} /\ Len(versions) = 0
      BY <2>3, EmptySeq
    <3>2. call \in [Decider -> CallSort] /\ \A d \in Decider : call[d].stage = ""
      <4> HIDE DEF Inv
      <4> QED
        BY <2>2, <2>3
    <3> QED
      BY <3>1, <3>2
  <2>5. VersionsSound
    BY <2>3, <2>4 DEF VersionsSound, CallTrue, OnRecord
  <2>6. Changes(versions)
    BY <2>4 DEF Changes
  <2>7. Sole
    BY <2>4, <2>6 DEF Sole, LastIsOwn
  <2> QED
    BY <2>1, <2>5, <2>7
<1>2. Inv /\ [PolicyNext]_policyVars => Inv'
  <2> SUFFICES ASSUME Inv, [PolicyNext]_policyVars PROVE Inv'
    OBVIOUS
  <2>1. rows \in SUBSET RowSort
    BY DEF DaysStand
  <2> QED
    BY <2>1, DaysKept, VersionsKept, SoleKept
<1>3. Inv => VersionsTell
  BY DEF VersionsTell, VersionsSound, OnRecord, Sole, Changes, Told
<1> QED
  BY <1>1, <1>2, <1>3, PTL DEF PolicySpec
=============================================================================
