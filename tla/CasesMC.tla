------------------------------ MODULE CasesMC -------------------------------
(***************************************************************************)
(* Instances of what is kept beside a youth's referrals: her entry in the  *)
(* register (Intake), the case with its placements (Placement), what is    *)
(* delivered and verified (Delivery), and the complaints of a district     *)
(* (Grievance); and of the thresholds the savings groups are judged by     *)
(* (Policy).  They share no variable, so an invariant of their product is  *)
(* one of each alone: a behaviour moves one of them, chosen at the start,  *)
(* and leaves the others where they began.                                 *)
(***************************************************************************)
EXTENDS Placement, Grievance, Delivery, Intake, Policy

CONSTANTS w1,   \* of Placement
          o1,   \* of Grievance
          d1    \* of Policy

(* Placement.                                                              *)

\* One request at a time on the case itself.
Alone == [on |-> {w1}, atOnce |-> 1, dies |-> FALSE, opened |-> NewCase,
          does |-> {"edit", "assign", "note", "resolve", "choose", "revise", "reword"}]
Amended == [Alone EXCEPT !.does = {"edit", "clear", "note", "resolve", "amend"}]
\* Two at once, and workers that die: on the actions, then on the pathways.
Crowd == [Alone EXCEPT !.on = Worker, !.atOnce = 2, !.dies = TRUE,
                       !.does = {"edit", "assign", "resolve"}]
Minds == [Crowd EXCEPT !.does = {"assign", "choose", "revise", "reword"}]
\* A case created with a next action, and one whose pathways change cases.
Begun == [Alone EXCEPT !.opened.next = "call", !.does = {"edit", "assign", "note", "resolve"}]
Shuffled == [Minds EXCEPT !.dies = FALSE, !.does = {"choose", "revise", "move"}]
\* A placement and what follows it, with deaths, then with overlaps.
Hired == [Alone EXCEPT !.dies = TRUE, !.does = {"assign", "place", "answer", "leave", "correct"}]
Fired == [Crowd EXCEPT !.dies = FALSE, !.does = {"place", "answer", "leave"}]
MCShifts == {Alone, Amended, Crowd, Minds, Begun, Shuffled, Hired, Fired}

(* Grievance.                                                              *)

MCResponseDays == [ROUTINE |-> 4, CRITICAL |-> 1]

\* One officer, everything, over a rest day.
Quiet == [duty |-> {o1}, atOnce |-> 1, does |-> GrievanceOps, entry |-> {1}, enter |-> 1,
          until |-> 4]
\* Two officers on one day: a decision and its appeal, near the top ...
Appealing == [duty |-> Officer, atOnce |-> 2,
              does |-> {"acknowledge", "start_review", "decide", "close", "appeal", "refer_out"},
              entry |-> {3, 4}, enter |-> 1, until |-> 1]
\* ... the same with edits, and the wait for the complainant.
Editing == [Appealing EXCEPT !.does = (@ \ {"appeal"}) \cup {"edit"}, !.entry = {3}]
Waiting == [Appealing EXCEPT !.does = {"acknowledge", "start_review", "pause", "resume",
                                       "refer_out"},
                             !.entry = {1}, !.until = 2]
MCDesks == {Quiet, Appealing, Editing, Waiting}

(* Delivery: two requests at once, but for PATCHes of the referral.        *)

Courses == [does |-> CourseOps, atOnce |-> 2]
Ventures == [does |-> VentureOps \cup {"complete"}, atOnce |-> 2]
Milestones == [does |-> MilestoneOps, atOnce |-> 2]
Checking == [does |-> {"contact", "complete_referral", "verify"}, atOnce |-> 2]
Patching == [does |-> {"contact"} \cup ReferredOps, atOnce |-> 1]
MCRounds == {Courses, Ventures, Milestones, Checking, Patching}

(* Intake: workbooks one after the other, with their errors; two requests  *)
(* at once, or records corrected, with small clean ones.                   *)

UpTo(S, n) == UNION {[1 .. m -> S] : m \in 1 .. n}
Clean == {[who |-> who, fault |-> "none"] : who \in Person}
Workbooks == [does |-> {"preview", "commit"}, atOnce |-> 1,
              sheets |-> UpTo(SheetRow, 2)
                             \cup {s \in UpTo(Clean, 3) : s[1].who.id # NoIdentifier}]
Busy == [does |-> {"commit", "form"}, atOnce |-> 2, sheets |-> UpTo(Clean, 1)]
Corrected == [Busy EXCEPT !.does = @ \cup {"edit"}, !.atOnce = 1]
MCRegisters == {Workbooks, Busy, Corrected}

(* Policy.                                                                 *)

MCParent == [p \in {"kebele", "woreda"} |-> IF p = "kebele" THEN "woreda" ELSE "nowhere"]
MCFallback == [k \in {"size"} |-> 0]

\* Decisions one at a time, and two at once, while rows are added ...
Judging == [by |-> {d1}, atOnce |-> 1, does |-> {"add"}, orderly |-> TRUE, rows |-> 2, days |-> 2]
Both == [Judging EXCEPT !.by = Decider, !.atOnce = 2, !.rows = 1, !.days = 1]
\* ... and rows alone: superseded in order, or in any way the form allows.
Reading == [Judging EXCEPT !.by = {}, !.does = {"add", "close"}, !.rows = 3, !.days = 3]
Rewriting == [Reading EXCEPT !.orderly = FALSE, !.rows = 2]
MCRegimes == {Judging, Both, Reading, Rewriting}

-----------------------------------------------------------------------------

VARIABLE part    \* which of them moves

placementAll == <<caseworkVars, placementVars>>

\* Those that do not move begin in one state.
CasesInit ==
    /\ part \in {"case", "grievance", "delivery", "intake", "policy"}
    /\ PlacementInit /\ GrievanceInit /\ DeliveryInit /\ IntakeInit /\ PolicyInit
    /\ part # "case" => shift = Alone
    /\ part # "grievance" => desk = Quiet
    /\ part # "delivery" => round = Courses
    /\ part # "intake" => register = Busy
    /\ part # "policy" => regime = Reading

CasesNext ==
    /\ UNCHANGED part
    /\ \/ /\ part = "case" /\ PlacementNext
          /\ UNCHANGED <<grievanceVars, deliveryVars, intakeVars, policyVars>>
       \/ /\ part = "grievance" /\ GrievanceNext
          /\ UNCHANGED <<placementAll, deliveryVars, intakeVars, policyVars>>
       \/ /\ part = "delivery" /\ DeliveryNext
          /\ UNCHANGED <<placementAll, grievanceVars, intakeVars, policyVars>>
       \/ /\ part = "intake" /\ IntakeNext
          /\ UNCHANGED <<placementAll, grievanceVars, deliveryVars, policyVars>>
       \/ /\ part = "policy" /\ PolicyNext
          /\ UNCHANGED <<placementAll, grievanceVars, deliveryVars, intakeVars>>

CasesSpec ==
    /\ CasesInit
    /\ [][CasesNext]_<<placementAll, grievanceVars, deliveryVars, intakeVars, policyVars, part>>
=============================================================================
