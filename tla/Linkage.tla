------------------------------ MODULE Linkage ------------------------------
(***************************************************************************)
(* Service linkages: apps/wlt/services/linkage.py, models/linkage.py, the  *)
(* linkage endpoints and the nightly jobs that touch them.                 *)
(*                                                                         *)
(* A request fetches a linkage with no lock, and every transition saves    *)
(* all columns of that copy.  Approval levels, obligations and risk flags  *)
(* are rows of their own and are read and written afresh.  The verdict of  *)
(* the gates is an input of each evaluation: the figures behind it may     *)
(* change at any time.                                                     *)
(*                                                                         *)
(* All linkages here are of one type.  Left out: providers, terms other    *)
(* than the two the service reads, dates, reasons and wording, and the     *)
(* deletion of a linkage.                                                  *)
(***************************************************************************)
EXTENDS Integers, FiniteSets, Sequences

CONSTANTS
    Linkage,      \* slots for linkage rows; the bound on how many are raised
    NoOne,        \* nobody, nothing
    Group,        \* savings groups
    Association,  \* CLAs and federations
    Members,      \* Members[s]: the groups that the distress of subject s reaches
    User,         \* people; each runs one request at a time
    Scheduler,    \* who runs the scheduled jobs
    RoleOf,       \* the role of each user
    Chain,        \* approval_chain of the type
    Credit,       \* the type is credit_facility
    Verdict,      \* what the gates may answer
    Reference,    \* obligation references
    Scenarios     \* the instances a run covers, see Scenario

LinkageSubject == Group \cup Association
Actor == User \cup {Scheduler}

Officers == {"WLT_WOREDA_OFFICER", "WLT_REGION_OFFICER", "WLT_FEDERAL_OFFICER"}
Role == Officers \cup {"WLT_FACILITATOR", "SYSTEM_ADMIN"}

LinkageStatus == {"PROPOSED", "SCREENED", "BLOCKED", "PENDING_APPROVAL", "RETURNED",
                  "APPROVED", "REJECTED", "LAPSED", "ACTIVE", "DISTRESSED",
                  "DEFAULTED", "CLOSED"}

\* LinkageStatus.terminal
Finished == {"REJECTED", "LAPSED", "CLOSED"}

\* LinkageStatus.open_statuses
OpenStatus == {"ACTIVE", "DISTRESSED", "DEFAULTED"}

Level == 1 .. Len(Chain) + 1

UserOps == {"screen", "resolution", "submit", "override", "approve", "return", "reject",
            "activate", "obligation", "settle", "transfer", "cure", "close", "edit"}
JobOps == {"lapse", "default"}

\* What a form says of the two terms the service reads; "" says nothing.
Said == {"", "yes", "no"}
Terms == [resolution : Said, outstanding : Said]

\* A scenario bounds the requests in flight and the linkages raised, and names
\* the people, the operations and the forms of terms it covers.
Scenario == [ inFlight : Nat, raised : Nat, users : SUBSET User,
              ops : SUBSET (UserOps \cup JobOps), terms : SUBSET Terms ]

ASSUME LinkageAssumption ==
    /\ IsFiniteSet(User) /\ IsFiniteSet(Linkage)
    /\ Scheduler \notin User
    /\ NoOne \notin Linkage \cup LinkageSubject \cup Actor
    /\ Members \in [LinkageSubject -> SUBSET Group]
    /\ RoleOf \in [User -> Role]
    /\ Chain \in Seq(Officers)
    /\ Credit \in BOOLEAN
    /\ Verdict \subseteq {"PASS", "FAIL", "PHASE"}  \* PHASE: failed, the minimum phase too
    /\ Scenarios \subseteq Scenario

VARIABLES
    link,         \* link[l]: the committed row
    approvals,    \* approvals[l][k]: level k of its chain
    register,     \* register[l][ref]: the latest obligation event of a reference
    phaseFailed,  \* phaseFailed[l]: some snapshot shows the minimum phase unmet
    flagged,      \* subjects with an open EXTERNAL_DISTRESS flag
    req,          \* req[u]: the request that actor u is in the middle of
    night,        \* night[g]: what the nightly refresh has found out about group g
    scenario      \* chosen once

linkageVars == <<link, approvals, register, phaseFailed, flagged, req, night, scenario>>

LinkageRow == [ status : LinkageStatus \cup {"ABSENT"},
                subject : LinkageSubject \cup {NoOne},
                initiator : User \cup {NoOne},
                resolution : BOOLEAN,      \* terms["resolution_reference"] is set
                outstanding : BOOLEAN ]    \* terms["outstanding_obligation"]

NoLinkage == [ status |-> "ABSENT", subject |-> NoOne, initiator |-> NoOne,
               resolution |-> FALSE, outstanding |-> FALSE ]

\* A level that does not exist has no role.
ApprovalRow == [ role : Officers \cup {NoOne},
                 by : User \cup {NoOne},
                 decision : {"", "APPROVED", "RETURNED"},
                 escalation : BOOLEAN ]

NoLevel == [role |-> NoOne, by |-> NoOne, decision |-> "", escalation |-> FALSE]

\* CanAccessGroups: officers only read, but for the endpoints that decide.
MayUse(u, op) ==
    IF u = Scheduler THEN op \in JobOps
    ELSE /\ u \in scenario.users /\ op \in UserOps
         /\ \/ RoleOf[u] \in {"WLT_FACILITATOR", "SYSTEM_ADMIN"}
            \/ op \in {"approve", "return", "reject", "settle"}

LinkageRequest == [ op : UserOps \cup JobOps \cup {"none"},
                    linkage : Linkage \cup {NoOne},
                    copy : LinkageRow,
                    level : Level \cup {0},     \* the level an approver was found to hold
                    override : BOOLEAN,         \* the chain had an override by then
                    left : {"unread", "some", "none"},    \* other levels to decide, once signed
                    phase : BOOLEAN ]           \* the gates at approval: minimum phase unmet

NoLinkageRequest ==
    [op |-> "none", linkage |-> NoOne, copy |-> NoLinkage, level |-> 0,
     override |-> FALSE, left |-> "unread", phase |-> FALSE]

\* get_queryset: a facilitator or an officer of a place sees the linkages of
\* groups; only these see an association's too.
Sees(u, l) ==
    u \in User /\ link[l].subject \notin Group
        => RoleOf[u] \in {"SYSTEM_ADMIN", "WLT_FEDERAL_OFFICER"}

-----------------------------------------------------------------------------

LINKAGE_TRANSITIONS ==
    [ PROPOSED         |-> {"SCREENED", "BLOCKED", "CLOSED"},
      BLOCKED          |-> {"SCREENED", "BLOCKED", "CLOSED"},
      SCREENED         |-> {"PENDING_APPROVAL", "BLOCKED", "CLOSED"},
      PENDING_APPROVAL |-> {"APPROVED", "RETURNED", "REJECTED", "BLOCKED"},
      RETURNED         |-> {"SCREENED", "CLOSED"},
      APPROVED         |-> {"ACTIVE", "LAPSED"},
      ACTIVE           |-> {"DISTRESSED", "CLOSED"},
      DISTRESSED       |-> {"ACTIVE", "DEFAULTED", "CLOSED"},
      DEFAULTED        |-> {"CLOSED"},
      REJECTED         |-> {},
      LAPSED           |-> {},
      CLOSED           |-> {} ]

\* A transition saves the whole copy with its new status.
Moved(copy, to) == [copy EXCEPT !.status = to]

CanTransition(copy, to) == to \in LINKAGE_TRANSITIONS[copy.status]

Pending(l) == {k \in Level : approvals[l][k].role # NoOne /\ approvals[l][k].decision = ""}

Deciders(l) == {approvals[l][k].by : k \in Level} \ {NoOne}

\* The level added by an override: the last role's superior, if it has one.
Superior(role) ==
    CASE role = "WLT_WOREDA_OFFICER" -> "WLT_REGION_OFFICER"
      [] role = "WLT_REGION_OFFICER" -> "WLT_FEDERAL_OFFICER"
      [] OTHER -> NoOne

\* _build_chain, when the linkage is proposed.
BuiltChain ==
    [k \in Level |-> IF k <= Len(Chain) THEN [NoLevel EXCEPT !.role = Chain[k]] ELSE NoLevel]

\* _build_chain with extra_level: get_or_create leaves the levels that exist alone.
Escalated(levels) ==
    IF Chain = <<>> \/ levels[Len(Chain) + 1] # NoLevel
    THEN levels
    ELSE [levels EXCEPT ![Len(Chain) + 1] =
             [NoLevel EXCEPT !.role = Superior(Chain[Len(Chain)]), !.escalation = TRUE]]

MayEscalate == Chain = <<>> \/ Superior(Chain[Len(Chain)]) # NoOne

\* _can_take_approval_role
CanTakeRole(u, role) == RoleOf[u] = "SYSTEM_ADMIN" \/ RoleOf[u] = role

\* _cascade_distress: the groups below and the association itself.
Cascade(subject) == Members[subject] \cup {subject}

\* risk_reasons: the group's own linkages only.
OwnDistress(g) ==
    \E l \in Linkage : link[l].subject = g /\ link[l].status \in {"DISTRESSED", "DEFAULTED"}

\* A term after a form: as it was, where the form says nothing.
Term(said, old) == IF said = "" THEN old ELSE said = "yes"

SomeOpen(obligations) == \E ref \in Reference : obligations[ref] = "OPEN"

-----------------------------------------------------------------------------

LinkageInit ==
    /\ link = [l \in Linkage |-> NoLinkage]
    /\ approvals = [l \in Linkage |-> [k \in Level |-> NoLevel]]
    /\ register = [l \in Linkage |-> [ref \in Reference |-> "NONE"]]
    /\ phaseFailed = [l \in Linkage |-> FALSE]
    /\ flagged = {}
    /\ req = [u \in Actor |-> NoLinkageRequest]
    /\ night = [g \in Group |-> "unread"]
    /\ scenario \in Scenarios

\* propose: the subject is locked, so that the look for an unfinished linkage
\* and the insert are one step; screening follows in the same transaction.
\* The terms are the caller's.
Propose(u, l, subject, verdict, terms) ==
    /\ link[l] = NoLinkage
    /\ req[u] = NoLinkageRequest
    /\ u \in scenario.users /\ RoleOf[u] \in {"WLT_FACILITATOR", "SYSTEM_ADMIN"}
    /\ Cardinality({m \in Linkage : link[m] # NoLinkage}) < scenario.raised
    /\ terms \in scenario.terms
    /\ \A m \in Linkage :
          link[m].subject = subject => link[m].status \in Finished
    /\ link' = [link EXCEPT ![l] =
           [ status |-> IF verdict = "PASS" THEN "SCREENED" ELSE "BLOCKED",
             subject |-> subject,
             initiator |-> u,
             resolution |-> Term(terms.resolution, FALSE),
             outstanding |-> Term(terms.outstanding, FALSE) ]]
    /\ approvals' = [approvals EXCEPT ![l] = BuiltChain]
    /\ phaseFailed' = [phaseFailed EXCEPT ![l] = verdict = "PHASE"]
    /\ UNCHANGED <<register, flagged, req, night, scenario>>

\* What the handler asks of the copy before it does anything else.  A copy it
\* refuses changes nothing, and such a request is left out.
Acceptable(op, copy) ==
    CASE op = "screen" -> \E to \in {"SCREENED", "BLOCKED"} : CanTransition(copy, to)
      [] op = "resolution" -> copy.status \in {"SCREENED", "BLOCKED", "RETURNED"}
      [] op = "submit" -> copy.status = "SCREENED" /\ copy.resolution
      [] op = "override" -> copy.status = "BLOCKED" /\ copy.resolution
      [] op \in {"approve", "return", "reject"} -> copy.status = "PENDING_APPROVAL"
      [] op = "activate" -> copy.status = "APPROVED"
      [] op \in {"obligation", "transfer"} -> copy.status \in {"ACTIVE", "DISTRESSED"}
      [] op \in {"settle", "edit"} -> TRUE
      [] op = "cure" -> ~copy.outstanding /\ CanTransition(copy, "ACTIVE")
      [] op = "close" -> ~copy.outstanding /\ CanTransition(copy, "CLOSED")
      [] op = "lapse" -> copy.status = "APPROVED"
      [] op = "default" -> copy.status = "DISTRESSED"

InFlight == {u \in Actor : req[u] # NoLinkageRequest}

\* get_object, or the queryset of a job: a copy, with no lock.
LoadLinkage(u, op, l) ==
    /\ req[u] = NoLinkageRequest
    /\ Cardinality(InFlight) < scenario.inFlight
    /\ op \in scenario.ops /\ MayUse(u, op)
    /\ link[l] # NoLinkage /\ Sees(u, l)
    /\ Acceptable(op, link[l])
    /\ req' = [req EXCEPT ![u] =
           [NoLinkageRequest EXCEPT !.op = op, !.linkage = l, !.copy = link[l]]]
    /\ UNCHANGED <<link, approvals, register, phaseFailed, flagged, night, scenario>>

\* The worker dies, or the body of the request or a fresh row is refused.
DropRequest(u) ==
    /\ req[u] # NoLinkageRequest
    /\ req' = [req EXCEPT ![u] = NoLinkageRequest]
    /\ UNCHANGED <<link, approvals, register, phaseFailed, flagged, night, scenario>>

\* What every handler below begins and ends with.
Runs(u, op) ==
    /\ req[u].op = op
    /\ req' = [req EXCEPT ![u] = NoLinkageRequest]
    /\ UNCHANGED <<night, scenario>>

\* The transition of l along an edge of the copy.
Transition(u, to) ==
    LET l == req[u].linkage
    IN  /\ CanTransition(req[u].copy, to)
        /\ link' = [link EXCEPT ![l] = Moved(req[u].copy, to)]

\* The gates were evaluated and the snapshot is kept.
Snapshot(l, verdict) ==
    phaseFailed' = [phaseFailed EXCEPT ![l] = @ \/ verdict = "PHASE"]

Screen(u, verdict) ==
    /\ Runs(u, "screen")
    /\ Transition(u, IF verdict = "PASS" THEN "SCREENED" ELSE "BLOCKED")
    /\ Snapshot(req[u].linkage, verdict)
    /\ UNCHANGED <<approvals, register, flagged>>

\* save(update_fields=["terms"]) writes the terms and leaves the other columns.
TermsSaved(u, resolution, outstanding) ==
    LET l == req[u].linkage
    IN  link' = [link EXCEPT ![l] =
           [link[l] EXCEPT !.resolution = resolution, !.outstanding = outstanding]]

RecordResolution(u) ==
    /\ Runs(u, "resolution")
    /\ TermsSaved(u, TRUE, req[u].copy.outstanding)
    /\ UNCHANGED <<approvals, register, phaseFailed, flagged>>

\* Where a submission leads: with no levels the facilitator decides alone.
Submitted(levels) ==
    IF \A k \in Level : levels[k].role = NoOne THEN "APPROVED" ELSE "PENDING_APPROVAL"

Submit(u) ==
    LET l == req[u].linkage
    IN  /\ Runs(u, "submit")
        /\ link' = [link EXCEPT ![l] = Moved(req[u].copy, Submitted(approvals[l]))]
        /\ UNCHANGED <<approvals, register, phaseFailed, flagged>>

\* A blocked linkage is submitted with a reason, and its chain grows a level.
SubmitOverride(u) ==
    LET l == req[u].linkage
    IN  /\ Runs(u, "override")
        /\ ~(Credit /\ phaseFailed[l])
        /\ MayEscalate
        /\ approvals' = [approvals EXCEPT ![l] = Escalated(approvals[l])]
        /\ link' = [link EXCEPT ![l] = Moved(req[u].copy, Submitted(Escalated(approvals[l])))]
        /\ UNCHANGED <<register, phaseFailed, flagged>>

\* Wrong: a person who has decided a level is not asked about the next one.
MayDecideAgain(u, l, k) ==
    /\ k \in Pending(l) /\ \A j \in Pending(l) : k <= j
    /\ CanTakeRole(u, approvals[l][k].role)
    /\ u # link[l].initiator

\* approve, return_for_revision, reject: k is the level to decide and u may
\* decide it: not the proposer, not at two levels.
MayDecide(u, l, k) ==
    /\ k \in Pending(l) /\ \A j \in Pending(l) : k <= j
    /\ CanTakeRole(u, approvals[l][k].role)
    /\ u # link[l].initiator
    /\ u \notin Deciders(l)

OverrideInChain(l) == \E k \in Level : approvals[l][k].escalation

\* The level is read here and written later, with no lock in between.
Judge(u, k) ==
    /\ req[u].op \in {"approve", "return", "reject"} /\ req[u].level = 0
    /\ MayDecide(u, req[u].linkage, k)
    /\ req' = [req EXCEPT ![u].level = k, ![u].override = OverrideInChain(req[u].linkage)]
    /\ UNCHANGED <<link, approvals, register, phaseFailed, flagged, night, scenario>>

Decided(u, decision) ==
    approvals' = [approvals EXCEPT ![req[u].linkage][req[u].level].by = u,
                                   ![req[u].linkage][req[u].level].decision = decision]

\* Whoever has written a level holds its row until she commits.
LevelFree(l, k) ==
    \A v \in Actor : ~(req[v].linkage = l /\ req[v].level = k /\ req[v].left # "unread")

\* approve: the gates no longer pass, and nobody had overridden them.
ApproveBlocked(u, verdict) ==
    LET l == req[u].linkage
    IN  /\ Runs(u, "approve") /\ req[u].level # 0 /\ req[u].left = "unread"
        /\ verdict # "PASS" /\ ~req[u].override
        /\ Transition(u, "BLOCKED")
        /\ Snapshot(l, verdict)
        /\ UNCHANGED <<approvals, register, flagged>>

\* Wrong: one approval is taken for the last.
NothingLeft(l, k) == TRUE

\* No level but k is still to be decided.
LastLevel(l, k) == Pending(l) \subseteq {k}

\* approve: the level is written, and the levels left to decide are looked for.
Sign(u, verdict) ==
    LET l == req[u].linkage
        k == req[u].level
    IN  /\ req[u].op = "approve" /\ k # 0 /\ req[u].left = "unread"
        /\ verdict = "PASS" \/ OverrideInChain(l)
        /\ LevelFree(l, k)
        /\ req' = [req EXCEPT ![u].left = IF LastLevel(l, k) THEN "none" ELSE "some",
                              ![u].phase = verdict = "PHASE"]
        /\ UNCHANGED <<link, approvals, register, phaseFailed, flagged, night, scenario>>

\* approve commits: the level is decided, and the last one moves the linkage.
Approve(u) ==
    LET l == req[u].linkage
    IN  /\ Runs(u, "approve") /\ req[u].left # "unread"
        /\ Decided(u, "APPROVED")
        /\ IF req[u].left = "none" THEN Transition(u, "APPROVED") ELSE UNCHANGED link
        /\ phaseFailed' = [phaseFailed EXCEPT ![l] = @ \/ req[u].phase]
        /\ UNCHANGED <<register, flagged>>

ReturnForRevision(u) ==
    /\ Runs(u, "return") /\ req[u].level # 0
    /\ LevelFree(req[u].linkage, req[u].level)
    /\ Decided(u, "RETURNED")
    /\ Transition(u, "RETURNED")
    /\ UNCHANGED <<register, phaseFailed, flagged>>

\* reject leaves the level as it is.
Reject(u) ==
    /\ Runs(u, "reject") /\ req[u].level # 0
    /\ Transition(u, "REJECTED")
    /\ UNCHANGED <<approvals, register, phaseFailed, flagged>>

\* activate: the terms of the form are written over those of the copy.
Activate(u, terms) ==
    LET l == req[u].linkage
        copy == req[u].copy
    IN  /\ Runs(u, "activate")
        /\ terms \in scenario.terms /\ CanTransition(copy, "ACTIVE")
        /\ link' = [link EXCEPT ![l] =
               [copy EXCEPT !.status = "ACTIVE",
                            !.resolution = Term(terms.resolution, @),
                            !.outstanding = Term(terms.outstanding, @)]]
        /\ UNCHANGED <<approvals, register, phaseFailed, flagged>>

\* PATCH: the whole copy is saved, with the subject and, where the form has
\* them, the terms that were sent in place of the old.
Edit(u, subject, terms) ==
    LET l == req[u].linkage
        copy == [req[u].copy EXCEPT !.subject = subject]
    IN  /\ Runs(u, "edit")
        /\ terms \in scenario.terms
        /\ \/ link' = [link EXCEPT ![l] = copy]
           \/ link' = [link EXCEPT ![l] =
                  [copy EXCEPT !.resolution = Term(terms.resolution, FALSE),
                               !.outstanding = Term(terms.outstanding, FALSE)]]
        /\ UNCHANGED <<approvals, register, phaseFailed, flagged>>

\* record_obligation: a missed obligation of an active linkage is distress.
RecordObligation(u, ref, missed, outstanding) ==
    LET l == req[u].linkage
        copy == req[u].copy
    IN  /\ Runs(u, "obligation")
        /\ register' = [register EXCEPT ![l][ref] = IF outstanding THEN "OPEN" ELSE "SETTLED"]
        /\ IF missed /\ copy.status = "ACTIVE"
           THEN /\ link' = [link EXCEPT ![l] =
                               [copy EXCEPT !.status = "DISTRESSED", !.outstanding = outstanding]]
                /\ flagged' = flagged \cup Cascade(copy.subject)
           ELSE TermsSaved(u, copy.resolution, outstanding) /\ UNCHANGED flagged
        /\ UNCHANGED <<approvals, phaseFailed>>

\* Wrong: the register is asked before the event is in it.
ExposureBefore(obligations, ref) == SomeOpen(obligations)

\* resolve_obligation: is anything outstanding once ref is settled?
ExposureAfter(obligations, ref) == SomeOpen([obligations EXCEPT ![ref] = "SETTLED"])

\* settle and write off.
SettleObligation(u, ref) ==
    LET l == req[u].linkage
    IN  /\ Runs(u, "settle")
        /\ register[l][ref] = "OPEN"
        /\ register' = [register EXCEPT ![l][ref] = "SETTLED"]
        /\ TermsSaved(u, req[u].copy.resolution, ExposureAfter(register[l], ref))
        /\ UNCHANGED <<approvals, phaseFailed, flagged>>

TransferObligation(u, ref, to) ==
    LET l == req[u].linkage
    IN  /\ Runs(u, "transfer")
        /\ register[l][ref] = "OPEN"
        /\ register' = [register EXCEPT ![l][ref] = "SETTLED", ![l][to] = "OPEN"]
        /\ TermsSaved(u, req[u].copy.resolution, TRUE)
        /\ UNCHANGED <<approvals, phaseFailed, flagged>>

\* cure takes the flag from the groups, not from an association.
Cure(u) ==
    /\ Runs(u, "cure")
    /\ Transition(u, "ACTIVE")
    /\ flagged' = flagged \ Members[req[u].copy.subject]
    /\ UNCHANGED <<approvals, register, phaseFailed>>

Close(u) ==
    /\ Runs(u, "close")
    /\ Transition(u, "CLOSED")
    /\ UNCHANGED <<approvals, register, phaseFailed, flagged>>

(* The nightly jobs.                                                       *)

\* lapse_stale_approvals, one linkage of its list.
Lapse ==
    /\ Runs(Scheduler, "lapse")
    /\ Transition(Scheduler, "LAPSED")
    /\ UNCHANGED <<approvals, register, phaseFailed, flagged>>

\* default_overdue_distress, which no schedule calls yet, one linkage of its list.
DefaultOverdue ==
    /\ Runs(Scheduler, "default")
    /\ Transition(Scheduler, "DEFAULTED")
    /\ flagged' = flagged \cup Cascade(req[Scheduler].copy.subject)
    /\ UNCHANGED <<approvals, register, phaseFailed>>

\* refresh_group_indicators computes the figures of a group ...
RefreshRead(g) ==
    /\ night[g] = "unread"
    /\ night' = [night EXCEPT ![g] = IF OwnDistress(g) THEN "distressed" ELSE "clear"]
    /\ UNCHANGED <<link, approvals, register, phaseFailed, flagged, req, scenario>>

\* Wrong: every reason is cleared, current or not.
RefreshedToClear(g) == flagged \ {g}

\* ... raises the flags for the reasons it found and clears all the others.
Refreshed(g) == IF night[g] = "distressed" THEN flagged \cup {g} ELSE flagged \ {g}

RefreshWrite(g) ==
    /\ night[g] # "unread"
    /\ flagged' = Refreshed(g)
    /\ night' = [night EXCEPT ![g] = "unread"]
    /\ UNCHANGED <<link, approvals, register, phaseFailed, req, scenario>>

\* review_blacklisted_providers: the provider of l has been blacklisted.
FlagBlacklisted(l) ==
    /\ link[l].status \in OpenStatus
    /\ flagged' = flagged \cup Members[link[l].subject]
    /\ UNCHANGED <<link, approvals, register, phaseFailed, req, night, scenario>>

Handle(u) ==
    \/ \E v \in Verdict : Screen(u, v) \/ ApproveBlocked(u, v) \/ Sign(u, v)
    \/ RecordResolution(u) \/ Submit(u) \/ SubmitOverride(u)
    \/ \E k \in Level : Judge(u, k)
    \/ Approve(u) \/ ReturnForRevision(u) \/ Reject(u)
    \/ \E terms \in Terms :
          Activate(u, terms) \/ \E s \in LinkageSubject : Edit(u, s, terms)
    \/ \E ref \in Reference :
          \/ \E missed, outstanding \in BOOLEAN : RecordObligation(u, ref, missed, outstanding)
          \/ SettleObligation(u, ref)
          \/ \E to \in Reference : TransferObligation(u, ref, to)
    \/ Cure(u) \/ Close(u)

LinkageNext ==
    \/ \E u \in User : Handle(u)
    \/ \E u \in User, l \in Linkage, s \in LinkageSubject, v \in Verdict, terms \in Terms :
          Propose(u, l, s, v, terms)
    \/ \E u \in Actor :
          \/ \E l \in Linkage, op \in UserOps \cup JobOps : LoadLinkage(u, op, l)
          \/ DropRequest(u)
    \/ Lapse \/ DefaultOverdue
    \/ \E g \in Group : RefreshRead(g) \/ RefreshWrite(g)
    \/ \E l \in Linkage : FlagBlacklisted(l)

LinkageSpec == LinkageInit /\ [][LinkageNext]_linkageVars

\* Beat runs the nightly refresh, and each night it reaches every group.
NightlyFairness ==
    \A g \in Group : WF_linkageVars(RefreshRead(g)) /\ WF_linkageVars(RefreshWrite(g))

-----------------------------------------------------------------------------
(* Properties.                                                             *)

\* Rows, levels, registers and requests are well formed.
LinkageTypeOK ==
    /\ link \in [Linkage -> LinkageRow]
    /\ approvals \in [Linkage -> [Level -> ApprovalRow]]
    /\ register \in [Linkage -> [Reference -> {"NONE", "OPEN", "SETTLED"}]]
    /\ phaseFailed \in [Linkage -> BOOLEAN]
    /\ flagged \subseteq LinkageSubject
    /\ req \in [Actor -> LinkageRequest]
    /\ night \in [Group -> {"unread", "distressed", "clear"}]
    /\ scenario \in Scenarios

\* No person decides two levels of one linkage, and nobody a linkage that is
\* her own proposal, although a level is read before it is written and another
\* decision may be overwritten in between.
FourEyes ==
    \A l \in Linkage : \A k \in Level :
        approvals[l][k].by # NoOne =>
            /\ approvals[l][k].by # link[l].initiator
            /\ \A j \in Level \ {k} : approvals[l][j].by # approvals[l][k].by

Approved == OpenStatus \cup {"APPROVED", "LAPSED"}

\* A level of the type, or one that an override added, has been decided.  (With
\* two requests at once an override can add its level after an approval has
\* looked for the levels left, and that one is not waited for.)
LevelDecided(l, k) ==
    approvals[l][k].role # NoOne /\ (k <= Len(Chain) \/ scenario.inFlight = 1)
        => approvals[l][k].decision # ""

\* A linkage that has been approved, and whatever became of it since, has had
\* every level of its type decided, although a level is read, signed and
\* committed in steps of their own, and a stale save or a PATCH brings back any
\* status that a copy has had.
ApprovedWhenDecided ==
    \A l \in Linkage : \A k \in Level : link[l].status \in Approved => LevelDecided(l, k)

\* No form says that something is outstanding.
FormsClaimNothing == \A terms \in scenario.terms : terms.outstanding # "yes"

\* One request at a time, and unless a form says so itself, the exposure that
\* stops a linkage from closing is a reference that somebody can settle.
ExposureIsReal ==
    scenario.inFlight = 1 /\ FormsClaimNothing
        => \A l \in Linkage : link[l].outstanding => SomeOpen(register[l])

\* A group with a distressed linkage of its own does not stay green: curing the
\* linkage of its association takes the flag away, but only until the next night.
DistressShown ==
    \A g \in Group : OwnDistress(g) ~> g \in flagged \/ ~OwnDistress(g)

\* What the approval chain says of itself: these roles must approve, in order.
EveryLevelApproved ==
    \A l \in Linkage : \A k \in Level :
        link[l].status = "APPROVED" /\ approvals[l][k].role # NoOne
            => approvals[l][k].decision = "APPROVED"
=============================================================================
