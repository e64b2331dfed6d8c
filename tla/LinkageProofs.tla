--------------------------- MODULE LinkageProofs ----------------------------
(***************************************************************************)
(* Proofs about Linkage, for any number of linkages, people and levels,    *)
(* any approval chain and any scenarios.                                   *)
(*                                                                         *)
(* FourEyes rests on what a request in the middle of a decision knows: its *)
(* person has decided nothing yet (Judged).  Only her own requests write   *)
(* her name and she has one at a time, so this stays true until she        *)
(* writes, whoever else decides the same level in between.                 *)
(***************************************************************************)
EXTENDS Linkage, FiniteSetTheorems, TLAPS

Busy(u) == req[u].op # "none"

\* A request holds a copy of a row that exists, as proposed.
Real ==
    \A u \in Actor : Busy(u) =>
        LET l == req[u].linkage
        IN  /\ l \in Linkage
            /\ link[l].status # "ABSENT" /\ req[u].copy.status # "ABSENT"
            /\ req[u].copy.subject \in LinkageSubject
            /\ req[u].copy.initiator = link[l].initiator

\* A slot with no row has no decisions, a row has a subject, a request at rest
\* has no level, and one that has not judged has signed none.
EmptySlots ==
    /\ \A l \in Linkage :
          IF link[l].status = "ABSENT"
          THEN link[l] = NoLinkage /\ \A k \in Level : approvals[l][k].by = NoOne
          ELSE link[l].subject \in LinkageSubject
    /\ \A u \in Actor : ~Busy(u) => req[u] = NoLinkageRequest
    /\ \A u \in Actor : req[u].left # "unread" => req[u].level # 0

\* Who is about to decide a level has neither proposed nor decided.
Judged ==
    \A u \in Actor : req[u].level # 0 =>
        /\ u \in User
        /\ u # link[req[u].linkage].initiator
        /\ u \notin Deciders(req[u].linkage)

Known == LinkageTypeOK /\ Real /\ EmptySlots

\* One handler that ends: it writes the row of its copy and at most one level.
RowStep(u) ==
    LET l == req[u].linkage
    IN  /\ Busy(u)
        /\ req' = [req EXCEPT ![u] = NoLinkageRequest]
        /\ \E row \in LinkageRow :
              /\ link' = [link EXCEPT ![l] = row]
              /\ row.status # "ABSENT"
              /\ row.subject \in LinkageSubject /\ row.initiator = link[l].initiator
        /\ \/ UNCHANGED approvals
           \/ approvals' = [approvals EXCEPT ![l] = Escalated(approvals[l])] /\ MayEscalate
           \/ /\ req[u].level # 0
              /\ \E d \in {"APPROVED", "RETURNED"} : Decided(u, d)
        /\ register' \in [Linkage -> [Reference -> {"NONE", "OPEN", "SETTLED"}]]
        /\ phaseFailed' \in [Linkage -> BOOLEAN]
        /\ flagged' \subseteq LinkageSubject
        /\ UNCHANGED <<night, scenario>>

\* Requests that begin, judge, sign or are dropped, and the steps of the night.
AsideStep ==
    /\ UNCHANGED <<link, approvals, register, phaseFailed, scenario>>
    /\ flagged' \subseteq LinkageSubject
    /\ night' \in [Group -> {"unread", "distressed", "clear"}]
    /\ \/ UNCHANGED req
       \/ \E u \in Actor, op \in UserOps \cup JobOps, l \in Linkage :
             LoadLinkage(u, op, l)
       \/ \E u \in Actor : DropRequest(u)
       \/ \E u \in User, k \in Level : Judge(u, k)
       \/ \E u \in User, v \in Verdict : Sign(u, v)

ProposeStep ==
    \E u \in User, l \in Linkage, s \in LinkageSubject, v \in Verdict, terms \in Terms :
        Propose(u, l, s, v, terms)

\* A term is set or not, whatever the form says.
LEMMA TermTyped == \A said, old : old \in BOOLEAN => Term(said, old) \in BOOLEAN
BY DEF Term

-----------------------------------------------------------------------------

\* Levels number the chain and one more.
LEMMA LevelFacts ==
    /\ Level \subseteq Nat \ {0} /\ 0 \notin Level
    /\ Chain # <<>> => Len(Chain) \in 1 .. Len(Chain) /\ Len(Chain) + 1 \in Level
    /\ \A k \in 1 .. Len(Chain) : Chain[k] \in Officers
    /\ Chain # <<>> => Chain[Len(Chain)] \in Officers
<1>1. Chain \in Seq(Officers)
  BY LinkageAssumption
<1>2. Len(Chain) \in Nat
  BY <1>1
<1>3. \A k \in 1 .. Len(Chain) : Chain[k] \in Officers
  BY <1>1
<1>4. Chain # <<>> => Len(Chain) \in 1 .. Len(Chain)
  BY <1>1, <1>2
<1> QED
  BY <1>2, <1>3, <1>4 DEF Level

LEMMA SuperiorTyped == \A role \in Officers : Superior(role) \in Officers \cup {NoOne}
BY DEF Superior, Officers

\* The chain that a proposal builds, and the one an override grows, are chains.
LEMMA ChainTyped ==
    /\ BuiltChain \in [Level -> ApprovalRow]
    /\ \A k \in Level : BuiltChain[k].by = NoOne
    /\ \A levels \in [Level -> ApprovalRow] :
          /\ Escalated(levels) \in [Level -> ApprovalRow]
          /\ \A k \in Level : Escalated(levels)[k].by = levels[k].by
<1>1. BuiltChain \in [Level -> ApprovalRow] /\ \A k \in Level : BuiltChain[k].by = NoOne
  <2> SUFFICES ASSUME NEW k \in Level
               PROVE  BuiltChain[k] \in ApprovalRow /\ BuiltChain[k].by = NoOne
    BY DEF BuiltChain
  <2>1. CASE k <= Len(Chain)
    <3>1. Chain[k] \in Officers
      BY <2>1, LevelFacts, LinkageAssumption DEF Level
    <3> QED
      BY <2>1, <3>1 DEF BuiltChain, NoLevel, ApprovalRow
  <2>2. CASE ~(k <= Len(Chain))
    BY <2>2 DEF BuiltChain, NoLevel, ApprovalRow
  <2> QED
    BY <2>1, <2>2
<1>2. ASSUME NEW levels \in [Level -> ApprovalRow]
      PROVE  /\ Escalated(levels) \in [Level -> ApprovalRow]
             /\ \A k \in Level : Escalated(levels)[k].by = levels[k].by
  <2>1. CASE Chain = <<>> \/ levels[Len(Chain) + 1] # NoLevel
    BY <1>2, <2>1 DEF Escalated
  <2>2. CASE ~(Chain = <<>> \/ levels[Len(Chain) + 1] # NoLevel)
    <3> DEFINE new == [NoLevel EXCEPT !.role = Superior(Chain[Len(Chain)]), !.escalation = TRUE]
    <3>1. new \in ApprovalRow /\ new.by = NoOne
      BY <2>2, LevelFacts, SuperiorTyped DEF NoLevel, ApprovalRow
    <3>2. Len(Chain) + 1 \in Level /\ levels[Len(Chain) + 1].by = NoOne
      <4>1. Len(Chain) + 1 \in Level /\ levels[Len(Chain) + 1] = NoLevel
        BY <2>2, LevelFacts
      <4>2. NoLevel.by = NoOne
        BY DEF NoLevel
      <4> QED
        BY <4>1, <4>2
    <3>3. Escalated(levels) = [levels EXCEPT ![Len(Chain) + 1] = new]
      BY <2>2 DEF Escalated
    <3> HIDE DEF new
    <3> QED
      BY <1>2, <3>1, <3>2, <3>3
  <2> QED
    BY <2>1, <2>2
<1> QED
  BY <1>1, <1>2

\* A transition writes a row of the same proposer.
LEMMA TransitionRow ==
    ASSUME Known, NEW u \in Actor, Busy(u), NEW to, Transition(u, to)
    PROVE  \E row \in LinkageRow :
              /\ link' = [link EXCEPT ![req[u].linkage] = row]
              /\ row.status # "ABSENT"
              /\ row.subject \in LinkageSubject
              /\ row.initiator = link[req[u].linkage].initiator
<1> DEFINE copy == req[u].copy
           row == Moved(copy, to)
<1>1. copy \in LinkageRow /\ copy.status \in LinkageStatus
  BY DEF Known, LinkageTypeOK, Real, LinkageRequest, LinkageRow
<1>2. to \in LinkageStatus /\ to # "ABSENT"
  BY <1>1 DEF Transition, CanTransition, LINKAGE_TRANSITIONS, LinkageStatus
<1>3. row \in LinkageRow /\ row.status = to /\ row.subject = copy.subject
         /\ row.initiator = copy.initiator
  BY <1>1, <1>2 DEF Moved, LinkageRow
<1> QED
  BY <1>2, <1>3 DEF Transition, Known, Real

\* Saving the terms writes a row of the same status, subject and proposer.
LEMMA TermsSavedRow ==
    ASSUME Known, NEW u \in Actor, Busy(u), NEW r \in BOOLEAN, NEW o \in BOOLEAN,
           TermsSaved(u, r, o)
    PROVE  /\ \E row \in LinkageRow :
                 /\ link' = [link EXCEPT ![req[u].linkage] = row]
                 /\ row.status # "ABSENT"
                 /\ row.subject \in LinkageSubject
                 /\ row.initiator = link[req[u].linkage].initiator
           /\ \A l \in Linkage : link'[l].status = link[l].status
<1> DEFINE m == req[u].linkage
           row == [link[m] EXCEPT !.resolution = r, !.outstanding = o]
<1>1. m \in Linkage /\ link[m] \in LinkageRow /\ link \in [Linkage -> LinkageRow]
         /\ link[m].status # "ABSENT" /\ link[m].subject \in LinkageSubject
  BY DEF Known, LinkageTypeOK, Real, EmptySlots
<1>2. /\ row \in LinkageRow /\ row.status = link[m].status
      /\ row.subject \in LinkageSubject /\ row.initiator = link[m].initiator
  BY <1>1 DEF LinkageRow
<1>3. link' = [link EXCEPT ![m] = row]
  BY DEF TermsSaved
<1> HIDE DEF row
<1> QED
  BY <1>1, <1>2, <1>3

\* What every handler ends with keeps the parts that only typing is about.
LEMMA HandlerStep ==
    ASSUME Known, NEW u \in Actor, Busy(u)
    PROVE  /\ \A v \in Verdict : Screen(u, v) \/ ApproveBlocked(u, v) => RowStep(u)
           /\ RecordResolution(u) \/ Submit(u) \/ SubmitOverride(u) => RowStep(u)
           /\ Approve(u) \/ ReturnForRevision(u) \/ Reject(u) => RowStep(u)
           /\ \A terms \in Terms : Activate(u, terms) => RowStep(u)
           /\ \A terms \in Terms, s \in LinkageSubject : Edit(u, s, terms) => RowStep(u)
           /\ \A ref \in Reference, m, o \in BOOLEAN :
                 RecordObligation(u, ref, m, o) => RowStep(u)
           /\ \A ref, to \in Reference :
                 SettleObligation(u, ref) \/ TransferObligation(u, ref, to) => RowStep(u)
           /\ Cure(u) \/ Close(u) => RowStep(u)
           /\ u = Scheduler => (Lapse \/ DefaultOverdue => RowStep(u))
<1> DEFINE l == req[u].linkage
           copy == req[u].copy
<1>1. /\ l \in Linkage /\ link[l] \in LinkageRow /\ copy \in LinkageRow
      /\ copy.status \in LinkageStatus /\ copy.status # "ABSENT"
      /\ link[l].status # "ABSENT"
      /\ link[l].subject \in LinkageSubject /\ copy.initiator = link[l].initiator
      /\ copy.resolution \in BOOLEAN /\ copy.outstanding \in BOOLEAN
      /\ copy.subject \in LinkageSubject /\ Cascade(copy.subject) \subseteq LinkageSubject
  <2>1. link[l].subject \in LinkageSubject
    BY DEF Known, Real, EmptySlots
  <2> QED
    BY <2>1, LinkageAssumption
       DEF Known, LinkageTypeOK, Real, LinkageRequest, LinkageRow, Cascade, LinkageSubject
<1>2. /\ link \in [Linkage -> LinkageRow]
      /\ register \in [Linkage -> [Reference -> {"NONE", "OPEN", "SETTLED"}]]
      /\ phaseFailed \in [Linkage -> BOOLEAN] /\ flagged \subseteq LinkageSubject
  BY DEF Known, LinkageTypeOK
<1>3. ASSUME NEW v \in Verdict, Screen(u, v) \/ ApproveBlocked(u, v)
      PROVE RowStep(u)
  <2>1. phaseFailed' \in [Linkage -> BOOLEAN]
    BY <1>1, <1>2, <1>3 DEF Screen, ApproveBlocked, Snapshot
  <2> QED
    BY <1>1, <1>2, <1>3, <2>1, TransitionRow DEF Screen, ApproveBlocked, Runs, RowStep
<1>4. ASSUME RecordResolution(u) \/ Submit(u) \/ SubmitOverride(u) PROVE RowStep(u)
  <2>1. CASE RecordResolution(u)
    BY <1>1, <1>2, <2>1, TermsSavedRow DEF RecordResolution, Runs, RowStep
  <2>2. CASE Submit(u) \/ SubmitOverride(u)
    <3>1. \E to \in {"APPROVED", "PENDING_APPROVAL"} :
             link' = [link EXCEPT ![l] = Moved(copy, to)]
      BY <2>2 DEF Submit, SubmitOverride, Submitted
    <3>2. PICK to \in {"APPROVED", "PENDING_APPROVAL"} :
             link' = [link EXCEPT ![l] = Moved(copy, to)]
      BY <3>1
    <3>3. Moved(copy, to) \in LinkageRow /\ Moved(copy, to).status # "ABSENT"
             /\ Moved(copy, to).subject = copy.subject
             /\ Moved(copy, to).initiator = copy.initiator
      BY <1>1 DEF Moved, LinkageRow, LinkageStatus
    <3> QED
      BY <1>1, <1>2, <2>2, <3>2, <3>3 DEF Submit, SubmitOverride, Runs, RowStep
  <2> QED
    BY <1>4, <2>1, <2>2
<1>5. Approve(u) \/ ReturnForRevision(u) \/ Reject(u) => RowStep(u)
  <2>1. CASE Approve(u)
    <3>1. phaseFailed' \in [Linkage -> BOOLEAN]
      <4>1. req[u].phase \in BOOLEAN /\ phaseFailed[l] \in BOOLEAN
        BY <1>1, <1>2 DEF Known, LinkageTypeOK, LinkageRequest
      <4> QED
        BY <1>2, <2>1, <4>1 DEF Approve
    <3>2. req[u].level # 0
      BY <2>1 DEF Approve, Known, EmptySlots
    <3>3. CASE req[u].left = "none"
      BY <1>1, <1>2, <2>1, <3>1, <3>2, <3>3, TransitionRow DEF Approve, Runs, RowStep
    <3>4. CASE req[u].left # "none"
      <4>1. link' = [link EXCEPT ![l] = link[l]]
        BY <1>1, <1>2, <2>1, <3>4 DEF Approve
      <4> QED
        BY <1>1, <1>2, <2>1, <3>1, <3>2, <4>1 DEF Approve, Runs, RowStep
    <3> QED
      BY <3>3, <3>4
  <2>2. ReturnForRevision(u) \/ Reject(u) => RowStep(u)
    BY <1>1, <1>2, TransitionRow DEF ReturnForRevision, Reject, Runs, RowStep
  <2> QED
    BY <2>1, <2>2
<1>10. ASSUME NEW terms \in Terms, Activate(u, terms) PROVE RowStep(u)
  <2> DEFINE row == [copy EXCEPT !.status = "ACTIVE",
                                 !.resolution = Term(terms.resolution, copy.resolution),
                                 !.outstanding = Term(terms.outstanding, copy.outstanding)]
  <2>1. link' = [link EXCEPT ![l] = row]
    BY <1>1, <1>10 DEF Activate, LinkageRow
  <2>2. row \in LinkageRow /\ row.status # "ABSENT"
           /\ row.subject \in LinkageSubject /\ row.initiator = link[l].initiator
    BY <1>1, TermTyped DEF LinkageRow, LinkageStatus
  <2> HIDE DEF row
  <2> QED
    BY <1>1, <1>2, <1>10, <2>1, <2>2 DEF Activate, Runs, RowStep
<1>11. ASSUME NEW terms \in Terms, NEW s \in LinkageSubject, Edit(u, s, terms) PROVE RowStep(u)
  <2> DEFINE moved == [copy EXCEPT !.subject = s]
             row == [moved EXCEPT !.resolution = Term(terms.resolution, FALSE),
                                  !.outstanding = Term(terms.outstanding, FALSE)]
  <2>1. /\ moved \in LinkageRow /\ moved.status = copy.status
        /\ moved.subject = s /\ moved.initiator = copy.initiator
    BY <1>1 DEF LinkageRow
  <2>2. /\ row \in LinkageRow /\ row.status = copy.status
        /\ row.subject = s /\ row.initiator = copy.initiator
    BY <2>1, TermTyped DEF LinkageRow
  <2>3. link' = [link EXCEPT ![l] = moved] \/ link' = [link EXCEPT ![l] = row]
    BY <1>11 DEF Edit
  <2> HIDE DEF moved, row
  <2> QED
    BY <1>1, <1>2, <1>11, <2>1, <2>2, <2>3 DEF Edit, Runs, RowStep
<1>6. ASSUME NEW ref \in Reference, NEW m \in BOOLEAN, NEW o \in BOOLEAN,
             RecordObligation(u, ref, m, o)
      PROVE  RowStep(u)
  <2>1. register' \in [Linkage -> [Reference -> {"NONE", "OPEN", "SETTLED"}]]
    BY <1>1, <1>2, <1>6 DEF RecordObligation
  <2>2. CASE m /\ copy.status = "ACTIVE"
    <3> DEFINE row == [copy EXCEPT !.status = "DISTRESSED", !.outstanding = o]
    <3>1. link' = [link EXCEPT ![l] = row] /\ flagged' = flagged \cup Cascade(copy.subject)
      BY <1>6, <2>2 DEF RecordObligation
    <3>2. row \in LinkageRow /\ row.status # "ABSENT"
             /\ row.subject \in LinkageSubject /\ row.initiator = link[l].initiator
      BY <1>1, <1>6 DEF LinkageRow, LinkageStatus
    <3> HIDE DEF row
    <3> QED
      BY <1>1, <1>2, <1>6, <2>1, <3>1, <3>2 DEF RecordObligation, Runs, RowStep
  <2>3. CASE ~(m /\ copy.status = "ACTIVE")
    BY <1>1, <1>2, <1>6, <2>1, <2>3, TermsSavedRow DEF RecordObligation, Runs, RowStep
  <2> QED
    BY <2>2, <2>3
<1>7. ASSUME NEW ref \in Reference, NEW to \in Reference,
             SettleObligation(u, ref) \/ TransferObligation(u, ref, to)
      PROVE  RowStep(u)
  <2>1. register' \in [Linkage -> [Reference -> {"NONE", "OPEN", "SETTLED"}]]
    <3>1. CASE SettleObligation(u, ref)
      BY <1>1, <1>2, <3>1 DEF SettleObligation
    <3>2. CASE TransferObligation(u, ref, to)
      <4>1. register' = [register EXCEPT ![l] =
                            [[register[l] EXCEPT ![ref] = "SETTLED"] EXCEPT ![to] = "OPEN"]]
        BY <1>1, <1>2, <3>2 DEF TransferObligation
      <4> QED
        BY <1>1, <1>2, <4>1
    <3> QED
      BY <1>7, <3>1, <3>2
  <2>2. PICK o \in BOOLEAN : TermsSaved(u, copy.resolution, o)
    <3>1. ExposureAfter(register[l], ref) \in BOOLEAN
      BY DEF ExposureAfter, SomeOpen
    <3> QED
      BY <1>7, <3>1 DEF SettleObligation, TransferObligation
  <2>3. \E row \in LinkageRow :
           /\ link' = [link EXCEPT ![l] = row]
           /\ row.status # "ABSENT"
           /\ row.subject \in LinkageSubject /\ row.initiator = link[l].initiator
    BY <1>1, <1>2, <2>2, TermsSavedRow
  <2>4. req' = [req EXCEPT ![u] = NoLinkageRequest] /\ UNCHANGED approvals
    BY <1>7 DEF SettleObligation, TransferObligation, Runs
  <2> QED
    BY <1>1, <1>2, <1>7, <2>1, <2>3, <2>4
       DEF SettleObligation, TransferObligation, Runs, RowStep
<1>8. Cure(u) \/ Close(u) => RowStep(u)
  BY <1>1, <1>2, TransitionRow DEF Cure, Close, Runs, RowStep
<1>9. ASSUME u = Scheduler, Lapse \/ DefaultOverdue PROVE RowStep(u)
  BY <1>1, <1>2, <1>9, TransitionRow DEF Lapse, DefaultOverdue, Runs, RowStep
<1> QED
  BY <1>3, <1>4, <1>5, <1>6, <1>7, <1>8, <1>9, <1>10, <1>11

\* A handler that neither judges nor signs ends its request.
Ends(u) == Handle(u) /\ ~(\E k \in Level : Judge(u, k)) /\ ~(\E v \in Verdict : Sign(u, v))

LEMMA EndingStep ==
    ASSUME Known, NEW u \in User, Ends(u)
    PROVE  u \in Actor /\ Busy(u) /\ RowStep(u)
<1>1. Busy(u)
  BY DEF Ends, Handle, Screen, ApproveBlocked, Approve, RecordResolution, Submit,
     SubmitOverride, ReturnForRevision, Reject, Activate, Edit, RecordObligation,
     SettleObligation, TransferObligation, Cure, Close, Runs, Busy
<1>2. u \in Actor
  BY DEF Actor
<1> QED
  BY <1>1, <1>2, HandlerStep DEF Ends, Handle

\* Every step proposes, goes on beside the rows, or ends a request.
LEMMA StepParts ==
    ASSUME Known, LinkageNext
    PROVE  ProposeStep \/ AsideStep \/ Lapse \/ DefaultOverdue \/ \E u \in User : Ends(u)
<1>1. flagged \subseteq LinkageSubject /\ night \in [Group -> {"unread", "distressed", "clear"}]
  BY DEF Known, LinkageTypeOK
<1>2. ASSUME NEW u \in User, Handle(u) PROVE AsideStep \/ Ends(u)
  <2>1. CASE \E k \in Level : Judge(u, k)
    BY <1>1, <2>1 DEF Judge, AsideStep
  <2>2. CASE \E v \in Verdict : Sign(u, v)
    BY <1>1, <2>2 DEF Sign, AsideStep
  <2> QED
    BY <1>2, <2>1, <2>2 DEF Ends
<1>3. ASSUME NEW u \in Actor, (\E l \in Linkage, op \in UserOps \cup JobOps : LoadLinkage(u, op, l))
             \/ DropRequest(u)
      PROVE  AsideStep
  BY <1>1, <1>3 DEF LoadLinkage, DropRequest, AsideStep
<1>4. ASSUME NEW g \in Group, RefreshRead(g) \/ RefreshWrite(g) PROVE AsideStep
  <2>1. g \in LinkageSubject
    BY DEF LinkageSubject
  <2> QED
    BY <1>1, <1>4, <2>1 DEF RefreshRead, RefreshWrite, Refreshed, AsideStep
<1>5. ASSUME NEW l \in Linkage, FlagBlacklisted(l) PROVE AsideStep
  <2>1. link[l].status # "ABSENT" => link[l].subject \in LinkageSubject
    BY DEF Known, EmptySlots
  <2>2. link[l].status \in OpenStatus => Members[link[l].subject] \subseteq Group
    BY <2>1, LinkageAssumption DEF OpenStatus
  <2> QED
    BY <1>1, <1>5, <2>2 DEF FlagBlacklisted, AsideStep, LinkageSubject
<1> QED
  BY <1>2, <1>3, <1>4, <1>5 DEF LinkageNext, ProposeStep, Actor

LEMMA StepKinds ==
    ASSUME Known, LinkageNext
    PROVE  ProposeStep \/ AsideStep \/ \E u \in Actor : RowStep(u)
<1>1. ASSUME Lapse \/ DefaultOverdue PROVE RowStep(Scheduler)
  <2>1. Scheduler \in Actor /\ Busy(Scheduler)
    BY <1>1 DEF Lapse, DefaultOverdue, Runs, Busy, Actor
  <2> QED
    BY <1>1, <2>1, HandlerStep
<1> QED
  BY <1>1, StepParts, EndingStep DEF Actor

\* What holds at the start.
LEMMA KnownInit == LinkageInit => Known /\ Judged /\ FourEyes
<1> SUFFICES ASSUME LinkageInit PROVE Known /\ Judged /\ FourEyes
  OBVIOUS
<1> USE DEF LinkageInit
<1>1. NoLinkage \in LinkageRow /\ NoLinkage.status = "ABSENT"
  BY DEF NoLinkage, LinkageRow
<1>2. NoLevel \in ApprovalRow /\ NoLevel.by = NoOne
  BY DEF NoLevel, ApprovalRow
<1>3. NoLinkageRequest \in LinkageRequest /\ NoLinkageRequest.op = "none"
         /\ NoLinkageRequest.level = 0 /\ NoLinkageRequest.left = "unread"
  BY <1>1 DEF NoLinkageRequest, LinkageRequest
<1>4. LinkageTypeOK
  BY <1>1, <1>2, <1>3 DEF LinkageTypeOK
<1>5. Real /\ EmptySlots /\ Judged
  BY <1>1, <1>2, <1>3 DEF Real, EmptySlots, Judged, Busy
<1>6. FourEyes
  BY <1>2 DEF FourEyes
<1> QED
  BY <1>4, <1>5, <1>6 DEF Known

LEMMA ProposeKnown ==
    ASSUME Known, Judged, FourEyes, ProposeStep
    PROVE  Known' /\ Judged' /\ FourEyes'
<1>1. PICK u \in User, l \in Linkage, s \in LinkageSubject, v \in Verdict, terms \in Terms :
         Propose(u, l, s, v, terms)
  BY DEF ProposeStep
<1> DEFINE row == [ status |-> IF v = "PASS" THEN "SCREENED" ELSE "BLOCKED",
                    subject |-> s, initiator |-> u,
                    resolution |-> Term(terms.resolution, FALSE),
                    outstanding |-> Term(terms.outstanding, FALSE) ]
<1>2. /\ link[l] = NoLinkage /\ link' = [link EXCEPT ![l] = row]
      /\ approvals' = [approvals EXCEPT ![l] = BuiltChain]
      /\ phaseFailed' = [phaseFailed EXCEPT ![l] = v = "PHASE"]
      /\ UNCHANGED <<register, flagged, req, night, scenario>>
  BY <1>1 DEF Propose
<1>3. row \in LinkageRow /\ row.status # "ABSENT" /\ row.subject = s /\ row.initiator = u
  BY TermTyped DEF LinkageRow, LinkageStatus
<1> HIDE DEF row
<1>4. NoLinkage.status = "ABSENT"
  BY DEF NoLinkage
<1>5. LinkageTypeOK'
  <2>1. link' \in [Linkage -> LinkageRow]
    BY <1>2, <1>3 DEF Known, LinkageTypeOK
  <2>2. approvals' \in [Linkage -> [Level -> ApprovalRow]]
    BY <1>2, ChainTyped DEF Known, LinkageTypeOK
  <2>3. phaseFailed' \in [Linkage -> BOOLEAN]
    <3>1. (v = "PHASE") \in BOOLEAN
      OBVIOUS
    <3> DEFINE b == v = "PHASE"
    <3> HIDE DEF b
    <3> QED
      BY <1>2, <3>1 DEF Known, LinkageTypeOK, b
  <2> QED
    BY <1>2, <2>1, <2>2, <2>3 DEF Known, LinkageTypeOK
<1>6. \A w \in Actor : Busy(w) => req[w].linkage # l
  BY <1>2, <1>4 DEF Known, Real
<1>7. Real'
  BY <1>2, <1>6 DEF Known, LinkageTypeOK, Real, Busy
<1>8. EmptySlots'
  BY <1>2, <1>3 DEF Known, LinkageTypeOK, EmptySlots, Busy
<1>9. \A w \in Actor : req[w].level # 0 => Busy(w)
  BY DEF Known, EmptySlots, NoLinkageRequest
<1>10. Judged'
  BY <1>2, <1>6, <1>9 DEF Known, LinkageTypeOK, Judged, Deciders
<1>11. FourEyes'
  <2> SUFFICES ASSUME NEW m \in Linkage, NEW k \in Level, (approvals[m][k].by # NoOne)'
               PROVE (/\ approvals[m][k].by # link[m].initiator
                      /\ \A j \in Level \ {k} : approvals[m][j].by # approvals[m][k].by)'
    BY DEF FourEyes
  <2>1. m # l
    BY <1>2, ChainTyped DEF Known, LinkageTypeOK
  <2> QED
    BY <1>2, <2>1 DEF FourEyes, Known, LinkageTypeOK
<1> QED
  BY <1>5, <1>7, <1>8, <1>10, <1>11 DEF Known

LEMMA AsideKnown ==
    ASSUME Known, Judged, FourEyes, AsideStep
    PROVE  Known' /\ Judged' /\ FourEyes'
<1>1. /\ UNCHANGED <<link, approvals, register, phaseFailed, scenario>>
      /\ flagged' \subseteq LinkageSubject
      /\ night' \in [Group -> {"unread", "distressed", "clear"}]
  BY DEF AsideStep
<1>2. FourEyes'
  BY <1>1 DEF FourEyes
<1>3. req \in [Actor -> LinkageRequest] /\ link \in [Linkage -> LinkageRow]
  BY DEF Known, LinkageTypeOK
<1>4. NoLinkageRequest.op = "none" /\ NoLinkageRequest.level = 0
         /\ NoLinkageRequest.left = "unread" /\ NoLinkageRequest \in LinkageRequest
  BY DEF NoLinkageRequest, LinkageRequest, NoLinkage, LinkageRow
<1>5. ASSUME req' \in [Actor -> LinkageRequest], Real', Judged',
             \A u \in Actor : /\ ~Busy(u)' => req'[u] = NoLinkageRequest
                              /\ req'[u].left # "unread" => req'[u].level # 0
      PROVE  Known' /\ Judged' /\ FourEyes'
  <2>1. LinkageTypeOK'
    BY <1>1, <1>5 DEF Known, LinkageTypeOK
  <2>2. EmptySlots'
    BY <1>1, <1>5 DEF Known, EmptySlots
  <2> QED
    BY <1>2, <1>5, <2>1, <2>2 DEF Known
<1>6. CASE UNCHANGED req
  BY <1>1, <1>3, <1>5, <1>6 DEF Known, Real, Judged, Deciders, EmptySlots, Busy
<1>7. ASSUME NEW u \in Actor, NEW op \in UserOps \cup JobOps, NEW l \in Linkage,
             LoadLinkage(u, op, l)
      PROVE  Known' /\ Judged' /\ FourEyes'
  <2> DEFINE new == [NoLinkageRequest EXCEPT !.op = op, !.linkage = l, !.copy = link[l]]
  <2>1. req' = [req EXCEPT ![u] = new] /\ link[l] # NoLinkage
    BY <1>7 DEF LoadLinkage
  <2>2. new \in LinkageRequest /\ new.op # "none" /\ new.linkage = l
           /\ new.copy = link[l] /\ new.level = 0 /\ new.left = "unread"
    BY <1>3, <1>4, <1>7 DEF LinkageRequest, UserOps, JobOps, NoLinkageRequest
  <2>3. link[l].status # "ABSENT" /\ link[l].subject \in LinkageSubject
    BY <2>1 DEF Known, EmptySlots
  <2> HIDE DEF new
  <2>4. req' \in [Actor -> LinkageRequest]
    BY <1>3, <2>1, <2>2
  <2>5. Real'
    BY <1>1, <1>3, <2>1, <2>2, <2>3 DEF Known, Real, Busy
  <2>6. Judged'
    BY <1>1, <1>3, <2>1, <2>2 DEF Judged, Deciders
  <2>7. \A w \in Actor : /\ ~Busy(w)' => req'[w] = NoLinkageRequest
                         /\ req'[w].left # "unread" => req'[w].level # 0
    BY <1>3, <2>1, <2>2 DEF Known, EmptySlots, Busy
  <2> QED
    BY <1>5, <2>4, <2>5, <2>6, <2>7
<1>8. ASSUME NEW u \in Actor, DropRequest(u) PROVE Known' /\ Judged' /\ FourEyes'
  <2>1. req' = [req EXCEPT ![u] = NoLinkageRequest]
    BY <1>8 DEF DropRequest
  <2>2. req' \in [Actor -> LinkageRequest]
    BY <1>3, <1>4, <2>1
  <2>3. Real' /\ Judged'
    BY <1>1, <1>3, <1>4, <2>1 DEF Known, Real, Busy, Judged, Deciders
  <2>4. \A w \in Actor : /\ ~Busy(w)' => req'[w] = NoLinkageRequest
                         /\ req'[w].left # "unread" => req'[w].level # 0
    BY <1>3, <1>4, <2>1 DEF Known, EmptySlots, Busy
  <2> QED
    BY <1>5, <2>2, <2>3, <2>4
<1>9. ASSUME NEW u \in User, NEW k \in Level, Judge(u, k)
      PROVE  Known' /\ Judged' /\ FourEyes'
  <2> DEFINE l == req[u].linkage
             new == [req[u] EXCEPT !.level = k, !.override = OverrideInChain(l)]
  <2>1. u \in Actor /\ req[u].op \in {"approve", "return", "reject"} /\ MayDecide(u, l, k)
    BY <1>9 DEF Judge, Actor
  <2>2. req' = [req EXCEPT ![u] = new]
    BY <1>3, <1>9, <2>1 DEF Judge
  <2>3. new \in LinkageRequest /\ new.op = req[u].op /\ new.linkage = l
           /\ new.copy = req[u].copy /\ new.level = k
    <3>1. OverrideInChain(l) \in BOOLEAN
      BY DEF OverrideInChain
    <3> QED
      BY <1>3, <2>1, <3>1 DEF LinkageRequest
  <2> HIDE DEF new
  <2>4. req' \in [Actor -> LinkageRequest]
    BY <1>3, <2>2, <2>3
  <2>5. Real'
    BY <1>1, <1>3, <2>1, <2>2, <2>3 DEF Known, Real, Busy
  <2>6. Judged'
    BY <1>1, <1>3, <2>1, <2>2, <2>3 DEF Judged, Deciders, MayDecide
  <2>7. k # 0
    BY LevelFacts
  <2>8. \A w \in Actor : /\ ~Busy(w)' => req'[w] = NoLinkageRequest
                         /\ req'[w].left # "unread" => req'[w].level # 0
    BY <1>3, <2>1, <2>2, <2>3, <2>7 DEF Known, EmptySlots, Busy
  <2> QED
    BY <1>5, <2>4, <2>5, <2>6, <2>8
<1>10. ASSUME NEW u \in User, NEW v \in Verdict, Sign(u, v)
       PROVE  Known' /\ Judged' /\ FourEyes'
  <2> DEFINE new == [req[u] EXCEPT !.left = req'[u].left, !.phase = v = "PHASE"]
  <2>1. u \in Actor /\ req[u].op = "approve" /\ req[u].level # 0
    BY <1>10 DEF Sign, Actor
  <2>2. req' = [req EXCEPT ![u] = new] /\ req'[u].left \in {"some", "none"}
    BY <1>3, <1>10, <2>1 DEF Sign, LinkageRequest
  <2>3. new \in LinkageRequest /\ new.op = req[u].op /\ new.linkage = req[u].linkage
           /\ new.copy = req[u].copy /\ new.level = req[u].level
    <3>1. PICK r, x, p : r = req[u] /\ x = req'[u].left /\ p = (v = "PHASE")
      OBVIOUS
    <3>2. r \in LinkageRequest /\ x \in {"some", "none"} /\ p \in BOOLEAN
      BY <1>3, <2>1, <2>2, <3>1
    <3>3. new = [r EXCEPT !.left = x, !.phase = p]
      BY <3>1
    <3> HIDE DEF new
    <3>4. /\ new \in LinkageRequest /\ new.op = r.op /\ new.linkage = r.linkage
          /\ new.copy = r.copy /\ new.level = r.level
      BY <3>2, <3>3 DEF LinkageRequest
    <3> QED
      BY <3>1, <3>4
  <2> HIDE DEF new
  <2>4. req' \in [Actor -> LinkageRequest]
    BY <1>3, <2>2, <2>3
  <2>5. Real'
    BY <1>1, <1>3, <2>1, <2>2, <2>3 DEF Known, Real, Busy
  <2>6. Judged'
    BY <1>1, <1>3, <2>1, <2>2, <2>3 DEF Judged, Deciders
  <2>7. \A w \in Actor : /\ ~Busy(w)' => req'[w] = NoLinkageRequest
                         /\ req'[w].left # "unread" => req'[w].level # 0
    BY <1>3, <2>1, <2>2, <2>3 DEF Known, EmptySlots, Busy
  <2> QED
    BY <1>5, <2>4, <2>5, <2>6, <2>7
<1> QED
  BY <1>6, <1>7, <1>8, <1>9, <1>10 DEF AsideStep

LEMMA RowKnown ==
    ASSUME Known, Judged, FourEyes, NEW u \in Actor, RowStep(u)
    PROVE  Known' /\ Judged' /\ FourEyes'
<1> DEFINE l == req[u].linkage
<1>1. PICK row \in LinkageRow :
         /\ link' = [link EXCEPT ![l] = row]
         /\ row.status # "ABSENT"
         /\ row.subject \in LinkageSubject /\ row.initiator = link[l].initiator
  BY DEF RowStep
<1>2. /\ Busy(u) /\ l \in Linkage /\ link[l].status # "ABSENT"
      /\ req' = [req EXCEPT ![u] = NoLinkageRequest]
      /\ UNCHANGED <<night, scenario>>
  BY DEF RowStep, Known, Real
<1>3. /\ req \in [Actor -> LinkageRequest] /\ link \in [Linkage -> LinkageRow]
      /\ approvals \in [Linkage -> [Level -> ApprovalRow]]
  BY DEF Known, LinkageTypeOK
<1>4. NoLinkageRequest.op = "none" /\ NoLinkageRequest.level = 0
         /\ NoLinkageRequest.left = "unread" /\ NoLinkageRequest \in LinkageRequest
  BY DEF NoLinkageRequest, LinkageRequest, NoLinkage, LinkageRow
<1>5. /\ approvals' \in [Linkage -> [Level -> ApprovalRow]]
      /\ \A m \in Linkage \ {l} : approvals'[m] = approvals[m]
      /\ \/ \A k \in Level : approvals'[l][k].by = approvals[l][k].by
         \/ \E j \in Level :
               /\ u \in User /\ u # link[l].initiator /\ u \notin Deciders(l)
               /\ approvals'[l][j].by = u
               /\ \A k \in Level \ {j} : approvals'[l][k].by = approvals[l][k].by
  <2>1. CASE UNCHANGED approvals
    BY <1>3, <2>1
  <2>2. CASE approvals' = [approvals EXCEPT ![l] = Escalated(approvals[l])]
    BY <1>2, <1>3, <2>2, ChainTyped
  <2>3. CASE req[u].level # 0 /\ \E d \in {"APPROVED", "RETURNED"} : Decided(u, d)
    <3>1. PICK d \in {"APPROVED", "RETURNED"} : Decided(u, d)
      BY <2>3
    <3> DEFINE j == req[u].level
               new == [[approvals[l][j] EXCEPT !.by = u] EXCEPT !.decision = d]
    <3>2. j \in Level /\ u \in User /\ u # link[l].initiator /\ u \notin Deciders(l)
      BY <1>3, <2>3 DEF LinkageRequest, Judged
    <3>3. approvals' = [approvals EXCEPT ![l] = [approvals[l] EXCEPT ![j] = new]]
      BY <1>2, <1>3, <3>1, <3>2 DEF Decided
    <3>4. new \in ApprovalRow /\ new.by = u
      <4>1. approvals[l][j] \in ApprovalRow
        BY <1>2, <1>3, <3>2
      <4>2. [approvals[l][j] EXCEPT !.by = u] \in ApprovalRow
        BY <3>2, <4>1 DEF ApprovalRow
      <4> QED
        BY <3>1, <3>2, <4>1, <4>2 DEF ApprovalRow
    <3> HIDE DEF new
    <3> QED
      BY <1>2, <1>3, <3>2, <3>3, <3>4
  <2> QED
    BY <2>1, <2>2, <2>3 DEF RowStep
<1>6. LinkageTypeOK'
  <2>1. link' \in [Linkage -> LinkageRow] /\ req' \in [Actor -> LinkageRequest]
    BY <1>1, <1>2, <1>3, <1>4
  <2> QED
    BY <1>2, <1>5, <2>1 DEF RowStep, Known, LinkageTypeOK
<1>7. \A m \in Linkage :
         /\ link'[m].initiator = link[m].initiator
         /\ m # l => link'[m] = link[m]
         /\ link[m].status # "ABSENT" => link'[m].status # "ABSENT"
  BY <1>1, <1>2, <1>3
<1>8. \A w \in Actor : w # u => req'[w] = req[w]
  BY <1>2, <1>3
<1>9. req'[u] = NoLinkageRequest
  BY <1>2, <1>3
<1>10. Real'
  BY <1>4, <1>7, <1>8, <1>9 DEF Known, Real, Busy
<1>11. EmptySlots'
  BY <1>2, <1>4, <1>5, <1>7, <1>8, <1>9, <1>1, <1>3 DEF Known, EmptySlots, Busy
<1>12. Judged'
  <2> SUFFICES ASSUME NEW w \in Actor, (req[w].level # 0)'
               PROVE (/\ w \in User /\ w # link[req[w].linkage].initiator
                      /\ w \notin Deciders(req[w].linkage))'
    BY DEF Judged
  <2>1. w # u /\ req'[w] = req[w]
    BY <1>4, <1>8, <1>9
  <2>2. Busy(w) /\ req[w].linkage \in Linkage
    BY <2>1 DEF Known, EmptySlots, Real, NoLinkageRequest
  <2>3. w \in User /\ w # link[req[w].linkage].initiator /\ w \notin Deciders(req[w].linkage)
    BY <2>1 DEF Judged
  <2>4. \A k \in Level : approvals'[req[w].linkage][k].by # w
    BY <1>5, <2>1, <2>2, <2>3, LinkageAssumption DEF Deciders, Actor
  <2> QED
    BY <1>7, <2>1, <2>2, <2>3, <2>4, LinkageAssumption DEF Deciders, Actor
<1>13. FourEyes'
  <2> SUFFICES ASSUME NEW m \in Linkage, NEW k \in Level, approvals'[m][k].by # NoOne
               PROVE /\ approvals'[m][k].by # link'[m].initiator
                     /\ \A j \in Level \ {k} : approvals'[m][j].by # approvals'[m][k].by
    BY DEF FourEyes
  <2>1. CASE m # l
    BY <1>5, <1>7, <2>1 DEF FourEyes
  <2>2. CASE m = l
    <3>1. \A j \in Level : u \notin Deciders(l) /\ u \in User => approvals[l][j].by # u
      BY LinkageAssumption DEF Deciders, Actor
    <3> QED
      BY <1>2, <1>5, <1>7, <2>2, <3>1 DEF FourEyes
  <2> QED
    BY <2>1, <2>2
<1> QED
  BY <1>6, <1>10, <1>11, <1>12, <1>13 DEF Known

LEMMA StutterKnown ==
    ASSUME Known, Judged, FourEyes, UNCHANGED linkageVars
    PROVE  Known' /\ Judged' /\ FourEyes'
<1> USE DEF linkageVars
<1>1. LinkageTypeOK'
  BY DEF Known, LinkageTypeOK
<1>2. Real' /\ EmptySlots'
  BY DEF Known, Real, EmptySlots, Busy
<1> QED
  BY <1>1, <1>2 DEF Known, Judged, Deciders, FourEyes

\* Rows, levels and requests are well formed, and what a request in the middle
\* of a decision knows of its person stays true.
LEMMA KnownAlways == LinkageSpec => [](Known /\ Judged /\ FourEyes)
<1>1. Known /\ Judged /\ FourEyes /\ [LinkageNext]_linkageVars
         => Known' /\ Judged' /\ FourEyes'
  BY StepKinds, ProposeKnown, AsideKnown, RowKnown, StutterKnown
<1> QED
  BY <1>1, KnownInit, PTL DEF LinkageSpec

\* Linkages, levels, registers and requests keep their types.
THEOREM LinkageTypes == LinkageSpec => []LinkageTypeOK
BY KnownAlways, PTL DEF Known

\* Whatever requests overlap, nobody decides two levels of a linkage or a
\* linkage of her own proposal.
THEOREM LinkageFourEyes == LinkageSpec => []FourEyes
BY KnownAlways, PTL

-----------------------------------------------------------------------------
(* Approval.  A level of the type is there from the proposal on, and once    *)
(* decided stays decided.  So what matters is that a linkage, and any copy   *)
(* of it that a request may yet save, is approved only when they have been.  *)

\* With room for one request, a request begins when there is none.
LEMMA RoomForOne ==
    ASSUME Known, scenario.inFlight = 1, NEW u \in Actor, NEW op, NEW l \in Linkage,
           LoadLinkage(u, op, l)
    PROVE  \A v \in Actor : ~Busy(v)
<1>1. IsFiniteSet(InFlight)
  <2>1. IsFiniteSet(Actor)
    BY LinkageAssumption, FS_Union, FS_Singleton DEF Actor
  <2> QED
    BY <2>1, FS_Subset DEF InFlight
<1>2. Cardinality(InFlight) = 0
  BY <1>1, FS_CardinalityType DEF LoadLinkage
<1>3. InFlight = {}
  BY <1>1, <1>2, FS_EmptySet
<1> QED
  BY <1>3 DEF InFlight, Busy, NoLinkageRequest

\* With room for one request, no two are on their way.
Alone == scenario.inFlight = 1 => \A u, v \in Actor : Busy(u) /\ Busy(v) => u = v

Settled ==
    /\ ApprovedWhenDecided
    /\ \A u \in Actor : Busy(u) /\ req[u].copy.status \in Approved =>
          \A k \in Level : LevelDecided(req[u].linkage, k)
    /\ \A u \in Actor : req[u].left = "none" =>
          \A k \in Level \ {req[u].level} : LevelDecided(req[u].linkage, k)

\* The conditions are the scenario's, which no step changes.
LEMMA ScenarioKept ==
    ASSUME Known, LinkageNext
    PROVE  scenario' = scenario
<1>1. ProposeStep => scenario' = scenario
  BY DEF ProposeStep, Propose
<1> QED
  BY <1>1, StepKinds DEF AsideStep, RowStep

\* To judge and to sign leave what a request has loaded.
LEMMA TouchedOnce ==
    ASSUME Known, NEW u \in User,
           (\E k \in Level : Judge(u, k)) \/ (\E v \in Verdict : Sign(u, v))
    PROVE  /\ UNCHANGED <<link, register>> /\ u \in Actor
           /\ \A v \in Actor : /\ req'[v].op = req[v].op
                                /\ req'[v].copy = req[v].copy
                                /\ req'[v].linkage = req[v].linkage
<1>1. req \in [Actor -> LinkageRequest] /\ u \in Actor
  BY DEF Known, LinkageTypeOK, Actor
<1>2. req[u] \in LinkageRequest
  BY <1>1
<1>3. ASSUME NEW k \in Level, Judge(u, k)
      PROVE  /\ UNCHANGED <<link, register>>
             /\ \A v \in Actor : /\ req'[v].op = req[v].op
                                  /\ req'[v].copy = req[v].copy
                                  /\ req'[v].linkage = req[v].linkage
  <2>1. UNCHANGED <<link, register>>
    BY <1>3 DEF Judge
  <2>2. req' = [req EXCEPT ![u] =
              [req[u] EXCEPT !.level = k, !.override = OverrideInChain(req[u].linkage)]]
    BY <1>1, <1>3 DEF Judge
  <2> DEFINE new == [req[u] EXCEPT !.level = k, !.override = OverrideInChain(req[u].linkage)]
  <2>3. new.op = req[u].op /\ new.copy = req[u].copy /\ new.linkage = req[u].linkage
    BY <1>2 DEF LinkageRequest
  <2>4. \A v \in Actor : req'[v] = IF v = u THEN new ELSE req[v]
    BY <1>1, <2>2
  <2> QED
    BY <2>1, <2>3, <2>4
<1>4. ASSUME NEW v \in Verdict, Sign(u, v)
      PROVE  /\ UNCHANGED <<link, register>>
             /\ \A w \in Actor : /\ req'[w].op = req[w].op
                                  /\ req'[w].copy = req[w].copy
                                  /\ req'[w].linkage = req[w].linkage
  <2>1. UNCHANGED <<link, register>>
    BY <1>4 DEF Sign
  <2> DEFINE left == IF LastLevel(req[u].linkage, req[u].level) THEN "none" ELSE "some"
             new == [req[u] EXCEPT !.left = left, !.phase = v = "PHASE"]
  <2>2. req' = [req EXCEPT ![u] = new]
    BY <1>1, <1>4 DEF Sign
  <2>3. new.op = req[u].op /\ new.copy = req[u].copy /\ new.linkage = req[u].linkage
    BY <1>2 DEF LinkageRequest
  <2>4. \A w \in Actor : req'[w] = IF w = u THEN new ELSE req[w]
    <3> HIDE DEF new
    <3> QED
      BY <1>1, <2>2
  <2> QED
    BY <2>1, <2>3, <2>4
<1> QED
  BY <1>1, <1>3, <1>4

LEMMA AloneKept ==
    ASSUME Known, Alone, LinkageNext
    PROVE  Alone'
<1> SUFFICES ASSUME scenario.inFlight = 1
             PROVE  (\A u, v \in Actor : Busy(u) /\ Busy(v) => u = v)'
  BY ScenarioKept DEF Alone
<1>1. /\ \A u, v \in Actor : Busy(u) /\ Busy(v) => u = v
      /\ req \in [Actor -> LinkageRequest]
  BY DEF Alone, Known, LinkageTypeOK
<1>2. ASSUME \A v \in Actor : Busy(v)' => Busy(v)
      PROVE  (\A u, v \in Actor : Busy(u) /\ Busy(v) => u = v)'
  BY <1>1, <1>2
<1>3. CASE ProposeStep
  BY <1>2, <1>3 DEF ProposeStep, Propose, Busy
<1>4. ASSUME NEW u \in Actor, NEW op, NEW l \in Linkage, LoadLinkage(u, op, l)
      PROVE  (\A w, v \in Actor : Busy(w) /\ Busy(v) => w = v)'
  <2>1. \A v \in Actor : ~Busy(v)
    BY <1>4, RoomForOne
  <2>2. \A v \in Actor : v # u => req'[v] = req[v]
    BY <1>1, <1>4 DEF LoadLinkage
  <2> QED
    BY <2>1, <2>2 DEF Busy
<1>5. ASSUME NEW u \in Actor, DropRequest(u) \/ RowStep(u)
      PROVE  \A v \in Actor : Busy(v)' => Busy(v)
  <2>1. req' = [req EXCEPT ![u] = NoLinkageRequest]
    BY <1>5 DEF DropRequest, RowStep
  <2> QED
    BY <1>1, <2>1 DEF Busy, NoLinkageRequest
<1>6. ASSUME NEW u \in User,
             (\E k \in Level : Judge(u, k)) \/ (\E v \in Verdict : Sign(u, v))
      PROVE  \A v \in Actor : Busy(v)' => Busy(v)
  <2>1. \A v \in Actor : req'[v].op = req[v].op
    BY <1>6, TouchedOnce
  <2> QED
    BY <2>1 DEF Busy
<1>7. CASE AsideStep
  BY <1>2, <1>4, <1>5, <1>6, <1>7 DEF AsideStep, Busy
<1> QED
  BY <1>2, <1>3, <1>5, <1>7, StepKinds

\* A level written, or left alone, is no less decided.  A level that an
\* override adds counts only where one request runs at a time.
LEMMA LevelsKept ==
    ASSUME Known, NEW u \in Actor, RowStep(u),
           scenario.inFlight # 1 \/ approvals' # [approvals EXCEPT ![req[u].linkage] = Escalated(approvals[req[u].linkage])]
    PROVE  \A m \in Linkage : \A k \in Level : LevelDecided(m, k) => LevelDecided(m, k)'
<1> DEFINE l == req[u].linkage
<1>1. /\ approvals \in [Linkage -> [Level -> ApprovalRow]] /\ scenario' = scenario
      /\ l \in Linkage /\ req[u].level \in Level \cup {0}
  BY DEF Known, LinkageTypeOK, Real, RowStep, LinkageRequest
<1>2. CASE UNCHANGED approvals
  BY <1>1, <1>2 DEF LevelDecided
<1>3. CASE approvals' = [approvals EXCEPT ![l] = Escalated(approvals[l])]
  <2>1. scenario.inFlight # 1
    BY <1>3
  <2>2. \A k \in Level : k <= Len(Chain) => Escalated(approvals[l])[k] = approvals[l][k]
    <3>1. Len(Chain) \in Nat
      BY LinkageAssumption
    <3> QED
      BY <1>1, <3>1, LevelFacts DEF Escalated
  <2> QED
    BY <1>1, <1>3, <2>1, <2>2 DEF LevelDecided
<1>4. CASE req[u].level # 0 /\ \E d \in {"APPROVED", "RETURNED"} : Decided(u, d)
  <2> DEFINE j == req[u].level
  <2>1. PICK d \in {"APPROVED", "RETURNED"} : Decided(u, d)
    BY <1>4
  <2>2. j \in Level
    BY <1>1, <1>4
  <2>3. approvals'[l][j].decision = d
    <3>1. approvals[l][j] \in ApprovalRow
      BY <1>1, <2>2
    <3> QED
      BY <1>1, <2>1, <2>2, <3>1 DEF Decided, ApprovalRow
  <2>4. \A m \in Linkage : \A k \in Level : m # l \/ k # j => approvals'[m][k] = approvals[m][k]
    BY <1>1, <2>1, <2>2 DEF Decided
  <2> QED
    BY <1>1, <2>1, <2>3, <2>4 DEF LevelDecided
<1> QED
  BY <1>2, <1>3, <1>4 DEF RowStep

\* A request that ends settles no more than its own linkage.
LEMMA RowSettled ==
    ASSUME Known, Alone, Settled, NEW u \in Actor, RowStep(u),
           NEW l \in Linkage, l = req[u].linkage,
           \A k \in Level : link'[l].status \in Approved => LevelDecided(l, k)'
    PROVE  Settled'
<1>1. /\ l \in Linkage /\ Busy(u) /\ scenario' = scenario
      /\ \A m \in Linkage : m # l => link'[m] = link[m]
      /\ req \in [Actor -> LinkageRequest] /\ req' = [req EXCEPT ![u] = NoLinkageRequest]
  BY DEF RowStep, Known, Real, LinkageTypeOK
<1>2. NoLinkageRequest.op = "none" /\ NoLinkageRequest.left = "unread"
  BY DEF NoLinkageRequest
<1>3. \A v \in Actor : req[v].left = "none" => Busy(v)
  BY <1>2 DEF Known, EmptySlots
<1>4. \A v \in Actor : Busy(v)' => v # u /\ Busy(v) /\ req'[v] = req[v]
  BY <1>1, <1>2 DEF Busy
<1>5. \A v \in Actor : req'[v].left = "none" => v # u /\ Busy(v) /\ req'[v] = req[v]
  BY <1>1, <1>2, <1>3
<1>6. CASE \A m \in Linkage : \A k \in Level : LevelDecided(m, k) => LevelDecided(m, k)'
  <2>1. ApprovedWhenDecided'
    BY <1>1, <1>6 DEF Settled, ApprovedWhenDecided
  <2>2. ASSUME NEW v \in Actor, Busy(v)', (req[v].copy.status \in Approved)', NEW k \in Level
        PROVE  LevelDecided(req[v].linkage, k)'
    <3>1. Busy(v) /\ req'[v] = req[v] /\ req[v].linkage \in Linkage
      BY <1>4, <2>2 DEF Known, Real
    <3>2. LevelDecided(req[v].linkage, k)
      BY <2>2, <3>1 DEF Settled
    <3> QED
      BY <1>6, <3>1, <3>2 DEF LevelDecided
  <2>3. ASSUME NEW v \in Actor, (req[v].left = "none")', NEW k \in Level, (k # req[v].level)'
        PROVE  LevelDecided(req[v].linkage, k)'
    <3>1. Busy(v) /\ req'[v] = req[v] /\ req[v].linkage \in Linkage
      BY <1>5, <2>3 DEF Known, Real
    <3>2. LevelDecided(req[v].linkage, k)
      BY <2>3, <3>1 DEF Settled
    <3> QED
      BY <1>6, <3>1, <3>2 DEF LevelDecided
  <2> QED
    BY <2>1, <2>2, <2>3 DEF Settled
<1>7. CASE ~\A m \in Linkage : \A k \in Level : LevelDecided(m, k) => LevelDecided(m, k)'
  <2>1. /\ scenario.inFlight = 1
        /\ approvals' = [approvals EXCEPT ![l] = Escalated(approvals[l])]
    BY <1>7, LevelsKept
  <2>2. \A v \in Actor : ~Busy(v)' /\ req'[v].left # "none"
    BY <1>1, <1>4, <1>5, <2>1 DEF Alone
  <2>3. \A m \in Linkage : m # l => approvals'[m] = approvals[m]
    BY <1>1, <2>1 DEF Known, LinkageTypeOK
  <2>4. ApprovedWhenDecided'
    BY <1>1, <2>3 DEF Settled, ApprovedWhenDecided, LevelDecided
  <2> QED
    BY <2>2, <2>4 DEF Settled
<1> QED
  BY <1>6, <1>7

\* A transition that is no approval leads to an approved state only from one.
LEMMA NoApproval ==
    ASSUME Known, Settled, NEW u \in Actor, Busy(u), NEW to, to # "APPROVED",
           NEW l \in Linkage, l = req[u].linkage,
           Transition(u, to), UNCHANGED <<approvals, scenario>>, NEW k \in Level,
           link'[l].status \in Approved
    PROVE  LevelDecided(l, k)'
<1>1. /\ link \in [Linkage -> LinkageRow]
      /\ req[u].copy \in LinkageRow
  BY DEF Known, Real, LinkageTypeOK, LinkageRequest
<1>2. link'[l].status = to
  BY <1>1 DEF Transition, Moved, LinkageRow
<1>3. req[u].copy.status \in LinkageStatus
  BY DEF Known, Real, LinkageTypeOK, LinkageRequest, LinkageRow
<1>4. req[u].copy.status \in Approved
  BY <1>2, <1>3 DEF Transition, CanTransition, LINKAGE_TRANSITIONS, LinkageStatus, Approved, OpenStatus
<1>5. LevelDecided(l, k)
  BY <1>4 DEF Settled
<1> QED
  BY <1>5 DEF LevelDecided

\* A save that keeps the row's status, or the copy's, approves nothing new.
LEMMA StatusBrought ==
    ASSUME Known, Settled, NEW u \in Actor, Busy(u), UNCHANGED <<approvals, scenario>>,
           NEW l \in Linkage, l = req[u].linkage,
           link'[l].status \in Approved
               => \/ link[l].status \in Approved
                  \/ req[u].copy.status \in Approved,
           NEW k \in Level, link'[l].status \in Approved
    PROVE  LevelDecided(l, k)'
<1>1. LevelDecided(l, k)
  BY DEF Settled, ApprovedWhenDecided
<1> QED
  BY <1>1 DEF LevelDecided

\* What ends a request leaves its linkage approved only if it is decided.
LEMMA HandlerSettles ==
    ASSUME Known, Settled, NEW u \in Actor, Busy(u), RowStep(u), NEW k \in Level,
           NEW l \in Linkage, l = req[u].linkage,
           link'[l].status \in Approved
    PROVE  /\ \A v \in Verdict : Screen(u, v) \/ ApproveBlocked(u, v)
                 => LevelDecided(l, k)'
           /\ RecordResolution(u) \/ Submit(u) \/ SubmitOverride(u)
                 => LevelDecided(l, k)'
           /\ Approve(u) \/ ReturnForRevision(u) \/ Reject(u) => LevelDecided(l, k)'
           /\ \A terms \in Terms : Activate(u, terms) => LevelDecided(l, k)'
           /\ \A terms \in Terms, s \in LinkageSubject :
                 Edit(u, s, terms) => LevelDecided(l, k)'
           /\ \A ref \in Reference, m, o \in BOOLEAN :
                 RecordObligation(u, ref, m, o) => LevelDecided(l, k)'
           /\ \A ref, to \in Reference :
                 SettleObligation(u, ref) \/ TransferObligation(u, ref, to)
                    => LevelDecided(l, k)'
           /\ Cure(u) \/ Close(u) => LevelDecided(l, k)'
           /\ u = Scheduler => (Lapse \/ DefaultOverdue => LevelDecided(l, k)')
<1> DEFINE copy == req[u].copy
<1>1. /\ link \in [Linkage -> LinkageRow] /\ copy \in LinkageRow
      /\ approvals \in [Linkage -> [Level -> ApprovalRow]] /\ scenario' = scenario
      /\ copy.resolution \in BOOLEAN /\ copy.outstanding \in BOOLEAN
  BY DEF Known, Real, LinkageTypeOK, LinkageRequest, LinkageRow, RowStep
<1>2. ASSUME NEW to, to # "APPROVED", Transition(u, to), UNCHANGED approvals
      PROVE  LevelDecided(l, k)'
  BY <1>1, <1>2, NoApproval
<1>3. ASSUME NEW r \in BOOLEAN, NEW o \in BOOLEAN, TermsSaved(u, r, o), UNCHANGED approvals
      PROVE  LevelDecided(l, k)'
  BY <1>1, <1>3, TermsSavedRow, StatusBrought
<1>4. ASSUME NEW v \in Verdict, Screen(u, v) \/ ApproveBlocked(u, v) PROVE LevelDecided(l, k)'
  BY <1>2, <1>4 DEF Screen, ApproveBlocked
<1>5. CASE RecordResolution(u)
  BY <1>1, <1>3, <1>5 DEF RecordResolution
<1>6. ASSUME Submit(u) \/ SubmitOverride(u) PROVE LevelDecided(l, k)'
  <2>1. PICK levels \in {approvals[l], Escalated(approvals[l])} :
           /\ link' = [link EXCEPT ![l] = Moved(copy, Submitted(levels))]
           /\ approvals' = [approvals EXCEPT ![l] = levels]
    BY <1>1, <1>6 DEF Submit, SubmitOverride
  <2>2. link'[l].status = Submitted(levels)
    BY <1>1, <2>1 DEF Moved, LinkageRow
  <2>3. levels[k].role = NoOne
    BY <2>2 DEF Submitted, Approved, OpenStatus
  <2> QED
    BY <1>1, <2>1, <2>3 DEF LevelDecided
<1>7. CASE Approve(u)
  <2> DEFINE j == req[u].level
  <2>1. Decided(u, "APPROVED") /\ j \in Level
    BY <1>7 DEF Approve, Known, EmptySlots, LinkageTypeOK, LinkageRequest
  <2>2. approvals'[l][j].decision = "APPROVED"
           /\ \A i \in Level : i # j => approvals'[l][i] = approvals[l][i]
    <3>1. approvals[l][j] \in ApprovalRow
      BY <1>1, <2>1
    <3> QED
      BY <1>1, <2>1, <3>1 DEF Decided, ApprovalRow
  <2>3. CASE k = j
    BY <2>2, <2>3 DEF LevelDecided
  <2>4. CASE k # j /\ req[u].left = "none"
    <3>1. LevelDecided(l, k)
      BY <2>4 DEF Settled
    <3> QED
      BY <1>1, <2>2, <2>4, <3>1 DEF LevelDecided
  <2>5. CASE k # j /\ req[u].left # "none"
    <3>1. link' = link
      BY <1>7, <2>5 DEF Approve
    <3>2. LevelDecided(l, k)
      BY <1>1, <3>1 DEF Settled, ApprovedWhenDecided
    <3> QED
      BY <1>1, <2>2, <2>5, <3>2 DEF LevelDecided
  <2> QED
    BY <2>3, <2>4, <2>5
<1>8. CASE ReturnForRevision(u)
  <2>1. link'[l].status = "RETURNED"
    BY <1>1, <1>8 DEF ReturnForRevision, Transition, Moved, LinkageRow
  <2> QED
    BY <2>1 DEF Approved, OpenStatus
<1>9. CASE Reject(u)
  BY <1>2, <1>9 DEF Reject
<1>10. ASSUME NEW terms \in Terms, Activate(u, terms) PROVE LevelDecided(l, k)'
  <2>1. copy.status \in Approved
    <3>1. copy.status \in LinkageStatus
      BY DEF Known, Real, LinkageTypeOK, LinkageRequest, LinkageRow
    <3> QED
      BY <1>10, <3>1
         DEF Activate, CanTransition, LINKAGE_TRANSITIONS, LinkageStatus, Approved, OpenStatus
  <2>2. UNCHANGED approvals
    BY <1>10 DEF Activate
  <2> QED
    BY <1>1, <2>1, <2>2, StatusBrought
<1>11. ASSUME NEW terms \in Terms, NEW s \in LinkageSubject, Edit(u, s, terms)
       PROVE  LevelDecided(l, k)'
  <2> DEFINE moved == [copy EXCEPT !.subject = s]
             row == [moved EXCEPT !.resolution = Term(terms.resolution, FALSE),
                                  !.outstanding = Term(terms.outstanding, FALSE)]
  <2>1. moved.status = copy.status /\ row.status = copy.status
    BY <1>1 DEF LinkageRow
  <2>2. link' = [link EXCEPT ![l] = moved] \/ link' = [link EXCEPT ![l] = row]
    BY <1>11 DEF Edit
  <2>3. UNCHANGED approvals
    BY <1>11 DEF Edit
  <2> HIDE DEF moved, row
  <2>4. link'[l].status = copy.status
    BY <1>1, <2>1, <2>2
  <2> QED
    BY <1>1, <2>3, <2>4, StatusBrought
<1>12. ASSUME NEW ref \in Reference, NEW m \in BOOLEAN, NEW o \in BOOLEAN,
              RecordObligation(u, ref, m, o)
       PROVE  LevelDecided(l, k)'
  <2>1. CASE m /\ copy.status = "ACTIVE"
    <3>1. copy.status \in Approved /\ UNCHANGED approvals
      BY <1>12, <2>1 DEF RecordObligation, Approved, OpenStatus
    <3> QED
      BY <1>1, <3>1, StatusBrought
  <2>2. CASE ~(m /\ copy.status = "ACTIVE")
    BY <1>1, <1>3, <1>12, <2>2 DEF RecordObligation
  <2> QED
    BY <2>1, <2>2
<1>13. ASSUME NEW ref \in Reference, NEW to \in Reference,
              SettleObligation(u, ref) \/ TransferObligation(u, ref, to)
       PROVE  LevelDecided(l, k)'
  <2>1. ExposureAfter(register[l], ref) \in BOOLEAN
    BY DEF ExposureAfter, SomeOpen
  <2> QED
    BY <1>1, <1>3, <1>13, <2>1 DEF SettleObligation, TransferObligation
<1>14. Cure(u) \/ Close(u) => LevelDecided(l, k)'
  BY <1>2 DEF Cure, Close
<1>15. ASSUME u = Scheduler, Lapse \/ DefaultOverdue PROVE LevelDecided(l, k)'
  BY <1>2, <1>15 DEF Lapse, DefaultOverdue
<1> QED
  BY <1>4, <1>5, <1>6, <1>7, <1>8, <1>9, <1>10, <1>11, <1>12, <1>13, <1>14, <1>15

\* Requests that begin bring a copy of the row; one that signs has looked.
LEMMA AsideSettled ==
    ASSUME Known, Settled, AsideStep
    PROVE  Settled'
<1>1. /\ UNCHANGED <<link, approvals, scenario>>
      /\ link \in [Linkage -> LinkageRow] /\ req \in [Actor -> LinkageRequest]
  BY DEF AsideStep, Known, LinkageTypeOK
<1>2. \A l \in Linkage : \A k \in Level : LevelDecided(l, k)' <=> LevelDecided(l, k)
  BY <1>1 DEF LevelDecided
<1>3. ApprovedWhenDecided'
  BY <1>1, <1>2 DEF Settled, ApprovedWhenDecided
<1>4. NoLinkageRequest.op = "none" /\ NoLinkageRequest.left = "unread"
  BY DEF NoLinkageRequest
<1>5. \A v \in Actor : Busy(v) => req[v].linkage \in Linkage
  BY DEF Known, Real
<1>6. \A v \in Actor : req[v].left = "none" => Busy(v)
  BY <1>4 DEF Known, EmptySlots
<1>7. ASSUME NEW u \in Actor,
             \A v \in Actor : v # u => req'[v] = req[v],
             Busy(u)' => /\ req'[u].linkage \in Linkage
                         /\ req'[u].copy.status \in Approved =>
                               \A k \in Level : LevelDecided(req'[u].linkage, k),
             req'[u].left = "none" =>
                 /\ req'[u].linkage \in Linkage
                 /\ \A k \in Level \ {req'[u].level} : LevelDecided(req'[u].linkage, k)
      PROVE  Settled'
  <2>1. ASSUME NEW v \in Actor, Busy(v)', (req[v].copy.status \in Approved)', NEW k \in Level
        PROVE  LevelDecided(req[v].linkage, k)'
    <3>1. LevelDecided(req'[v].linkage, k) /\ req'[v].linkage \in Linkage
      BY <1>5, <1>7, <2>1 DEF Settled, Busy
    <3> QED
      BY <1>1, <3>1 DEF LevelDecided
  <2>2. ASSUME NEW v \in Actor, (req[v].left = "none")', NEW k \in Level, (k # req[v].level)'
        PROVE  LevelDecided(req[v].linkage, k)'
    <3>1. LevelDecided(req'[v].linkage, k) /\ req'[v].linkage \in Linkage
      BY <1>5, <1>6, <1>7, <2>2 DEF Settled
    <3> QED
      BY <1>1, <3>1 DEF LevelDecided
  <2> QED
    BY <1>3, <2>1, <2>2 DEF Settled
<1>8. CASE UNCHANGED req
  <2>1. ASSUME NEW v \in Actor, Busy(v)', (req[v].copy.status \in Approved)', NEW k \in Level
        PROVE  LevelDecided(req[v].linkage, k)'
    BY <1>1, <1>8, <2>1 DEF Settled, Busy, LevelDecided
  <2>2. ASSUME NEW v \in Actor, (req[v].left = "none")', NEW k \in Level, (k # req[v].level)'
        PROVE  LevelDecided(req[v].linkage, k)'
    BY <1>1, <1>8, <2>2 DEF Settled, LevelDecided
  <2> QED
    BY <1>3, <2>1, <2>2 DEF Settled
<1>9. ASSUME NEW u \in Actor, NEW op, NEW l \in Linkage, LoadLinkage(u, op, l) PROVE Settled'
  <2>1. req'[u].linkage = l /\ req'[u].copy = link[l] /\ req'[u].left = "unread"
    BY <1>1, <1>9 DEF LoadLinkage, NoLinkageRequest
  <2>2. link[l].status \in Approved => \A k \in Level : LevelDecided(l, k)
    BY DEF Settled, ApprovedWhenDecided
  <2>3. \A v \in Actor : v # u => req'[v] = req[v]
    BY <1>1, <1>9 DEF LoadLinkage
  <2> QED
    BY <1>7, <2>1, <2>2, <2>3
<1>10. ASSUME NEW u \in Actor, DropRequest(u) PROVE Settled'
  <2>1. req'[u] = NoLinkageRequest /\ \A v \in Actor : v # u => req'[v] = req[v]
    BY <1>1, <1>10 DEF DropRequest
  <2> QED
    BY <1>4, <1>7, <2>1 DEF Busy
<1>11. ASSUME NEW u \in User, NEW k \in Level, Judge(u, k) PROVE Settled'
  <2>1. /\ u \in Actor /\ req[u].level = 0 /\ Busy(u)
        /\ \A v \in Actor : v # u => req'[v] = req[v]
        /\ req'[u].linkage = req[u].linkage /\ req'[u].copy = req[u].copy
        /\ req'[u].left = req[u].left
    BY <1>1, <1>11 DEF Judge, Actor, Busy, LinkageRequest
  <2>2. req[u].left # "none"
    BY <2>1 DEF Known, EmptySlots
  <2> QED
    BY <1>5, <1>7, <2>1, <2>2 DEF Settled
<1>12. ASSUME NEW u \in User, NEW v \in Verdict, Sign(u, v) PROVE Settled'
  <2> DEFINE l == req[u].linkage
  <2>1. /\ u \in Actor /\ Busy(u)
        /\ \A w \in Actor : w # u => req'[w] = req[w]
        /\ req'[u].linkage = l /\ req'[u].copy = req[u].copy
        /\ req'[u].level = req[u].level
        /\ req'[u].left = "none" => LastLevel(l, req[u].level)
    BY <1>1, <1>12 DEF Sign, Actor, Busy, LinkageRequest
  <2>2. LastLevel(l, req[u].level) => \A k \in Level \ {req[u].level} : LevelDecided(l, k)
    BY DEF LastLevel, Pending, LevelDecided
  <2> QED
    BY <1>5, <1>7, <2>1, <2>2 DEF Settled
<1> QED
  BY <1>8, <1>9, <1>10, <1>11, <1>12 DEF AsideStep

LEMMA ProposeSettled ==
    ASSUME Known, Settled, ProposeStep
    PROVE  Settled'
<1>1. PICK u \in User, l \in Linkage, s \in LinkageSubject, v \in Verdict, terms \in Terms :
         Propose(u, l, s, v, terms)
  BY DEF ProposeStep
<1>2. /\ link[l] = NoLinkage /\ UNCHANGED <<req, scenario>>
      /\ link \in [Linkage -> LinkageRow] /\ approvals \in [Linkage -> [Level -> ApprovalRow]]
      /\ \A m \in Linkage : m # l => link'[m] = link[m] /\ approvals'[m] = approvals[m]
      /\ link'[l].status \in {"SCREENED", "BLOCKED"}
  BY <1>1 DEF Propose, Known, LinkageTypeOK
<1>3. \A m \in Linkage : \A k \in Level : m # l => (LevelDecided(m, k)' <=> LevelDecided(m, k))
  BY <1>2 DEF LevelDecided
<1>4. ApprovedWhenDecided'
  BY <1>2, <1>3 DEF Settled, ApprovedWhenDecided, Approved, OpenStatus
<1>5. \A w \in Actor : Busy(w) => req[w].linkage # l /\ req[w].linkage \in Linkage
  BY <1>2 DEF Known, Real, NoLinkage
<1>6. \A w \in Actor : req[w].left = "none" => Busy(w)
  BY DEF Known, EmptySlots, NoLinkageRequest
<1>7. ASSUME NEW w \in Actor, Busy(w)', (req[w].copy.status \in Approved)', NEW k \in Level
      PROVE  LevelDecided(req[w].linkage, k)'
  <2>1. LevelDecided(req[w].linkage, k) /\ Busy(w)
    BY <1>2, <1>7 DEF Settled, Busy
  <2> QED
    BY <1>2, <1>5, <2>1 DEF LevelDecided
<1>8. ASSUME NEW w \in Actor, (req[w].left = "none")', NEW k \in Level, (k # req[w].level)'
      PROVE  LevelDecided(req[w].linkage, k)'
  <2>1. LevelDecided(req[w].linkage, k) /\ Busy(w)
    BY <1>2, <1>6, <1>8 DEF Settled
  <2> QED
    BY <1>2, <1>5, <2>1 DEF LevelDecided
<1> QED
  BY <1>4, <1>7, <1>8 DEF Settled

LEMMA SettledKept ==
    ASSUME Known, Alone, Settled, LinkageNext
    PROVE  Settled'
<1>1. ASSUME NEW u \in User, Ends(u) PROVE Settled'
  <2>1. u \in Actor /\ Busy(u) /\ RowStep(u)
    BY <1>1, EndingStep
  <2>2. PICK l \in Linkage : l = req[u].linkage
    BY <2>1 DEF Known, Real
  <2>3. \A k \in Level : link'[l].status \in Approved => LevelDecided(l, k)'
    BY <1>1, <2>1, <2>2, HandlerSettles DEF Ends, Handle
  <2> QED
    BY <2>1, <2>2, <2>3, RowSettled
<1>2. ASSUME Lapse \/ DefaultOverdue PROVE Settled'
  <2>1. Scheduler \in Actor /\ Busy(Scheduler)
    BY <1>2 DEF Lapse, DefaultOverdue, Runs, Busy, Actor
  <2>2. RowStep(Scheduler)
    BY <1>2, <2>1, HandlerStep
  <2>3. PICK l \in Linkage : l = req[Scheduler].linkage
    BY <2>1 DEF Known, Real
  <2>4. \A k \in Level : link'[l].status \in Approved => LevelDecided(l, k)'
    BY <1>2, <2>1, <2>2, <2>3, HandlerSettles
  <2> QED
    BY <2>1, <2>2, <2>3, <2>4, RowSettled
<1> QED
  BY <1>1, <1>2, StepParts, AsideSettled, ProposeSettled

\* However requests and overrides overlap, a linkage that has been approved has
\* had each level of its type decided, and the one an override added where
\* one request runs at a time.
THEOREM LinkageApproval == LinkageSpec => []ApprovedWhenDecided
<1>1. LinkageInit => Alone /\ Settled
  BY DEF LinkageInit, Alone, Settled, ApprovedWhenDecided, Busy, NoLinkageRequest, NoLinkage,
     Approved, OpenStatus
<1>2. Known /\ Alone /\ Settled /\ [LinkageNext]_linkageVars => Alone' /\ Settled'
  <2>1. Known /\ Alone /\ Settled /\ LinkageNext => Alone' /\ Settled'
    BY AloneKept, SettledKept
  <2>2. Alone /\ UNCHANGED linkageVars => Alone'
    BY DEF linkageVars, Alone, Busy
  <2>3. Settled /\ UNCHANGED linkageVars => Settled'
    BY DEF linkageVars, Settled, ApprovedWhenDecided, LevelDecided, Busy
  <2> QED
    BY <2>1, <2>2, <2>3
<1>3. Settled => ApprovedWhenDecided
  BY DEF Settled
<1> QED
  BY <1>1, <1>2, <1>3, KnownAlways, PTL DEF LinkageSpec

-----------------------------------------------------------------------------
(* Exposure.  With one request at a time, the copy that a handler saves is  *)
(* the row as it is, and what it says of the terms is what it has just      *)
(* recorded, or what a form says: so the row and the register change        *)
(* together, where no form claims anything.                                 *)

Exposed == \A l \in Linkage : link[l].outstanding => SomeOpen(register[l])

OneByOne ==
    scenario.inFlight = 1 /\ FormsClaimNothing =>
        /\ \A u \in Actor : Busy(u) => req[u].copy = link[req[u].linkage]
        /\ Exposed

\* Obligations open or settled are what the register keeps.
LEMMA ReferenceOpen ==
    ASSUME NEW obligations \in [Reference -> {"NONE", "OPEN", "SETTLED"}], NEW ref \in Reference
    PROVE  SomeOpen([obligations EXCEPT ![ref] = "OPEN"])
BY DEF SomeOpen

\* Saving a copy that is the row, with another status, exposes nothing new.
LEMMA SavedAsItIs ==
    ASSUME Known, Exposed, NEW u \in Actor, Busy(u), NEW to,
           req[u].copy = link[req[u].linkage],
           link' = [link EXCEPT ![req[u].linkage] = Moved(req[u].copy, to)],
           UNCHANGED register
    PROVE  Exposed'
<1>1. /\ req[u].linkage \in Linkage /\ link \in [Linkage -> LinkageRow]
      /\ req[u].copy \in LinkageRow
  BY DEF Known, Real, LinkageTypeOK, LinkageRequest
<1> DEFINE row == Moved(req[u].copy, to)
<1>2. row.outstanding = link[req[u].linkage].outstanding
  BY <1>1 DEF Moved, LinkageRow
<1>3. link' = [link EXCEPT ![req[u].linkage] = row]
  OBVIOUS
<1> HIDE DEF row
<1> QED
  BY <1>1, <1>2, <1>3 DEF Exposed

\* Terms that say what the register now says leave the row exposed or not alike.
LEMMA TermsAsRecorded ==
    ASSUME Known, Exposed, NEW u \in Actor, Busy(u), NEW row \in LinkageRow,
           NEW obligations \in [Reference -> {"NONE", "OPEN", "SETTLED"}],
           link' = [link EXCEPT ![req[u].linkage] = row],
           register' = [register EXCEPT ![req[u].linkage] = obligations],
           row.outstanding => SomeOpen(obligations)
    PROVE  Exposed'
<1>1. /\ req[u].linkage \in Linkage /\ link \in [Linkage -> LinkageRow]
      /\ register \in [Linkage -> [Reference -> {"NONE", "OPEN", "SETTLED"}]]
  BY DEF Known, Real, LinkageTypeOK
<1> QED
  BY <1>1 DEF Exposed

\* A handler that saves the row as it is, and records, keeps exposure real.
LEMMA HandlerExposes ==
    ASSUME Known, Exposed, FormsClaimNothing, NEW u \in Actor, Busy(u),
           req[u].copy = link[req[u].linkage]
    PROVE  /\ \A v \in Verdict : Screen(u, v) \/ ApproveBlocked(u, v) => Exposed'
           /\ RecordResolution(u) \/ Submit(u) \/ SubmitOverride(u) => Exposed'
           /\ Approve(u) \/ ReturnForRevision(u) \/ Reject(u) => Exposed'
           /\ \A terms \in Terms : Activate(u, terms) => Exposed'
           /\ \A terms \in Terms, s \in LinkageSubject : Edit(u, s, terms) => Exposed'
           /\ \A ref \in Reference, m, o \in BOOLEAN : RecordObligation(u, ref, m, o) => Exposed'
           /\ \A ref, to \in Reference :
                 SettleObligation(u, ref) \/ TransferObligation(u, ref, to) => Exposed'
           /\ Cure(u) \/ Close(u) => Exposed'
           /\ u = Scheduler => (Lapse \/ DefaultOverdue => Exposed')
<1> DEFINE l == req[u].linkage
           copy == req[u].copy
<1>1. /\ l \in Linkage /\ link \in [Linkage -> LinkageRow] /\ link[l] \in LinkageRow
      /\ copy \in LinkageRow /\ copy = link[l]
      /\ register \in [Linkage -> [Reference -> {"NONE", "OPEN", "SETTLED"}]]
      /\ register[l] \in [Reference -> {"NONE", "OPEN", "SETTLED"}]
  BY DEF Known, Real, LinkageTypeOK, LinkageRequest
<1>2. ASSUME NEW to, Transition(u, to), UNCHANGED register PROVE Exposed'
  BY <1>2, SavedAsItIs DEF Transition
<1>3. ASSUME NEW r \in BOOLEAN, NEW o \in BOOLEAN, TermsSaved(u, r, o),
             NEW obligations \in [Reference -> {"NONE", "OPEN", "SETTLED"}],
             register' = [register EXCEPT ![l] = obligations],
             o => SomeOpen(obligations)
      PROVE  Exposed'
  <2> DEFINE row == [link[l] EXCEPT !.resolution = r, !.outstanding = o]
  <2>1. row \in LinkageRow /\ row.outstanding = o
    BY <1>1, <1>3 DEF LinkageRow
  <2>2. link' = [link EXCEPT ![l] = row]
    BY <1>3 DEF TermsSaved
  <2> HIDE DEF row
  <2> QED
    BY <1>3, <2>1, <2>2, TermsAsRecorded
<1>4. ASSUME NEW v \in Verdict, Screen(u, v) \/ ApproveBlocked(u, v)
      PROVE  Exposed'
  BY <1>2, <1>4 DEF Screen, ApproveBlocked
<1>5. ASSUME RecordResolution(u) \/ Submit(u) \/ SubmitOverride(u) PROVE Exposed'
  <2>1. CASE RecordResolution(u)
    <3>1. /\ TermsSaved(u, TRUE, copy.outstanding)
          /\ register' = [register EXCEPT ![l] = register[l]]
          /\ copy.outstanding \in BOOLEAN
          /\ copy.outstanding => SomeOpen(register[l])
      BY <1>1, <2>1 DEF RecordResolution, LinkageRow, Exposed
    <3> QED
      BY <1>1, <1>3, <3>1
  <2>2. CASE Submit(u) \/ SubmitOverride(u)
    <3>1. UNCHANGED register /\ \E to \in {"APPROVED", "PENDING_APPROVAL"} :
             link' = [link EXCEPT ![l] = Moved(copy, to)]
      BY <2>2 DEF Submit, SubmitOverride, Submitted
    <3> QED
      BY <1>1, <3>1, SavedAsItIs
  <2> QED
    BY <1>5, <2>1, <2>2
<1>6. ASSUME Approve(u) \/ ReturnForRevision(u) \/ Reject(u) PROVE Exposed'
  <2>1. CASE UNCHANGED <<link, register>>
    BY <2>1 DEF Exposed
  <2>2. CASE ~UNCHANGED <<link, register>>
    <3>1. UNCHANGED register /\ \E to \in {"RETURNED", "REJECTED", "APPROVED"} : Transition(u, to)
      BY <1>6, <2>2 DEF Approve, ReturnForRevision, Reject
    <3> QED
      BY <1>2, <3>1
  <2> QED
    BY <2>1, <2>2
<1>11. ASSUME NEW terms \in Terms, Activate(u, terms) PROVE Exposed'
  <2> DEFINE row == [copy EXCEPT !.status = "ACTIVE",
                                 !.resolution = Term(terms.resolution, copy.resolution),
                                 !.outstanding = Term(terms.outstanding, copy.outstanding)]
  <2>1. /\ link' = [link EXCEPT ![l] = row]
        /\ register' = [register EXCEPT ![l] = register[l]]
    BY <1>1, <1>11 DEF Activate, LinkageRow
  <2>2. copy.resolution \in BOOLEAN /\ copy.outstanding \in BOOLEAN
    BY <1>1 DEF LinkageRow
  <2>3. row \in LinkageRow /\ row.outstanding = Term(terms.outstanding, copy.outstanding)
    BY <1>1, <2>2, TermTyped DEF LinkageRow, LinkageStatus
  <2>4. row.outstanding => SomeOpen(register[l])
    <3>1. terms.outstanding # "yes"
      BY <1>11 DEF Activate, FormsClaimNothing
    <3> QED
      BY <1>1, <2>3, <3>1 DEF Term, Exposed
  <2> HIDE DEF row
  <2> QED
    BY <1>1, <2>1, <2>3, <2>4, TermsAsRecorded
<1>12. ASSUME NEW terms \in Terms, NEW s \in LinkageSubject, Edit(u, s, terms) PROVE Exposed'
  <2> DEFINE moved == [copy EXCEPT !.subject = s]
             row == [moved EXCEPT !.resolution = Term(terms.resolution, FALSE),
                                  !.outstanding = Term(terms.outstanding, FALSE)]
  <2>1. /\ link' = [link EXCEPT ![l] = moved] \/ link' = [link EXCEPT ![l] = row]
        /\ register' = [register EXCEPT ![l] = register[l]]
    BY <1>1, <1>12 DEF Edit
  <2>2. moved \in LinkageRow /\ moved.outstanding = copy.outstanding
    BY <1>1 DEF LinkageRow
  <2>3. row \in LinkageRow /\ row.outstanding = Term(terms.outstanding, FALSE)
    BY <2>2, TermTyped DEF LinkageRow
  <2>4. ~row.outstanding
    BY <1>12, <2>3 DEF Edit, FormsClaimNothing, Term
  <2>5. moved.outstanding => SomeOpen(register[l])
    BY <1>1, <2>2 DEF Exposed
  <2> HIDE DEF moved, row
  <2> QED
    BY <1>1, <2>1, <2>2, <2>3, <2>4, <2>5, TermsAsRecorded
<1>7. ASSUME NEW ref \in Reference, NEW m \in BOOLEAN, NEW o \in BOOLEAN,
             RecordObligation(u, ref, m, o)
      PROVE  Exposed'
  <2> DEFINE after == [register[l] EXCEPT ![ref] = IF o THEN "OPEN" ELSE "SETTLED"]
  <2>1. /\ after \in [Reference -> {"NONE", "OPEN", "SETTLED"}]
        /\ register' = [register EXCEPT ![l] = after]
    BY <1>1, <1>7 DEF RecordObligation
  <2>2. o => SomeOpen(after)
    BY <1>1 DEF SomeOpen
  <2>3. CASE m /\ copy.status = "ACTIVE"
    <3> DEFINE row == [copy EXCEPT !.status = "DISTRESSED", !.outstanding = o]
    <3>1. row \in LinkageRow /\ row.outstanding = o
      BY <1>1 DEF LinkageRow, LinkageStatus
    <3>2. link' = [link EXCEPT ![l] = row]
      BY <1>7, <2>3 DEF RecordObligation
    <3> HIDE DEF row, after
    <3> QED
      BY <2>1, <2>2, <3>1, <3>2, TermsAsRecorded
  <2>4. CASE ~(m /\ copy.status = "ACTIVE")
    <3>1. TermsSaved(u, copy.resolution, o) /\ copy.resolution \in BOOLEAN
      BY <1>1, <1>7, <2>4 DEF RecordObligation, LinkageRow
    <3> HIDE DEF after
    <3> QED
      BY <1>3, <2>1, <2>2, <3>1
  <2> QED
    BY <2>3, <2>4
<1>8. ASSUME NEW ref \in Reference, NEW to \in Reference,
             SettleObligation(u, ref) \/ TransferObligation(u, ref, to)
      PROVE  Exposed'
  <2>1. copy.resolution \in BOOLEAN
    BY <1>1 DEF LinkageRow
  <2>2. CASE SettleObligation(u, ref)
    <3> DEFINE after == [register[l] EXCEPT ![ref] = "SETTLED"]
    <3>1. /\ after \in [Reference -> {"NONE", "OPEN", "SETTLED"}]
          /\ register' = [register EXCEPT ![l] = after]
          /\ TermsSaved(u, copy.resolution, SomeOpen(after))
      BY <1>1, <2>2 DEF SettleObligation, ExposureAfter
    <3>2. SomeOpen(after) \in BOOLEAN
      BY DEF SomeOpen
    <3> HIDE DEF after
    <3> QED
      BY <1>3, <2>1, <3>1, <3>2
  <2>3. CASE TransferObligation(u, ref, to)
    <3> DEFINE settled == [register[l] EXCEPT ![ref] = "SETTLED"]
               after == [settled EXCEPT ![to] = "OPEN"]
    <3>1. /\ settled \in [Reference -> {"NONE", "OPEN", "SETTLED"}]
          /\ after \in [Reference -> {"NONE", "OPEN", "SETTLED"}]
          /\ register' = [register EXCEPT ![l] = after]
          /\ TermsSaved(u, copy.resolution, TRUE)
      BY <1>1, <2>3 DEF TransferObligation
    <3>2. SomeOpen(after)
      BY <3>1, ReferenceOpen
    <3> HIDE DEF after
    <3> QED
      BY <1>3, <2>1, <3>1, <3>2
  <2> QED
    BY <1>8, <2>2, <2>3
<1>9. Cure(u) \/ Close(u) => Exposed'
  BY <1>2 DEF Cure, Close
<1>10. ASSUME u = Scheduler, Lapse \/ DefaultOverdue PROVE Exposed'
  BY <1>2, <1>10 DEF Lapse, DefaultOverdue
<1> QED
  BY <1>4, <1>5, <1>6, <1>7, <1>8, <1>9, <1>10, <1>11, <1>12

\* A handler is one request's: which one, and what it leaves.
LEMMA HandledOne ==
    ASSUME Known, Alone, scenario.inFlight = 1, NEW u \in Actor, RowStep(u), Exposed'
    PROVE  OneByOne'
<1>1. \A v \in Actor : ~Busy(v)'
  BY DEF RowStep, Alone, Known, LinkageTypeOK, Busy, NoLinkageRequest
<1> QED
  BY <1>1 DEF OneByOne

\* Every step keeps it.
LEMMA OneByOneKept ==
    ASSUME Known, Alone, OneByOne, LinkageNext
    PROVE  OneByOne'
<1> SUFFICES ASSUME scenario.inFlight = 1, FormsClaimNothing PROVE OneByOne'
  BY ScenarioKept DEF OneByOne, FormsClaimNothing
<1>1. /\ Exposed /\ \A u \in Actor : Busy(u) => req[u].copy = link[req[u].linkage]
      /\ req \in [Actor -> LinkageRequest]
  BY DEF OneByOne, Known, LinkageTypeOK
<1>2. ASSUME NEW u \in User, Ends(u) PROVE OneByOne'
  <2>1. u \in Actor /\ Busy(u) /\ RowStep(u)
    BY <1>2, EndingStep
  <2>2. req[u].copy = link[req[u].linkage]
    BY <1>1, <2>1
  <2>3. Exposed'
    BY <1>1, <1>2, <2>1, <2>2, HandlerExposes DEF Ends, Handle
  <2> QED
    BY <2>1, <2>3, HandledOne
<1>3. ASSUME Lapse \/ DefaultOverdue PROVE OneByOne'
  <2>1. Scheduler \in Actor /\ Busy(Scheduler)
    BY <1>3 DEF Lapse, DefaultOverdue, Runs, Busy, Actor
  <2>2. RowStep(Scheduler) /\ Exposed'
    BY <1>1, <1>3, <2>1, HandlerStep, HandlerExposes
  <2> QED
    BY <2>1, <2>2, HandledOne
<1>4. ASSUME NEW u \in Actor, NEW l \in Linkage, NEW op \in UserOps \cup JobOps,
             LoadLinkage(u, op, l)
      PROVE  OneByOne'
  <2>1. \A v \in Actor : ~Busy(v)
    BY <1>4, RoomForOne
  <2>2. /\ UNCHANGED <<link, register>>
        /\ \A v \in Actor : v # u => req'[v] = req[v]
        /\ req'[u].copy = link[req'[u].linkage]
    BY <1>1, <1>4 DEF LoadLinkage
  <2> QED
    BY <1>1, <2>1, <2>2 DEF OneByOne, Busy, Exposed
<1>5. ASSUME NEW u \in Actor, DropRequest(u) PROVE OneByOne'
  <2>1. UNCHANGED <<link, register>> /\ \A v \in Actor : Busy(v)' => Busy(v) /\ req'[v] = req[v]
    BY <1>1, <1>5 DEF DropRequest, Busy, NoLinkageRequest
  <2> QED
    BY <1>1, <2>1 DEF OneByOne, Exposed
<1>6. ASSUME ProposeStep PROVE OneByOne'
  <2>1. PICK u \in User, l \in Linkage, s \in LinkageSubject, v \in Verdict, terms \in Terms :
           Propose(u, l, s, v, terms)
    BY <1>6 DEF ProposeStep
  <2>2. UNCHANGED <<req, register>> /\ link \in [Linkage -> LinkageRow] /\ link[l].status = "ABSENT"
    BY <2>1 DEF Propose, NoLinkage, Known, LinkageTypeOK
  <2>3. \A m \in Linkage : m # l => link'[m] = link[m]
    BY <2>1, <2>2 DEF Propose
  <2>4. link'[l].outstanding = FALSE
    BY <2>1, <2>2 DEF Propose, FormsClaimNothing, Term
  <2>5. \A w \in Actor : Busy(w) => req[w].linkage # l /\ req[w].linkage \in Linkage
    BY <2>2 DEF Known, Real
  <2> QED
    BY <1>1, <2>2, <2>3, <2>4, <2>5 DEF OneByOne, Busy, Exposed
<1>7. ASSUME UNCHANGED <<link, register, req>> PROVE OneByOne'
  BY <1>1, <1>7 DEF OneByOne, Busy, Exposed
<1>8. ASSUME NEW u \in User,
             (\E k \in Level : Judge(u, k)) \/ (\E v \in Verdict : Sign(u, v))
      PROVE  OneByOne'
  <2>1. /\ UNCHANGED <<link, register>> /\ u \in Actor
        /\ \A v \in Actor : req'[v].op = req[v].op /\ req'[v].copy = req[v].copy
        /\ \A v \in Actor : req'[v].linkage = req[v].linkage
    BY <1>1, <1>8, TouchedOnce
  <2> QED
    BY <1>1, <2>1 DEF OneByOne, Busy, Exposed
<1>9. ASSUME NEW u \in User, Handle(u) PROVE OneByOne'
  BY <1>2, <1>8, <1>9 DEF Ends
<1> QED
  BY <1>3, <1>4, <1>5, <1>6, <1>7, <1>9
     DEF LinkageNext, ProposeStep, RefreshRead, RefreshWrite, FlagBlacklisted

\* One request at a time, and with forms that claim nothing, what keeps a
\* linkage from closing can be settled.
THEOREM LinkageExposure == LinkageSpec => []ExposureIsReal
<1>1. LinkageInit => Alone /\ OneByOne
  BY DEF LinkageInit, Alone, OneByOne, Busy, NoLinkageRequest, NoLinkage, Exposed
<1>2. Known /\ Alone /\ OneByOne /\ [LinkageNext]_linkageVars => Alone' /\ OneByOne'
  <2>1. Known /\ Alone /\ OneByOne /\ LinkageNext => Alone' /\ OneByOne'
    BY AloneKept, OneByOneKept
  <2>2. Alone /\ OneByOne /\ UNCHANGED linkageVars => Alone' /\ OneByOne'
    BY DEF linkageVars, Alone, OneByOne, FormsClaimNothing, Busy, Exposed
  <2> QED
    BY <2>1, <2>2
<1>3. OneByOne => ExposureIsReal
  BY DEF OneByOne, Exposed, ExposureIsReal
<1> QED
  BY <1>1, <1>2, <1>3, KnownAlways, PTL DEF LinkageSpec
=============================================================================
