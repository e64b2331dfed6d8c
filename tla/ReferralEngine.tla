--------------------------- MODULE ReferralEngine ---------------------------
(***************************************************************************)
(* The referral state machine as the web workers and the nightly sweep run *)
(* it: apps/referrals/models.py, services.py and views.py, and the sweep   *)
(* fail_abandoned_referrals of apps/alerts/tasks.py.                       *)
(*                                                                         *)
(* Every endpoint on one referral first fetches the row with no lock       *)
(* (get_object), validates the body, and only then opens a transaction.    *)
(* transition_to re-reads status and parallel group under a row lock and   *)
(* saves ALL OTHER columns from the copy fetched before.  So a request is  *)
(* a worker that holds a copy of a row (Load) and later acts on it.  The   *)
(* confirm transaction also reads other rows before it commits, so it has  *)
(* two steps (Decide, Commit); every other transaction reads only the row  *)
(* it has locked, and is one step.  PostgreSQL runs READ COMMITTED:        *)
(* a transaction sees what is committed when each statement starts.        *)
(*                                                                         *)
(* Left out: notes, dates, reason codes, who recorded what, partners, the  *)
(* case's last-activity stamp, and referrals about groups (they have no    *)
(* case and skip the parallel rule).  confirmation stands for              *)
(* confirmation_status with confirmed_date; group # None stands for        *)
(* is_parallel with parallel_group_id.                                     *)
(***************************************************************************)
EXTENDS Naturals, FiniteSets

CONSTANTS
    Referral,          \* slots for referral rows; the bound on how many are ever created
    Worker,            \* request handlers that can be busy at the same time
    Case,
    Category,
    ExemptCategory,    \* categories with exempt_from_parallel_cap
    Outcome,
    PlacementOutcome,  \* outcomes with counts_as_placement
    AppliesTo,         \* <<category, outcome>> pairs accepted by OutcomeType.is_valid_for
    MaxParallel,       \* MAX_PARALLEL_ACTIVE_REFERRALS
    Ops,               \* the endpoints and jobs that run in this instance
    PatchFields,       \* the columns a PATCH may change: "category", "case"
    None

AllOps == {"initiate", "confirm", "decline", "cancel", "complete", "fail",
           "replace", "onward", "edit", "sweep"}

ASSUME EngineAssumption ==
    /\ IsFiniteSet(Referral) /\ None \notin Referral
    /\ IsFiniteSet(Worker) /\ Worker # {}
    /\ None \notin Case \cup Category \cup Outcome
    /\ ExemptCategory \subseteq Category
    /\ PlacementOutcome \subseteq Outcome
    /\ AppliesTo \subseteq Category \X Outcome
    /\ MaxParallel \in Nat \ {0}
    /\ Ops \subseteq AllOps
    /\ PatchFields \subseteq {"category", "case"}

VARIABLES
    row,      \* row[r]: the committed row of referral r
    placed,   \* placed[c]: case c has been marked PLACED
    req,      \* req[w]: what worker w is doing
    batch     \* batch[r]: the sweep's copy of r, still to be processed; else AbsentRow

vars == <<row, placed, req, batch>>

Status == {"ABSENT", "PENDING_CONFIRMATION", "ACTIVE", "COMPLETED",
           "FAILED", "REPLACED", "CANCELLED"}

Trigger == {"MANUAL", "ONWARD", "REPLACEMENT"}

Confirmation == {"PENDING", "CONFIRMED", "DECLINED"}

Row == [ status : Status,
         case : Case \cup {None},
         category : Category \cup {None},
         trigger : Trigger,
         parent : Referral \cup {None},
         replacement : Referral \cup {None},
         confirmation : Confirmation,
         group : Referral \cup {None},
         outcome : Outcome \cup {None} ]

AbsentRow == [ status |-> "ABSENT", case |-> None, category |-> None,
               trigger |-> "MANUAL", parent |-> None, replacement |-> None,
               confirmation |-> "PENDING", group |-> None, outcome |-> None ]

\* pc: "idle"; "loaded" holds an unlocked copy; "decided" has passed the cap
\* check of a confirmation and holds the lock on its own row.
Request == [ pc : {"idle", "loaded", "decided"},
             op : AllOps \cup {None},
             ref : Referral \cup {None},
             snap : Row,
             stamp : SUBSET Referral,      \* siblings about to receive the group
             gid : Referral \cup {None} ]  \* the group decided on

Idle == [ pc |-> "idle", op |-> None, ref |-> None, snap |-> AbsentRow,
          stamp |-> {}, gid |-> None ]

-----------------------------------------------------------------------------
(* The table of moves, and what transition_to saves.                       *)

\* Wrong: a second replacement of the same referral is let through.
TransitionsReplacingTwice ==
    { <<"PENDING_CONFIRMATION", "ACTIVE">>, <<"ACTIVE", "FAILED">>,
      <<"FAILED", "REPLACED">>, <<"REPLACED", "REPLACED">> }

TRANSITIONS ==
    { <<"PENDING_CONFIRMATION", "ACTIVE">>,
      <<"PENDING_CONFIRMATION", "FAILED">>,
      <<"PENDING_CONFIRMATION", "CANCELLED">>,
      <<"ACTIVE", "COMPLETED">>,
      <<"ACTIVE", "FAILED">>,
      <<"FAILED", "REPLACED">> }

\* sets_confirmation of the edge, or the old value when the edge sets none.
Answered(from, to, old) ==
    IF from # "PENDING_CONFIRMATION" THEN old
    ELSE IF to = "ACTIVE" THEN "CONFIRMED"
    ELSE IF to = "FAILED" THEN "DECLINED"
    ELSE old

\* The target status of the endpoints that are a single transition.
Target(op) ==
    CASE op \in {"decline", "fail"} -> "FAILED"
      [] op = "cancel" -> "CANCELLED"
      [] op = "complete" -> "COMPLETED"
      [] op = "replace" -> "REPLACED"
      [] OTHER -> "ACTIVE"

LockFree(r) == \A w \in Worker : ~(req[w].pc = "decided" /\ req[w].ref = r)

\* Wrong: the row is locked, and the edge is not looked up again.
CanMoveFromAnywhere(r, to) == LockFree(r)

\* The edge is looked up from the status just re-read under the lock.
CanMove(r, to) == LockFree(r) /\ <<row[r].status, to>> \in TRANSITIONS

\* Wrong: the parallel group is not among the re-read columns.
SavedWithStaleGroup(r, snap, to) ==
    [ snap EXCEPT !.status = to,
                  !.confirmation = Answered(row[r].status, to, snap.confirmation) ]

\* What save() writes: the worker's copy, except the re-read columns.
Saved(r, snap, to) ==
    [ snap EXCEPT !.status = to,
                  !.group = row[r].group,
                  !.confirmation = Answered(row[r].status, to, snap.confirmation) ]

NewRow(c, k, t, p) ==
    [ AbsentRow EXCEPT !.status = "PENDING_CONFIRMATION", !.case = c,
                       !.category = k, !.trigger = t, !.parent = p ]

(* The parallel rule.                                                      *)

Counted(s) == row[s].status = "ACTIVE" /\ row[s].category \notin ExemptCategory

CountedActive(c) == {s \in Referral : Counted(s) /\ row[s].case = c}

Siblings(r, c) == CountedActive(c) \ {r}

\* Wrong by one: the referral about to start is not added.
CapPassed(siblings) == Cardinality(siblings) > MaxParallel

CapReached(siblings) == Cardinality(siblings) >= MaxParallel

\* A sibling's group if one has it, otherwise a new one (a fresh uuid, named
\* here after the referral that opens it), and none when r runs alone.
GroupFor(r, siblings) ==
    LET known == {row[s].group : s \in siblings} \ {None}
    IN  IF siblings = {} THEN {None} ELSE IF known = {} THEN {r} ELSE known

\* Wrong: only the joining referral learns of the group.
StampNobody(siblings, g) == {}

\* The siblings whose row does not show the group yet.
ToStamp(siblings, g) == {s \in siblings : row[s].group # g}

\* Only ever upwards: an outcome that is no placement leaves the case alone.
MarkPlaced(c, o) == [placed EXCEPT ![c] = @ \/ o \in PlacementOutcome]

-----------------------------------------------------------------------------

Init ==
    /\ row = [r \in Referral |-> AbsentRow]
    /\ placed = [c \in Case |-> FALSE]
    /\ req = [w \in Worker |-> Idle]
    /\ batch = [r \in Referral |-> AbsentRow]

Reply(w) == req' = [req EXCEPT ![w] = Idle]

Running(w, pc, op) == req[w].pc = pc /\ req[w].op = op /\ op \in Ops

\* initiate: one insert that depends on no row it could find stale.
Initiate(r, c, k) ==
    /\ "initiate" \in Ops
    /\ row[r] = AbsentRow
    /\ row' = [row EXCEPT ![r] = NewRow(c, k, "MANUAL", None)]
    /\ UNCHANGED <<placed, req, batch>>

\* get_object: a worker takes a copy of the row, with no lock.
Load(w, op, r) ==
    /\ req[w] = Idle
    /\ op \in Ops \ {"initiate", "sweep"}
    /\ row[r].status # "ABSENT"
    /\ req' = [req EXCEPT ![w] = [Idle EXCEPT !.pc = "loaded", !.op = op,
                                             !.ref = r, !.snap = row[r]]]
    /\ UNCHANGED <<row, placed, batch>>

\* confirm, first half: lock the row, check the edge, read the siblings.
Decide(w) ==
    LET r == req[w].ref
        siblings == Siblings(r, req[w].snap.case)
        Hold(g, stamp) ==
            req' = [req EXCEPT ![w] = [@ EXCEPT !.pc = "decided", !.gid = g, !.stamp = stamp]]
    IN  /\ Running(w, "loaded", "confirm")
        /\ CanMove(r, "ACTIVE")
        /\ \/ /\ req[w].snap.category \in ExemptCategory
              /\ Hold(row[r].group, {})
           \/ /\ req[w].snap.category \notin ExemptCategory
              /\ ~CapReached(siblings)
              /\ \E g \in GroupFor(r, siblings) : Hold(g, ToStamp(siblings, g))
        /\ UNCHANGED <<row, placed, batch>>

\* confirm, second half: stamp the siblings, save the referral, commit.
Commit(w) ==
    LET r == req[w].ref
        g == req[w].gid
    IN  /\ Running(w, "decided", "confirm")
        /\ row' = [s \in Referral |->
                     IF s = r THEN [Saved(r, req[w].snap, "ACTIVE") EXCEPT !.group = g]
                     ELSE IF s \in req[w].stamp THEN [row[s] EXCEPT !.group = g]
                     ELSE row[s]]
        /\ Reply(w)
        /\ UNCHANGED <<placed, batch>>

\* decline, fail and cancel.  decline and fail are the same transition: each
\* works from Pending and from Active.
Close(w, op) ==
    LET r == req[w].ref
    IN  /\ op \in {"decline", "fail", "cancel"}
        /\ Running(w, "loaded", op)
        /\ CanMove(r, Target(op))
        /\ row' = [row EXCEPT ![r] = Saved(r, req[w].snap, Target(op))]
        /\ Reply(w)
        /\ UNCHANGED <<placed, batch>>

\* complete: the outcome must apply to the category; a placement marks the case.
Complete(w, o) ==
    LET r == req[w].ref
        snap == req[w].snap
    IN  /\ Running(w, "loaded", "complete")
        /\ CanMove(r, "COMPLETED")
        /\ <<snap.category, o>> \in AppliesTo
        /\ row' = [row EXCEPT ![r] = [Saved(r, snap, "COMPLETED") EXCEPT !.outcome = o]]
        /\ placed' = MarkPlaced(snap.case, o)
        /\ Reply(w)
        /\ UNCHANGED batch

\* replace: the two checks of the service read the copy, the edge is re-read.
Replace(w, q, k) ==
    LET r == req[w].ref
        snap == req[w].snap
    IN  /\ Running(w, "loaded", "replace")
        /\ snap.status = "FAILED" /\ snap.replacement = None
        /\ CanMove(r, "REPLACED")
        /\ row[q] = AbsentRow
        /\ row' = [row EXCEPT
                     ![r] = [Saved(r, snap, "REPLACED") EXCEPT !.replacement = q],
                     ![q] = NewRow(snap.case, k, "REPLACEMENT", r)]
        /\ Reply(w)
        /\ UNCHANGED <<placed, batch>>

\* onward: the parent is not touched, and nothing looks for an earlier child.
Onward(w, q, k) ==
    /\ Running(w, "loaded", "onward")
    /\ req[w].snap.status = "COMPLETED"
    /\ row[q] = AbsentRow
    /\ row' = [row EXCEPT ![q] = NewRow(req[w].snap.case, k, "ONWARD", req[w].ref)]
    /\ Reply(w)
    /\ UNCHANGED <<placed, batch>>

\* PATCH: the serializer saves every column of the copy.  No lock is taken
\* before the UPDATE, which waits for one held by somebody else.
Edit(w, c, k) ==
    LET r == req[w].ref
        snap == req[w].snap
    IN  /\ Running(w, "loaded", "edit")
        /\ LockFree(r)
        /\ c = snap.case \/ "case" \in PatchFields
        /\ k = snap.category \/ "category" \in PatchFields
        /\ row' = [row EXCEPT ![r] = [snap EXCEPT !.case = c, !.category = k]]
        /\ Reply(w)
        /\ UNCHANGED <<placed, batch>>

\* No edge from the status just re-read.
EdgeRefused(w) ==
    /\ req[w].op \notin {"onward", "edit"}
    /\ LockFree(req[w].ref) /\ ~CanMove(req[w].ref, Target(req[w].op))

\* Wrong: nobody answers a confirmation that the cap stops.
CapNeverRefuses(w) == FALSE

\* The case already runs as many referrals as it may.
CapRefused(w) ==
    /\ req[w].op = "confirm" /\ LockFree(req[w].ref)
    /\ req[w].snap.category \notin ExemptCategory
    /\ CapReached(Siblings(req[w].ref, req[w].snap.case))

\* clean(): the outcome sent does not apply to the category.
OutcomeRefused(w) ==
    /\ req[w].op = "complete" /\ LockFree(req[w].ref)
    /\ \E o \in Outcome : <<req[w].snap.category, o>> \notin AppliesTo

\* The services' own checks, made on the copy.  (The last disjunct is the
\* bound: no slot is left for the row that would be inserted.)
ServiceRefused(w) ==
    \/ req[w].op = "onward" /\ req[w].snap.status # "COMPLETED"
    \/ req[w].op = "replace" /\ req[w].snap.status # "FAILED"
    \/ req[w].op = "replace" /\ req[w].snap.replacement # None
    \/ req[w].op \in {"onward", "replace"} /\ \A q \in Referral : row[q] # AbsentRow

Refuse(w) ==
    /\ req[w].pc = "loaded"
    /\ EdgeRefused(w) \/ CapRefused(w) \/ OutcomeRefused(w) \/ ServiceRefused(w)
    /\ Reply(w)
    /\ UNCHANGED <<row, placed, batch>>

\* The body is invalid, or the worker dies: the transaction rolls back.
Abort(w) ==
    /\ req[w].pc # "idle"
    /\ Reply(w)
    /\ UNCHANGED <<row, placed, batch>>

\* fail_abandoned_referrals: the queryset is fetched once ...
SweepFetch(S) ==
    /\ "sweep" \in Ops
    /\ batch = [r \in Referral |-> AbsentRow]
    /\ S # {}
    /\ \A r \in S : row[r].status = "PENDING_CONFIRMATION"
    /\ batch' = [r \in Referral |-> IF r \in S THEN row[r] ELSE AbsentRow]
    /\ UNCHANGED <<row, placed, req>>

\* ... and each copy in turn is moved to Failed ...
SweepFail(r) ==
    /\ batch[r] # AbsentRow
    /\ CanMove(r, "FAILED")
    /\ row' = [row EXCEPT ![r] = Saved(r, batch[r], "FAILED")]
    /\ batch' = [batch EXCEPT ![r] = AbsentRow]
    /\ UNCHANGED <<placed, req>>

\* ... until one raises, which ends the job with the rest undone.
SweepRaise(r) ==
    /\ batch[r] # AbsentRow
    /\ LockFree(r) /\ ~CanMove(r, "FAILED")
    /\ batch' = [s \in Referral |-> AbsentRow]
    /\ UNCHANGED <<row, placed, req>>

-----------------------------------------------------------------------------

Work(w) ==
    \/ Decide(w)
    \/ Commit(w)
    \/ \E op \in Ops : Close(w, op)
    \/ \E o \in Outcome : Complete(w, o)
    \/ \E q \in Referral, k \in Category : Replace(w, q, k) \/ Onward(w, q, k)
    \/ \E c \in Case, k \in Category : Edit(w, c, k)
    \/ Refuse(w)

Next ==
    \/ \E r \in Referral, c \in Case, k \in Category : Initiate(r, c, k)
    \/ \E w \in Worker, op \in Ops, r \in Referral : Load(w, op, r)
    \/ \E w \in Worker : Work(w) \/ Abort(w)
    \/ \E S \in SUBSET Referral : SweepFetch(S)
    \/ \E r \in Referral : SweepFail(r) \/ SweepRaise(r)

Spec == Init /\ [][Next]_vars

\* Row locks are granted in the order they were asked for, so a request that
\* can get the lock again and again does get it: strong fairness of its steps.
FairSpec == Spec /\ \A w \in Worker : SF_vars(Work(w))

-----------------------------------------------------------------------------
(* Properties.                                                             *)

\* Every variable stays in its type: rows, copies and requests are well formed.
TypeOK ==
    /\ row \in [Referral -> Row]
    /\ placed \in [Case -> BOOLEAN]
    /\ req \in [Worker -> Request]
    /\ batch \in [Referral -> Row]

\* The cap of the spec's parallel rule, to the letter: a case never has more
\* counted active referrals than the maximum.
ParallelCap == \A c \in Case : Cardinality(CountedActive(c)) <= MaxParallel

\* Confirmations of case c that have passed the cap check and not committed.
Deciding(c) ==
    {w \in Worker : /\ req[w].pc = "decided"
                    /\ req[w].snap.case = c
                    /\ req[w].snap.category \notin ExemptCategory}

\* What the row lock does guarantee: confirmations running together exceed
\* the cap by at most one less than the number of workers, and by nothing
\* when one worker serves the case.
CapBound ==
    \A c \in Case :
        Cardinality(CountedActive(c)) + Cardinality(Deciding(c))
            <= MaxParallel + Cardinality(Worker) - 1

\* Two counted active referrals of one case carry one and the same group.
GroupShared ==
    \A c \in Case : \A r, s \in CountedActive(c) :
        r # s => row[r].group # None /\ row[r].group = row[s].group

\* Reason 1 of the comment in transition_to: a stale copy never erases the
\* pairing that a sibling's confirmation stamped on the row.
PairingNeverErased ==
    [][\A r \in Referral : row[r].group # None => row'[r].group # None]_vars

\* Replaced, the forward link, and the replacing referral's back link go
\* together; so no failed referral is ever replaced twice.
ReplacementExact ==
    /\ \A r \in Referral : row[r].status = "REPLACED" <=> row[r].replacement # None
    /\ \A r, q \in Referral :
          row[r].replacement = q <=> row[q].trigger = "REPLACEMENT" /\ row[q].parent = r

\* The columns no request may change, and the link only a replacement sets,
\* are as current in a copy as they are in the row.
CopyOf(snap, r) ==
    /\ row[r].status # "ABSENT"
    /\ snap.case = row[r].case /\ snap.category = row[r].category
    /\ snap.trigger = row[r].trigger /\ snap.parent = row[r].parent
    /\ snap.replacement # None => row[r].status = "REPLACED"

\* Without PATCH a copy, however old, differs from its row only in what
\* transition_to re-reads or the move itself decides.
CopiesCurrent ==
    /\ \A w \in Worker : req[w].pc # "idle" => CopyOf(req[w].snap, req[w].ref)
    /\ \A r \in Referral : batch[r] # AbsentRow => CopyOf(batch[r], r)

\* While a confirmation is between its two steps its referral stays pending,
\* and no second confirmation of the same referral has got as far.
LocksHeld ==
    \A w \in Worker : req[w].pc = "decided" =>
        /\ row[req[w].ref].status = "PENDING_CONFIRMATION"
        /\ \A v \in Worker : req[v].pc = "decided" /\ req[v].ref = req[w].ref => v = w

CaseRows(c) == {r \in Referral : row[r].status # "ABSENT" /\ row[r].case = c}

\* The referrals reached from the roots of a case in at most n steps along
\* parent_referral, among the rows of that case.
Reached(c) ==
    LET rows == CaseRows(c)
        reach[n \in 0 .. Cardinality(Referral)] ==
            IF n = 0 THEN {r \in rows : row[r].parent = None}
            ELSE reach[n - 1] \cup {r \in rows : row[r].parent \in reach[n - 1]}
    IN  reach

\* Wrong: only the children of a root are drawn, not theirs.
StackOfTwoLevels(c) ==
    LET roots == {r \in CaseRows(c) : row[r].parent = None}
    IN  roots \cup {r \in CaseRows(c) : row[r].parent \in roots}

\* build_referral_stack.
Stack(c) == Reached(c)[Cardinality(Referral)]

\* The stack of a case shows every referral the case has.
StackComplete ==
    \A r \in Referral : row[r].status # "ABSENT" => r \in Stack(row[r].case)

\* The engine implements the life cycle.
Promise == INSTANCE ReferralLifecycle
             WITH status <- [r \in Referral |-> row[r].status],
                  replacement <- [r \in Referral |-> row[r].replacement]

ImplementsLifecycle == Promise!LifecycleSpec

\* Every request is answered, also the ones that wait for a row lock.
RequestsFinish == \A w \in Worker : req[w].pc # "idle" ~> req[w].pc = "idle"

\* The sweep's docstring: it closes referrals no partner ever answered.
AbandonOnlyUnanswered ==
    [][\A r \in Referral :
          batch[r] # AbsentRow /\ batch'[r] = AbsentRow /\ row'[r] # row[r]
              => row[r].status = "PENDING_CONFIRMATION"]_vars

\* Status only moves along the table (a PATCH is not one of the routes).
StatusFollowsTable ==
    [][\A r \in Referral :
          \/ row'[r].status = row[r].status
          \/ <<row[r].status, row'[r].status>> \in TRANSITIONS
          \/ row[r] = AbsentRow]_vars
=============================================================================
