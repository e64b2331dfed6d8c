------------------------ MODULE ReferralEngineProofs ------------------------
(***************************************************************************)
(* What holds of ReferralEngine for every number of referrals, workers,    *)
(* cases and categories, and for every cap.                                *)
(***************************************************************************)
EXTENDS ReferralEngine, FiniteSetTheorems, NaturalsInduction, WellFoundedInduction, TLAPS

-----------------------------------------------------------------------------
(* Types.                                                                  *)

\* A worker that is not idle works on a referral, for an endpoint that runs.
BusyHasRow ==
    \A w \in Worker : req[w].pc # "idle" => req[w].ref \in Referral

TypeInv == TypeOK /\ BusyHasRow

\* The empty row and the idle request are well formed.
LEMMA ConstantsTyped == AbsentRow \in Row /\ Idle \in Request
  BY DEF AbsentRow, Row, Idle, Request, Status, Trigger, Confirmation

\* What save() writes is a row, when the copy it starts from is one.
LEMMA SavedTyped ==
    ASSUME TypeOK, NEW r \in Referral, NEW snap \in Row, NEW to \in Status
    PROVE  Saved(r, snap, to) \in Row
<1>1. snap.confirmation \in Confirmation /\ row[r].group \in Referral \cup {None}
  BY DEF TypeOK, Row
<1>2. Answered(row[r].status, to, snap.confirmation) \in Confirmation
  BY <1>1 DEF Answered, Confirmation
<1> QED BY <1>1, <1>2 DEF Saved, Row

\* An inserted referral is a row.
LEMMA NewRowTyped ==
    ASSUME NEW c \in Case \cup {None}, NEW k \in Category, NEW t \in Trigger,
           NEW p \in Referral \cup {None}
    PROVE  NewRow(c, k, t, p) \in Row
  BY DEF NewRow, AbsentRow, Row, Status, Confirmation

\* The statuses the endpoints aim at are statuses.
LEMMA TargetTyped == \A op : Target(op) \in Status
  BY DEF Target, Status

\* Initially everything is empty.
LEMMA TypeInit == Init => TypeInv
  BY ConstantsTyped DEF Init, TypeInv, TypeOK, BusyHasRow, Idle

\* Answering a request leaves an idle request.
LEMMA ReplyTyped ==
    ASSUME TypeInv, NEW w \in Worker, Reply(w)
    PROVE  /\ req' \in [Worker -> Request]
           /\ BusyHasRow'
  BY ConstantsTyped DEF TypeInv, TypeOK, BusyHasRow, Reply, Idle

\* A decision changes nothing but the group and the siblings to stamp.
LEMMA DecideHolds ==
    ASSUME TypeInv, NEW w \in Worker, Decide(w)
    PROVE  /\ req' \in [Worker -> Request]
           /\ \A v \in Worker : /\ v # w => req'[v] = req[v]
                               /\ req'[v].ref = req[v].ref
                               /\ req'[v].snap = req[v].snap
           /\ req'[w].pc = "decided"
<1> DEFINE sibs == Siblings(req[w].ref, req[w].snap.case)
           Held(g, stamp) == [req[w] EXCEPT !.pc = "decided", !.gid = g, !.stamp = stamp]
<1>1. req[w].ref \in Referral
  BY DEF Decide, Running, TypeInv, BusyHasRow
<1>2. \A s \in Referral : row[s].group \in Referral \cup {None}
  BY DEF TypeInv, TypeOK, Row
<1>3. sibs \subseteq Referral
  BY DEF Siblings, CountedActive
<1>4. \A g \in GroupFor(req[w].ref, sibs) : g \in Referral \cup {None}
  BY <1>1, <1>2, <1>3 DEF GroupFor
<1>5. PICK g \in Referral \cup {None}, stamp \in SUBSET Referral :
         req' = [req EXCEPT ![w] = Held(g, stamp)]
  <2>1. CASE req[w].snap.category \in ExemptCategory
    BY <1>1, <1>2, <2>1 DEF Decide
  <2>2. CASE req[w].snap.category \notin ExemptCategory
    <3>1. PICK g \in GroupFor(req[w].ref, sibs) :
             req' = [req EXCEPT ![w] = Held(g, ToStamp(sibs, g))]
      BY <2>2 DEF Decide
    <3>2. ToStamp(sibs, g) \in SUBSET Referral
      BY <1>3 DEF ToStamp
    <3> QED BY <1>4, <3>1, <3>2
  <2> QED BY <2>1, <2>2
<1>6. Held(g, stamp) \in Request
  BY DEF TypeInv, TypeOK, Request
<1> QED BY <1>5, <1>6 DEF TypeInv, TypeOK, Request

\* Every step keeps the types.
LEMMA TypeStep == TypeInv /\ [Next]_vars => TypeInv'
<1> SUFFICES ASSUME TypeInv, [Next]_vars PROVE TypeInv'
  OBVIOUS
<1> USE EngineAssumption DEF TypeInv
<1>1. ASSUME NEW r \in Referral, NEW c \in Case, NEW k \in Category, Initiate(r, c, k)
      PROVE  TypeInv'
  <2>1. NewRow(c, k, "MANUAL", None) \in Row
    BY NewRowTyped DEF Trigger
  <2> QED BY <1>1, <2>1 DEF Initiate, TypeOK, BusyHasRow
<1>2. ASSUME NEW w \in Worker, NEW op \in Ops, NEW r \in Referral, Load(w, op, r)
      PROVE  TypeInv'
  <2>1. [Idle EXCEPT !.pc = "loaded", !.op = op, !.ref = r, !.snap = row[r]] \in Request
    BY ConstantsTyped DEF Request, TypeOK
  <2> QED BY <1>2, <2>1 DEF Load, TypeOK, BusyHasRow, Idle
<1>3. ASSUME NEW w \in Worker, Decide(w) PROVE TypeInv'
  <2>1. req' \in [Worker -> Request]
    BY <1>3, DecideHolds DEF TypeOK, Request
  <2>2. BusyHasRow'
    BY <1>3, DecideHolds DEF BusyHasRow, Decide, Running
  <2> QED BY <1>3, <2>1, <2>2 DEF Decide, TypeOK
<1>4. ASSUME NEW w \in Worker, Commit(w) PROVE TypeInv'
  <2>1. req[w].ref \in Referral /\ req[w].snap \in Row /\ req[w].gid \in Referral \cup {None}
    BY <1>4 DEF Commit, Running, BusyHasRow, TypeOK, Request
  <2>2. Saved(req[w].ref, req[w].snap, "ACTIVE") \in Row
    BY <2>1, SavedTyped DEF Status
  <2>3. [Saved(req[w].ref, req[w].snap, "ACTIVE") EXCEPT !.group = req[w].gid] \in Row
    BY <2>1, <2>2 DEF Row
  <2>4. \A s \in Referral : [row[s] EXCEPT !.group = req[w].gid] \in Row
    BY <2>1 DEF TypeOK, Row
  <2>5. row' \in [Referral -> Row]
    BY <1>4, <2>3, <2>4 DEF Commit, TypeOK
  <2> QED BY <1>4, <2>5, ReplyTyped DEF Commit, TypeOK
<1>5. ASSUME NEW w \in Worker, NEW op \in Ops, Close(w, op) PROVE TypeInv'
  <2>1. req[w].ref \in Referral /\ req[w].snap \in Row
    BY <1>5 DEF Close, Running, BusyHasRow, TypeOK, Request
  <2>2. Saved(req[w].ref, req[w].snap, Target(op)) \in Row
    BY <2>1, SavedTyped, TargetTyped
  <2> QED BY <1>5, <2>2, ReplyTyped DEF Close, TypeOK
<1>6. ASSUME NEW w \in Worker, NEW o \in Outcome, Complete(w, o) PROVE TypeInv'
  <2>1. req[w].ref \in Referral /\ req[w].snap \in Row
    BY <1>6 DEF Complete, Running, BusyHasRow, TypeOK, Request
  <2>2. Saved(req[w].ref, req[w].snap, "COMPLETED") \in Row
    BY <2>1, SavedTyped DEF Status
  <2>3. [Saved(req[w].ref, req[w].snap, "COMPLETED") EXCEPT !.outcome = o] \in Row
    BY <2>2 DEF Row
  <2>4. row' \in [Referral -> Row]
    BY <1>6, <2>3 DEF Complete, TypeOK
  <2>5. placed' \in [Case -> BOOLEAN]
    BY <1>6 DEF Complete, MarkPlaced, TypeOK
  <2> QED BY <1>6, <2>4, <2>5, ReplyTyped DEF Complete, TypeOK
<1>7. ASSUME NEW w \in Worker, NEW q \in Referral, NEW k \in Category, Replace(w, q, k)
      PROVE  TypeInv'
  <2>1. req[w].ref \in Referral /\ req[w].snap \in Row
    BY <1>7 DEF Replace, Running, BusyHasRow, TypeOK, Request
  <2>2. Saved(req[w].ref, req[w].snap, "REPLACED") \in Row
    BY <2>1, SavedTyped DEF Status
  <2>3. [Saved(req[w].ref, req[w].snap, "REPLACED") EXCEPT !.replacement = q] \in Row
    BY <2>2 DEF Row
  <2>4. NewRow(req[w].snap.case, k, "REPLACEMENT", req[w].ref) \in Row
    BY <2>1, NewRowTyped DEF Row, Trigger
  <2> QED BY <1>7, <2>3, <2>4, ReplyTyped DEF Replace, TypeOK
<1>8. ASSUME NEW w \in Worker, NEW q \in Referral, NEW k \in Category, Onward(w, q, k)
      PROVE  TypeInv'
  <2>1. req[w].ref \in Referral /\ req[w].snap \in Row
    BY <1>8 DEF Onward, Running, BusyHasRow, TypeOK, Request
  <2>2. NewRow(req[w].snap.case, k, "ONWARD", req[w].ref) \in Row
    BY <2>1, NewRowTyped DEF Row, Trigger
  <2> QED BY <1>8, <2>2, ReplyTyped DEF Onward, TypeOK
<1>9. ASSUME NEW w \in Worker, NEW c \in Case, NEW k \in Category, Edit(w, c, k)
      PROVE  TypeInv'
  <2>1. req[w].ref \in Referral /\ req[w].snap \in Row
    BY <1>9 DEF Edit, Running, BusyHasRow, TypeOK, Request
  <2>2. [req[w].snap EXCEPT !.case = c, !.category = k] \in Row
    BY <2>1 DEF Row
  <2> QED BY <1>9, <2>2, ReplyTyped DEF Edit, TypeOK
<1>10. ASSUME NEW w \in Worker, Refuse(w) \/ Abort(w) PROVE TypeInv'
  BY <1>10, ReplyTyped DEF Refuse, Abort, TypeOK
<1>11. ASSUME NEW S \in SUBSET Referral, SweepFetch(S) PROVE TypeInv'
  BY <1>11, ConstantsTyped DEF SweepFetch, TypeOK, BusyHasRow
<1>12. ASSUME NEW r \in Referral, SweepFail(r) PROVE TypeInv'
  <2>1. Saved(r, batch[r], "FAILED") \in Row
    BY SavedTyped DEF Status, TypeOK
  <2> QED BY <1>12, <2>1, ConstantsTyped DEF SweepFail, TypeOK, BusyHasRow
<1>13. ASSUME NEW r \in Referral, SweepRaise(r) PROVE TypeInv'
  BY <1>13, ConstantsTyped DEF SweepRaise, TypeOK, BusyHasRow
<1>14. CASE UNCHANGED vars
  BY <1>14 DEF vars, TypeOK, BusyHasRow
<1> QED
  BY <1>1, <1>2, <1>3, <1>4, <1>5, <1>6, <1>7, <1>8, <1>9, <1>10, <1>11, <1>12,
     <1>13, <1>14 DEF Next, Work

\* Rows, copies and requests stay well formed whatever endpoints run.
THEOREM EngineTypes == Spec => []TypeOK
<1>1. TypeInv => TypeOK
  BY DEF TypeInv
<1> QED BY TypeInit, TypeStep, <1>1, PTL DEF Spec

-----------------------------------------------------------------------------
(* The parallel cap.                                                       *)

CapFor(c) ==
    Cardinality(CountedActive(c)) + Cardinality(Deciding(c))
        <= MaxParallel + Cardinality(Worker) - 1

\* The sets that CapBound counts are finite.
LEMMA CapSetsFinite ==
    ASSUME NEW c \in Case
    PROVE  /\ IsFiniteSet(CountedActive(c)) /\ IsFiniteSet(CountedActive(c)')
           /\ IsFiniteSet(Deciding(c)) /\ IsFiniteSet(Deciding(c)')
           /\ IsFiniteSet(Worker)
  BY EngineAssumption, FS_Subset DEF CountedActive, Deciding

\* The bound survives a step that adds nothing to either set.
LEMMA CapShrinks ==
    ASSUME NEW c \in Case, CapFor(c),
           CountedActive(c)' \subseteq CountedActive(c),
           Deciding(c)' \subseteq Deciding(c)
    PROVE  CapFor(c)'
<1>1. /\ Cardinality(CountedActive(c)') <= Cardinality(CountedActive(c))
      /\ Cardinality(Deciding(c)') <= Cardinality(Deciding(c))
  BY CapSetsFinite, FS_Subset
<1>2. /\ Cardinality(CountedActive(c)) \in Nat /\ Cardinality(CountedActive(c)') \in Nat
      /\ Cardinality(Deciding(c)) \in Nat /\ Cardinality(Deciding(c)') \in Nat
      /\ Cardinality(Worker) \in Nat /\ MaxParallel \in Nat
  BY CapSetsFinite, FS_CardinalityType, EngineAssumption
<1> QED BY <1>1, <1>2 DEF CapFor

\* At most all the workers are deciding.
LEMMA DecidingBounded ==
    ASSUME NEW c \in Case
    PROVE  Cardinality(Deciding(c)') <= Cardinality(Worker)
  BY CapSetsFinite, FS_Subset DEF Deciding

\* A confirmation that passes the cap check establishes the bound afresh:
\* it has just seen fewer active referrals than the cap allows.
LEMMA CapDecide ==
    ASSUME TypeInv, NEW w \in Worker, Decide(w), NEW c \in Case, CapFor(c)
    PROVE  CapFor(c)'
<1> DEFINE snap == req[w].snap
<1>1. CountedActive(c)' = CountedActive(c)
  BY DEF Decide, CountedActive, Counted
<1>2. req[w].ref \in Referral
  BY DEF Decide, Running, TypeInv, BusyHasRow
<1>3. \A v \in Worker : req'[v].snap = req[v].snap /\ (v # w => req'[v] = req[v])
  BY DecideHolds
<1>4. CASE snap.case = c /\ snap.category \notin ExemptCategory
  <2>1. row[req[w].ref].status # "ACTIVE"
    BY DEF Decide, CanMove, TRANSITIONS
  <2>2. Siblings(req[w].ref, c) = CountedActive(c)
    BY <2>1 DEF Siblings, CountedActive, Counted
  <2>3. ~CapReached(CountedActive(c))
    BY <1>4, <2>2 DEF Decide
  <2>4. /\ Cardinality(CountedActive(c)) \in Nat /\ Cardinality(Deciding(c)') \in Nat
        /\ Cardinality(Worker) \in Nat /\ MaxParallel \in Nat
    BY CapSetsFinite, FS_CardinalityType, EngineAssumption
  <2>5. Cardinality(CountedActive(c)') < MaxParallel
    BY <1>1, <2>3, <2>4 DEF CapReached
  <2> QED BY <1>1, <2>4, <2>5, DecidingBounded DEF CapFor
<1>5. CASE ~(snap.case = c /\ snap.category \notin ExemptCategory)
  <2>1. Deciding(c)' \subseteq Deciding(c)
    BY <1>3, <1>5 DEF Deciding
  <2> QED BY <1>1, <2>1, CapShrinks
<1> QED BY <1>4, <1>5

\* A committed confirmation trades one deciding worker for one active row.
LEMMA CapCommit ==
    ASSUME TypeInv, NEW w \in Worker, Commit(w), NEW c \in Case, CapFor(c)
    PROVE  CapFor(c)'
<1> DEFINE r == req[w].ref
           snap == req[w].snap
<1>1. r \in Referral /\ snap \in Row
  BY DEF Commit, Running, TypeInv, TypeOK, BusyHasRow, Request
<1>2. /\ row'[r].case = snap.case
      /\ row'[r].category = snap.category
  BY <1>1 DEF Commit, Saved, TypeInv, TypeOK, Row
<1>3. \A s \in Referral \ {r} : /\ row'[s].status = row[s].status
                                /\ row'[s].case = row[s].case
                                /\ row'[s].category = row[s].category
  BY <1>1 DEF Commit, TypeInv, TypeOK, Row
<1>4. Deciding(c)' = Deciding(c) \ {w}
  BY DEF Commit, Reply, Idle, Deciding, TypeInv, TypeOK
<1>5. CASE snap.case = c /\ snap.category \notin ExemptCategory
  <2>1. w \in Deciding(c)
    BY <1>5 DEF Deciding, Commit, Running
  <2>2. CountedActive(c)' \subseteq CountedActive(c) \cup {r}
    BY <1>3 DEF CountedActive, Counted
  <2>3. /\ IsFiniteSet(CountedActive(c) \cup {r})
        /\ Cardinality(CountedActive(c) \cup {r}) <= Cardinality(CountedActive(c)) + 1
    <3> HIDE DEF r
    <3>1. IsFiniteSet(CountedActive(c))
      BY CapSetsFinite
    <3>2. /\ IsFiniteSet(CountedActive(c) \cup {r})
          /\ Cardinality(CountedActive(c) \cup {r}) =
                IF r \in CountedActive(c) THEN Cardinality(CountedActive(c))
                                         ELSE Cardinality(CountedActive(c)) + 1
      BY <3>1, FS_AddElement
    <3>3. Cardinality(CountedActive(c)) \in Nat
      BY <3>1, FS_CardinalityType
    <3> QED BY <3>2, <3>3
  <2>4. Cardinality(CountedActive(c)') <= Cardinality(CountedActive(c) \cup {r})
    BY <2>2, <2>3, FS_Subset
  <2>5. Cardinality(Deciding(c)') = Cardinality(Deciding(c)) - 1
    BY <1>4, <2>1, CapSetsFinite, FS_RemoveElement
  <2>6. /\ Cardinality(CountedActive(c)) \in Nat /\ Cardinality(CountedActive(c)') \in Nat
        /\ Cardinality(CountedActive(c) \cup {r}) \in Nat
        /\ Cardinality(Deciding(c)) \in Nat /\ Cardinality(Deciding(c)') \in Nat
        /\ Cardinality(Worker) \in Nat /\ MaxParallel \in Nat
    BY <2>3, CapSetsFinite, FS_CardinalityType, EngineAssumption
  <2> QED BY <2>3, <2>4, <2>5, <2>6 DEF CapFor
<1>6. CASE ~(snap.case = c /\ snap.category \notin ExemptCategory)
  <2>1. CountedActive(c)' \subseteq CountedActive(c)
    BY <1>2, <1>3, <1>6 DEF CountedActive, Counted
  <2> QED BY <1>4, <2>1, CapShrinks
<1> QED BY <1>5, <1>6

\* Replying takes a worker out of the deciding ones.
LEMMA ReplyDeciding ==
    ASSUME TypeInv, NEW w \in Worker, Reply(w), NEW c \in Case
    PROVE  Deciding(c)' \subseteq Deciding(c)
  BY DEF TypeInv, TypeOK, Reply, Idle, Deciding

\* A step that makes no row active, and moves none, adds nothing to count.
LEMMA NothingCounted ==
    ASSUME NEW c \in Case,
           \A s \in Referral : row'[s] = row[s] \/ row'[s].status # "ACTIVE"
    PROVE  CountedActive(c)' \subseteq CountedActive(c)
  BY DEF CountedActive, Counted

\* Every step but a PATCH keeps the bound.
LEMMA CapStep ==
    ASSUME "edit" \notin Ops
    PROVE  TypeInv /\ CapBound /\ [Next]_vars => CapBound'
<1> SUFFICES ASSUME TypeInv, CapBound, [Next]_vars, NEW c \in Case
             PROVE  CapFor(c)'
  BY DEF CapBound, CapFor
<1> CapFor(c)
  BY DEF CapBound, CapFor
<1>1. ASSUME NEW r \in Referral, NEW d \in Case, NEW k \in Category, Initiate(r, d, k)
      PROVE  CapFor(c)'
  <2>1. \A s \in Referral : row'[s] = row[s] \/ row'[s].status # "ACTIVE"
    BY <1>1 DEF Initiate, NewRow, AbsentRow, TypeInv, TypeOK
  <2>2. Deciding(c)' \subseteq Deciding(c)
    BY <1>1 DEF Initiate, Deciding
  <2> QED BY <2>1, <2>2, NothingCounted, CapShrinks
<1>2. ASSUME NEW w \in Worker, NEW op \in Ops, NEW r \in Referral, Load(w, op, r)
      PROVE  CapFor(c)'
  <2>1. CountedActive(c)' \subseteq CountedActive(c)
    BY <1>2 DEF Load, CountedActive, Counted
  <2>2. Deciding(c)' \subseteq Deciding(c)
    BY <1>2 DEF Load, Deciding, Idle, TypeInv, TypeOK
  <2> QED BY <2>1, <2>2, CapShrinks
<1>3. ASSUME NEW w \in Worker, Decide(w) PROVE CapFor(c)'
  BY <1>3, CapDecide
<1>4. ASSUME NEW w \in Worker, Commit(w) PROVE CapFor(c)'
  BY <1>4, CapCommit
<1>5. ASSUME NEW w \in Worker, NEW op \in Ops, Close(w, op) PROVE CapFor(c)'
  <2>1. Saved(req[w].ref, req[w].snap, Target(op)).status # "ACTIVE"
    BY <1>5 DEF Close, Saved, Target, TypeInv, TypeOK, Request, Row
  <2>2. \A s \in Referral : row'[s] = row[s] \/ row'[s].status # "ACTIVE"
    BY <1>5, <2>1 DEF Close, TypeInv, TypeOK
  <2> QED BY <1>5, <2>2, ReplyDeciding, NothingCounted, CapShrinks DEF Close
<1>6. ASSUME NEW w \in Worker, NEW o \in Outcome, Complete(w, o) PROVE CapFor(c)'
  <2>1. [Saved(req[w].ref, req[w].snap, "COMPLETED") EXCEPT !.outcome = o].status # "ACTIVE"
    BY DEF Saved, TypeInv, TypeOK, Request, Row
  <2>2. \A s \in Referral : row'[s] = row[s] \/ row'[s].status # "ACTIVE"
    BY <1>6, <2>1 DEF Complete, TypeInv, TypeOK
  <2> QED BY <1>6, <2>2, ReplyDeciding, NothingCounted, CapShrinks DEF Complete
<1>7. ASSUME NEW w \in Worker, NEW q \in Referral, NEW k \in Category, Replace(w, q, k)
      PROVE  CapFor(c)'
  <2>1. [Saved(req[w].ref, req[w].snap, "REPLACED") EXCEPT !.replacement = q].status # "ACTIVE"
    BY DEF Saved, TypeInv, TypeOK, Request, Row
  <2>2. NewRow(req[w].snap.case, k, "REPLACEMENT", req[w].ref).status # "ACTIVE"
    BY DEF NewRow, AbsentRow
  <2>3. \A s \in Referral : row'[s] = row[s] \/ row'[s].status # "ACTIVE"
    BY <1>7, <2>1, <2>2 DEF Replace, TypeInv, TypeOK
  <2> QED BY <1>7, <2>3, ReplyDeciding, NothingCounted, CapShrinks DEF Replace
<1>8. ASSUME NEW w \in Worker, NEW q \in Referral, NEW k \in Category, Onward(w, q, k)
      PROVE  CapFor(c)'
  <2>1. NewRow(req[w].snap.case, k, "ONWARD", req[w].ref).status # "ACTIVE"
    BY DEF NewRow, AbsentRow
  <2>2. \A s \in Referral : row'[s] = row[s] \/ row'[s].status # "ACTIVE"
    BY <1>8, <2>1 DEF Onward, TypeInv, TypeOK
  <2> QED BY <1>8, <2>2, ReplyDeciding, NothingCounted, CapShrinks DEF Onward
<1>9. ASSUME NEW w \in Worker, NEW d \in Case, NEW k \in Category, Edit(w, d, k)
      PROVE  FALSE
  BY <1>9 DEF Edit, Running
<1>10. ASSUME NEW w \in Worker, Refuse(w) \/ Abort(w) PROVE CapFor(c)'
  <2>1. CountedActive(c)' \subseteq CountedActive(c)
    BY <1>10 DEF Refuse, Abort, CountedActive, Counted
  <2> QED BY <1>10, <2>1, ReplyDeciding, CapShrinks DEF Refuse, Abort
<1>11. ASSUME NEW r \in Referral, SweepFail(r) PROVE CapFor(c)'
  <2>1. Saved(r, batch[r], "FAILED").status # "ACTIVE"
    BY DEF Saved, TypeInv, TypeOK, Row
  <2>2. \A s \in Referral : row'[s] = row[s] \/ row'[s].status # "ACTIVE"
    BY <1>11, <2>1 DEF SweepFail, TypeInv, TypeOK
  <2>3. Deciding(c)' \subseteq Deciding(c)
    BY <1>11 DEF SweepFail, Deciding
  <2> QED BY <2>2, <2>3, NothingCounted, CapShrinks
<1>12. CASE UNCHANGED <<row, req>>
  BY <1>12, CapShrinks DEF CountedActive, Counted, Deciding
<1> QED
  BY <1>1, <1>2, <1>3, <1>4, <1>5, <1>6, <1>7, <1>8, <1>9, <1>10, <1>11, <1>12
     DEF Next, Work, SweepFetch, SweepRaise, vars

\* Nothing is active and nobody decides at the start.
LEMMA CapInit == Init => CapBound
<1> SUFFICES ASSUME Init, NEW c \in Case PROVE CapFor(c)
  BY DEF CapBound, CapFor
<1>1. CountedActive(c) = {} /\ Deciding(c) = {}
  BY DEF Init, CountedActive, Counted, Deciding, AbsentRow, Idle
<1>2. Cardinality(Worker) \in Nat /\ MaxParallel \in Nat \ {0}
  BY EngineAssumption, FS_CardinalityType
<1> QED BY <1>1, <1>2, FS_EmptySet DEF CapFor

\* However many confirmations run together, a case exceeds the cap by less
\* than the number of workers; with one worker the cap is exact.  Only a
\* PATCH, which can move an active referral to another case or to a category
\* that counts, is outside the theorem.
THEOREM EngineCap ==
    ASSUME "edit" \notin Ops
    PROVE  Spec => []CapBound
<1>1. Init => TypeInv /\ CapBound
  BY TypeInit, CapInit
<1>2. TypeInv /\ CapBound /\ [Next]_vars => (TypeInv /\ CapBound)'
  BY TypeStep, CapStep
<1> QED BY <1>1, <1>2, PTL DEF Spec

\* With one worker the cap holds to the letter.
THEOREM EngineExactCap ==
    ASSUME "edit" \notin Ops, Cardinality(Worker) = 1
    PROVE  Spec => []ParallelCap
<1>1. CapBound => ParallelCap
  <2> SUFFICES ASSUME CapBound, NEW c \in Case
               PROVE  Cardinality(CountedActive(c)) <= MaxParallel
    BY DEF ParallelCap
  <2>1. /\ Cardinality(CountedActive(c)) \in Nat /\ Cardinality(Deciding(c)) \in Nat
        /\ MaxParallel \in Nat
    BY CapSetsFinite, FS_CardinalityType, EngineAssumption
  <2> QED BY <2>1 DEF CapBound
<1> QED BY <1>1, EngineCap, PTL

-----------------------------------------------------------------------------
(* The life cycle.                                                         *)

LifeInv == TypeInv /\ CopiesCurrent /\ LocksHeld /\ ReplacementExact

\* The columns that say which referral it is.
Kept(s) ==
    /\ row'[s].case = row[s].case /\ row'[s].category = row[s].category
    /\ row'[s].trigger = row[s].trigger /\ row'[s].parent = row[s].parent

Quiet(s) ==
    Kept(s) /\ row'[s].status = row[s].status /\ row'[s].replacement = row[s].replacement

Born(q, t, p) ==
    /\ row[q] = AbsentRow
    /\ row'[q].status = "PENDING_CONFIRMATION"
    /\ row'[q].replacement = None
    /\ row'[q].trigger = t /\ row'[q].parent = p
    /\ p # None => row[p].status # "ABSENT" /\ row'[q].case = row[p].case

\* The four things a step can do to the rows.
InsertStep(q, t, p) ==
    t \in {"MANUAL", "ONWARD"} /\ Born(q, t, p) /\ \A s \in Referral \ {q} : Quiet(s)

MoveStep(r, to) ==
    /\ to # "REPLACED" /\ <<row[r].status, to>> \in TRANSITIONS
    /\ Kept(r) /\ row'[r].status = to /\ row'[r].replacement = row[r].replacement
    /\ \A s \in Referral \ {r} : Quiet(s)

ReplaceStep(r, q) ==
    /\ row[r].status = "FAILED"
    /\ Kept(r) /\ row'[r].status = "REPLACED" /\ row'[r].replacement = q
    /\ Born(q, "REPLACEMENT", r)
    /\ \A s \in Referral \ {r, q} : Quiet(s)

RowsStep ==
    \/ \A s \in Referral : Quiet(s)
    \/ \E q \in Referral, t \in Trigger, p \in Referral \cup {None} : InsertStep(q, t, p)
    \/ \E r \in Referral, to \in Status : MoveStep(r, to)
    \/ \E r, q \in Referral : ReplaceStep(r, q)

\* What transition_to saves on a legal edge: the identity and the link of the
\* row, because the copy agrees with the row on both.
LEMMA SavedKeeps ==
    ASSUME LifeInv, NEW r \in Referral, NEW snap \in Row, NEW to \in Status,
           CopyOf(snap, r), row[r].status # "REPLACED"
    PROVE  /\ Saved(r, snap, to).status = to
           /\ Saved(r, snap, to).case = row[r].case
           /\ Saved(r, snap, to).category = row[r].category
           /\ Saved(r, snap, to).trigger = row[r].trigger
           /\ Saved(r, snap, to).parent = row[r].parent
           /\ Saved(r, snap, to).replacement = row[r].replacement
<1>1. row[r].replacement = None
  BY DEF LifeInv, ReplacementExact
<1>2. snap.replacement = None
  BY DEF CopyOf
<1> QED BY <1>1, <1>2 DEF Saved, CopyOf, Row

\* What an insert writes.
LEMMA NewRowFields ==
    ASSUME NEW c, NEW k, NEW t, NEW p
    PROVE  /\ NewRow(c, k, t, p).status = "PENDING_CONFIRMATION"
           /\ NewRow(c, k, t, p).replacement = None
           /\ NewRow(c, k, t, p).trigger = t /\ NewRow(c, k, t, p).parent = p
           /\ NewRow(c, k, t, p).case = c
  BY DEF NewRow, AbsentRow

\* A busy worker's copy is current.
LEMMA BusyCopy ==
    ASSUME LifeInv, NEW w \in Worker, req[w].pc # "idle"
    PROVE  /\ req[w].ref \in Referral /\ req[w].snap \in Row
           /\ CopyOf(req[w].snap, req[w].ref)
  BY DEF LifeInv, CopiesCurrent, TypeInv, TypeOK, BusyHasRow, Request

\* Without PATCH every step is one of the four.
LEMMA EveryRowsStep ==
    ASSUME "edit" \notin Ops, LifeInv, [Next]_vars
    PROVE  RowsStep
<1> USE DEF LifeInv, TypeInv, TypeOK
<1>1. ASSUME NEW r \in Referral, NEW c \in Case, NEW k \in Category, Initiate(r, c, k)
      PROVE  InsertStep(r, "MANUAL", None)
  BY <1>1, NewRowFields DEF Initiate, InsertStep, Born, Quiet, Kept
<1>2. ASSUME NEW w \in Worker, Commit(w) PROVE MoveStep(req[w].ref, "ACTIVE")
  <2> DEFINE r == req[w].ref
             new == [Saved(r, req[w].snap, "ACTIVE") EXCEPT !.group = req[w].gid]
  <2>1. r \in Referral /\ req[w].snap \in Row /\ CopyOf(req[w].snap, r)
    BY <1>2, BusyCopy DEF Commit, Running
  <2>2. row[r].status = "PENDING_CONFIRMATION"
    BY <1>2 DEF Commit, Running, LocksHeld
  <2>3. Saved(r, req[w].snap, "ACTIVE") \in Row
    BY <2>1, SavedTyped DEF Status
  <2>4. /\ new.status = "ACTIVE" /\ new.replacement = row[r].replacement
        /\ new.case = row[r].case /\ new.category = row[r].category
        /\ new.trigger = row[r].trigger /\ new.parent = row[r].parent
    BY <2>1, <2>2, <2>3, SavedKeeps DEF Status, Row
  <2>5. row'[r] = new
    BY <1>2, <2>1 DEF Commit
  <2>6. \A s \in Referral \ {r} : Quiet(s)
    BY <1>2, <2>1 DEF Commit, Quiet, Kept, Row
  <2> QED BY <2>2, <2>4, <2>5, <2>6 DEF MoveStep, Kept, TRANSITIONS
<1>3. ASSUME NEW w \in Worker, NEW op \in Ops, Close(w, op)
      PROVE  MoveStep(req[w].ref, Target(op))
  <2> DEFINE r == req[w].ref
             new == Saved(r, req[w].snap, Target(op))
  <2>1. r \in Referral /\ req[w].snap \in Row /\ CopyOf(req[w].snap, r)
    BY <1>3, BusyCopy DEF Close, Running
  <2>2. <<row[r].status, Target(op)>> \in TRANSITIONS /\ Target(op) # "REPLACED"
    BY <1>3 DEF Close, CanMove, Target
  <2>3. row[r].status # "REPLACED"
    BY <2>2 DEF TRANSITIONS
  <2>4. row'[r] = new /\ \A s \in Referral \ {r} : row'[s] = row[s]
    BY <1>3, <2>1 DEF Close
  <2> QED BY <2>1, <2>2, <2>3, <2>4, SavedKeeps, TargetTyped DEF MoveStep, Kept, Quiet
<1>4. ASSUME NEW w \in Worker, NEW o \in Outcome, Complete(w, o)
      PROVE  MoveStep(req[w].ref, "COMPLETED")
  <2> DEFINE r == req[w].ref
             old == Saved(r, req[w].snap, "COMPLETED")
             new == [old EXCEPT !.outcome = o]
  <2>1. r \in Referral /\ req[w].snap \in Row /\ CopyOf(req[w].snap, r)
    BY <1>4, BusyCopy DEF Complete, Running
  <2>2. <<row[r].status, "COMPLETED">> \in TRANSITIONS
    BY <1>4 DEF Complete, CanMove
  <2>3. row[r].status # "REPLACED"
    BY <2>2 DEF TRANSITIONS
  <2>4. old \in Row
    BY <2>1, SavedTyped DEF Status
  <2>5. /\ new.status = "COMPLETED" /\ new.replacement = row[r].replacement
        /\ new.case = row[r].case /\ new.category = row[r].category
        /\ new.trigger = row[r].trigger /\ new.parent = row[r].parent
    BY <2>1, <2>3, <2>4, SavedKeeps DEF Status, Row
  <2>6. row'[r] = new /\ \A s \in Referral \ {r} : row'[s] = row[s]
    BY <1>4, <2>1 DEF Complete
  <2> QED BY <2>2, <2>5, <2>6 DEF MoveStep, Kept, Quiet
<1>5. ASSUME NEW w \in Worker, NEW q \in Referral, NEW k \in Category, Replace(w, q, k)
      PROVE  ReplaceStep(req[w].ref, q)
  <2> DEFINE r == req[w].ref
             old == Saved(r, req[w].snap, "REPLACED")
             new == [old EXCEPT !.replacement = q]
  <2>1. r \in Referral /\ req[w].snap \in Row /\ CopyOf(req[w].snap, r)
    BY <1>5, BusyCopy DEF Replace, Running
  <2>2. row[r].status = "FAILED"
    BY <1>5 DEF Replace, CanMove, TRANSITIONS
  <2>3. row[q] = AbsentRow /\ q # r
    BY <1>5, <2>2 DEF Replace, AbsentRow
  <2>4. old \in Row
    BY <2>1, SavedTyped DEF Status
  <2>5. /\ new.status = "REPLACED" /\ new.replacement = q
        /\ new.case = row[r].case /\ new.category = row[r].category
        /\ new.trigger = row[r].trigger /\ new.parent = row[r].parent
    BY <2>1, <2>2, <2>4, SavedKeeps DEF Status, Row
  <2>6. /\ row'[r] = new
        /\ row'[q] = NewRow(req[w].snap.case, k, "REPLACEMENT", r)
        /\ \A s \in Referral \ {r, q} : row'[s] = row[s]
    BY <1>5, <2>1, <2>3 DEF Replace
  <2>7. row[r].status # "ABSENT" /\ req[w].snap.case = row[r].case
    BY <2>1 DEF CopyOf
  <2> QED BY <2>2, <2>3, <2>5, <2>6, <2>7, NewRowFields DEF ReplaceStep, Kept, Quiet, Born
<1>6. ASSUME NEW w \in Worker, NEW q \in Referral, NEW k \in Category, Onward(w, q, k)
      PROVE  InsertStep(q, "ONWARD", req[w].ref) /\ req[w].ref \in Referral
  <2>1. /\ req[w].ref \in Referral /\ row[req[w].ref].status # "ABSENT"
        /\ req[w].snap.case = row[req[w].ref].case
    BY <1>6, BusyCopy DEF Onward, Running, CopyOf
  <2> QED BY <1>6, <2>1, NewRowFields DEF Onward, InsertStep, Born, Quiet, Kept
<1>7. ASSUME NEW w \in Worker, NEW c \in Case, NEW k \in Category, Edit(w, c, k)
      PROVE  FALSE
  BY <1>7 DEF Edit, Running
<1>8. ASSUME NEW r \in Referral, SweepFail(r) PROVE MoveStep(r, "FAILED")
  <2> DEFINE new == Saved(r, batch[r], "FAILED")
  <2>1. batch[r] \in Row /\ CopyOf(batch[r], r)
    BY <1>8 DEF SweepFail, CopiesCurrent
  <2>2. <<row[r].status, "FAILED">> \in TRANSITIONS
    BY <1>8 DEF SweepFail, CanMove
  <2>3. row[r].status # "REPLACED"
    BY <2>2 DEF TRANSITIONS
  <2>4. row'[r] = new /\ \A s \in Referral \ {r} : row'[s] = row[s]
    BY <1>8 DEF SweepFail
  <2> QED BY <2>1, <2>2, <2>3, <2>4, SavedKeeps DEF MoveStep, Kept, Quiet, Status
<1>9. CASE UNCHANGED row
  BY <1>9 DEF RowsStep, Quiet, Kept
<1>10. \A op : Target(op) \in Status
  BY TargetTyped
<1>11. ASSUME NEW w \in Worker, Commit(w) \/ \E op \in Ops : Close(w, op)
                              \/ \E o \in Outcome : Complete(w, o)
       PROVE  req[w].ref \in Referral
  BY <1>11, BusyCopy DEF Commit, Close, Complete, Running
<1>12. ASSUME NEW w \in Worker, NEW q \in Referral, NEW k \in Category, Replace(w, q, k)
       PROVE  req[w].ref \in Referral
  BY <1>12, BusyCopy DEF Replace, Running
<1>13. CASE \E w \in Worker : Work(w) \/ Abort(w)
  <2> PICK w \in Worker : Work(w) \/ Abort(w)
    BY <1>13
  <2>1. CASE Commit(w)
    BY <2>1, <1>2, <1>11 DEF RowsStep, Status
  <2>2. CASE \E op \in Ops : Close(w, op)
    BY <2>2, <1>3, <1>10, <1>11 DEF RowsStep
  <2>3. CASE \E o \in Outcome : Complete(w, o)
    <3> PICK o \in Outcome : Complete(w, o)
      BY <2>3
    <3>1. MoveStep(req[w].ref, "COMPLETED")
      BY <1>4
    <3>2. req[w].ref \in Referral
      BY BusyCopy DEF Complete, Running
    <3>3. "COMPLETED" \in Status
      BY DEF Status
    <3> QED BY <3>1, <3>2, <3>3 DEF RowsStep
  <2>4. CASE \E q \in Referral, k \in Category : Replace(w, q, k)
    BY <2>4, <1>5, <1>12 DEF RowsStep
  <2>5. CASE \E q \in Referral, k \in Category : Onward(w, q, k)
    BY <2>5, <1>6 DEF RowsStep, Trigger
  <2>6. CASE Decide(w) \/ Refuse(w) \/ Abort(w)
    BY <2>6, <1>9 DEF Decide, Refuse, Abort
  <2> QED BY <2>1, <2>2, <2>3, <2>4, <2>5, <2>6, <1>7 DEF Work
<1>14. CASE \E r \in Referral, c \in Case, k \in Category : Initiate(r, c, k)
  BY <1>14, <1>1 DEF RowsStep, Trigger
<1>15. CASE \E r \in Referral : SweepFail(r)
  BY <1>15, <1>8 DEF RowsStep, Status
<1> QED
  BY <1>9, <1>13, <1>14, <1>15 DEF Next, Load, SweepFetch, SweepRaise, vars

\* Whatever a step does, a row keeps its identity once it exists, and stays
\* Replaced once it is: so a copy that was current stays current.
LEMMA CopiesAge ==
    ASSUME LifeInv, RowsStep, NEW r \in Referral, NEW snap \in Row, CopyOf(snap, r)
    PROVE  CopyOf(snap, r)'
<1>1. row[r] # AbsentRow
  BY DEF CopyOf, AbsentRow
<1>2. CASE \A s \in Referral : Quiet(s)
  BY <1>2 DEF Quiet, Kept, CopyOf
<1>3. ASSUME NEW q \in Referral, NEW t \in Trigger, NEW p \in Referral \cup {None},
             InsertStep(q, t, p)
      PROVE  CopyOf(snap, r)'
  BY <1>1, <1>3 DEF InsertStep, Born, Quiet, Kept, CopyOf
<1>4. ASSUME NEW q \in Referral, NEW to \in Status, MoveStep(q, to) PROVE CopyOf(snap, r)'
  <2>1. CASE r = q
    BY <1>4, <2>1 DEF MoveStep, Kept, CopyOf, TRANSITIONS
  <2>2. CASE r # q
    BY <1>4, <2>2 DEF MoveStep, Quiet, Kept, CopyOf
  <2> QED BY <2>1, <2>2
<1>5. ASSUME NEW p \in Referral, NEW q \in Referral, ReplaceStep(p, q) PROVE CopyOf(snap, r)'
  <2>1. CASE r = p
    BY <1>5, <2>1 DEF ReplaceStep, Kept, CopyOf
  <2>2. CASE r # p
    BY <1>1, <1>5, <2>2 DEF ReplaceStep, Born, Quiet, Kept, CopyOf
  <2> QED BY <2>1, <2>2
<1> QED BY <1>2, <1>3, <1>4, <1>5 DEF RowsStep

\* A copy just taken is current.
LEMMA CopiesStartCurrent ==
    ASSUME LifeInv, NEW r \in Referral, row[r].status # "ABSENT"
    PROVE  CopyOf(row[r], r)
  BY DEF LifeInv, ReplacementExact, CopyOf

\* Copies stay current.
LEMMA CopiesStep ==
    ASSUME LifeInv, RowsStep, [Next]_vars
    PROVE  CopiesCurrent'
<1>1. ASSUME NEW w \in Worker, req'[w].pc # "idle"
      PROVE  CopyOf(req[w].snap, req[w].ref)' 
  <2>1. CASE /\ req[w].pc # "idle" 
             /\ req'[w].snap = req[w].snap /\ req'[w].ref = req[w].ref
    BY <2>1, BusyCopy, CopiesAge DEF CopyOf
  <2>2. CASE \E op \in Ops, r \in Referral : Load(w, op, r)
    <3>1. PICK op \in Ops, r \in Referral : Load(w, op, r)
      BY <2>2
    <3>2. req'[w].snap = row[r] /\ req'[w].ref = r /\ row' = row
      BY <3>1 DEF Load, Idle, LifeInv, TypeInv, TypeOK
    <3> QED BY <3>1, <3>2, CopiesStartCurrent DEF CopyOf, Load
  <2>3. ASSUME NEW v \in Worker, Reply(v) PROVE v # w /\ req'[w] = req[w]
    BY <2>3, <1>1 DEF Reply, Idle, LifeInv, TypeInv, TypeOK
  <2>4. ASSUME NEW v \in Worker, v # w, NEW op \in Ops, NEW r \in Referral, Load(v, op, r)
        PROVE  req'[w] = req[w]
    BY <2>4 DEF Load, LifeInv, TypeInv, TypeOK
  <2>5. ASSUME NEW v \in Worker, Decide(v)
        PROVE  req[w].pc # "idle" /\ req'[w].snap = req[w].snap /\ req'[w].ref = req[w].ref
    BY <2>5, <1>1, DecideHolds DEF LifeInv, Decide, Running
  <2> QED
    BY <1>1, <2>1, <2>2, <2>3, <2>4, <2>5
       DEF Next, Work, Initiate, Commit, Close, Complete, Replace, Onward, Edit, Refuse,
           Abort, SweepFetch, SweepFail, SweepRaise, vars
<1>2. ASSUME NEW r \in Referral, batch'[r] # AbsentRow
      PROVE  CopyOf(batch[r], r)'
  <2>1. CASE batch'[r] = batch[r]
    BY <1>2, <2>1, CopiesAge DEF LifeInv, TypeInv, TypeOK, CopiesCurrent, CopyOf
  <2>2. CASE \E S \in SUBSET Referral : SweepFetch(S)
    <3>1. batch'[r] = row[r] /\ row[r].status = "PENDING_CONFIRMATION" /\ row' = row
      BY <1>2, <2>2 DEF SweepFetch
    <3> QED BY <3>1, CopiesStartCurrent DEF CopyOf
  <2>3. ASSUME NEW q \in Referral, SweepFail(q) \/ SweepRaise(q) PROVE batch'[r] = batch[r]
    BY <1>2, <2>3 DEF SweepFail, SweepRaise, LifeInv, TypeInv, TypeOK
  <2> QED
    BY <2>1, <2>2, <2>3
       DEF Next, Work, Initiate, Load, Decide, Commit, Close, Complete, Replace, Onward,
           Edit, Refuse, Abort, vars
<1> QED BY <1>1, <1>2 DEF CopiesCurrent, CopyOf

\* A confirmation that has decided keeps its referral pending: everybody else
\* who would move it waits for the lock.
LEMMA LocksStep ==
    ASSUME "edit" \notin Ops, LifeInv, [Next]_vars
    PROVE  LocksHeld'
<1> USE DEF LifeInv, TypeInv, TypeOK
<1>1. ASSUME NEW w \in Worker, req'[w].pc = "decided", req[w].pc = "decided", req'[w] = req[w],
             UNCHANGED row
      PROVE  row'[req'[w].ref].status = "PENDING_CONFIRMATION"
  BY <1>1 DEF LocksHeld
<1>2. ASSUME NEW v \in Worker, Decide(v) PROVE LocksHeld'
  <2>1. /\ LockFree(req[v].ref)
        /\ row[req[v].ref].status = "PENDING_CONFIRMATION"
        /\ UNCHANGED row
    BY <1>2 DEF Decide, CanMove, TRANSITIONS
  <2>2. \A w \in Worker : /\ w # v => req'[w] = req[w]
                          /\ req'[w].ref = req[w].ref
    BY <1>2, DecideHolds
  <2> QED BY <2>1, <2>2 DEF LocksHeld, LockFree
<1>3. ASSUME NEW v \in Worker, Reply(v)
      PROVE  \A w \in Worker : req'[w].pc = "decided" => w # v /\ req'[w] = req[w]
  BY <1>3 DEF Reply, Idle
<1>4. ASSUME NEW v \in Worker, Commit(v) PROVE LocksHeld'
  <2> DEFINE r == req[v].ref
  <2>1. \A w \in Worker : req'[w].pc = "decided" => w # v /\ req'[w] = req[w]
    BY <1>4, <1>3 DEF Commit
  <2>2. \A w \in Worker : w # v /\ req[w].pc = "decided" => req[w].ref # r
    BY <1>4 DEF Commit, Running, LocksHeld
  <2>3. \A s \in Referral \ {r} : row'[s].status = row[s].status
    BY <1>4 DEF Commit, Row
  <2>4. \A w \in Worker : req[w].pc = "decided" => req[w].ref \in Referral
    BY DEF BusyHasRow
  <2> QED BY <2>1, <2>2, <2>3, <2>4 DEF LocksHeld
<1>5. ASSUME NEW v \in Worker, NEW r \in Referral, NEW q \in Referral, Reply(v), LockFree(r),
             row[q] = AbsentRow \/ q = r,
             \A s \in Referral \ {r, q} : row'[s] = row[s]
      PROVE  LocksHeld'
  <2>1. \A w \in Worker : req'[w].pc = "decided" => w # v /\ req'[w] = req[w]
    BY <1>5, <1>3
  <2>2. \A w \in Worker : req[w].pc = "decided" =>
           req[w].ref \in Referral /\ req[w].ref # r /\ req[w].ref # q
    BY <1>5 DEF LocksHeld, LockFree, BusyHasRow, AbsentRow
  <2> QED BY <1>5, <2>1, <2>2 DEF LocksHeld
<1>6. ASSUME NEW v \in Worker, NEW op \in Ops, Close(v, op) PROVE LocksHeld'
  <2>1. req[v].ref \in Referral
    BY <1>6 DEF Close, Running, BusyHasRow
  <2>2. Reply(v) /\ LockFree(req[v].ref) /\ \A s \in Referral \ {req[v].ref} : row'[s] = row[s]
    BY <1>6, <2>1 DEF Close, CanMove
  <2> QED BY <2>1, <2>2, <1>5
<1>7. ASSUME NEW v \in Worker, NEW o \in Outcome, Complete(v, o) PROVE LocksHeld'
  <2>1. req[v].ref \in Referral
    BY <1>7 DEF Complete, Running, BusyHasRow
  <2>2. Reply(v) /\ LockFree(req[v].ref) /\ \A s \in Referral \ {req[v].ref} : row'[s] = row[s]
    BY <1>7, <2>1 DEF Complete, CanMove
  <2> QED BY <2>1, <2>2, <1>5
<1>8. ASSUME NEW v \in Worker, NEW q \in Referral, NEW k \in Category, Replace(v, q, k)
      PROVE  LocksHeld'
  <2>1. req[v].ref \in Referral
    BY <1>8 DEF Replace, Running, BusyHasRow
  <2>2. /\ Reply(v) /\ LockFree(req[v].ref) /\ row[q] = AbsentRow
        /\ \A s \in Referral \ {req[v].ref, q} : row'[s] = row[s]
    BY <1>8, <2>1 DEF Replace, CanMove
  <2> QED BY <2>1, <2>2, <1>5
<1>9. ASSUME NEW v \in Worker, NEW q \in Referral, NEW k \in Category, Onward(v, q, k)
      PROVE  LocksHeld'
  <2>1. \A w \in Worker : req'[w].pc = "decided" => w # v /\ req'[w] = req[w]
    BY <1>9, <1>3 DEF Onward
  <2>2. \A w \in Worker : req[w].pc = "decided" => req[w].ref \in Referral \ {q}
    BY <1>9 DEF Onward, LocksHeld, BusyHasRow, AbsentRow
  <2>3. \A s \in Referral \ {q} : row'[s] = row[s]
    BY <1>9 DEF Onward
  <2> QED BY <2>1, <2>2, <2>3 DEF LocksHeld
<1>10. ASSUME NEW v \in Worker, NEW c \in Case, NEW k \in Category, Edit(v, c, k) PROVE FALSE
  BY <1>10 DEF Edit, Running
<1>11. ASSUME NEW v \in Worker, Refuse(v) \/ Abort(v) PROVE LocksHeld'
  <2>1. \A w \in Worker : req'[w].pc = "decided" => w # v /\ req'[w] = req[w]
    BY <1>11, <1>3 DEF Refuse, Abort
  <2> QED BY <1>11, <2>1 DEF LocksHeld, Refuse, Abort
<1>12. ASSUME NEW r \in Referral, NEW c \in Case, NEW k \in Category, Initiate(r, c, k)
       PROVE  LocksHeld'
  <2>1. \A w \in Worker : req[w].pc = "decided" => req[w].ref \in Referral \ {r}
    BY <1>12 DEF Initiate, LocksHeld, BusyHasRow, AbsentRow
  <2> QED BY <1>12, <2>1 DEF LocksHeld, Initiate
<1>13. ASSUME NEW r \in Referral, SweepFail(r) PROVE LocksHeld'
  <2>1. \A w \in Worker : req[w].pc = "decided" => req[w].ref \in Referral \ {r}
    BY <1>13 DEF SweepFail, CanMove, LockFree, BusyHasRow
  <2> QED BY <1>13, <2>1 DEF LocksHeld, SweepFail
<1>14. ASSUME NEW v \in Worker, NEW op \in Ops, NEW r \in Referral, Load(v, op, r)
       PROVE  LocksHeld'
  <2>1. \A w \in Worker : req'[w].pc = "decided" => req'[w] = req[w]
    BY <1>14 DEF Load, Idle
  <2> QED BY <1>14, <2>1 DEF LocksHeld, Load
<1>15. CASE UNCHANGED <<row, req>>
  BY <1>15 DEF LocksHeld
<1> QED
  BY <1>2, <1>4, <1>6, <1>7, <1>8, <1>9, <1>10, <1>11, <1>12, <1>13, <1>14, <1>15
     DEF Next, Work, SweepFetch, SweepRaise, vars

\* Links stay exact: a replacement is born together with the link to it, and
\* no other step writes a link or creates a replacing referral.
LEMMA LinksStep ==
    ASSUME LifeInv, RowsStep
    PROVE  ReplacementExact'
<1> USE DEF LifeInv, ReplacementExact
<1>1. CASE \A s \in Referral : Quiet(s)
  BY <1>1 DEF Quiet, Kept
<1>2. ASSUME NEW q \in Referral, NEW t \in Trigger, NEW p \in Referral \cup {None},
             InsertStep(q, t, p)
      PROVE  ReplacementExact'
  <2>1. row[q].status = "ABSENT" /\ row[q].trigger = "MANUAL" /\ row[q].replacement = None
    BY <1>2 DEF InsertStep, Born, AbsentRow
  <2> QED BY <1>2, <2>1 DEF InsertStep, Born, Quiet, Kept
<1>3. ASSUME NEW r \in Referral, NEW to \in Status, MoveStep(r, to) PROVE ReplacementExact'
  BY <1>3 DEF MoveStep, Quiet, Kept, TRANSITIONS
<1>4. ASSUME NEW r \in Referral, NEW q \in Referral, ReplaceStep(r, q)
      PROVE  ReplacementExact'
  <2>1. row[q].status = "ABSENT" /\ row[q].trigger = "MANUAL" /\ row[q].replacement = None
    BY <1>4 DEF ReplaceStep, Born, AbsentRow
  <2>2. row[r].replacement = None /\ q # r
    BY <1>4, <2>1 DEF ReplaceStep
  <2>3. \A s \in Referral : ~(row[s].trigger = "REPLACEMENT" /\ row[s].parent = r)
    BY <2>2, EngineAssumption
  <2>4. \A s \in Referral : row[s].replacement # q
    BY <2>1
  <2>5. q # None
    BY EngineAssumption
  <2> QED BY <1>4, <2>1, <2>2, <2>3, <2>4, <2>5 DEF ReplaceStep, Born, Quiet, Kept
<1> QED BY <1>1, <1>2, <1>3, <1>4 DEF RowsStep

\* At the start there are no copies, no locks and no links.
LEMMA LifeInit == Init => LifeInv
<1> SUFFICES ASSUME Init PROVE CopiesCurrent /\ LocksHeld /\ ReplacementExact
  BY TypeInit DEF LifeInv
<1>1. CopiesCurrent /\ LocksHeld
  BY DEF Init, CopiesCurrent, LocksHeld, Idle
<1>2. ReplacementExact
  BY EngineAssumption DEF Init, ReplacementExact, AbsentRow
<1> QED BY <1>1, <1>2

\* LifeInv is inductive when no PATCH runs.
LEMMA LifeStep ==
    ASSUME "edit" \notin Ops
    PROVE  LifeInv /\ [Next]_vars => LifeInv'
<1> SUFFICES ASSUME LifeInv, [Next]_vars PROVE LifeInv'
  OBVIOUS
<1>1. RowsStep
  BY EveryRowsStep
<1>2. TypeInv'
  BY TypeStep DEF LifeInv
<1> QED BY <1>1, <1>2, CopiesStep, LocksStep, LinksStep DEF LifeInv

\* No referral is replaced twice, and the two links of a replacement always
\* agree, however many requests hold copies of the failed referral.
THEOREM EngineReplacement ==
    ASSUME "edit" \notin Ops
    PROVE  Spec => []ReplacementExact
<1>1. LifeInv => ReplacementExact
  BY DEF LifeInv
<1> QED BY LifeInit, LifeStep, <1>1, PTL DEF Spec

\* A decided confirmation holds its referral pending, and holds it alone.
THEOREM EngineLocks ==
    ASSUME "edit" \notin Ops
    PROVE  Spec => []LocksHeld
<1>1. LifeInv => LocksHeld
  BY DEF LifeInv
<1> QED BY LifeInit, LifeStep, <1>1, PTL DEF Spec

\* A step of the engine is a step of the life cycle, or none.
LEMMA EngineStepIsLifecycleStep ==
    ASSUME "edit" \notin Ops, LifeInv, [Next]_vars, LifeInv'
    PROVE  [Promise!LifecycleNext]_(Promise!lifecycleVars)
<1> USE DEF Promise!LifecycleNext, Promise!lifecycleVars
<1>1. CASE \A s \in Referral : Quiet(s)
  BY <1>1 DEF Quiet
<1>2. ASSUME NEW q \in Referral, NEW t \in Trigger, NEW p \in Referral \cup {None},
             InsertStep(q, t, p)
      PROVE  Promise!Create(q)
  <2>1. row[q].status = "ABSENT" /\ row[q].replacement = None
    BY <1>2 DEF InsertStep, Born, AbsentRow
  <2> QED BY <1>2, <2>1 DEF InsertStep, Born, Quiet, Promise!Create
<1>3. ASSUME NEW r \in Referral, NEW to \in Status, MoveStep(r, to)
      PROVE  Promise!Move(r, to)
  BY <1>3 DEF MoveStep, Quiet, Promise!Move, Promise!Transitions, TRANSITIONS
<1>4. ASSUME NEW r \in Referral, NEW q \in Referral, ReplaceStep(r, q)
      PROVE  Promise!Replace(r, q)
  <2>1. row[q].status = "ABSENT" /\ row[q].replacement = None /\ q # r
    BY <1>4 DEF ReplaceStep, Born, AbsentRow
  <2> QED BY <1>4, <2>1 DEF ReplaceStep, Born, Quiet, Promise!Replace, Promise!Transitions
<1>5. Promise!Status = Status
  BY DEF Promise!Status, Status
<1> QED BY <1>1, <1>2, <1>3, <1>4, <1>5, EveryRowsStep DEF RowsStep

\* The engine, with its unlocked copies, its row locks and its sweep,
\* implements the life cycle of a referral.
THEOREM EngineImplementsLifecycle ==
    ASSUME "edit" \notin Ops
    PROVE  Spec => ImplementsLifecycle
<1>1. Init => Promise!LifecycleInit
  BY DEF Init, AbsentRow, Promise!LifecycleInit
<1>2. LifeInv /\ LifeInv' /\ [Next]_vars => [Promise!LifecycleNext]_(Promise!lifecycleVars)
  BY EngineStepIsLifecycleStep
<1> QED
  BY LifeInit, LifeStep, <1>1, <1>2, PTL DEF Spec, ImplementsLifecycle, Promise!LifecycleSpec

-----------------------------------------------------------------------------
(* The stack.  Referrals are made one after another, each in the case of   *)
(* its parent: so the order in which they were made bounds the number of   *)
(* steps in which one is reached.                                          *)

LEMMA LeastNat ==
    ASSUME NEW S \in SUBSET Nat, S # {}
    PROVE  \E m \in S : \A k \in S : m <= k
<1> DEFINE R == {ss \in Nat \X Nat : ss[1] < ss[2]}
<1>1. IsWellFoundedOn(R, Nat)
  BY NatLessThanWellFounded DEF OpToRel
<1> HIDE DEF R
<1>2. PICK m \in S : \A k \in S : ~ (<<k, m>> \in R)
  BY <1>1, WFMin
<1>3. \A k \in S : ~ (k < m)
  BY <1>2 DEF R
<1> QED
  BY <1>3

\* Induction over the natural numbers, stated of a set.
LEMMA NatSteps ==
    ASSUME NEW S, 0 \in S, \A n \in Nat : n \in S => n + 1 \in S
    PROVE  \A n \in Nat : n \in S
<1> SUFFICES ASSUME Nat \ S # {} PROVE FALSE
  OBVIOUS
<1>1. PICK m \in Nat \ S : \A k \in Nat \ S : m <= k
  BY LeastNat
<1>2. m # 0 /\ m - 1 \in Nat
  BY <1>1
<1>3. m - 1 \in S
  BY <1>1, <1>2
<1> QED
  BY <1>2, <1>3

\* Reached(c) is the function its definition describes.
LEMMA ReachedFacts ==
    ASSUME NEW c
    PROVE  /\ Cardinality(Referral) \in Nat
           /\ Reached(c)[0] = {r \in CaseRows(c) : row[r].parent = None}
           /\ \A n \in 1 .. Cardinality(Referral) :
                 Reached(c)[n] = Reached(c)[n - 1]
                                   \cup {r \in CaseRows(c) : row[r].parent \in Reached(c)[n - 1]}
<1> DEFINE N == Cardinality(Referral)
           Roots == {r \in CaseRows(c) : row[r].parent = None}
           Deeper(b) == b \cup {r \in CaseRows(c) : row[r].parent \in b}
           Defines(f, m) == f = [n \in 0 .. m |-> IF n = 0 THEN Roots ELSE Deeper(f[n - 1])]
           S == {m \in Nat : \E f : Defines(f, m)}
<1>0. N \in Nat
  BY EngineAssumption, FS_CardinalityType
<1> HIDE DEF Deeper, Roots, N
<1>1. 0 \in S
  <2>1. Defines([n \in 0 .. 0 |-> Roots], 0)
    OBVIOUS
  <2> QED
    BY <2>1
<1>2. ASSUME NEW m \in Nat, m \in S PROVE m + 1 \in S
  <2>1. PICK f : Defines(f, m)
    BY <1>2
  <2> DEFINE g == [n \in 0 .. m + 1 |-> IF n <= m THEN f[n] ELSE Deeper(f[m])]
  <2>2. \A n \in 0 .. m + 1 : g[n] = IF n = 0 THEN Roots ELSE Deeper(g[n - 1])
    <3> SUFFICES ASSUME NEW n \in 0 .. m + 1
                 PROVE  g[n] = IF n = 0 THEN Roots ELSE Deeper(g[n - 1])
      OBVIOUS
    <3>1. CASE n = 0
      BY <2>1, <3>1
    <3>2. CASE n \in 1 .. m
      <4>1. g[n] = f[n] /\ g[n - 1] = f[n - 1]
        BY <3>2
      <4>2. f[n] = Deeper(f[n - 1])
        BY <2>1, <3>2
      <4> QED
        BY <3>2, <4>1, <4>2
    <3>3. CASE n = m + 1
      BY <3>3
    <3> QED
      BY <3>1, <3>2, <3>3
  <2>3. \E h : Defines(h, m + 1)
    <3> SUFFICES Defines(g, m + 1)
      OBVIOUS
    <3> QED
      BY <2>2
  <2> QED
    BY <2>3
<1>3. \A m \in Nat : m \in S
  <2> HIDE DEF S
  <2> QED
    BY <1>1, <1>2, NatSteps
<1>4. \E f : Defines(f, N)
  BY <1>0, <1>3
<1>5. Reached(c) = CHOOSE f : Defines(f, N)
  BY DEF Reached, Deeper, Roots, N
<1>6. Defines(Reached(c), N)
  BY <1>4, <1>5
<1>7. Reached(c)[0] = Roots
  BY <1>0, <1>6
<1>8. ASSUME NEW n \in 1 .. N PROVE Reached(c)[n] = Deeper(Reached(c)[n - 1])
  <2>1. n \in 0 .. N /\ n # 0
    BY <1>0
  <2> QED
    BY <1>6, <2>1
<1> QED
  BY <1>0, <1>7, <1>8 DEF Deeper, Roots, N

Existing == {r \in Referral : row[r].status # "ABSENT"}

\* order numbers the referrals as they were made.
Numbers(order) ==
    \A r \in Existing :
        /\ order[r] < Cardinality(Existing)
        /\ row[r].parent # None =>
              /\ row[r].parent \in Existing
              /\ row[row[r].parent].case = row[r].case
              /\ order[row[r].parent] < order[r]

MadeInOrder == \E order \in [Referral -> Nat] : Numbers(order)

\* Made in this order, all are reached.
LEMMA OrderReaches ==
    ASSUME LifeInv, MadeInOrder
    PROVE  StackComplete
<1> DEFINE N == Cardinality(Referral)
<1>1. PICK order \in [Referral -> Nat] : Numbers(order)
  BY DEF MadeInOrder
<1>2. N \in Nat
  BY ReachedFacts
<1>3. Cardinality(Existing) \in Nat /\ Cardinality(Existing) <= N
  BY EngineAssumption, FS_Subset, FS_CardinalityType DEF Existing
<1> DEFINE By(n) == \A r \in Existing : order[r] <= n => r \in Reached(row[r].case)[n]
           S == {n \in Nat : n <= N => By(n)}
<1> HIDE DEF N
<1>4. 0 \in S
  <2> SUFFICES ASSUME NEW r \in Existing, order[r] <= 0
               PROVE  r \in Reached(row[r].case)[0]
    OBVIOUS
  <2>1. row[r].parent = None
    <3> SUFFICES ASSUME row[r].parent # None PROVE FALSE
      OBVIOUS
    <3>1. order[row[r].parent] < order[r] /\ row[r].parent \in Referral
      BY <1>1 DEF Numbers, Existing
    <3> QED
      BY <3>1 DEF Existing
  <2>2. r \in CaseRows(row[r].case)
    BY DEF CaseRows, Existing
  <2> QED
    BY <2>1, <2>2, ReachedFacts
<1>5. ASSUME NEW n \in Nat, n \in S PROVE n + 1 \in S
  <2> SUFFICES ASSUME n + 1 <= N, NEW r \in Existing, order[r] <= n + 1
               PROVE  r \in Reached(row[r].case)[n + 1]
    OBVIOUS
  <2> DEFINE c == row[r].case
             p == row[r].parent
  <2>1. By(n)
    BY <1>2, <1>5
  <2>2. r \in CaseRows(c) /\ r \in Referral
    BY DEF CaseRows, Existing
  <2>3. Reached(c)[n + 1] = Reached(c)[n] \cup {q \in CaseRows(c) : row[q].parent \in Reached(c)[n]}
    <3>1. n + 1 \in 1 .. N /\ (n + 1) - 1 = n
      BY <1>2
    <3> QED
      BY <3>1, ReachedFacts DEF N
  <2>4. CASE order[r] <= n
    BY <2>1, <2>3, <2>4
  <2>5. CASE ~ (order[r] <= n) /\ p # None
    <3>1. p \in Existing /\ row[p].case = c /\ order[p] < order[r]
      BY <1>1, <2>5 DEF Numbers
    <3>2. order[p] <= n
      BY <2>2, <3>1 DEF Existing
    <3>3. p \in Reached(c)[n]
      BY <2>1, <3>1, <3>2
    <3> QED
      BY <2>2, <2>3, <3>3
  <2>6. CASE p = None
    <3> DEFINE T == {m \in Nat : m <= N => r \in Reached(c)[m]}
    <3>1. 0 \in T
      BY <2>2, <2>6, ReachedFacts
    <3>2. ASSUME NEW m \in Nat, m \in T PROVE m + 1 \in T
      <4> SUFFICES ASSUME m + 1 <= N PROVE r \in Reached(c)[m + 1]
        OBVIOUS
      <4>1. m + 1 \in 1 .. N /\ (m + 1) - 1 = m /\ m <= N
        BY <1>2
      <4>2. Reached(c)[m] \subseteq Reached(c)[m + 1]
        BY <4>1, ReachedFacts DEF N
      <4> QED
        BY <3>2, <4>1, <4>2
    <3>3. \A m \in Nat : m \in T
      <4> HIDE DEF T
      <4> QED
        BY <3>1, <3>2, NatSteps
    <3> QED
      BY <3>3
  <2> QED
    BY <2>4, <2>5, <2>6
<1>6. \A n \in Nat : n \in S
  <2> HIDE DEF S
  <2> QED
    BY <1>4, <1>5, NatSteps
<1>7. ASSUME NEW r \in Referral, row[r].status # "ABSENT" PROVE r \in Stack(row[r].case)
  <2>1. r \in Existing
    BY <1>7 DEF Existing
  <2>2. order[r] <= N
    BY <1>1, <1>2, <1>3, <2>1 DEF Numbers
  <2>3. By(N)
    BY <1>2, <1>6
  <2> QED
    BY <2>1, <2>2, <2>3 DEF Stack, N
<1> QED
  BY <1>7 DEF StackComplete

\* One more referral takes the next number.
LEMMA BornInOrder ==
    ASSUME LifeInv, MadeInOrder, NEW q \in Referral, NEW t, NEW p \in Referral \cup {None},
           Born(q, t, p),
           \A s \in Referral \ {q} : Kept(s) /\ (row'[s].status = "ABSENT" <=> row[s].status = "ABSENT")
    PROVE  MadeInOrder'
<1>1. PICK order \in [Referral -> Nat] : Numbers(order)
  BY DEF MadeInOrder
<1> DEFINE n == Cardinality(Existing)
<1>2. q \notin Existing /\ Existing' = Existing \cup {q}
  BY DEF Born, Existing, AbsentRow
<1>3. n \in Nat /\ Cardinality(Existing') = n + 1
  <2>1. IsFiniteSet(Existing)
    BY EngineAssumption, FS_Subset DEF Existing
  <2> QED
    BY <1>2, <2>1, FS_CardinalityType, FS_AddElement
<1>4. PICK next \in [Referral -> Nat] : next[q] = n /\ \A s \in Referral \ {q} : next[s] = order[s]
  <2>1. [order EXCEPT ![q] = n] \in [Referral -> Nat]
    BY <1>3
  <2> QED
    BY <2>1
<1>5. ASSUME NEW r \in Existing
      PROVE  /\ next[r] < Cardinality(Existing')
             /\ row'[r].parent # None =>
                   /\ row'[r].parent \in Existing'
                   /\ row'[row'[r].parent].case = row'[r].case
                   /\ next[row'[r].parent] < next[r]
  <2>1. r \in Referral /\ r # q /\ order[r] < n /\ order[r] \in Nat
    BY <1>1, <1>2 DEF Existing, Numbers
  <2>2. row'[r].parent = row[r].parent /\ row'[r].case = row[r].case
    BY <2>1 DEF Kept
  <2>3. ASSUME row[r].parent # None
        PROVE  /\ row[r].parent \in Existing' /\ row'[row[r].parent].case = row'[r].case
               /\ next[row[r].parent] < next[r]
    <3>1. /\ row[r].parent \in Existing /\ row[row[r].parent].case = row[r].case
          /\ order[row[r].parent] < order[r]
      BY <1>1, <2>3 DEF Numbers
    <3>2. row[r].parent \in Referral /\ row[r].parent # q
      BY <1>2, <3>1 DEF Existing
    <3>3. row'[row[r].parent].case = row[row[r].parent].case
      BY <3>2 DEF Kept
    <3> QED
      BY <1>2, <1>4, <2>1, <2>2, <3>1, <3>2, <3>3
  <2> QED
    BY <1>3, <1>4, <2>1, <2>2, <2>3
<1>6. next[q] < Cardinality(Existing')
  BY <1>3, <1>4
<1>7. ASSUME p # None
      PROVE  p \in Existing' /\ row'[p].case = row'[q].case /\ next[p] < next[q]
  <2>1. p \in Referral /\ p \in Existing /\ p # q /\ row'[q].case = row[p].case
    BY <1>2, <1>7 DEF Born, Existing
  <2>2. order[p] < n /\ row'[p].case = row[p].case
    BY <1>1, <2>1 DEF Numbers, Kept
  <2> QED
    BY <1>2, <1>4, <2>1, <2>2
<1>8. row'[q].parent = p
  BY DEF Born
<1>9. Numbers(next)'
  BY <1>2, <1>5, <1>6, <1>7, <1>8 DEF Numbers
<1> QED
  BY <1>4, <1>9 DEF MadeInOrder

LEMMA OrderKept ==
    ASSUME LifeInv, MadeInOrder, RowsStep
    PROVE  MadeInOrder'
<1>1. ASSUME \A s \in Referral :
                Kept(s) /\ (row'[s].status = "ABSENT" <=> row[s].status = "ABSENT")
      PROVE  MadeInOrder'
  <2>1. PICK order \in [Referral -> Nat] : Numbers(order)
    BY DEF MadeInOrder
  <2>2. Existing' = Existing
    BY <1>1 DEF Existing
  <2>3. ASSUME NEW r \in Existing
        PROVE  /\ order[r] < Cardinality(Existing)
               /\ row'[r].parent # None =>
                     /\ row'[r].parent \in Existing
                     /\ row'[row'[r].parent].case = row'[r].case
                     /\ order[row'[r].parent] < order[r]
    <3>1. r \in Referral /\ row'[r].parent = row[r].parent /\ row'[r].case = row[r].case
      BY <1>1 DEF Kept, Existing
    <3>2. ASSUME row[r].parent # None
          PROVE  /\ row[r].parent \in Existing /\ row'[row[r].parent].case = row[r].case
                 /\ order[row[r].parent] < order[r]
      <4>1. /\ row[r].parent \in Existing /\ row[row[r].parent].case = row[r].case
            /\ order[row[r].parent] < order[r]
        BY <2>1, <3>2 DEF Numbers
      <4>2. Kept(row[r].parent)
        BY <1>1, <4>1 DEF Existing
      <4> QED
        BY <4>1, <4>2 DEF Kept
    <3>3. order[r] < Cardinality(Existing)
      BY <2>1 DEF Numbers
    <3> QED
      BY <3>1, <3>2, <3>3
  <2> QED
    BY <2>2, <2>3 DEF MadeInOrder, Numbers
<1>2. CASE \A s \in Referral : Quiet(s)
  BY <1>1, <1>2 DEF Quiet
<1>3. ASSUME NEW q \in Referral, NEW t \in Trigger, NEW p \in Referral \cup {None},
             InsertStep(q, t, p)
      PROVE  MadeInOrder'
  BY <1>3, BornInOrder DEF InsertStep, Quiet
<1>4. ASSUME NEW r \in Referral, NEW to \in Status, MoveStep(r, to) PROVE MadeInOrder'
  <2>1. row[r].status # "ABSENT" /\ to # "ABSENT"
    BY <1>4 DEF MoveStep, TRANSITIONS
  <2> QED
    BY <1>1, <1>4, <2>1 DEF MoveStep, Quiet
<1>5. ASSUME NEW r \in Referral, NEW q \in Referral, ReplaceStep(r, q) PROVE MadeInOrder'
  BY <1>5, BornInOrder DEF ReplaceStep, Quiet
<1> QED
  BY <1>2, <1>3, <1>4, <1>5 DEF RowsStep

\* However many replacements and onward referrals follow one another, the stack
\* of a case shows each of its referrals (build_referral_stack).
THEOREM EngineStack ==
    ASSUME "edit" \notin Ops
    PROVE  Spec => []StackComplete
<1>1. Init => MadeInOrder
  <2> SUFFICES ASSUME Init PROVE MadeInOrder
    OBVIOUS
  <2>1. Existing = {}
    BY DEF Init, Existing, AbsentRow
  <2>2. Numbers([r \in Referral |-> 0])
    BY <2>1 DEF Numbers
  <2> QED
    BY <2>2 DEF MadeInOrder
<1>2. LifeInv /\ MadeInOrder /\ [Next]_vars => MadeInOrder'
  BY EveryRowsStep, OrderKept
<1>3. LifeInv /\ MadeInOrder => StackComplete
  BY OrderReaches
<1> QED BY LifeInit, LifeStep, <1>1, <1>2, <1>3, PTL DEF Spec

-----------------------------------------------------------------------------
(* Groups.  Only a confirmation changes who is paired with whom.           *)

\* A referral is not paired before it runs, and whoever is about to be stamped
\* runs, or has run, in the case of the referral that brings the group.
PairedLate ==
    /\ \A r \in Referral :
          row[r].status \in {"ABSENT", "PENDING_CONFIRMATION"} => row[r].group = None
    /\ \A w \in Worker : req[w].pc = "decided" =>
          /\ \A s \in req[w].stamp :
                /\ s # req[w].ref /\ row[s].case = req[w].snap.case
                /\ row[s].status \notin {"ABSENT", "PENDING_CONFIRMATION"}
          /\ req[w].stamp # {} => /\ req[w].gid # None
                                  /\ req[w].snap.category \notin ExemptCategory

\* What transition_to saves on the row it moves.
LEMMA SavedFields ==
    ASSUME TypeOK, NEW r \in Referral, NEW snap \in Row, NEW to \in Status
    PROVE  Saved(r, snap, to).group = row[r].group /\ Saved(r, snap, to).status = to
  BY DEF Saved, Row

\* s is neither started nor paired.
Unstarted(s) ==
    /\ row'[s].group = row[s].group
    /\ row'[s].status = "ACTIVE" => row[s].status = "ACTIVE"

\* Nothing but the end of a confirmation starts a referral or pairs it.
LEMMA OnlyCommitPairs ==
    ASSUME "edit" \notin Ops, LifeInv, [Next]_vars, \A w \in Worker : ~Commit(w),
           NEW s \in Referral
    PROVE  Unstarted(s)
<1> USE DEF Unstarted, LifeInv, TypeInv, TypeOK
<1>1. ASSUME NEW q \in Referral, NEW c, NEW k, NEW t, NEW p, row[q] = AbsentRow
      PROVE  NewRow(c, k, t, p).group = row[q].group /\ NewRow(c, k, t, p).status # "ACTIVE"
  BY <1>1 DEF NewRow, AbsentRow
<1>2. CASE \E r \in Referral, c \in Case, k \in Category : Initiate(r, c, k)
  BY <1>1, <1>2 DEF Initiate
<1>3. ASSUME NEW w \in Worker, NEW op \in Ops, Close(w, op) PROVE Unstarted(s)
  <2>1. req[w].ref \in Referral /\ req[w].snap \in Row /\ Target(op) # "ACTIVE"
    BY <1>3, BusyCopy DEF Close, Running, Target
  <2>2. row' = [row EXCEPT ![req[w].ref] = Saved(req[w].ref, req[w].snap, Target(op))]
    BY <1>3 DEF Close
  <2> QED
    BY <2>1, <2>2, SavedFields, TargetTyped
<1>4. ASSUME NEW w \in Worker, NEW o \in Outcome, Complete(w, o) PROVE Unstarted(s)
  <2> DEFINE old == Saved(req[w].ref, req[w].snap, "COMPLETED")
             new == [old EXCEPT !.outcome = o]
  <2>1. req[w].ref \in Referral /\ req[w].snap \in Row
    BY <1>4, BusyCopy DEF Complete, Running
  <2>2. old \in Row /\ old.group = row[req[w].ref].group /\ old.status = "COMPLETED"
    BY <2>1, SavedFields, SavedTyped DEF Status
  <2>3. new.group = row[req[w].ref].group /\ new.status = "COMPLETED"
    BY <2>2 DEF Row
  <2>4. row' = [row EXCEPT ![req[w].ref] = new]
    BY <1>4 DEF Complete
  <2> QED
    BY <2>1, <2>3, <2>4
<1>5. ASSUME NEW w \in Worker, NEW q \in Referral, NEW k \in Category, Replace(w, q, k) PROVE Unstarted(s)
  <2> DEFINE old == Saved(req[w].ref, req[w].snap, "REPLACED")
             new == [old EXCEPT !.replacement = q]
  <2>1. req[w].ref \in Referral /\ req[w].snap \in Row /\ row[q] = AbsentRow
    BY <1>5, BusyCopy DEF Replace, Running
  <2>2. old \in Row /\ old.group = row[req[w].ref].group /\ old.status = "REPLACED"
    BY <2>1, SavedFields, SavedTyped DEF Status
  <2>3. new.group = row[req[w].ref].group /\ new.status = "REPLACED"
    BY <2>2 DEF Row
  <2>4. row' = [row EXCEPT ![req[w].ref] = new,
                           ![q] = NewRow(req[w].snap.case, k, "REPLACEMENT", req[w].ref)]
    BY <1>5 DEF Replace
  <2>5. row'[s] = IF s = q THEN NewRow(req[w].snap.case, k, "REPLACEMENT", req[w].ref)
                  ELSE IF s = req[w].ref THEN new ELSE row[s]
    BY <2>4
  <2> HIDE DEF new
  <2> QED
    BY <1>1, <2>1, <2>3, <2>5
<1>6. ASSUME NEW w \in Worker, NEW q \in Referral, NEW k \in Category, Onward(w, q, k) PROVE Unstarted(s)
  BY <1>1, <1>6 DEF Onward
<1>7. ASSUME NEW r \in Referral, SweepFail(r) PROVE Unstarted(s)
  <2>1. row' = [row EXCEPT ![r] = Saved(r, batch[r], "FAILED")]
    BY <1>7 DEF SweepFail
  <2>2. Saved(r, batch[r], "FAILED").group = row[r].group /\ Saved(r, batch[r], "FAILED").status = "FAILED"
    BY SavedFields DEF Status
  <2> QED
    BY <2>1, <2>2
<1>8. CASE UNCHANGED row
  BY <1>8
<1>9. ASSUME NEW w \in Worker, NEW c \in Case, NEW k \in Category, Edit(w, c, k)
      PROVE  FALSE
  BY <1>9 DEF Edit, Running
<1>10. CASE \E w \in Worker : Work(w) \/ Abort(w)
  <2> PICK w \in Worker : Work(w) \/ Abort(w)
    BY <1>10
  <2>1. CASE Decide(w) \/ Refuse(w) \/ Abort(w)
    BY <2>1, <1>8 DEF Decide, Refuse, Abort
  <2> QED
    BY <2>1, <1>3, <1>4, <1>5, <1>6, <1>9 DEF Work
<1> QED
  BY <1>2, <1>7, <1>8, <1>10 DEF Next, Load, SweepFetch, SweepRaise, vars

\* No status leads back to one before the confirmation, and no row changes its case.
LEMMA RowsAge ==
    ASSUME "edit" \notin Ops, LifeInv, [Next]_vars, NEW s \in Referral,
           row[s].status # "ABSENT"
    PROVE  /\ row'[s].status # "ABSENT" /\ row'[s].case = row[s].case
           /\ row'[s].category = row[s].category
           /\ row'[s].status = "PENDING_CONFIRMATION" => row[s].status = "PENDING_CONFIRMATION"
  BY EveryRowsStep DEF RowsStep, Quiet, Kept, InsertStep, MoveStep, ReplaceStep, Born, AbsentRow,
                       TRANSITIONS

\* What a confirmation decides on: the group its running siblings have or will be given.
LEMMA DecidedFields ==
    ASSUME TypeInv, NEW w \in Worker, Decide(w)
    PROVE  LET mates == Siblings(req[w].ref, req[w].snap.case)
           IN  /\ req'[w].snap.category \in ExemptCategory =>
                     req'[w].stamp = {} /\ req'[w].gid = row[req[w].ref].group
               /\ req'[w].snap.category \notin ExemptCategory =>
                     /\ req'[w].stamp = {s \in mates : row[s].group # req'[w].gid}
                     /\ mates # {} => req'[w].gid # None
<1> DEFINE r == req[w].ref
           mates == Siblings(r, req[w].snap.case)
           Held(g, stamp) == [req[w] EXCEPT !.pc = "decided", !.gid = g, !.stamp = stamp]
<1>1. r \in Referral /\ r # None /\ req[w] \in Request
  BY EngineAssumption DEF Decide, Running, TypeInv, TypeOK, BusyHasRow
<1>2. ASSUME NEW g, NEW stamp, req' = [req EXCEPT ![w] = Held(g, stamp)]
      PROVE  /\ req'[w].snap.category = req[w].snap.category
             /\ req'[w].gid = g /\ req'[w].stamp = stamp
  BY <1>1, <1>2 DEF TypeInv, TypeOK, Request
<1>3. CASE req[w].snap.category \in ExemptCategory
  <2>1. req' = [req EXCEPT ![w] = Held(row[r].group, {})]
    BY <1>3 DEF Decide
  <2> HIDE DEF Held
  <2> QED
    BY <1>2, <1>3, <2>1
<1>4. CASE req[w].snap.category \notin ExemptCategory
  <2>1. PICK g \in GroupFor(r, mates) : req' = [req EXCEPT ![w] = Held(g, ToStamp(mates, g))]
    BY <1>4 DEF Decide
  <2>2. mates # {} => g # None
    BY <1>1 DEF GroupFor
  <2> HIDE DEF Held, mates
  <2> QED
    BY <1>2, <1>4, <2>1, <2>2 DEF ToStamp, mates
<1> QED
  BY <1>3, <1>4

\* The rows after a confirmation has ended.
LEMMA CommitFields ==
    ASSUME LifeInv, NEW w \in Worker, Commit(w)
    PROVE  /\ req[w].pc = "decided" /\ req[w].ref \in Referral
           /\ row'[req[w].ref].group = req[w].gid
           /\ row'[req[w].ref].status = "ACTIVE"
           /\ \A s \in Referral \ {req[w].ref} :
                 /\ row'[s].group = IF s \in req[w].stamp THEN req[w].gid ELSE row[s].group
                 /\ row'[s].status = row[s].status
           /\ req' = [req EXCEPT ![w] = Idle]
<1> DEFINE r == req[w].ref
           old == Saved(r, req[w].snap, "ACTIVE")
           new == [old EXCEPT !.group = req[w].gid]
<1> USE DEF LifeInv, TypeInv, TypeOK
<1>1. req[w].pc = "decided" /\ r \in Referral /\ req[w].snap \in Row
  BY BusyCopy DEF Commit, Running
<1>2. old \in Row /\ old.status = "ACTIVE"
  BY <1>1, SavedTyped, SavedFields DEF Status
<1>3. new.group = req[w].gid /\ new.status = "ACTIVE"
  BY <1>2 DEF Row
<1>4. /\ row'[r] = new
      /\ \A s \in Referral \ {r} :
            row'[s] = IF s \in req[w].stamp THEN [row[s] EXCEPT !.group = req[w].gid] ELSE row[s]
  BY <1>1 DEF Commit
<1>5. \A s \in Referral \ {r} :
         /\ row'[s].group = IF s \in req[w].stamp THEN req[w].gid ELSE row[s].group
         /\ row'[s].status = row[s].status
  BY <1>4 DEF Row
<1> QED
  BY <1>1, <1>3, <1>4, <1>5 DEF Commit, Reply

\* Who is busy after a step was busy before it, with the same request, or has just begun.
LEMMA DecidedBefore ==
    ASSUME TypeInv, [Next]_vars, NEW w \in Worker, req'[w].pc = "decided"
    PROVE  \/ Decide(w)
           \/ req[w].pc = "decided" /\ req'[w] = req[w] /\ ~Commit(w)
<1> USE DEF TypeInv, TypeOK
<1>1. ASSUME NEW v \in Worker, Reply(v) PROVE v # w /\ req'[w] = req[w]
  BY <1>1 DEF Reply, Idle
<1>2. ASSUME Commit(w) PROVE FALSE
  BY <1>1, <1>2 DEF Commit
<1>3. CASE UNCHANGED req
  BY <1>2, <1>3
<1>4. CASE \E v \in Worker, op \in Ops, r \in Referral : Load(v, op, r)
  <2>1. PICK v \in Worker, op \in Ops, r \in Referral : Load(v, op, r)
    BY <1>4
  <2>2. v # w
    BY <2>1 DEF Load, Idle
  <2> QED
    BY <1>2, <2>1, <2>2 DEF Load
<1>5. CASE \E v \in Worker : Work(v) \/ Abort(v)
  <2>1. PICK v \in Worker : Work(v) \/ Abort(v)
    BY <1>5
  <2>2. CASE Decide(v)
    <3>1. v # w => req'[w] = req[w]
      BY <2>2, DecideHolds
    <3> QED
      BY <1>2, <2>2, <3>1
  <2>3. CASE Reply(v)
    BY <1>1, <1>2, <2>3
  <2> QED
    BY <2>1, <2>2, <2>3 DEF Work, Abort, Commit, Close, Complete, Replace, Onward, Edit, Refuse
<1> QED
  BY <1>3, <1>4, <1>5 DEF Next, Initiate, SweepFetch, SweepFail, SweepRaise, vars

LEMMA PairedLateKept ==
    ASSUME "edit" \notin Ops, LifeInv, PairedLate, [Next]_vars
    PROVE  PairedLate'
<1>1. ASSUME NEW r \in Referral, row'[r].status \in {"ABSENT", "PENDING_CONFIRMATION"}
      PROVE  row'[r].group = None
  <2>1. row[r].status \in {"ABSENT", "PENDING_CONFIRMATION"}
    BY <1>1, RowsAge
  <2>2. row[r].group = None
    BY <2>1 DEF PairedLate
  <2>3. CASE \A w \in Worker : ~Commit(w)
    BY <2>2, <2>3, OnlyCommitPairs DEF Unstarted
  <2>4. ASSUME NEW w \in Worker, Commit(w) PROVE row'[r].group = None
    <3>1. r # req[w].ref /\ req[w].pc = "decided"
      BY <1>1, <2>4, CommitFields
    <3>2. r \notin req[w].stamp
      BY <2>1, <3>1 DEF PairedLate
    <3> QED
      BY <2>2, <2>4, <3>1, <3>2, CommitFields
  <2> QED
    BY <2>3, <2>4
<1>2. ASSUME NEW w \in Worker, req'[w].pc = "decided"
      PROVE  /\ \A s \in req'[w].stamp :
                   /\ s # req'[w].ref /\ row'[s].case = req'[w].snap.case
                   /\ row'[s].status \notin {"ABSENT", "PENDING_CONFIRMATION"}
             /\ req'[w].stamp # {} => /\ req'[w].gid # None
                                      /\ req'[w].snap.category \notin ExemptCategory
  <2>1. CASE Decide(w)
    <3> DEFINE mates == Siblings(req[w].ref, req[w].snap.case)
    <3>1. \A s \in mates : /\ s # req[w].ref /\ row[s].case = req[w].snap.case
                           /\ row[s].status = "ACTIVE"
      BY DEF Siblings, CountedActive, Counted
    <3>2. req'[w].ref = req[w].ref /\ req'[w].snap = req[w].snap /\ row' = row
      BY <2>1, DecideHolds DEF Decide, LifeInv
    <3>3. req'[w].stamp \subseteq mates
      BY <2>1, DecidedFields DEF LifeInv
    <3>4. req'[w].stamp # {} => req'[w].gid # None /\ req'[w].snap.category \notin ExemptCategory
      BY <2>1, <3>3, DecidedFields DEF LifeInv
    <3> QED
      BY <3>1, <3>2, <3>3, <3>4
  <2>2. CASE req[w].pc = "decided" /\ req'[w] = req[w]
    <3>1. req[w].stamp \subseteq Referral
      BY DEF LifeInv, TypeInv, TypeOK, Request
    <3> QED
      BY <2>2, <3>1, RowsAge DEF PairedLate
  <2> QED
    BY <1>2, <2>1, <2>2, DecidedBefore DEF LifeInv
<1> QED
  BY <1>1, <1>2 DEF PairedLate

LEMMA PairedLateStarts == Init => PairedLate
  BY DEF Init, PairedLate, AbsentRow, Idle

\* A pairing that a sibling's confirmation stamped is never erased by a copy that
\* was taken before it (the parallel group is among what transition_to re-reads).
THEOREM EnginePairing ==
    ASSUME "edit" \notin Ops
    PROVE  Spec => PairingNeverErased
<1>1. ASSUME LifeInv, PairedLate, [Next]_vars
      PROVE  [\A r \in Referral : row[r].group # None => row'[r].group # None]_vars
  <2> SUFFICES ASSUME NEW r \in Referral, row[r].group # None PROVE row'[r].group # None
    OBVIOUS
  <2>1. CASE \A w \in Worker : ~Commit(w)
    BY <1>1, <2>1, OnlyCommitPairs DEF Unstarted
  <2>2. ASSUME NEW w \in Worker, Commit(w) PROVE row'[r].group # None
    <3>1. row[req[w].ref].group = None
      BY <1>1, <2>2, CommitFields DEF LifeInv, LocksHeld, PairedLate
    <3>2. r # req[w].ref /\ (r \in req[w].stamp => req[w].gid # None)
      BY <1>1, <2>2, <3>1, CommitFields DEF PairedLate
    <3> QED
      BY <1>1, <2>2, <3>2, CommitFields
  <2> QED
    BY <2>1, <2>2
<1>2. LifeInv /\ PairedLate /\ [Next]_vars => PairedLate'
  BY PairedLateKept
<1> QED
  BY LifeInit, LifeStep, PairedLateStarts, <1>1, <1>2, PTL DEF Spec, PairingNeverErased

\* Whoever is about to be confirmed brings the group that its siblings show or
\* will be stamped with.
GroupAgreed ==
    \A w \in Worker :
        LET mates == Siblings(req[w].ref, req[w].snap.case)
        IN  req[w].pc = "decided" /\ req[w].snap.category \notin ExemptCategory /\ mates # {} =>
              /\ req[w].gid # None
              /\ \A s \in mates : s \in req[w].stamp \/ row[s].group = req[w].gid

\* One worker: who decides is the only one who confirms.
LEMMA OneWorker ==
    ASSUME Cardinality(Worker) = 1, NEW v \in Worker, NEW w \in Worker
    PROVE  v = w
  BY EngineAssumption, FS_Singleton

LEMMA AgreedKept ==
    ASSUME "edit" \notin Ops, Cardinality(Worker) = 1, LifeInv, GroupAgreed, [Next]_vars
    PROVE  GroupAgreed'
<1> SUFFICES ASSUME NEW w \in Worker, req'[w].pc = "decided",
                    req'[w].snap.category \notin ExemptCategory,
                    Siblings(req[w].ref, req[w].snap.case)' # {}
             PROVE  /\ req'[w].gid # None
                    /\ \A s \in Siblings(req[w].ref, req[w].snap.case)' :
                          s \in req'[w].stamp \/ row'[s].group = req'[w].gid
  BY DEF GroupAgreed
<1> DEFINE mates == Siblings(req[w].ref, req[w].snap.case)
<1>1. CASE Decide(w)
  <2>1. req'[w].ref = req[w].ref /\ req'[w].snap = req[w].snap /\ row' = row
    BY <1>1, DecideHolds DEF Decide, LifeInv
  <2>2. mates' = mates
    BY <2>1 DEF Siblings, CountedActive, Counted
  <2> QED
    BY <1>1, <2>1, <2>2, DecidedFields DEF LifeInv
<1>2. CASE req[w].pc = "decided" /\ req'[w] = req[w] /\ ~Commit(w)
  <2>1. \A v \in Worker : ~Commit(v)
    BY <1>2, OneWorker
  <2>2. ASSUME NEW s \in mates' PROVE s \in mates /\ row'[s].group = row[s].group
    <3>1. s \in Referral /\ row'[s].status = "ACTIVE" /\ s # req[w].ref
          /\ row'[s].category \notin ExemptCategory /\ row'[s].case = req[w].snap.case
      BY <1>2, <2>2 DEF Siblings, CountedActive, Counted
    <3>2. row[s].status = "ACTIVE" /\ row'[s].group = row[s].group
      BY <2>1, <3>1, OnlyCommitPairs DEF Unstarted
    <3>3. row'[s].case = row[s].case /\ row'[s].category = row[s].category
      BY <3>1, <3>2, RowsAge
    <3> QED
      BY <3>1, <3>2, <3>3 DEF Siblings, CountedActive, Counted
  <2> QED
    BY <1>2, <2>2 DEF GroupAgreed
<1> QED
  BY <1>1, <1>2, DecidedBefore DEF LifeInv

LEMMA SharedKept ==
    ASSUME "edit" \notin Ops, Cardinality(Worker) = 1, LifeInv, PairedLate, GroupAgreed,
           GroupShared, [Next]_vars
    PROVE  GroupShared'
<1> SUFFICES ASSUME NEW c \in Case, NEW a \in CountedActive(c)', NEW b \in CountedActive(c)', a # b
             PROVE  row'[a].group # None /\ row'[a].group = row'[b].group
  BY DEF GroupShared
<1> DEFINE Was(s) == s \in CountedActive(c)
<1>1. a \in Referral /\ b \in Referral
  BY DEF CountedActive
<1>2. ASSUME NEW s \in CountedActive(c)', row[s].status = "ACTIVE" PROVE Was(s)
  BY <1>2, RowsAge DEF CountedActive, Counted
<1>3. Was(a) /\ Was(b) => row[a].group # None /\ row[a].group = row[b].group
  BY DEF GroupShared
<1>4. CASE \A w \in Worker : ~Commit(w)
  <2>1. Was(a) /\ Was(b)
    BY <1>1, <1>2, <1>4, OnlyCommitPairs DEF Unstarted, CountedActive, Counted
  <2> QED
    BY <1>1, <1>3, <1>4, <2>1, OnlyCommitPairs DEF Unstarted
<1>5. ASSUME NEW w \in Worker, Commit(w)
      PROVE  row'[a].group # None /\ row'[a].group = row'[b].group
  <2> DEFINE r == req[w].ref
             d == req[w].snap.case
             mates == Siblings(r, d)
             g == req[w].gid
  <2>1. /\ req[w].pc = "decided" /\ r \in Referral /\ row'[r].group = g
        /\ \A s \in Referral \ {r} :
              /\ row'[s].group = IF s \in req[w].stamp THEN g ELSE row[s].group
              /\ row'[s].status = row[s].status
    BY <1>5, CommitFields
  <2>2. row[r].status # "ABSENT" /\ row[r].case = d /\ row[r].category = req[w].snap.category
    BY <2>1, BusyCopy DEF CopyOf
  <2>3. ASSUME NEW s \in CountedActive(c)', s # r PROVE Was(s) /\ s \in Referral
    BY <1>2, <2>1, <2>3 DEF CountedActive, Counted
  <2>4. r \in CountedActive(c)' => d = c /\ req[w].snap.category \notin ExemptCategory
    BY <2>1, <2>2, RowsAge DEF CountedActive, Counted
  <2>5. ASSUME req[w].snap.category \notin ExemptCategory, d = c,
               NEW s \in CountedActive(c)', s # r
        PROVE  row'[s].group = g /\ g # None
    <3>1. s \in mates
      BY <2>3, <2>5 DEF Siblings
    <3>2. g # None /\ (s \in req[w].stamp \/ row[s].group = g)
      BY <2>1, <2>5, <3>1 DEF GroupAgreed
    <3> QED
      BY <2>1, <2>3, <2>5, <3>2
  <2>6. ASSUME req[w].snap.category \in ExemptCategory \/ d # c,
               NEW s \in CountedActive(c)', s # r
        PROVE  row'[s].group = row[s].group
    <3>1. s \notin req[w].stamp
      BY <2>1, <2>3, <2>6 DEF PairedLate, CountedActive
    <3> QED
      BY <2>1, <2>3, <2>6, <3>1
  <2>7. CASE req[w].snap.category \notin ExemptCategory /\ d = c
    BY <2>1, <2>5, <2>7
  <2>8. CASE ~(req[w].snap.category \notin ExemptCategory /\ d = c)
    <3>1. a # r /\ b # r
      BY <2>4, <2>8
    <3> QED
      BY <1>3, <2>3, <2>6, <2>8, <3>1
  <2> QED
    BY <2>7, <2>8
<1> QED
  BY <1>4, <1>5

\* Where one request runs at a time next to the sweep, referrals that run
\* together in a case carry one group (_assign_parallel_group).
THEOREM EngineGroups ==
    ASSUME "edit" \notin Ops, Cardinality(Worker) = 1
    PROVE  Spec => []GroupShared
<1>1. Init => GroupAgreed /\ GroupShared
  BY DEF Init, GroupAgreed, GroupShared, CountedActive, Counted, AbsentRow, Idle
<1>2. LifeInv /\ GroupAgreed /\ [Next]_vars => GroupAgreed'
  BY AgreedKept
<1>3. LifeInv /\ PairedLate /\ GroupAgreed /\ GroupShared /\ [Next]_vars => GroupShared'
  BY SharedKept
<1>4. LifeInv /\ PairedLate /\ [Next]_vars => PairedLate'
  BY PairedLateKept
<1> QED
  BY LifeInit, LifeStep, PairedLateStarts, <1>1, <1>2, <1>3, <1>4, PTL DEF Spec
=============================================================================
