-------------------------- MODULE GrievanceProofs ---------------------------
(***************************************************************************)
(* Proofs about Grievance, for any officers, complaints, calendar, window  *)
(* and response times.                                                     *)
(*                                                                         *)
(* A copy is a row as it was once committed, so what is true of every row  *)
(* by itself (Answered) is true of the copies, and writing a copy back,    *)
(* however old, cannot break it.  What relates a complaint to its appeal   *)
(* (HeardOnce) has no such defence: it needs the lock, and edits that are  *)
(* not late.                                                               *)
(***************************************************************************)
EXTENDS Grievance, FiniteSetTheorems, NaturalsInduction, WellFoundedInduction, TLAPS

\* A row has the columns of a row, whatever is in most of them.
Shaped(r) ==
    r \in [ status : GrievanceStatus \cup {"ABSENT"}, tier : {r.tier}, parent : {r.parent},
            severity : {r.severity}, raised : {r.raised}, due : {r.due}, acked : {r.acked},
            paused : {r.paused}, outcome : {r.outcome}, resolved : {r.resolved}, told : {r.told} ]

\* AnswerBeforeShut, of one row.
Answered(r) ==
    /\ r.status \in {"DECIDED", "CLOSED", "APPEALED"} => r.outcome # ""
    /\ r.status \in {"CLOSED", "APPEALED"} => r.told
    /\ r.status \in GrievanceStatus \ GrievanceOpen => r.resolved # NoDay

Sound(r) == Shaped(r) /\ Answered(r)

Held(o) == holding[o].op # "none"

\* Requests hold copies of rows that exist and keep their parent.
RequestShape(h) ==
    h \in [op : GrievanceOps \cup {"none"}, on : {h.on}, copy : {h.copy}]

Files ==
    /\ complaint = [c \in Complaint |-> complaint[c]]
    /\ holding = [o \in Officer |-> holding[o]]
    /\ \A c \in Complaint : Sound(complaint[c])
    /\ \A c \in Complaint : complaint[c].status = "ABSENT" => complaint[c] = NoRow
    /\ \A o \in Officer : RequestShape(holding[o]) /\ Sound(holding[o].copy)
    /\ \A o \in Officer : Held(o) =>
          /\ holding[o].on \in Complaint
          /\ holding[o].op \in desk.does
          /\ complaint[holding[o].on].status # "ABSENT"
          /\ holding[o].copy.status # "ABSENT"
          /\ holding[o].copy.parent = complaint[holding[o].on].parent
    /\ \A o \in Officer : ~Held(o) => holding[o] = NoGrievanceRequest
    /\ today \in Nat /\ today # NoDay

-----------------------------------------------------------------------------

LEMMA NoRowFacts ==
    /\ Sound(NoRow) /\ NoRow.status = "ABSENT" /\ NoRow.parent = NoComplaint
    /\ RequestShape(NoGrievanceRequest) /\ NoGrievanceRequest.op = "none"
    /\ NoGrievanceRequest.copy = NoRow
<1>1. Shaped(NoRow) /\ NoRow.status = "ABSENT" /\ NoRow.parent = NoComplaint
  BY DEF NoRow, Shaped
<1>2. Answered(NoRow)
  BY <1>1 DEF Answered, GrievanceStatus
<1>3. NoGrievanceRequest.op = "none" /\ NoGrievanceRequest.copy = NoRow
         /\ RequestShape(NoGrievanceRequest)
  BY DEF NoGrievanceRequest, RequestShape
<1> QED
  BY <1>1, <1>2, <1>3 DEF Sound

\* A new row: received, of the parent it is an appeal of.
LEMMA NewRowFacts ==
    ASSUME NEW t, NEW p, NEW s, NEW d
    PROVE  /\ Sound(NewRow(t, p, s, d)) /\ NewRow(t, p, s, d).status = "RECEIVED"
           /\ NewRow(t, p, s, d).parent = p
<1> DEFINE r == NewRow(t, p, s, d)
<1>1. Shaped(r) /\ r.status = "RECEIVED" /\ r.parent = p
  BY DEF NewRow, NoRow, Shaped, GrievanceStatus
<1> HIDE DEF r
<1>2. Answered(r)
  BY <1>1 DEF Answered, GrievanceStatus, GrievanceOpen
<1> QED
  BY <1>1, <1>2 DEF Sound, r

\* What a step of the workflow, an appeal apart, makes of a row.
Onward(row, r) ==
    /\ Sound(r) /\ r.parent = row.parent /\ r.status # "ABSENT"
    /\ row.told => r.told
    /\ row.status \notin {"CLOSED", "APPEALED", "REFERRED_OUT"}
    /\ r.status # "APPEALED"
    /\ row.status = "DECIDED" => r.outcome = row.outcome

Done(o) ==
    /\ Held(o)
    /\ holding' = [holding EXCEPT ![o] = NoGrievanceRequest]
    /\ UNCHANGED <<today, desk>>

\* A handler of the workflow that is not an appeal.
WorkStep(o) ==
    /\ Done(o)
    /\ \E r : /\ complaint' = [complaint EXCEPT ![holding[o].on] = r]
             /\ Onward(complaint[holding[o].on], r)

\* An edit: the copy, with another severity and deadline.
EditStep(o) ==
    /\ Done(o) /\ holding[o].op = "edit"
    /\ \E r : /\ complaint' = [complaint EXCEPT ![holding[o].on] = r]
             /\ Sound(r)
             /\ \A col \in {"status", "parent", "outcome", "told"} : r[col] = holding[o].copy[col]

\* An appeal: the parent is Appealed and a row of its own is received.
AppealStep(o, child) ==
    LET c == holding[o].on
    IN  /\ Done(o)
        /\ complaint[c].status = "CLOSED"
        /\ complaint[child] = NoRow
        /\ \E r, n :
              /\ complaint' = [complaint EXCEPT ![c] = r, ![child] = n]
              /\ Sound(r) /\ r.status = "APPEALED" /\ r.parent = complaint[c].parent
              /\ r.told = complaint[c].told /\ r.outcome = complaint[c].outcome
              /\ Sound(n) /\ n.status = "RECEIVED" /\ n.parent = c

RaiseStep(c) ==
    /\ complaint[c] = NoRow
    /\ \E n : /\ complaint' = [complaint EXCEPT ![c] = n]
             /\ Sound(n) /\ n.status = "RECEIVED" /\ n.parent = NoComplaint
    /\ UNCHANGED <<holding, today, desk>>

\* Requests that begin or are given up, and the days.
QuietStep ==
    /\ UNCHANGED <<complaint, desk>>
    /\ \/ /\ UNCHANGED today
          /\ \E o \in Officer, op \in GrievanceOps, c \in Complaint : Fetch(o, op, c)
       \/ /\ UNCHANGED today
          /\ \E o \in Officer : GiveUp(o)
       \/ UNCHANGED holding /\ today' = today + 1
       \/ UNCHANGED <<holding, today>>

\* Writing one column of a shaped row.
LEMMA StatusWrite ==
    ASSUME NEW r, Shaped(r), NEW s \in GrievanceStatus
    PROVE  LET n == [r EXCEPT !.status = s]
           IN  /\ Shaped(n) /\ n.status = s /\ n.parent = r.parent /\ n.outcome = r.outcome
               /\ n.told = r.told /\ n.resolved = r.resolved
BY DEF Shaped

\* Every handler of the workflow is a WorkStep or an AppealStep.
LEMMA Handlers ==
    ASSUME Files, NEW o \in Officer
    PROVE  /\ Acknowledge(o) \/ StartReview(o) \/ Pause(o) \/ Resume(o) => WorkStep(o)
           /\ \A x \in Outcome, d \in 1 .. desk.until : Decide(o, x, d) => WorkStep(o)
           /\ CloseFile(o) \/ ReferOut(o) => WorkStep(o)
           /\ \A child \in Complaint : Appeal(o, child) => AppealStep(o, child)
           /\ \A s \in Severity : Edit(o, s) => EditStep(o)
<1> DEFINE c == holding[o].on
           row == complaint[c]
           copy == holding[o].copy
<1>1. ASSUME NEW op \in GrievanceOps, Moves(o, op)
      PROVE  /\ Done(o) /\ c \in Complaint /\ row.status \in EdgesFrom[op]
             /\ Sound(row) /\ Sound(copy)
  <2>1. Held(o)
    BY <1>1 DEF Moves, Held, GrievanceOps
  <2> QED
    BY <1>1, <2>1 DEF Moves, Done, EdgeExists, Files
<1>2. complaint = [d \in Complaint |-> complaint[d]]
  BY DEF Files
<1>3. ASSUME Acknowledge(o) PROVE WorkStep(o)
  <2> DEFINE r == [[row EXCEPT !.status = "ACKNOWLEDGED"] EXCEPT !.acked = TRUE]
  <2>1. Moves(o, "acknowledge") /\ complaint' = [complaint EXCEPT ![c] = r]
    BY <1>2, <1>3 DEF Acknowledge
  <2>2. Done(o) /\ c \in Complaint /\ row.status = "RECEIVED" /\ Sound(row)
    BY <1>1, <2>1 DEF GrievanceOps, EdgesFrom
  <2>3. Shaped(r) /\ r.status = "ACKNOWLEDGED" /\ r.parent = row.parent
           /\ r.outcome = row.outcome /\ r.told = row.told
    <3> DEFINE a == [row EXCEPT !.status = "ACKNOWLEDGED"]
    <3>1. /\ Shaped(a) /\ a.status = "ACKNOWLEDGED" /\ a.parent = row.parent
          /\ a.outcome = row.outcome /\ a.told = row.told
      BY <2>2, StatusWrite DEF Sound, GrievanceStatus
    <3>2. r = [a EXCEPT !.acked = TRUE]
      OBVIOUS
    <3> HIDE DEF a, r
    <3> QED
      BY <3>1, <3>2 DEF Shaped
  <2> HIDE DEF r
  <2>4. Onward(row, r)
    BY <2>2, <2>3 DEF Onward, Sound, Answered, GrievanceStatus, GrievanceOpen
  <2> QED
    BY <2>1, <2>2, <2>4 DEF WorkStep
<1>4. ASSUME StartReview(o) PROVE WorkStep(o)
  <2> DEFINE r == [row EXCEPT !.status = "UNDER_REVIEW"]
  <2>1. Moves(o, "start_review") /\ complaint' = [complaint EXCEPT ![c] = r]
    BY <1>2, <1>4 DEF StartReview
  <2>2. Done(o) /\ c \in Complaint /\ row.status = "ACKNOWLEDGED" /\ Sound(row)
    BY <1>1, <2>1 DEF GrievanceOps, EdgesFrom
  <2>3. Shaped(r) /\ r.status = "UNDER_REVIEW" /\ r.parent = row.parent
           /\ r.outcome = row.outcome /\ r.told = row.told
    BY <2>2, StatusWrite DEF Sound, GrievanceStatus
  <2> HIDE DEF r
  <2>4. Onward(row, r)
    BY <2>2, <2>3 DEF Onward, Sound, Answered, GrievanceStatus, GrievanceOpen
  <2> QED
    BY <2>1, <2>2, <2>4 DEF WorkStep
<1>5. ASSUME Pause(o) PROVE WorkStep(o)
  <2> DEFINE r == [[row EXCEPT !.status = "AWAITING_COMPLAINANT"] EXCEPT !.paused = today]
  <2>1. Moves(o, "pause") /\ complaint' = [complaint EXCEPT ![c] = r]
    BY <1>2, <1>5 DEF Pause
  <2>2. Done(o) /\ c \in Complaint /\ row.status = "UNDER_REVIEW" /\ Sound(row)
    BY <1>1, <2>1 DEF GrievanceOps, EdgesFrom
  <2>3. Shaped(r) /\ r.status = "AWAITING_COMPLAINANT" /\ r.parent = row.parent
           /\ r.outcome = row.outcome /\ r.told = row.told
    <3> DEFINE a == [row EXCEPT !.status = "AWAITING_COMPLAINANT"]
    <3>1. /\ Shaped(a) /\ a.status = "AWAITING_COMPLAINANT" /\ a.parent = row.parent
          /\ a.outcome = row.outcome /\ a.told = row.told
      BY <2>2, StatusWrite DEF Sound, GrievanceStatus
    <3>2. r = [a EXCEPT !.paused = today]
      OBVIOUS
    <3> HIDE DEF a, r
    <3> QED
      BY <3>1, <3>2 DEF Shaped
  <2> HIDE DEF r
  <2>4. Onward(row, r)
    BY <2>2, <2>3 DEF Onward, Sound, Answered, GrievanceStatus, GrievanceOpen
  <2> QED
    BY <2>1, <2>2, <2>4 DEF WorkStep
<1>6. ASSUME Resume(o) PROVE WorkStep(o)
  <2> DEFINE due == IF copy.paused = NoDay THEN copy.due ELSE DueAfterWait(copy)
             r == [[[row EXCEPT !.status = "UNDER_REVIEW"] EXCEPT !.paused = NoDay] EXCEPT !.due = due]
  <2>1. Moves(o, "resume") /\ complaint' = [complaint EXCEPT ![c] = r]
    BY <1>2, <1>6 DEF Resume
  <2>2. Done(o) /\ c \in Complaint /\ row.status = "AWAITING_COMPLAINANT" /\ Sound(row)
    BY <1>1, <2>1 DEF GrievanceOps, EdgesFrom
  <2> HIDE DEF due
  <2>3. Shaped(r) /\ r.status = "UNDER_REVIEW" /\ r.parent = row.parent
           /\ r.outcome = row.outcome /\ r.told = row.told
    <3> DEFINE a == [row EXCEPT !.status = "UNDER_REVIEW"]
               b == [a EXCEPT !.paused = NoDay]
    <3>1. /\ Shaped(a) /\ a.status = "UNDER_REVIEW" /\ a.parent = row.parent
          /\ a.outcome = row.outcome /\ a.told = row.told
      BY <2>2, StatusWrite DEF Sound, GrievanceStatus
    <3> HIDE DEF a
    <3>2. /\ Shaped(b) /\ b.status = "UNDER_REVIEW" /\ b.parent = row.parent
          /\ b.outcome = row.outcome /\ b.told = row.told
      BY <3>1 DEF Shaped
    <3>3. r = [b EXCEPT !.due = due]
      BY DEF a
    <3> HIDE DEF b, r
    <3> QED
      BY <3>2, <3>3 DEF Shaped
  <2> HIDE DEF r
  <2>4. Onward(row, r)
    BY <2>2, <2>3 DEF Onward, Sound, Answered, GrievanceStatus, GrievanceOpen
  <2> QED
    BY <2>1, <2>2, <2>4 DEF WorkStep
<1>7. ASSUME NEW x \in Outcome, NEW d \in 1 .. desk.until, Decide(o, x, d) PROVE WorkStep(o)
  <2> DEFINE r == [[[row EXCEPT !.status = "DECIDED"] EXCEPT !.outcome = x] EXCEPT !.resolved = d]
  <2>1. Moves(o, "decide") /\ complaint' = [complaint EXCEPT ![c] = r]
    BY <1>2, <1>7 DEF Decide
  <2>2. Done(o) /\ c \in Complaint /\ row.status = "UNDER_REVIEW" /\ Sound(row)
    BY <1>1, <2>1 DEF GrievanceOps, EdgesFrom
  <2>3. Shaped(r) /\ r.status = "DECIDED" /\ r.parent = row.parent
           /\ r.outcome = x /\ r.told = row.told
    <3> DEFINE a == [row EXCEPT !.status = "DECIDED"]
               b == [a EXCEPT !.outcome = x]
    <3>1. Shaped(a) /\ a.status = "DECIDED" /\ a.parent = row.parent /\ a.told = row.told
      BY <2>2, StatusWrite DEF Sound, GrievanceStatus
    <3> HIDE DEF a
    <3>2. /\ Shaped(b) /\ b.status = "DECIDED" /\ b.parent = row.parent
          /\ b.outcome = x /\ b.told = row.told
      BY <3>1 DEF Shaped
    <3>3. r = [b EXCEPT !.resolved = d]
      BY DEF a
    <3> HIDE DEF b, r
    <3> QED
      BY <3>2, <3>3 DEF Shaped
  <2> HIDE DEF r
  <2>4. Onward(row, r)
    BY <2>2, <2>3, GrievanceAssumption
       DEF Onward, Sound, Answered, GrievanceStatus, GrievanceOpen
  <2> QED
    BY <2>1, <2>2, <2>4 DEF WorkStep
<1>8. ResolvedOr(copy, today) # NoDay
  BY DEF ResolvedOr, Files
<1>9. ASSUME CloseFile(o) PROVE WorkStep(o)
  <2> DEFINE on == ResolvedOr(copy, today)
             r == [[[row EXCEPT !.status = "CLOSED"] EXCEPT !.told = TRUE] EXCEPT !.resolved = on]
  <2>1. Moves(o, "close") /\ complaint' = [complaint EXCEPT ![c] = r]
    BY <1>2, <1>9 DEF CloseFile
  <2>2. Done(o) /\ c \in Complaint /\ row.status = "DECIDED" /\ Sound(row)
    BY <1>1, <2>1 DEF GrievanceOps, EdgesFrom
  <2>3. on # NoDay
    BY <1>8
  <2> HIDE DEF on
  <2>4. Shaped(r) /\ r.status = "CLOSED" /\ r.parent = row.parent
           /\ r.outcome = row.outcome /\ r.told = TRUE /\ r.resolved = on
    <3> DEFINE a == [row EXCEPT !.status = "CLOSED"]
               b == [a EXCEPT !.told = TRUE]
    <3>1. Shaped(a) /\ a.status = "CLOSED" /\ a.parent = row.parent /\ a.outcome = row.outcome
      BY <2>2, StatusWrite DEF Sound, GrievanceStatus
    <3> HIDE DEF a
    <3>2. Shaped(b) /\ b.status = "CLOSED" /\ b.parent = row.parent
             /\ b.outcome = row.outcome /\ b.told = TRUE
      BY <3>1 DEF Shaped
    <3>3. r = [b EXCEPT !.resolved = on]
      BY DEF a
    <3> HIDE DEF b, r
    <3> QED
      BY <3>2, <3>3 DEF Shaped
  <2> HIDE DEF r
  <2>5. Onward(row, r)
    BY <2>2, <2>3, <2>4 DEF Onward, Sound, Answered, GrievanceStatus, GrievanceOpen
  <2> QED
    BY <2>1, <2>2, <2>5 DEF WorkStep
<1>10. ASSUME ReferOut(o) PROVE WorkStep(o)
  <2> DEFINE on == ResolvedOr(copy, today)
             r == [[row EXCEPT !.status = "REFERRED_OUT"] EXCEPT !.resolved = on]
  <2>1. Moves(o, "refer_out") /\ complaint' = [complaint EXCEPT ![c] = r]
    BY <1>2, <1>10 DEF ReferOut
  <2>2. Done(o) /\ c \in Complaint /\ Sound(row)
           /\ row.status \in {"RECEIVED", "ACKNOWLEDGED", "UNDER_REVIEW", "AWAITING_COMPLAINANT"}
    BY <1>1, <2>1 DEF GrievanceOps, EdgesFrom
  <2>3. on # NoDay
    BY <1>8
  <2> HIDE DEF on
  <2>4. Shaped(r) /\ r.status = "REFERRED_OUT" /\ r.parent = row.parent
           /\ r.outcome = row.outcome /\ r.told = row.told /\ r.resolved = on
    <3> DEFINE a == [row EXCEPT !.status = "REFERRED_OUT"]
    <3>1. /\ Shaped(a) /\ a.status = "REFERRED_OUT" /\ a.parent = row.parent
          /\ a.outcome = row.outcome /\ a.told = row.told
      BY <2>2, StatusWrite DEF Sound, GrievanceStatus
    <3>2. r = [a EXCEPT !.resolved = on]
      OBVIOUS
    <3> HIDE DEF a, r
    <3> QED
      BY <3>1, <3>2 DEF Shaped
  <2> HIDE DEF r
  <2>5. Onward(row, r)
    BY <2>2, <2>3, <2>4 DEF Onward, Sound, Answered, GrievanceStatus, GrievanceOpen
  <2> QED
    BY <2>1, <2>2, <2>5 DEF WorkStep
<1>11. ASSUME NEW child \in Complaint, Appeal(o, child) PROVE AppealStep(o, child)
  <2> DEFINE r == [row EXCEPT !.status = "APPEALED"]
             n == NewRow(copy.tier + 1, c, copy.severity, today)
  <2>1. /\ Moves(o, "appeal") /\ complaint[child] = NoRow
        /\ complaint' = [complaint EXCEPT ![c] = r, ![child] = n]
    BY <1>2, <1>11 DEF Appeal
  <2>2. Done(o) /\ c \in Complaint /\ row.status = "CLOSED" /\ Sound(row)
    BY <1>1, <2>1 DEF GrievanceOps, EdgesFrom
  <2>3. Shaped(r) /\ r.status = "APPEALED" /\ r.parent = row.parent
           /\ r.outcome = row.outcome /\ r.told = row.told /\ r.resolved = row.resolved
    BY <2>2, StatusWrite DEF Sound, GrievanceStatus
  <2>4. Sound(n) /\ n.status = "RECEIVED" /\ n.parent = c
    BY NewRowFacts
  <2> HIDE DEF r, n
  <2>5. Sound(r)
    BY <2>2, <2>3 DEF Sound, Answered, GrievanceStatus, GrievanceOpen
  <2> QED
    BY <2>1, <2>2, <2>3, <2>4, <2>5 DEF AppealStep
<1>12. ASSUME NEW s \in Severity, Edit(o, s) PROVE EditStep(o)
  <2> DEFINE due == DueOn(copy.raised, s)
             r == [[copy EXCEPT !.severity = s] EXCEPT !.due = due]
  <2>1. complaint' = [complaint EXCEPT ![c] = r] /\ Done(o) /\ holding[o].op = "edit"
    BY <1>12 DEF Edit, Done, Held
  <2>2. Sound(copy)
    BY DEF Files
  <2> HIDE DEF due
  <2>3. Shaped(r) /\ r.status = copy.status /\ r.parent = copy.parent
           /\ r.outcome = copy.outcome /\ r.told = copy.told /\ r.resolved = copy.resolved
    <3> DEFINE a == [copy EXCEPT !.severity = s]
    <3>1. /\ Shaped(a) /\ a.status = copy.status /\ a.parent = copy.parent
          /\ a.outcome = copy.outcome /\ a.told = copy.told /\ a.resolved = copy.resolved
      BY <2>2 DEF Sound, Shaped
    <3>2. r = [a EXCEPT !.due = due]
      OBVIOUS
    <3> HIDE DEF a, r
    <3> QED
      BY <3>1, <3>2 DEF Shaped
  <2> HIDE DEF r
  <2>4. Sound(r)
    BY <2>2, <2>3 DEF Sound, Answered
  <2> QED
    BY <2>1, <2>3, <2>4 DEF EditStep
<1> QED
  BY <1>3, <1>4, <1>5, <1>6, <1>7, <1>9, <1>10, <1>11, <1>12

\* Every step is of one of the kinds above.
LEMMA GrievanceStepKinds ==
    ASSUME Files, [GrievanceNext]_grievanceVars
    PROVE  \/ QuietStep
           \/ \E c \in Complaint : RaiseStep(c)
           \/ \E o \in Officer : WorkStep(o) \/ EditStep(o) \/ \E d \in Complaint : AppealStep(o, d)
<1>1. CASE UNCHANGED grievanceVars
  BY <1>1 DEF grievanceVars, QuietStep
<1>2. ASSUME NEW c \in Complaint, NEW t \in Tier, NEW s \in Severity, NEW d \in Day,
             RaiseComplaint(c, t, s, d)
      PROVE  RaiseStep(c)
  <2> DEFINE n == NewRow(t, NoComplaint, s, d)
  <2>1. Sound(n) /\ n.status = "RECEIVED" /\ n.parent = NoComplaint
    BY NewRowFacts
  <2>2. /\ complaint[c] = NoRow /\ UNCHANGED <<holding, today, desk>>
        /\ complaint' = [complaint EXCEPT ![c] = n]
    BY <1>2 DEF RaiseComplaint
  <2> HIDE DEF n
  <2> QED
    BY <2>1, <2>2 DEF RaiseStep
<1>3. CASE NextDay
  BY <1>3 DEF NextDay, QuietStep
<1>4. ASSUME NEW o \in Officer,
             \/ \E op \in GrievanceOps, c \in Complaint : Fetch(o, op, c)
             \/ GiveUp(o)
      PROVE  QuietStep
  BY <1>4 DEF Fetch, GiveUp, QuietStep
<1> QED
  BY <1>1, <1>2, <1>3, <1>4, Handlers DEF GrievanceNext

\* With one request at a time, the copy of the one that runs is current.
Alone ==
    desk.atOnce = 1 =>
        \A o \in Officer : Held(o) =>
            /\ holding[o].copy = complaint[holding[o].on]
            /\ \A p \in Officer : Held(p) => p = o

GrievanceInv == Files /\ Alone /\ HeardOnce

LEMMA FilesInit == GrievanceInit => GrievanceInv
<1> SUFFICES ASSUME GrievanceInit PROVE GrievanceInv
  OBVIOUS
<1>1. \A o \in Officer : holding[o] = NoGrievanceRequest /\ ~Held(o)
  BY NoRowFacts DEF GrievanceInit, Held
<1>2. \A c \in Complaint : complaint[c] = NoRow
  BY DEF GrievanceInit
<1>3. Files
  BY <1>1, <1>2, NoRowFacts DEF GrievanceInit, Files, NoDay
<1>4. Alone
  BY <1>1 DEF Alone
<1>5. HeardOnce
  BY <1>2, NoRowFacts DEF HeardOnce, Appeals
<1> QED
  BY <1>3, <1>4, <1>5 DEF GrievanceInv

\* The appeals of a complaint are the rows that name it.
LEMMA AppealsNamed ==
    ASSUME Files
    PROVE  \A c \in Complaint : Appeals(c) = {d \in Complaint : complaint[d].parent = c}
BY NoRowFacts, GrievanceAssumption DEF Appeals

\* Where no parent, no status and no answer changes, HeardOnce stays.
LEMMA SameHearing ==
    ASSUME Files, HeardOnce, Files', UNCHANGED desk,
           \A d \in Complaint : complaint'[d].parent = complaint[d].parent,
           NoStaleEdit => \A d \in Complaint :
              /\ complaint'[d].status = "APPEALED" <=> complaint[d].status = "APPEALED"
              /\ complaint[d].told => complaint'[d].told
    PROVE  HeardOnce'
<1>1. \A c \in Complaint : Appeals(c) = {d \in Complaint : complaint[d].parent = c}
  BY AppealsNamed
<1>2. Files' => \A c \in Complaint : Appeals(c)' = {d \in Complaint : complaint'[d].parent = c}
  BY NoRowFacts, GrievanceAssumption DEF Appeals
<1>3. \A c \in Complaint : Appeals(c)' = Appeals(c)
  BY <1>1, <1>2
<1>4. NoStaleEdit' <=> NoStaleEdit
  BY DEF NoStaleEdit
<1> QED
  BY <1>3, <1>4 DEF HeardOnce

LEMMA QuietKeeps == GrievanceInv /\ QuietStep => GrievanceInv'
<1> SUFFICES ASSUME GrievanceInv, QuietStep PROVE GrievanceInv'
  OBVIOUS
<1>1. UNCHANGED <<complaint, desk>> /\ Files /\ Alone /\ HeardOnce
  BY DEF GrievanceInv, QuietStep
<1>2. HeardOnce'
  BY <1>1 DEF HeardOnce, Appeals, NoStaleEdit
<1>3. today' \in Nat /\ today' # NoDay
  BY <1>1 DEF QuietStep, Files, NoDay
<1>4. CASE UNCHANGED holding
  BY <1>1, <1>2, <1>3, <1>4 DEF Files, Alone, Held, GrievanceInv
<1>5. ASSUME NEW o \in Officer, GiveUp(o) PROVE GrievanceInv'
  <2>1. holding' = [holding EXCEPT ![o] = NoGrievanceRequest]
    BY <1>5 DEF GiveUp
  <2>2. Files'
    BY <1>1, <1>3, <2>1, NoRowFacts DEF Files, Held
  <2>3. Alone'
    BY <1>1, <2>1, NoRowFacts DEF Files, Alone, Held
  <2> QED
    BY <1>2, <2>2, <2>3 DEF GrievanceInv
<1>6. ASSUME NEW o \in Officer, NEW op \in GrievanceOps, NEW c \in Complaint, Fetch(o, op, c)
      PROVE  GrievanceInv'
  <2> DEFINE h == [op |-> op, on |-> c, copy |-> complaint[c]]
  <2>1. holding' = [holding EXCEPT ![o] = h] /\ complaint[c] # NoRow /\ op \in desk.does
    BY <1>6 DEF Fetch
  <2>2. RequestShape(h) /\ h.op = op /\ h.on = c /\ h.copy = complaint[c] /\ op # "none"
    BY DEF RequestShape, GrievanceOps
  <2>3. complaint[c].status # "ABSENT"
    BY <1>1, <2>1 DEF Files
  <2> HIDE DEF h
  <2>4. Files'
    BY <1>1, <1>3, <2>1, <2>2, <2>3 DEF Files, Held
  <2>5. desk.atOnce = 1 => \A p \in Officer : ~Held(p)
    <3> DEFINE busy == {p \in Officer : holding[p] # NoGrievanceRequest}
    <3>1. IsFiniteSet(busy)
      BY FS_Subset, GrievanceAssumption
    <3>2. desk.atOnce = 1 => Cardinality(busy) = 0
      BY <1>6, <3>1, FS_CardinalityType DEF Fetch
    <3>3. desk.atOnce = 1 => busy = {}
      BY <3>1, <3>2, FS_EmptySet
    <3> QED
      BY <3>3, NoRowFacts DEF Held
  <2>6. Alone'
    BY <1>1, <2>1, <2>2, <2>5 DEF Files, Alone, Held
  <2> QED
    BY <1>2, <2>4, <2>6 DEF GrievanceInv
<1> QED
  BY <1>4, <1>5, <1>6 DEF QuietStep

LEMMA RaiseKeeps == \A c \in Complaint : GrievanceInv /\ RaiseStep(c) => GrievanceInv'
<1> SUFFICES ASSUME NEW c \in Complaint, GrievanceInv, RaiseStep(c) PROVE GrievanceInv'
  OBVIOUS
<1>1. Files /\ Alone /\ HeardOnce /\ complaint[c] = NoRow /\ UNCHANGED <<holding, today, desk>>
  BY DEF GrievanceInv, RaiseStep
<1>2. PICK n : /\ complaint' = [complaint EXCEPT ![c] = n]
               /\ Sound(n) /\ n.status = "RECEIVED" /\ n.parent = NoComplaint
  BY DEF RaiseStep
<1>3. /\ complaint'[c] = n /\ \A d \in Complaint \ {c} : complaint'[d] = complaint[d]
      /\ complaint' = [d \in Complaint |-> complaint'[d]]
  BY <1>1, <1>2 DEF Files
<1>4. Files'
  BY <1>1, <1>2, <1>3, NoRowFacts DEF Files, Held
<1>5. Alone'
  BY <1>1, <1>3, NoRowFacts DEF Files, Alone, Held
<1>6. HeardOnce'
  <2>1. \A d \in Complaint :
           /\ complaint'[d].parent = complaint[d].parent
           /\ complaint'[d].status = "APPEALED" <=> complaint[d].status = "APPEALED"
           /\ complaint[d].told => complaint'[d].told
    <3>1. NoRow.told = FALSE
      BY DEF NoRow
    <3>2. complaint[c].told => complaint'[c].told
      BY <1>1, <3>1, Zenon
    <3>3. complaint[c].parent = NoComplaint /\ complaint[c].status = "ABSENT"
      BY <1>1, NoRowFacts
    <3> QED
      BY <1>2, <1>3, <3>2, <3>3
  <2> QED
    BY <1>1, <1>4, <2>1, SameHearing
<1> QED
  BY <1>4, <1>5, <1>6 DEF GrievanceInv

\* A request that ends leaves, alone, nobody in flight.
LEMMA DoneAlone ==
    ASSUME Files, Alone, NEW o \in Officer, Done(o)
    PROVE  Alone'
BY NoRowFacts DEF Files, Alone, Done, Held

\* Ending a request that wrote a sound row of the same parent.
LEMMA WrittenFiles ==
    ASSUME Files, NEW o \in Officer, Done(o), NEW r,
           complaint' = [complaint EXCEPT ![holding[o].on] = r],
           Sound(r), r.status # "ABSENT", r.parent = complaint[holding[o].on].parent
    PROVE  /\ Files'
           /\ holding[o].on \in Complaint /\ complaint'[holding[o].on] = r
           /\ \A d \in Complaint \ {holding[o].on} : complaint'[d] = complaint[d]
<1>1. holding[o].on \in Complaint
  BY DEF Done, Files
<1>2. /\ complaint'[holding[o].on] = r
      /\ \A d \in Complaint \ {holding[o].on} : complaint'[d] = complaint[d]
      /\ complaint' = [d \in Complaint |-> complaint'[d]]
  BY <1>1 DEF Files
<1>3. /\ holding'[o] = NoGrievanceRequest
      /\ \A p \in Officer \ {o} : holding'[p] = holding[p]
      /\ holding' = [p \in Officer |-> holding'[p]]
      /\ UNCHANGED <<today, desk>>
  BY DEF Done, Files
<1> QED
  BY <1>1, <1>2, <1>3, NoRowFacts DEF Files, Held

LEMMA WorkKeeps ==
    \A o \in Officer : GrievanceInv /\ (WorkStep(o) \/ EditStep(o)) => GrievanceInv'
<1> SUFFICES ASSUME NEW o \in Officer, GrievanceInv PROVE WorkStep(o) \/ EditStep(o) => GrievanceInv'
  OBVIOUS
<1>1. Files /\ Alone /\ HeardOnce
  BY DEF GrievanceInv
<1> DEFINE c == holding[o].on
<1>2. ASSUME WorkStep(o) PROVE GrievanceInv'
  <2>1. Done(o)
    BY <1>2 DEF WorkStep
  <2>2. PICK r : complaint' = [complaint EXCEPT ![c] = r] /\ Onward(complaint[c], r)
    BY <1>2 DEF WorkStep
  <2>3. /\ Files' /\ c \in Complaint /\ complaint'[c] = r
        /\ \A d \in Complaint \ {c} : complaint'[d] = complaint[d]
    BY <1>1, <2>1, <2>2, WrittenFiles DEF Onward
  <2>4. UNCHANGED desk
    BY <2>1 DEF Done
  <2>5. HeardOnce'
    BY <1>1, <2>2, <2>3, <2>4, SameHearing DEF Onward
  <2> QED
    BY <1>1, <2>1, <2>3, <2>5, DoneAlone DEF GrievanceInv
<1>3. ASSUME EditStep(o) PROVE GrievanceInv'
  <2>1. Done(o) /\ holding[o].op = "edit" /\ Held(o) /\ "edit" \in desk.does
    BY <1>1, <1>3 DEF EditStep, Done, Files
  <2>2. PICK r : /\ complaint' = [complaint EXCEPT ![c] = r] /\ Sound(r)
                 /\ \A col \in {"status", "parent", "outcome", "told"} :
                       r[col] = holding[o].copy[col]
    BY <1>3 DEF EditStep
  <2>3. /\ r.status = holding[o].copy.status /\ r.parent = holding[o].copy.parent
        /\ r.told = holding[o].copy.told
    BY <2>2
  <2>4. r.status # "ABSENT" /\ r.parent = complaint[c].parent
    BY <1>1, <2>1, <2>3 DEF Files
  <2>5. /\ Files' /\ c \in Complaint /\ complaint'[c] = r
        /\ \A d \in Complaint \ {c} : complaint'[d] = complaint[d]
    BY <1>1, <2>1, <2>2, <2>4, WrittenFiles
  <2>6. NoStaleEdit => r.status = complaint[c].status /\ r.told = complaint[c].told
    BY <1>1, <2>1, <2>3 DEF NoStaleEdit, Alone
  <2>7. UNCHANGED desk
    BY <2>1 DEF Done
  <2>8. HeardOnce'
    BY <1>1, <2>4, <2>5, <2>6, <2>7, SameHearing
  <2> QED
    BY <1>1, <2>1, <2>5, <2>8, DoneAlone DEF GrievanceInv
<1> QED
  BY <1>2, <1>3

LEMMA AppealKeeps ==
    \A o \in Officer, child \in Complaint :
        GrievanceInv /\ AppealStep(o, child) => GrievanceInv'
<1> SUFFICES ASSUME NEW o \in Officer, NEW child \in Complaint, GrievanceInv, AppealStep(o, child)
             PROVE  GrievanceInv'
  OBVIOUS
<1> DEFINE c == holding[o].on
<1>1. Files /\ Alone /\ HeardOnce
  BY DEF GrievanceInv
<1>2. Done(o) /\ complaint[c].status = "CLOSED" /\ complaint[child] = NoRow
  BY DEF AppealStep
<1>3. PICK r, n :
         /\ complaint' = [complaint EXCEPT ![c] = r, ![child] = n]
         /\ Sound(r) /\ r.status = "APPEALED" /\ r.parent = complaint[c].parent
         /\ r.told = complaint[c].told
         /\ Sound(n) /\ n.status = "RECEIVED" /\ n.parent = c
  BY DEF AppealStep
<1>4. c \in Complaint /\ child # c
  BY <1>1, <1>2, NoRowFacts DEF Done, Files
<1>5. /\ complaint'[c] = r /\ complaint'[child] = n
      /\ \A d \in Complaint \ {c, child} : complaint'[d] = complaint[d]
      /\ complaint' = [d \in Complaint |-> complaint'[d]]
  BY <1>1, <1>3, <1>4 DEF Files
<1>6. /\ holding'[o] = NoGrievanceRequest
      /\ \A p \in Officer \ {o} : holding'[p] = holding[p]
      /\ holding' = [p \in Officer |-> holding'[p]]
      /\ UNCHANGED <<today, desk>>
  BY <1>1, <1>2 DEF Done, Files
<1>7. Files'
  BY <1>1, <1>2, <1>3, <1>4, <1>5, <1>6, NoRowFacts DEF Files, Held
<1>8. Alone'
  BY <1>1, <1>2, DoneAlone
<1>9. HeardOnce'
  <2> SUFFICES ASSUME NoStaleEdit', NEW d \in Complaint
               PROVE (/\ complaint[d].status = "APPEALED" <=> Appeals(d) # {}
                      /\ \A e, f \in Appeals(d) : e = f
                      /\ Appeals(d) # {} => complaint[d].told)'
    BY DEF HeardOnce
  <2>1. NoStaleEdit
    BY <1>6 DEF NoStaleEdit
  <2>2. /\ complaint[d].status = "APPEALED" <=> Appeals(d) # {}
        /\ \A e, f \in Appeals(d) : e = f
        /\ Appeals(d) # {} => complaint[d].told
    BY <1>1, <2>1 DEF HeardOnce
  <2>3. Appeals(d) = {e \in Complaint : complaint[e].parent = d}
    BY <1>1, AppealsNamed
  <2>4. Appeals(d)' = {e \in Complaint : complaint'[e].parent = d}
    BY <1>7, NoRowFacts, GrievanceAssumption DEF Appeals
  <2>5. /\ complaint[child].parent = NoComplaint /\ NoComplaint \notin Complaint
        /\ complaint'[child].parent = c
        /\ \A e \in Complaint \ {child} : complaint'[e].parent = complaint[e].parent
    BY <1>2, <1>3, <1>5, NoRowFacts, GrievanceAssumption
  <2>6. CASE d = c
    <3>1. {e \in Complaint : complaint[e].parent = d} = {} /\ complaint[d].told
      BY <1>1, <1>2, <1>4, <2>2, <2>3, <2>6 DEF Files, Sound, Answered
    <3>2. {e \in Complaint : complaint'[e].parent = d} = {child}
      BY <2>5, <2>6, <3>1
    <3>3. Appeals(d)' = {child}
      BY <2>4, <3>2
    <3>4. complaint'[d].status = "APPEALED" /\ complaint'[d].told
      BY <1>3, <1>5, <2>6, <3>1
    <3> QED
      BY <3>3, <3>4
  <2>7. CASE d = child
    <3>1. {e \in Complaint : complaint[e].parent = d} = {}
      BY <1>2, <2>2, <2>3, <2>7, NoRowFacts
    <3>2. {e \in Complaint : complaint'[e].parent = d} = {}
      BY <1>4, <2>5, <2>7, <3>1
    <3>3. Appeals(d)' = {}
      BY <2>4, <3>2
    <3>4. complaint'[d].status # "APPEALED"
      BY <1>3, <1>5, <2>7
    <3> QED
      BY <3>3, <3>4
  <2>8. CASE d \notin {c, child}
    <3>1. {e \in Complaint : complaint'[e].parent = d} = {e \in Complaint : complaint[e].parent = d}
      BY <2>5, <2>8
    <3>2. Appeals(d)' = Appeals(d)
      BY <2>3, <2>4, <3>1
    <3>3. complaint'[d] = complaint[d]
      BY <1>5, <2>8
    <3> QED
      BY <2>2, <3>2, <3>3
  <2> QED
    BY <2>6, <2>7, <2>8
<1> QED
  BY <1>7, <1>8, <1>9 DEF GrievanceInv

LEMMA GrievanceInvAlways == GrievanceSpec => []GrievanceInv
<1>1. GrievanceInv /\ [GrievanceNext]_grievanceVars => GrievanceInv'
  <2> SUFFICES ASSUME GrievanceInv, [GrievanceNext]_grievanceVars PROVE GrievanceInv'
    OBVIOUS
  <2>1. Files
    BY DEF GrievanceInv
  <2> QED
    BY <2>1, GrievanceStepKinds, QuietKeeps, RaiseKeeps, WorkKeeps, AppealKeeps
<1> QED
  BY <1>1, FilesInit, PTL DEF GrievanceSpec

\* However requests and edits overlap, what is decided has an outcome, what is
\* shut has a date, and nothing decided is shut before the complainant is told.
THEOREM GrievanceAnswers == GrievanceSpec => []AnswerBeforeShut
<1>1. GrievanceInv => AnswerBeforeShut
  BY DEF GrievanceInv, Files, Sound, Answered, AnswerBeforeShut
<1> QED
  BY <1>1, GrievanceInvAlways, PTL

\* However many officers file the appeal, the tier above hears it once.
THEOREM GrievanceHeardOnce == GrievanceSpec => []HeardOnce
BY GrievanceInvAlways, PTL DEF GrievanceInv

\* Only the appeal touches a finished complaint, and it leaves the decision.
THEOREM GrievanceFinishedStays == GrievanceSpec => FinishedStays
<1>1. ASSUME GrievanceInv, [GrievanceNext]_grievanceVars, NoStaleEdit
      PROVE  \A d \in Complaint : Finished(d)
  <2> SUFFICES ASSUME NEW d \in Complaint PROVE Finished(d)
    OBVIOUS
  <2>1. Files /\ Alone
    BY <1>1 DEF GrievanceInv
  <2>2. CASE QuietStep
    BY <2>2 DEF QuietStep, Finished
  <2>3. ASSUME NEW c \in Complaint, RaiseStep(c) PROVE Finished(d)
    <3>1. d # c => complaint'[d] = complaint[d]
      BY <2>1, <2>3 DEF RaiseStep, Files
    <3>2. d = c => complaint[d].status = "ABSENT"
      BY <2>3, NoRowFacts DEF RaiseStep
    <3> QED
      BY <3>1, <3>2 DEF Finished
  <2>4. ASSUME NEW o \in Officer, WorkStep(o) PROVE Finished(d)
    <3>1. PICK r : /\ complaint' = [complaint EXCEPT ![holding[o].on] = r]
                   /\ Onward(complaint[holding[o].on], r)
      BY <2>4 DEF WorkStep
    <3>2. /\ d # holding[o].on => complaint'[d] = complaint[d]
          /\ d = holding[o].on => complaint'[d] = r
      BY <2>1, <3>1 DEF Files
    <3> QED
      BY <3>1, <3>2 DEF Finished, Onward
  <2>5. ASSUME NEW o \in Officer, EditStep(o) PROVE Finished(d)
    <3>1. Done(o) /\ holding[o].op = "edit" /\ Held(o) /\ "edit" \in desk.does
      BY <2>1, <2>5 DEF EditStep, Done, Files
    <3>2. PICK r : /\ complaint' = [complaint EXCEPT ![holding[o].on] = r]
                   /\ \A col \in {"status", "parent", "outcome", "told"} :
                         r[col] = holding[o].copy[col]
      BY <2>5 DEF EditStep
    <3>3. holding[o].copy = complaint[holding[o].on]
      BY <1>1, <2>1, <3>1 DEF NoStaleEdit, Alone
    <3>4. /\ r.status = complaint[holding[o].on].status
          /\ r.outcome = complaint[holding[o].on].outcome
      BY <3>2, <3>3
    <3>5. /\ d # holding[o].on => complaint'[d] = complaint[d]
          /\ d = holding[o].on => complaint'[d] = r
      BY <2>1, <3>2 DEF Files
    <3> QED
      BY <3>4, <3>5 DEF Finished
  <2>6. ASSUME NEW o \in Officer, NEW child \in Complaint, AppealStep(o, child)
        PROVE  Finished(d)
    <3> DEFINE c == holding[o].on
    <3>1. c \in Complaint /\ complaint[c].status = "CLOSED" /\ complaint[child].status = "ABSENT"
      BY <2>1, <2>6, NoRowFacts DEF AppealStep, Done, Files
    <3>2. PICK r, n : /\ complaint' = [complaint EXCEPT ![c] = r, ![child] = n]
                      /\ r.outcome = complaint[c].outcome
      BY <2>6 DEF AppealStep
    <3>3. /\ d \notin {c, child} => complaint'[d] = complaint[d]
          /\ c # child /\ complaint'[c] = r
      BY <2>1, <3>1, <3>2 DEF Files
    <3> QED
      BY <3>1, <3>2, <3>3 DEF Finished
  <2> QED
    BY <1>1, <2>1, <2>2, <2>3, <2>4, <2>5, <2>6, GrievanceStepKinds
<1>2. GrievanceInv /\ [GrievanceNext]_grievanceVars
         => [NoStaleEdit => \A c \in Complaint : Finished(c)]_grievanceVars
  BY <1>1
<1> QED
  BY <1>2, GrievanceInvAlways, PTL DEF FinishedStays, Finished, NoStaleEdit, GrievanceSpec

-----------------------------------------------------------------------------
(* The clock.  Wd(d) counts the working days up to day d; what the clock    *)
(* answers is a difference of two such counts.                              *)

Wd(d) == Worked(1, d)

LEMMA WdSteps ==
    /\ Wd(0) = 0
    /\ \A d \in Nat : Wd(d) \in Nat
    /\ \A d \in Nat : Wd(d + 1) = IF WorkingDay(d + 1) THEN Wd(d) + 1 ELSE Wd(d)
<1> DEFINE Until(d) == {e \in 1 .. d : WorkingDay(e)}
<1>1. Until(0) = {}
  OBVIOUS
<1>2. ASSUME NEW d \in Nat PROVE IsFiniteSet(Until(d))
  <2>1. IsFiniteSet(1 .. d)
    BY FS_Interval
  <2> QED
    BY <2>1, FS_Subset
<1>3. ASSUME NEW d \in Nat
      PROVE  Until(d + 1) = IF WorkingDay(d + 1) THEN Until(d) \cup {d + 1} ELSE Until(d)
  <2>1. 1 .. d + 1 = (1 .. d) \cup {d + 1}
    OBVIOUS
  <2> QED
    BY <2>1
<1>4. \A d \in Nat : d + 1 \notin Until(d)
  OBVIOUS
<1>5. \A d : Wd(d) = Cardinality(Until(d))
  BY DEF Wd, Worked
<1> HIDE DEF Until
<1>6. \A d \in Nat : Wd(d) \in Nat
  BY <1>2, <1>5, FS_CardinalityType
<1>7. ASSUME NEW d \in Nat
      PROVE  Wd(d + 1) = IF WorkingDay(d + 1) THEN Wd(d) + 1 ELSE Wd(d)
  BY <1>2, <1>3, <1>4, <1>5, FS_AddElement
<1> QED
  BY <1>1, <1>5, <1>6, <1>7, FS_EmptySet

\* The days worked between two days.
LEMMA WorkedBetween ==
    ASSUME NEW a \in Nat, NEW b \in Nat
    PROVE  /\ a <= b => Worked(a + 1, b) = Wd(b) - Wd(a) /\ Wd(a) <= Wd(b)
           /\ b <= a => Worked(a + 1, b) = 0
<1> DEFINE Between(i, j) == {e \in i .. j : WorkingDay(e)}
<1>1. ASSUME a <= b PROVE Worked(a + 1, b) = Wd(b) - Wd(a) /\ Wd(a) <= Wd(b)
  <2>1. /\ Between(1, b) = Between(1, a) \cup Between(a + 1, b)
        /\ Between(1, a) \cap Between(a + 1, b) = {}
    BY <1>1
  <2>2. IsFiniteSet(Between(1, a)) /\ IsFiniteSet(Between(a + 1, b))
    <3>1. IsFiniteSet(1 .. a) /\ IsFiniteSet(a + 1 .. b)
      BY FS_Interval
    <3> QED
      BY <3>1, FS_Subset
  <2>3. /\ Wd(a) = Cardinality(Between(1, a)) /\ Wd(b) = Cardinality(Between(1, b))
        /\ Worked(a + 1, b) = Cardinality(Between(a + 1, b))
    BY DEF Wd, Worked
  <2> HIDE DEF Between
  <2>4. /\ Cardinality(Between(1, a)) \in Nat /\ Cardinality(Between(a + 1, b)) \in Nat
        /\ Cardinality({}) = 0
    BY <2>2, FS_CardinalityType, FS_EmptySet
  <2>5. Cardinality(Between(1, b)) = Cardinality(Between(1, a)) + Cardinality(Between(a + 1, b))
    BY <2>1, <2>2, <2>4, FS_Union
  <2> QED
    BY <2>3, <2>4, <2>5
<1>2. ASSUME b <= a PROVE Worked(a + 1, b) = 0
  <2>1. {e \in a + 1 .. b : WorkingDay(e)} = {}
    BY <1>2
  <2> QED
    BY <2>1, FS_EmptySet DEF Worked
<1> QED
  BY <1>1, <1>2

\* Counted backwards, from a day to the one before another.
LEMMA WorkedBack ==
    ASSUME NEW a \in Nat \ {0}, NEW b \in Nat, a <= b
    PROVE  Worked(a, b - 1) = Wd(b - 1) - Wd(a - 1) /\ Wd(a - 1) <= Wd(b - 1)
<1>1. a - 1 \in Nat /\ b - 1 \in Nat /\ a - 1 <= b - 1 /\ (a - 1) + 1 = a
  OBVIOUS
<1> QED
  BY <1>1, WorkedBetween

LEMMA LeastDay ==
    ASSUME NEW S \in SUBSET Nat, S # {}
    PROVE  \E m \in S : \A k \in S : m <= k
<1> DEFINE R == {ss \in Nat \X Nat : ss[1] < ss[2]}
<1>1. IsWellFoundedOn(R, Nat)
  BY NatLessThanWellFounded DEF OpToRel
<1> HIDE DEF R
<1>2. PICK m \in S : \A k \in S : ~ (<<k, m>> \in R)
  BY <1>1, WFMin
<1>3. \A k \in S : ~ (k < m)
  BY <1>2 DEF R
<1> QED
  BY <1>3

\* Where the calendar has room, so many working days after a day is a day: a
\* working one, unless it is the day itself.
LEMMA AddedDays ==
    ASSUME NEW start \in Nat, NEW days \in Nat, start <= Horizon,
           Wd(start) + days <= Wd(Horizon)
    PROVE  LET d == AddWorkingDays(start, days)
           IN  /\ d \in start .. Horizon /\ Wd(d) = Wd(start) + days
               /\ days # 0 => WorkingDay(d)
               /\ days = 0 => d = start
<1>0. Horizon \in Nat
  BY GrievanceAssumption
<1>1. CASE days = 0
  BY <1>0, <1>1, WdSteps DEF AddWorkingDays
<1>2. CASE days # 0
  <2> DEFINE Enough == {d \in start .. Horizon : Wd(d) >= Wd(start) + days}
             Is(d) == WorkingDay(d) /\ Worked(start + 1, d) = days
  <2>1. Enough \in SUBSET Nat /\ Horizon \in Enough
    BY <1>0, WdSteps
  <2>2. PICK d \in Enough : \A k \in Enough : d <= k
    BY <2>1, LeastDay
  <2>3. d \in Nat /\ d # 0 /\ d - 1 \in Nat /\ start <= d - 1 /\ d \in start .. Horizon
    <3>1. Wd(start) \in Nat /\ d # start
      BY <1>2, WdSteps, <2>2
    <3> QED
      BY <1>0, <2>2, <3>1
  <2>4. Wd(d - 1) < Wd(start) + days
    <3>1. d - 1 \notin Enough
      BY <2>1, <2>2, <2>3
    <3>2. d - 1 \in start .. Horizon /\ Wd(d - 1) \in Nat /\ Wd(start) \in Nat
      BY <1>0, <2>3, WdSteps
    <3> QED
      BY <3>1, <3>2
  <2>5. Wd((d - 1) + 1) = IF WorkingDay((d - 1) + 1) THEN Wd(d - 1) + 1 ELSE Wd(d - 1)
    BY <2>3, WdSteps
  <2>6. (d - 1) + 1 = d
    BY <2>3
  <2>7. WorkingDay(d) /\ Wd(d) = Wd(start) + days
    <3>1. Wd(d) \in Nat /\ Wd(d - 1) \in Nat /\ Wd(start) \in Nat
      BY <2>3, WdSteps
    <3>2. Wd(d) >= Wd(start) + days
      BY <2>2
    <3> QED
      BY <2>4, <2>5, <2>6, <3>1, <3>2
  <2>8. d \in start .. Horizon /\ Is(d)
    <3>1. Worked(start + 1, d) = Wd(d) - Wd(start) /\ Wd(d) \in Nat /\ Wd(start) \in Nat
      BY <2>3, WorkedBetween, WdSteps
    <3> QED
      BY <2>3, <2>7, <3>1
  <2> DEFINE e == CHOOSE x \in start .. Horizon : Is(x)
  <2>9. e \in start .. Horizon /\ Is(e)
    BY <2>8
  <2>10. AddWorkingDays(start, days) = e
    BY <1>2 DEF AddWorkingDays
  <2> HIDE DEF e, Is, Enough
  <2>11. Worked(start + 1, e) = Wd(e) - Wd(start) /\ Wd(e) \in Nat /\ Wd(start) \in Nat
    <3>1. e \in Nat /\ start <= e
      BY <1>0, <2>9
    <3> QED
      BY <3>1, WorkedBetween, WdSteps
  <2> QED
    BY <1>2, <2>9, <2>10, <2>11 DEF Is
<1> QED
  BY <1>1, <1>2

-----------------------------------------------------------------------------
(* Deadlines.  A complaint never has more working days left, on this day or *)
(* on that of its pause, than some severity allows: so every deadline can   *)
(* be computed, and falls on a working day.  True of rows, it is true of    *)
(* copies however old, because the days left only shrink.                   *)

LeftWithin(from, due) == \E s \in Severity : Wd(due) <= Wd(from) + ResponseDays[s]

Scheduled(r) ==
    r.status # "ABSENT" =>
        /\ r.severity \in Severity
        /\ r.raised \in 1 .. today
        /\ r.due \in 1 .. Horizon /\ WorkingDay(r.due)
        /\ r.paused \in 0 .. today
        /\ LeftWithin(IF r.paused = NoDay THEN today ELSE r.paused, r.due)
        /\ r.paused # NoDay => r.raised <= r.paused
        /\ r.status = "AWAITING_COMPLAINANT" => r.paused # NoDay

Clocked ==
    /\ desk \in Desks /\ today \in 1 .. desk.until
    /\ \A c \in Complaint : Scheduled(complaint[c])
    /\ \A o \in Officer : Scheduled(holding[o].copy)

LEMMA TodayIsADay ==
    ASSUME Clocked
    PROVE  /\ Horizon \in Nat /\ desk.until \in 1 .. Horizon /\ today \in 1 .. desk.until
           /\ today \in Nat /\ today # 0
<1>1. desk \in Desk
  BY GrievanceAssumption DEF Clocked
<1>2. Horizon \in Nat /\ desk.until \in 1 .. Horizon
  BY <1>1, GrievanceAssumption DEF Desk, Day
<1> QED
  BY <1>2 DEF Clocked

\* On any day of any desk, and before, there is room for every answer.
LEMMA RoomToAnswer ==
    ASSUME Clocked, NEW from \in 0 .. today, NEW s \in Severity
    PROVE  Wd(from) + ResponseDays[s] <= Wd(Horizon) /\ from <= Horizon
<1>1. /\ Horizon \in Nat /\ desk.until \in 1 .. Horizon /\ ResponseDays[s] \in Nat
      /\ today \in 1 .. desk.until
  BY TodayIsADay, GrievanceAssumption
<1>2. Worked(desk.until + 1, Horizon) >= ResponseDays[s]
  BY HorizonAssumption DEF Clocked
<1>3. Worked(desk.until + 1, Horizon) = Wd(Horizon) - Wd(desk.until)
  BY <1>1, WorkedBetween
<1>4. Wd(from) <= Wd(desk.until)
  BY <1>1, WorkedBetween
<1>5. Wd(Horizon) \in Nat /\ Wd(desk.until) \in Nat /\ Wd(from) \in Nat
  BY <1>1, WdSteps
<1> QED
  BY <1>1, <1>2, <1>3, <1>4, <1>5

\* Between pause and now the days left of a running complaint only shrink.
LEMMA LeftLater ==
    ASSUME NEW a \in Nat, NEW b \in Nat, a <= b, NEW due \in Nat, LeftWithin(a, due)
    PROVE  LeftWithin(b, due)
<1>1. PICK s \in Severity : Wd(due) <= Wd(a) + ResponseDays[s]
  BY DEF LeftWithin
<1>2. Wd(a) <= Wd(b) /\ Wd(a) \in Nat /\ Wd(b) \in Nat /\ Wd(due) \in Nat
         /\ ResponseDays[s] \in Nat
  BY WorkedBetween, WdSteps, GrievanceAssumption
<1>3. Wd(due) <= Wd(b) + ResponseDays[s]
  BY <1>1, <1>2
<1> QED
  BY <1>3 DEF LeftWithin

\* A deadline counted from one day leaves as much on it, and less on later ones.
LEMMA DueScheduled ==
    ASSUME Clocked, NEW raised \in 1 .. today, NEW s \in Severity
    PROVE  /\ DueOn(raised, s) \in 1 .. Horizon /\ WorkingDay(DueOn(raised, s))
           /\ \A from \in raised .. today : LeftWithin(from, DueOn(raised, s))
<1>1. ResponseDays[s] \in Nat \ {0} /\ Horizon \in Nat
  BY GrievanceAssumption
<1>2. Wd(raised) + ResponseDays[s] <= Wd(Horizon) /\ raised \in Nat /\ raised <= Horizon
  BY RoomToAnswer
<1>3. /\ DueOn(raised, s) \in raised .. Horizon /\ WorkingDay(DueOn(raised, s))
      /\ Wd(DueOn(raised, s)) = Wd(raised) + ResponseDays[s]
  BY <1>1, <1>2, AddedDays DEF DueOn
<1>4. Wd(DueOn(raised, s)) <= Wd(raised) + ResponseDays[s]
  BY <1>1, <1>2, <1>3, WdSteps
<1>5. LeftWithin(raised, DueOn(raised, s)) /\ DueOn(raised, s) \in Nat
  BY <1>1, <1>2, <1>3, <1>4 DEF LeftWithin
<1>6. ASSUME NEW from \in raised .. today PROVE LeftWithin(from, DueOn(raised, s))
  BY <1>2, <1>5, TodayIsADay, LeftLater
<1> QED
  BY <1>1, <1>2, <1>3, <1>6

\* The deadline after a wait that began on a day no later than this one: the
\* working days of the wait are added, and what is left is what was.
LEMMA WaitScheduled ==
    ASSUME Clocked, NEW r, r.due \in 1 .. Horizon, WorkingDay(r.due), r.paused \in 1 .. today,
           LeftWithin(r.paused, r.due)
    PROVE  /\ DueAfterWait(r) \in r.due .. Horizon /\ WorkingDay(DueAfterWait(r))
           /\ Wd(DueAfterWait(r)) = Wd(r.due) + Wd(today) - Wd(r.paused)
           /\ LeftWithin(today, DueAfterWait(r))
           /\ today = r.paused => DueAfterWait(r) = r.due
<1> DEFINE wait == WorkingDaysBetween(r.paused, today)
<1>1. /\ wait = Wd(today) - Wd(r.paused) /\ Wd(r.paused) <= Wd(today)
      /\ r.paused \in Nat /\ today \in Nat /\ r.due \in Nat
  <2>1. r.paused \in Nat /\ today \in Nat /\ today >= r.paused /\ r.due \in Nat
    BY TodayIsADay
  <2> QED
    BY <2>1, WorkedBetween DEF WorkingDaysBetween
<1>2. Wd(today) \in Nat /\ Wd(r.paused) \in Nat /\ Wd(r.due) \in Nat /\ wait \in Nat
  BY <1>1, WdSteps
<1>3. PICK s \in Severity : Wd(r.due) <= Wd(r.paused) + ResponseDays[s]
  BY DEF LeftWithin
<1>4. ResponseDays[s] \in Nat /\ Horizon \in Nat
  BY GrievanceAssumption
<1>5. Wd(today) + ResponseDays[s] <= Wd(Horizon)
  BY RoomToAnswer, <1>1
<1>6. Wd(r.due) + wait <= Wd(Horizon) /\ Wd(Horizon) \in Nat
  BY <1>1, <1>2, <1>3, <1>4, <1>5, WdSteps
<1> HIDE DEF wait
<1>7. LET d == AddWorkingDays(r.due, wait)
      IN  /\ d \in r.due .. Horizon /\ Wd(d) = Wd(r.due) + wait
          /\ wait # 0 => WorkingDay(d)
          /\ wait = 0 => d = r.due
  BY <1>1, <1>2, <1>6, AddedDays
<1>8. DueAfterWait(r) = AddWorkingDays(r.due, wait)
  BY DEF DueAfterWait, wait
<1>9. Wd(DueAfterWait(r)) = Wd(r.due) + Wd(today) - Wd(r.paused)
  BY <1>1, <1>2, <1>7, <1>8
<1>10. Wd(DueAfterWait(r)) <= Wd(today) + ResponseDays[s]
  BY <1>2, <1>3, <1>4, <1>9
<1>11. today = r.paused => wait = 0
  BY <1>1, <1>2
<1> QED
  BY <1>7, <1>8, <1>9, <1>10, <1>11 DEF LeftWithin

\* A write of columns the clock does not ask about.
LEMMA SameSchedule ==
    ASSUME NEW row, NEW r, Scheduled(row), row.status # "ABSENT",
           r.severity = row.severity, r.raised = row.raised, r.due = row.due,
           r.paused = row.paused,
           r.status = "AWAITING_COMPLAINANT" => r.status = row.status
    PROVE  Scheduled(r)
BY DEF Scheduled

\* What a handler of the workflow finds.
LEMMA MovesFinds ==
    ASSUME Files, Clocked, NEW o \in Officer, NEW op \in GrievanceOps, Moves(o, op)
    PROVE  /\ holding[o].on \in Complaint
           /\ complaint[holding[o].on].status \in EdgesFrom[op]
           /\ Shaped(complaint[holding[o].on]) /\ Scheduled(complaint[holding[o].on])
           /\ Shaped(holding[o].copy) /\ Scheduled(holding[o].copy)
           /\ holding[o].copy.status # "ABSENT" /\ Held(o)
           /\ UNCHANGED <<today, desk>>
<1>1. Held(o)
  BY DEF Moves, Held, GrievanceOps
<1> QED
  BY <1>1 DEF Moves, EdgeExists, Files, Clocked, Sound

\* No handler computes a deadline that does not exist, whatever copy it uses.
LEMMA HandlersSchedule ==
    ASSUME Files, Clocked, NEW o \in Officer, NEW r,
           complaint' = [complaint EXCEPT ![holding[o].on] = r],
           NEW x, NEW d
    PROVE  LET c == holding[o].on
               row == complaint[c]
               copy == holding[o].copy
           IN  /\ Acknowledge(o) \/ StartReview(o) \/ Decide(o, x, d) \/ CloseFile(o) \/ ReferOut(o)
                     => Scheduled(r)
               /\ Pause(o) \/ Resume(o) => Scheduled(r)
               /\ \A s \in Severity : Edit(o, s) => Scheduled(r)
<1> DEFINE c == holding[o].on
           row == complaint[c]
           copy == holding[o].copy
<1>0. \A b \in Complaint : complaint' = [complaint EXCEPT ![b] = r] => complaint'[b] = r
  BY DEF Files
<1>1. ASSUME Acknowledge(o) \/ StartReview(o) \/ Decide(o, x, d) \/ CloseFile(o) \/ ReferOut(o)
      PROVE  Scheduled(r)
  <2>1. PICK op \in {"acknowledge", "start_review", "decide", "close", "refer_out"} : Moves(o, op)
    BY <1>1 DEF Acknowledge, StartReview, Decide, CloseFile, ReferOut
  <2>2. /\ c \in Complaint /\ Shaped(row) /\ Scheduled(row) /\ row.status # "ABSENT"
        /\ complaint'[c] = r
    BY <1>0, <2>1, MovesFinds DEF EdgesFrom, GrievanceOps
  <2>3. /\ r.severity = row.severity /\ r.raised = row.raised /\ r.due = row.due
        /\ r.paused = row.paused /\ r.status # "AWAITING_COMPLAINANT"
    <3>1. CASE Acknowledge(o)
      BY <2>2, <3>1 DEF Acknowledge, Files, Shaped
    <3>2. CASE StartReview(o)
      BY <2>2, <3>2 DEF StartReview, Files, Shaped
    <3>3. CASE Decide(o, x, d)
      <4> DEFINE n == [[[row EXCEPT !.status = "DECIDED"] EXCEPT !.outcome = x] EXCEPT !.resolved = d]
      <4>1. r = n
        BY <2>2, <3>3 DEF Decide, Files
      <4> QED
        BY <2>2, <4>1 DEF Shaped
    <3>4. CASE CloseFile(o)
      <4> DEFINE day == ResolvedOr(copy, today)
                 n == [[[row EXCEPT !.status = "CLOSED"] EXCEPT !.told = TRUE] EXCEPT !.resolved = day]
      <4>1. r = n
        BY <2>2, <3>4 DEF CloseFile, Files
      <4> HIDE DEF day
      <4> QED
        BY <2>2, <4>1 DEF Shaped
    <3>5. CASE ReferOut(o)
      BY <2>2, <3>5 DEF ReferOut, Files, Shaped
    <3> QED
      BY <1>1, <3>1, <3>2, <3>3, <3>4, <3>5
  <2> QED
    BY <2>2, <2>3, SameSchedule
<1>2. ASSUME Pause(o) PROVE Scheduled(r)
  <2>1. Moves(o, "pause")
    BY <1>2 DEF Pause
  <2>2. /\ c \in Complaint /\ Shaped(row) /\ Scheduled(row) /\ row.status = "UNDER_REVIEW"
        /\ complaint'[c] = r
    BY <1>0, <2>1, MovesFinds DEF EdgesFrom, GrievanceOps
  <2>3. /\ r.severity = row.severity /\ r.raised = row.raised /\ r.due = row.due
        /\ r.paused = today
    BY <1>2, <2>2 DEF Pause, Files, Shaped
  <2>4. LeftWithin(today, row.due) /\ row.due \in Nat
    <3>1. row.paused \in Nat /\ row.paused <= today /\ row.due \in Nat
      BY <2>2, TodayIsADay DEF Scheduled
    <3> QED
      BY <2>2, <3>1, TodayIsADay, LeftLater DEF Scheduled
  <2> QED
    BY <2>2, <2>3, <2>4, TodayIsADay DEF Scheduled, NoDay
<1>3. ASSUME Resume(o) PROVE Scheduled(r)
  <2>1. Moves(o, "resume")
    BY <1>3 DEF Resume
  <2>2. /\ c \in Complaint /\ Shaped(row) /\ Scheduled(row) /\ row.status = "AWAITING_COMPLAINANT"
        /\ complaint'[c] = r /\ Scheduled(copy) /\ copy.status # "ABSENT"
    BY <1>0, <2>1, MovesFinds DEF EdgesFrom, GrievanceOps
  <2>3. /\ r.severity = row.severity /\ r.raised = row.raised /\ r.paused = NoDay
        /\ r.status = "UNDER_REVIEW"
        /\ r.due = IF copy.paused = NoDay THEN copy.due ELSE DueAfterWait(copy)
    <3> DEFINE due == IF copy.paused = NoDay THEN copy.due ELSE DueAfterWait(copy)
               n == [[[row EXCEPT !.status = "UNDER_REVIEW"] EXCEPT !.paused = NoDay] EXCEPT !.due = due]
    <3>1. r = n
      BY <1>3, <2>2 DEF Resume, Files
    <3> HIDE DEF due
    <3>2. /\ r.severity = row.severity /\ r.raised = row.raised /\ r.paused = NoDay
          /\ r.status = "UNDER_REVIEW" /\ r.due = due
      BY <2>2, <3>1 DEF Shaped
    <3> QED
      BY <3>2 DEF due
  <2>4. r.due \in 1 .. Horizon /\ WorkingDay(r.due) /\ LeftWithin(today, r.due)
    <3>1. CASE copy.paused = NoDay
      BY <2>2, <2>3, <3>1 DEF Scheduled
    <3>2. CASE copy.paused # NoDay
      <4>1. /\ copy.due \in 1 .. Horizon /\ WorkingDay(copy.due) /\ copy.paused \in 1 .. today
            /\ LeftWithin(copy.paused, copy.due)
        BY <2>2, <3>2, TodayIsADay DEF Scheduled, NoDay
      <4>2. /\ DueAfterWait(copy) \in copy.due .. Horizon /\ WorkingDay(DueAfterWait(copy))
            /\ LeftWithin(today, DueAfterWait(copy))
        BY <4>1, WaitScheduled
      <4>3. DueAfterWait(copy) \in 1 .. Horizon
        BY <4>1, <4>2
      <4> QED
        BY <2>3, <3>2, <4>2, <4>3
    <3> QED
      BY <3>1, <3>2
  <2> QED
    BY <2>2, <2>3, <2>4, TodayIsADay DEF Scheduled, NoDay
<1>4. ASSUME NEW s \in Severity, Edit(o, s) PROVE Scheduled(r)
  <2>1. Held(o)
    BY <1>4 DEF Edit, Held
  <2>2. /\ c \in Complaint /\ Shaped(copy) /\ Scheduled(copy) /\ copy.status # "ABSENT"
        /\ complaint'[c] = r
    BY <1>0, <2>1 DEF Files, Clocked, Sound
  <2>3. /\ r.severity = s /\ r.raised = copy.raised /\ r.paused = copy.paused
        /\ r.status = copy.status /\ r.due = DueOn(copy.raised, s)
    <3> DEFINE due == DueOn(copy.raised, s)
               n == [[copy EXCEPT !.severity = s] EXCEPT !.due = due]
    <3>1. r = n
      BY <1>4, <2>2 DEF Edit, Files
    <3> HIDE DEF due
    <3>2. /\ r.severity = s /\ r.raised = copy.raised /\ r.paused = copy.paused
          /\ r.status = copy.status /\ r.due = due
      BY <2>2, <3>1 DEF Shaped
    <3> QED
      BY <3>2 DEF due
  <2>4. r.due \in 1 .. Horizon /\ WorkingDay(r.due)
    BY <2>2, <2>3, DueScheduled DEF Scheduled
  <2>5. LeftWithin(IF r.paused = NoDay THEN today ELSE r.paused, r.due)
    <3>1. /\ copy.raised \in 1 .. today /\ copy.paused \in 0 .. today
          /\ copy.paused # NoDay => copy.raised <= copy.paused
      BY <2>2 DEF Scheduled
    <3>2. (IF copy.paused = NoDay THEN today ELSE copy.paused) \in copy.raised .. today
      BY <3>1, TodayIsADay DEF NoDay
    <3> QED
      BY <2>3, <3>1, <3>2, DueScheduled
  <2> QED
    BY <2>2, <2>3, <2>4, <2>5 DEF Scheduled
<1> QED
  BY <1>1, <1>2, <1>3, <1>4

LEMMA NewRowScheduled ==
    ASSUME Clocked, NEW t, NEW p, NEW s \in Severity, NEW raised \in 1 .. today
    PROVE  Scheduled(NewRow(t, p, s, raised))
<1> DEFINE due == DueOn(raised, s)
<1>1. due \in 1 .. Horizon /\ WorkingDay(due) /\ LeftWithin(today, due)
  BY DueScheduled, TodayIsADay
<1> HIDE DEF due
<1>2. NewRow(t, p, s, raised) =
         [ NoRow EXCEPT !.status = "RECEIVED", !.tier = t, !.parent = p, !.severity = s,
                        !.raised = raised, !.due = due ]
  BY DEF NewRow, due
<1> DEFINE n == NewRow(t, p, s, raised)
<1>3. /\ n.status = "RECEIVED" /\ n.severity = s /\ n.raised = raised /\ n.due = due
      /\ n.paused = NoDay
  BY <1>2 DEF NoRow
<1> HIDE DEF n
<1>4. Scheduled(n)
  BY <1>1, <1>3, TodayIsADay DEF Scheduled, NoDay
<1> QED
  BY <1>4 DEF n

LEMMA ClockStarts == GrievanceInit => Clocked
<1> SUFFICES ASSUME GrievanceInit PROVE Clocked
  OBVIOUS
<1>1. desk \in Desk /\ Horizon \in Nat
  BY GrievanceAssumption DEF GrievanceInit
<1>2. today = 1 /\ 1 \in 1 .. desk.until
  BY <1>1 DEF GrievanceInit, Desk, Day
<1>3. Scheduled(NoRow)
  BY NoRowFacts DEF Scheduled
<1>4. \A o \in Officer : holding[o].copy = NoRow
  BY NoRowFacts DEF GrievanceInit
<1> QED
  BY <1>2, <1>3, <1>4 DEF GrievanceInit, Clocked

\* Rows keep their schedule on the next day.
LEMMA NextDayScheduled ==
    ASSUME Clocked, NEW r, Scheduled(r), today' = today + 1
    PROVE  r.status # "ABSENT" =>
              /\ r.severity \in Severity /\ r.raised \in 1 .. today'
              /\ r.due \in 1 .. Horizon /\ WorkingDay(r.due)
              /\ r.paused \in 0 .. today'
              /\ LeftWithin(IF r.paused = NoDay THEN today' ELSE r.paused, r.due)
              /\ r.paused # NoDay => r.raised <= r.paused
              /\ r.status = "AWAITING_COMPLAINANT" => r.paused # NoDay
<1> SUFFICES ASSUME r.status # "ABSENT"
             PROVE  LeftWithin(IF r.paused = NoDay THEN today' ELSE r.paused, r.due)
  BY TodayIsADay DEF Scheduled
<1>1. CASE r.paused = NoDay
  <2>1. LeftWithin(today, r.due) /\ r.due \in Nat /\ today' \in Nat /\ today <= today'
    BY <1>1, TodayIsADay DEF Scheduled
  <2> QED
    BY <1>1, <2>1, TodayIsADay, LeftLater
<1>2. CASE r.paused # NoDay
  BY <1>2 DEF Scheduled
<1> QED
  BY <1>1, <1>2

\* Every step keeps the deadlines.
LEMMA ClockKept ==
    ASSUME GrievanceInv, Clocked, [GrievanceNext]_grievanceVars
    PROVE  Clocked'
<1>1. Files
  BY DEF GrievanceInv
<1>2. ASSUME UNCHANGED <<today, desk>>,
             \A c \in Complaint : Scheduled(complaint'[c]),
             \A o \in Officer : Scheduled(holding'[o].copy)
      PROVE  Clocked'
  BY <1>2 DEF Clocked, Scheduled
<1>3. CASE UNCHANGED grievanceVars
  BY <1>3 DEF grievanceVars, Clocked, Scheduled
<1>4. ASSUME NextDay PROVE Clocked'
  <2>1. today' = today + 1 /\ UNCHANGED <<complaint, holding, desk>> /\ today < desk.until
    BY <1>4 DEF NextDay
  <2>2. \A c \in Complaint : Scheduled(complaint[c])'
    BY <2>1, NextDayScheduled DEF Clocked, Scheduled
  <2>3. \A o \in Officer : Scheduled(holding[o].copy)'
    BY <2>1, NextDayScheduled DEF Clocked, Scheduled
  <2> QED
    BY <2>1, <2>2, <2>3, TodayIsADay DEF Clocked
<1>5. ASSUME NEW c \in Complaint, NEW t \in Tier, NEW s \in Severity, NEW d \in Day,
             RaiseComplaint(c, t, s, d)
      PROVE  Clocked'
  <2>1. /\ complaint' = [complaint EXCEPT ![c] = NewRow(t, NoComplaint, s, d)] /\ d \in 1 .. today
        /\ UNCHANGED <<holding, today, desk>>
    BY <1>5, TodayIsADay DEF RaiseComplaint, Day
  <2>2. Scheduled(NewRow(t, NoComplaint, s, d))
    BY <2>1, NewRowScheduled
  <2>3. \A b \in Complaint : Scheduled(complaint'[b])
    BY <1>1, <2>1, <2>2 DEF Clocked, Files
  <2> QED
    BY <1>2, <2>1, <2>3 DEF Clocked
<1>6. ASSUME NEW o \in Officer, NEW op \in GrievanceOps, NEW c \in Complaint, Fetch(o, op, c)
      PROVE  Clocked'
  <2>1. /\ UNCHANGED <<complaint, today, desk>>
        /\ \A p \in Officer : holding'[p].copy \in {complaint[c], holding[p].copy}
    BY <1>1, <1>6 DEF Fetch, Files
  <2> QED
    BY <1>2, <2>1 DEF Clocked
<1>7. ASSUME NEW o \in Officer, holding' = [holding EXCEPT ![o] = NoGrievanceRequest]
      PROVE  \A p \in Officer : Scheduled(holding'[p].copy)
  <2>1. \A p \in Officer : holding'[p].copy \in {NoRow, holding[p].copy}
    BY <1>1, <1>7, NoRowFacts DEF Files
  <2>2. Scheduled(NoRow)
    BY NoRowFacts DEF Scheduled
  <2> QED
    BY <2>1, <2>2 DEF Clocked
<1>8. ASSUME NEW o \in Officer, GiveUp(o) PROVE Clocked'
  BY <1>2, <1>7, <1>8 DEF GiveUp, Clocked
<1>9. ASSUME NEW o \in Officer,
             \/ Acknowledge(o) \/ StartReview(o) \/ Pause(o) \/ Resume(o) \/ CloseFile(o)
             \/ ReferOut(o)
             \/ \E x \in Outcome, d \in 1 .. desk.until : Decide(o, x, d)
             \/ \E s \in Severity : Edit(o, s)
      PROVE  Clocked'
  <2>1. WorkStep(o) \/ EditStep(o)
    BY <1>1, <1>9, Handlers
  <2>2. /\ Done(o) /\ \E r : complaint' = [complaint EXCEPT ![holding[o].on] = r]
    BY <2>1 DEF WorkStep, EditStep
  <2>3. PICK r : complaint' = [complaint EXCEPT ![holding[o].on] = r]
    BY <2>2
  <2>4. Scheduled(r)
    BY <1>1, <1>9, <2>3, HandlersSchedule
  <2>5. \A c \in Complaint : Scheduled(complaint'[c])
    BY <1>1, <2>3, <2>4 DEF Files, Clocked
  <2> QED
    BY <1>2, <1>7, <2>2, <2>5 DEF Done
<1>10. ASSUME NEW o \in Officer, NEW child \in Complaint, Appeal(o, child) PROVE Clocked'
  <2> DEFINE c == holding[o].on
             copy == holding[o].copy
             n == NewRow(copy.tier + 1, c, copy.severity, today)
             r == [complaint[c] EXCEPT !.status = "APPEALED"]
  <2>1. Moves(o, "appeal") /\ complaint[child] = NoRow
    BY <1>10 DEF Appeal
  <2>2. /\ c \in Complaint /\ Shaped(complaint[c]) /\ Scheduled(complaint[c])
        /\ complaint[c].status = "CLOSED" /\ Scheduled(copy) /\ copy.status # "ABSENT"
        /\ UNCHANGED <<today, desk>>
    BY <1>1, <2>1, MovesFinds DEF EdgesFrom, GrievanceOps
  <2>3. c # child
    BY <2>1, <2>2, NoRowFacts
  <2>4. complaint' = [complaint EXCEPT ![c] = r, ![child] = n]
    BY <1>1, <1>10, <2>2 DEF Appeal, Files
  <2>5. copy.severity \in Severity /\ today \in 1 .. today
    BY <2>2, TodayIsADay DEF Scheduled
  <2>6. Scheduled(n)
    BY <2>5, NewRowScheduled
  <2>7. /\ r.severity = complaint[c].severity /\ r.raised = complaint[c].raised
        /\ r.due = complaint[c].due /\ r.paused = complaint[c].paused /\ r.status = "APPEALED"
    BY <2>2 DEF Shaped
  <2> HIDE DEF n, r
  <2>8. Scheduled(r)
    BY <2>2, <2>7, SameSchedule
  <2>9. \A b \in Complaint : Scheduled(complaint'[b])
    BY <1>1, <2>4, <2>6, <2>8 DEF Files, Clocked
  <2> QED
    BY <1>2, <1>7, <2>1, <2>2, <2>9 DEF Moves
<1> QED
  BY <1>3, <1>4, <1>5, <1>6, <1>8, <1>9, <1>10 DEF GrievanceNext

\* Every deadline can be computed and falls on a working day, on rows and on
\* copies, and no complaint has more working days left than it was given.
THEOREM GrievanceDeadlines == GrievanceSpec => []Clocked
<1>1. GrievanceInv /\ Clocked /\ [GrievanceNext]_grievanceVars => Clocked'
  BY ClockKept
<1> QED
  BY <1>1, ClockStarts, GrievanceInvAlways, PTL DEF GrievanceSpec

\* The list of late complaints and the clock agree, since a deadline that has
\* passed is itself a day that was worked.
THEOREM GrievanceQueueAgrees == GrievanceSpec => []QueueAgreesWithClock
<1>1. Clocked => QueueAgreesWithClock
  <2> SUFFICES ASSUME Clocked, NEW c \in Complaint, complaint[c].status \in GrievanceOpen
               PROVE  Late(complaint[c]) <=> Standing(complaint[c]) = "late"
    BY DEF QueueAgreesWithClock
  <2> DEFINE due == complaint[c].due
             left == WorkingDaysBetween(today, due)
  <2>1. due \in 1 .. Horizon /\ WorkingDay(due) /\ today \in Nat \ {0} /\ due \in Nat \ {0}
    BY TodayIsADay DEF Clocked, Scheduled, GrievanceOpen, GrievanceStatus
  <2>2. ASSUME today <= due PROVE left >= 0
    <3>1. Worked(today + 1, due) = Wd(due) - Wd(today) /\ Wd(today) <= Wd(due)
      BY <2>1, <2>2, WorkedBetween
    <3>2. Wd(due) \in Nat /\ Wd(today) \in Nat
      BY <2>1, WdSteps
    <3>3. left = Worked(today + 1, due)
      BY <2>1, <2>2 DEF WorkingDaysBetween
    <3> QED
      BY <3>1, <3>2, <3>3
  <2>3. ASSUME due < today PROVE left < 0
    <3>1. Worked(due, today - 1) = Wd(today - 1) - Wd(due - 1) /\ Wd(due) <= Wd(today - 1)
      <4>1. Worked(due, today - 1) = Wd(today - 1) - Wd(due - 1)
        BY <2>1, <2>3, WorkedBack
      <4>2. due <= today - 1 /\ today - 1 \in Nat
        BY <2>1, <2>3
      <4>3. Wd(due) <= Wd(today - 1)
        BY <2>1, <4>2, WorkedBetween
      <4> QED
        BY <4>1, <4>3
    <3>2. Wd(due) = Wd(due - 1) + 1
      <4>1. due - 1 \in Nat /\ (due - 1) + 1 = due
        BY <2>1
      <4>2. Wd((due - 1) + 1) = IF WorkingDay((due - 1) + 1) THEN Wd(due - 1) + 1 ELSE Wd(due - 1)
        BY <4>1, WdSteps
      <4> QED
        BY <2>1, <4>1, <4>2
    <3>3. Wd(due - 1) \in Nat /\ Wd(today - 1) \in Nat
      BY <2>1, <2>3, WdSteps
    <3>4. left = -Worked(due, today - 1)
      BY <2>1, <2>3 DEF WorkingDaysBetween
    <3> QED
      BY <3>1, <3>2, <3>3, <3>4
  <2>4. left \in Int
    <3>1. today <= due => left = Worked(today + 1, due)
      BY <2>1 DEF WorkingDaysBetween
    <3>2. due < today => left = -Worked(due, today - 1)
      BY <2>1 DEF WorkingDaysBetween
    <3>3. today <= due => Worked(today + 1, due) = Wd(due) - Wd(today)
      BY <2>1, WorkedBetween
    <3>4. due < today => Worked(due, today - 1) = Wd(today - 1) - Wd(due - 1)
      BY <2>1, WorkedBack
    <3>5. Wd(due) \in Nat /\ Wd(today) \in Nat /\ Wd(due - 1) \in Nat /\ Wd(today - 1) \in Nat
      BY <2>1, WdSteps
    <3> QED
      BY <2>1, <3>1, <3>2, <3>3, <3>4, <3>5
  <2> HIDE DEF left
  <2>5. Standing(complaint[c]) = IF left < 0 THEN "late" ELSE IF left <= 2 THEN "due" ELSE "on_time"
    BY DEF Standing, left
  <2>6. Late(complaint[c]) <=> due < today
    BY DEF Late
  <2> QED
    BY <2>1, <2>2, <2>3, <2>4, <2>5, <2>6
<1> QED
  BY <1>1, GrievanceDeadlines, PTL

\* One request at a time, the working days left when a complaint is taken up
\* again are those left when it was put aside.
THEOREM GrievanceWaitIsFree == GrievanceSpec => WaitCostsNothing
<1> DEFINE Free(c) ==
              LET row == complaint[c]
              IN  row.status = "AWAITING_COMPLAINANT" /\ complaint'[c].status = "UNDER_REVIEW"
                    /\ row.due >= row.paused /\ WorkingDay(today)
                  => WorkingDaysBetween(today, complaint'[c].due)
                        = WorkingDaysBetween(row.paused, row.due)
<1>1. ASSUME GrievanceInv, Clocked, [GrievanceNext]_grievanceVars, desk.atOnce = 1,
             NEW c \in Complaint
      PROVE  Free(c)
  <2> SUFFICES ASSUME complaint[c].status = "AWAITING_COMPLAINANT",
                      complaint'[c].status = "UNDER_REVIEW",
                      complaint[c].due >= complaint[c].paused, WorkingDay(today)
               PROVE  WorkingDaysBetween(today, complaint'[c].due)
                         = WorkingDaysBetween(complaint[c].paused, complaint[c].due)
    OBVIOUS
  <2> DEFINE row == complaint[c]
  <2>1. Files /\ Alone
    BY <1>1 DEF GrievanceInv
  <2>2. PICK o \in Officer : Resume(o) /\ holding[o].on = c
    <3>1. ~QuietStep
      BY DEF QuietStep
    <3>2. ASSUME NEW b \in Complaint, RaiseStep(b) PROVE FALSE
      BY <2>1, <3>2, NoRowFacts DEF RaiseStep, Files
    <3>3. ASSUME NEW o \in Officer, NEW child \in Complaint, AppealStep(o, child) PROVE FALSE
      BY <2>1, <3>3, NoRowFacts DEF AppealStep, Files, Done
    <3>4. ASSUME NEW o \in Officer, NEW s \in Severity, Edit(o, s) PROVE FALSE
      <4>1. EditStep(o)
        BY <2>1, <3>4, Handlers
      <4>2. Done(o) /\ Held(o)
        BY <4>1 DEF EditStep, Done
      <4>3. PICK r : /\ complaint' = [complaint EXCEPT ![holding[o].on] = r]
                     /\ r.status = holding[o].copy.status
        BY <4>1 DEF EditStep
      <4>4. holding[o].copy = complaint[holding[o].on] /\ holding[o].on \in Complaint
        BY <1>1, <2>1, <4>2 DEF Alone, Files
      <4> QED
        BY <2>1, <4>3, <4>4 DEF Files
    <3>5. ASSUME NEW o \in Officer, NEW x, NEW d,
                 \/ Acknowledge(o) \/ StartReview(o) \/ Pause(o) \/ CloseFile(o) \/ ReferOut(o)
                 \/ Decide(o, x, d)
          PROVE  FALSE
      <4>1. PICK op \in {"acknowledge", "start_review", "pause", "close", "refer_out", "decide"} :
                Moves(o, op)
        BY <3>5 DEF Acknowledge, StartReview, Pause, CloseFile, ReferOut, Decide
      <4>2. holding[o].on \in Complaint /\ complaint[holding[o].on].status \in EdgesFrom[op]
        BY <1>1, <2>1, <4>1, MovesFinds DEF GrievanceOps
      <4>3. \A b \in Complaint \ {holding[o].on} : complaint'[b] = complaint[b]
        BY <2>1, <3>5 DEF Files, Acknowledge, StartReview, Pause, CloseFile, ReferOut, Decide
      <4>4. holding[o].on = c
        BY <4>3
      <4>5. op = "refer_out"
        BY <4>1, <4>2, <4>4 DEF EdgesFrom
      <4>6. ReferOut(o)
        BY <3>5, <4>1, <4>5 DEF Acknowledge, StartReview, Pause, CloseFile, Decide, Moves
      <4>7. Shaped(complaint[c])
        BY <2>1 DEF Files, Sound
      <4>8. complaint'[c].status = "REFERRED_OUT"
        BY <2>1, <4>2, <4>4, <4>6, <4>7 DEF ReferOut, Files, Shaped
      <4> QED
        BY <4>8
    <3>6. PICK o \in Officer : Resume(o)
      <4>1. ~NextDay /\ ~UNCHANGED grievanceVars
        BY DEF NextDay, grievanceVars
      <4>2. \A o \in Officer : ~GiveUp(o)
        BY DEF GiveUp
      <4>3. \A o \in Officer, op \in GrievanceOps, b \in Complaint : ~Fetch(o, op, b)
        BY DEF Fetch
      <4>4. \A b \in Complaint, t \in Tier, s \in Severity, d \in Day : ~RaiseComplaint(b, t, s, d)
        <5> SUFFICES ASSUME NEW b \in Complaint, NEW t \in Tier, NEW s \in Severity, NEW d \in Day,
                            RaiseComplaint(b, t, s, d)
                     PROVE  FALSE
          OBVIOUS
        <5>1. complaint[b].status = "ABSENT"
          BY NoRowFacts DEF RaiseComplaint
        <5> QED
          BY <2>1, <5>1 DEF RaiseComplaint, Files
      <4>5. \A o \in Officer, child \in Complaint : ~Appeal(o, child)
        BY <2>1, <3>3, Handlers
      <4> QED
        BY <1>1, <3>4, <3>5, <4>1, <4>2, <4>3, <4>4, <4>5 DEF GrievanceNext
    <3>7. holding[o].on = c
      BY <2>1, <3>6 DEF Resume, Files
    <3> QED
      BY <3>6, <3>7
  <2>3. Moves(o, "resume")
    BY <2>2 DEF Resume
  <2>4. /\ Shaped(row) /\ Scheduled(row) /\ Held(o)
    BY <1>1, <2>1, <2>2, <2>3, MovesFinds DEF GrievanceOps
  <2>5. holding[o].copy = row
    BY <1>1, <2>1, <2>2, <2>4 DEF Alone
  <2>6. /\ row.due \in 1 .. Horizon /\ WorkingDay(row.due) /\ row.paused \in 1 .. today
        /\ LeftWithin(row.paused, row.due) /\ row.paused # NoDay
    BY <1>1, <2>4, TodayIsADay DEF Scheduled, NoDay
  <2>7. complaint'[c].due = DueAfterWait(row)
    <3> DEFINE due == DueAfterWait(row)
               n == [[[row EXCEPT !.status = "UNDER_REVIEW"] EXCEPT !.paused = NoDay]
                         EXCEPT !.due = due]
    <3>1. complaint'[c] = n
      BY <2>1, <2>2, <2>5, <2>6 DEF Resume, Files
    <3> HIDE DEF due
    <3>2. complaint'[c].due = due
      BY <2>4, <3>1 DEF Shaped
    <3> QED
      BY <3>2 DEF due
  <2> DEFINE later == DueAfterWait(row)
  <2>8. /\ later \in row.due .. Horizon /\ Wd(later) = Wd(row.due) + Wd(today) - Wd(row.paused)
        /\ today = row.paused => later = row.due
    BY <1>1, <2>6, WaitScheduled
  <2> HIDE DEF later
  <2>9. /\ row.due \in Nat /\ row.paused \in Nat /\ today \in Nat /\ later \in Nat /\ today # 0
        /\ row.paused <= row.due
    BY <1>1, <2>6, <2>8, TodayIsADay
  <2>10. Wd(later) \in Nat /\ Wd(row.due) \in Nat /\ Wd(today) \in Nat /\ Wd(row.paused) \in Nat
    BY <2>9, WdSteps
  <2>11. WorkingDaysBetween(row.paused, row.due) = Wd(row.due) - Wd(row.paused)
            /\ Wd(row.paused) <= Wd(row.due)
    BY <2>9, WorkedBetween DEF WorkingDaysBetween
  <2>12. today <= later
    <3> SUFFICES ASSUME later < today PROVE FALSE
      BY <2>9
    <3>1. today - 1 \in Nat /\ later <= today - 1 /\ (today - 1) + 1 = today
      BY <2>9
    <3>2. Wd(later) <= Wd(today - 1) /\ Wd(today - 1) \in Nat
      BY <2>9, <3>1, WorkedBetween, WdSteps
    <3>3. Wd((today - 1) + 1) = IF WorkingDay((today - 1) + 1) THEN Wd(today - 1) + 1
                                ELSE Wd(today - 1)
      BY <3>1, WdSteps
    <3>4. Wd(today) = Wd(today - 1) + 1
      BY <3>1, <3>3
    <3> QED
      BY <2>8, <2>10, <2>11, <3>2, <3>4
  <2>13. WorkingDaysBetween(today, later) = Wd(later) - Wd(today)
    BY <2>9, <2>12, WorkedBetween DEF WorkingDaysBetween
  <2>14. WorkingDaysBetween(today, later) = WorkingDaysBetween(row.paused, row.due)
    BY <2>8, <2>10, <2>11, <2>13
  <2> QED
    BY <2>7, <2>14 DEF later
<1>2. GrievanceInv /\ Clocked /\ [GrievanceNext]_grievanceVars
         => [desk.atOnce = 1 => \A c \in Complaint : Free(c)]_grievanceVars
  BY <1>1
<1> QED
  BY <1>2, GrievanceInvAlways, GrievanceDeadlines, PTL DEF WaitCostsNothing, GrievanceSpec
=============================================================================
