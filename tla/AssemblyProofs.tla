--------------------------- MODULE AssemblyProofs ---------------------------
(***************************************************************************)
(* What holds of the life of savings groups and of their associations, for *)
(* any groups, women, officers and policies.                               *)
(***************************************************************************)
EXTENDS Assembly, FiniteSetTheorems, TLAPS

-----------------------------------------------------------------------------
(* The rows, and what they refer to.                                       *)

LifeTask == [ op : LifeOps \cup {"none"}, group : Shg \cup {Nobody}, copy : GroupRow,
              woman : Woman \cup {Nobody}, event : Nat, todo : SUBSET Shg ]

TrailRow == [ group : Shg, to : Phase, by : Officer \cup {Nobody}, decider : Officer \cup {Nobody},
              outcome : {"PENDING", "APPROVED", "REJECTED"}, at : Nat ]

\* An approval, by someone who did not ask for it, of phase n for group g.
Earned(rows, g, n) ==
    n > 1 => \E i \in DOMAIN rows :
                /\ rows[i].group = g /\ rows[i].outcome = "APPROVED" /\ rows[i].to = n
                /\ rows[i].decider # rows[i].by

\* What a request holds is about the group it names.
TaskFits(t) ==
    /\ Earned(trail, t.group, t.copy.phase)
    /\ t.op = "submit" => t.group \in Shg /\ t.copy.phase < 4
    /\ t.op = "expire" => t.copy.phase = 0
    /\ t.op \in {"approve", "reject"} =>
          t.event \in DOMAIN trail /\ trail[t.event].group = t.group /\ t.group \in Shg

LifeSound ==
    /\ shg \in [Shg -> GroupRow]
    /\ trail \in Seq(TrailRow)
    /\ task \in [Officer -> LifeTask]
    /\ season \in Seasons
    /\ \A g \in Shg : Bearing(shg[g]) /\ Earned(trail, g, shg[g].phase)
    /\ \A o \in Officer : TaskFits(task[o])

\* Decided events stay as they are, and no event disappears.
TrailGrows ==
    /\ trail' \in Seq(TrailRow)
    /\ \A i \in DOMAIN trail :
          /\ i \in DOMAIN trail' /\ trail'[i].group = trail[i].group
          /\ trail[i].outcome # "PENDING" => trail'[i] = trail[i]

LEMMA EarnedStays ==
    ASSUME TrailGrows, NEW g, NEW n, Earned(trail, g, n)
    PROVE  Earned(trail', g, n)
<1> SUFFICES ASSUME n > 1
             PROVE  \E i \in DOMAIN trail' :
                       /\ trail'[i].group = g /\ trail'[i].outcome = "APPROVED"
                       /\ trail'[i].to = n /\ trail'[i].decider # trail'[i].by
  BY DEF Earned
<1>1. PICK i \in DOMAIN trail :
         /\ trail[i].group = g /\ trail[i].outcome = "APPROVED" /\ trail[i].to = n
         /\ trail[i].decider # trail[i].by
  BY DEF Earned
<1>2. i \in DOMAIN trail' /\ trail'[i] = trail[i]
  BY <1>1 DEF TrailGrows
<1> QED
  BY <1>1, <1>2

LEMMA TaskStays ==
    ASSUME TrailGrows, NEW t, TaskFits(t)
    PROVE  TaskFits(t)'
<1>1. Earned(trail', t.group, t.copy.phase)
  BY EarnedStays DEF TaskFits
<1>2. t.op \in {"approve", "reject"} =>
         t.event \in DOMAIN trail' /\ trail'[t.event].group = t.group /\ t.group \in Shg
  BY DEF TaskFits, TrailGrows
<1> QED
  BY <1>1, <1>2 DEF TaskFits

LEMMA NoTaskFits ==
    NoTask \in LifeTask /\ TaskFits(NoTask)
<1>1. NoTask \in LifeTask
  BY DEF NoTask, LifeTask, NoGroup, GroupRow, GroupStatus, Phase
<1>2. TaskFits(NoTask)
  BY DEF NoTask, TaskFits, Earned, NoGroup
<1> QED
  BY <1>1, <1>2

\* What a step must show.
LEMMA LifeKept ==
    ASSUME LifeSound, season' = season, TrailGrows, shg' \in [Shg -> GroupRow],
           \A g \in Shg : \/ shg'[g] = shg[g]
                          \/ Bearing(shg'[g]) /\ Earned(trail', g, shg'[g].phase),
           \/ task' = task
           \/ \E o \in Officer, t \in LifeTask : TaskFits(t) /\ task' = [task EXCEPT ![o] = t]
    PROVE  LifeSound'
<1>1. \A g \in Shg : Bearing(shg'[g]) /\ Earned(trail', g, shg'[g].phase)
  <2> TAKE g \in Shg
  <2>1. CASE shg'[g] = shg[g]
    <3>1. Bearing(shg[g]) /\ Earned(trail, g, shg[g].phase)
      BY DEF LifeSound
    <3>2. Earned(trail', g, shg[g].phase)
      BY <3>1, EarnedStays
    <3> QED
      BY <2>1, <3>1, <3>2
  <2>2. CASE Bearing(shg'[g]) /\ Earned(trail', g, shg'[g].phase)
    BY <2>2
  <2> QED
    BY <2>1, <2>2
<1>2. task' \in [Officer -> LifeTask] /\ \A o \in Officer : TaskFits(task[o])'
  <2>1. CASE task' = task
    <3>1. ASSUME NEW o \in Officer PROVE TaskFits(task[o])'
      <4>1. PICK t : t = task[o]
        OBVIOUS
      <4>2. TaskFits(t)'
        BY <4>1, TaskStays DEF LifeSound
      <4> QED
        BY <2>1, <4>1, <4>2
    <3> QED
      BY <2>1, <3>1 DEF LifeSound
  <2>2. ASSUME NEW o \in Officer, NEW t \in LifeTask, TaskFits(t), task' = [task EXCEPT ![o] = t]
        PROVE  task' \in [Officer -> LifeTask] /\ \A p \in Officer : TaskFits(task[p])'
    <3>1. task \in [Officer -> LifeTask]
      BY DEF LifeSound
    <3>2. ASSUME NEW p \in Officer PROVE TaskFits(task[p])'
      <4>1. PICK x : x = task'[p]
        OBVIOUS
      <4>2. x = t \/ x = task[p]
        BY <2>2, <3>1, <4>1
      <4>3. TaskFits(x)
        BY <2>2, <4>2 DEF LifeSound
      <4>4. TaskFits(x)'
        BY <4>3, TaskStays
      <4> QED
        BY <4>1, <4>4
    <3> QED
      BY <2>2, <3>1, <3>2
  <2> QED
    BY <2>1, <2>2
<1> QED
  BY <1>1, <1>2 DEF LifeSound, TrailGrows

LEMMA TrailUnchanged ==
    ASSUME LifeSound, trail' = trail
    PROVE  TrailGrows
  BY DEF TrailGrows, LifeSound

LEMMA LifeConstants ==
    /\ IsFiniteSet(Officer) /\ IsFiniteSet(Shg) /\ IsFiniteSet(Woman)
    /\ Approver \subseteq Officer /\ Founder \in [Shg -> Woman]
    /\ Nobody \notin Shg /\ Nobody \notin Woman /\ Nobody \notin Officer
    /\ TrailCap \in Nat
  BY GroupLifeAssumption

LEMMA DecidedIsNat ==
    ASSUME LifeSound
    PROVE  DecidedCount \in Nat
<1> DEFINE D == {i \in TrailIndex : trail[i].outcome # "PENDING"}
<1>1. Len(trail) \in Nat
  BY DEF LifeSound
<1>2. IsFiniteSet(1 .. Len(trail))
  BY <1>1, FS_Interval
<1>3. IsFiniteSet(D)
  BY <1>2, FS_Subset DEF TrailIndex
<1> QED
  BY <1>3, FS_CardinalityType DEF DecidedCount

\* A decision keeps the record.
LEMMA DecisionKeeps ==
    ASSUME LifeSound, NEW o \in Officer, NEW outcome \in {"APPROVED", "REJECTED"},
           Decides(o, outcome), task[o].event \in DOMAIN trail
    PROVE  /\ TrailGrows
           /\ \E e \in TrailRow :
                 /\ trail' = [trail EXCEPT ![task[o].event] = e]
                 /\ trail[task[o].event].outcome = "PENDING"
                 /\ e.group = trail[task[o].event].group /\ e.to = trail[task[o].event].to
                 /\ e.by = trail[task[o].event].by /\ e.by # o
                 /\ e.outcome = outcome /\ e.decider = o /\ e.at = DecidedCount + 1
<1>1. PICK i, at, old : i = task[o].event /\ at = DecidedCount + 1 /\ old = trail[i]
  OBVIOUS
<1>2. trail \in Seq(TrailRow) /\ i \in DOMAIN trail /\ at \in Nat
  BY <1>1, DecidedIsNat DEF LifeSound
<1>3. old \in TrailRow
  BY <1>1, <1>2
<1>4. PICK e : e = [old EXCEPT !.outcome = outcome, !.decider = o, !.at = at]
  OBVIOUS
<1>5. /\ e \in TrailRow /\ e.group = old.group /\ e.to = old.to /\ e.by = old.by
      /\ e.outcome = outcome /\ e.decider = o /\ e.at = at
  BY <1>2, <1>3, <1>4 DEF TrailRow
<1>6. /\ trail' = [trail EXCEPT ![i].outcome = outcome, ![i].decider = o, ![i].at = at]
      /\ old.outcome = "PENDING" /\ old.by # o
  BY <1>1 DEF Decides
<1>7. trail' = [trail EXCEPT ![i] = e]
  BY <1>1, <1>2, <1>4, <1>6
<1>8. trail' \in Seq(TrailRow) /\ DOMAIN trail' = DOMAIN trail
  BY <1>2, <1>5, <1>7
<1>9. \A j \in DOMAIN trail : trail'[j] = IF j = i THEN e ELSE trail[j]
  BY <1>2, <1>7
<1>10. TrailGrows
  BY <1>1, <1>5, <1>6, <1>8, <1>9 DEF TrailGrows
<1>11. /\ trail' = [trail EXCEPT ![task[o].event] = e]
       /\ trail[task[o].event].outcome = "PENDING"
       /\ e.group = trail[task[o].event].group /\ e.to = trail[task[o].event].to
       /\ e.by = trail[task[o].event].by /\ e.by # o
       /\ e.outcome = outcome /\ e.decider = o /\ e.at = DecidedCount + 1
  BY <1>1, <1>5, <1>6, <1>7
<1> QED
  BY <1>5, <1>10, <1>11

\* A request that begins.
LEMMA TaskBegins ==
    ASSUME LifeSound, NEW op \in LifeOps, NEW g \in Shg, NEW t,
           t = [NoTask EXCEPT !.op = op, !.group = g, !.copy = shg[g]],
           op \notin {"approve", "reject", "expire"},
           op = "submit" => shg[g].phase < 4
    PROVE  t \in LifeTask /\ TaskFits(t)
<1>1. shg[g] \in GroupRow /\ Earned(trail, g, shg[g].phase)
  BY DEF LifeSound
<1>2. /\ t \in LifeTask /\ t.op = op /\ t.group = g /\ t.copy = shg[g]
  BY <1>1, NoTaskFits DEF NoTask, LifeTask
<1> QED
  BY <1>1, <1>2 DEF TaskFits

LEMMA FormationKeeps ==
    ASSUME LifeSound, NEW o \in Officer, FormationStep(o)
    PROVE  LifeSound'
<1>1. /\ shg \in [Shg -> GroupRow] /\ trail \in Seq(TrailRow) /\ task \in [Officer -> LifeTask]
      /\ task[o] \in LifeTask /\ TaskFits(task[o])
  BY DEF LifeSound
<1>2. ASSUME UNCHANGED <<shg, trail, season>>,
             \E t \in LifeTask : TaskFits(t) /\ task' = [task EXCEPT ![o] = t]
      PROVE  LifeSound'
  BY <1>1, <1>2, TrailUnchanged, LifeKept
<1>3. CASE Refuse(o) \/ AddMember(o)
  BY <1>2, <1>3, NoTaskFits DEF Refuse, AddMember, Leaves
<1>4. ASSUME NEW g \in Shg, NEW p \in Woman, BeginAdd(o, g, p) PROVE LifeSound'
  <2>1. PICK t : t = [NoTask EXCEPT !.op = "add", !.group = g, !.woman = p]
    OBVIOUS
  <2>2. "add" \in LifeOps
    BY DEF LifeOps
  <2>3. t \in LifeTask /\ t.op = "add" /\ t.copy.phase = 0
    BY <2>1, <2>2, NoTaskFits DEF NoTask, LifeTask, NoGroup
  <2>4. TaskFits(t)
    BY <2>3 DEF TaskFits, Earned
  <2> QED
    BY <1>2, <1>4, <2>1, <2>3, <2>4 DEF BeginAdd
<1>5. ASSUME NEW g \in Shg, NEW op \in LifeOps, LoadGroup(o, op, g) PROVE LifeSound'
  <2>1. PICK t : t = [NoTask EXCEPT !.op = op, !.group = g, !.copy = shg[g]]
    OBVIOUS
  <2>2. t \in LifeTask /\ TaskFits(t)
    BY <1>5, <2>1, TaskBegins DEF LoadGroup
  <2> QED
    BY <1>2, <1>5, <2>1, <2>2 DEF LoadGroup, Takes
<1>6. ASSUME NEW g \in Shg \cup {Nobody}, NEW row, shg' = [shg EXCEPT ![g] = row], Bearing(row),
             g \in Shg => row \in GroupRow /\ Earned(trail, g, row.phase),
             UNCHANGED <<trail, season>>,
             \E t \in LifeTask : TaskFits(t) /\ task' = [task EXCEPT ![o] = t]
      PROVE  LifeSound'
  <2>1. shg' \in [Shg -> GroupRow]
    BY <1>1, <1>6
  <2>2. \A x \in Shg : shg'[x] = shg[x] \/ (x = g /\ shg'[x] = row)
    BY <1>1, <1>6
  <2>3. \A x \in Shg : shg'[x] = shg[x] \/ (Bearing(shg'[x]) /\ Earned(trail', x, shg'[x].phase))
    BY <1>6, <2>2
  <2> QED
    BY <1>6, <2>1, <2>3, TrailUnchanged, LifeKept
<1>7. CASE Constitute(o)
  <2>1. PICK g, row : g = task[o].group /\ row = [shg[g] EXCEPT !.status = "CONSTITUTED"]
    OBVIOUS
  <2>2. g \in Shg \cup {Nobody}
    BY <1>1, <2>1 DEF LifeTask
  <2>3. g \in Shg => row \in GroupRow /\ row.phase = shg[g].phase
    BY <1>1, <2>1 DEF GroupRow, GroupStatus
  <2>4. g \in Shg => Earned(trail, g, row.phase)
    BY <2>3 DEF LifeSound
  <2>5. shg' = [shg EXCEPT ![g] = row] /\ Bearing(row) /\ UNCHANGED <<trail, season>> /\ Leaves(o)
    BY <1>7, <2>1 DEF Constitute, Saves
  <2> QED
    BY <1>6, <2>2, <2>3, <2>4, <2>5, NoTaskFits DEF Leaves
<1>8. CASE ActivateGroup(o)
  <2>1. PICK g, row : g = task[o].group /\ row = [status |-> "ACTIVE", phase |-> 1]
    OBVIOUS
  <2>2. g \in Shg \cup {Nobody}
    BY <1>1, <2>1 DEF LifeTask
  <2>3. row \in GroupRow /\ Earned(trail, g, row.phase)
    BY <2>1 DEF GroupRow, GroupStatus, Phase, Earned
  <2>4. shg' = [shg EXCEPT ![g] = row] /\ Bearing(row) /\ UNCHANGED <<trail, season>> /\ Leaves(o)
    BY <1>8, <2>1 DEF ActivateGroup, Saves
  <2> QED
    BY <1>6, <2>2, <2>3, <2>4, NoTaskFits DEF Leaves
<1>9. CASE EditGroup(o)
  <2>1. PICK g, row : g = task[o].group /\ row = task[o].copy
    OBVIOUS
  <2>2. g \in Shg \cup {Nobody} /\ row \in GroupRow
    BY <1>1, <2>1 DEF LifeTask
  <2>3. Earned(trail, g, row.phase)
    BY <1>1, <2>1 DEF TaskFits
  <2>4. shg' = [shg EXCEPT ![g] = row] /\ Bearing(row) /\ UNCHANGED <<trail, season>> /\ Leaves(o)
    BY <1>9, <2>1 DEF EditGroup, Saves
  <2> QED
    BY <1>6, <2>2, <2>3, <2>4, NoTaskFits DEF Leaves
<1>10. ASSUME NEW due \in SUBSET Shg, BeginExpiry(o, due) PROVE LifeSound'
  <2>1. PICK status \in {"DRAFT", "CONSTITUTED"} :
           task' = [task EXCEPT ![o] = [NoTask EXCEPT !.op = "expire", !.todo = due,
                                           !.copy = [NoGroup EXCEPT !.status = status]]]
    BY <1>10 DEF BeginExpiry
  <2>2. PICK copy, t : /\ copy = [NoGroup EXCEPT !.status = status]
                       /\ t = [NoTask EXCEPT !.op = "expire", !.todo = due, !.copy = copy]
    OBVIOUS
  <2>3. copy \in GroupRow /\ copy.phase = 0
    BY <2>2 DEF NoGroup, GroupRow, GroupStatus, Phase
  <2>4. "expire" \in LifeOps
    BY DEF LifeOps
  <2>5. t \in LifeTask /\ t.op = "expire" /\ t.copy = copy
    BY <2>2, <2>3, <2>4, NoTaskFits DEF NoTask, LifeTask
  <2>6. TaskFits(t)
    BY <2>3, <2>5 DEF TaskFits, Earned
  <2>7. UNCHANGED <<shg, trail, season>>
    BY <1>10 DEF BeginExpiry
  <2> QED
    BY <1>2, <2>1, <2>2, <2>5, <2>6, <2>7
<1>11. ASSUME NEW g \in Shg, CloseRoster(o, g) PROVE LifeSound'
  <2>1. PICK old, left : old = task[o] /\ left = old.todo \ {g}
    OBVIOUS
  <2>2. PICK t : t = [old EXCEPT !.group = g, !.todo = left]
    OBVIOUS
  <2>3. old.op = "expire" /\ old.copy.phase = 0 /\ old \in LifeTask
    BY <1>1, <1>11, <2>1 DEF CloseRoster, TaskFits
  <2>4. t \in LifeTask /\ t.op = "expire" /\ t.copy = old.copy
    BY <2>1, <2>2, <2>3 DEF LifeTask
  <2>5. TaskFits(t)
    BY <2>3, <2>4 DEF TaskFits, Earned
  <2>6. task' = [task EXCEPT ![o] = t]
    BY <1>1, <1>11, <2>1, <2>2 DEF CloseRoster
  <2>7. UNCHANGED <<shg, trail, season>>
    BY <1>11 DEF CloseRoster
  <2> QED
    BY <1>2, <2>4, <2>5, <2>6, <2>7
<1>12. CASE Abandon(o)
  <2>1. PICK g, row : g = task[o].group /\ row = [shg[g] EXCEPT !.status = "ABANDONED"]
    OBVIOUS
  <2>2. g \in Shg \cup {Nobody}
    BY <1>1, <2>1 DEF LifeTask
  <2>3. g \in Shg => row \in GroupRow /\ row.phase = shg[g].phase
    BY <1>1, <2>1 DEF GroupRow, GroupStatus
  <2>4. g \in Shg => Earned(trail, g, row.phase)
    BY <2>3 DEF LifeSound
  <2>5. shg' = [shg EXCEPT ![g] = row] /\ Bearing(row) /\ UNCHANGED <<trail, season>>
    BY <1>12, <2>1 DEF Abandon, Saves
  <2>6. \E t \in LifeTask : TaskFits(t) /\ task' = [task EXCEPT ![o] = t]
    <3>1. CASE Leaves(o)
      BY <3>1, NoTaskFits DEF Leaves
    <3>2. CASE task' = [task EXCEPT ![o].group = Nobody]
      <4>1. PICK old, t : old = task[o] /\ t = [old EXCEPT !.group = Nobody]
        OBVIOUS
      <4>2. old.op = "expire" /\ old.copy.phase = 0 /\ old \in LifeTask
        BY <1>1, <1>12, <4>1 DEF Abandon, TaskFits
      <4>3. t \in LifeTask /\ t.op = "expire" /\ t.copy = old.copy
        BY <4>1, <4>2 DEF LifeTask
      <4>4. TaskFits(t)
        BY <4>2, <4>3 DEF TaskFits, Earned
      <4>5. task' = [task EXCEPT ![o] = t]
        BY <1>1, <3>2, <4>1
      <4> QED
        BY <4>3, <4>4, <4>5
    <3> QED
      BY <1>12, <3>1, <3>2 DEF Abandon
  <2> QED
    BY <1>6, <2>2, <2>3, <2>4, <2>5, <2>6
<1> QED
  BY <1>3, <1>4, <1>5, <1>7, <1>8, <1>9, <1>10, <1>11, <1>12 DEF FormationStep

LEMMA PhaseKeeps ==
    ASSUME LifeSound, NEW o \in Officer, PhaseStep(o)
    PROVE  LifeSound'
<1>1. /\ shg \in [Shg -> GroupRow] /\ trail \in Seq(TrailRow) /\ task \in [Officer -> LifeTask]
      /\ task[o] \in LifeTask /\ TaskFits(task[o])
  BY DEF LifeSound
<1>2. ASSUME UNCHANGED <<shg, trail, season>>,
             \E t \in LifeTask : TaskFits(t) /\ task' = [task EXCEPT ![o] = t]
      PROVE  LifeSound'
  BY <1>1, <1>2, TrailUnchanged, LifeKept
<1>3. ASSUME NEW g \in Shg, BeginSubmit(o, g) PROVE LifeSound'
  <2>1. PICK t : t = [NoTask EXCEPT !.op = "submit", !.group = g, !.copy = shg[g]]
    OBVIOUS
  <2>2. "submit" \in LifeOps
    BY DEF LifeOps
  <2>3. t \in LifeTask /\ TaskFits(t)
    BY <1>3, <2>1, <2>2, TaskBegins DEF BeginSubmit
  <2> QED
    BY <1>2, <1>3, <2>1, <2>3 DEF BeginSubmit
<1>4. CASE SubmitPhase(o)
  <2>1. PICK g, to, e : /\ g = task[o].group /\ to = NEXT_PHASE(task[o].copy.phase)
                        /\ e = [ group |-> g, to |-> to, by |-> o, decider |-> Nobody,
                                 outcome |-> "PENDING", at |-> 0 ]
    OBVIOUS
  <2>2. g \in Shg /\ task[o].copy.phase < 4 /\ task[o].copy.phase \in Phase
    BY <1>1, <1>4, <2>1 DEF SubmitPhase, TaskFits, LifeTask, GroupRow
  <2>3. to \in Phase
    BY <2>1, <2>2 DEF NEXT_PHASE, Phase
  <2>4. e \in TrailRow
    BY <2>1, <2>2, <2>3 DEF TrailRow
  <2>5. trail' = Append(trail, e) /\ UNCHANGED <<shg, season>> /\ Leaves(o)
    BY <1>4, <2>1 DEF SubmitPhase
  <2>6. TrailGrows
    <3>1. /\ trail' \in Seq(TrailRow) /\ DOMAIN trail \subseteq DOMAIN trail'
          /\ \A i \in DOMAIN trail : trail'[i] = trail[i]
      BY <1>1, <2>4, <2>5
    <3> QED
      BY <3>1 DEF TrailGrows
  <2> QED
    BY <1>1, <2>5, <2>6, NoTaskFits, LifeKept DEF Leaves
<1>5. ASSUME NEW i \in TrailIndex, NEW op \in LifeOps, LoadEvent(o, op, i) PROVE LifeSound'
  <2>1. PICK g : g = trail[i].group
    OBVIOUS
  <2>2. i \in DOMAIN trail /\ i \in Nat /\ g \in Shg
    <3>1. i \in 1 .. Len(trail)
      BY DEF TrailIndex
    <3>2. i \in DOMAIN trail /\ i \in Nat /\ trail[i] \in TrailRow
      BY <1>1, <3>1
    <3> QED
      BY <2>1, <3>2 DEF TrailRow
  <2>3. PICK t : t = [NoTask EXCEPT !.op = op, !.event = i, !.group = g, !.copy = shg[g]]
    OBVIOUS
  <2>4. shg[g] \in GroupRow /\ Earned(trail, g, shg[g].phase)
    BY <2>2 DEF LifeSound
  <2>5. t \in LifeTask /\ t.op = op /\ t.event = i /\ t.group = g /\ t.copy = shg[g]
    BY <2>2, <2>3, <2>4, NoTaskFits DEF NoTask, LifeTask
  <2>6. op \in {"approve", "reject"}
    BY <1>5 DEF LoadEvent
  <2>7. TaskFits(t)
    BY <2>1, <2>2, <2>4, <2>5, <2>6 DEF TaskFits
  <2> QED
    BY <1>2, <1>5, <2>1, <2>3, <2>5, <2>7 DEF LoadEvent
<1>6. CASE ApprovePhase(o)
  <2>1. PICK g, i, row : /\ g = task[o].group /\ i = task[o].event
                         /\ row = [shg[g] EXCEPT !.phase = Granted(o)]
    OBVIOUS
  <2>2. /\ i \in DOMAIN trail /\ g \in Shg /\ trail[i].group = g /\ Decides(o, "APPROVED")
        /\ shg' = [shg EXCEPT ![g] = row] /\ Bearing(row) /\ season' = season /\ Leaves(o)
    BY <1>1, <1>6, <2>1 DEF ApprovePhase, TaskFits, Saves
  <2>3. PICK e \in TrailRow :
           /\ trail' = [trail EXCEPT ![i] = e]
           /\ e.group = g /\ e.to = trail[i].to
           /\ e.by # o /\ e.outcome = "APPROVED" /\ e.decider = o
    BY <2>1, <2>2, DecisionKeeps
  <2>4. TrailGrows
    BY <2>1, <2>2, DecisionKeeps
  <2>5. row \in GroupRow /\ row.phase = e.to
    BY <1>1, <2>1, <2>2, <2>3 DEF GroupRow, Granted, TrailRow
  <2>6. Earned(trail', g, row.phase)
    <3>1. i \in DOMAIN trail' /\ trail'[i] = e
      BY <1>1, <2>2, <2>3
    <3> QED
      BY <2>3, <2>5, <3>1 DEF Earned
  <2>7. shg' \in [Shg -> GroupRow] /\ \A x \in Shg : shg'[x] = shg[x] \/ (x = g /\ shg'[x] = row)
    BY <1>1, <2>2, <2>5
  <2>8. \A x \in Shg : shg'[x] = shg[x] \/ (Bearing(shg'[x]) /\ Earned(trail', x, shg'[x].phase))
    BY <2>2, <2>6, <2>7
  <2> QED
    BY <2>2, <2>4, <2>7, <2>8, NoTaskFits, LifeKept DEF Leaves
<1>7. CASE RejectPhase(o)
  <2>1. /\ task[o].event \in DOMAIN trail /\ Decides(o, "REJECTED")
        /\ UNCHANGED <<shg, season>> /\ Leaves(o)
    BY <1>1, <1>7 DEF RejectPhase, TaskFits
  <2>2. TrailGrows
    BY <2>1, DecisionKeeps
  <2> QED
    BY <1>1, <2>1, <2>2, NoTaskFits, LifeKept DEF Leaves
<1> QED
  BY <1>3, <1>4, <1>5, <1>6, <1>7 DEF PhaseStep

LEMMA GroupKeeps ==
    ASSUME LifeSound, NEW g \in Shg, GroupStep(g)
    PROVE  LifeSound'
<1>1. /\ shg \in [Shg -> GroupRow] /\ trail \in Seq(TrailRow) /\ shg[g] \in GroupRow
      /\ Bearing(shg[g]) /\ Earned(trail, g, shg[g].phase)
  BY DEF LifeSound
<1>2. ASSUME UNCHANGED <<shg, trail, task, season>> PROVE LifeSound'
  BY <1>1, <1>2, TrailUnchanged, LifeKept
<1>3. ASSUME NEW status \in {"DRAFT"} \cup operating, shg' = [shg EXCEPT ![g].status = status],
             UNCHANGED <<trail, task, season>>,
             status = "DRAFT" => shg[g].phase = 0
      PROVE  LifeSound'
  <2>1. PICK row : row = [shg[g] EXCEPT !.status = status]
    OBVIOUS
  <2>2. row \in GroupRow /\ row.phase = shg[g].phase /\ row.status = status
    BY <1>1, <2>1 DEF GroupRow, GroupStatus, operating
  <2>3. Bearing(row) /\ Earned(trail', g, row.phase)
    BY <1>1, <1>3, <2>2 DEF Bearing
  <2>4. shg' = [shg EXCEPT ![g] = row]
    BY <1>1, <1>3, <2>1
  <2>5. shg' \in [Shg -> GroupRow] /\ \A x \in Shg : shg'[x] = shg[x] \/ (x = g /\ shg'[x] = row)
    BY <1>1, <2>2, <2>4
  <2>6. \A x \in Shg : shg'[x] = shg[x] \/ (Bearing(shg'[x]) /\ Earned(trail', x, shg'[x].phase))
    BY <2>3, <2>5
  <2> QED
    BY <1>3, <2>5, <2>6, TrailUnchanged, LifeKept
<1>4. CASE OpenDraft(g)
  <2>1. shg[g].phase = 0
    BY <1>1, <1>4 DEF OpenDraft, Bearing, operating
  <2> QED
    BY <1>3, <1>4, <2>1 DEF OpenDraft
<1>5. CASE \/ \E what \in {"bylaws", "meeting"} : KeepBooks(g, what)
           \/ \E p \in Woman : ExitMember(g, p)
           \/ \E r \in Office, p \in Woman : ElectOfficer(g, r, p)
  BY <1>2, <1>5 DEF KeepBooks, ExitMember, ElectOfficer
<1>6. ASSUME NEW status \in operating, Reassess(g, status) PROVE LifeSound'
  <2>1. status # "DRAFT"
    BY DEF operating
  <2> QED
    BY <1>3, <1>6, <2>1 DEF Reassess
<1> QED
  BY <1>4, <1>5, <1>6 DEF GroupStep

-----------------------------------------------------------------------------
(* Associations.                                                           *)

\* Every group of a finite set has a place in its sequence.
LEMMA OrderedIs ==
    ASSUME NEW groups, IsFiniteSet(groups)
    PROVE  /\ Cardinality(groups) \in Nat
           /\ Ordered(groups) \in [1 .. Cardinality(groups) -> groups]
           /\ \A g \in groups : \E n \in 1 .. Cardinality(groups) : Ordered(groups)[n] = g
<1>1. Cardinality(groups) \in Nat
  BY FS_CardinalityType
<1>2. PICK n \in Nat : ExistsBijection(1 .. n, groups)
  BY FS_NatBijection
<1>3. Cardinality(groups) = n
  BY <1>2, FS_CountingElements
<1>4. PICK f \in Bijection(1 .. n, groups) : TRUE
  BY <1>2 DEF ExistsBijection
<1>5. f \in [1 .. n -> groups] /\ \A g \in groups : \E k \in 1 .. n : f[k] = g
  BY <1>4 DEF Bijection, Injection, Surjection
<1>6. \E s \in [1 .. Cardinality(groups) -> groups] :
         \A g \in groups : \E k \in DOMAIN s : s[k] = g
  BY <1>3, <1>5
<1>7. /\ Ordered(groups) \in [1 .. Cardinality(groups) -> groups]
      /\ \A g \in groups : \E k \in DOMAIN Ordered(groups) : Ordered(groups)[k] = g
  BY <1>6 DEF Ordered
<1> QED
  BY <1>1, <1>7

\* One sequence after another.
LEMMA JoinedIs ==
    ASSUME NEW S, NEW a \in Seq(S), NEW b \in Seq(S), NEW c, c = a \o b
    PROVE  /\ c \in Seq(S) /\ Len(c) = Len(a) + Len(b) /\ Len(a) \in Nat
           /\ \A i \in DOMAIN a : i \in DOMAIN c /\ c[i] = a[i]
           /\ \A n \in 1 .. Len(b) : Len(a) + n \in DOMAIN c /\ c[Len(a) + n] = b[n]
<1>1. /\ c \in Seq(S) /\ Len(c) = Len(a) + Len(b) /\ Len(a) \in Nat /\ Len(b) \in Nat
      /\ DOMAIN a = 1 .. Len(a) /\ DOMAIN b = 1 .. Len(b) /\ DOMAIN c = 1 .. Len(c)
  OBVIOUS
<1>2. \A i \in 1 .. Len(a) : c[i] = a[i]
  OBVIOUS
<1>3. ASSUME NEW n \in 1 .. Len(b)
      PROVE  Len(a) + n \in DOMAIN c /\ c[Len(a) + n] = b[n]
  <2>1. Len(a) + n \in 1 .. Len(c)
    BY <1>1
  <2>2. c[Len(a) + n] = b[n]
    BY <1>1, <2>1
  <2> QED
    BY <1>1, <2>1, <2>2
<1>4. \A i \in DOMAIN a : i \in DOMAIN c
  BY <1>1
<1> QED
  BY <1>1, <1>2, <1>3, <1>4

\* Decisions signed at once for every group of a set are added to the record.
LEMMA DecisionsKeep ==
    ASSUME LifeSound, NEW groups \in SUBSET Shg, NEW to \in Phase, NEW by \in Officer \cup {Nobody},
           NEW o \in Officer, by # o, NEW order, order = Ordered(groups),
           trail' = trail \o [n \in 1 .. Len(order) |-> Decision(order[n], to, by, o, n)]
    PROVE  TrailGrows /\ \A g \in groups : Earned(trail', g, to)
<1>1. trail \in Seq(TrailRow) /\ Len(trail) \in Nat /\ DecidedCount \in Nat
  BY DecidedIsNat DEF LifeSound
<1>2. PICK count : count = Cardinality(groups)
  OBVIOUS
<1>3. /\ count \in Nat /\ order \in [1 .. count -> groups]
      /\ \A g \in groups : \E n \in 1 .. count : order[n] = g
  BY <1>2, LifeConstants, FS_Subset, OrderedIs
<1>4. order \in Seq(groups) /\ Len(order) = count
  BY <1>3
<1>5. PICK added : added = [n \in 1 .. count |-> Decision(order[n], to, by, o, n)]
  OBVIOUS
<1>6. \A n \in 1 .. count :
         /\ added[n] \in TrailRow /\ added[n].group = order[n] /\ added[n].outcome = "APPROVED"
         /\ added[n].to = to /\ added[n].by = by /\ added[n].decider = o
  <2> TAKE n \in 1 .. count
  <2>1. added[n] = Decision(order[n], to, by, o, n)
    BY <1>5
  <2>2. order[n] \in Shg /\ DecidedCount + n \in Nat
    BY <1>1, <1>3
  <2> QED
    BY <2>1, <2>2 DEF Decision, TrailRow
<1>7. added \in Seq(TrailRow) /\ Len(added) = count
  BY <1>3, <1>5, <1>6
<1>8. trail' = trail \o added
  BY <1>4, <1>5
<1>9. /\ trail' \in Seq(TrailRow) /\ DOMAIN trail \subseteq DOMAIN trail'
      /\ \A i \in DOMAIN trail : trail'[i] = trail[i]
      /\ \A n \in 1 .. count : Len(trail) + n \in DOMAIN trail' /\ trail'[Len(trail) + n] = added[n]
  <2>1. PICK old, new : old = trail /\ new = trail'
    OBVIOUS
  <2>2. old \in Seq(TrailRow) /\ new = old \o added
    BY <1>1, <1>8, <2>1
  <2>3. /\ new \in Seq(TrailRow)
        /\ \A i \in DOMAIN old : i \in DOMAIN new /\ new[i] = old[i]
        /\ \A n \in 1 .. Len(added) : Len(old) + n \in DOMAIN new /\ new[Len(old) + n] = added[n]
    BY <1>7, <2>2, JoinedIs
  <2>4. DOMAIN old \subseteq DOMAIN new
    BY <2>3
  <2> QED
    BY <1>7, <2>1, <2>3, <2>4
<1>10. TrailGrows
  BY <1>9 DEF TrailGrows
<1>11. ASSUME NEW g \in groups PROVE Earned(trail', g, to)
  <2>1. PICK n \in 1 .. count : order[n] = g
    BY <1>3
  <2>2. PICK i : i = Len(trail) + n
    OBVIOUS
  <2>3. i \in DOMAIN trail' /\ trail'[i] = added[n]
    BY <1>9, <2>2
  <2>4. /\ trail'[i].group = g /\ trail'[i].outcome = "APPROVED" /\ trail'[i].to = to
        /\ trail'[i].decider # trail'[i].by
    BY <1>6, <2>1, <2>3
  <2> QED
    BY <2>3, <2>4 DEF Earned
<1> QED
  BY <1>10, <1>11

\* The rows of formations, associations and seats.
AssemblyTypes ==
    /\ formation \in FormationRow
    /\ cla \in [ClaId -> {"ABSENT", "ACTIVE", "DISSOLVED"}]
    /\ parent \in [Shg -> SUBSET ClaId]
    /\ seat \in SUBSET Seat /\ vacated \in SUBSET Seat

\* A demotion keeps the record, and what it gives was earned by it.
LEMMA DemotionKeeps ==
    ASSUME LifeSound, NEW groups \in SUBSET Shg, NEW o \in Officer, Demoted(groups, o),
           season' = season, task' = task
    PROVE  LifeSound'
<1>1. PICK falling : falling = {g \in groups : shg[g].phase = 3}
  OBVIOUS
<1>2. falling \in SUBSET Shg /\ 2 \in Phase /\ Nobody # o
  BY <1>1, LifeConstants DEF Phase
<1>3. trail' = trail \o [n \in 1 .. Len(Ordered(falling)) |->
                             Decision(Ordered(falling)[n], 2, Nobody, o, n)]
  BY <1>1 DEF Demoted
<1>4. TrailGrows /\ \A g \in falling : Earned(trail', g, 2)
  BY <1>2, <1>3, DecisionsKeep
<1>5. shg' = [g \in Shg |-> IF g \in falling THEN [shg[g] EXCEPT !.phase = 2] ELSE shg[g]]
  BY <1>1 DEF Demoted
<1>6. \A g \in Shg : shg[g] \in GroupRow /\ Bearing(shg[g])
  BY DEF LifeSound
<1>7. ASSUME NEW g \in falling
      PROVE  shg'[g] \in GroupRow /\ shg'[g].phase = 2 /\ Bearing(shg'[g])
  <2>1. shg[g] \in GroupRow /\ shg[g].phase = 3 /\ shg[g].status \in operating
    BY <1>1, <1>2, <1>6 DEF Bearing
  <2>2. shg'[g] = [shg[g] EXCEPT !.phase = 2]
    BY <1>2, <1>5
  <2> QED
    BY <2>1, <2>2 DEF GroupRow, Bearing, Phase
<1>8. \A g \in Shg : g \notin falling => shg'[g] = shg[g]
  BY <1>5
<1>9. shg' \in [Shg -> GroupRow]
  BY <1>5, <1>6, <1>7, <1>8
<1>10. \A g \in Shg : shg'[g] = shg[g] \/ (Bearing(shg'[g]) /\ Earned(trail', g, shg'[g].phase))
  BY <1>4, <1>7, <1>8
<1> QED
  BY <1>4, <1>9, <1>10, LifeKept


LEMMA LifeSame ==
    ASSUME LifeSound, UNCHANGED lifeVars
    PROVE  LifeSound'
<1>1. UNCHANGED <<shg, trail, task, season>>
  BY DEF lifeVars
<1>2. shg \in [Shg -> GroupRow]
  BY DEF LifeSound
<1> QED
  BY <1>1, <1>2, TrailUnchanged, LifeKept

LEMMA ApprovalKeeps ==
    ASSUME LifeSound, AssemblyTypes, NEW o \in Officer, NEW c \in ClaId, ApproveFormation(o, c)
    PROVE  LifeSound'
<1>1. PICK groups, by : groups = formation.included /\ by = formation.by
  OBVIOUS
<1>2. groups \in SUBSET Shg /\ by \in Officer \cup {Nobody} /\ by # o /\ 3 \in Phase
  BY <1>1 DEF AssemblyTypes, FormationRow, ApproveFormation, Phase
<1>3. trail' = trail \o [n \in 1 .. Len(Ordered(groups)) |-> Decision(Ordered(groups)[n], 3, by, o, n)]
  BY <1>1 DEF ApproveFormation
<1>4. TrailGrows /\ \A g \in groups : Earned(trail', g, 3)
  BY <1>2, <1>3, DecisionsKeep
<1>5. /\ shg' = [g \in Shg |-> IF g \in groups THEN [shg[g] EXCEPT !.phase = 3] ELSE shg[g]]
      /\ UNCHANGED <<task, season>> /\ \A g \in groups : shg[g].status \in operating
  BY <1>1 DEF ApproveFormation
<1>6. ASSUME NEW g \in groups
      PROVE  shg'[g] \in GroupRow /\ shg'[g].phase = 3 /\ Bearing(shg'[g])
  <2>1. shg[g] \in GroupRow /\ shg[g].status \in operating
    BY <1>2, <1>5 DEF LifeSound
  <2>2. shg'[g] = [shg[g] EXCEPT !.phase = 3]
    BY <1>2, <1>5
  <2> QED
    BY <2>1, <2>2 DEF GroupRow, Bearing, Phase
<1>7. \A g \in Shg : g \notin groups => shg'[g] = shg[g]
  BY <1>5
<1>8. shg' \in [Shg -> GroupRow]
  BY <1>5, <1>6, <1>7 DEF LifeSound
<1>9. \A g \in Shg : shg'[g] = shg[g] \/ (Bearing(shg'[g]) /\ Earned(trail', g, shg'[g].phase))
  BY <1>4, <1>6, <1>7
<1> QED
  BY <1>4, <1>5, <1>8, <1>9, LifeKept

\* A formation event is worked on.
FormationMoves ==
    \/ \E groups \in SUBSET season.groups \ {{}} : OpenFormation(groups)
    \/ \E g \in Shg : ExcludeCandidate(g)
    \/ \E g \in Shg, women \in SUBSET Woman : RecordDelegates(g, women)
    \/ \E o \in Officer : SubmitFormation(o) \/ ReturnFormation(o)
    \/ ExpireFormation

LEMMA AssemblyKeepsLife ==
    ASSUME LifeSound, AssemblyTypes, AssemblyStep
    PROVE  LifeSound'
<1>1. CASE FormationMoves
  BY <1>1, LifeSame
  DEF FormationMoves, OpenFormation, ExcludeCandidate, RecordDelegates, SubmitFormation,
      ReturnFormation, ExpireFormation
<1>2. ASSUME NEW o \in Officer, NEW c \in ClaId, ApproveFormation(o, c) PROVE LifeSound'
  BY <1>2, ApprovalKeeps
<1>3. ASSUME NEW o \in Officer, NEW c \in ClaId, DissolveCla(o, c) PROVE LifeSound'
  <2>1. PICK groups : groups = {g \in Shg : c \in parent[g]}
    OBVIOUS
  <2>2. Demoted(groups, o) /\ season' = season /\ task' = task
    BY <1>3, <2>1 DEF DissolveCla
  <2> QED
    BY <2>1, <2>2, DemotionKeeps
<1>4. ASSUME NEW o \in Officer, NEW g \in Shg, WithdrawGroup(o, g) PROVE LifeSound'
  <2>1. PICK groups : groups = {g}
    OBVIOUS
  <2>2. Demoted(groups, o) /\ season' = season /\ task' = task
    BY <1>4, <2>1 DEF WithdrawGroup
  <2> QED
    BY <2>1, <2>2, DemotionKeeps
<1>5. ASSUME NEW s \in Seat, NEW p \in Woman, RotateDelegate(s, p) PROVE LifeSound'
  BY <1>5, LifeSame DEF RotateDelegate
<1> QED
  BY <1>1, <1>2, <1>3, <1>4, <1>5 DEF AssemblyStep, FormationMoves

LEMMA AssemblyTypesKept ==
    ASSUME LifeSound, AssemblyTypes, AssemblyStep
    PROVE  AssemblyTypes'
<1>1. /\ formation \in FormationRow /\ cla \in [ClaId -> {"ABSENT", "ACTIVE", "DISSOLVED"}]
      /\ parent \in [Shg -> SUBSET ClaId] /\ seat \in SUBSET Seat /\ vacated \in SUBSET Seat
      /\ season.groups \in SUBSET Shg
  BY GroupLifeAssumption DEF AssemblyTypes, LifeSound, Season
<1>2. CASE FormationMoves
  <2>1. formation' \in FormationRow
    <3>1. ASSUME NEW g \in Shg, NEW women \in SUBSET Woman, RecordDelegates(g, women)
          PROVE  formation' \in FormationRow
      <4>1. PICK old : old = formation.elected
        OBVIOUS
      <4>2. old \in [Shg -> SUBSET Woman]
        BY <1>1, <4>1 DEF FormationRow
      <4>3. PICK new : new = [old EXCEPT ![g] = women]
        OBVIOUS
      <4>4. new \in [Shg -> SUBSET Woman]
        BY <4>2, <4>3
      <4>5. formation' = [formation EXCEPT !.elected = new]
        BY <1>1, <3>1, <4>1, <4>3 DEF RecordDelegates, FormationRow
      <4> QED
        BY <1>1, <4>4, <4>5 DEF FormationRow
    <3>2. ASSUME NEW groups \in SUBSET season.groups, OpenFormation(groups)
          PROVE  formation' \in FormationRow
      BY <1>1, <3>2 DEF OpenFormation, FormationRow
    <3>3. ASSUME NEW g \in Shg, ExcludeCandidate(g) PROVE formation' \in FormationRow
      <4>1. PICK left : left = formation.included \ {g}
        OBVIOUS
      <4>2. left \in SUBSET Shg
        BY <1>1, <4>1 DEF FormationRow
      <4>3. formation' = [formation EXCEPT !.included = left]
        BY <1>1, <3>3, <4>1 DEF ExcludeCandidate, FormationRow
      <4> QED
        BY <1>1, <4>2, <4>3 DEF FormationRow
    <3>4. ASSUME NEW o \in Officer, SubmitFormation(o) \/ ReturnFormation(o)
          PROVE  formation' \in FormationRow
      BY <1>1, <3>4 DEF SubmitFormation, ReturnFormation, FormationRow
    <3>5. CASE ExpireFormation
      BY <1>1, <3>5 DEF ExpireFormation, FormationRow
    <3> QED
      BY <1>2, <3>1, <3>2, <3>3, <3>4, <3>5 DEF FormationMoves
  <2>2. UNCHANGED <<cla, parent, seat, vacated>>
    BY <1>2
    DEF FormationMoves, OpenFormation, ExcludeCandidate, RecordDelegates, SubmitFormation,
        ReturnFormation, ExpireFormation
  <2> QED
    BY <1>1, <2>1, <2>2 DEF AssemblyTypes
<1>3. ASSUME NEW o \in Officer, NEW c \in ClaId, ApproveFormation(o, c) PROVE AssemblyTypes'
  <2>1. formation' \in FormationRow
    BY <1>1, <1>3 DEF ApproveFormation, FormationRow
  <2>2. cla' \in [ClaId -> {"ABSENT", "ACTIVE", "DISSOLVED"}] /\ parent' \in [Shg -> SUBSET ClaId]
    BY <1>1, <1>3 DEF ApproveFormation
  <2>3. seat' \in SUBSET Seat /\ vacated' \in SUBSET Seat
    BY <1>1, <1>3 DEF ApproveFormation
  <2> QED
    BY <2>1, <2>2, <2>3 DEF AssemblyTypes
<1>4. ASSUME NEW o \in Officer, NEW c \in ClaId, DissolveCla(o, c) PROVE AssemblyTypes'
  <2>1. formation' \in FormationRow /\ cla' \in [ClaId -> {"ABSENT", "ACTIVE", "DISSOLVED"}]
    BY <1>1, <1>4 DEF DissolveCla
  <2>2. parent' \in [Shg -> SUBSET ClaId]
    BY <1>1, <1>4 DEF DissolveCla
  <2>3. seat' \in SUBSET Seat /\ vacated' \in SUBSET Seat
    BY <1>1, <1>4 DEF DissolveCla, Vacates
  <2> QED
    BY <2>1, <2>2, <2>3 DEF AssemblyTypes
<1>5. ASSUME NEW o \in Officer, NEW g \in Shg, WithdrawGroup(o, g) PROVE AssemblyTypes'
  <2>1. seat' \in SUBSET Seat /\ vacated' \in SUBSET Seat
    BY <1>1, <1>5 DEF WithdrawGroup, Vacates, LostSeats, SeatsOf
  <2> QED
    BY <1>1, <1>5, <2>1 DEF WithdrawGroup, AssemblyTypes
<1>6. ASSUME NEW s \in Seat, NEW p \in Woman, RotateDelegate(s, p) PROVE AssemblyTypes'
  <2>1. PICK next : next = [s EXCEPT !.woman = p]
    OBVIOUS
  <2>2. next \in Seat
    BY <2>1 DEF Seat
  <2> QED
    BY <1>1, <1>6, <2>1, <2>2 DEF RotateDelegate, AssemblyTypes
<1> QED
  BY <1>2, <1>3, <1>4, <1>5, <1>6 DEF AssemblyStep, FormationMoves

LEMMA AssemblyStarts ==
    ASSUME AssemblyInit
    PROVE  LifeSound /\ AssemblyTypes
<1>1. /\ shg = [g \in Shg |-> IF Begun(g) THEN [status |-> "ACTIVE", phase |-> 1] ELSE NoGroup]
      /\ trail = <<>> /\ task = [o \in Officer |-> NoTask] /\ season \in Seasons
  BY DEF AssemblyInit, LifeInit
<1>2. \A g \in Shg : shg[g] \in GroupRow /\ Bearing(shg[g]) /\ Earned(trail, g, shg[g].phase)
  <2> TAKE g \in Shg
  <2>1. PICK row : row = shg[g]
    OBVIOUS
  <2>2. row \in GroupRow /\ (row.phase = 0 \/ row.status = "ACTIVE")
    BY <1>1, <2>1 DEF NoGroup, GroupRow, GroupStatus, Phase
  <2>3. ~(row.phase > 1)
    BY <1>1, <2>1 DEF NoGroup
  <2> QED
    BY <2>1, <2>2, <2>3 DEF Bearing, Earned, operating
<1>3. LifeSound
  BY <1>1, <1>2, NoTaskFits DEF LifeSound
<1>4. formation \in FormationRow
  BY DEF AssemblyInit, FormationRow
<1> QED
  BY <1>3, <1>4 DEF AssemblyInit, AssemblyTypes


\* A step keeps both, and the season.
LEMMA AssemblyMoves ==
    ASSUME LifeSound, AssemblyTypes, [AssemblyNext]_<<lifeVars, assemblyVars>>
    PROVE  LifeSound' /\ AssemblyTypes' /\ season' = season
<1>1. CASE AssemblyStep
  <2>1. season' = season
    BY <1>1
    DEF AssemblyStep, OpenFormation, ExcludeCandidate, RecordDelegates, SubmitFormation,
        ReturnFormation, ExpireFormation, ApproveFormation, DissolveCla, WithdrawGroup,
        RotateDelegate, lifeVars
  <2> QED
    BY <1>1, <2>1, AssemblyKeepsLife, AssemblyTypesKept
<1>2. ASSUME UNCHANGED assemblyVars PROVE AssemblyTypes'
  BY <1>2 DEF assemblyVars, AssemblyTypes, FormationRow, ClaId, Seat
<1>3. ASSUME LifeNext PROVE LifeSound' /\ season' = season
  <2>1. season' = season
    BY <1>3
    DEF LifeNext, GroupStep, OpenDraft, KeepBooks, ExitMember, ElectOfficer, Reassess,
        FormationStep, Refuse, BeginAdd, AddMember, LoadGroup, Constitute, ActivateGroup,
        EditGroup, BeginExpiry, CloseRoster, Abandon,
        PhaseStep, BeginSubmit, SubmitPhase, ApprovePhase, RejectPhase, LoadEvent
  <2> QED
    BY <1>3, <2>1, FormationKeeps, PhaseKeeps, GroupKeeps DEF LifeNext
<1>4. ASSUME UNCHANGED <<lifeVars, assemblyVars>> PROVE LifeSound' /\ season' = season
  <2>1. season' = season
    BY <1>4 DEF lifeVars
  <2> QED
    BY <1>4, <2>1, LifeSame
<1> QED
  BY <1>1, <1>2, <1>3, <1>4 DEF AssemblyNext

\* The phase a group is in, whatever copies are saved, was approved by someone
\* who did not ask for it.
THEOREM AssemblyPhaseIsEarned ==
    AssemblySpec => []PhaseIsEarned
<1>1. AssemblyInit => LifeSound /\ AssemblyTypes
  BY AssemblyStarts
<1>2. LifeSound /\ AssemblyTypes /\ [AssemblyNext]_<<lifeVars, assemblyVars>>
         => LifeSound' /\ AssemblyTypes'
  BY AssemblyMoves
<1>3. LifeSound => PhaseIsEarned
  BY DEF LifeSound, PhaseIsEarned, Bearing, Earned, Promotions, TrailIndex
<1> QED
  BY <1>1, <1>2, <1>3, PTL DEF AssemblySpec

-----------------------------------------------------------------------------
(* Seats.                                                                  *)

\* A group has seats where it has a membership, one or two.
Represented(g) ==
    /\ \A c \in parent[g] : cla[c] = "ACTIVE" /\ \A d \in parent[g] : d = c
    /\ \A s \in seat : s.group = g => s.cla \in parent[g]
    /\ parent[g] # {} => \E s \in seat : s.group = g
    /\ Cardinality(SeatsOf(g)) <= seatsPerGroup

\* An event that waits for its approval names delegates for every group.
Nominated ==
    formation.status = "SUBMITTED" => \A g \in formation.included : formation.elected[g] # {}

SeatsHold == Nominated /\ \A g \in Shg : Represented(g)

\* A group that a step passes by.
LEMMA PassedBy ==
    ASSUME NEW g, Represented(g), parent'[g] = parent[g],
           \A c \in parent[g] : cla'[c] = cla[c],
           \A s : (s \in seat' /\ s.group = g) <=> (s \in seat /\ s.group = g)
    PROVE  Represented(g)'
<1>1. SeatsOf(g)' = SeatsOf(g)
  BY DEF SeatsOf
<1>2. PICK n : n = Cardinality(SeatsOf(g))
  OBVIOUS
<1>3. Cardinality(SeatsOf(g)') <= seatsPerGroup
  BY <1>1 DEF Represented
<1> QED
  BY <1>3 DEF Represented, seatsPerGroup

\* A group that is in no association any more.
LEMMA LeftOut ==
    ASSUME NEW g, parent'[g] = {}, \A s \in seat' : s.group # g
    PROVE  Represented(g)'
<1>1. SeatsOf(g)' = {}
  BY DEF SeatsOf
<1>2. Cardinality(SeatsOf(g)') = 0
  BY <1>1, FS_EmptySet
<1> QED
  BY <1>2 DEF Represented, seatsPerGroup


\* A group that an approval seats.
LEMMA SeatedIs ==
    ASSUME LifeSound, AssemblyTypes, SeatsHold, NEW o \in Officer, NEW c \in ClaId,
           ApproveFormation(o, c), NEW g \in formation.included
    PROVE  Represented(g)'
<1>1. PICK women : women = formation.elected[g]
  OBVIOUS
<1>2. g \in Shg /\ women \in SUBSET Woman /\ women # {} /\ Cardinality(women) <= seatsPerGroup
  BY <1>1 DEF AssemblyTypes, FormationRow, ApproveFormation, SeatsHold, Nominated
<1>3. parent[g] = {} /\ parent'[g] = {c} /\ cla'[c] = "ACTIVE"
  BY <1>2 DEF ApproveFormation, AssemblyTypes
<1>4. \A s \in seat : s.group # g
  BY <1>2, <1>3 DEF SeatsHold, Represented
<1>5. seat' = seat \cup {s \in Seat : s.cla = c /\ s.group \in formation.included
                                        /\ s.woman \in formation.elected[s.group]}
  BY DEF ApproveFormation
<1>6. PICK seats : seats = {s \in Seat : s.cla = c /\ s.group = g /\ s.woman \in women}
  OBVIOUS
<1>7. \A s : (s \in seat' /\ s.group = g) <=> s \in seats
  BY <1>1, <1>4, <1>5, <1>6
<1>8. PICK f : f = [w \in women |-> [cla |-> c, group |-> g, woman |-> w]]
  OBVIOUS
<1>9. f \in Surjection(women, seats)
  <2>1. ASSUME NEW w \in women PROVE f[w] \in seats
    BY <1>2, <1>6, <1>8 DEF Seat
  <2>2. ASSUME NEW s \in seats PROVE \E w \in women : f[w] = s
    <3>1. s \in Seat /\ s.cla = c /\ s.group = g /\ s.woman \in women
      BY <1>6
    <3>2. s = [cla |-> c, group |-> g, woman |-> s.woman]
      BY <3>1 DEF Seat
    <3> QED
      BY <1>8, <3>1, <3>2
  <2>3. f \in [women -> seats]
    BY <1>8, <2>1
  <2> QED
    BY <2>2, <2>3 DEF Surjection
<1>10. IsFiniteSet(women) /\ Cardinality(women) \in Nat
  BY <1>2, LifeConstants, FS_Subset, FS_CardinalityType
<1>11. Cardinality(seats) <= Cardinality(women) /\ Cardinality(seats) \in Nat
  BY <1>9, <1>10, FS_Surjection, FS_CardinalityType
<1>12. SeatsOf(g)' = seats
  BY <1>6, <1>7 DEF SeatsOf
<1>13. Cardinality(SeatsOf(g)') <= seatsPerGroup
  BY <1>2, <1>10, <1>11, <1>12 DEF seatsPerGroup
<1>14. \E s \in seat' : s.group = g
  <2>1. PICK w \in women : TRUE
    BY <1>2
  <2>2. f[w] \in seats
    BY <1>9 DEF Surjection
  <2> QED
    BY <1>7, <2>2
<1>15. \A s \in seat' : s.group = g => s.cla = c
  BY <1>6, <1>7
<1> QED
  BY <1>3, <1>13, <1>14, <1>15 DEF Represented, seatsPerGroup

LEMMA AssemblyKeepsSeats ==
    ASSUME LifeSound, AssemblyTypes, SeatsHold, "reseat" \notin season.does, AssemblyStep
    PROVE  SeatsHold'
<1>1. /\ formation \in FormationRow /\ cla \in [ClaId -> {"ABSENT", "ACTIVE", "DISSOLVED"}]
      /\ parent \in [Shg -> SUBSET ClaId] /\ seat \in SUBSET Seat
      /\ \A g \in Shg : Represented(g)
  BY DEF AssemblyTypes, SeatsHold
<1>2. CASE FormationMoves
  <2>1. UNCHANGED <<cla, parent, seat>>
    BY <1>2
    DEF FormationMoves, OpenFormation, ExcludeCandidate, RecordDelegates, SubmitFormation,
        ReturnFormation, ExpireFormation
  <2>2. \A g \in Shg : Represented(g)'
    BY <1>1, <2>1, PassedBy
  <2>3. Nominated'
    <3>1. ASSUME NEW g \in Shg, ExcludeCandidate(g) PROVE Nominated'
      <4>1. PICK left : left = formation.included \ {g}
        OBVIOUS
      <4>2. formation' = [formation EXCEPT !.included = left]
        BY <1>1, <3>1, <4>1 DEF ExcludeCandidate, FormationRow
      <4>3. /\ formation'.status = formation.status /\ formation'.included = left
            /\ formation'.elected = formation.elected
        BY <1>1, <4>2 DEF FormationRow
      <4> QED
        BY <4>1, <4>3 DEF SeatsHold, Nominated
    <3>2. ASSUME NEW o \in Officer, SubmitFormation(o) PROVE Nominated'
      BY <1>1, <3>2 DEF SubmitFormation, FormationRow, Nominated
    <3>3. ASSUME formation'.status # "SUBMITTED" PROVE Nominated'
      BY <3>3 DEF Nominated
    <3>4. CASE \/ \E groups \in SUBSET season.groups \ {{}} : OpenFormation(groups)
               \/ \E o \in Officer : ReturnFormation(o)
               \/ ExpireFormation
      BY <1>1, <3>3, <3>4 DEF OpenFormation, ReturnFormation, ExpireFormation, FormationRow
    <3>5. ASSUME NEW g \in Shg, NEW women \in SUBSET Woman, RecordDelegates(g, women)
          PROVE  Nominated'
      <4>1. formation'.status = formation.status
        BY <1>1, <3>5 DEF RecordDelegates, FormationRow
      <4> QED
        BY <3>3, <3>5, <4>1 DEF RecordDelegates
    <3> QED
      BY <1>2, <3>1, <3>2, <3>4, <3>5 DEF FormationMoves
  <2> QED
    BY <2>2, <2>3 DEF SeatsHold
<1>3. ASSUME NEW o \in Officer, NEW c \in ClaId, ApproveFormation(o, c) PROVE SeatsHold'
  <2>1. formation'.status = "APPROVED"
    BY <1>1, <1>3 DEF ApproveFormation, FormationRow
  <2>2. ASSUME NEW g \in Shg, g \notin formation.included PROVE Represented(g)'
    <3>1. parent'[g] = parent[g]
      BY <1>3, <2>2 DEF ApproveFormation
    <3>2. cla' = [cla EXCEPT ![c] = "ACTIVE"] /\ cla[c] = "ABSENT"
      BY <1>3 DEF ApproveFormation
    <3>3. \A d \in parent[g] : cla'[d] = cla[d]
      BY <1>1, <3>2 DEF Represented
    <3>4. \A s : (s \in seat' /\ s.group = g) <=> (s \in seat /\ s.group = g)
      BY <1>3, <2>2 DEF ApproveFormation
    <3> QED
      BY <1>1, <3>1, <3>3, <3>4, PassedBy
  <2>3. \A g \in formation.included : Represented(g)'
    BY <1>3, SeatedIs
  <2> QED
    BY <2>1, <2>2, <2>3 DEF SeatsHold, Nominated
<1>4. ASSUME NEW o \in Officer, NEW c \in ClaId, DissolveCla(o, c) PROVE SeatsHold'
  <2>1. /\ parent' = [g \in Shg |-> parent[g] \ {c}]
        /\ cla' = [cla EXCEPT ![c] = "DISSOLVED"] /\ formation' = formation
    BY <1>4 DEF DissolveCla
  <2>2. \A s \in seat : s.cla \in parent[s.group] /\ s.group \in Shg
    BY <1>1 DEF Represented, Seat
  <2>3. \A s : s \in seat' <=> s \in seat /\ s.cla # c
    BY <1>4, <2>2 DEF DissolveCla, Vacates
  <2>4. ASSUME NEW g \in Shg, c \notin parent[g] PROVE Represented(g)'
    <3>1. parent'[g] = parent[g] /\ \A d \in parent[g] : cla'[d] = cla[d]
      BY <1>1, <2>1, <2>4
    <3>2. \A s : (s \in seat' /\ s.group = g) <=> (s \in seat /\ s.group = g)
      BY <2>2, <2>3, <2>4
    <3> QED
      BY <1>1, <3>1, <3>2, PassedBy
  <2>5. ASSUME NEW g \in Shg, c \in parent[g] PROVE Represented(g)'
    <3>1. parent'[g] = {}
      BY <1>1, <2>1, <2>5 DEF Represented
    <3>2. \A s \in seat' : s.group # g
      BY <1>1, <2>2, <2>3, <2>5 DEF Represented
    <3> QED
      BY <3>1, <3>2, LeftOut
  <2>6. Nominated'
    BY <2>1 DEF SeatsHold, Nominated
  <2> QED
    BY <2>4, <2>5, <2>6 DEF SeatsHold
<1>5. ASSUME NEW o \in Officer, NEW g \in Shg, WithdrawGroup(o, g) PROVE SeatsHold'
  <2>1. parent' = [parent EXCEPT ![g] = {}] /\ UNCHANGED <<formation, cla>>
    BY <1>5 DEF WithdrawGroup
  <2>2. \A s : s \in seat' <=> s \in seat /\ s.group # g
    BY <1>5 DEF WithdrawGroup, Vacates, LostSeats, SeatsOf
  <2>3. ASSUME NEW h \in Shg, h # g PROVE Represented(h)'
    <3>1. parent'[h] = parent[h]
      BY <1>1, <2>1, <2>3
    <3>2. \A s : (s \in seat' /\ s.group = h) <=> (s \in seat /\ s.group = h)
      BY <2>2, <2>3
    <3> QED
      BY <1>1, <2>1, <3>1, <3>2, PassedBy
  <2>4. Represented(g)'
    BY <1>1, <2>1, <2>2, LeftOut
  <2>5. Nominated'
    BY <2>1 DEF SeatsHold, Nominated
  <2> QED
    BY <2>3, <2>4, <2>5 DEF SeatsHold
<1>6. ASSUME NEW s \in Seat, NEW p \in Woman, RotateDelegate(s, p) PROVE SeatsHold'
  <2>1. PICK next, g : next = [s EXCEPT !.woman = p] /\ g = s.group
    OBVIOUS
  <2>2. next.group = g /\ next.cla = s.cla /\ g \in Shg
    BY <2>1 DEF Seat
  <2>3. s \in seat /\ seat' = (seat \ {s}) \cup {next} /\ UNCHANGED <<formation, cla, parent>>
    BY <1>6, <2>1 DEF RotateDelegate, Allowed
  <2>4. ASSUME NEW h \in Shg, h # g PROVE Represented(h)'
    <3>1. s.group # h /\ next.group # h
      BY <2>1, <2>2, <2>4
    <3>2. \A t : (t \in seat' /\ t.group = h) <=> (t \in seat /\ t.group = h)
      BY <2>3, <3>1
    <3> QED
      BY <1>1, <2>3, <3>2, PassedBy
  <2>5. Represented(g)'
    <3>0. /\ \A c, d \in parent[g] : d = c
          /\ \A t \in seat : t.group = g => t.cla \in parent[g]
      BY <1>1, <2>2 DEF Represented
    <3>1. \A t \in seat' : t.group = g => t.cla \in parent[g] /\ t.cla = s.cla
      BY <2>1, <2>2, <2>3, <3>0
    <3>2. SeatsOf(g)' = {t \in seat' : t.cla = s.cla /\ t.group = s.group}
      BY <2>1, <3>1 DEF SeatsOf
    <3>3. Cardinality(SeatsOf(g)') <= seatsPerGroup
      BY <1>6, <3>2 DEF RotateDelegate
    <3>4. \A c \in parent[g] : cla[c] = "ACTIVE" /\ \A d \in parent[g] : d = c
      BY <1>1, <2>2 DEF Represented
    <3> QED
      BY <2>2, <2>3, <3>1, <3>3, <3>4 DEF Represented, seatsPerGroup
  <2>6. Nominated'
    BY <2>3 DEF SeatsHold, Nominated
  <2> QED
    BY <2>4, <2>5, <2>6 DEF SeatsHold
<1> QED
  BY <1>2, <1>3, <1>4, <1>5, <1>6 DEF AssemblyStep, FormationMoves

\* Whatever becomes of the formation event, a group is represented where it is
\* a member and nowhere else.
THEOREM AssemblySeats ==
    AssemblySpec => []SeatsFollowMembership
<1> DEFINE Closed == "reseat" \notin season.does
           Inv == LifeSound /\ AssemblyTypes /\ (Closed => SeatsHold)
<1>1. AssemblyInit => Inv
  <2>1. ASSUME AssemblyInit PROVE SeatsHold
    <3>1. /\ formation.status = "ABSENT" /\ parent = [g \in Shg |-> {}] /\ seat = {}
      BY <2>1 DEF AssemblyInit
    <3>2. ASSUME NEW g \in Shg PROVE Represented(g)
      <4>1. SeatsOf(g) = {}
        BY <3>1 DEF SeatsOf
      <4> QED
        BY <3>1, <4>1, FS_EmptySet DEF Represented, seatsPerGroup
    <3> QED
      BY <3>1, <3>2 DEF SeatsHold, Nominated
  <2> QED
    BY <2>1, AssemblyStarts
<1>2. ASSUME Inv, [AssemblyNext]_<<lifeVars, assemblyVars>> PROVE Inv'
  <2>1. LifeSound' /\ AssemblyTypes' /\ season' = season
    BY <1>2, AssemblyMoves
  <2>2. ASSUME Closed, SeatsHold PROVE SeatsHold'
    <3>1. CASE AssemblyStep
      BY <1>2, <2>2, <3>1, AssemblyKeepsSeats
    <3>2. CASE UNCHANGED assemblyVars
      <4>1. \A g \in Shg : Represented(g)'
        BY <2>2, <3>2, PassedBy DEF assemblyVars, SeatsHold
      <4> QED
        BY <2>2, <3>2, <4>1 DEF assemblyVars, SeatsHold, Nominated
    <3> QED
      BY <1>2, <3>1, <3>2 DEF AssemblyNext
  <2> QED
    BY <1>2, <2>1, <2>2
<1>3. Inv => SeatsFollowMembership
  <2> SUFFICES ASSUME AssemblyTypes, SeatsHold, NEW g \in Shg
               PROVE  /\ Cardinality(parent[g]) <= 1
                      /\ \A c \in parent[g] : cla[c] = "ACTIVE"
                      /\ {s.cla : s \in SeatsOf(g)} = parent[g]
                      /\ Cardinality(SeatsOf(g)) <= seatsPerGroup
    BY DEF SeatsFollowMembership
  <2>1. Represented(g)
    BY DEF SeatsHold
  <2>2. parent[g] = {} \/ \E c : parent[g] = {c}
    BY <2>1 DEF Represented
  <2>3. Cardinality(parent[g]) <= 1
    <3>1. PICK above : above = parent[g]
      OBVIOUS
    <3>2. CASE above = {}
      <4>1. Cardinality(above) = 0
        BY <3>2, FS_EmptySet
      <4> QED
        BY <3>1, <4>1
    <3>3. ASSUME NEW c, above = {c} PROVE Cardinality(parent[g]) <= 1
      <4>1. Cardinality(above) = 1
        BY <3>3, FS_Singleton
      <4> QED
        BY <3>1, <4>1
    <3> QED
      BY <2>2, <3>1, <3>2, <3>3
  <2>4. {s.cla : s \in SeatsOf(g)} = parent[g]
    BY <2>1 DEF Represented, SeatsOf
  <2> QED
    BY <2>1, <2>3, <2>4 DEF Represented
<1> QED
  BY <1>1, <1>2, <1>3, PTL DEF AssemblySpec


-----------------------------------------------------------------------------
(* The record of decisions, with one request at a time and no copies saved. *)

Quiet == season.atOnce = 1 /\ "edit" \notin season.does

\* What the record tells of a group.
Told(g) ==
    /\ shg[g].status \in operating => shg[g].phase > 0
    /\ (\E i \in DOMAIN trail : trail[i].group = g) => shg[g].phase > 0
    /\ \A i, j \in Undecided(g) : i = j
    /\ \A i \in Promotions(g) :
          (\A j \in Promotions(g) : trail[j].at <= trail[i].at) => trail[i].to = shg[g].phase

\* No event was decided later than the last.
TrailDated ==
    \A i \in DOMAIN trail :
        /\ trail[i].to > 0
        /\ trail[i].outcome # "PENDING" => trail[i].at <= DecidedCount

\* What a request relies on still holds.
Awaits(t) ==
    /\ t.op # "edit"
    /\ t.op = "activate" =>
          /\ t.group \in Shg
          /\ t.copy.status = "CONSTITUTED" => shg[t.group].status = "CONSTITUTED"
    /\ t.op = "submit" => Undecided(t.group) = {} /\ shg[t.group].phase > 0

OneBusy == \A o, p \in Officer : task[o] # NoTask /\ task[p] # NoTask => o = p

StoryTold ==
    /\ OneBusy /\ \A o \in Officer : Awaits(task[o])
    /\ TrailDated /\ \A g \in Shg : Told(g)

LEMMA NoneBusy ==
    ASSUME LifeSound, Quiet, NEW op, Allowed(op)
    PROVE  \A o \in Officer : task[o] = NoTask
<1>1. PICK busy : busy = AtWork
  OBVIOUS
<1>2. IsFiniteSet(busy)
  BY <1>1, LifeConstants, FS_Subset DEF AtWork
<1>3. Cardinality(busy) \in Nat /\ Cardinality(busy) < 1
  BY <1>1, <1>2, FS_CardinalityType DEF Allowed, Quiet
<1>4. busy = {}
  BY <1>2, <1>3, FS_EmptySet
<1> QED
  BY <1>1, <1>4 DEF AtWork

LEMMA NoTaskAwaits ==
    Awaits(NoTask)
  BY DEF Awaits, NoTask

\* A request that nobody else's is beside.
LEMMA AloneAwaits ==
    ASSUME LifeSound, NEW o \in Officer, \A p \in Officer : p # o => task[p] = NoTask,
           NEW t, task' = [task EXCEPT ![o] = t], Awaits(t)'
    PROVE  OneBusy' /\ \A p \in Officer : Awaits(task[p])'
<1>1. \A p \in Officer : (p = o /\ task'[p] = t) \/ (p # o /\ task'[p] = NoTask)
  BY DEF LifeSound
<1>2. Awaits(NoTask)'
  BY DEF Awaits, NoTask
<1>3. OneBusy'
  BY <1>1 DEF OneBusy, NoTask
<1>4. ASSUME NEW p \in Officer PROVE Awaits(task[p])'
  <2>1. PICK x : x = task'[p]
    OBVIOUS
  <2>2. Awaits(x)'
    BY <1>1, <1>2, <2>1
  <2> QED
    BY <2>1, <2>2
<1> QED
  BY <1>3, <1>4

\* A group whose phase stays, and whose record stays.
LEMMA ToldStays ==
    ASSUME NEW g, Told(g), trail' = trail, shg'[g].phase = shg[g].phase,
           shg'[g].status \in operating => shg[g].phase > 0
    PROVE  Told(g)'
  BY DEF Told, Undecided, Promotions, TrailIndex

LEMMA DatedStays ==
    ASSUME TrailDated, trail' = trail
    PROVE  TrailDated'
  BY DEF TrailDated, DecidedCount, TrailIndex


\* Nobody is at work.
LEMMA IdleAwaits ==
    ASSUME \A o \in Officer : task[o] = NoTask, task' = task
    PROVE  OneBusy' /\ \A p \in Officer : Awaits(task[p])'
<1>1. ASSUME NEW p \in Officer PROVE Awaits(task[p])'
  BY DEF Awaits, NoTask
<1> QED
  BY <1>1 DEF OneBusy

LEMMA RequestGoesOn ==
    ASSUME LifeSound, StoryTold, NEW o \in Officer, task[o] # NoTask,
           NEW t, task' = [task EXCEPT ![o] = t], t.op \notin {"edit", "activate", "submit"}
    PROVE  OneBusy' /\ \A p \in Officer : Awaits(task[p])'
<1>1. \A p \in Officer : p # o => task[p] = NoTask
  BY DEF StoryTold, OneBusy
<1>2. Awaits(t)'
  BY DEF Awaits
<1> QED
  BY <1>1, <1>2, AloneAwaits

LEMMA RequestBegins ==
    ASSUME LifeSound, Quiet, NEW o \in Officer, NEW op, Allowed(op),
           NEW t, task' = [task EXCEPT ![o] = t], Awaits(t)'
    PROVE  OneBusy' /\ \A p \in Officer : Awaits(task[p])'
<1>1. \A p \in Officer : task[p] = NoTask
  BY NoneBusy
<1> QED
  BY <1>1, AloneAwaits

\* Groups whose phases stay, and a record that stays.
LEMMA StoryStays ==
    ASSUME LifeSound, StoryTold, trail' = trail,
           \A g \in Shg : shg'[g] = shg[g] \/ (shg'[g].phase = shg[g].phase
                             /\ (shg'[g].status \in operating => shg[g].phase > 0)),
           OneBusy' /\ \A p \in Officer : Awaits(task[p])'
    PROVE  StoryTold'
<1>1. ASSUME NEW g \in Shg PROVE Told(g)'
  <2>1. Told(g)
    BY DEF StoryTold
  <2>2. shg'[g].phase = shg[g].phase /\ (shg'[g].status \in operating => shg[g].phase > 0)
    BY <2>1 DEF Told
  <2> QED
    BY <2>1, <2>2, ToldStays
<1>2. TrailDated'
  BY DatedStays DEF StoryTold
<1> QED
  BY <1>1, <1>2 DEF StoryTold

LEMMA GroupTells ==
    ASSUME LifeSound, StoryTold, Quiet, NEW g \in Shg, GroupStep(g)
    PROVE  StoryTold'
<1>1. shg \in [Shg -> GroupRow] /\ shg[g] \in GroupRow
  BY DEF LifeSound
<1>2. CASE OpenDraft(g)
  <2>1. PICK row : row = [shg[g] EXCEPT !.status = "DRAFT"]
    OBVIOUS
  <2>2. /\ shg' = [shg EXCEPT ![g] = row] /\ shg[g].status = "ABSENT"
        /\ trail' = trail /\ task' = task
    BY <1>1, <1>2, <2>1 DEF OpenDraft
  <2>3. row.phase = shg[g].phase /\ row.status \notin operating
    BY <1>1, <2>1 DEF GroupRow, operating
  <2>4. \A x \in Shg : (x # g /\ shg'[x] = shg[x]) \/ (x = g /\ shg'[x] = row)
    BY <1>1, <2>2
  <2>5. ASSUME NEW p \in Officer PROVE Awaits(task[p])'
    <3>1. PICK t : t = task[p]
      OBVIOUS
    <3>2. Awaits(t) /\ TaskFits(t)
      BY <3>1 DEF StoryTold, LifeSound
    <3>3. t.op = "submit" => Undecided(t.group)' = {} /\ shg'[t.group].phase > 0
      BY <2>2, <2>3, <2>4, <3>2 DEF Awaits, TaskFits, Undecided, TrailIndex
    <3>4. t.op = "activate" =>
             /\ t.group \in Shg
             /\ t.copy.status = "CONSTITUTED" => shg'[t.group].status = "CONSTITUTED"
      BY <2>2, <2>4, <3>2 DEF Awaits
    <3>5. Awaits(t)'
      BY <3>2, <3>3, <3>4 DEF Awaits
    <3> QED
      BY <2>2, <3>1, <3>5
  <2>6. OneBusy'
    BY <2>2 DEF StoryTold, OneBusy
  <2> QED
    BY <2>2, <2>3, <2>4, <2>5, <2>6, StoryStays
<1>3. CASE \/ \E what \in {"bylaws", "meeting"} : KeepBooks(g, what)
           \/ \E p \in Woman : ExitMember(g, p)
           \/ \E r \in Office, p \in Woman : ElectOfficer(g, r, p)
  <2>1. \E op : Allowed(op) /\ UNCHANGED <<shg, trail, task>>
    BY <1>3 DEF KeepBooks, ExitMember, ElectOfficer
  <2> QED
    BY <2>1, NoneBusy, IdleAwaits, StoryStays
<1>4. ASSUME NEW status \in operating, Reassess(g, status) PROVE StoryTold'
  <2>1. PICK row : row = [shg[g] EXCEPT !.status = status]
    OBVIOUS
  <2>2. /\ shg' = [shg EXCEPT ![g] = row] /\ shg[g].status \in operating
        /\ trail' = trail /\ task' = task /\ Allowed("assess")
    BY <1>1, <1>4, <2>1 DEF Reassess
  <2>3. row.phase = shg[g].phase /\ shg[g].phase > 0
    BY <1>1, <2>1, <2>2 DEF GroupRow, StoryTold, Told
  <2>4. \A x \in Shg : (x # g /\ shg'[x] = shg[x]) \/ (x = g /\ shg'[x] = row)
    BY <1>1, <2>2
  <2> QED
    BY <2>2, <2>3, <2>4, NoneBusy, IdleAwaits, StoryStays
<1> QED
  BY <1>2, <1>3, <1>4 DEF GroupStep

LEMMA FormationTells ==
    ASSUME LifeSound, StoryTold, Quiet, NEW o \in Officer, FormationStep(o)
    PROVE  StoryTold'
<1>1. /\ shg \in [Shg -> GroupRow] /\ task \in [Officer -> LifeTask] /\ task[o] \in LifeTask
      /\ Awaits(task[o]) /\ TaskFits(task[o])
  BY DEF LifeSound, StoryTold
<1>2. ASSUME NEW t, task[o] # NoTask, task' = [task EXCEPT ![o] = t], UNCHANGED <<shg, trail>>,
             t.op \notin {"edit", "activate", "submit"}
      PROVE  StoryTold'
  BY <1>2, RequestGoesOn, StoryStays
<1>3. ASSUME NEW op, Allowed(op), NEW t, task' = [task EXCEPT ![o] = t], UNCHANGED <<shg, trail>>,
             Awaits(t)'
      PROVE  StoryTold'
  BY <1>3, RequestBegins, StoryStays
<1>4. CASE Refuse(o)
  BY <1>2, <1>4 DEF Refuse, Leaves, NoTask
<1>5. CASE AddMember(o)
  <2>1. task[o] # NoTask
    BY <1>5 DEF AddMember, NoTask
  <2> QED
    BY <1>2, <1>5, <2>1 DEF AddMember, Leaves, NoTask
<1>6. ASSUME NEW g \in Shg, NEW p \in Woman, BeginAdd(o, g, p) PROVE StoryTold'
  <2>1. PICK t : t = [NoTask EXCEPT !.op = "add", !.group = g, !.woman = p]
    OBVIOUS
  <2>2. Awaits(t)'
    BY <2>1 DEF NoTask, Awaits
  <2> QED
    BY <1>3, <1>6, <2>1, <2>2 DEF BeginAdd
<1>7. ASSUME NEW g \in Shg, NEW op \in LifeOps, LoadGroup(o, op, g) PROVE StoryTold'
  <2>1. PICK t : t = [NoTask EXCEPT !.op = op, !.group = g, !.copy = shg[g]]
    OBVIOUS
  <2>2. /\ Allowed(op) /\ UNCHANGED <<shg, trail>> /\ task' = [task EXCEPT ![o] = t]
        /\ op \in {"constitute", "activate", "edit"}
    BY <1>7, <2>1 DEF LoadGroup, Takes
  <2>3. op # "edit"
    BY <2>2 DEF Allowed, Quiet
  <2>4. t.op = op /\ t.group = g /\ t.copy = shg[g]
    BY <2>1 DEF NoTask
  <2>5. Awaits(t)'
    BY <2>2, <2>3, <2>4 DEF Awaits
  <2> QED
    BY <1>3, <2>2, <2>5
<1>8. ASSUME NEW due \in SUBSET Shg, BeginExpiry(o, due) PROVE StoryTold'
  <2>1. PICK status \in {"DRAFT", "CONSTITUTED"} :
           task' = [task EXCEPT ![o] = [NoTask EXCEPT !.op = "expire", !.todo = due,
                                           !.copy = [NoGroup EXCEPT !.status = status]]]
    BY <1>8 DEF BeginExpiry
  <2>2. PICK t : t = [NoTask EXCEPT !.op = "expire", !.todo = due,
                         !.copy = [NoGroup EXCEPT !.status = status]]
    OBVIOUS
  <2>3. Awaits(t)'
    BY <2>2 DEF NoTask, Awaits
  <2> QED
    BY <1>3, <1>8, <2>1, <2>2, <2>3 DEF BeginExpiry
<1>9. ASSUME NEW g \in Shg, CloseRoster(o, g) PROVE StoryTold'
  <2>1. PICK old, left : old = task[o] /\ left = old.todo \ {g}
    OBVIOUS
  <2>2. PICK t : t = [old EXCEPT !.group = g, !.todo = left]
    OBVIOUS
  <2>3. old.op = "expire" /\ old \in LifeTask
    BY <1>1, <1>9, <2>1 DEF CloseRoster
  <2>4. t.op = "expire" /\ old # NoTask
    BY <2>2, <2>3 DEF LifeTask, NoTask
  <2>5. task' = [task EXCEPT ![o] = t] /\ UNCHANGED <<shg, trail>>
    BY <1>1, <1>9, <2>1, <2>2 DEF CloseRoster
  <2> QED
    BY <1>2, <2>1, <2>4, <2>5
<1>10. ASSUME NEW g \in Shg \cup {Nobody}, NEW row, shg' = [shg EXCEPT ![g] = row], trail' = trail,
              g \in Shg => row.phase = shg[g].phase /\ row.status \notin operating,
              NEW t, task' = [task EXCEPT ![o] = t], task[o] # NoTask,
              t.op \notin {"edit", "activate", "submit"}
       PROVE  StoryTold'
  <2>1. \A x \in Shg : shg'[x] = shg[x] \/ (x = g /\ shg'[x] = row)
    BY <1>1, <1>10
  <2>2. OneBusy' /\ \A p \in Officer : Awaits(task[p])'
    BY <1>10, RequestGoesOn
  <2> QED
    BY <1>10, <2>1, <2>2, StoryStays
<1>11. CASE Constitute(o)
  <2>1. PICK g, row : g = task[o].group /\ row = [shg[g] EXCEPT !.status = "CONSTITUTED"]
    OBVIOUS
  <2>2. g \in Shg \cup {Nobody}
    BY <1>1, <2>1 DEF LifeTask
  <2>3. g \in Shg => row.phase = shg[g].phase /\ row.status \notin operating
    BY <1>1, <2>1 DEF GroupRow, operating
  <2>4. shg' = [shg EXCEPT ![g] = row] /\ trail' = trail /\ Leaves(o) /\ task[o] # NoTask
    BY <1>11, <2>1 DEF Constitute, Saves, NoTask
  <2> QED
    BY <1>10, <2>2, <2>3, <2>4 DEF Leaves, NoTask
<1>12. CASE Abandon(o)
  <2>1. PICK g, row : g = task[o].group /\ row = [shg[g] EXCEPT !.status = "ABANDONED"]
    OBVIOUS
  <2>2. g \in Shg \cup {Nobody}
    BY <1>1, <2>1 DEF LifeTask
  <2>3. g \in Shg => row.phase = shg[g].phase /\ row.status \notin operating
    BY <1>1, <2>1 DEF GroupRow, operating
  <2>4. shg' = [shg EXCEPT ![g] = row] /\ trail' = trail /\ task[o].op = "expire"
    BY <1>12, <2>1 DEF Abandon, Saves
  <2>5. \E t : task' = [task EXCEPT ![o] = t] /\ t.op \notin {"edit", "activate", "submit"}
    <3>1. CASE Leaves(o)
      <4>1. PICK t : t = NoTask
        OBVIOUS
      <4>2. task' = [task EXCEPT ![o] = t]
        BY <3>1, <4>1 DEF Leaves
      <4>3. t.op = "none"
        BY <4>1 DEF NoTask
      <4> QED
        BY <4>2, <4>3
    <3>2. CASE task' = [task EXCEPT ![o].group = Nobody]
      <4>1. PICK old, t : old = task[o] /\ t = [old EXCEPT !.group = Nobody]
        OBVIOUS
      <4>2. t.op = "expire"
        BY <1>1, <2>4, <4>1 DEF LifeTask
      <4>3. task' = [task EXCEPT ![o] = t]
        BY <1>1, <3>2, <4>1
      <4> QED
        BY <4>2, <4>3
    <3> QED
      BY <1>12, <3>1, <3>2 DEF Abandon
  <2>6. task[o] # NoTask
    BY <2>4 DEF NoTask
  <2> QED
    BY <1>10, <2>2, <2>3, <2>4, <2>5, <2>6
<1>13. CASE ActivateGroup(o)
  <2>1. PICK g, row : g = task[o].group /\ row = [status |-> "ACTIVE", phase |-> 1]
    OBVIOUS
  <2>2. g \in Shg /\ shg[g].status = "CONSTITUTED"
    BY <1>1, <1>13, <2>1 DEF Awaits, ActivateGroup
  <2>3. shg' = [shg EXCEPT ![g] = row] /\ trail' = trail /\ Leaves(o) /\ task[o] # NoTask
    BY <1>13, <2>1 DEF ActivateGroup, Saves, NoTask
  <2>4. shg[g].phase = 0 /\ Told(g)
    BY <2>2 DEF LifeSound, StoryTold, Bearing, operating
  <2>5. \A i \in DOMAIN trail : trail[i].group # g
    BY <2>4 DEF Told
  <2>6. shg'[g] = row /\ \A x \in Shg : x # g => shg'[x] = shg[x]
    BY <1>1, <2>2, <2>3
  <2>7. Told(g)'
    <3>1. trail' \in Seq(TrailRow) /\ TrailIndex' = DOMAIN trail
      BY <2>3 DEF LifeSound, TrailIndex
    <3>2. Undecided(g)' = {} /\ Promotions(g)' = {}
      BY <2>3, <2>5, <3>1 DEF Undecided, Promotions
    <3>3. shg'[g].phase > 0
      BY <2>1, <2>6
    <3> QED
      BY <3>2, <3>3 DEF Told
  <2>8. ASSUME NEW x \in Shg, x # g PROVE Told(x)'
    <3>1. Told(x) /\ shg'[x] = shg[x]
      BY <2>6, <2>8 DEF StoryTold
    <3>2. shg'[x].status \in operating => shg[x].phase > 0
      BY <3>1 DEF Told
    <3> QED
      BY <2>3, <3>1, <3>2, ToldStays
  <2>9. OneBusy' /\ \A p \in Officer : Awaits(task[p])'
    BY <2>3, RequestGoesOn DEF Leaves, NoTask
  <2>10. TrailDated'
    BY <2>3, DatedStays DEF StoryTold
  <2> QED
    BY <2>7, <2>8, <2>9, <2>10 DEF StoryTold
<1>14. ~EditGroup(o)
  BY <1>1 DEF Awaits, EditGroup
<1> QED
  BY <1>4, <1>5, <1>6, <1>7, <1>8, <1>9, <1>11, <1>12, <1>13, <1>14 DEF FormationStep


\* The decided events of the record.
LEMMA DecidedIs ==
    ASSUME LifeSound, NEW decided, decided = {i \in DOMAIN trail : trail[i].outcome # "PENDING"}
    PROVE  /\ IsFiniteSet(decided) /\ Cardinality(decided) = DecidedCount /\ DecidedCount \in Nat
           /\ DOMAIN trail = TrailIndex /\ DOMAIN trail = 1 .. Len(trail) /\ Len(trail) \in Nat
<1>1. trail \in Seq(TrailRow)
  BY DEF LifeSound
<1>2. Len(trail) \in Nat /\ DOMAIN trail = 1 .. Len(trail)
  BY <1>1
<1>3. decided = {i \in TrailIndex : trail[i].outcome # "PENDING"}
  BY <1>2 DEF TrailIndex
<1>4. IsFiniteSet(1 .. Len(trail))
  BY <1>2, FS_Interval
<1>5. IsFiniteSet(decided)
  BY <1>2, <1>4, FS_Subset
<1>6. Cardinality(decided) = DecidedCount
  BY <1>3 DEF DecidedCount
<1> QED
  BY <1>2, <1>5, <1>6, FS_CardinalityType DEF TrailIndex

\* When events were decided is a number.
LEMMA DatesAre ==
    ASSUME LifeSound, NEW j \in DOMAIN trail
    PROVE  trail[j] \in TrailRow /\ trail[j].at \in Nat
<1>1. trail \in Seq(TrailRow)
  BY DEF LifeSound
<1>2. trail[j] \in TrailRow
  BY <1>1
<1> QED
  BY <1>2 DEF TrailRow

\* A decision of event i: the count goes up by one, and the event is the last.
LEMMA DecisionTells ==
    ASSUME LifeSound, LifeSound', TrailDated, NEW i \in DOMAIN trail, NEW e \in TrailRow,
           trail' = [trail EXCEPT ![i] = e], trail[i].outcome = "PENDING",
           e.outcome # "PENDING", e.to = trail[i].to, e.at = DecidedCount + 1
    PROVE  TrailDated' /\ \A j \in DOMAIN trail : trail[j].outcome # "PENDING" => trail[j].at < e.at
<1>1. PICK decided : decided = {j \in DOMAIN trail : trail[j].outcome # "PENDING"}
  OBVIOUS
<1>2. PICK after : after = {j \in DOMAIN trail' : trail'[j].outcome # "PENDING"}
  OBVIOUS
<1>3. /\ IsFiniteSet(decided) /\ Cardinality(decided) = DecidedCount /\ DecidedCount \in Nat
  BY <1>1, DecidedIs
<1>4. /\ DOMAIN trail' = DOMAIN trail /\ trail'[i] = e
      /\ \A j \in DOMAIN trail : j # i => trail'[j] = trail[j]
  BY DEF LifeSound
<1>5. after = decided \cup {i} /\ i \notin decided
  BY <1>1, <1>2, <1>4
<1>6. Cardinality(after) = DecidedCount + 1
  BY <1>3, <1>5, FS_AddElement
<1>7. Cardinality(after) = DecidedCount'
  <2>1. trail' \in Seq(TrailRow)
    BY DEF LifeSound
  <2>2. TrailIndex' = DOMAIN trail'
    BY <2>1 DEF TrailIndex
  <2>3. after = {j \in TrailIndex' : trail'[j].outcome # "PENDING"}
    BY <1>2, <2>2
  <2> QED
    BY <2>3 DEF DecidedCount
<1>8. DecidedCount' = DecidedCount + 1
  BY <1>6, <1>7
<1>9. ASSUME NEW j \in DOMAIN trail, trail[j].outcome # "PENDING" PROVE trail[j].at < e.at
  <2>1. trail[j].at \in Nat /\ trail[j].at <= DecidedCount
    BY <1>9, DatesAre DEF TrailDated
  <2> QED
    BY <1>3, <2>1
<1>10. ASSUME NEW j \in DOMAIN trail'
       PROVE  trail'[j].to > 0 /\ (trail'[j].outcome # "PENDING" => trail'[j].at <= DecidedCount')
  <2>1. CASE j = i
    BY <1>3, <1>4, <1>8, <2>1 DEF TrailDated
  <2>2. CASE j # i
    <3>1. j \in DOMAIN trail /\ trail'[j] = trail[j] /\ trail[j].to > 0
      BY <1>4, <2>2 DEF TrailDated
    <3>2. trail[j].outcome # "PENDING" => trail[j].at < DecidedCount + 1 /\ trail[j].at \in Nat
      BY <1>9, <3>1, DatesAre
    <3> QED
      BY <1>3, <1>8, <3>1, <3>2
  <2> QED
    BY <2>1, <2>2
<1> QED
  BY <1>9, <1>10 DEF TrailDated

\* Its effect on what is told of the groups.
LEMMA DecidedTells ==
    ASSUME LifeSound, LifeSound', StoryTold, NEW i \in DOMAIN trail, NEW e \in TrailRow,
           trail' = [trail EXCEPT ![i] = e], trail[i].outcome = "PENDING",
           e.outcome \in {"APPROVED", "REJECTED"}, e.to = trail[i].to, e.at = DecidedCount + 1,
           e.group = trail[i].group, NEW g \in Shg,
           IF e.outcome = "APPROVED" /\ g = e.group
           THEN shg'[g].phase = e.to
           ELSE shg'[g] = shg[g]
    PROVE  Told(g)'
<1>1. Told(g) /\ TrailDated
  BY DEF StoryTold
<1>2. /\ TrailIndex = DOMAIN trail /\ TrailIndex' = DOMAIN trail /\ trail'[i] = e
      /\ \A j \in DOMAIN trail : j # i => trail'[j] = trail[j]
      /\ trail \in Seq(TrailRow) /\ DOMAIN trail' = DOMAIN trail
  BY DEF LifeSound, TrailIndex
<1>3. Undecided(g)' \subseteq Undecided(g)
  BY <1>2 DEF Undecided
<1>4. \A j \in DOMAIN trail : trail[j].outcome # "PENDING" => trail[j].at < e.at
  BY <1>1, DecisionTells
<1>5. e.to > 0
  BY <1>1 DEF TrailDated
<1>6. CASE e.outcome = "APPROVED" /\ g = e.group
  <2>1. Promotions(g)' = Promotions(g) \cup {i}
    BY <1>2, <1>6 DEF Promotions
  <2>2. ASSUME NEW k \in Promotions(g)', \A j \in Promotions(g)' : trail'[j].at <= trail'[k].at
        PROVE  k = i
    <3>1. SUFFICES ASSUME k # i PROVE FALSE
      OBVIOUS
    <3>2. k \in Promotions(g) /\ trail'[k] = trail[k] /\ k \in DOMAIN trail
      BY <1>2, <2>1, <3>1 DEF Promotions
    <3>3. trail[k].at < e.at
      BY <1>4, <3>2 DEF Promotions
    <3>4. e.at <= trail[k].at
      BY <1>2, <2>1, <2>2, <3>2
    <3>5. trail[k].at \in Nat /\ e.at \in Nat
      BY <3>2, DatesAre DEF TrailRow
    <3> QED
      BY <3>3, <3>4, <3>5
  <2>3. \A k \in Promotions(g)' : (\A j \in Promotions(g)' : trail'[j].at <= trail'[k].at)
                                     => trail'[k].to = shg'[g].phase
    BY <1>2, <1>6, <2>2
  <2> QED
    BY <1>1, <1>3, <1>5, <1>6, <2>3 DEF Told
<1>7. CASE ~(e.outcome = "APPROVED" /\ g = e.group)
  <2>1. Promotions(g)' = Promotions(g) /\ i \notin Promotions(g)
    BY <1>2, <1>7 DEF Promotions
  <2>2. \A k \in Promotions(g) : trail'[k] = trail[k]
    BY <1>2, <2>1 DEF Promotions
  <2>3. \A k \in Promotions(g)' : (\A j \in Promotions(g)' : trail'[j].at <= trail'[k].at)
                                     => trail'[k].to = shg'[g].phase
    BY <1>1, <1>7, <2>1, <2>2 DEF Told
  <2>4. (\E j \in DOMAIN trail' : trail'[j].group = g) => shg'[g].phase > 0
    BY <1>1, <1>2, <1>7 DEF Told
  <2> QED
    BY <1>1, <1>3, <1>7, <2>3, <2>4 DEF Told
<1> QED
  BY <1>6, <1>7


\* An event that waits for its decision.
LEMMA RequestTells ==
    ASSUME LifeSound, StoryTold, NEW e \in TrailRow, trail' = Append(trail, e), shg' = shg,
           e.outcome = "PENDING", e.to > 0, Undecided(e.group) = {}, shg[e.group].phase > 0
    PROVE  TrailDated' /\ \A g \in Shg : Told(g)'
<1>1. trail \in Seq(TrailRow) /\ Len(trail) \in Nat
  BY DEF LifeSound
<1>2. PICK n : n = Len(trail) + 1
  OBVIOUS
<1>3. /\ trail' \in Seq(TrailRow) /\ trail'[n] = e /\ n \notin DOMAIN trail
      /\ DOMAIN trail' = DOMAIN trail \cup {n} /\ TrailIndex = DOMAIN trail
      /\ TrailIndex' = DOMAIN trail' /\ \A j \in DOMAIN trail : trail'[j] = trail[j]
  BY <1>1, <1>2 DEF TrailIndex
<1>4. DecidedCount' = DecidedCount
  <2>1. {j \in TrailIndex' : trail'[j].outcome # "PENDING"} = {j \in TrailIndex : trail[j].outcome # "PENDING"}
    BY <1>3
  <2> QED
    BY <2>1 DEF DecidedCount
<1>5. TrailDated'
  BY <1>3, <1>4 DEF TrailDated, StoryTold
<1>6. ASSUME NEW g \in Shg PROVE Told(g)'
  <2>1. Told(g)
    BY DEF StoryTold
  <2>2. Promotions(g)' = Promotions(g) /\ \A j \in Promotions(g) : trail'[j] = trail[j]
    BY <1>3 DEF Promotions
  <2>3. \A k \in Promotions(g)' : (\A j \in Promotions(g)' : trail'[j].at <= trail'[k].at)
                                     => trail'[k].to = shg'[g].phase
    BY <2>1, <2>2 DEF Told
  <2>4. \A i, j \in Undecided(g)' : i = j
    <3>1. CASE e.group = g
      <4>1. Undecided(g)' \subseteq {n}
        BY <1>3, <3>1 DEF Undecided
      <4> QED
        BY <4>1
    <3>2. CASE e.group # g
      <4>1. Undecided(g)' = Undecided(g)
        BY <1>3, <3>2 DEF Undecided
      <4> QED
        BY <2>1, <4>1 DEF Told
    <3> QED
      BY <3>1, <3>2
  <2>5. (\E j \in DOMAIN trail' : trail'[j].group = g) => shg'[g].phase > 0
    BY <1>3, <2>1 DEF Told
  <2> QED
    BY <2>1, <2>3, <2>4, <2>5 DEF Told
<1> QED
  BY <1>5, <1>6

LEMMA PhaseTells ==
    ASSUME LifeSound, StoryTold, Quiet, NEW o \in Officer, PhaseStep(o)
    PROVE  StoryTold'
<1>1. /\ shg \in [Shg -> GroupRow] /\ task \in [Officer -> LifeTask] /\ task[o] \in LifeTask
      /\ Awaits(task[o]) /\ TaskFits(task[o]) /\ LifeSound'
  BY PhaseKeeps DEF LifeSound, StoryTold
<1>2. ASSUME NEW op, Allowed(op), NEW t, task' = [task EXCEPT ![o] = t], UNCHANGED <<shg, trail>>,
             Awaits(t)'
      PROVE  StoryTold'
  BY <1>2, RequestBegins, StoryStays
<1>3. ASSUME NEW g \in Shg, BeginSubmit(o, g) PROVE StoryTold'
  <2>1. PICK t : t = [NoTask EXCEPT !.op = "submit", !.group = g, !.copy = shg[g]]
    OBVIOUS
  <2>2. /\ Allowed("submit") /\ UNCHANGED <<shg, trail>> /\ task' = [task EXCEPT ![o] = t]
        /\ Undecided(g) = {} /\ shg[g].status \in operating
    BY <1>3, <2>1 DEF BeginSubmit
  <2>3. t.op = "submit" /\ t.group = g
    BY <2>1 DEF NoTask
  <2>4. Undecided(g)' = {} /\ shg'[g].phase > 0
    BY <2>2 DEF Undecided, TrailIndex, StoryTold, Told
  <2>5. Awaits(t)'
    BY <2>3, <2>4 DEF Awaits
  <2> QED
    BY <1>2, <2>2, <2>5
<1>4. CASE SubmitPhase(o)
  <2>1. PICK g, to, e : /\ g = task[o].group /\ to = NEXT_PHASE(task[o].copy.phase)
                        /\ e = [ group |-> g, to |-> to, by |-> o, decider |-> Nobody,
                                 outcome |-> "PENDING", at |-> 0 ]
    OBVIOUS
  <2>2. /\ g \in Shg /\ task[o].copy.phase < 4 /\ task[o].copy.phase \in Phase
        /\ Undecided(g) = {} /\ shg[g].phase > 0
    BY <1>1, <1>4, <2>1 DEF SubmitPhase, TaskFits, Awaits, LifeTask, GroupRow
  <2>3. to \in Phase /\ to > 0
    BY <2>1, <2>2 DEF NEXT_PHASE, Phase
  <2>4. e \in TrailRow /\ e.group = g /\ e.to = to /\ e.outcome = "PENDING"
    BY <2>1, <2>2, <2>3 DEF TrailRow
  <2>5. trail' = Append(trail, e) /\ shg' = shg /\ Leaves(o) /\ task[o] # NoTask
    BY <1>4, <2>1 DEF SubmitPhase, NoTask
  <2>6. TrailDated' /\ \A x \in Shg : Told(x)'
    BY <2>2, <2>3, <2>4, <2>5, RequestTells
  <2>7. OneBusy' /\ \A p \in Officer : Awaits(task[p])'
    BY <2>5, RequestGoesOn DEF Leaves, NoTask
  <2> QED
    BY <2>6, <2>7 DEF StoryTold
<1>5. ASSUME NEW i \in TrailIndex, NEW op \in LifeOps, LoadEvent(o, op, i) PROVE StoryTold'
  <2>1. PICK t : t = [NoTask EXCEPT !.op = op, !.event = i, !.group = trail[i].group,
                                    !.copy = shg[trail[i].group]]
    OBVIOUS
  <2>2. /\ Allowed(op) /\ UNCHANGED <<shg, trail>> /\ task' = [task EXCEPT ![o] = t]
        /\ op \in {"approve", "reject"}
    BY <1>5, <2>1 DEF LoadEvent
  <2>3. t.op = op
    BY <2>1 DEF NoTask
  <2>4. Awaits(t)'
    BY <2>2, <2>3 DEF Awaits
  <2> QED
    BY <1>2, <2>2, <2>4
<1>6. ASSUME NEW outcome \in {"APPROVED", "REJECTED"}, Decides(o, outcome), Leaves(o),
             task[o].op \in {"approve", "reject"},
             \A g \in Shg : IF outcome = "APPROVED" /\ g = task[o].group
                            THEN shg'[g].phase = trail[task[o].event].to ELSE shg'[g] = shg[g]
      PROVE  StoryTold'
  <2>1. PICK i : i = task[o].event
    OBVIOUS
  <2>2. i \in DOMAIN trail /\ trail[i].group = task[o].group
    BY <1>1, <1>6, <2>1 DEF TaskFits
  <2>3. PICK e \in TrailRow :
           /\ trail' = [trail EXCEPT ![i] = e] /\ trail[i].outcome = "PENDING"
           /\ e.group = trail[i].group /\ e.to = trail[i].to
           /\ e.outcome = outcome /\ e.at = DecidedCount + 1
    BY <1>6, <2>1, <2>2, DecisionKeeps
  <2>4. TrailDated'
    BY <1>1, <1>6, <2>2, <2>3, DecisionTells DEF StoryTold
  <2>5. \A g \in Shg : Told(g)'
    BY <1>1, <1>6, <2>1, <2>2, <2>3, DecidedTells
  <2>6. task[o] # NoTask
    BY <1>6 DEF NoTask
  <2>7. OneBusy' /\ \A p \in Officer : Awaits(task[p])'
    BY <1>6, <2>6, RequestGoesOn DEF Leaves, NoTask
  <2> QED
    BY <2>4, <2>5, <2>7 DEF StoryTold
<1>7. CASE ApprovePhase(o)
  <2>1. PICK g, row : g = task[o].group /\ row = [shg[g] EXCEPT !.phase = Granted(o)]
    OBVIOUS
  <2>2. /\ g \in Shg /\ Decides(o, "APPROVED") /\ shg' = [shg EXCEPT ![g] = row]
        /\ Leaves(o) /\ task[o].op = "approve"
    BY <1>1, <1>7, <2>1 DEF ApprovePhase, TaskFits, Saves
  <2>3. row.phase = trail[task[o].event].to
    BY <1>1, <2>1, <2>2 DEF GroupRow, Granted
  <2>4. \A x \in Shg : (x = g /\ shg'[x] = row) \/ (x # g /\ shg'[x] = shg[x])
    BY <1>1, <2>2
  <2> QED
    BY <1>6, <2>1, <2>2, <2>3, <2>4
<1>8. CASE RejectPhase(o)
  BY <1>6, <1>8 DEF RejectPhase
<1> QED
  BY <1>3, <1>4, <1>5, <1>7, <1>8 DEF PhaseStep

\* Decisions signed at once for every group of a set, and the phase they give.
Signed(groups, to, by, o) ==
    trail' = trail \o [n \in 1 .. Len(Ordered(groups)) |-> Decision(Ordered(groups)[n], to, by, o, n)]

Rephased(groups, to) ==
    /\ \A g \in groups : shg'[g].phase = to
    /\ \A g \in Shg : g \notin groups => shg'[g] = shg[g]

\* The places of groups in their sequence.
LEMMA OrderOf ==
    ASSUME NEW groups \in SUBSET Shg, NEW order, order = Ordered(groups)
    PROVE  \E count \in Nat :
              /\ order \in [1 .. count -> groups] /\ Len(order) = count
              /\ \A g \in groups : \E n \in 1 .. count : order[n] = g
<1>1. PICK count : count = Cardinality(groups)
  OBVIOUS
<1>2. IsFiniteSet(groups)
  BY LifeConstants, FS_Subset
<1>3. /\ count \in Nat /\ order \in [1 .. count -> groups]
      /\ \A g \in groups : \E n \in 1 .. count : order[n] = g
  BY <1>1, <1>2, OrderedIs
<1>4. Len(order) = count
  BY <1>3
<1> QED
  BY <1>3, <1>4

\* Each is later than those before.
LEMMA SignedTells ==
    ASSUME LifeSound, StoryTold, NEW groups \in SUBSET Shg, NEW to \in Phase, to > 0,
           NEW by \in Officer \cup {Nobody}, NEW o \in Officer,
           Signed(groups, to, by, o), Rephased(groups, to)
    PROVE  TrailDated' /\ \A g \in Shg : Told(g)' /\ Undecided(g)' = Undecided(g)
<1>1. trail \in Seq(TrailRow) /\ Len(trail) \in Nat /\ DecidedCount \in Nat
  BY DecidedIsNat DEF LifeSound
<1>2. PICK order : order = Ordered(groups)
  OBVIOUS
<1>3. PICK count \in Nat :
         /\ order \in [1 .. count -> groups] /\ Len(order) = count
         /\ \A g \in groups : \E n \in 1 .. count : order[n] = g
  BY <1>2, OrderOf
<1>4. trail' = trail \o [n \in 1 .. Len(order) |-> Decision(order[n], to, by, o, n)]
  BY <1>2 DEF Signed
<1>5. PICK added : added = [n \in 1 .. count |-> Decision(order[n], to, by, o, n)]
  OBVIOUS
<1>6. \A n \in 1 .. count :
         /\ added[n] \in TrailRow /\ added[n].group = order[n] /\ added[n].outcome = "APPROVED"
         /\ added[n].to = to /\ added[n].at = DecidedCount + n
  <2> TAKE n \in 1 .. count
  <2>1. added[n] = Decision(order[n], to, by, o, n)
    BY <1>5
  <2>2. order[n] \in Shg /\ DecidedCount + n \in Nat
    BY <1>1, <1>3
  <2> QED
    BY <2>1, <2>2 DEF Decision, TrailRow
<1>7. added \in Seq(TrailRow) /\ Len(added) = count
  BY <1>3, <1>5, <1>6
<1>8. trail' = trail \o added
  BY <1>3, <1>4, <1>5
<1>9. PICK last, old, new : last = Len(trail) /\ old = trail /\ new = trail'
  OBVIOUS
<1>10. /\ new \in Seq(TrailRow) /\ Len(new) = last + count /\ last \in Nat
       /\ DOMAIN old = 1 .. last /\ DOMAIN new = 1 .. (last + count)
       /\ \A i \in 1 .. last : new[i] = old[i]
       /\ \A n \in 1 .. count : new[last + n] = added[n]
  <2>1. old \in Seq(TrailRow) /\ new = old \o added /\ last = Len(old)
    BY <1>1, <1>8, <1>9
  <2>2. \A n \in 1 .. count : new[last + n] = added[n]
    BY <1>7, <2>1, JoinedIs
  <2>3. new \in Seq(TrailRow) /\ Len(new) = last + count /\ last \in Nat
    <3>1. PICK S : S = TrailRow
      OBVIOUS
    <3>2. old \in Seq(S) /\ added \in Seq(S) /\ new = old \o added
      BY <1>7, <2>1, <3>1
    <3>3. new \in Seq(S) /\ Len(new) = Len(old) + Len(added) /\ Len(old) \in Nat
      BY <3>2
    <3> QED
      BY <1>7, <2>1, <3>1, <3>3
  <2>4. DOMAIN old = 1 .. last /\ DOMAIN new = 1 .. (last + count)
    BY <2>1, <2>3
  <2>5. \A i \in DOMAIN old : new[i] = old[i]
    BY <1>7, <2>1, JoinedIs
  <2> QED
    BY <2>2, <2>3, <2>4, <2>5
<1>11. \A j \in (last + 1) .. (last + count) :
          /\ new[j].group \in groups /\ new[j].outcome = "APPROVED" /\ new[j].to = to
          /\ new[j].at = DecidedCount + (j - last)
  <2> TAKE j \in (last + 1) .. (last + count)
  <2>1. PICK n : n = j - last
    OBVIOUS
  <2>2. n \in 1 .. count /\ last + n = j
    BY <1>3, <1>10, <2>1
  <2>3. new[j] = added[n]
    BY <1>10, <2>2
  <2> QED
    BY <1>3, <1>6, <2>1, <2>2, <2>3
<1>12. DecidedCount' = DecidedCount + count
  <2>1. PICK before, after, late :
           /\ before = {j \in DOMAIN old : old[j].outcome # "PENDING"}
           /\ after = {j \in DOMAIN new : new[j].outcome # "PENDING"}
           /\ late = (last + 1) .. (last + count)
    OBVIOUS
  <2>2. IsFiniteSet(before) /\ Cardinality(before) = DecidedCount
    BY <1>9, <2>1, DecidedIs
  <2>3. IsFiniteSet(late) /\ Cardinality(late) = count
    BY <1>3, <1>10, <2>1, FS_Interval
  <2>4. after = before \cup late /\ before \cap late = {}
    <3>1. \A j \in late : j \in DOMAIN new /\ new[j].outcome # "PENDING" /\ j \notin DOMAIN old
      BY <1>3, <1>10, <1>11, <2>1
    <3>2. \A j \in DOMAIN new : j \in late \/ (j \in DOMAIN old /\ new[j] = old[j])
      BY <1>3, <1>10, <2>1
    <3>3. \A j \in DOMAIN old : j \in DOMAIN new /\ new[j] = old[j]
      BY <1>3, <1>10
    <3> QED
      BY <2>1, <3>1, <3>2, <3>3
  <2>5. Cardinality(after) = DecidedCount + count
    <3>1. Cardinality(before \cap late) = 0
      BY <2>4, FS_EmptySet
    <3>2. Cardinality(after) = Cardinality(before) + Cardinality(late) - Cardinality(before \cap late)
      BY <2>2, <2>3, <2>4, FS_Union
    <3> QED
      BY <1>1, <1>3, <2>2, <2>3, <3>1, <3>2
  <2>6. after = {j \in TrailIndex' : trail'[j].outcome # "PENDING"}
    BY <1>9, <1>10, <2>1 DEF TrailIndex
  <2> QED
    BY <2>5, <2>6 DEF DecidedCount
<1>13. TrailDated'
  <2>1. ASSUME NEW j \in DOMAIN new
        PROVE  new[j].to > 0 /\ (new[j].outcome # "PENDING" => new[j].at <= DecidedCount + count)
    <3>1. CASE j \in 1 .. last
      <4>1. new[j] = old[j] /\ old[j].to > 0
        BY <1>9, <1>10, <3>1 DEF StoryTold, TrailDated
      <4>2. old[j].outcome # "PENDING" => old[j].at <= DecidedCount /\ old[j].at \in Nat
        BY <1>9, <1>10, <3>1, DatesAre DEF StoryTold, TrailDated
      <4> QED
        BY <1>1, <1>3, <4>1, <4>2
    <3>2. CASE j \in (last + 1) .. (last + count)
      <4>1. new[j].to = to /\ new[j].at = DecidedCount + (j - last)
        BY <1>11, <3>2
      <4> QED
        BY <1>1, <1>3, <1>10, <3>2, <4>1
    <3> QED
      BY <1>3, <1>10, <3>1, <3>2
  <2> QED
    BY <1>9, <1>12, <2>1 DEF TrailDated
<1>14. ASSUME NEW g \in Shg PROVE Undecided(g)' = Undecided(g)
  <2>1. \A j : j \in Undecided(g)' <=> j \in Undecided(g)
    <3>1. /\ \A j : j \in Undecided(g)' <=> j \in DOMAIN new /\ new[j].group = g /\ new[j].outcome = "PENDING"
          /\ \A j : j \in Undecided(g) <=> j \in DOMAIN old /\ old[j].group = g /\ old[j].outcome = "PENDING"
      BY <1>9, <1>10 DEF Undecided, TrailIndex
    <3>2. \A j \in DOMAIN new : j \in 1 .. last \/ j \in (last + 1) .. (last + count)
      BY <1>3, <1>10
    <3>3. \A j \in DOMAIN old : j \in DOMAIN new /\ new[j] = old[j]
      BY <1>3, <1>10
    <3> QED
      BY <1>10, <1>11, <3>1, <3>2, <3>3
  <2> QED
    BY <2>1 DEF Undecided
<1>15. ASSUME NEW g \in Shg PROVE Told(g)'
  <2>1. Told(g) /\ TrailDated
    BY DEF StoryTold
  <2>2. /\ \A j : j \in Promotions(g)' <=> j \in DOMAIN new /\ new[j].group = g /\ new[j].outcome = "APPROVED"
        /\ \A j : j \in Promotions(g) <=> j \in DOMAIN old /\ old[j].group = g /\ old[j].outcome = "APPROVED"
    BY <1>9, <1>10 DEF Promotions, TrailIndex
  <2>3. \A j \in DOMAIN new : j \in 1 .. last \/ j \in (last + 1) .. (last + count)
    BY <1>3, <1>10
  <2>4. \A j \in DOMAIN old : j \in DOMAIN new /\ new[j] = old[j]
    BY <1>3, <1>10
  <2>5. CASE g \in groups
    <3>1. shg'[g].phase = to
      BY <2>5 DEF Rephased
    <3>2. PICK n \in 1 .. count : order[n] = g
      BY <1>3, <2>5
    <3>3. PICK k : k = last + n
      OBVIOUS
    <3>4. /\ k \in Promotions(g)' /\ new[k].at = DecidedCount + n
          /\ n > 0 /\ n \in Nat
      <4>1. new[k] = added[n] /\ k \in DOMAIN new /\ n > 0 /\ n \in Nat
        BY <1>3, <1>10, <3>3
      <4>2. added[n].group = g /\ added[n].outcome = "APPROVED" /\ added[n].at = DecidedCount + n
        BY <1>6, <3>2
      <4> QED
        BY <2>2, <4>1, <4>2
    <3>5. ASSUME NEW i \in Promotions(g)', \A j \in Promotions(g)' : new[j].at <= new[i].at
          PROVE  new[i].to = to
      <4>1. SUFFICES ASSUME i \in 1 .. last PROVE FALSE
        BY <1>11, <2>2, <2>3
      <4>2. i \in DOMAIN trail /\ new[i] = old[i] /\ old[i].outcome = "APPROVED"
        BY <1>9, <1>10, <2>2, <4>1
      <4>3. old[i].at <= DecidedCount /\ old[i].at \in Nat
        BY <1>9, <2>1, <4>2, DatesAre DEF TrailDated
      <4>4. new[k].at <= old[i].at
        BY <3>4, <3>5, <4>2
      <4> QED
        BY <1>1, <3>4, <4>3, <4>4
    <3> QED
      BY <1>9, <1>14, <2>1, <3>1, <3>5 DEF Told
  <2>6. CASE g \notin groups
    <3>1. shg'[g] = shg[g]
      BY <2>6 DEF Rephased
    <3>2. \A j : j \in Promotions(g)' <=> j \in Promotions(g)
      BY <1>10, <1>11, <2>2, <2>3, <2>4, <2>6
    <3>3. \A j \in Promotions(g) : new[j] = old[j]
      BY <2>2, <2>4
    <3>4. (\E j \in DOMAIN new : new[j].group = g) => shg[g].phase > 0
      <4>1. ASSUME NEW j \in DOMAIN new, new[j].group = g PROVE j \in DOMAIN old /\ old[j].group = g
        BY <1>10, <1>11, <2>3, <2>6, <4>1
      <4>2. (\E j \in DOMAIN old : old[j].group = g) => shg[g].phase > 0
        BY <1>9, <2>1 DEF Told
      <4> QED
        BY <4>1, <4>2
    <3>5. \A i \in Promotions(g)' : (\A j \in Promotions(g)' : new[j].at <= new[i].at)
                                       => new[i].to = shg'[g].phase
      BY <1>9, <2>1, <3>1, <3>2, <3>3 DEF Told
    <3> QED
      BY <1>9, <1>14, <2>1, <3>1, <3>4, <3>5 DEF Told
  <2> QED
    BY <2>5, <2>6
<1> QED
  BY <1>13, <1>14, <1>15


LEMMA ApprovalTells ==
    ASSUME LifeSound, LifeSound', AssemblyTypes, StoryTold, NEW o \in Officer, NEW c \in ClaId,
           ApproveFormation(o, c)
    PROVE  StoryTold'
<1>1. PICK groups, by : groups = formation.included /\ by = formation.by
  OBVIOUS
<1>2. groups \in SUBSET Shg /\ by \in Officer \cup {Nobody} /\ 3 \in Phase
  BY <1>1 DEF AssemblyTypes, FormationRow, Phase
<1>3. Signed(groups, 3, by, o)
  BY <1>1 DEF ApproveFormation, Signed
<1>4. /\ shg' = [g \in Shg |-> IF g \in groups THEN [shg[g] EXCEPT !.phase = 3] ELSE shg[g]]
      /\ task' = task /\ \A g \in groups : shg[g].status \in operating
  BY <1>1 DEF ApproveFormation
<1>5. \A g \in Shg : shg[g] \in GroupRow
  BY DEF LifeSound
<1>6. /\ \A g \in groups : shg'[g].phase = 3
      /\ \A g \in Shg : g \notin groups => shg'[g] = shg[g]
  BY <1>2, <1>4, <1>5 DEF GroupRow
<1>7. TrailDated' /\ \A g \in Shg : Told(g)' /\ Undecided(g)' = Undecided(g)
  <2>1. Rephased(groups, 3)
    BY <1>6 DEF Rephased
  <2> QED
    BY <1>2, <1>3, <2>1, SignedTells
<1>8. ASSUME NEW p \in Officer PROVE Awaits(task[p])'
  <2>1. PICK t : t = task[p]
    OBVIOUS
  <2>2. Awaits(t) /\ TaskFits(t)
    BY <2>1 DEF StoryTold, LifeSound
  <2>3. t.op = "submit" => Undecided(t.group)' = {} /\ shg'[t.group].phase > 0
    BY <1>6, <1>7, <2>2 DEF Awaits, TaskFits
  <2>4. t.op = "activate" =>
           /\ t.group \in Shg
           /\ t.copy.status = "CONSTITUTED" => shg'[t.group].status = "CONSTITUTED"
    BY <1>4, <1>6, <2>2 DEF Awaits, operating
  <2>5. Awaits(t)'
    BY <2>2, <2>3, <2>4 DEF Awaits
  <2> QED
    BY <1>4, <2>1, <2>5
<1>9. OneBusy'
  BY <1>4 DEF StoryTold, OneBusy
<1> QED
  BY <1>7, <1>8, <1>9 DEF StoryTold

LEMMA DemotionTells ==
    ASSUME LifeSound, LifeSound', StoryTold, Quiet, NEW op, Allowed(op), NEW groups \in SUBSET Shg,
           NEW o \in Officer, Demoted(groups, o), task' = task
    PROVE  StoryTold'
<1>1. PICK falling : falling = {g \in groups : shg[g].phase = 3}
  OBVIOUS
<1>2. falling \in SUBSET Shg /\ 2 \in Phase /\ Nobody \in Officer \cup {Nobody}
  BY <1>1 DEF Phase
<1>3. Signed(falling, 2, Nobody, o)
  BY <1>1 DEF Demoted, Signed
<1>4. shg' = [g \in Shg |-> IF g \in falling THEN [shg[g] EXCEPT !.phase = 2] ELSE shg[g]]
  BY <1>1 DEF Demoted
<1>5. \A g \in Shg : shg[g] \in GroupRow
  BY DEF LifeSound
<1>6. /\ \A g \in falling : shg'[g].phase = 2
      /\ \A g \in Shg : g \notin falling => shg'[g] = shg[g]
  BY <1>2, <1>4, <1>5 DEF GroupRow
<1>7. TrailDated' /\ \A g \in Shg : Told(g)' /\ Undecided(g)' = Undecided(g)
  <2>1. Rephased(falling, 2)
    BY <1>6 DEF Rephased
  <2> QED
    BY <1>2, <1>3, <2>1, SignedTells
<1>8. OneBusy' /\ \A p \in Officer : Awaits(task[p])'
  BY NoneBusy, IdleAwaits
<1> QED
  BY <1>7, <1>8 DEF StoryTold

\* The rows a request works on stay.
LEMMA StorySame ==
    ASSUME StoryTold, UNCHANGED lifeVars
    PROVE  StoryTold'
<1>1. UNCHANGED <<shg, trail, task>>
  BY DEF lifeVars
<1>2. ASSUME NEW p \in Officer PROVE Awaits(task[p])'
  <2>1. PICK t : t = task[p]
    OBVIOUS
  <2>2. Awaits(t)
    BY <2>1 DEF StoryTold
  <2>3. Awaits(t)'
    BY <1>1, <2>2 DEF Awaits, Undecided, TrailIndex
  <2> QED
    BY <1>1, <2>1, <2>3
<1>3. \A g \in Shg : Told(g)'
  BY <1>1 DEF StoryTold, Told, Undecided, Promotions, TrailIndex
<1>4. TrailDated' /\ OneBusy'
  BY <1>1 DEF StoryTold, TrailDated, OneBusy, DecidedCount, TrailIndex
<1> QED
  BY <1>2, <1>3, <1>4 DEF StoryTold

LEMMA AssemblyTells ==
    ASSUME LifeSound, AssemblyTypes, StoryTold, Quiet, AssemblyStep
    PROVE  StoryTold'
<1>1. LifeSound'
  BY AssemblyKeepsLife
<1>2. CASE FormationMoves
  BY <1>2, StorySame
  DEF FormationMoves, OpenFormation, ExcludeCandidate, RecordDelegates, SubmitFormation,
      ReturnFormation, ExpireFormation
<1>3. ASSUME NEW o \in Officer, NEW c \in ClaId, ApproveFormation(o, c) PROVE StoryTold'
  BY <1>1, <1>3, ApprovalTells
<1>4. ASSUME NEW o \in Officer, NEW c \in ClaId, DissolveCla(o, c) PROVE StoryTold'
  <2>1. PICK groups : groups = {g \in Shg : c \in parent[g]}
    OBVIOUS
  <2>2. Demoted(groups, o) /\ task' = task /\ Allowed("dissolve")
    BY <1>4, <2>1 DEF DissolveCla
  <2> QED
    BY <1>1, <2>1, <2>2, DemotionTells
<1>5. ASSUME NEW o \in Officer, NEW g \in Shg, WithdrawGroup(o, g) PROVE StoryTold'
  <2>1. PICK groups : groups = {g}
    OBVIOUS
  <2>2. Demoted(groups, o) /\ task' = task /\ Allowed("withdraw")
    BY <1>5, <2>1 DEF WithdrawGroup
  <2> QED
    BY <1>1, <2>1, <2>2, DemotionTells
<1>6. ASSUME NEW s \in Seat, NEW p \in Woman, RotateDelegate(s, p) PROVE StoryTold'
  BY <1>6, StorySame DEF RotateDelegate
<1> QED
  BY <1>2, <1>3, <1>4, <1>5, <1>6 DEF AssemblyStep, FormationMoves

\* With one request at a time and no copies saved, a group is in the phase its
\* last approval gave it, and waits for one decision at most.
THEOREM AssemblyTrail ==
    AssemblySpec => []TrailTells
<1> DEFINE Inv == LifeSound /\ AssemblyTypes /\ (Quiet => StoryTold)
<1>1. AssemblyInit => Inv
  <2>1. ASSUME AssemblyInit PROVE StoryTold
    <3>1. /\ shg = [g \in Shg |-> IF Begun(g) THEN [status |-> "ACTIVE", phase |-> 1] ELSE NoGroup]
          /\ trail = <<>> /\ task = [o \in Officer |-> NoTask]
      BY <2>1 DEF AssemblyInit, LifeInit
    <3>2. ASSUME NEW g \in Shg PROVE Told(g)
      <4>1. shg[g].status \in operating => shg[g].phase > 0
        BY <3>1 DEF NoGroup, operating
      <4>2. TrailIndex = {} /\ DOMAIN trail = {}
        BY <3>1 DEF TrailIndex
      <4> QED
        BY <4>1, <4>2 DEF Told, Undecided, Promotions
    <3>3. TrailDated /\ OneBusy
      BY <3>1 DEF TrailDated, OneBusy
    <3>4. \A o \in Officer : Awaits(task[o])
      BY <3>1, NoTaskAwaits
    <3> QED
      BY <3>2, <3>3, <3>4 DEF StoryTold
  <2> QED
    BY <2>1, AssemblyStarts
<1>2. ASSUME Inv, [AssemblyNext]_<<lifeVars, assemblyVars>> PROVE Inv'
  <2>1. LifeSound' /\ AssemblyTypes' /\ season' = season
    BY <1>2, AssemblyMoves
  <2>2. ASSUME Quiet, StoryTold PROVE StoryTold'
    <3>1. CASE AssemblyStep
      BY <1>2, <2>2, <3>1, AssemblyTells
    <3>2. CASE LifeNext
      BY <1>2, <2>2, <3>2, GroupTells, FormationTells, PhaseTells DEF LifeNext
    <3>3. CASE UNCHANGED <<lifeVars, assemblyVars>>
      BY <2>2, <3>3, StorySame
    <3> QED
      BY <1>2, <3>1, <3>2, <3>3 DEF AssemblyNext
  <2>3. Quiet' = Quiet
    BY <2>1 DEF Quiet
  <2> QED
    BY <1>2, <2>1, <2>2, <2>3
<1>3. Inv => TrailTells
  <2> SUFFICES ASSUME LifeSound, StoryTold, NEW g \in Shg
               PROVE  /\ Cardinality(Undecided(g)) <= 1
                      /\ \A i \in Promotions(g) :
                            (\A j \in Promotions(g) : trail[j].at <= trail[i].at)
                               => trail[i].to = shg[g].phase
    BY DEF TrailTells, Quiet
  <2>1. Told(g)
    BY DEF StoryTold
  <2>2. PICK waiting : waiting = Undecided(g)
    OBVIOUS
  <2>3. waiting = {} \/ \E i : waiting = {i}
    BY <2>1, <2>2 DEF Told
  <2>4. Cardinality(waiting) <= 1
    <3>1. CASE waiting = {}
      <4>1. Cardinality(waiting) = 0
        BY <3>1, FS_EmptySet
      <4> QED
        BY <4>1
    <3>2. ASSUME NEW i, waiting = {i} PROVE Cardinality(waiting) <= 1
      <4>1. Cardinality(waiting) = 1
        BY <3>2, FS_Singleton
      <4> QED
        BY <4>1
    <3> QED
      BY <2>3, <3>1, <3>2
  <2> QED
    BY <2>1, <2>2, <2>4 DEF Told
<1> QED
  BY <1>1, <1>2, <1>3, PTL DEF AssemblySpec
=============================================================================
