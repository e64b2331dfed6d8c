----------------------------- MODULE GroupLife -----------------------------
(***************************************************************************)
(* The life of a savings group: its roster and officers, the steps from    *)
(* draft to active, and the phases it is promoted through.                 *)
(* apps/wlt/services/formation.py and phase.py, their views and nightly    *)
(* jobs.                                                                   *)
(*                                                                         *)
(* A request loads the rows it works on, tests those copies and writes     *)
(* some columns; the two are separate steps here.  PATCH of a group saves  *)
(* every column of its copy.  Whether a gate of a phase passes, or a reason *)
(* overrides it, is left open, and so is when a draft is old enough to     *)
(* expire.                                                                 *)
(*                                                                         *)
(* Left out: mobilisation, warnings and their overrides, the regional      *)
(* allocation, bylaw versions after the first, a member's loans.           *)
(***************************************************************************)
EXTENDS Integers, Sequences, FiniteSets

CONSTANTS
    Shg,         \* self help groups
    Woman,       \* verified and eligible women
    Founder,     \* Founder[g]: the first of them in g when it starts active
    Office,      \* the offices a group has to fill, three in the code
    Officer,     \* who works with the groups; each runs one request at a time
    Approver,    \* those of them whose role approves transitions
    HardMin,     \* group.size.hard_min
    HardMax,     \* group.size.hard_max
    Nobody,
    TrailCap,    \* bound: rows of PhaseEvent
    Seasons      \* the instances a run covers, see Season

\* What a request may be for; those from "form" on are of module Assembly.
LifeOps == {"add", "exit", "record", "constitute", "activate", "edit", "assess", "expire",
            "submit", "approve", "reject", "form", "withdraw", "dissolve", "rotate", "reseat"}

\* Which groups there are, whether they are active from the start, how many
\* requests run at once, and which.
Season == [groups : SUBSET Shg, active : BOOLEAN, atOnce : Nat, does : SUBSET LifeOps]

ASSUME GroupLifeAssumption ==
    /\ IsFiniteSet(Officer) /\ IsFiniteSet(Shg) /\ IsFiniteSet(Woman)
    /\ Approver \subseteq Officer
    /\ Founder \in [Shg -> Woman]
    /\ Nobody \notin Shg \cup Woman \cup Officer
    /\ HardMin \in Nat /\ HardMax \in Nat /\ TrailCap \in Nat
    /\ Seasons \subseteq Season

VARIABLES
    shg,      \* shg[g]: the row of Group
    books,    \* books[g]: whether its bylaws and a closed meeting are on record
    roster,   \* roster[g]: the women with an open membership
    office,   \* office[g][r]: who holds office r
    trail,    \* the phase events, in the order they were made
    task,     \* task[o]: the request o is in the middle of
    season    \* chosen once

lifeVars == <<shg, books, roster, office, trail, task, season>>

Phase == 0 .. 4     \* 0: none yet
GroupStatus == {"ABSENT", "DRAFT", "CONSTITUTED", "ACTIVE", "AT_RISK", "ABANDONED"}
operating == {"ACTIVE", "AT_RISK"}     \* a dormant group is AT_RISK here

GroupRow == [status : GroupStatus, phase : Phase]
NoGroup == [status |-> "ABSENT", phase |-> 0]

\* at: its place among the decided ones, by decided_at.
PhaseEvent == [ group : Shg, to : Phase, by : Officer \cup {Nobody}, decider : Officer \cup {Nobody},
                outcome : {"PENDING", "APPROVED", "REJECTED"},
                at : 0 .. TrailCap ]

NoTask == [op |-> "none", group |-> Nobody, copy |-> NoGroup, woman |-> Nobody, event |-> 0,
           todo |-> {}]

Begun(g) == season.active /\ g \in season.groups

LifeInit ==
    /\ season \in Seasons
    /\ shg = [g \in Shg |-> IF Begun(g) THEN [status |-> "ACTIVE", phase |-> 1] ELSE NoGroup]
    /\ books = [g \in Shg |-> IF Begun(g) THEN {"bylaws", "meeting"} ELSE {}]
    /\ roster = [g \in Shg |-> IF Begun(g) THEN {Founder[g]} ELSE {}]
    /\ office = [g \in Shg |-> [r \in Office |-> IF Begun(g) THEN Founder[g] ELSE Nobody]]
    /\ trail = <<>>
    /\ task = [o \in Officer |-> NoTask]

AtWork == {o \in Officer : task[o] # NoTask}

Allowed(op) == op \in season.does /\ Cardinality(AtWork) < season.atOnce

Takes(o, op, g) ==
    /\ Allowed(op) /\ task[o] = NoTask
    /\ task' = [task EXCEPT ![o] = [NoTask EXCEPT !.op = op, !.group = g, !.copy = shg[g]]]

Leaves(o) == task' = [task EXCEPT ![o] = NoTask]

\* Wrong: a phase beside any status.
AnyBearing(row) == TRUE

\* wlt_phase_only_when_operating, a check constraint.
Bearing(row) == row.phase = 0 \/ row.status \in operating

\* A write of the columns of a group that the constraint lets through.
Saves(g, row) == Bearing(row) /\ shg' = [shg EXCEPT ![g] = row]

\* A refusal, or an error that rolls the request back.
Refuse(o) ==
    /\ task[o] # NoTask /\ Leaves(o)
    /\ UNCHANGED <<shg, books, roster, office, trail, season>>

-----------------------------------------------------------------------------
(* Formation.                                                              *)

\* open_draft.
OpenDraft(g) ==
    /\ g \in season.groups /\ shg[g].status = "ABSENT"
    /\ shg' = [shg EXCEPT ![g].status = "DRAFT"]
    /\ UNCHANGED <<books, roster, office, trail, task, season>>

\* record_bylaws; and, in module GroupLedger, the close of a meeting.
KeepBooks(g, what) ==
    /\ Allowed("record")
    /\ shg[g].status # "ABSENT" /\ what \notin books[g]
    /\ what = "meeting" => shg[g].status \in {"CONSTITUTED"} \cup operating
    /\ books' = [books EXCEPT ![g] = @ \cup {what}]
    /\ UNCHANGED <<shg, roster, office, trail, task, season>>

InAGroup(p) == \E g \in Shg : p \in roster[g]

\* add_member up to the insert: she is in no group.  The group's status and
\* size are not asked.
BeginAdd(o, g, p) ==
    /\ shg[g].status # "ABSENT" /\ ~InAGroup(p)
    /\ Allowed("add") /\ task[o] = NoTask
    /\ task' = [task EXCEPT ![o] = [NoTask EXCEPT !.op = "add", !.group = g, !.woman = p]]
    /\ UNCHANGED <<shg, books, roster, office, trail, season>>

\* The insert, under wlt_membership_one_open_per_person.
AddMember(o) ==
    /\ task[o].op = "add"
    /\ ~InAGroup(task[o].woman)
    /\ roster' = [roster EXCEPT ![task[o].group] = @ \cup {task[o].woman}]
    /\ Leaves(o)
    /\ UNCHANGED <<shg, books, office, trail, season>>

\* exit_member.  An office she holds stays hers.
ExitMember(g, p) ==
    /\ Allowed("exit")
    /\ p \in roster[g]
    /\ roster' = [roster EXCEPT ![g] = @ \ {p}]
    /\ UNCHANGED <<shg, books, office, trail, task, season>>

\* elect_officer, of a current member.
ElectOfficer(g, r, p) ==
    /\ Allowed("record")
    /\ p \in roster[g] /\ office[g][r] # p
    /\ office' = [office EXCEPT ![g][r] = p]
    /\ UNCHANGED <<shg, books, roster, trail, task, season>>

\* get_object of a group.
LoadGroup(o, op, g) ==
    /\ op \in {"constitute", "activate", "edit"}
    /\ shg[g].status # "ABSENT"
    /\ Takes(o, op, g)
    /\ UNCHANGED <<shg, books, roster, office, trail, season>>

\* The blocking findings of validate_roster; that its women are in no other
\* group is the index's doing.
SizeAllowed(g) == Cardinality(roster[g]) \in HardMin .. HardMax

OfficesFilled(g) == \A r \in Office : office[g][r] # Nobody

Constitute(o) ==
    LET g == task[o].group
    IN  /\ task[o].op = "constitute"
        /\ task[o].copy.status = "DRAFT"
        /\ SizeAllowed(g) /\ OfficesFilled(g) /\ "bylaws" \in books[g]
        /\ Saves(g, [shg[g] EXCEPT !.status = "CONSTITUTED"])
        /\ Leaves(o)
        /\ UNCHANGED <<books, roster, office, trail, season>>

\* activate, through the gate forming_to_p1.
ActivateGroup(o) ==
    LET g == task[o].group
    IN  /\ task[o].op = "activate"
        /\ task[o].copy.status = "CONSTITUTED"
        /\ SizeAllowed(g) /\ OfficesFilled(g) /\ books[g] = {"bylaws", "meeting"}
        /\ Saves(g, [status |-> "ACTIVE", phase |-> 1])
        /\ Leaves(o)
        /\ UNCHANGED <<books, roster, office, trail, season>>

\* PATCH of a group, of its name say.
EditGroup(o) ==
    /\ task[o].op = "edit"
    /\ Saves(task[o].group, task[o].copy)
    /\ Leaves(o)
    /\ UNCHANGED <<books, roster, office, trail, season>>

-----------------------------------------------------------------------------
(* The nightly jobs.                                                       *)

\* expire_stale_drafts reads which groups are due, first the drafts, then the
\* constituted groups.
BeginExpiry(o, due) ==
    /\ Allowed("expire") /\ task[o] = NoTask
    /\ due # {}
    /\ \E status \in {"DRAFT", "CONSTITUTED"} :
          /\ \A g \in due : shg[g].status = status
          /\ task' = [task EXCEPT ![o] = [NoTask EXCEPT !.op = "expire", !.todo = due,
                                             !.copy = [NoGroup EXCEPT !.status = status]]]
    /\ UNCHANGED <<shg, books, roster, office, trail, season>>

\* One of them: a draft's memberships close, in a statement of its own.
CloseRoster(o, g) ==
    /\ task[o].op = "expire" /\ g \in task[o].todo /\ task[o].group = Nobody
    /\ roster' = IF task[o].copy.status = "DRAFT" THEN [roster EXCEPT ![g] = {}] ELSE roster
    /\ task' = [task EXCEPT ![o].group = g, ![o].todo = @ \ {g}]
    /\ UNCHANGED <<shg, books, office, trail, season>>

Abandon(o) ==
    /\ task[o].op = "expire" /\ task[o].group # Nobody
    /\ Saves(task[o].group, [shg[task[o].group] EXCEPT !.status = "ABANDONED"])
    /\ IF task[o].todo = {} THEN Leaves(o) ELSE task' = [task EXCEPT ![o].group = Nobody]
    /\ UNCHANGED <<books, roster, office, trail, season>>

\* refresh_group_indicators, for what it does to the status.
Reassess(g, status) ==
    /\ Allowed("assess")
    /\ shg[g].status \in operating
    /\ status \in operating \ {shg[g].status}
    /\ shg' = [shg EXCEPT ![g].status = status]
    /\ UNCHANGED <<books, roster, office, trail, task, season>>

-----------------------------------------------------------------------------
(* Phases.                                                                 *)

TrailIndex == 1 .. Len(trail)
Undecided(g) == {i \in TrailIndex : trail[i].group = g /\ trail[i].outcome = "PENDING"}
DecidedCount == Cardinality({i \in TrailIndex : trail[i].outcome # "PENDING"})

NEXT_PHASE(phase) == phase + 1

\* phase.submit up to the insert.
BeginSubmit(o, g) ==
    /\ Allowed("submit") /\ task[o] = NoTask
    /\ shg[g].status \in operating
    /\ shg[g].phase < 4
    /\ Undecided(g) = {}
    /\ task' = [task EXCEPT ![o] = [NoTask EXCEPT !.op = "submit", !.group = g, !.copy = shg[g]]]
    /\ UNCHANGED <<shg, books, roster, office, trail, season>>

SubmitPhase(o) ==
    /\ task[o].op = "submit" /\ Len(trail) < TrailCap
    /\ trail' = Append(trail, [ group |-> task[o].group, to |-> NEXT_PHASE(task[o].copy.phase),
                                by |-> o, decider |-> Nobody,
                                outcome |-> "PENDING", at |-> 0 ])
    /\ Leaves(o)
    /\ UNCHANGED <<shg, books, roster, office, season>>

\* get_object of a phase event, its group with it, while it is undecided: later
\* it is refused.
LoadEvent(o, op, i) ==
    /\ Allowed(op) /\ op \in {"approve", "reject"} /\ task[o] = NoTask
    /\ trail[i].outcome = "PENDING"
    /\ task' = [task EXCEPT ![o] = [NoTask EXCEPT !.op = op, !.event = i,
                                    !.group = trail[i].group, !.copy = shg[trail[i].group]]]
    /\ UNCHANGED <<shg, books, roster, office, trail, season>>

\* The decision, which the trigger lets be written once.
Decides(o, outcome) ==
    LET e == trail[task[o].event]
    IN  /\ e.outcome = "PENDING"
        /\ e.by # o
        /\ trail' = [trail EXCEPT ![task[o].event].outcome = outcome,
                                     ![task[o].event].decider = o,
                                     ![task[o].event].at = DecidedCount + 1]

\* Wrong: one up from where the group is.
OneUp(o) == IF task[o].copy.phase < 4 THEN NEXT_PHASE(task[o].copy.phase) ELSE 4

\* The phase an approval gives: the one that was asked for.
Granted(o) == trail[task[o].event].to

\* phase.approve.
ApprovePhase(o) ==
    LET g == task[o].group
    IN  /\ task[o].op = "approve"
        /\ o \in Approver
        /\ Decides(o, "APPROVED")
        /\ Saves(g, [shg[g] EXCEPT !.phase = Granted(o)])
        /\ Leaves(o)
        /\ UNCHANGED <<books, roster, office, season>>

RejectPhase(o) ==
    /\ task[o].op = "reject"
    /\ Decides(o, "REJECTED")
    /\ Leaves(o)
    /\ UNCHANGED <<shg, books, roster, office, season>>

-----------------------------------------------------------------------------

FormationStep(o) ==
    \/ Refuse(o)
    \/ \E g \in Shg, p \in Woman : BeginAdd(o, g, p)
    \/ AddMember(o)
    \/ \E g \in Shg, op \in LifeOps : LoadGroup(o, op, g)
    \/ Constitute(o) \/ ActivateGroup(o) \/ EditGroup(o)
    \/ \E due \in SUBSET Shg : BeginExpiry(o, due)
    \/ \E g \in Shg : CloseRoster(o, g)
    \/ Abandon(o)

PhaseStep(o) ==
    \/ \E g \in Shg : BeginSubmit(o, g)
    \/ SubmitPhase(o) \/ ApprovePhase(o) \/ RejectPhase(o)
    \/ \E i \in TrailIndex, op \in LifeOps : LoadEvent(o, op, i)

GroupStep(g) ==
    \/ OpenDraft(g)
    \/ \E what \in {"bylaws", "meeting"} : KeepBooks(g, what)
    \/ \E p \in Woman : ExitMember(g, p)
    \/ \E r \in Office, p \in Woman : ElectOfficer(g, r, p)
    \/ \E status \in operating : Reassess(g, status)

LifeNext ==
    \/ \E g \in Shg : GroupStep(g)
    \/ \E o \in Officer : FormationStep(o) \/ PhaseStep(o)

LifeSpec == LifeInit /\ [][LifeNext]_lifeVars

-----------------------------------------------------------------------------
(* Properties.                                                             *)

Promotions(g) == {i \in TrailIndex : trail[i].group = g /\ trail[i].outcome = "APPROVED"}

\* However requests and jobs overlap and whatever old copies are saved, a group
\* in a phase is an operating one, and one beyond the first phase has an
\* approval of that very phase by someone who did not ask for it.
PhaseIsEarned ==
    \A g \in Shg :
        /\ shg[g].phase > 0 => shg[g].status \in operating
        /\ shg[g].phase > 1 => \E i \in Promotions(g) :
                                  /\ trail[i].to = shg[g].phase
                                  /\ trail[i].decider # trail[i].by

\* With one request at a time and no copies saved, the record of decisions
\* tells the whole story: a group is in the phase its last approval gave it,
\* and waits for one decision at most.
TrailTells ==
    (season.atOnce = 1 /\ "edit" \notin season.does) =>
        \A g \in Shg :
            /\ Cardinality(Undecided(g)) <= 1
            /\ \A i \in Promotions(g) :
                  (\A j \in Promotions(g) : trail[j].at <= trail[i].at) => trail[i].to = shg[g].phase
=============================================================================
