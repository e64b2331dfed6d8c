------------------------------ MODULE Casework ------------------------------
(***************************************************************************)
(* One youth's case: its status, what is to be done next and its pathway.  *)
(* apps/cases (models, serializers, views).                                *)
(*                                                                         *)
(* Only the revision of a pathway is a transaction: what else a request    *)
(* writes it writes statement by statement, and each is a step here.       *)
(* Reassignment and PATCH save every column of the copy they loaded.       *)
(*                                                                         *)
(* Left out: profiling, activity dates, owners, notes of other kinds; the  *)
(* open statuses a manager sets by hand are one, "ACTIVE".  The other      *)
(* cases are only where an assignment may go to or come back from.         *)
(***************************************************************************)
EXTENDS Integers, FiniteSets

CONSTANTS
    Worker,      \* whoever works the case; each runs one request at a time
    Body,        \* texts of a next action
    ActionCap,   \* bound: rows of CaseAction
    PathwayCap,  \* bound: rows of PathwayAssignment
    Shifts       \* the instances a run covers, see Shift

\* What a request may be for; the second line's are those of module Placement.
CaseOps == {"edit", "clear", "assign", "note", "resolve", "amend",
            "choose", "revise", "reword", "move", "place", "answer", "leave", "correct"}

ActionId == 1 .. ActionCap
PathwayId == 1 .. PathwayCap

CaseRow == [ status : {"ACTIVE", "PLACED", "EXITED"}, closed : BOOLEAN,  \* closed_date is set
             next : Body \cup {""},                                       \* next_action
             pathway : 0 .. PathwayCap ]                                  \* current_pathway_assignment

\* Case.clean, which the serializer runs on a copy with its changes.
CleanCase(row) == row.status = "EXITED" <=> row.closed

\* A case as create saves it: with whatever status and next action it was given.
Created == {row \in CaseRow : CleanCase(row) /\ row.pathway = 0}

\* Who works, how many requests run at once, which, whether workers die, and
\* what the case was created as.
Shift == [ on : SUBSET Worker, atOnce : Nat, does : SUBSET CaseOps, dies : BOOLEAN,
           opened : Created ]

ASSUME CaseworkAssumption ==
    /\ IsFiniteSet(Worker) /\ "" \notin Body
    /\ ActionCap \in Nat /\ PathwayCap \in Nat
    /\ Shifts \subseteq Shift

VARIABLES
    case,     \* the row of Case
    act,      \* act[i]: the next actions, in the order they were made
    path,     \* path[i]: the pathway assignments, likewise
    job,      \* job[w]: the request w is in the middle of
    shift     \* chosen once

caseworkVars == <<case, act, path, job, shift>>

ActionRow == [ status : {"ABSENT", "OPEN", "DONE", "SUPERSEDED"}, body : Body \cup {""},
               resolved : BOOLEAN ]                            \* resolved_at is set
NoAction == [status |-> "ABSENT", body |-> "", resolved |-> FALSE]

PathwayRow == [ made : BOOLEAN, current : BOOLEAN, by : 0 .. PathwayCap,   \* superseded_by
                here : BOOLEAN ]                               \* its case is this one
NoPathway == [made |-> FALSE, current |-> FALSE, by |-> 0, here |-> TRUE]

NewCase == [status |-> "ACTIVE", closed |-> FALSE, next |-> "", pathway |-> 0]

Stage == {"begun", "superseding", "inserting", "syncing", "pointing",
          "opening", "marking", "answering"}

Job == [ op : CaseOps \cup {"none"}, stage : Stage, copy : CaseRow, body : Body \cup {""},
         id : 0 .. ActionCap + PathwayCap, action : ActionRow, assignment : PathwayRow ]

Idle == [ op |-> "none", stage |-> "begun", copy |-> NewCase, body |-> "", id |-> 0,
          action |-> NoAction, assignment |-> NoPathway ]

-----------------------------------------------------------------------------

CaseworkInit ==
    /\ shift \in Shifts
    /\ case = shift.opened
    /\ act = [i \in ActionId |-> NoAction]
    /\ path = [i \in PathwayId |-> NoPathway]
    /\ job = [w \in Worker |-> Idle]

Starts(w, op) ==
    /\ job[w] = Idle
    /\ Cardinality({v \in Worker : job[v] # Idle}) < shift.atOnce
    /\ w \in shift.on /\ op \in shift.does

Goes(w, stage) == job' = [job EXCEPT ![w].stage = stage]
Finishes(w) == job' = [job EXCEPT ![w] = Idle]

\* Slots are filled in order, so a higher number is a later row.
NextAction(i) == act[i] = NoAction /\ \A j \in ActionId : j < i => act[j] # NoAction
NextPathway(i) == path[i] = NoPathway /\ \A j \in PathwayId : j < i => path[j] # NoPathway

OpenActions == {i \in ActionId : act[i].status = "OPEN"}

\* The worker dies between two statements.
Die(w) ==
    /\ job[w] # Idle /\ shift.dies
    /\ Finishes(w)
    /\ UNCHANGED <<case, act, path, shift>>

-----------------------------------------------------------------------------
(* The case itself.                                                        *)

\* get_object.
LoadCase(w, op) ==
    /\ Starts(w, op) /\ op \in {"edit", "clear", "assign"}
    /\ job' = [job EXCEPT ![w] = [Idle EXCEPT !.op = op, !.copy = case]]
    /\ UNCHANGED <<case, act, path, shift>>

\* assign: the case manager, and every other column as it was loaded.
Assign(w) ==
    /\ job[w].op = "assign"
    /\ case' = job[w].copy
    /\ Finishes(w)
    /\ UNCHANGED <<act, path, shift>>

\* PATCH: validation, and the copy saved with its changes.  A next action that
\* is given, and is not the one in the row, becomes an action of its own.
EditCase(w, status, closed, given) ==
    LET next == IF given = "" THEN job[w].copy.next ELSE given
        row == [job[w].copy EXCEPT !.status = status, !.closed = closed, !.next = next]
    IN  /\ job[w].op = "edit" /\ job[w].stage = "begun"
        /\ CleanCase(row)
        /\ case' = row
        /\ IF given \notin {"", case.next}
           THEN job' = [job EXCEPT ![w].stage = "superseding", ![w].body = given]
           ELSE Finishes(w)
        /\ UNCHANGED <<act, path, shift>>

\* PATCH with a blank next action: no action is closed.
ClearNext(w) ==
    /\ job[w].op = "clear"
    /\ CleanCase(job[w].copy)
    /\ case' = [job[w].copy EXCEPT !.next = ""]
    /\ Finishes(w)
    /\ UNCHANGED <<act, path, shift>>

-----------------------------------------------------------------------------
(* Next actions.                                                           *)

\* CaseActionSerializer.create, for an open next action.
BeginNote(w, body) ==
    /\ Starts(w, "note")
    /\ job' = [job EXCEPT ![w] = [Idle EXCEPT !.op = "note", !.stage = "superseding",
                                              !.body = body]]
    /\ UNCHANGED <<case, act, path, shift>>

\* Wrong: a new action leaves the open ones be.
NoneSuperseded(i) == FALSE

\* Which open actions a new one supersedes: all.
IsSuperseded(i) == i \in OpenActions

\* The update of perform_update and of create.
Supersede(w) ==
    /\ job[w].stage = "superseding"
    /\ act' = [i \in ActionId |->
                  IF IsSuperseded(i) THEN [act[i] EXCEPT !.status = "SUPERSEDED"] ELSE act[i]]
    /\ Goes(w, "inserting")
    /\ UNCHANGED <<case, path, shift>>

InsertAction(w, i) ==
    /\ job[w].stage = "inserting"
    /\ NextAction(i)
    /\ act' = [act EXCEPT ![i] = [status |-> "OPEN", body |-> job[w].body,
                                     resolved |-> FALSE]]
    /\ Goes(w, "syncing")
    /\ UNCHANGED <<case, path, shift>>

\* sync_case_summary: the text of the latest open action, or none.
Summary ==
    IF OpenActions = {} THEN ""
    ELSE act[CHOOSE i \in OpenActions : \A j \in OpenActions : j <= i].body

SyncSummary(w) ==
    /\ job[w].stage = "syncing"
    /\ case' = [case EXCEPT !.next = Summary]
    /\ Finishes(w)
    /\ UNCHANGED <<act, path, shift>>

LoadAction(w, op, i) ==
    /\ Starts(w, op) /\ op \in {"resolve", "amend"}
    /\ act[i] # NoAction
    /\ job' = [job EXCEPT ![w] = [Idle EXCEPT !.op = op, !.id = i, !.action = act[i]]]
    /\ UNCHANGED <<case, act, path, shift>>

Resolved(row) == [row EXCEPT !.status = "DONE", !.resolved = TRUE]

\* resolve, whatever the action's status was.
Resolve(w) ==
    /\ job[w].op = "resolve" /\ job[w].stage = "begun"
    /\ act' = [act EXCEPT ![job[w].id] = Resolved(@)]
    /\ Goes(w, "syncing")
    /\ UNCHANGED <<case, path, shift>>

\* CaseAction.clean.
CleanAction(row) ==
    /\ row.status = "DONE" => row.resolved
    /\ row.status = "OPEN" => ~row.resolved

\* PATCH of an action: its copy with another text or status.  The summary is not looked at.
AmendAction(w, body, status) ==
    /\ job[w].op = "amend"
    /\ LET row == [job[w].action EXCEPT !.status = status, !.body = body]
        IN  CleanAction(row) /\ act' = [act EXCEPT ![job[w].id] = row]
    /\ Finishes(w)
    /\ UNCHANGED <<case, path, shift>>

-----------------------------------------------------------------------------
(* Pathways.                                                               *)

Current == {i \in PathwayId : path[i].current /\ path[i].here}

\* Wrong: there is no such index.
NoIndex(rows) == TRUE

\* one_current_pathway_per_case, a unique index.
OneCurrent(rows) == Cardinality({i \in PathwayId : rows[i].current /\ rows[i].here}) <= 1

\* validate_case of the first assignment: there is no current pathway yet.
BeginChoose(w) ==
    /\ Starts(w, "choose")
    /\ Current = {}
    /\ job' = [job EXCEPT ![w] = [Idle EXCEPT !.op = "choose"]]
    /\ UNCHANGED <<case, act, path, shift>>

\* The insert, and in a statement of its own the case's pointer.
ChoosePathway(w, i) ==
    LET rows == [path EXCEPT ![i] = [NoPathway EXCEPT !.made = TRUE, !.current = TRUE]]
    IN  /\ job[w].op = "choose" /\ job[w].stage = "begun"
        /\ NextPathway(i) /\ OneCurrent(rows)
        /\ path' = rows
        /\ job' = [job EXCEPT ![w].stage = "pointing", ![w].id = i]
        /\ UNCHANGED <<case, act, shift>>

PointCase(w) ==
    /\ job[w].stage = "pointing"
    /\ case' = [case EXCEPT !.pathway = job[w].id]
    /\ Finishes(w)
    /\ UNCHANGED <<act, path, shift>>

\* get_object.  An assignment that is to go to this case finds it without a
\* current one, which is all validate_case asks.
LoadPathway(w, op, i) ==
    /\ Starts(w, op) /\ op \in {"revise", "reword", "move"}
    /\ path[i] # NoPathway
    /\ op = "move" /\ ~path[i].here => Current = {}
    /\ job' = [job EXCEPT ![w] = [Idle EXCEPT !.op = op, !.id = i, !.assignment = path[i]]]
    /\ UNCHANGED <<case, act, path, shift>>

\* PATCH of an assignment: all columns of the copy, is_current too.
RewordPathway(w) ==
    LET rows == [path EXCEPT ![job[w].id] = job[w].assignment]
    IN  /\ job[w].op = "reword"
        /\ OneCurrent(rows)
        /\ path' = rows
        /\ Finishes(w)
        /\ UNCHANGED <<case, act, shift>>

\* PATCH of its case: the assignment goes to another case that has no current
\* one, or comes back from there; neither case's pointer is looked at.
MovePathway(w) ==
    LET copy == job[w].assignment
        rows == [path EXCEPT ![job[w].id] = [copy EXCEPT !.here = ~copy.here]]
    IN  /\ job[w].op = "move"
        /\ OneCurrent(rows)
        /\ path' = rows
        /\ Finishes(w)
        /\ UNCHANGED <<case, act, shift>>

\* revise: in one transaction the assignment stands down and its replacement
\* takes its place in the index and in the case, which is the one it was loaded with.
Revise(w, i) ==
    LET copy == job[w].assignment
        rows == [path EXCEPT ![job[w].id] = [@ EXCEPT !.current = FALSE, !.by = i],
                             ![i] = [NoPathway EXCEPT !.made = TRUE, !.current = TRUE,
                                                      !.here = copy.here]]
    IN  /\ job[w].op = "revise"
        /\ copy.current
        /\ NextPathway(i) /\ OneCurrent(rows)
        /\ path' = rows
        /\ case' = [case EXCEPT !.pathway = IF copy.here THEN i ELSE @]
        /\ Finishes(w)
        /\ UNCHANGED <<act, shift>>

\* What a request goes on with until it has answered.
CaseStep(w) ==
    \/ Die(w)
    \/ Assign(w) \/ ClearNext(w)
    \/ \E s \in {"ACTIVE", "PLACED", "EXITED"}, closed \in BOOLEAN, given \in Body \cup {""} :
          EditCase(w, s, closed, given)
    \/ Supersede(w) \/ SyncSummary(w) \/ Resolve(w)
    \/ \E i \in ActionId : InsertAction(w, i)
    \/ \E b \in Body, s \in {"OPEN", "DONE", "SUPERSEDED"} : AmendAction(w, b, s)
    \/ PointCase(w) \/ RewordPathway(w) \/ MovePathway(w)
    \/ \E i \in PathwayId : ChoosePathway(w, i) \/ Revise(w, i)

CaseStart(w) ==
    \/ \E op \in CaseOps : LoadCase(w, op)
    \/ \E b \in Body : BeginNote(w, b)
    \/ \E op \in CaseOps, i \in ActionId : LoadAction(w, op, i)
    \/ BeginChoose(w)
    \/ \E op \in CaseOps, i \in PathwayId : LoadPathway(w, op, i)

CaseworkNext == \E w \in Worker : CaseStart(w) \/ CaseStep(w)

CaseworkSpec == CaseworkInit /\ [][CaseworkNext]_caseworkVars

-----------------------------------------------------------------------------
(* Properties.                                                             *)

\* Rows and requests are well formed, and every row is one that its own
\* validation would accept, though what supersedes an action or saves an old
\* copy never asks it; a placement may break the case's.
CaseworkTypeOK ==
    /\ case \in CaseRow
    /\ act \in [ActionId -> {row \in ActionRow : CleanAction(row)}]
    /\ path \in [PathwayId -> PathwayRow]
    /\ job \in [Worker -> Job]
    /\ shift \in Shifts
    /\ "place" \notin shift.does => CleanCase(case)

\* Whatever overlaps and whoever dies, a case never has two current pathways;
\* and unless an assignment is sent to another case, one that has a pathway has
\* a current one, and every other names the one that took its place.
PathwayChain ==
    LET made == {i \in PathwayId : path[i].made}
    IN  /\ Cardinality(Current) <= 1
        /\ "move" \notin shift.does =>
              /\ made # {} => Current # {}
              /\ \A i \in made \ Current : path[i].by \in made /\ path[i].by > i
              /\ \A i, j \in made \ Current : path[i].by = path[j].by => i = j

AtRest == \A w \in Worker : job[w] = Idle

\* What the case shows as next: its latest open action, or what it was created
\* with, of which create makes no action, until a first one is made.
ShowsNext ==
    \/ case.next = Summary
    \/ case.next = shift.opened.next /\ \A i \in ActionId : act[i] = NoAction

\* With one request at a time and none that dies, a case at rest shows its
\* current pathway as its pathway, unless an assignment changed cases; and the
\* only open action as its next, or what it was created with while none was
\* made, unless someone cleared the summary or rewrote an action behind it.
SummaryFollows ==
    (AtRest /\ shift.atOnce = 1 /\ ~shift.dies) =>
        /\ "move" \notin shift.does => Current = {case.pathway} \ {0}
        /\ {"clear", "amend"} \cap shift.does = {} =>
              ShowsNext /\ Cardinality(OpenActions) <= 1
=============================================================================
