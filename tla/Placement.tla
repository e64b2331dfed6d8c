----------------------------- MODULE Placement -----------------------------
(***************************************************************************)
(* The placements of the case of module Casework and the checks at 30, 60  *)
(* and 90 days that follow each one up.  apps/placements.                  *)
(*                                                                         *)
(* The view records a placement statement by statement; an answer is one   *)
(* transaction, and so is an exit, but the exit reads which checks are     *)
(* pending before it writes them.  A correction saves the whole copy.      *)
(*                                                                         *)
(* Time is counted in checkpoints: an exit says how many the youth was in  *)
(* the placement for.  Left out: wages, contracts, subsidies, deletion.    *)
(***************************************************************************)
EXTENDS Casework

CONSTANTS
    PlacementCap,   \* bound: rows of Placement
    Checkpoints     \* how many there are, 3 in the code

ASSUME PlacementAssumption == PlacementCap \in Nat /\ Checkpoints \in Nat

VARIABLES
    placement,   \* placement[p]: the rows of Placement
    check,       \* check[p][k]: the status of the k-th check on p
    visit        \* visit[w]: what the request of w holds of them

placementVars == <<placement, check, visit>>

PlacementId == 1 .. PlacementCap
Checkpoint == 1 .. Checkpoints

\* exit_date set, and how many checkpoints lie between it and the start.
PlacementRow == [made : BOOLEAN, left : BOOLEAN, held : 0 .. Checkpoints]
NoPlacement == [made |-> FALSE, left |-> FALSE, held |-> 0]

CheckStatus == {"ABSENT", "PENDING", "RETAINED", "EXITED", "UNREACHABLE"}

Visit == [ placement : 0 .. PlacementCap, checkpoint : 0 .. Checkpoints + 1,
           row : PlacementRow, pending : SUBSET Checkpoint ]
NoVisit == [placement |-> 0, checkpoint |-> 0, row |-> NoPlacement, pending |-> {}]

PlacementInit ==
    /\ CaseworkInit
    /\ placement = [p \in PlacementId |-> NoPlacement]
    /\ check = [p \in PlacementId |-> [k \in Checkpoint |-> "ABSENT"]]
    /\ visit = [w \in Worker |-> NoVisit]

-----------------------------------------------------------------------------
(* Recording a placement.                                                  *)

\* The serializer takes the case from the referral, as it is then.
BeginPlace(w) ==
    /\ Starts(w, "place")
    /\ job' = [job EXCEPT ![w] = [Idle EXCEPT !.op = "place", !.copy = case]]
    /\ UNCHANGED <<case, act, path, shift, placement, check, visit>>

InsertPlacement(w, p) ==
    /\ job[w].op = "place" /\ job[w].stage = "begun"
    /\ placement[p] = NoPlacement /\ \A q \in PlacementId : q < p => placement[q].made
    /\ placement' = [placement EXCEPT ![p].made = TRUE]
    /\ visit' = [visit EXCEPT ![w].placement = p, ![w].checkpoint = 1]
    /\ Goes(w, "opening")
    /\ UNCHANGED <<case, act, path, shift, check>>

\* open_checkpoints: the rows one after the other.
OpenCheckpoint(w) ==
    LET v == visit[w]
    IN  /\ job[w].stage = "opening"
        /\ IF v.checkpoint > Checkpoints
           THEN Goes(w, "marking") /\ UNCHANGED <<check, visit>>
           ELSE /\ check' = [check EXCEPT ![v.placement][v.checkpoint] = "PENDING"]
                /\ visit' = [visit EXCEPT ![w].checkpoint = @ + 1]
                /\ UNCHANGED job
        /\ UNCHANGED <<case, act, path, shift, placement>>

\* _mark_case_placed, by the status the case had when it was loaded.  Whether
\* the case is exited is not asked, and its closing date stays.
MarkCasePlaced(w) ==
    /\ job[w].stage = "marking"
    /\ case' = IF job[w].copy.status = "PLACED" THEN case
                                               ELSE [case EXCEPT !.status = "PLACED"]
    /\ Finishes(w)
    /\ visit' = [visit EXCEPT ![w] = NoVisit]
    /\ UNCHANGED <<act, path, shift, placement, check>>

-----------------------------------------------------------------------------
(* Following it up.                                                        *)

\* get_object of a check, its placement with it.
LoadCheck(w, p, k) ==
    /\ Starts(w, "answer")
    /\ check[p][k] # "ABSENT"
    /\ job' = [job EXCEPT ![w] = [Idle EXCEPT !.op = "answer"]]
    /\ visit' = [visit EXCEPT ![w] = [NoVisit EXCEPT !.placement = p, !.checkpoint = k,
                                                     !.row = placement[p]]]
    /\ UNCHANGED <<case, act, path, shift, placement, check>>

\* record_check, over whatever answer there was.
RecordCheck(w, answer) ==
    LET v == visit[w]
    IN  /\ job[w].op = "answer"
        /\ answer = "EXITED" => v.row.left
        /\ check' = [check EXCEPT ![v.placement][v.checkpoint] = answer]
        /\ Finishes(w)
        /\ visit' = [visit EXCEPT ![w] = NoVisit]
        /\ UNCHANGED <<case, act, path, shift, placement>>

LoadPlacement(w, op, p) ==
    /\ Starts(w, op) /\ op \in {"leave", "correct"}
    /\ placement[p].made
    /\ job' = [job EXCEPT ![w] = [Idle EXCEPT !.op = op]]
    /\ visit' = [visit EXCEPT ![w] = [NoVisit EXCEPT !.placement = p, !.row = placement[p]]]
    /\ UNCHANGED <<case, act, path, shift, placement, check>>

\* An exit that has updated the row and not committed keeps others from it.
RowLocked(p) == \E v \in Worker : job[v].stage = "answering" /\ visit[v].placement = p

PendingChecks(p) == {k \in Checkpoint : check[p][k] = "PENDING"}

\* Wrong: only those that had fallen due by the exit.
DueChecks(p, held) == {k \in PendingChecks(p) : k <= held}

\* Which checks an exit answers: those still pending.
ChecksToAnswer(p, held) == PendingChecks(p)

\* record_exit, up to the loop over the pending checks.
BeginExit(w, held) ==
    LET v == visit[w]
    IN  /\ job[w].op = "leave" /\ job[w].stage = "begun"
        /\ ~v.row.left
        /\ ~RowLocked(v.placement)
        /\ visit' = [visit EXCEPT ![w].row = [v.row EXCEPT !.left = TRUE, !.held = held],
                                  ![w].pending = ChecksToAnswer(v.placement, held)]
        /\ Goes(w, "answering")
        /\ UNCHANGED <<case, act, path, shift, placement, check>>

\* The loop and the commit: held_at each checkpoint, or not.
CommitExit(w) ==
    LET v == visit[w]
        Answer(k) == IF k <= v.row.held THEN "RETAINED" ELSE "EXITED"
    IN  /\ job[w].stage = "answering"
        /\ placement' = [placement EXCEPT ![v.placement] = v.row]
        /\ check' = [check EXCEPT ![v.placement] =
                        [k \in Checkpoint |-> IF k \in v.pending THEN Answer(k) ELSE @[k]]]
        /\ Finishes(w)
        /\ visit' = [visit EXCEPT ![w] = NoVisit]
        /\ UNCHANGED <<case, act, path, shift>>

\* PATCH of a placement: the copy, its exit or the lack of one included.
CorrectPlacement(w) ==
    LET v == visit[w]
    IN  /\ job[w].op = "correct"
        /\ ~RowLocked(v.placement)
        /\ placement' = [placement EXCEPT ![v.placement] = v.row]
        /\ Finishes(w)
        /\ visit' = [visit EXCEPT ![w] = NoVisit]
        /\ UNCHANGED <<case, act, path, shift, check>>

\* A request of Casework, or the death of one: what it held is gone.
CaseworkStep ==
    /\ CaseworkNext
    /\ visit' = [w \in Worker |-> IF job'[w] = Idle THEN NoVisit ELSE visit[w]]
    /\ UNCHANGED <<placement, check>>

PlacementStep(w) ==
    \/ BeginPlace(w) \/ OpenCheckpoint(w) \/ MarkCasePlaced(w)
    \/ \E p \in PlacementId : InsertPlacement(w, p)
    \/ \E p \in PlacementId, k \in Checkpoint : LoadCheck(w, p, k)
    \/ \E answer \in {"RETAINED", "EXITED", "UNREACHABLE"} : RecordCheck(w, answer)
    \/ \E op \in CaseOps, p \in PlacementId : LoadPlacement(w, op, p)
    \/ \E held \in 0 .. Checkpoints : BeginExit(w, held)
    \/ CommitExit(w) \/ CorrectPlacement(w)

PlacementNext == CaseworkStep \/ \E w \in Worker : PlacementStep(w)

PlacementSpec == PlacementInit /\ [][PlacementNext]_<<caseworkVars, placementVars>>

-----------------------------------------------------------------------------
(* Properties.                                                             *)

\* Nobody falls out of the retention figures.  Unless a correction saves an old
\* copy, no check says the youth has left a placement that has no exit; if
\* requests do not overlap, no check stays open on a placement that has one;
\* and if none dies, a placement at rest has all its checks.
FollowedUp ==
    \A p \in PlacementId :
        /\ "correct" \notin shift.does /\ ~placement[p].left =>
              \A k \in Checkpoint : check[p][k] # "EXITED"
        /\ shift.atOnce = 1 /\ placement[p].left => PendingChecks(p) = {}
        /\ AtRest /\ ~shift.dies /\ placement[p].made =>
              \A k \in Checkpoint : check[p][k] # "ABSENT"
=============================================================================
