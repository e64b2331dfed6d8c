-------------------------- MODULE ReferralLifecycle --------------------------
(***************************************************************************)
(* What the referral engine promises about the life of a referral: the     *)
(* table of legal moves, and that a referral is Replaced in the same step  *)
(* in which the referral that replaces it comes to exist.                  *)
(*                                                                         *)
(* This is the abstract specification.  It knows nothing of requests, row  *)
(* locks or stale copies; ReferralEngine has all of them and is shown to   *)
(* implement it.                                                           *)
(***************************************************************************)

CONSTANTS
    Referral,   \* identities of referral rows
    None        \* the null reference, not a referral

VARIABLES
    status,       \* status[r]: the status column, or "ABSENT" before the row exists
    replacement   \* replacement[r]: the forward link to the replacing referral

lifecycleVars == <<status, replacement>>

Status ==
    {"ABSENT", "PENDING_CONFIRMATION", "ACTIVE", "COMPLETED",
     "FAILED", "REPLACED", "CANCELLED"}

\* The transition table.  COMPLETED, REPLACED and CANCELLED have no edge out.
Transitions ==
    { <<"PENDING_CONFIRMATION", "ACTIVE">>,
      <<"PENDING_CONFIRMATION", "FAILED">>,
      <<"PENDING_CONFIRMATION", "CANCELLED">>,
      <<"ACTIVE", "COMPLETED">>,
      <<"ACTIVE", "FAILED">>,
      <<"FAILED", "REPLACED">> }

-----------------------------------------------------------------------------

LifecycleInit ==
    /\ status = [r \in Referral |-> "ABSENT"]
    /\ replacement = [r \in Referral |-> None]

\* A referral starts its life waiting for the receiving partner.
Create(r) ==
    /\ status[r] = "ABSENT"
    /\ status' = [status EXCEPT ![r] = "PENDING_CONFIRMATION"]
    /\ UNCHANGED replacement

\* A move along the table, other than to Replaced.
Move(r, to) ==
    /\ to # "REPLACED"
    /\ <<status[r], to>> \in Transitions
    /\ status' = [status EXCEPT ![r] = to]
    /\ UNCHANGED replacement

\* The failed referral moves to Replaced and its successor appears, together.
Replace(r, q) ==
    /\ <<status[r], "REPLACED">> \in Transitions
    /\ status[q] = "ABSENT"
    /\ status' = [status EXCEPT ![r] = "REPLACED", ![q] = "PENDING_CONFIRMATION"]
    /\ replacement' = [replacement EXCEPT ![r] = q]

LifecycleNext ==
    \E r \in Referral :
        \/ Create(r)
        \/ \E to \in Status : Move(r, to)
        \/ \E q \in Referral : Replace(r, q)

LifecycleSpec == LifecycleInit /\ [][LifecycleNext]_lifecycleVars
=============================================================================
