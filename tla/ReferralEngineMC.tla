-------------------------- MODULE ReferralEngineMC --------------------------
(* Instances of ReferralEngine for model checking.                         *)
EXTENDS ReferralEngine, TLC

CONSTANTS training, service,     \* categories; service is the exempt one
          certificate, job       \* outcomes; job counts as a placement

\* A certificate follows a training only, a job either category.
SomeAppliesTo ==
    {<<training, certificate>>, <<training, job>>, <<service, job>>} \cap (Category \X Outcome)

WorkersInterchangeable == Permutations(Worker)

RowsAndWorkersInterchangeable == Permutations(Worker) \cup Permutations(Referral)
=============================================================================
