SPECIFICATION Spec
CONSTANTS
    Referral = {r1, r2, r3}
    Worker = {w1}
    Case = {c1}
    training = training
    service = service
    certificate = certificate
    job = job
    Category = {training, service}
    ExemptCategory = {service}
    Outcome = {certificate, job}
    PlacementOutcome = {job}
    AppliesTo <- SomeAppliesTo
    MaxParallel = 2
    Ops = {"initiate", "confirm", "decline", "cancel", "complete", "fail", "replace", "onward", "sweep"}
    PatchFields = {}
    None = None
SYMMETRY RowsAndWorkersInterchangeable
INVARIANTS ParallelCap GroupShared

