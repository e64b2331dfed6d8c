SPECIFICATION Spec
CONSTANTS
    Referral = {r1, r2, r3}
    Worker = {w1, w2}
    Case = {c1}
    training = training
    service = service
    certificate = certificate
    job = job
    Category = {training}
    ExemptCategory = {}
    Outcome = {job}
    PlacementOutcome = {job}
    AppliesTo <- SomeAppliesTo
    MaxParallel = 2
    Ops = {"initiate", "confirm"}
    PatchFields = {}
    None = None
SYMMETRY RowsAndWorkersInterchangeable
INVARIANTS ParallelCap

