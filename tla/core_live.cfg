SPECIFICATION FairSpec
CONSTANTS
    Referral = {r1, r2}
    Worker = {w1, w2}
    Case = {c1}
    training = training
    service = service
    certificate = certificate
    job = job
    Category = {training}
    ExemptCategory = {}
    Outcome = {job}
    PlacementOutcome = {job}
    AppliesTo <- SomeAppliesTo
    MaxParallel = 1
    Ops = {"initiate", "confirm", "fail", "replace", "edit"}
    PatchFields = {}
    None = None

PROPERTIES RequestsFinish

