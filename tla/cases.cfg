SPECIFICATION CasesSpec
CONSTANTS
  w1 = w1
  Worker = {w1, w2}
  Body = {"call", "visit"}
  ActionCap = 2
  PathwayCap = 3
  PlacementCap = 1
  Checkpoints = 3
  Shifts <- MCShifts
  Complaint = {c1, c2}
  NoComplaint = NoComplaint
  o1 = o1
  Officer = {o1, o2}
  Rest = {3, 7}
  Horizon = 30
  Outcome = {"UPHELD", "NOT_UPHELD"}
  ResponseDays <- MCResponseDays
  AppealWindow = 1
  Desks <- MCDesks
  Provider = {v1, v2}
  Contact = {f1, f2}
  Result = {"EMPLOYED", "TRAINED"}
  NoResult = NoResult
  PlacingResult = {"EMPLOYED"}
  Rounds <- MCRounds
  Clerk = {k1, k2}
  Identifier = {"a"}
  NoIdentifier = "none"
  Called = {"n", "m"}
  YouthCap = 3
  Registers <- MCRegisters
  d1 = d1
  Key = {"size"}
  Value = {0, 1}
  Fallback <- MCFallback
  Place = {"kebele", "woreda"}
  Parent <- MCParent
  Nowhere = "nowhere"
  Decider = {d1, d2}
  LastDay = 3
  VersionCap = 3
  EventCap = 1
  Regimes <- MCRegimes
INVARIANTS PathwayChain SummaryFollows FollowedUp
           HeardOnce QueueAgreesWithClock
           OneStory OnFileOnce
           RulesOfTheDay VersionsTell
PROPERTIES FinishedStays WaitCostsNothing
CHECK_DEADLOCK FALSE
