SPECIFICATION ReadinessSpec
CONSTANTS
    w1 = w1
    w2 = w2
    Member = {w1, w2}
    Horizon = 6
    Cadence = {1, 2}
    Sum = {1, 2}
    Week = 1
    Rule <- MCRule
    FundBins <- MCFundBins
    SavingBins <- MCSavingBins
    StayCap = 3
    LoanCap = 2
    VersionCap = 2
    Studies <- MCStudies
PROPERTIES DormantByTheClock
\* The last day of a study is its end.
CHECK_DEADLOCK FALSE
