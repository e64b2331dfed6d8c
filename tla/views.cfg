SPECIFICATION ViewsSpec
CONSTANTS
    \* AlertInbox
    Referral = {r1, r2}
    None = None
    Alert = {a1, a2}
    Beat = {b1, b2}
    Person = {p1}
    Kinds = {"STALL", "ONWARD_REFERRAL_PROMPT"}
    \* Dashboard
    y1 = y1
    y2 = y2
    Client = {y1, y2}
    TraitOf <- MCTraitOf
    District = {"a", "b"}
    SlipCap = 3
    PostCap = 1
    Standard = 1
    MonthDays = 2
    Window = 1
    CheckDays = {1, 2}
    ReportMin = 2
    ProvisionalMin = 1
    Today = 3
    Terms <- MCTerms
    \* Readiness
    w1 = w1
    w2 = w2
    Member = {w1, w2}
    Horizon = 6
    Cadence = {1, 2}
    Sum = {1, 2}
    Week = 1
    Rule <- MCRule
    FundBins <- MCFundBins
    SavingBins <- MCSavingBins
    StayCap = 3
    LoanCap = 2
    VersionCap = 2
    Studies <- MCStudies
SYMMETRY InboxInterchangeable
INVARIANTS OneOpenAlert
           FiguresAgree RetentionAddsUp
           OneDefinition
PROPERTIES SystemCloseIsRight
           OneStandard
           PastStands AtRiskSaysWhy
\* A term, a study and the inbox come to an end.
CHECK_DEADLOCK FALSE
