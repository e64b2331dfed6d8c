SPECIFICATION NightlySpec
CONSTANTS
    \* AlertInbox
    Referral = {r1, r2}
    None = None
    Alert = {a1, a2}
    Beat = {b1}
    Person = {p1}
    Kinds = {"REPLACEMENT_REFERRAL_PROMPT", "REFERRAL_CONFIRMATION_OVERDUE"}
    \* Linkage
    Linkage = {l1, l2}
    NoOne = NoOne
    shg1 = shg1
    cla1 = cla1
    Group = {shg1}
    Association = {cla1}
    Members <- MCMembers
    maker = maker
    officer = officer
    admin = admin
    User = {maker, officer, admin}
    Scheduler = Scheduler
    RoleOf <- MCRoleOf
    Chain <- OneLevel
    Credit = FALSE
    Verdict = {"PASS", "FAIL"}
    Reference = {"a"}
    Scenarios <- Nights
PROPERTIES ClearedAlertsClose DistressShown
\* Nothing is left to do once both referrals have ended.
CHECK_DEADLOCK FALSE
