SPECIFICATION LinkageSpec
CONSTANTS
  Linkage = {l1, l2}
  NoOne = NoOne
  shg1 = shg1
  cla1 = cla1
  Group = {shg1}
  Association = {cla1}
  Members <- MCMembers
  maker = maker
  officer = officer
  admin = admin
  User = {maker, officer, admin}
  Scheduler = Scheduler
  RoleOf <- MCRoleOf
  Chain <- OneLevel
  Credit = FALSE
  Verdict = {"PASS", "FAIL"}
  Reference = {"a", "b"}
  Scenarios <- LoneOnly
INVARIANT EveryLevelApproved
CHECK_DEADLOCK FALSE
