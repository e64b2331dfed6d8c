SPECIFICATION GroupsSpec
CONSTANTS
  Linkage = {l1, l2}
  NoOne = NoOne
  shg1 = shg1
  cla1 = cla1
  Group = {shg1}
  Association = {cla1}
  Members <- MCMembers
  maker = maker
  officer = officer
  admin = admin
  User = {maker, officer, admin}
  Scheduler = Scheduler
  RoleOf <- MCRoleOf
  Chain <- OneLevel
  Credit = FALSE
  Verdict = {"PASS", "FAIL"}
  Reference = {x1, x2}
  Scenarios <- MCScenarios
  Loan = {n1, n2}
  s1 = s1
  Staff = {s1, s2}
  Amount = {1, 2}
  Counted = {0, 1, 2, 3, 4}
  MinMeetings = 1
  MaxLoans = 1
  ReservePct = 50
  MeetingCap = 2
  EntryCap = 4
  Sessions <- MCSessions
  g1 = g1
  g2 = g2
  p1 = p1
  p2 = p2
  Shg = {g1, g2}
  Woman = {p1, p2}
  Founder <- MCFounder
  Office = {"TREASURER"}
  Officer = {o1, o2}
  Approver = {o2}
  HardMin = 1
  HardMax = 2
  Nobody = Nobody
  TrailCap = 3
  ClaCap = 2
  MinGroups = 1
  Delegates = 1
  Seasons <- MCSeasons
  h1 = h1
  h2 = h2
  h3 = h3
  psnp1 = psnp1
  psnp2 = psnp2
  Applicant = {h1, h2, h3}
  ClientId = {psnp1, psnp2}
  NoClient = NoClient
  ClientOf <- MCClientOf
  Name = {"almaz", "almaza"}
  NameOf <- MCNameOf
  Resemblance <- MCResemblance
  Clerk = {k1, k2}
  RecordCap = 2
  QueueCap = 1
  Intakes <- MCIntakes
  a1 = a1
  a2 = a2
  a3 = a3
  a4 = a4
  f1 = f1
  t1 = t1
  t2 = t2
  c1 = c1
  c2 = c2
  mail1 = mail1
  mail2 = mail2
  region = region
  zone = zone
  woreda1 = woreda1
  woreda2 = woreda2
  kebele1 = kebele1
  kebele2 = kebele2
  circle1 = circle1
  circle2 = circle2
  Account = {a1, a2, a3, a4}
  Firm = {f1}
  Nowhere = Nowhere
  Town = {t1, t2}
  Place = {region, zone, woreda1, woreda2, kebele1, kebele2}
  Above <- MCAbove
  LevelOf <- MCLevelOf
  Dossier = {c1, c2}
  TownOf <- MCTownOf
  Circle = {circle1, circle2}
  KebeleOf <- MCKebeleOf
  Mailbox = {mail1, mail2}
  Desk = {d1, d2}
  MailCap = 3
  RecordsCap = 1
  Postings <- MCPostings
SYMMETRY LinkagesInterchangeable
INVARIANTS FourEyes ApprovedWhenDecided ExposureIsReal
           TillCarriesOver LoanStanding
           PhaseIsEarned TrailTells SeatsFollowMembership
           AskedAndSigned
           AccountsAddUp ScreensAgree
PROPERTIES TillReconciles
CHECK_DEADLOCK FALSE
