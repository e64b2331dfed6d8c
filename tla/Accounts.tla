------------------------------ MODULE Accounts ------------------------------
(***************************************************************************)
(* Who may do what, and who sees which rows: the accounts, their addresses *)
(* and the partner organisations as requests change them (apps/users,      *)
(* apps/partners), the cases, referrals, delivery records and savings      *)
(* groups that accounts are attached to, and every rule that narrows a     *)
(* list by a role's row in the access matrix.                              *)
(*                                                                         *)
(* A PATCH validates what it was given over the copy it loaded and then    *)
(* saves all columns of that copy; the addresses are rows of their own,    *)
(* written one by one after it.  The standing of a partner is written by   *)
(* no screen, and neither is the WLT scope of an account.                  *)
(*                                                                         *)
(* Left out: names, phones and passwords, is_active, which no screen that  *)
(* works writes, the admin's form, youths without a case, inactive places. *)
(***************************************************************************)
EXTENDS Integers, Sequences, FiniteSets

CONSTANTS
    Account,
    Firm,         \* partner organisations
    Nowhere,      \* null: no firm, no place, no account
    Town,         \* woredas by name, as woreda_assignment lists them
    Place,        \* rows of locations.Location
    Above,        \* Above[l]: its parent
    LevelOf,
    Dossier,      \* cases
    TownOf,       \* TownOf[c]: the woreda of the case
    Circle,       \* savings groups
    KebeleOf,     \* KebeleOf[g]: where its community met
    Mailbox,      \* addresses
    Desk,         \* requests that may be under way
    MailCap,      \* bound: address rows written
    RecordsCap,   \* bound: delivery records
    Postings      \* the instances a run covers, see Posting

PlaceLevel == {"KEBELE", "WOREDA", "ZONE", "REGION"}
ParentLevel == [level \in {"KEBELE", "WOREDA", "ZONE"} |->
                   CASE level = "KEBELE" -> "WOREDA" [] level = "WOREDA" -> "ZONE"
                     [] OTHER -> "REGION"]

Youthful == {"OUTREACH_WORKER", "CASE_MANAGER", "TRAINER", "EMPLOYER_LIAISON",
             "ENTERPRISE_OFFICER", "PARTNER_STAFF", "SUPERVISOR", "PROGRAMME_MANAGER",
             "MNE_STAFF"}
WltRoles == {"WLT_FACILITATOR", "WLT_WOREDA_OFFICER", "WLT_REGION_OFFICER",
             "WLT_FEDERAL_OFFICER"}
UserRole == Youthful \cup WltRoles \cup {"SYSTEM_ADMIN"}

AccountStatus == {"ACTIVE", "SUSPENDED", "INACTIVE"}
Standing == {"ACTIVE", "SUSPENDED", "BLACKLISTED"}

AccountRow == [ role : UserRole, woredas : SUBSET Town, partner : Firm \cup {Nowhere},
                status : AccountStatus, scope : Place \cup {Nowhere} ]
NoAccount == [role |-> "NONE"]

\* A training enrolment, a placement or an enterprise and who recorded it.
DeliveryKind == {"training", "placement", "enterprise"}
Delivery == [of : Dossier, kind : DeliveryKind, by : Account]

\* UserSerializer.validate: what is given, over the copy.
ValidAccount(row) ==
    /\ row.role \in {"OUTREACH_WORKER", "CASE_MANAGER", "SUPERVISOR"} => row.woredas # {}
    /\ row.role = "PARTNER_STAFF" <=> row.partner # Nowhere

Column == [ role |-> UserRole, woredas |-> SUBSET Town, partner |-> Firm \cup {Nowhere},
            status |-> AccountStatus ]
MailKind == {"WORK", "PERSONAL"}

\* Who is there at first, as somebody once validated them; how many requests run
\* at once, and which; what an administrator fills in, and which addresses.
Posting(p) ==
    /\ p.start \in [Account -> AccountRow \cup {NoAccount}]
    /\ \A u \in Account : p.start[u] # NoAccount => ValidAccount(p.start[u])
    /\ p.atOnce \in Nat
    /\ \A form \in p.forms :
          DOMAIN form \subseteq DOMAIN Column /\ \A f \in DOMAIN form : form[f] \in Column[f]
    /\ p.mails \subseteq Seq([kind : MailKind, address : Mailbox \cup {Nowhere}])

VARIABLES
    account,     \* account[u]: its row
    emails,      \* the UserEmail rows in the order they were made
    firm,        \* firm[f]: whether it is active, and its standing
    dossier,     \* dossier[c]: its manager, and whether it is open
    sentTo,      \* sentTo[c]: the firms its referrals went to
    delivered,   \* the delivery records
    circle,      \* circle[g]: its facilitator
    desk,        \* desk[d]: the request that is being served there
    posting      \* chosen once

accountVars == <<account, emails, firm, dossier, sentTo, delivered, circle, desk, posting>>

NoPaper == [kind |-> "none"]

ASSUME AccountsAssumption ==
    /\ Nowhere \notin UNION {Firm, Place, Account, Mailbox, Dossier, Circle}
    /\ Above \in [Place -> Place \cup {Nowhere}]
    /\ LevelOf \in [Place -> PlaceLevel]
    \* locations.Location.clean
    /\ \A l \in Place : IF LevelOf[l] = "REGION" THEN Above[l] = Nowhere
                        ELSE Above[l] # Nowhere /\ LevelOf[Above[l]] = ParentLevel[LevelOf[l]]
    /\ TownOf \in [Dossier -> Town]
    /\ KebeleOf \in [Circle -> {l \in Place : LevelOf[l] = "KEBELE"}]
    /\ MailCap \in Nat /\ RecordsCap \in Nat
    /\ \A p \in Postings : Posting(p)

-----------------------------------------------------------------------------
(* ACCESS_MATRIX, WLT_APPROVAL_LEVELS and the permission classes.          *)

NO_ACCESS == [ case |-> "NONE", referral |-> "NONE", group |-> "NONE",
               caseWrite |-> FALSE, referralWrite |-> FALSE, groupWrite |-> FALSE,
               deliveryWrite |-> FALSE ]

ReadingOwn(scope, writes) ==
    [f \in DOMAIN NO_ACCESS |->
        IF f = "referral" /\ scope = "OWN_WOREDA" THEN "OWN_CASELOAD"
        ELSE IF f \in {"case", "referral"} THEN scope
        ELSE IF f \in writes THEN TRUE ELSE NO_ACCESS[f]]
\* A row that reads cases and referrals alike, and writes these.
Reading(scope, writes) ==
    [f \in DOMAIN NO_ACCESS |-> IF f \in {"case", "referral"} THEN scope
                                ELSE IF f \in writes THEN TRUE ELSE NO_ACCESS[f]]

AccessOfYouthRole(r) ==
    CASE r = "OUTREACH_WORKER" -> Reading("OWN_WOREDA", {"caseWrite"})
      [] r = "CASE_MANAGER" ->
            Reading("OWN_CASELOAD", {"caseWrite", "referralWrite", "deliveryWrite"})
      [] r = "TRAINER" -> Reading("LINKED", {"deliveryWrite"})
      [] r \in {"EMPLOYER_LIAISON", "ENTERPRISE_OFFICER"} ->
            Reading("LINKED", {"referralWrite", "deliveryWrite"})
      [] r = "PARTNER_STAFF" -> Reading("LINKED", {"referralWrite"})
      [] r = "SUPERVISOR" -> Reading("OWN_WOREDA", {})
      [] r \in {"PROGRAMME_MANAGER", "MNE_STAFF"} -> Reading("ALL", {})

AccessOfOtherRole(r) ==
    CASE r = "SYSTEM_ADMIN" ->
            [Reading("ALL", {"caseWrite", "referralWrite", "groupWrite", "deliveryWrite"})
                EXCEPT !.group = "ALL"]
      [] r = "WLT_FACILITATOR" -> [NO_ACCESS EXCEPT !.group = "OWN_GROUPS", !.groupWrite = TRUE]
      [] r \in {"WLT_WOREDA_OFFICER", "WLT_REGION_OFFICER"} ->
            [NO_ACCESS EXCEPT !.group = "OWN_GEOGRAPHY"]
      [] r = "WLT_FEDERAL_OFFICER" -> [NO_ACCESS EXCEPT !.group = "ALL"]

Access(u) ==
    LET r == account[u].role
    IN  IF r \in Youthful THEN AccessOfYouthRole(r)
        ELSE IF r \in UserRole THEN AccessOfOtherRole(r) ELSE NO_ACCESS

IsOperational(u) == account[u] # NoAccount /\ account[u].status = "ACTIVE"

CanAccessCases(u, column) ==
    IsOperational(u) /\ Access(u).case # "NONE" /\ Access(u)[column]
CanAccessReferrals(u) ==
    IsOperational(u) /\ Access(u).referral # "NONE" /\ Access(u).referralWrite
CanDraftGroups(u) ==
    /\ IsOperational(u) /\ Access(u).group # "NONE"
    /\ Access(u).groupWrite \/ account[u].role = "WLT_WOREDA_OFFICER"
CanManagePartners(u) ==
    IsOperational(u) /\ account[u].role \in {"SYSTEM_ADMIN", "PROGRAMME_MANAGER"}
CanManageAccounts(u) == IsOperational(u) /\ account[u].role = "SYSTEM_ADMIN"
ReadsFigures(u) == IsOperational(u) /\ Access(u).case \in {"ALL", "OWN_WOREDA", "OWN_CASELOAD"}

-----------------------------------------------------------------------------
(* Which rows.                                                             *)

OpenedFiles == {c \in Dossier : dossier[c].manager # Nowhere}
Referrals == {r \in OpenedFiles \X Firm : r[2] \in sentTo[r[1]]}

LinkedThrough(u, c) ==
    LET kind == CASE account[u].role = "TRAINER" -> "training"
                  [] account[u].role = "EMPLOYER_LIAISON" -> "placement"
                  [] account[u].role = "ENTERPRISE_OFFICER" -> "enterprise"
                  [] OTHER -> "none"
    IN  \E d \in delivered : d.of = c /\ d.kind = kind /\ d.by = u

\* scope_queryset over a row of case c, or of none, that lies in a woreda; to is
\* what its partner_field names, if the caller has one.
InScope(u, scope, c, woreda, to) ==
    \/ scope = "ALL"
    \/ scope = "OWN_WOREDA" /\ woreda \in account[u].woredas
    \/ scope = "OWN_CASELOAD" /\ c \in Dossier /\ dossier[c].manager = u
    \/ /\ scope = "LINKED"
       /\ IF account[u].role = "PARTNER_STAFF"
             THEN to # Nowhere /\ to = account[u].partner
             ELSE LinkedThrough(u, c)

scoped_cases(u) == {c \in OpenedFiles : InScope(u, Access(u).case, c, TownOf[c], Nowhere)}
scoped_referrals(u) ==
    {r \in Referrals : InScope(u, Access(u).referral, r[1], TownOf[r[1]], r[2])}
\* The referrals that the programme's figures count go by the scope of cases.
scoped_bases_referrals(u) ==
    {r \in Referrals : InScope(u, Access(u).case, r[1], TownOf[r[1]], Nowhere)}

Up(l) == IF l = Nowhere THEN Nowhere ELSE Above[l]
\* n steps up from l; ancestors by a walk.
Climb(l, n) == CASE n = 0 -> l [] n = 1 -> Up(l) [] n = 2 -> Up(Up(l)) [] OTHER -> Up(Up(Up(l)))
Ancestors(l) == {Climb(l, n) : n \in 0 .. 3} \ {Nowhere}
IsWithin(l, where) == where \in Ancestors(l)

DepthShort(level) == CASE level = "KEBELE" -> 0 [] level = "REGION" -> 3 [] OTHER -> 1
\* location_subtree_filter: as many joins as the level says.
Depth(level) ==
    CASE level = "KEBELE" -> 0 [] level = "WOREDA" -> 1 [] level = "ZONE" -> 2 [] OTHER -> 3
InSubtree(kebele, where) == Climb(kebele, Depth(LevelOf[where])) = where

Drafted == {g \in Circle : circle[g] # Nowhere}
scoped_groups(u) ==
    {g \in Drafted :
        \/ Access(u).group = "ALL"
        \/ Access(u).group = "OWN_GROUPS" /\ circle[g] = u
        \/ /\ Access(u).group = "OWN_GEOGRAPHY" /\ account[u].scope # Nowhere
           /\ InSubtree(KebeleOf[g], account[u].scope)}

\* scope_grievances, the union of two scopes, over complaints about each case
\* and each group, in whatever woreda they were filed.
Complaint ==
    [case : OpenedFiles, group : {Nowhere}, woreda : Town]
        \cup [case : {Nowhere}, group : Drafted, woreda : Town]
scoped_grievances(u) ==
    {k \in Complaint : \/ InScope(u, Access(u).case, k.case, k.woreda, Nowhere)
                       \/ k.group \in scoped_groups(u)}

\* The pickers, and what the forms they fill accept.
case_managers(u) ==
    {v \in Account :
        /\ IsOperational(v) /\ account[v].role = "CASE_MANAGER"
        /\ (Access(u).case \in {"OWN_WOREDA", "OWN_CASELOAD"} /\ account[u].woredas # {}) =>
              account[v].woredas \cap account[u].woredas # {}}
ValidManager(v) ==
    account[v] # NoAccount /\ account[v].role = "CASE_MANAGER" /\ IsOperational(v)

wlt_facilitators(kebele) ==
    {v \in Account : /\ IsOperational(v) /\ account[v].role = "WLT_FACILITATOR"
                     /\ account[v].scope \in Ancestors(kebele) \cup {Nowhere}}
ValidFacilitator(v, kebele) ==
    /\ account[v] # NoAccount /\ account[v].role = "WLT_FACILITATOR"
    /\ account[v].scope # Nowhere => IsWithin(kebele, account[v].scope)

caseload_count_all(u) == Cardinality({c \in OpenedFiles : dossier[c].manager = u})
\* Three counts of what a manager has in hand.
caseload_count(u) == Cardinality({c \in OpenedFiles : dossier[c].manager = u /\ dossier[c].open})
my_caseload(u) == {c \in scoped_cases(u) : dossier[c].manager = u /\ dossier[c].open}
caseload_summary(reader, u) ==
    Cardinality({c \in scoped_cases(reader) : dossier[c].manager = u /\ dossier[c].open})

-----------------------------------------------------------------------------
AccountsInit ==
    /\ posting \in Postings
    /\ account = posting.start
    /\ emails = <<>>
    /\ firm = [f \in Firm |-> [active |-> TRUE, standing |-> "ACTIVE"]]
    /\ dossier = [c \in Dossier |-> [manager |-> Nowhere, open |-> TRUE]]
    /\ sentTo = [c \in Dossier |-> {}]
    /\ delivered = {}
    /\ circle = [g \in Circle |-> Nowhere]
    /\ desk = [d \in Desk |-> NoPaper]

Allows(op) == op \in posting.does
Sits(d) ==
    /\ desk[d] = NoPaper
    /\ Cardinality({e \in Desk : desk[e] # NoPaper}) < posting.atOnce

\* The row with the columns that were given in it.
Over(given, row) == [f \in DOMAIN row |-> IF f \in DOMAIN given THEN given[f] ELSE row[f]]

\* POST of an account.  Its addresses are popped twice and so never written.
Hire(u) ==
    /\ Allows("hire") /\ \E by \in Account : CanManageAccounts(by)
    /\ account[u] = NoAccount
    /\ \E form \in posting.forms :
          LET row == Over(form, [role |-> "MNE_STAFF", woredas |-> {}, partner |-> Nowhere,
                                 status |-> "ACTIVE", scope |-> Nowhere])
          IN  ValidAccount(row) /\ account' = [account EXCEPT ![u] = row]
    /\ UNCHANGED <<emails, firm, dossier, sentTo, delivered, circle, desk, posting>>

\* A request has loaded its row, and what it was given is valid over the copy.
Paper(kind, of, copy, given, mail) ==
    [kind |-> kind, of |-> of, copy |-> copy, given |-> given, mail |-> mail, found |-> 0]
LoadPaper(d, p) ==
    /\ Sits(d)
    /\ desk' = [desk EXCEPT ![d] = p]
    /\ UNCHANGED <<account, emails, firm, dossier, sentTo, delivered, circle, posting>>

EditAccount(d, u) ==
    /\ Allows("staff") /\ account[u] # NoAccount /\ \E by \in Account : CanManageAccounts(by)
    /\ \E form \in posting.forms, mail \in posting.mails :
          /\ ValidAccount(Over(form, account[u]))
          /\ LoadPaper(d, Paper("account", u, account[u], form, mail))

\* /me: a name, phones and addresses, of whoever is signed in.
EditSelf(d, u) ==
    /\ Allows("self") /\ account[u] # NoAccount
    /\ \E mail \in posting.mails :
          LoadPaper(d, Paper("account", u, account[u], <<>>, mail))

EditFirm(d, f) ==
    /\ Allows("firm") /\ \E by \in Account : CanManagePartners(by)
    /\ \E active \in BOOLEAN :
          LoadPaper(d, Paper("firm", f, firm[f], [active |-> active], <<>>))

\* assign, or a PATCH of the case: its present manager must still be one.
EditDossier(d, c) ==
    /\ Allows("case")
    /\ \E by \in Account : CanAccessCases(by, "caseWrite") /\ c \in scoped_cases(by)
    /\ \/ \E u \in Account :
             /\ ValidManager(u)
             /\ LoadPaper(d, Paper("case", c, dossier[c], [manager |-> u], <<>>))
       \/ /\ account[dossier[c].manager].role = "CASE_MANAGER"
          /\ LoadPaper(d, Paper("case", c, dossier[c], [open |-> FALSE], <<>>))

\* Partner.save.
Kept(row) == IF row.standing = "ACTIVE" THEN row ELSE [row EXCEPT !.active = FALSE]

WrittenGiven(p, now) == Over(p.given, now)
\* save() writes every column of the copy.
Written(p, now) == Over(p.given, p.copy)
\* What save() adds to a partner of its own.
Saved(p, now) == IF p.kind = "firm" THEN Kept(Written(p, now)) ELSE Written(p, now)

SaveAccount(d) ==
    LET p == desk[d]
    IN  /\ p.kind = "account"
        /\ account' = [account EXCEPT ![p.of] = Saved(p, account[p.of])]
        /\ desk' = [desk EXCEPT ![d] = IF p.mail = <<>> THEN NoPaper ELSE [@ EXCEPT !.kind = "look"]]
        /\ UNCHANGED <<emails, firm, dossier, sentTo, delivered, circle, posting>>
SaveFirm(d) ==
    LET p == desk[d]
    IN  /\ p.kind = "firm"
        /\ firm' = [firm EXCEPT ![p.of] = Saved(p, firm[p.of])]
        /\ desk' = [desk EXCEPT ![d] = NoPaper]
        /\ UNCHANGED <<account, emails, dossier, sentTo, delivered, circle, posting>>
SaveDossier(d) ==
    LET p == desk[d]
    IN  /\ p.kind = "case"
        /\ dossier' = [dossier EXCEPT ![p.of] = Saved(p, dossier[p.of])]
        /\ desk' = [desk EXCEPT ![d] = NoPaper]
        /\ UNCHANGED <<account, emails, firm, sentTo, delivered, circle, posting>>

\* _save_emails: the row of this kind is looked up ...
RowsOf(u, kind) ==
    {i \in DOMAIN emails : emails[i].live /\ emails[i].of = u /\ emails[i].kind = kind}
LookMail(d) ==
    LET p == desk[d]
        rows == RowsOf(p.of, Head(p.mail).kind)
    IN  /\ p.kind = "look"
        /\ desk' = [desk EXCEPT ![d].kind = "mail",
                                ![d].found = IF rows = {} THEN 0 ELSE CHOOSE i \in rows : TRUE]
        /\ UNCHANGED <<account, emails, firm, dossier, sentTo, delivered, circle, posting>>

AdmittedByKind(rows) ==
    \A i, j \in DOMAIN rows :
        i # j /\ rows[i].live /\ rows[j].live /\ rows[i].kind = rows[j].kind =>
            rows[i].address # rows[j].address /\ rows[i].of # rows[j].of
\* user_email_unique_address and user_email_one_per_kind.
Admitted(rows) ==
    \A i, j \in DOMAIN rows :
        i # j /\ rows[i].live /\ rows[j].live =>
            /\ rows[i].address # rows[j].address
            /\ rows[i].of # rows[j].of \/ rows[i].kind # rows[j].kind
\* ... and written, changed or deleted.  An index, or the loss of the row that
\* was found, ends the request; what it wrote before stays.
WriteMail(d) ==
    LET p == desk[d]
        m == Head(p.mail)
        gone == p.found # 0 /\ ~emails[p.found].live
        rows == IF m.address = Nowhere
                   THEN [i \in DOMAIN emails |->
                            IF i = p.found THEN [emails[i] EXCEPT !.live = FALSE] ELSE emails[i]]
                ELSE IF p.found = 0
                   THEN Append(emails, [of |-> p.of, kind |-> m.kind, address |-> m.address,
                                        live |-> TRUE])
                ELSE [emails EXCEPT ![p.found].address = m.address]
        done == m.address = Nowhere \/ (~gone /\ Admitted(rows))
    IN  /\ p.kind = "mail" /\ Len(rows) <= MailCap
        /\ emails' = IF done THEN rows ELSE emails
        /\ desk' = [desk EXCEPT ![d] = IF done /\ Len(p.mail) > 1
                                         THEN [p EXCEPT !.kind = "look", !.mail = Tail(p.mail)]
                                         ELSE NoPaper]
        /\ UNCHANGED <<account, firm, dossier, sentTo, delivered, circle, posting>>

\* By hand: p.standing = ...; p.save().
Restand(f) ==
    /\ Allows("standing")
    /\ \E s \in Standing : firm' = [firm EXCEPT ![f] = Kept([@ EXCEPT !.standing = s])]
    /\ UNCHANGED <<account, emails, dossier, sentTo, delivered, circle, desk, posting>>

OpenDossier(c) ==
    /\ Allows("case") /\ c \notin OpenedFiles
    /\ \E by \in Account : CanAccessCases(by, "caseWrite")
    /\ \E u \in Account : ValidManager(u) /\ dossier' = [dossier EXCEPT ![c].manager = u]
    /\ UNCHANGED <<account, emails, firm, sentTo, delivered, circle, desk, posting>>

Refer(c, f) ==
    /\ Allows("refer")
    /\ \E by \in Account : CanAccessReferrals(by) /\ c \in scoped_cases(by)
    /\ firm[f].active /\ firm[f].standing = "ACTIVE"
    /\ sentTo' = [sentTo EXCEPT ![c] = @ \cup {f}]
    /\ UNCHANGED <<account, emails, firm, dossier, delivered, circle, desk, posting>>

\* POST looks at the case by its id alone.
Deliver(by, c) ==
    /\ Allows("deliver") /\ CanAccessCases(by, "deliveryWrite") /\ c \in OpenedFiles
    /\ Cardinality(delivered) < RecordsCap
    /\ \E kind \in DeliveryKind :
          delivered' = delivered \cup {[of |-> c, kind |-> kind, by |-> by]}
    /\ UNCHANGED <<account, emails, firm, dossier, sentTo, circle, desk, posting>>

\* A facilitator who names nobody runs the group herself.
Draft(by, g) ==
    /\ Allows("draft") /\ CanDraftGroups(by) /\ g \notin Drafted
    /\ \/ \E u \in Account :
             ValidFacilitator(u, KebeleOf[g]) /\ circle' = [circle EXCEPT ![g] = u]
       \/ account[by].role = "WLT_FACILITATOR" /\ circle' = [circle EXCEPT ![g] = by]
    /\ UNCHANGED <<account, emails, firm, dossier, sentTo, delivered, desk, posting>>

Serve(d) ==
    \/ SaveAccount(d) \/ SaveFirm(d) \/ SaveDossier(d) \/ LookMail(d) \/ WriteMail(d)
    \/ \E u \in Account : EditAccount(d, u) \/ EditSelf(d, u)
    \/ \E f \in Firm : EditFirm(d, f)
    \/ \E c \in OpenedFiles : EditDossier(d, c)

AccountsNext ==
    \/ \E d \in Desk : Serve(d)
    \/ \E u \in Account : Hire(u)
    \/ \E f \in Firm : Restand(f)
    \/ \E c \in Dossier : OpenDossier(c)
    \/ \E c \in OpenedFiles, f \in Firm : Refer(c, f)
    \/ \E by \in Account, c \in Dossier : Deliver(by, c)
    \/ \E by \in Account, g \in Circle : Draft(by, g)

-----------------------------------------------------------------------------
(* Properties.                                                             *)

\* Every row of an account is one that somebody validated in whole: partner
\* staff and they alone have a firm, and a role of the woredas has a woreda.  A
\* partner out of standing takes no referrals.  An address is on file once, and
\* one of a kind for an account.  Requests keep it so although they save old
\* copies over each other's columns (users/serializers.py: validate, update;
\* partners/models.py: save; users/models.py: UserEmail).
AccountsAddUp ==
    /\ \A u \in Account : account[u] # NoAccount => ValidAccount(account[u])
    /\ \A f \in Firm : firm[f].active => firm[f].standing = "ACTIVE"
    /\ \A i, j \in DOMAIN emails :
          emails[i].live /\ emails[j].live /\ i # j =>
              /\ emails[i].address # emails[j].address
              /\ <<emails[i].of, emails[i].kind>> # <<emails[j].of, emails[j].kind>>

\* What is computed in several places comes out the same.  The figures count
\* the referrals that the list shows; a manager's counters and her desk agree;
\* the forms take whom the pickers offer, and a geography means the same to the
\* picker, to the form and to the list of groups; nobody's complaints reach
\* across from cases to savings groups or back unless the woreda is theirs
\* (dashboard/services.py, users/views.py, cases/views.py, wlt/api/serializers.py,
\* grievances/scoping.py).
OneReferralList ==
    \A u \in Account : ReadsFigures(u) => scoped_bases_referrals(u) = scoped_referrals(u)
OneCaseload ==
    \A u \in Account :
        account[u].role = "CASE_MANAGER" =>
            /\ caseload_count(u) = Cardinality(my_caseload(u))
            /\ \A reader \in Account :
                  Access(reader).case = "ALL" => caseload_summary(reader, u) = caseload_count(u)
OfferedIsTaken ==
    /\ \A u \in Account : \A v \in case_managers(u) : ValidManager(v)
    /\ \A g \in Circle :
          wlt_facilitators(KebeleOf[g])
              = {v \in Account : IsOperational(v) /\ ValidFacilitator(v, KebeleOf[g])}
    /\ \A u \in Account, g \in Drafted :
          Access(u).group = "OWN_GEOGRAPHY" =>
              (g \in scoped_groups(u) <=> account[u].scope \in Ancestors(KebeleOf[g]))
TwoProgrammes ==
    \A u \in Account :
        /\ account[u].role \in WltRoles =>
              /\ scoped_cases(u) = {} /\ scoped_referrals(u) = {}
              /\ \A k \in scoped_grievances(u) : k.case = Nowhere
        /\ account[u].role \in Youthful =>
              /\ scoped_groups(u) = {}
              /\ \A k \in scoped_grievances(u) :
                    k.group # Nowhere => Access(u).case = "ALL" \/ k.woreda \in account[u].woredas
        /\ account[u].role = "PARTNER_STAFF" =>
              scoped_referrals(u) = {r \in Referrals : r[2] = account[u].partner}
ScreensAgree == OneReferralList /\ OneCaseload /\ OfferedIsTaken /\ TwoProgrammes

AccountsSpec == AccountsInit /\ [][AccountsNext]_accountVars
=============================================================================
