------------------------------ MODULE GroupsMC ------------------------------
(***************************************************************************)
(* Instances of what the programme does with savings groups: linkages      *)
(* (LinkageMC), the books of one group (GroupLedger), formation, phases    *)
(* and associations (Assembly), the register of the women it takes them    *)
(* from (Registry), and the accounts of those who do it (Accounts).  The   *)
(* five share no variable, so an invariant of their product is one of each *)
(* alone: a behaviour moves one of them, chosen at the start, and leaves   *)
(* the others where they began.                                            *)
(***************************************************************************)
EXTENDS LinkageMC, GroupLedger, Assembly, Registry, Accounts, TLC

CONSTANTS s1,                \* of GroupLedger
          g1, g2, p1, p2,    \* of Assembly
          h1, h2, h3, psnp1, psnp2,   \* of Registry
          a1, a2, a3, a4, f1, t1, t2, c1, c2,    \* of Accounts
          mail1, mail2, region, zone, woreda1, woreda2, kebele1, kebele2, circle1, circle2

(* GroupLedger.                                                            *)

\* One request at a time, meetings one after the other.
InOrder == [staff |-> {s1}, atOnce |-> 1, overlap |-> FALSE, meetings |-> 2, lines |-> 4,
            does |-> {"open", "save", "lend", "repay", "close", "amend", "write_off"}]
\* Two meetings open at once, and reversals.
Overlapping == [InOrder EXCEPT !.overlap = TRUE, !.lines = 3,
                               !.does = {"open", "save", "lend", "repay", "close", "reverse"}]
\* Two requests at once around a closing till.
TillRace == [staff |-> Staff, atOnce |-> 2, overlap |-> FALSE, meetings |-> 1, lines |-> 3,
             does |-> {"open", "save", "close", "amend"}]
MCSessions == {InOrder, Overlapping, TillRace}

(* Assembly.                                                               *)

MCFounder == [h \in {g1, g2} |-> IF h = g1 THEN p1 ELSE p2]

\* A draft to its activation, with the nightly expiry beside it.
Forming == [groups |-> {g1}, active |-> FALSE, atOnce |-> 2,
            does |-> {"add", "exit", "record", "constitute", "activate", "edit", "expire"}]
\* Two groups and the same women.
Twins == [groups |-> {g1, g2}, active |-> FALSE, atOnce |-> 2, does |-> {"add", "exit"}]
\* Promotions one at a time, and two at once with edits.
Steps == [groups |-> {g1}, active |-> TRUE, atOnce |-> 1,
          does |-> {"submit", "approve", "reject", "assess"}]
Crowd == [groups |-> {g1}, active |-> TRUE, atOnce |-> 2,
          does |-> {"submit", "approve", "reject", "edit"}]
\* Two groups in one association; one group and its delegates.
Cluster == [groups |-> {g1, g2}, active |-> TRUE, atOnce |-> 1,
            does |-> {"submit", "approve", "form", "withdraw", "dissolve"}]
Turns == [groups |-> {g1}, active |-> TRUE, atOnce |-> 1,
          does |-> {"add", "submit", "approve", "form", "withdraw", "rotate", "expire"}]
Reseated == [groups |-> {g1}, active |-> TRUE, atOnce |-> 1,
             does |-> {"submit", "approve", "form", "withdraw", "reseat"}]
MCSeasons == {Forming, Twins, Steps, Crowd, Cluster, Turns, Reseated}

(* Registry.                                                               *)

\* Two women of one name, and a third whose name is nearly theirs.
MCNameOf == [h \in {h1, h2, h3} |-> IF h = h3 THEN "almaza" ELSE "almaz"]
MCResemblance == [n \in Name |-> [m \in Name |-> IF n = m THEN 100 ELSE 91]]
MCClientOf ==
    [h \in {h1, h2, h3} |-> IF h = h1 THEN psnp1 ELSE IF h = h2 THEN psnp2 ELSE NoClient]

\* One request at a time: both ways in, the officer, and a group ...
InTurn == [applicants |-> {h1, h3}, atOnce |-> 1,
           does |-> {"import", "register", "resolve", "verify", "join"}]
\* ... a woman who is a case already, and edits.
Known == [applicants |-> {h1, h3}, atOnce |-> 1,
          does |-> {"youth", "create", "import", "resolve", "edit", "join", "leave"}]
\* Two extracts at once, and a registration among them.
Extracts == [applicants |-> {h1, h3}, atOnce |-> 2, does |-> {"import", "register", "verify"}]
Namesakes == [applicants |-> {h1, h2, h3}, atOnce |-> 1, does |-> {"import", "resolve", "verify"}]
\* One woman, and old copies of her profile.
Exception == [applicants |-> {h1}, atOnce |-> 2, does |-> {"register", "verify", "edit", "join"}]
\* A client id typed on another woman's profile while its row is imported.
Mistyped == [applicants |-> {h1, h3}, atOnce |-> 2, does |-> {"import", "edit"}]
MCIntakes == {InTurn, Known, Extracts, Namesakes, Exception, Mistyped}

(* Accounts.                                                               *)

MCAbove == (region :> Nowhere @@ zone :> region @@ woreda1 :> zone @@ woreda2 :> zone
            @@ kebele1 :> woreda1 @@ kebele2 :> woreda2)
MCLevelOf == (region :> "REGION" @@ zone :> "ZONE" @@ woreda1 :> "WOREDA" @@ woreda2 :> "WOREDA"
              @@ kebele1 :> "KEBELE" @@ kebele2 :> "KEBELE")
MCTownOf == (c1 :> t1 @@ c2 :> t2)
MCKebeleOf == (circle1 :> kebele1 @@ circle2 :> kebele2)

Holds(role, woredas, partner, scope) ==
    [role |-> role, woredas |-> woredas, partner |-> partner, status |-> "ACTIVE", scope |-> scope]
Root == Holds("SYSTEM_ADMIN", {}, Nowhere, Nowhere)
Manager(t) == Holds("CASE_MANAGER", {t}, Nowhere, Nowhere)
With(row2, row3, row4) == (a1 :> Root @@ a2 :> row2 @@ a3 :> row3 @@ a4 :> row4)

\* Old copies of an account.
Staffing == [start |-> With(Manager(t1), NoAccount, NoAccount), atOnce |-> 2,
             does |-> {"staff", "self"}, mails |-> {<<>>},
             forms |-> {[role |-> "PARTNER_STAFF", partner |-> f1], [woredas |-> {}],
                        [role |-> "MNE_STAFF", partner |-> Nowhere],
                        [role |-> "SUPERVISOR", partner |-> Nowhere]}]
\* Two people and two addresses.
Mail(kind, address) == [kind |-> kind, address |-> address]
Mailing == [start |-> With(Manager(t1), NoAccount, NoAccount), atOnce |-> 2,
            does |-> {"self"}, forms |-> {},
            mails |-> {<<Mail("WORK", mail1), Mail("PERSONAL", mail2)>>,
                       <<Mail("PERSONAL", mail1)>>, <<Mail("WORK", Nowhere)>>}]
\* Old copies of a partner and of the cases, and referrals.
Partnering == [start |-> With(Manager(t1), NoAccount, NoAccount), atOnce |-> 2,
               does |-> {"refer", "case", "firm", "standing"}, forms |-> {}, mails |-> {<<>>}]
\* Cases and records, while their people change roles.
Roles(rows, forms, ops) == [start |-> rows, atOnce |-> 1, mails |-> {<<>>}, forms |-> forms,
                            does |-> {"case", "refer", "staff"} \cup ops]
Caseloads == Roles(With(Manager(t1), Manager(t2), NoAccount),
                   {[role |-> "SUPERVISOR"], [role |-> "CASE_MANAGER", woredas |-> {t1}]},
                   {})
Hiring == Roles(With(Manager(t1), Manager(t2), NoAccount), {[role |-> "SUPERVISOR"]}, {"hire"})
Linked == Roles(With(Manager(t1), Holds("TRAINER", {}, Nowhere, Nowhere), NoAccount),
                {[role |-> "PARTNER_STAFF", partner |-> f1]},
                {"deliver"})
\* Savings groups, those who run them and the officers above.
Savings == [start |-> With(Holds("WLT_FACILITATOR", {}, Nowhere, woreda1),
                           Holds("WLT_WOREDA_OFFICER", {}, Nowhere, woreda2),
                           Holds("WLT_FACILITATOR", {}, Nowhere, Nowhere)), atOnce |-> 1,
            does |-> {"draft", "staff", "case"}, mails |-> {<<>>},
            forms |-> {[status |-> "INACTIVE"], [role |-> "WLT_REGION_OFFICER"]}]
Zoned == [Savings EXCEPT !.start =
              With(Holds("WLT_FACILITATOR", {}, Nowhere, zone),
                   Holds("WLT_REGION_OFFICER", {}, Nowhere, zone),
                   Holds("WLT_REGION_OFFICER", {}, Nowhere, region))]
MCPostings == {Staffing, Mailing, Partnering, Caseloads, Hiring, Linked, Savings, Zoned}

-----------------------------------------------------------------------------

\* Which of the slots for linkages, and of the references, is used first is all one.
LinkagesInterchangeable == Permutations(Linkage) \cup Permutations(Reference)

VARIABLE part    \* which of them moves

groupsVars == <<linkageVars, ledgerVars, lifeVars, assemblyVars, registryVars, accountVars, part>>

OnlyLinkage ==
    /\ part = "linkage"
    /\ UNCHANGED <<ledgerVars, lifeVars, assemblyVars, registryVars, accountVars, part>>
OnlyLedger ==
    /\ part = "ledger"
    /\ UNCHANGED <<linkageVars, lifeVars, assemblyVars, registryVars, accountVars, part>>
OnlyAssembly ==
    part = "assembly" /\ UNCHANGED <<linkageVars, ledgerVars, registryVars, accountVars, part>>
OnlyRegistry ==
    /\ part = "registry"
    /\ UNCHANGED <<linkageVars, ledgerVars, lifeVars, assemblyVars, accountVars, part>>
OnlyAccounts ==
    /\ part = "accounts"
    /\ UNCHANGED <<linkageVars, ledgerVars, lifeVars, assemblyVars, registryVars, part>>

\* Those that do not move begin in one state.
GroupsInit ==
    /\ part \in {"linkage", "ledger", "assembly", "registry", "accounts"}
    /\ LinkageInit /\ LedgerInit /\ AssemblyInit /\ RegistryInit /\ AccountsInit
    /\ part # "linkage" => scenario = Lone
    /\ part # "ledger" => session = InOrder
    /\ part # "assembly" => season = Steps
    /\ part # "registry" => intake = InTurn
    /\ part # "accounts" => posting = Mailing

GroupsNext ==
    \/ OnlyLinkage /\ LinkageNext
    \/ OnlyLedger /\ LedgerNext
    \/ OnlyAssembly /\ AssemblyNext
    \/ OnlyRegistry /\ RegistryNext
    \/ OnlyAccounts /\ AccountsNext

GroupsSpec == GroupsInit /\ [][GroupsNext]_groupsVars
=============================================================================
