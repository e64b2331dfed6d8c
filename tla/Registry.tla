------------------------------ MODULE Registry ------------------------------
(***************************************************************************)
(* How women come onto the register of the savings programme, and from it  *)
(* into a group: apps/wlt/services/enrolment.py, the profile endpoints and *)
(* the look at a profile when a member is added (services/formation.py).   *)
(*                                                                         *)
(* An extract is imported row by row; here every row is a batch of its     *)
(* own.  Neither an import nor a registration locks what it has looked at, *)
(* and an import and an edit save all columns of a profile as they read    *)
(* it.  A profile goes with a person, so both have one number.             *)
(*                                                                         *)
(* Left out: other kebeles than one, the eligibility dates, which all      *)
(* meet, unreadable cells, deletion, an edit that gives the profile to     *)
(* another person, a person who is renamed.                                *)
(***************************************************************************)
EXTENDS Integers, Sequences, FiniteSets

CONSTANTS
    Applicant,    \* the women themselves
    ClientId,
    NoClient,     \* a blank PSNP client id
    ClientOf,     \* what her extract row says
    Name,
    NameOf,
    Resemblance,  \* Resemblance[n][m]: _name_similarity, in whole hundredths
    Clerk,        \* who files; each runs one request at a time
    RecordCap,    \* bound: persons on file
    QueueCap,     \* bound: matches queued
    Intakes       \* the instances a run covers, see Intake

IntakeOps == {"youth", "import", "register", "create", "resolve", "verify", "edit", "join",
              "leave"}

\* Who applies, how many requests run at once, and which.
Intake == [applicants : SUBSET Applicant, atOnce : Nat, does : SUBSET IntakeOps]

ASSUME RegistryAssumption ==
    /\ IsFiniteSet(Clerk)
    /\ NoClient \notin ClientId
    /\ ClientOf \in [Applicant -> ClientId \cup {NoClient}]
    /\ NameOf \in [Applicant -> Name]
    /\ Resemblance \in [Name -> [Name -> 0 .. 100]]
    /\ \A n, m \in Name : Resemblance[n][m] = 100 <=> n = m
    /\ RecordCap \in Nat /\ QueueCap \in Nat
    /\ Intakes \subseteq Intake

FUZZY_REVIEW_THRESHOLD == 86

VARIABLES
    person,    \* person[r]: whom the r-th Youth row was made for
    profile,   \* profile[r]: her BeneficiaryProfile
    queue,     \* the ImportMatchCandidate rows
    joined,    \* persons with an open group membership
    form,      \* form[k]: the request clerk k is in the middle of
    intake     \* chosen once

registryVars == <<person, profile, queue, joined, form, intake>>

Record == 1 .. RecordCap
Unfiled == 0       \* no person yet

\* rows: the applicants whose particulars were ever written to it.
ProfileRow == [ status : {"NONE", "PENDING", "VERIFIED", "REJECTED"},
                route : {"", "IMPORT", "FACILITATOR"},
                client : ClientId \cup {NoClient},
                signed : BOOLEAN,              \* verified_by is set
                rows : SUBSET Applicant ]

NoProfile == [status |-> "NONE", route |-> "", client |-> NoClient, signed |-> FALSE,
              rows |-> {}]

MatchRow == [ row : Applicant, match : Record,
              resolution : {"PENDING", "CONFIRMED", "REJECTED"} ]

Form == [ op : IntakeOps \cup {"none"}, row : SUBSET Applicant,
          outcome : {"", "linked", "queued", "created"}, record : Record \cup {Unfiled},
          client : ClientId \cup {NoClient}, copy : ProfileRow ]

NoForm == [op |-> "none", row |-> {}, outcome |-> "", record |-> Unfiled, client |-> NoClient,
           copy |-> NoProfile]

OnFile == {r \in Record : person[r] # {}}

\* Slots are filled in order.
NextRecord(r) == r \notin OnFile /\ \A q \in Record : q < r => q \in OnFile

\* The profiles with a client id, which no index keeps apart.
Holders(c) ==
    {r \in Record : c # NoClient /\ profile[r].status # "NONE" /\ profile[r].client = c}

ClientKnown(c) == Holders(c) # {}

RegistryInit ==
    /\ person = [r \in Record |-> {}]
    /\ profile = [r \in Record |-> NoProfile]
    /\ queue = <<>>
    /\ joined = {}
    /\ form = [k \in Clerk |-> NoForm]
    /\ intake \in Intakes

Accepts(op) ==
    /\ op \in intake.does
    /\ Cardinality({k \in Clerk : form[k] # NoForm}) < intake.atOnce

Files(k, op, f) ==
    /\ Accepts(op) /\ form[k] = NoForm
    /\ form' = [form EXCEPT ![k] = [f EXCEPT !.op = op]]
    /\ UNCHANGED <<person, profile, queue, joined, intake>>

Filed(k, op) ==
    /\ form[k].op = op
    /\ form' = [form EXCEPT ![k] = NoForm]
    /\ UNCHANGED intake

\* The request is refused, or its worker dies.
TornUp(k) ==
    /\ form[k] # NoForm
    /\ form' = [form EXCEPT ![k] = NoForm]
    /\ UNCHANGED <<person, profile, queue, joined, intake>>

-----------------------------------------------------------------------------
(* The extract.                                                            *)

Score(r, a) ==
    LET names == {NameOf[b] : b \in person[r]}
    IN  Resemblance[CHOOSE n \in names : TRUE][NameOf[a]]

\* find_matches, by name.
Matches(a) == {r \in OnFile : Score(r, a) >= FUZZY_REVIEW_THRESHOLD}
BestMatches(a) == {r \in Matches(a) : \A q \in Matches(a) : Score(q, a) <= Score(r, a)}

\* Wrong: a match worth a look is taken for her.
ResemblesHer(r, a) == TRUE

\* import_row links, and asks nobody, where the score is one.
IsHer(r, a) == Score(r, a) >= 100

\* import_row: a client id on the register is skipped.
BeginImport(k, a) ==
    /\ a \in intake.applicants
    /\ ~ClientKnown(ClientOf[a])
    /\ Files(k, "import", [NoForm EXCEPT !.row = {a}])

Finds(k, outcome, r) ==
    /\ form' = [form EXCEPT ![k].outcome = outcome, ![k].record = r]
    /\ UNCHANGED <<person, profile, queue, joined, intake>>

\* find_matches looks for the client id once more, and scores it one: another
\* request may have written it on a profile since.
FindMatches(k, a) ==
    /\ form[k].op = "import" /\ form[k].row = {a} /\ form[k].outcome = ""
    /\ \/ \E r \in Holders(ClientOf[a]) : Finds(k, "linked", r)
       \/ /\ ~ClientKnown(ClientOf[a])
          /\ \/ Matches(a) = {} /\ Finds(k, "created", Unfiled)
             \/ \E r \in BestMatches(a) :
                   Finds(k, IF IsHer(r, a) THEN "linked" ELSE "queued", r)

\* get_or_create reads the profile of whom it found, at once or just before it
\* is saved.
FetchProfile(k) ==
    /\ form[k].outcome = "linked" /\ form[k].copy = NoProfile
    /\ profile[form[k].record].status # "NONE"
    /\ form' = [form EXCEPT ![k].copy = profile[form[k].record]]
    /\ UNCHANGED <<person, profile, queue, joined, intake>>

\* Wrong: a profile that an import has found is thereby verified.
OpenedOrVerified(row, signed) ==
    [row EXCEPT !.status = "VERIFIED", !.route = IF @ = "" THEN "IMPORT" ELSE @]

\* get_or_create: the verification comes with a new profile only.
Opened(row, signed) ==
    IF row.status # "NONE" THEN row
    ELSE [row EXCEPT !.status = "VERIFIED", !.route = "IMPORT", !.signed = signed]

\* _attach_profile, for a row about a.
Attached(row, a, signed) ==
    [Opened(row, signed) EXCEPT !.client = IF ClientOf[a] = NoClient THEN @ ELSE ClientOf[a],
                                !.rows = @ \cup {a}]

\* The writes of import_row.
LandImport(k, a, r) ==
    LET f == form[k]
        found == IF f.copy = NoProfile THEN profile[r] ELSE f.copy
    IN  /\ Filed(k, "import") /\ f.row = {a}
        /\ \/ /\ f.outcome = "created" /\ NextRecord(r)
              /\ person' = [person EXCEPT ![r] = {a}]
              /\ profile' = [profile EXCEPT ![r] = Attached(NoProfile, a, FALSE)]
              /\ UNCHANGED queue
           \/ /\ f.outcome = "linked" /\ f.record = r
              /\ profile' = [profile EXCEPT ![r] = Attached(found, a, FALSE)]
              /\ UNCHANGED <<person, queue>>
           \/ /\ f.outcome = "queued" /\ f.record = r
              /\ Len(queue) < QueueCap
              /\ queue' = Append(queue, [row |-> a, match |-> r, resolution |-> "PENDING"])
              /\ UNCHANGED <<person, profile>>
        /\ UNCHANGED joined

\* resolve_match, which no endpoint calls.
ResolveMatch(i, answer) ==
    LET m == queue[i]
    IN  /\ Accepts("resolve")
        /\ m.resolution = "PENDING"
        /\ queue' = [queue EXCEPT ![i].resolution = answer]
        /\ profile' = IF answer = "CONFIRMED"
                      THEN [profile EXCEPT ![m.match] = Attached(@, m.row, TRUE)] ELSE profile
        /\ UNCHANGED <<person, joined, form, intake>>

-----------------------------------------------------------------------------
(* The other ways in.                                                      *)

\* A case manager registers a youth: a person and no profile.
RegisterYouth(a, r) ==
    /\ Accepts("youth")
    /\ a \in intake.applicants /\ NextRecord(r)
    /\ person' = [person EXCEPT ![r] = {a}]
    /\ UNCHANGED <<profile, queue, joined, form, intake>>

\* register_by_facilitator, her client id typed or left blank.
BeginRegister(k, a, c) ==
    /\ a \in intake.applicants
    /\ ~ClientKnown(c)
    /\ Files(k, "register", [NoForm EXCEPT !.row = {a}, !.client = c])

LandRegister(k, r) ==
    /\ Filed(k, "register")
    /\ NextRecord(r)
    /\ person' = [person EXCEPT ![r] = form[k].row]
    /\ profile' = [profile EXCEPT ![r] =
                      [status |-> "PENDING", route |-> "FACILITATOR", client |-> form[k].client,
                       signed |-> FALSE, rows |-> form[k].row]]
    /\ UNCHANGED <<queue, joined>>

\* A profile for a person on file, by POST: pending, and of no route.
CreateProfile(r, c) ==
    /\ Accepts("create")
    /\ r \in OnFile /\ profile[r].status = "NONE"
    /\ profile' = [profile EXCEPT ![r] = [NoProfile EXCEPT !.status = "PENDING", !.client = c,
                                                          !.rows = person[r]]]
    /\ UNCHANGED <<person, queue, joined, form, intake>>

\* verify, as often as an officer likes.
Verify(r, approved) ==
    /\ Accepts("verify")
    /\ profile[r].status # "NONE"
    /\ profile' = [profile EXCEPT ![r].status = IF approved THEN "VERIFIED" ELSE "REJECTED",
                                  ![r].signed = TRUE]
    /\ UNCHANGED <<person, queue, joined, form, intake>>

LoadProfile(k, r) ==
    /\ profile[r].status # "NONE"
    /\ Files(k, "edit", [NoForm EXCEPT !.record = r, !.copy = profile[r]])

\* PATCH of a profile, of its client id say: all columns of the copy.
EditProfile(k, c) ==
    /\ Filed(k, "edit")
    /\ profile' = [profile EXCEPT ![form[k].record] = [form[k].copy EXCEPT !.client = c]]
    /\ UNCHANGED <<person, queue, joined>>

\* add_member up to the insert ...
BeginJoin(k, r) ==
    /\ profile[r].status = "VERIFIED" /\ r \notin joined
    /\ Files(k, "join", [NoForm EXCEPT !.record = r])

\* ... which wlt_membership_one_open_per_person lets through once.
Join(k) ==
    /\ Filed(k, "join")
    /\ form[k].record \notin joined
    /\ joined' = joined \cup {form[k].record}
    /\ UNCHANGED <<person, profile, queue>>

Leave(r) ==
    /\ Accepts("leave")
    /\ joined' = joined \ {r} /\ r \in joined
    /\ UNCHANGED <<person, profile, queue, form, intake>>

RegistryNext ==
    \/ \E k \in Clerk :
          \/ TornUp(k) \/ FetchProfile(k)
          \/ \E a \in Applicant :
                \/ BeginImport(k, a) \/ FindMatches(k, a)
                \/ \E c \in {ClientOf[a], NoClient} : BeginRegister(k, a, c)
                \/ \E r \in Record : LandImport(k, a, r)
          \/ \E r \in Record : LandRegister(k, r) \/ LoadProfile(k, r) \/ BeginJoin(k, r)
          \/ \E c \in ClientId : EditProfile(k, c)
          \/ Join(k)
    \/ \E i \in DOMAIN queue, answer \in {"CONFIRMED", "REJECTED"} : ResolveMatch(i, answer)
    \/ \E r \in Record :
          \/ \E a \in Applicant : RegisterYouth(a, r)
          \/ \E approved \in BOOLEAN : Verify(r, approved)
          \/ \E c \in ClientId : CreateProfile(r, c)
          \/ Leave(r)

RegistrySpec == RegistryInit /\ [][RegistryNext]_registryVars

-----------------------------------------------------------------------------
(* Properties.                                                             *)

\* An officer has said that the row of a is about the woman of record r.
Confirmed(a, r) ==
    \E i \in DOMAIN queue : queue[i] = [row |-> a, match |-> r, resolution |-> "CONFIRMED"]

Asked(a, r) == a \in person[r] \/ Confirmed(a, r)

\* The particulars of one woman reach the profile of another with another name
\* only when an officer has confirmed the match.  For a row without a client id,
\* whatever is imported, registered and edited at once; for one with, as long as
\* no request writes that id on a profile between the two looks for it.
AskedFirst ==
    \A r \in Record : \A a \in profile[r].rows :
        /\ ClientOf[a] = NoClient \/ intake.atOnce = 1
        /\ \A b \in person[r] : NameOf[b] # NameOf[a]
        => Asked(a, r)

\* A woman whom no extract brought is verified by a person, whichever route
\* finds her again and whatever old copy is saved; and where requests do not
\* overlap, nobody who still waits for that is in a group.
ExceptionsAreSigned ==
    \A r \in Record :
        /\ profile[r].route # "IMPORT" /\ profile[r].status = "VERIFIED" => profile[r].signed
        /\ intake.atOnce = 1 /\ r \in joined => profile[r].status # "PENDING"

\* No particulars are taken for those of a woman of another name, and nobody is
\* taken in, without a person who answers for it (services/enrolment.py).  Women
\* of one name are merged with nobody asked, which the property leaves out.
AskedAndSigned == AskedFirst /\ ExceptionsAreSigned
=============================================================================
