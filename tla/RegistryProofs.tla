--------------------------- MODULE RegistryProofs ---------------------------
(* What the register promises, for any women, names, clerks and intakes,   *)
(* and the accounts, for any people, places, partners and requests.        *)
EXTENDS Registry, Accounts, FiniteSetTheorems, SequenceTheorems, TLAPS

\* A request that has found a person says whom, and a registration whom it is for.
Filled(f) ==
    /\ f.op \in {"edit", "join"} \/ f.outcome \in {"linked", "queued"} => f.record \in Record
    /\ f.op = "register" => f.row # {}
    /\ f.outcome # "" => f.op = "import"
    /\ f.op = "import" /\ f.outcome = "" => f.copy = NoProfile

\* Records, profiles, matches and forms are well formed.
RegistryTypeOK ==
    /\ person \in [Record -> SUBSET Applicant]
    /\ profile \in [Record -> ProfileRow]
    /\ queue \in Seq(MatchRow)
    /\ joined \subseteq Record
    /\ form \in [Clerk -> Form]
    /\ \A k \in Clerk : Filled(form[k])
    /\ intake \in Intake

\* Profiles, matches and requests are about persons on file.
FiledFirst ==
    /\ \A r \in Record : profile[r].status # "NONE" => person[r] # {}
    /\ \A i \in DOMAIN queue : person[queue[i].match] # {}
    /\ \A k \in Clerk : form[k].record \in Record => person[form[k].record] # {}

Signed(row) == row.route # "IMPORT" /\ row.status = "VERIFIED" => row.signed

\* Old copies are as well signed as the profiles.
CopiesSigned ==
    /\ \A r \in Record : Signed(profile[r])
    /\ \A k \in Clerk : Signed(form[k].copy)

\* Where requests do not overlap, nothing a request holds is old.
OneAtATime ==
    intake.atOnce = 1 =>
        /\ \A k, j \in Clerk : form[k] # NoForm /\ form[j] # NoForm => k = j
        /\ \A k \in Clerk :
              /\ form[k].copy = NoProfile \/ form[k].copy = profile[form[k].record]
              /\ form[k].op = "edit" => form[k].copy = profile[form[k].record]
              /\ form[k].op = "join" => profile[form[k].record].status = "VERIFIED"
              /\ form[k].op = "import" /\ form[k].outcome = "" =>
                    \A a \in form[k].row : ~ClientKnown(ClientOf[a])
        /\ \A r \in joined : profile[r].status \in {"VERIFIED", "REJECTED"}

SameName(a, r) == \E b \in person[r] : NameOf[b] = NameOf[a]

\* The row bears a client id, which another request may be writing on a profile.
Overtaken(a) == ClientOf[a] # NoClient /\ intake.atOnce # 1

Explained(a, r) == SameName(a, r) \/ Asked(a, r) \/ Overtaken(a)

\* Whatever particulars a profile or an old copy shows have come there by a
\* namesake, by an officer or by a client id, and so will those of an import
\* under way.
RowsExplained ==
    /\ \A r \in Record : \A a \in profile[r].rows : Explained(a, r)
    /\ \A k \in Clerk, r \in Record :
          form[k].record = r =>
              /\ \A a \in form[k].copy.rows : Explained(a, r)
              /\ form[k].outcome = "linked" => \A a \in form[k].row : Explained(a, r)

Known == RegistryTypeOK /\ FiledFirst

\* The profile that an import found, or finds when it writes.
FoundProfile(k, r) == IF form[k].copy = NoProfile THEN profile[r] ELSE form[k].copy

\* The three ends of an import.
LandCreated(k, a, r) ==
    /\ form[k].outcome = "created" /\ NextRecord(r)
    /\ person' = [person EXCEPT ![r] = {a}]
    /\ profile' = [profile EXCEPT ![r] = Attached(NoProfile, a, FALSE)]
    /\ queue' = queue

LandLinked(k, a, r) ==
    /\ form[k].outcome = "linked" /\ form[k].record = r
    /\ profile' = [profile EXCEPT ![r] = Attached(FoundProfile(k, r), a, FALSE)]
    /\ person' = person /\ queue' = queue

LandQueued(k, a, r) ==
    /\ form[k].outcome = "queued" /\ form[k].record = r
    /\ queue' = Append(queue, [row |-> a, match |-> r, resolution |-> "PENDING"])
    /\ person' = person /\ profile' = profile

-----------------------------------------------------------------------------
(* Facts of the forms.                                                     *)

LEMMA UnfiledFacts == Unfiled \notin Record
BY DEF Unfiled, Record

LEMMA NoFormFacts ==
    /\ NoProfile \in ProfileRow /\ NoForm \in Form
    /\ NoProfile.status = "NONE" /\ NoProfile.route = "" /\ NoProfile.rows = {}
    /\ NoForm.op = "none" /\ NoForm.record = Unfiled /\ NoForm.copy = NoProfile
    /\ NoForm.row = {} /\ NoForm.outcome = ""
<1>1. NoProfile \in ProfileRow
  BY DEF NoProfile, ProfileRow
<1>2. NoForm \in Form
  BY <1>1 DEF NoForm, Form
<1> QED
  BY <1>1, <1>2 DEF NoForm, NoProfile

\* Where requests do not overlap, one is accepted when none is under way.
LEMMA NobodyElse ==
    ASSUME RegistryTypeOK, NEW op, Accepts(op), intake.atOnce = 1
    PROVE  \A k \in Clerk : form[k] = NoForm
<1> DEFINE busy == {k \in Clerk : form[k] # NoForm}
<1>1. IsFiniteSet(busy)
  BY RegistryAssumption, FS_Subset
<1>2. Cardinality(busy) \in Nat /\ Cardinality(busy) < 1
  BY <1>1, FS_CardinalityType DEF Accepts
<1>3. busy = {}
  BY <1>1, <1>2, FS_EmptySet
<1> QED
  BY <1>3

\* A score of one is a name of her own.
LEMMA IsHerFacts ==
    ASSUME RegistryTypeOK, NEW r \in Record, NEW a \in Applicant, person[r] # {}, IsHer(r, a)
    PROVE  SameName(a, r)
<1> DEFINE names == {NameOf[b] : b \in person[r]}
           n == CHOOSE m \in names : TRUE
<1>1. person[r] \subseteq Applicant
  BY DEF RegistryTypeOK
<1>2. n \in names
  OBVIOUS
<1>3. PICK b \in person[r] : n = NameOf[b]
  BY <1>2
<1>4. n \in Name /\ NameOf[a] \in Name
  BY <1>1, <1>3, RegistryAssumption
<1>5. Resemblance[n][NameOf[a]] \in 0 .. 100
  BY <1>4, RegistryAssumption
<1>6. Resemblance[n][NameOf[a]] >= 100
  BY DEF IsHer, Score
<1>7. n = NameOf[a]
  BY <1>4, <1>5, <1>6, RegistryAssumption
<1> QED
  BY <1>3, <1>7 DEF SameName

LEMMA AttachedFacts ==
    ASSUME NEW row \in ProfileRow, NEW a \in Applicant, NEW signed \in BOOLEAN
    PROVE  /\ Attached(row, a, signed) \in ProfileRow
           /\ Attached(row, a, signed).rows = row.rows \cup {a}
           /\ row.status # "NONE" => Attached(row, a, signed).status = row.status
           /\ row.status = "NONE" => Attached(row, a, signed).status = "VERIFIED"
           /\ Signed(row) => Signed(Attached(row, a, signed))
<1> DEFINE o == Opened(row, signed)
<1>1. /\ o \in ProfileRow /\ o.rows = row.rows
      /\ row.status # "NONE" => o.status = row.status
      /\ row.status = "NONE" => o.status = "VERIFIED"
      /\ Signed(row) => Signed(o)
  BY DEF Opened, ProfileRow, Signed
<1>2. ClientOf[a] \in ClientId \cup {NoClient}
  BY RegistryAssumption
<1>3. /\ Attached(row, a, signed) \in ProfileRow
      /\ Attached(row, a, signed).rows = o.rows \cup {a}
      /\ Attached(row, a, signed).status = o.status
      /\ Attached(row, a, signed).route = o.route
      /\ Attached(row, a, signed).signed = o.signed
  <2> HIDE DEF o
  <2> QED
    BY <1>1, <1>2 DEF Attached, ProfileRow, o
<1> QED
  BY <1>1, <1>3 DEF Signed

-----------------------------------------------------------------------------
(* Well-formedness.                                                        *)

\* What begins leaves a well-formed form.
LEMMA FilesTypes ==
    ASSUME RegistryTypeOK, NEW k \in Clerk, NEW op \in IntakeOps, NEW f \in Form,
           Filled([f EXCEPT !.op = op]), Files(k, op, f)
    PROVE  RegistryTypeOK'
<1>1. [f EXCEPT !.op = op] \in Form
  BY DEF Form
<1>2. form' = [form EXCEPT ![k] = [f EXCEPT !.op = op]]
  BY DEF Files
<1>3. form' \in [Clerk -> Form]
  BY <1>1, <1>2 DEF RegistryTypeOK
<1>4. ASSUME NEW j \in Clerk PROVE Filled(form'[j])
  BY <1>2 DEF RegistryTypeOK
<1> QED
  BY <1>3, <1>4 DEF RegistryTypeOK, Files

\* What ends leaves an empty one.
LEMMA FiledTypes ==
    ASSUME RegistryTypeOK, NEW k \in Clerk, NEW op, Filed(k, op)
    PROVE  /\ form' \in [Clerk -> Form] /\ intake' \in Intake
           /\ \A j \in Clerk : Filled(form'[j])
BY NoFormFacts DEF RegistryTypeOK, Filed, Filled

LEMMA LandImportEnds ==
    ASSUME NEW k, NEW a, NEW r, LandImport(k, a, r)
    PROVE  /\ Filed(k, "import") /\ form[k].row = {a} /\ joined' = joined
           /\ LandCreated(k, a, r) \/ LandLinked(k, a, r) \/ LandQueued(k, a, r)
BY DEF LandImport, LandCreated, LandLinked, LandQueued, FoundProfile

\* An import that finds somebody goes on, with whom it found.
LEMMA AdvanceTypes ==
    ASSUME RegistryTypeOK, NEW k \in Clerk,
           (\E a \in Applicant : FindMatches(k, a)) \/ FetchProfile(k)
    PROVE  RegistryTypeOK'
<1>1. form \in [Clerk -> Form] /\ form[k] \in Form
  BY DEF RegistryTypeOK
<1>2. ASSUME NEW outcome \in {"linked", "queued", "created"}, NEW r \in Record \cup {Unfiled},
             outcome # "created" => r \in Record, form[k].op = "import", Finds(k, outcome, r)
      PROVE  RegistryTypeOK'
  <2> DEFINE new == [form[k] EXCEPT !.outcome = outcome, !.record = r]
  <2>1. form' = [form EXCEPT ![k] = new]
    BY <1>1, <1>2 DEF Finds
  <2>2. new \in Form /\ Filled(new)
    BY <1>1, <1>2 DEF Form, Filled
  <2> HIDE DEF new
  <2>3. form' \in [Clerk -> Form] /\ \A j \in Clerk : Filled(form'[j])
    BY <1>1, <2>1, <2>2 DEF RegistryTypeOK
  <2> QED
    BY <1>2, <2>3 DEF Finds, RegistryTypeOK
<1>3. ASSUME NEW a \in Applicant, FindMatches(k, a) PROVE RegistryTypeOK'
  <2>1. \/ \E r \in Record : \E outcome \in {"linked", "queued"} : Finds(k, outcome, r)
        \/ Finds(k, "created", Unfiled)
    BY <1>3 DEF FindMatches, Holders, BestMatches, Matches, OnFile
  <2>2. form[k].op = "import"
    BY <1>3 DEF FindMatches
  <2> QED
    BY <1>2, <2>1, <2>2
<1>4. ASSUME FetchProfile(k) PROVE RegistryTypeOK'
  <2> DEFINE new == [form[k] EXCEPT !.copy = profile[form[k].record]]
  <2>1. form' = [form EXCEPT ![k] = new] /\ form[k].record \in Record
    BY <1>1, <1>4 DEF FetchProfile, RegistryTypeOK, Filled
  <2>2. new \in Form /\ Filled(new)
    <3>1. profile[form[k].record] \in ProfileRow
      BY <2>1 DEF RegistryTypeOK
    <3>2. new \in Form
      BY <1>1, <3>1 DEF Form
    <3>3. new.op = form[k].op /\ new.outcome = "linked" /\ new.record = form[k].record
             /\ new.row = form[k].row
      BY <1>1, <1>4 DEF Form, FetchProfile
    <3>4. Filled(form[k])
      BY DEF RegistryTypeOK
    <3> HIDE DEF new
    <3> QED
      BY <2>1, <3>2, <3>3, <3>4, <1>4 DEF Filled, FetchProfile
  <2> HIDE DEF new
  <2>3. form' \in [Clerk -> Form] /\ \A j \in Clerk : Filled(form'[j])
    BY <1>1, <2>1, <2>2 DEF RegistryTypeOK
  <2> QED
    BY <1>4, <2>3 DEF FetchProfile, RegistryTypeOK
<1> QED
  BY <1>3, <1>4

LEMMA TypesKept ==
    ASSUME RegistryTypeOK, [RegistryNext]_registryVars
    PROVE  RegistryTypeOK'
<1>1. ASSUME NEW k \in Clerk, TornUp(k) PROVE RegistryTypeOK'
  BY <1>1, NoFormFacts DEF RegistryTypeOK, TornUp, Filled
<1>2. ASSUME NEW k \in Clerk, NEW a \in Applicant, BeginImport(k, a) PROVE RegistryTypeOK'
  <2> DEFINE f == [NoForm EXCEPT !.row = {a}]
  <2>1. f \in Form /\ Filled([f EXCEPT !.op = "import"])
    BY NoFormFacts DEF Form, Filled
  <2>2. Files(k, "import", f) /\ "import" \in IntakeOps
    BY <1>2 DEF BeginImport, IntakeOps
  <2> HIDE DEF f
  <2> QED
    BY <2>1, <2>2, FilesTypes
<1>3. ASSUME NEW k \in Clerk, NEW a \in Applicant, NEW c \in {ClientOf[a], NoClient},
             BeginRegister(k, a, c)
      PROVE  RegistryTypeOK'
  <2>1. LET f == [NoForm EXCEPT !.row = {a}, !.client = c]
        IN  f \in Form /\ Filled([f EXCEPT !.op = "register"])
    <3>1. c \in ClientId \cup {NoClient}
      BY RegistryAssumption
    <3> QED
      BY <3>1, NoFormFacts DEF Form, Filled
  <2> QED
    BY <1>3, <2>1, FilesTypes DEF BeginRegister, IntakeOps
<1>4. ASSUME NEW k \in Clerk, NEW a \in Applicant, NEW r \in Record, LandImport(k, a, r)
      PROVE  RegistryTypeOK'
  <2> DEFINE m == [row |-> a, match |-> r, resolution |-> "PENDING"]
  <2>1. /\ Filed(k, "import") /\ joined' = joined
        /\ LandCreated(k, a, r) \/ LandLinked(k, a, r) \/ LandQueued(k, a, r)
    BY <1>4, LandImportEnds
  <2>2. FoundProfile(k, r) \in ProfileRow
    BY DEF RegistryTypeOK, Form, FoundProfile
  <2>3. /\ Attached(FoundProfile(k, r), a, FALSE) \in ProfileRow
        /\ Attached(NoProfile, a, FALSE) \in ProfileRow
    BY <2>2, AttachedFacts, NoFormFacts
  <2>4. m \in MatchRow
    BY DEF MatchRow
  <2>5. person' \in [Record -> SUBSET Applicant]
    <3>1. person \in [Record -> SUBSET Applicant]
      BY DEF RegistryTypeOK
    <3>2. person' = person \/ person' = [person EXCEPT ![r] = {a}]
      BY <2>1 DEF LandCreated, LandLinked, LandQueued
    <3> QED
      BY <3>1, <3>2
  <2>6. profile' \in [Record -> ProfileRow]
    BY <2>1, <2>3 DEF LandCreated, LandLinked, LandQueued, RegistryTypeOK
  <2>7. queue' \in Seq(MatchRow)
    <3>1. queue \in Seq(MatchRow)
      BY DEF RegistryTypeOK
    <3>2. queue' = queue \/ queue' = Append(queue, m)
      BY <2>1 DEF LandCreated, LandLinked, LandQueued
    <3> HIDE DEF m
    <3> QED
      BY <2>4, <3>1, <3>2
  <2> QED
    BY <2>1, <2>5, <2>6, <2>7, FiledTypes DEF RegistryTypeOK
<1>5. ASSUME NEW k \in Clerk, NEW r \in Record, LandRegister(k, r) PROVE RegistryTypeOK'
  <2> DEFINE row == [status |-> "PENDING", route |-> "FACILITATOR", client |-> form[k].client,
                     signed |-> FALSE, rows |-> form[k].row]
  <2>1. row \in ProfileRow /\ form[k].row \subseteq Applicant
    BY DEF ProfileRow, RegistryTypeOK, Form
  <2>2. profile' = [profile EXCEPT ![r] = row] /\ Filed(k, "register")
    BY <1>5 DEF LandRegister
  <2> QED
    BY <1>5, <2>1, <2>2, FiledTypes DEF LandRegister, RegistryTypeOK
<1>6. ASSUME NEW k \in Clerk, NEW r \in Record, LoadProfile(k, r) \/ BeginJoin(k, r)
      PROVE  RegistryTypeOK'
  <2> DEFINE f == [NoForm EXCEPT !.record = r, !.copy = profile[r]]
             g == [NoForm EXCEPT !.record = r]
  <2>1. /\ f \in Form /\ Filled([f EXCEPT !.op = "edit"])
        /\ g \in Form /\ Filled([g EXCEPT !.op = "join"])
    BY NoFormFacts DEF Form, RegistryTypeOK, Filled
  <2>2. Files(k, "edit", f) \/ Files(k, "join", g)
    BY <1>6 DEF LoadProfile, BeginJoin
  <2> HIDE DEF f, g
  <2> QED
    BY <2>1, <2>2, FilesTypes DEF IntakeOps
<1>7. ASSUME NEW k \in Clerk, NEW c \in ClientId, EditProfile(k, c) PROVE RegistryTypeOK'
  <2>1. form[k].copy \in ProfileRow
    BY DEF RegistryTypeOK, Form
  <2>2. [form[k].copy EXCEPT !.client = c] \in ProfileRow
    BY <2>1 DEF ProfileRow
  <2> QED
    BY <1>7, <2>2, FiledTypes DEF EditProfile, RegistryTypeOK
<1>8. ASSUME NEW k \in Clerk, Join(k) PROVE RegistryTypeOK'
  <2>1. form[k].record \in Record
    BY <1>8 DEF Join, Filed, RegistryTypeOK, Filled
  <2> QED
    BY <1>8, <2>1, FiledTypes DEF Join, RegistryTypeOK
<1>9. ASSUME NEW i \in DOMAIN queue, NEW answer \in {"CONFIRMED", "REJECTED"},
             ResolveMatch(i, answer)
      PROVE  RegistryTypeOK'
  <2>1. queue[i] \in MatchRow /\ queue[i].match \in Record /\ queue[i].row \in Applicant
    <3>1. queue \in Seq(MatchRow)
      BY DEF RegistryTypeOK
    <3>2. queue[i] \in MatchRow
      BY <3>1
    <3> QED
      BY <3>2 DEF MatchRow
  <2>2. profile[queue[i].match] \in ProfileRow
    BY <2>1 DEF RegistryTypeOK
  <2>3. Attached(profile[queue[i].match], queue[i].row, TRUE) \in ProfileRow
    BY <2>1, <2>2, AttachedFacts
  <2>4. [queue[i] EXCEPT !.resolution = answer] \in MatchRow
    BY <2>1 DEF MatchRow
  <2>5. queue' = [queue EXCEPT ![i] = [queue[i] EXCEPT !.resolution = answer]]
    BY <1>9 DEF ResolveMatch
  <2>6. queue' \in Seq(MatchRow)
    BY <2>4, <2>5 DEF RegistryTypeOK
  <2>7. profile' \in [Record -> ProfileRow]
    BY <1>9, <2>3 DEF ResolveMatch, RegistryTypeOK
  <2> QED
    BY <1>9, <2>6, <2>7 DEF ResolveMatch, RegistryTypeOK
<1>10. ASSUME NEW a \in Applicant, NEW r \in Record, RegisterYouth(a, r) PROVE RegistryTypeOK'
  BY <1>10 DEF RegisterYouth, RegistryTypeOK
<1>11. ASSUME NEW r \in Record, NEW approved \in BOOLEAN, Verify(r, approved)
       PROVE  RegistryTypeOK'
  <2> DEFINE row == [profile[r] EXCEPT !.status = IF approved THEN "VERIFIED" ELSE "REJECTED",
                                       !.signed = TRUE]
  <2>1. row \in ProfileRow
    BY DEF RegistryTypeOK, ProfileRow
  <2>2. profile' = [profile EXCEPT ![r] = row]
    BY <1>11 DEF Verify, RegistryTypeOK
  <2> QED
    BY <1>11, <2>1, <2>2 DEF Verify, RegistryTypeOK
<1>12. ASSUME NEW r \in Record, NEW c \in ClientId, CreateProfile(r, c) PROVE RegistryTypeOK'
  <2>1. [NoProfile EXCEPT !.status = "PENDING", !.client = c, !.rows = person[r]] \in ProfileRow
    BY NoFormFacts DEF RegistryTypeOK, ProfileRow
  <2> QED
    BY <1>12, <2>1 DEF CreateProfile, RegistryTypeOK
<1>13. ASSUME NEW r \in Record, Leave(r) PROVE RegistryTypeOK'
  BY <1>13 DEF Leave, RegistryTypeOK
<1>14. CASE UNCHANGED registryVars
  BY <1>14 DEF registryVars, RegistryTypeOK
<1>15. ASSUME NEW k \in Clerk, (\E a \in Applicant : FindMatches(k, a)) \/ FetchProfile(k)
       PROVE  RegistryTypeOK'
  BY <1>15, AdvanceTypes
<1> QED
  BY <1>1, <1>2, <1>3, <1>4, <1>5, <1>6, <1>7, <1>8, <1>9, <1>10, <1>11, <1>12, <1>13, <1>14,
     <1>15 DEF RegistryNext

-----------------------------------------------------------------------------
(* The steps, grouped by what they write.                                  *)

\* What the request of k holds when it begins, or goes on as g.
Fresh(k, g) ==
    /\ g.record \in Record => person[g.record] # {}
    /\ g.copy = NoProfile \/ (g.record \in Record /\ g.copy = profile[g.record])
    /\ g.op = "edit" => g.copy = profile[g.record]
    /\ g.op = "join" => profile[g.record].status = "VERIFIED"
    /\ g.op = "import" /\ g.outcome = "" => \A a \in g.row : ~ClientKnown(ClientOf[a])
    /\ g.outcome = "linked" =>
          \A a \in g.row :
             \/ Explained(a, g.record)
             \/ form[k].outcome = "linked" /\ form[k].record = g.record /\ a \in form[k].row

\* A request begins, goes on, or is given up: nothing else is written.
Begun(k) ==
    /\ UNCHANGED <<person, profile, queue, joined, intake>>
    /\ form' = [form EXCEPT ![k] = form'[k]]
    /\ form'[k] # NoForm =>
          /\ form[k] # NoForm \/ \E op \in IntakeOps : Accepts(op)
          /\ Fresh(k, form'[k])

LEMMA FilesBegun ==
    ASSUME Known, NEW k \in Clerk, NEW op \in IntakeOps, NEW f, Files(k, op, f),
           Fresh(k, [f EXCEPT !.op = op])
    PROVE  Begun(k)
<1>1. form'[k] = [f EXCEPT !.op = op]
  BY DEF Files, Known, RegistryTypeOK
<1> QED
  BY <1>1 DEF Files, Begun

LEMMA TornUpBegun ==
    ASSUME Known, NEW k \in Clerk, TornUp(k)
    PROVE  Begun(k)
<1>1. form'[k] = NoForm
  BY DEF TornUp, Known, RegistryTypeOK
<1> QED
  BY <1>1 DEF TornUp, Begun

LEMMA ImportBegun ==
    ASSUME Known, NEW k \in Clerk, NEW a \in Applicant, BeginImport(k, a)
    PROVE  Begun(k)
<1> DEFINE f == [NoForm EXCEPT !.row = {a}]
           h == [f EXCEPT !.op = "import"]
<1>1. Files(k, "import", f) /\ ~ClientKnown(ClientOf[a])
  BY DEF BeginImport
<1>2. /\ h.op = "import" /\ h.outcome = "" /\ h.record = Unfiled /\ h.copy = NoProfile
      /\ h.row = {a}
  BY DEF NoForm
<1>3. Fresh(k, h)
  <2> HIDE DEF h
  <2> QED
    BY <1>1, <1>2, UnfiledFacts DEF Fresh
<1> HIDE DEF f
<1> QED
  BY <1>1, <1>3, FilesBegun DEF IntakeOps

\* An import finds somebody by her name, unless her client id has turned up.
LEMMA FindBegun ==
    ASSUME Known, OneAtATime, NEW k \in Clerk, NEW a \in Applicant, FindMatches(k, a)
    PROVE  Begun(k)
<1>1. /\ form \in [Clerk -> Form] /\ form[k] \in Form
      /\ form[k].op = "import" /\ form[k].row = {a} /\ form[k].outcome = ""
  BY DEF Known, RegistryTypeOK, FindMatches
<1>2. form[k] # NoForm
  BY <1>1, NoFormFacts
<1>3. ASSUME NEW outcome \in {"linked", "queued", "created"}, NEW r \in Record \cup {Unfiled},
             r \in Record => person[r] # {}, outcome = "linked" => Explained(a, r),
             form[k].copy = NoProfile, Finds(k, outcome, r)
      PROVE  Begun(k)
  <2> DEFINE new == [form[k] EXCEPT !.outcome = outcome, !.record = r]
  <2>1. form' = [form EXCEPT ![k] = new] /\ form'[k] = new
    BY <1>1, <1>3 DEF Finds
  <2>2. /\ new.op = "import" /\ new.outcome = outcome /\ new.record = r /\ new.row = {a}
        /\ new.copy = NoProfile
    BY <1>1, <1>3 DEF Form
  <2> HIDE DEF new
  <2>3. Fresh(k, new)
    BY <1>3, <2>2 DEF Fresh
  <2> QED
    BY <1>2, <1>3, <2>1, <2>3 DEF Begun, Finds
<1>4. form[k].copy = NoProfile
  BY <1>1 DEF Known, RegistryTypeOK, Filled
<1>5. ASSUME NEW r \in Holders(ClientOf[a]), Finds(k, "linked", r) PROVE Begun(k)
  <2>1. r \in Record /\ person[r] # {} /\ ClientOf[a] # NoClient
    BY <1>5 DEF Holders, Known, FiledFirst
  <2>2. intake.atOnce # 1
    BY <1>1, <1>5 DEF OneAtATime, ClientKnown
  <2> QED
    BY <1>3, <1>4, <1>5, <2>1, <2>2 DEF Explained, Overtaken
<1>6. ASSUME NEW r \in BestMatches(a), Finds(k, IF IsHer(r, a) THEN "linked" ELSE "queued", r)
      PROVE  Begun(k)
  <2>1. r \in Record /\ person[r] # {}
    BY <1>6 DEF BestMatches, Matches, OnFile
  <2>2. IsHer(r, a) => SameName(a, r)
    BY <2>1, IsHerFacts DEF Known
  <2> QED
    BY <1>3, <1>4, <1>6, <2>1, <2>2 DEF Explained
<1>7. Finds(k, "created", Unfiled) => Begun(k)
  BY <1>3, <1>4, UnfiledFacts
<1> QED
  BY <1>5, <1>6, <1>7 DEF FindMatches

LEMMA FetchBegun ==
    ASSUME Known, NEW k \in Clerk, FetchProfile(k)
    PROVE  Begun(k)
<1>1. /\ form \in [Clerk -> Form] /\ form[k] \in Form
      /\ form[k].outcome = "linked" /\ form[k].record \in Record
  BY DEF Known, RegistryTypeOK, FetchProfile, Filled
<1>2. form[k] # NoForm /\ form[k].op = "import"
  BY <1>1, NoFormFacts DEF Known, RegistryTypeOK, Filled
<1> DEFINE new == [form[k] EXCEPT !.copy = profile[form[k].record]]
<1>3. form' = [form EXCEPT ![k] = new] /\ form'[k] = new
  BY <1>1 DEF FetchProfile
<1>4. /\ new.op = "import" /\ new.outcome = "linked" /\ new.record = form[k].record
      /\ new.row = form[k].row /\ new.copy = profile[form[k].record]
  BY <1>1, <1>2 DEF Form
<1> HIDE DEF new
<1>5. Fresh(k, new)
  BY <1>1, <1>4 DEF Fresh, Known, FiledFirst
<1> QED
  BY <1>2, <1>3, <1>5 DEF Begun, FetchProfile

LEMMA OthersBegun ==
    ASSUME Known, NEW k \in Clerk,
           \/ \E a \in Applicant : \E c \in {ClientOf[a], NoClient} : BeginRegister(k, a, c)
           \/ \E r \in Record : LoadProfile(k, r) \/ BeginJoin(k, r)
    PROVE  Begun(k)
<1>1. ASSUME NEW a \in Applicant, NEW c \in {ClientOf[a], NoClient}, BeginRegister(k, a, c)
      PROVE  Begun(k)
  <2> DEFINE f == [NoForm EXCEPT !.row = {a}, !.client = c]
  <2>1. Fresh(k, [f EXCEPT !.op = "register"])
    <3> DEFINE h == [f EXCEPT !.op = "register"]
    <3>1. h.op = "register" /\ h.outcome = "" /\ h.record = Unfiled /\ h.copy = NoProfile
      BY DEF NoForm
    <3>2. Fresh(k, h)
      <4> HIDE DEF h
      <4> QED
        BY <3>1, UnfiledFacts DEF Fresh
    <3> QED
      BY <3>2
  <2>2. Files(k, "register", f)
    BY <1>1 DEF BeginRegister
  <2> HIDE DEF f
  <2> QED
    BY <2>1, <2>2, FilesBegun DEF IntakeOps
<1>2. ASSUME NEW r \in Record, LoadProfile(k, r) PROVE Begun(k)
  <2> DEFINE f == [NoForm EXCEPT !.record = r, !.copy = profile[r]]
  <2>1. person[r] # {}
    BY <1>2 DEF LoadProfile, Known, FiledFirst
  <2>2. Fresh(k, [f EXCEPT !.op = "edit"])
    BY <2>1 DEF Fresh, NoForm
  <2>3. Files(k, "edit", f)
    BY <1>2 DEF LoadProfile
  <2> HIDE DEF f
  <2> QED
    BY <2>2, <2>3, FilesBegun DEF IntakeOps
<1>3. ASSUME NEW r \in Record, BeginJoin(k, r) PROVE Begun(k)
  <2> DEFINE f == [NoForm EXCEPT !.record = r]
  <2>1. person[r] # {} /\ profile[r].status = "VERIFIED"
    BY <1>3 DEF BeginJoin, Known, FiledFirst
  <2>2. Fresh(k, [f EXCEPT !.op = "join"])
    <3> DEFINE h == [f EXCEPT !.op = "join"]
    <3>1. h.op = "join" /\ h.outcome = "" /\ h.record = r /\ h.copy = NoProfile
      BY DEF NoForm
    <3>2. Fresh(k, h)
      <4> HIDE DEF h
      <4> QED
        BY <2>1, <3>1 DEF Fresh
    <3> QED
      BY <3>2
  <2>3. Files(k, "join", f)
    BY <1>3 DEF BeginJoin
  <2> HIDE DEF f
  <2> QED
    BY <2>2, <2>3, FilesBegun DEF IntakeOps
<1> QED
  BY <1>1, <1>2, <1>3

\* Every step but those that begin a request, take it further or give it up.
Writes ==
    \/ \E k \in Clerk :
          \/ \E a \in Applicant, r \in Record : LandImport(k, a, r)
          \/ \E r \in Record : LandRegister(k, r)
          \/ \E c \in ClientId : EditProfile(k, c)
          \/ Join(k)
    \/ \E i \in DOMAIN queue, answer \in {"CONFIRMED", "REJECTED"} : ResolveMatch(i, answer)
    \/ \E r \in Record :
          \/ \E a \in Applicant : RegisterYouth(a, r)
          \/ \E approved \in BOOLEAN : Verify(r, approved)
          \/ \E c \in ClientId : CreateProfile(r, c)
          \/ Leave(r)

LEMMA StepKinds ==
    ASSUME Known, OneAtATime, [RegistryNext]_registryVars
    PROVE  Writes \/ (\E k \in Clerk : Begun(k)) \/ UNCHANGED registryVars
<1>1. ASSUME NEW k \in Clerk,
             \/ TornUp(k) \/ FetchProfile(k)
             \/ \E a \in Applicant : BeginImport(k, a) \/ FindMatches(k, a)
      PROVE  Begun(k)
  BY <1>1, TornUpBegun, FetchBegun, ImportBegun, FindBegun
<1> QED
  BY <1>1, OthersBegun DEF RegistryNext, Writes

-----------------------------------------------------------------------------
(* Persons stay on file.                                                   *)

PersonsStay == \A r \in Record : person[r] # {} => person'[r] = person[r]

LEMMA NewPerson ==
    ASSUME Known, NEW r \in Record, NEW p, NextRecord(r), person' = [person EXCEPT ![r] = p]
    PROVE  PersonsStay
BY DEF NextRecord, OnFile, PersonsStay, Known, RegistryTypeOK

LEMMA PersonsKept ==
    ASSUME Known, OneAtATime, [RegistryNext]_registryVars
    PROVE  PersonsStay
<1>1. ASSUME NEW k \in Clerk, NEW a \in Applicant, NEW r \in Record, LandImport(k, a, r)
      PROVE  PersonsStay
  BY <1>1, LandImportEnds, NewPerson DEF LandCreated, LandLinked, LandQueued, PersonsStay
<1>2. ASSUME NEW k \in Clerk, NEW r \in Record, LandRegister(k, r) PROVE PersonsStay
  BY <1>2, NewPerson DEF LandRegister
<1>3. ASSUME NEW a \in Applicant, NEW r \in Record, RegisterYouth(a, r) PROVE PersonsStay
  BY <1>3, NewPerson DEF RegisterYouth
<1> QED
  BY <1>1, <1>2, <1>3, StepKinds
     DEF Writes, Begun, EditProfile, Join, ResolveMatch, Verify, CreateProfile, Leave, PersonsStay,
         registryVars

\* A form that is cleared names nobody.
LEMMA FiledNames ==
    ASSUME Known, PersonsStay, NEW k \in Clerk, NEW op, Filed(k, op)
    PROVE  \A j \in Clerk : form'[j].record \in Record => person'[form'[j].record] # {}
<1>1. \A j \in Clerk : form'[j] = form[j] \/ form'[j] = NoForm
  BY DEF Filed, Known, RegistryTypeOK
<1> QED
  BY <1>1, UnfiledFacts, NoFormFacts DEF PersonsStay, Known, FiledFirst

LEMMA FiledFirstKept ==
    ASSUME Known, OneAtATime, [RegistryNext]_registryVars
    PROVE  FiledFirst'
<1>1. PersonsStay
  BY PersonsKept
<1>2. /\ person \in [Record -> SUBSET Applicant] /\ profile \in [Record -> ProfileRow]
      /\ \A i \in DOMAIN queue : queue[i].match \in Record
      /\ \A k \in Clerk : form[k] \in Form
  <2>1. \A i \in DOMAIN queue : queue[i] \in MatchRow
    BY DEF Known, RegistryTypeOK
  <2> QED
    BY <2>1 DEF Known, RegistryTypeOK, MatchRow
<1>3. ASSUME \A r \in Record : profile'[r].status # "NONE" => person'[r] # {},
             queue' = queue,
             \A k \in Clerk : form'[k].record \in Record => person'[form'[k].record] # {}
      PROVE  FiledFirst'
  BY <1>1, <1>2, <1>3 DEF Known, FiledFirst, PersonsStay
<1>4. ASSUME NEW r \in Record, NEW row, profile' = [profile EXCEPT ![r] = row], person'[r] # {}
      PROVE  \A q \in Record : profile'[q].status # "NONE" => person'[q] # {}
  BY <1>1, <1>2, <1>4 DEF Known, FiledFirst, PersonsStay
<1>5. ASSUME profile' = profile
      PROVE  \A q \in Record : profile'[q].status # "NONE" => person'[q] # {}
  BY <1>1, <1>5 DEF Known, FiledFirst, PersonsStay
<1>6. ASSUME form' = form
      PROVE  \A k \in Clerk : form'[k].record \in Record => person'[form'[k].record] # {}
  BY <1>1, <1>6 DEF Known, FiledFirst, PersonsStay
<1>7. ASSUME NEW k \in Clerk, Begun(k) PROVE FiledFirst'
  <2>1. \A j \in Clerk : form'[j] = form[j] \/ form'[j] = NoForm \/ (j = k /\ Fresh(k, form'[j]))
    BY <1>7 DEF Begun, Known, RegistryTypeOK
  <2>2. \A j \in Clerk : form'[j].record \in Record => person'[form'[j].record] # {}
    BY <1>7, <2>1, UnfiledFacts, NoFormFacts DEF Begun, Fresh, Known, FiledFirst
  <2> QED
    BY <1>3, <1>5, <1>7, <2>2 DEF Begun
<1>8. ASSUME NEW k \in Clerk, NEW a \in Applicant, NEW r \in Record, LandImport(k, a, r)
      PROVE  FiledFirst'
  <2>1. /\ Filed(k, "import")
        /\ LandCreated(k, a, r) \/ LandLinked(k, a, r) \/ LandQueued(k, a, r)
    BY <1>8, LandImportEnds
  <2>2. \A j \in Clerk : form'[j].record \in Record => person'[form'[j].record] # {}
    BY <1>1, <2>1, FiledNames
  <2>3. CASE LandCreated(k, a, r)
    <3>1. person'[r] # {}
      BY <1>2, <2>3 DEF LandCreated
    <3> QED
      BY <1>3, <1>4, <2>2, <2>3, <3>1 DEF LandCreated
  <2>4. CASE LandLinked(k, a, r)
    <3>1. person'[r] # {}
      BY <2>4 DEF LandLinked, Known, FiledFirst
    <3> QED
      BY <1>3, <1>4, <2>2, <2>4, <3>1 DEF LandLinked
  <2>5. CASE LandQueued(k, a, r)
    <3>1. person[r] # {} /\ person' = person
      BY <2>5 DEF LandQueued, Known, FiledFirst
    <3>2. \A i \in DOMAIN queue' : person'[queue'[i].match] # {}
      <4> DEFINE m == [row |-> a, match |-> r, resolution |-> "PENDING"]
      <4>1. queue \in Seq(MatchRow) /\ queue' = Append(queue, m) /\ m.match = r
        BY <2>5 DEF LandQueued, Known, RegistryTypeOK
      <4> HIDE DEF m
      <4>2. \A i \in DOMAIN queue' : queue'[i] = m \/ (i \in DOMAIN queue /\ queue'[i] = queue[i])
        BY <4>1
      <4> QED
        BY <3>1, <4>1, <4>2 DEF Known, FiledFirst
    <3> QED
      BY <1>5, <2>2, <2>5, <3>2 DEF LandQueued, FiledFirst
  <2> QED
    BY <2>1, <2>3, <2>4, <2>5
<1>9. ASSUME NEW k \in Clerk, NEW r \in Record, LandRegister(k, r) PROVE FiledFirst'
  <2>1. Filed(k, "register") /\ person' = [person EXCEPT ![r] = form[k].row] /\ queue' = queue
    BY <1>9 DEF LandRegister
  <2>2. form[k].row # {}
    BY <2>1 DEF Filed, Known, RegistryTypeOK, Filled
  <2>3. person'[r] # {}
    BY <1>2, <2>1, <2>2
  <2>4. \A j \in Clerk : form'[j].record \in Record => person'[form'[j].record] # {}
    BY <1>1, <2>1, FiledNames
  <2>5. \A q \in Record : profile'[q].status # "NONE" => person'[q] # {}
    BY <1>4, <1>9, <2>3 DEF LandRegister
  <2> QED
    BY <1>3, <2>1, <2>4, <2>5
<1>10. ASSUME NEW k \in Clerk, NEW c \in ClientId, EditProfile(k, c) PROVE FiledFirst'
  <2>1. Filed(k, "edit") /\ person' = person /\ queue' = queue
    BY <1>10 DEF EditProfile
  <2>2. form[k].record \in Record
    BY <2>1 DEF Filed, Known, RegistryTypeOK, Filled
  <2>3. person'[form[k].record] # {}
    BY <2>1, <2>2 DEF Known, FiledFirst
  <2>4. \A q \in Record : profile'[q].status # "NONE" => person'[q] # {}
    BY <1>4, <1>10, <2>2, <2>3 DEF EditProfile
  <2>5. \A j \in Clerk : form'[j].record \in Record => person'[form'[j].record] # {}
    BY <1>1, <2>1, FiledNames
  <2> QED
    BY <1>3, <2>1, <2>4, <2>5
<1>11. ASSUME NEW k \in Clerk, Join(k) PROVE FiledFirst'
  <2>1. \A j \in Clerk : form'[j].record \in Record => person'[form'[j].record] # {}
    BY <1>1, <1>11, FiledNames DEF Join
  <2> QED
    BY <1>3, <1>5, <1>11, <2>1 DEF Join
<1>12. ASSUME NEW i \in DOMAIN queue, NEW answer, ResolveMatch(i, answer) PROVE FiledFirst'
  <2>1. /\ queue[i].match \in Record /\ person' = person /\ person[queue[i].match] # {}
        /\ form' = form
    BY <1>2, <1>12 DEF ResolveMatch, Known, FiledFirst
  <2>2. \A q \in Record : profile'[q].status # "NONE" => person'[q] # {}
    BY <1>4, <1>5, <1>12, <2>1 DEF ResolveMatch
  <2>3. \A j \in DOMAIN queue' : j \in DOMAIN queue /\ queue'[j].match = queue[j].match
    BY <1>12 DEF ResolveMatch
  <2> QED
    BY <1>6, <2>1, <2>2, <2>3 DEF Known, FiledFirst
<1>13. ASSUME NEW r \in Record,
              \/ \E a \in Applicant : RegisterYouth(a, r)
              \/ \E approved \in BOOLEAN : Verify(r, approved)
              \/ \E c \in ClientId : CreateProfile(r, c)
              \/ Leave(r)
       PROVE  FiledFirst'
  <2>1. form' = form /\ queue' = queue
    BY <1>13 DEF RegisterYouth, Verify, CreateProfile, Leave
  <2>2. \/ profile' = profile
        \/ (\E row : profile' = [profile EXCEPT ![r] = row]) /\ person'[r] # {}
    <3>1. ASSUME NEW approved \in BOOLEAN, Verify(r, approved)
          PROVE  (\E row : profile' = [profile EXCEPT ![r] = row]) /\ person'[r] # {}
      BY <3>1 DEF Verify, Known, FiledFirst
    <3>2. ASSUME NEW c \in ClientId, CreateProfile(r, c)
          PROVE  (\E row : profile' = [profile EXCEPT ![r] = row]) /\ person'[r] # {}
      BY <3>2 DEF CreateProfile, OnFile
    <3> QED
      BY <1>13, <3>1, <3>2 DEF RegisterYouth, Leave
  <2>3. \A q \in Record : profile'[q].status # "NONE" => person'[q] # {}
    BY <1>4, <1>5, <2>2
  <2> QED
    BY <1>3, <1>6, <2>1, <2>3
<1>14. CASE UNCHANGED registryVars
  BY <1>14 DEF registryVars, Known, FiledFirst
<1> QED
  BY <1>7, <1>8, <1>9, <1>10, <1>11, <1>12, <1>13, <1>14, StepKinds DEF Writes

-----------------------------------------------------------------------------
(* Verified by a person.                                                   *)

\* One profile is written, and nobody's copy.
LEMMA SignedRow ==
    ASSUME Known, CopiesSigned, NEW r \in Record, NEW row, Signed(row),
           profile' = [profile EXCEPT ![r] = row]
    PROVE  \A q \in Record : Signed(profile'[q])
BY DEF CopiesSigned, Known, RegistryTypeOK

LEMMA FiledSigned ==
    ASSUME Known, CopiesSigned, NEW k \in Clerk, NEW op, Filed(k, op)
    PROVE  \A j \in Clerk : Signed(form'[j].copy)
<1>1. \A j \in Clerk : form'[j] = form[j] \/ form'[j] = NoForm
  BY DEF Filed, Known, RegistryTypeOK
<1>2. Signed(NoForm.copy)
  BY NoFormFacts DEF Signed
<1> QED
  BY <1>1, <1>2 DEF CopiesSigned

LEMMA CopiesSignedKept ==
    ASSUME Known, OneAtATime, CopiesSigned, [RegistryNext]_registryVars
    PROVE  CopiesSigned'
<1>1. /\ \A r \in Record : profile[r] \in ProfileRow
      /\ \A k \in Clerk : form[k].copy \in ProfileRow
  BY DEF Known, RegistryTypeOK, Form
<1>2. Signed(NoProfile)
  BY NoFormFacts DEF Signed
<1>3. ASSUME NEW k \in Clerk, Begun(k) PROVE CopiesSigned'
  <2>1. \A j \in Clerk : form'[j] = form[j] \/ form'[j] = NoForm \/ (j = k /\ Fresh(k, form'[j]))
    BY <1>3 DEF Begun, Known, RegistryTypeOK
  <2>2. ASSUME NEW j \in Clerk PROVE Signed(form'[j].copy)
    BY <1>2, <2>1, NoFormFacts DEF Fresh, CopiesSigned
  <2> QED
    BY <1>3, <2>2 DEF Begun, CopiesSigned
<1>4. ASSUME NEW k \in Clerk, NEW a \in Applicant, NEW r \in Record, LandImport(k, a, r)
      PROVE  CopiesSigned'
  <2>1. /\ Filed(k, "import")
        /\ LandCreated(k, a, r) \/ LandLinked(k, a, r) \/ LandQueued(k, a, r)
    BY <1>4, LandImportEnds
  <2>2. FoundProfile(k, r) \in ProfileRow /\ Signed(FoundProfile(k, r))
    BY <1>1 DEF FoundProfile, CopiesSigned
  <2>3. Signed(Attached(FoundProfile(k, r), a, FALSE)) /\ Signed(Attached(NoProfile, a, FALSE))
    BY <1>2, <2>2, AttachedFacts, NoFormFacts
  <2>4. \A q \in Record : Signed(profile'[q])
    BY <2>1, <2>3, SignedRow DEF LandCreated, LandLinked, LandQueued, CopiesSigned
  <2> QED
    BY <2>1, <2>4, FiledSigned DEF CopiesSigned
<1>5. ASSUME NEW k \in Clerk, NEW r \in Record, LandRegister(k, r) PROVE CopiesSigned'
  <2> DEFINE row == [status |-> "PENDING", route |-> "FACILITATOR", client |-> form[k].client,
                     signed |-> FALSE, rows |-> form[k].row]
  <2>1. Signed(row)
    BY DEF Signed
  <2>2. profile' = [profile EXCEPT ![r] = row] /\ Filed(k, "register")
    BY <1>5 DEF LandRegister
  <2> HIDE DEF row
  <2> QED
    BY <2>1, <2>2, SignedRow, FiledSigned DEF CopiesSigned
<1>6. ASSUME NEW k \in Clerk, NEW c \in ClientId, EditProfile(k, c) PROVE CopiesSigned'
  <2> DEFINE row == [form[k].copy EXCEPT !.client = c]
  <2>1. Filed(k, "edit") /\ profile' = [profile EXCEPT ![form[k].record] = row]
    BY <1>6 DEF EditProfile
  <2>2. form[k].record \in Record
    BY <2>1 DEF Filed, Known, RegistryTypeOK, Filled
  <2>3. Signed(form[k].copy)
    BY DEF CopiesSigned
  <2>4. row.route = form[k].copy.route /\ row.status = form[k].copy.status
        /\ row.signed = form[k].copy.signed
    BY <1>1 DEF ProfileRow
  <2>5. Signed(row)
    BY <2>3, <2>4 DEF Signed
  <2> HIDE DEF row
  <2> QED
    BY <2>1, <2>2, <2>5, SignedRow, FiledSigned DEF CopiesSigned
<1>7. ASSUME NEW k \in Clerk, Join(k) PROVE CopiesSigned'
  BY <1>7, FiledSigned DEF Join, CopiesSigned
<1>8. ASSUME NEW i \in DOMAIN queue, NEW answer, ResolveMatch(i, answer) PROVE CopiesSigned'
  <2>1. queue[i] \in MatchRow
    BY DEF Known, RegistryTypeOK
  <2>2. queue[i].match \in Record /\ queue[i].row \in Applicant
    BY <2>1 DEF MatchRow
  <2>3. Signed(Attached(profile[queue[i].match], queue[i].row, TRUE))
    BY <1>1, <2>2, AttachedFacts DEF CopiesSigned
  <2>4. /\ form' = form
        /\ \/ profile' = profile
           \/ profile' = [profile EXCEPT ![queue[i].match] =
                              Attached(profile[queue[i].match], queue[i].row, TRUE)]
    BY <1>8 DEF ResolveMatch
  <2> QED
    BY <2>2, <2>3, <2>4, SignedRow DEF CopiesSigned
<1>9. ASSUME NEW r \in Record, NEW approved \in BOOLEAN, Verify(r, approved) PROVE CopiesSigned'
  <2> DEFINE row == [profile[r] EXCEPT !.status = IF approved THEN "VERIFIED" ELSE "REJECTED",
                                       !.signed = TRUE]
  <2>1. Signed(row)
    BY <1>1 DEF Signed, ProfileRow
  <2>2. profile' = [profile EXCEPT ![r] = row] /\ form' = form
    BY <1>9 DEF Verify, Known, RegistryTypeOK
  <2> HIDE DEF row
  <2> QED
    BY <2>1, <2>2, SignedRow DEF CopiesSigned
<1>10. ASSUME NEW r \in Record, NEW c \in ClientId, CreateProfile(r, c) PROVE CopiesSigned'
  <2> DEFINE row == [NoProfile EXCEPT !.status = "PENDING", !.client = c, !.rows = person[r]]
  <2>1. Signed(row)
    BY NoFormFacts DEF Signed, ProfileRow
  <2>2. profile' = [profile EXCEPT ![r] = row] /\ form' = form
    BY <1>10 DEF CreateProfile
  <2> HIDE DEF row
  <2> QED
    BY <2>1, <2>2, SignedRow DEF CopiesSigned
<1>11. ASSUME NEW r \in Record, (\E a \in Applicant : RegisterYouth(a, r)) \/ Leave(r)
       PROVE  CopiesSigned'
  BY <1>11 DEF RegisterYouth, Leave, CopiesSigned
<1>12. CASE UNCHANGED registryVars
  BY <1>12 DEF registryVars, CopiesSigned
<1> QED
  BY <1>3, <1>4, <1>5, <1>6, <1>7, <1>8, <1>9, <1>10, <1>11, <1>12, StepKinds DEF Writes

-----------------------------------------------------------------------------
(* One request at a time.                                                  *)

Heard(row) == row.status \in {"VERIFIED", "REJECTED"}

\* After a request has ended nobody holds anything, and only the members count.
LEMMA NothingHeld ==
    ASSUME Known, NEW k \in Clerk, NEW op, op # "none", Filed(k, op), OneAtATime,
           \A r \in joined' : intake.atOnce = 1 => Heard(profile'[r])
    PROVE  OneAtATime'
<1>1. form[k] # NoForm
  BY NoFormFacts DEF Filed
<1>2. intake.atOnce = 1 => \A j \in Clerk : form'[j] = NoForm
  BY <1>1 DEF Filed, OneAtATime, Known, RegistryTypeOK
<1>3. intake' = intake
  BY DEF Filed
<1> QED
  BY <1>2, <1>3, NoFormFacts DEF OneAtATime, Heard

\* Nor does anybody while a request is accepted that ends at once.
LEMMA NothingUnderWay ==
    ASSUME Known, NEW op, Accepts(op), form' = form, intake' = intake,
           \A r \in joined' : intake.atOnce = 1 => Heard(profile'[r])
    PROVE  OneAtATime'
<1>1. intake.atOnce = 1 => \A j \in Clerk : form'[j] = NoForm
  BY NobodyElse DEF Known
<1> QED
  BY <1>1, NoFormFacts DEF OneAtATime, Heard

LEMMA OneAtATimeKept ==
    ASSUME Known, OneAtATime, [RegistryNext]_registryVars
    PROVE  OneAtATime'
<1>1. /\ profile \in [Record -> ProfileRow] /\ joined \subseteq Record
      /\ \A k \in Clerk : form[k].copy \in ProfileRow
  BY DEF Known, RegistryTypeOK, Form
<1>2. \A r \in joined : intake.atOnce = 1 => Heard(profile[r])
  BY DEF OneAtATime, Heard
<1>3. ASSUME NEW k \in Clerk, Begun(k) PROVE OneAtATime'
  <2>1. CASE form'[k] = NoForm
    <3>1. \A j \in Clerk : form'[j] = form[j] \/ form'[j] = NoForm
      BY <1>3, <2>1 DEF Begun, Known, RegistryTypeOK
    <3>2. ASSUME NEW j \in Clerk, intake.atOnce = 1
          PROVE  /\ form'[j].copy = NoProfile \/ form'[j].copy = profile[form'[j].record]
                 /\ form'[j].op = "edit" => form'[j].copy = profile[form'[j].record]
                 /\ form'[j].op = "join" => profile[form'[j].record].status = "VERIFIED"
                 /\ form'[j].op = "import" /\ form'[j].outcome = "" =>
                       \A a \in form'[j].row : ~ClientKnown(ClientOf[a])'
      <4>1. form'[j].op = "import" /\ form'[j].outcome = "" =>
                \A a \in form'[j].row : ~ClientKnown(ClientOf[a])
        BY <3>1, <3>2, NoFormFacts DEF OneAtATime
      <4>2. profile' = profile
        BY <1>3 DEF Begun
      <4>3. form'[j].op = "import" /\ form'[j].outcome = "" =>
                \A a \in form'[j].row : ~ClientKnown(ClientOf[a])'
        BY <4>1, <4>2 DEF ClientKnown, Holders
      <4> QED
        BY <3>1, <3>2, <4>3, NoFormFacts DEF OneAtATime
    <3>3. intake.atOnce = 1 => \A i, j \in Clerk : form'[i] # NoForm /\ form'[j] # NoForm => i = j
      BY <3>1 DEF OneAtATime
    <3> QED
      BY <1>3, <3>2, <3>3 DEF Begun, OneAtATime
  <2>2. CASE form'[k] # NoForm
    <3>1. Fresh(k, form'[k]) /\ intake' = intake /\ profile' = profile /\ joined' = joined
      BY <1>3, <2>2 DEF Begun
    <3>2. intake.atOnce = 1 => \A j \in Clerk : j # k => form'[j] = NoForm
      <4>1. intake.atOnce = 1 => \A j \in Clerk : j # k => form[j] = NoForm
        <5>1. CASE form[k] # NoForm
          BY <5>1 DEF OneAtATime
        <5>2. CASE form[k] = NoForm
          BY <1>3, <2>2, <5>2, NobodyElse DEF Begun, Known
        <5> QED
          BY <5>1, <5>2
      <4> QED
        BY <1>3, <4>1 DEF Begun, Known, RegistryTypeOK
    <3>3. ASSUME NEW j \in Clerk, intake.atOnce = 1
          PROVE  /\ form'[j].copy = NoProfile \/ form'[j].copy = profile'[form'[j].record]
                 /\ form'[j].op = "edit" => form'[j].copy = profile'[form'[j].record]
                 /\ form'[j].op = "join" => profile'[form'[j].record].status = "VERIFIED"
                 /\ form'[j].op = "import" /\ form'[j].outcome = "" =>
                       \A a \in form'[j].row : ~ClientKnown(ClientOf[a])'
      BY <3>1, <3>2, <3>3, NoFormFacts DEF Fresh, ClientKnown, Holders
    <3> QED
      BY <1>2, <3>1, <3>2, <3>3 DEF OneAtATime, Heard
  <2> QED
    BY <2>1, <2>2
<1>4. ASSUME NEW r \in Record, NEW row, profile' = [profile EXCEPT ![r] = row], joined' = joined,
             r \in joined /\ intake.atOnce = 1 => Heard(row)
      PROVE  \A q \in joined' : intake.atOnce = 1 => Heard(profile'[q])
  BY <1>1, <1>2, <1>4
<1>5. ASSUME NEW k \in Clerk, NEW a \in Applicant, NEW r \in Record, LandImport(k, a, r)
      PROVE  OneAtATime'
  <2>1. /\ Filed(k, "import") /\ joined' = joined
        /\ LandCreated(k, a, r) \/ LandLinked(k, a, r) \/ LandQueued(k, a, r)
    BY <1>5, LandImportEnds
  <2>2. CASE LandCreated(k, a, r)
    <3>1. Heard(Attached(NoProfile, a, FALSE))
      BY AttachedFacts, NoFormFacts DEF Heard
    <3> QED
      BY <1>4, <2>1, <2>2, <3>1, NothingHeld DEF LandCreated
  <2>3. CASE LandLinked(k, a, r)
    <3>1. intake.atOnce = 1 => FoundProfile(k, r) = profile[r]
      BY <2>3 DEF FoundProfile, LandLinked, OneAtATime
    <3>2. ASSUME r \in joined, intake.atOnce = 1
          PROVE  Heard(Attached(FoundProfile(k, r), a, FALSE))
      <4>1. profile[r] \in ProfileRow /\ Heard(profile[r]) /\ profile[r].status # "NONE"
        BY <1>1, <1>2, <3>2 DEF Heard
      <4>2. Attached(profile[r], a, FALSE).status = profile[r].status
        BY <4>1, AttachedFacts
      <4> QED
        BY <3>1, <3>2, <4>1, <4>2 DEF Heard
    <3> QED
      BY <1>4, <2>1, <2>3, <3>2, NothingHeld DEF LandLinked
  <2>4. CASE LandQueued(k, a, r)
    BY <1>2, <2>1, <2>4, NothingHeld DEF LandQueued
  <2> QED
    BY <2>1, <2>2, <2>3, <2>4
<1>6. ASSUME NEW k \in Clerk, NEW r \in Record, LandRegister(k, r) PROVE OneAtATime'
  <2>1. r \in joined => intake.atOnce # 1
    <3>1. profile[r].status = "NONE"
      BY <1>6 DEF LandRegister, NextRecord, OnFile, Known, FiledFirst
    <3> QED
      BY <1>2, <3>1 DEF Heard
  <2>2. Filed(k, "register") /\ joined' = joined
    BY <1>6 DEF LandRegister
  <2>3. \A q \in joined' : intake.atOnce = 1 => Heard(profile'[q])
    BY <1>4, <1>6, <2>1 DEF LandRegister
  <2> QED
    BY <2>2, <2>3, NothingHeld
<1>7. ASSUME NEW k \in Clerk, NEW c \in ClientId, EditProfile(k, c) PROVE OneAtATime'
  <2> DEFINE row == [form[k].copy EXCEPT !.client = c]
             r == form[k].record
  <2>1. /\ Filed(k, "edit") /\ joined' = joined /\ form[k].op = "edit"
        /\ profile' = [profile EXCEPT ![r] = row]
    BY <1>7 DEF EditProfile, Filed
  <2>2. r \in Record
    BY <2>1 DEF Known, RegistryTypeOK, Filled
  <2>3. row.status = form[k].copy.status
    BY <1>1 DEF ProfileRow
  <2>4. intake.atOnce = 1 => form[k].copy = profile[r]
    BY <2>1 DEF OneAtATime
  <2>5. r \in joined /\ intake.atOnce = 1 => Heard(row)
    BY <1>2, <2>3, <2>4 DEF Heard
  <2> HIDE DEF row, r
  <2>6. \A q \in joined' : intake.atOnce = 1 => Heard(profile'[q])
    BY <1>4, <2>1, <2>2, <2>5
  <2> QED
    BY <2>1, <2>6, NothingHeld
<1>8. ASSUME NEW k \in Clerk, Join(k) PROVE OneAtATime'
  <2>1. /\ Filed(k, "join") /\ joined' = joined \cup {form[k].record} /\ profile' = profile
        /\ form[k].op = "join"
    BY <1>8 DEF Join, Filed
  <2>2. intake.atOnce = 1 => Heard(profile[form[k].record])
    BY <2>1 DEF OneAtATime, Heard
  <2> QED
    BY <1>2, <2>1, <2>2, NothingHeld
<1>9. ASSUME NEW i \in DOMAIN queue, NEW answer, ResolveMatch(i, answer) PROVE OneAtATime'
  <2> DEFINE r == queue[i].match
  <2>1. queue[i] \in MatchRow
    BY DEF Known, RegistryTypeOK
  <2>2. r \in Record /\ queue[i].row \in Applicant
    BY <2>1 DEF MatchRow
  <2>3. r \in joined /\ intake.atOnce = 1 => Heard(Attached(profile[r], queue[i].row, TRUE))
    BY <1>1, <1>2, <2>2, AttachedFacts DEF Heard
  <2>4. /\ Accepts("resolve") /\ form' = form /\ intake' = intake /\ joined' = joined
        /\ profile' = profile \/ profile' = [profile EXCEPT ![r] =
                                                Attached(profile[r], queue[i].row, TRUE)]
    BY <1>9 DEF ResolveMatch
  <2> HIDE DEF r
  <2>5. \A q \in joined' : intake.atOnce = 1 => Heard(profile'[q])
    BY <1>2, <1>4, <2>2, <2>3, <2>4
  <2> QED
    BY <2>4, <2>5, NothingUnderWay
<1>10. ASSUME NEW r \in Record, NEW approved \in BOOLEAN, Verify(r, approved) PROVE OneAtATime'
  <2> DEFINE row == [profile[r] EXCEPT !.status = IF approved THEN "VERIFIED" ELSE "REJECTED",
                                       !.signed = TRUE]
  <2>1. Heard(row)
    BY <1>1 DEF Heard, ProfileRow
  <2>2. /\ profile' = [profile EXCEPT ![r] = row] /\ form' = form /\ intake' = intake
        /\ joined' = joined /\ Accepts("verify")
    BY <1>10 DEF Verify, Known, RegistryTypeOK
  <2> HIDE DEF row
  <2>3. \A q \in joined' : intake.atOnce = 1 => Heard(profile'[q])
    BY <1>4, <2>1, <2>2
  <2> QED
    BY <2>2, <2>3, NothingUnderWay
<1>11. ASSUME NEW r \in Record, NEW c \in ClientId, CreateProfile(r, c) PROVE OneAtATime'
  <2>1. /\ form' = form /\ intake' = intake /\ joined' = joined /\ Accepts("create")
        /\ profile[r].status = "NONE"
    BY <1>11 DEF CreateProfile
  <2>2. \A q \in joined' : intake.atOnce = 1 => Heard(profile'[q])
    BY <1>2, <1>4, <1>11, <2>1 DEF CreateProfile, Heard
  <2> QED
    BY <2>1, <2>2, NothingUnderWay
<1>12. ASSUME NEW r \in Record, (\E a \in Applicant : RegisterYouth(a, r)) \/ Leave(r)
       PROVE  OneAtATime'
  BY <1>2, <1>12, NothingUnderWay DEF RegisterYouth, Leave
<1>13. CASE UNCHANGED registryVars
  BY <1>13 DEF registryVars, OneAtATime, ClientKnown, Holders
<1> QED
  BY <1>3, <1>5, <1>6, <1>7, <1>8, <1>9, <1>10, <1>11, <1>12, <1>13, StepKinds DEF Writes

-----------------------------------------------------------------------------
(* Particulars that can be accounted for.                                  *)

LEMMA ConfirmedStays ==
    ASSUME Known, OneAtATime, [RegistryNext]_registryVars, NEW a, NEW r, Confirmed(a, r)
    PROVE  Confirmed(a, r)'
<1>1. PICK i \in DOMAIN queue : queue[i] = [row |-> a, match |-> r, resolution |-> "CONFIRMED"]
  BY DEF Confirmed
<1>2. queue \in Seq(MatchRow)
  BY DEF Known, RegistryTypeOK
<1>3. ASSUME queue' = queue PROVE Confirmed(a, r)'
  BY <1>3 DEF Confirmed
<1>4. ASSUME NEW k \in Clerk, NEW b \in Applicant, NEW q \in Record, LandImport(k, b, q)
      PROVE  Confirmed(a, r)'
  <2>1. CASE LandQueued(k, b, q)
    <3> DEFINE m == [row |-> b, match |-> q, resolution |-> "PENDING"]
    <3>1. queue' = Append(queue, m)
      BY <2>1 DEF LandQueued
    <3> HIDE DEF m
    <3>2. i \in DOMAIN queue' /\ queue'[i] = queue[i]
      BY <1>2, <3>1
    <3> QED
      BY <1>1, <3>2 DEF Confirmed
  <2> QED
    BY <1>3, <1>4, <2>1, LandImportEnds DEF LandCreated, LandLinked
<1>5. ASSUME NEW j \in DOMAIN queue, NEW answer, ResolveMatch(j, answer) PROVE Confirmed(a, r)'
  <2>1. queue' = [queue EXCEPT ![j].resolution = answer] /\ queue[j].resolution = "PENDING"
    BY <1>5 DEF ResolveMatch
  <2>2. i # j
    BY <1>1, <2>1
  <2>3. i \in DOMAIN queue' /\ queue'[i] = queue[i]
    BY <2>1, <2>2
  <2> QED
    BY <1>1, <2>3 DEF Confirmed
<1> QED
  BY <1>3, <1>4, <1>5, StepKinds
     DEF Writes, Begun, LandRegister, EditProfile, Join, RegisterYouth, Verify, CreateProfile, Leave,
         registryVars

LEMMA IntakeKept ==
    ASSUME [RegistryNext]_registryVars
    PROVE  intake' = intake
<1>1. ASSUME NEW k, NEW op, Filed(k, op)
      PROVE  intake' = intake
  BY <1>1 DEF Filed
<1>2. ASSUME NEW k, NEW op, NEW f, Files(k, op, f)
      PROVE  intake' = intake
  BY <1>2 DEF Files
<1>3. ASSUME NEW k \in Clerk,
             \/ TornUp(k) \/ FetchProfile(k) \/ Join(k)
             \/ \E r \in Record : LandRegister(k, r) \/ LoadProfile(k, r) \/ BeginJoin(k, r)
             \/ \E c \in ClientId : EditProfile(k, c)
      PROVE  intake' = intake
  BY <1>1, <1>2, <1>3 DEF TornUp, FetchProfile, Join, LandRegister, LoadProfile, BeginJoin, EditProfile
<1>4. ASSUME NEW k \in Clerk, NEW a \in Applicant,
             \/ BeginImport(k, a) \/ FindMatches(k, a)
             \/ \E c \in {ClientOf[a], NoClient} : BeginRegister(k, a, c)
             \/ \E r \in Record : LandImport(k, a, r)
      PROVE  intake' = intake
  BY <1>1, <1>2, <1>4 DEF BeginImport, FindMatches, Finds, BeginRegister, LandImport
<1>5. ASSUME \/ \E i \in DOMAIN queue, answer \in {"CONFIRMED", "REJECTED"} : ResolveMatch(i, answer)
             \/ \E r \in Record :
                   \/ \E a \in Applicant : RegisterYouth(a, r)
                   \/ \E approved \in BOOLEAN : Verify(r, approved)
                   \/ \E c \in ClientId : CreateProfile(r, c)
                   \/ Leave(r)
             \/ UNCHANGED registryVars
      PROVE  intake' = intake
  BY <1>5 DEF ResolveMatch, RegisterYouth, Verify, CreateProfile, Leave, registryVars
<1> QED
  BY <1>3, <1>4, <1>5 DEF RegistryNext

\* What is accounted for stays so.
LEMMA ExplainedStays ==
    ASSUME Known, OneAtATime, [RegistryNext]_registryVars, NEW a, NEW r \in Record, Explained(a, r)
    PROVE  Explained(a, r)'
<1>1. person[r] # {} => person'[r] = person[r]
  BY PersonsKept DEF PersonsStay
<1>2. Confirmed(a, r) => Confirmed(a, r)'
  BY ConfirmedStays
<1> QED
  BY <1>1, <1>2, IntakeKept DEF Explained, SameName, Asked, Overtaken

\* What the forms show that were there before.
LEMMA FiledExplained ==
    ASSUME Known, OneAtATime, RowsExplained, [RegistryNext]_registryVars, NEW j \in Clerk, NEW r \in Record,
           form'[j] = form[j] \/ form'[j] = NoForm, form'[j].record = r
    PROVE  /\ \A a \in form'[j].copy.rows : Explained(a, r)'
           /\ form'[j].outcome = "linked" => \A a \in form'[j].row : Explained(a, r)'
<1>1. form'[j] = form[j]
  BY UnfiledFacts, NoFormFacts
<1>2. /\ \A a \in form[j].copy.rows : Explained(a, r)
      /\ form[j].outcome = "linked" => \A a \in form[j].row : Explained(a, r)
  BY <1>1 DEF RowsExplained
<1> QED
  BY <1>1, <1>2, ExplainedStays

\* A request has ended, and one profile may have been written.
LEMMA EndExplained ==
    ASSUME Known, OneAtATime, RowsExplained, [RegistryNext]_registryVars,
           \A j \in Clerk : form'[j] = form[j] \/ form'[j] = NoForm,
           \/ profile' = profile
           \/ \E r \in Record : \E row :
                 /\ profile' = [profile EXCEPT ![r] = row]
                 /\ \A a \in row.rows : Explained(a, r) \/ Explained(a, r)'
    PROVE  RowsExplained'
<1>1. ASSUME NEW r \in Record, NEW a \in profile'[r].rows PROVE Explained(a, r)'
  <2>1. CASE profile'[r] = profile[r]
    BY <2>1, <1>1, ExplainedStays DEF RowsExplained
  <2>2. CASE profile'[r] # profile[r]
    <3>1. Explained(a, r) \/ Explained(a, r)'
      BY <1>1, <2>2 DEF Known, RegistryTypeOK
    <3> QED
      BY <3>1, ExplainedStays
  <2> QED
    BY <2>1, <2>2
<1> QED
  BY <1>1, FiledExplained DEF RowsExplained

LEMMA RowsExplainedKept ==
    ASSUME Known, OneAtATime, RowsExplained, [RegistryNext]_registryVars
    PROVE  RowsExplained'
<1>1. /\ profile \in [Record -> ProfileRow] /\ person \in [Record -> SUBSET Applicant]
      /\ \A k \in Clerk : form[k].copy \in ProfileRow
  BY DEF Known, RegistryTypeOK, Form
<1>2. ASSUME NEW k \in Clerk, NEW op, Filed(k, op)
      PROVE  \A j \in Clerk : form'[j] = form[j] \/ form'[j] = NoForm
  BY <1>2 DEF Filed, Known, RegistryTypeOK
<1>3. ASSUME NEW k \in Clerk, Begun(k) PROVE RowsExplained'
  <2>1. \A j \in Clerk : form'[j] = form[j] \/ form'[j] = NoForm \/ (j = k /\ Fresh(k, form'[j]))
    BY <1>3 DEF Begun, Known, RegistryTypeOK
  <2>2. ASSUME NEW j \in Clerk, NEW r \in Record, form'[j].record = r, j = k,
               Fresh(k, form'[j])
        PROVE  /\ \A a \in form'[j].copy.rows : Explained(a, r)'
               /\ form'[j].outcome = "linked" => \A a \in form'[j].row : Explained(a, r)'
    <3>1. \A a \in form'[j].copy.rows : Explained(a, r)
      BY <2>2, NoFormFacts DEF Fresh, RowsExplained
    <3>2. form'[j].outcome = "linked" => \A a \in form'[j].row : Explained(a, r)
      BY <2>2 DEF Fresh, RowsExplained
    <3> QED
      BY <3>1, <3>2, ExplainedStays
  <2>3. \A r \in Record : \A a \in profile'[r].rows : Explained(a, r)'
    BY <1>3, ExplainedStays DEF Begun, RowsExplained
  <2> QED
    BY <2>1, <2>2, <2>3, FiledExplained DEF RowsExplained
<1>4. ASSUME NEW k \in Clerk, NEW a \in Applicant, NEW r \in Record, LandImport(k, a, r)
      PROVE  RowsExplained'
  <2>1. /\ Filed(k, "import") /\ form[k].row = {a}
        /\ LandCreated(k, a, r) \/ LandLinked(k, a, r) \/ LandQueued(k, a, r)
    BY <1>4, LandImportEnds
  <2>2. CASE LandCreated(k, a, r)
    <3> DEFINE row == Attached(NoProfile, a, FALSE)
    <3>1. row.rows = {a}
      BY AttachedFacts, NoFormFacts
    <3>2. Explained(a, r)'
      BY <1>1, <2>2 DEF LandCreated, Explained, Asked
    <3>3. profile' = [profile EXCEPT ![r] = row]
      BY <2>2 DEF LandCreated
    <3> HIDE DEF row
    <3> QED
      BY <1>2, <2>1, <3>1, <3>2, <3>3, EndExplained
  <2>3. CASE LandLinked(k, a, r)
    <3> DEFINE row == Attached(FoundProfile(k, r), a, FALSE)
    <3>1. row.rows = FoundProfile(k, r).rows \cup {a}
      BY <1>1, AttachedFacts DEF FoundProfile
    <3>2. \A b \in FoundProfile(k, r).rows : Explained(b, r)
      BY <2>3 DEF FoundProfile, LandLinked, RowsExplained
    <3>3. Explained(a, r)
      BY <2>1, <2>3 DEF LandLinked, RowsExplained
    <3>4. profile' = [profile EXCEPT ![r] = row]
      BY <2>3 DEF LandLinked
    <3> HIDE DEF row
    <3> QED
      BY <1>2, <2>1, <3>1, <3>2, <3>3, <3>4, EndExplained
  <2>4. CASE LandQueued(k, a, r)
    BY <1>2, <2>1, <2>4, EndExplained DEF LandQueued
  <2> QED
    BY <2>1, <2>2, <2>3, <2>4
<1>5. ASSUME NEW k \in Clerk, NEW r \in Record, LandRegister(k, r) PROVE RowsExplained'
  <2> DEFINE row == [status |-> "PENDING", route |-> "FACILITATOR", client |-> form[k].client,
                     signed |-> FALSE, rows |-> form[k].row]
  <2>1. person'[r] = form[k].row
    BY <1>1, <1>5 DEF LandRegister
  <2>2. \A a \in row.rows : Explained(a, r)'
    BY <2>1 DEF Explained, Asked
  <2>3. profile' = [profile EXCEPT ![r] = row] /\ Filed(k, "register")
    BY <1>5 DEF LandRegister
  <2> HIDE DEF row
  <2> QED
    BY <1>2, <2>2, <2>3, EndExplained
<1>6. ASSUME NEW k \in Clerk, NEW c \in ClientId, EditProfile(k, c) PROVE RowsExplained'
  <2> DEFINE row == [form[k].copy EXCEPT !.client = c]
             r == form[k].record
  <2>1. Filed(k, "edit") /\ profile' = [profile EXCEPT ![r] = row]
    BY <1>6 DEF EditProfile
  <2>2. r \in Record
    BY <2>1 DEF Filed, Known, RegistryTypeOK, Filled
  <2>3. row.rows = form[k].copy.rows
    BY <1>1 DEF ProfileRow
  <2>4. \A a \in row.rows : Explained(a, r)
    BY <2>2, <2>3 DEF RowsExplained
  <2> HIDE DEF row
  <2> QED
    BY <1>2, <2>1, <2>2, <2>4, EndExplained
<1>7. ASSUME NEW k \in Clerk, Join(k) PROVE RowsExplained'
  BY <1>2, <1>7, EndExplained DEF Join
<1>8. ASSUME NEW i \in DOMAIN queue, NEW answer, ResolveMatch(i, answer) PROVE RowsExplained'
  <2>1. queue[i] \in MatchRow /\ queue \in Seq(MatchRow)
    BY DEF Known, RegistryTypeOK
  <2>2. PICK r \in Record, a \in Applicant :
           queue[i] = [row |-> a, match |-> r, resolution |-> queue[i].resolution]
    BY <2>1 DEF MatchRow
  <2>3. form' = form /\ queue' = [queue EXCEPT ![i].resolution = answer]
    BY <1>8 DEF ResolveMatch
  <2>4. CASE profile' = profile
    BY <2>3, <2>4, EndExplained
  <2>5. CASE answer = "CONFIRMED" /\ profile' = [profile EXCEPT ![r] =
                                                      Attached(profile[r], a, TRUE)]
    <3>1. Attached(profile[r], a, TRUE).rows = profile[r].rows \cup {a}
      BY <1>1, AttachedFacts
    <3>2. queue'[i] = [row |-> a, match |-> r, resolution |-> "CONFIRMED"] /\ i \in DOMAIN queue'
      BY <2>1, <2>2, <2>3, <2>5
    <3>3. Explained(a, r)'
      BY <3>2 DEF Explained, Asked, Confirmed
    <3>4. \A b \in profile[r].rows : Explained(b, r)
      BY DEF RowsExplained
    <3> QED
      BY <2>3, <2>5, <3>1, <3>3, <3>4, EndExplained
  <2>6. queue[i].row = a /\ queue[i].match = r
    BY <2>2
  <2> QED
    BY <1>8, <2>4, <2>5, <2>6 DEF ResolveMatch
<1>9. ASSUME NEW r \in Record, NEW approved \in BOOLEAN, Verify(r, approved) PROVE RowsExplained'
  <2> DEFINE row == [profile[r] EXCEPT !.status = IF approved THEN "VERIFIED" ELSE "REJECTED",
                                       !.signed = TRUE]
  <2>1. row.rows = profile[r].rows
    BY <1>1 DEF ProfileRow
  <2>2. profile' = [profile EXCEPT ![r] = row] /\ form' = form
    BY <1>9 DEF Verify, Known, RegistryTypeOK
  <2> HIDE DEF row
  <2> QED
    BY <2>1, <2>2, EndExplained DEF RowsExplained
<1>10. ASSUME NEW r \in Record, NEW c \in ClientId, CreateProfile(r, c) PROVE RowsExplained'
  <2> DEFINE row == [NoProfile EXCEPT !.status = "PENDING", !.client = c, !.rows = person[r]]
  <2>1. row.rows = person[r]
    BY NoFormFacts DEF ProfileRow
  <2>2. \A a \in row.rows : Explained(a, r)
    BY <2>1 DEF Explained, Asked
  <2>3. profile' = [profile EXCEPT ![r] = row] /\ form' = form
    BY <1>10 DEF CreateProfile
  <2> HIDE DEF row
  <2> QED
    BY <2>2, <2>3, EndExplained
<1>11. ASSUME NEW r \in Record, (\E a \in Applicant : RegisterYouth(a, r)) \/ Leave(r)
       PROVE  RowsExplained'
  BY <1>11, EndExplained DEF RegisterYouth, Leave
<1>12. CASE UNCHANGED registryVars
  BY <1>12, EndExplained DEF registryVars
<1> QED
  BY <1>3, <1>4, <1>5, <1>6, <1>7, <1>8, <1>9, <1>10, <1>11, <1>12, StepKinds DEF Writes

-----------------------------------------------------------------------------
(* The theorems.                                                           *)

RegistryInvariant ==
    /\ RegistryTypeOK /\ FiledFirst
    /\ CopiesSigned /\ OneAtATime /\ RowsExplained

LEMMA InvariantStarts == RegistryInit => RegistryInvariant
<1> SUFFICES ASSUME RegistryInit PROVE RegistryInvariant
  OBVIOUS
<1>1. RegistryTypeOK
  <2>1. \A k \in Clerk : Filled(form[k])
    BY NoFormFacts DEF RegistryInit, Filled
  <2>2. queue \in Seq(MatchRow)
    BY DEF RegistryInit
  <2> QED
    BY <2>1, <2>2, NoFormFacts, RegistryAssumption DEF RegistryInit, RegistryTypeOK
<1>2. FiledFirst
  <2>1. /\ \A r \in Record : profile[r].status = "NONE"
        /\ \A k \in Clerk : form[k].record \notin Record
        /\ DOMAIN queue = {}
    <3>1. /\ profile = [r \in Record |-> NoProfile] /\ form = [k \in Clerk |-> NoForm]
          /\ queue = <<>>
      BY DEF RegistryInit
    <3>2. \A r \in Record : profile[r].status = "NONE"
      BY <3>1, NoFormFacts
    <3>3. \A k \in Clerk : form[k].record \notin Record
      BY <3>1, NoFormFacts, UnfiledFacts
    <3>4. DOMAIN queue = {}
      BY <3>1
    <3> QED
      BY <3>2, <3>3, <3>4
  <2> QED
    BY <2>1 DEF FiledFirst
<1>3. CopiesSigned
  BY NoFormFacts DEF RegistryInit, CopiesSigned, Signed
<1>4. OneAtATime
  BY NoFormFacts DEF RegistryInit, OneAtATime
<1>5. RowsExplained
  BY NoFormFacts DEF RegistryInit, RowsExplained
<1> QED
  BY <1>1, <1>2, <1>3, <1>4, <1>5 DEF RegistryInvariant

LEMMA InvariantKept == RegistryInvariant /\ [RegistryNext]_registryVars => RegistryInvariant'
<1> SUFFICES ASSUME RegistryInvariant, [RegistryNext]_registryVars PROVE RegistryInvariant'
  OBVIOUS
<1>1. Known
  BY DEF RegistryInvariant, Known
<1> QED
  BY <1>1, TypesKept, FiledFirstKept, CopiesSignedKept, OneAtATimeKept, RowsExplainedKept
     DEF RegistryInvariant

\* The register is well formed, profiles are of persons on file, and old copies
\* are no worse than the rows (enrolment.py, and the profile endpoints).
THEOREM RegistrySound == RegistrySpec => []RegistryInvariant
BY InvariantStarts, InvariantKept, PTL DEF RegistrySpec

\* The particulars of a woman reach a profile of another name only through an
\* officer: for a row without a client id however many imports, registrations,
\* decisions and edits overlap, for one with it where requests do not
\* (import_row, find_matches, resolve_match).
THEOREM RegistryAsksFirst == RegistrySpec => []AskedFirst
<1>1. RegistryInvariant => AskedFirst
  BY DEF RegistryInvariant, RowsExplained, Explained, Overtaken, SameName, AskedFirst
<1> QED
  BY <1>1, RegistrySound, PTL

\* A profile that no extract opened is verified by a person only, whatever old
\* copies are saved, and one request at a time nobody who waits for that is a
\* member (_attach_profile, verify, add_member).
THEOREM RegistrySigns == RegistrySpec => []ExceptionsAreSigned
<1>1. RegistryInvariant => ExceptionsAreSigned
  BY DEF RegistryInvariant, CopiesSigned, Signed, OneAtATime, ExceptionsAreSigned
<1> QED
  BY <1>1, RegistrySound, PTL

\* Both: nobody is taken for a woman of another name or taken in without a person
\* who answers for it, under the conditions of the two.
THEOREM RegistryAsksAndSigns == RegistrySpec => []AskedAndSigned
<1>1. AskedFirst /\ ExceptionsAreSigned => AskedAndSigned
  BY DEF AskedAndSigned
<1> QED
  BY <1>1, RegistryAsksFirst, RegistrySigns, PTL

-----------------------------------------------------------------------------
(* Accounts, addresses and partners.                                       *)

FirmRow == [active : BOOLEAN, standing : Standing]
DossierRow == [manager : Account \cup {Nowhere}, open : BOOLEAN]
MailRow == [of : Account, kind : MailKind, address : Mailbox, live : BOOLEAN]
MailGiven == [kind : MailKind, address : Mailbox \cup {Nowhere}]

\* What a desk holds: the row it would write is a whole and a valid one.
PaperFits(p) ==
    /\ p.kind \in {"none", "account", "firm", "case", "look", "mail"}
    /\ p = NoPaper \/ DOMAIN p = {"kind", "of", "copy", "given", "mail", "found"}
    /\ p.kind = "account" => Over(p.given, p.copy) \in AccountRow /\ ValidAccount(Over(p.given, p.copy))
    /\ p.kind = "firm" => p.of \in Firm /\ Over(p.given, p.copy) \in FirmRow
    /\ p.kind = "case" => p.of \in Dossier /\ Over(p.given, p.copy) \in DossierRow
    /\ p.kind \in {"account", "look", "mail"} => p.of \in Account /\ p.mail \in Seq(MailGiven)
    /\ p.kind \in {"look", "mail"} => p.mail # <<>>
    /\ p.kind = "mail" => p.found \in 0 .. Len(emails)

StaffSound ==
    /\ account \in [Account -> AccountRow \cup {NoAccount}]
    /\ \A u \in Account : account[u] # NoAccount => ValidAccount(account[u])
FirmsSound ==
    /\ firm \in [Firm -> FirmRow]
    /\ \A f \in Firm : firm[f].active => firm[f].standing = "ACTIVE"
MailSound == emails \in Seq(MailRow) /\ Admitted(emails)
FilesSound ==
    /\ dossier \in [Dossier -> DossierRow] /\ sentTo \in [Dossier -> SUBSET Firm]
    /\ delivered \subseteq Delivery /\ circle \in [Circle -> Account \cup {Nowhere}]
DesksSound == desk = [d \in Desk |-> desk[d]] /\ \A d \in Desk : PaperFits(desk[d])

AccountsSound ==
    /\ posting \in Postings
    /\ StaffSound /\ FirmsSound /\ MailSound /\ FilesSound /\ DesksSound

\* A form over a row of an account is a row of an account.
LEMMA FormOver ==
    ASSUME NEW p \in Postings, NEW filled \in p.forms, NEW row \in AccountRow
    PROVE  Over(filled, row) \in AccountRow
<1>1. /\ DOMAIN filled \subseteq {"role", "woredas", "partner", "status"}
      /\ \A f \in DOMAIN filled : filled[f] \in Column[f]
  BY AccountsAssumption DEF Posting, Column
<1>2. /\ "role" \in DOMAIN filled => filled["role"] \in UserRole
      /\ "woredas" \in DOMAIN filled => filled["woredas"] \in SUBSET Town
      /\ "partner" \in DOMAIN filled => filled["partner"] \in Firm \cup {Nowhere}
      /\ "status" \in DOMAIN filled => filled["status"] \in AccountStatus
  BY <1>1 DEF Column
<1> QED
  BY <1>1, <1>2 DEF Over, AccountRow

LEMMA NothingOver ==
    ASSUME NEW row \in AccountRow
    PROVE  Over(<<>>, row) = row
BY DEF Over, AccountRow

\* The desks, when one of them is given another paper and addresses only grow.
LEMMA DesksKept ==
    ASSUME DesksSound, MailSound, emails' \in Seq(MailRow), Len(emails) <= Len(emails'),
           NEW d \in Desk, NEW p, PaperFits(p)', desk' = [desk EXCEPT ![d] = p]
    PROVE  DesksSound'
<1>1. Len(emails) \in Nat /\ Len(emails') \in Nat
  BY DEF MailSound
<1>2. \A e \in Desk : desk'[e] = IF e = d THEN p ELSE desk[e]
  BY DEF DesksSound
<1>3. \A e \in Desk : PaperFits(desk[e])'
  <2> TAKE e \in Desk
  <2>1. CASE e = d
    <3>1. desk'[e] = p
      BY <1>2, <2>1
    <3> QED
      BY <3>1 DEF PaperFits
  <2>2. CASE e # d
    <3>1. desk'[e] = desk[e] /\ PaperFits(desk[e])
      BY <1>2, <2>2 DEF DesksSound
    <3> QED
      BY <1>1, <3>1 DEF PaperFits
  <2> QED
    BY <2>1, <2>2
<1>4. desk' = [e \in Desk |-> desk'[e]]
  BY DEF DesksSound
<1> QED
  BY <1>3, <1>4 DEF DesksSound

LEMMA LoadKeeps ==
    ASSUME AccountsSound, NEW d \in Desk, NEW p, PaperFits(p), LoadPaper(d, p)
    PROVE  AccountsSound'
<1>1. emails' = emails
  BY DEF LoadPaper
<1>2. DesksSound'
  <2>1. PaperFits(p)'
    BY <1>1 DEF PaperFits
  <2>2. emails' \in Seq(MailRow) /\ Len(emails) <= Len(emails')
    BY <1>1, LenProperties DEF AccountsSound, MailSound
  <2> QED
    BY <2>1, <2>2, DesksKept DEF AccountsSound, LoadPaper
<1> QED
  BY <1>1, <1>2 DEF AccountsSound, LoadPaper, StaffSound, FirmsSound, MailSound, FilesSound, Admitted


LEMMA EditAccountKeeps ==
    ASSUME AccountsSound, NEW d \in Desk, NEW u \in Account, EditAccount(d, u) \/ EditSelf(d, u)
    PROVE  AccountsSound'
<1>1. CASE EditAccount(d, u)
  <2>1. PICK filled \in posting.forms, mail \in posting.mails :
          /\ ValidAccount(Over(filled, account[u]))
          /\ LoadPaper(d, Paper("account", u, account[u], filled, mail))
    BY <1>1 DEF EditAccount
  <2>2. account[u] \in AccountRow /\ posting \in Postings
    BY <1>1 DEF EditAccount, AccountsSound, StaffSound
  <2>3. PICK p : p = Paper("account", u, account[u], filled, mail)
    OBVIOUS
  <2>4. Over(filled, account[u]) \in AccountRow
    BY <2>2, FormOver
  <2>5. mail \in Seq(MailGiven)
    BY <2>2, AccountsAssumption DEF Posting, MailGiven
  <2>6. PaperFits(p)
    BY <2>1, <2>3, <2>4, <2>5 DEF Paper, PaperFits
  <2> QED
    BY <2>1, <2>3, <2>6, LoadKeeps
<1>2. CASE EditSelf(d, u)
  <2>1. PICK mail \in posting.mails : LoadPaper(d, Paper("account", u, account[u], <<>>, mail))
    BY <1>2 DEF EditSelf
  <2>2. account[u] \in AccountRow /\ posting \in Postings /\ ValidAccount(account[u])
    BY <1>2 DEF EditSelf, AccountsSound, StaffSound
  <2>3. PICK p : p = Paper("account", u, account[u], <<>>, mail)
    OBVIOUS
  <2>4. Over(<<>>, account[u]) = account[u]
    BY <2>2, NothingOver
  <2>5. mail \in Seq(MailGiven)
    BY <2>2, AccountsAssumption DEF Posting, MailGiven
  <2>6. PaperFits(p)
    BY <2>2, <2>3, <2>4, <2>5 DEF Paper, PaperFits
  <2> QED
    BY <2>1, <2>3, <2>6, LoadKeeps
<1> QED
  BY <1>1, <1>2

LEMMA EditFirmKeeps ==
    ASSUME AccountsSound, NEW d \in Desk, NEW f \in Firm, EditFirm(d, f)
    PROVE  AccountsSound'
<1>1. PICK active \in BOOLEAN : LoadPaper(d, Paper("firm", f, firm[f], [active |-> active], <<>>))
  BY DEF EditFirm
<1>2. PICK p : p = Paper("firm", f, firm[f], [active |-> active], <<>>)
  OBVIOUS
<1>3. firm[f] \in FirmRow
  BY DEF AccountsSound, FirmsSound
<1>4. Over([active |-> active], firm[f]) \in FirmRow
  BY <1>3 DEF Over, FirmRow
<1>5. PaperFits(p)
  BY <1>2, <1>4 DEF Paper, PaperFits
<1> QED
  BY <1>1, <1>2, <1>5, LoadKeeps

LEMMA EditDossierKeeps ==
    ASSUME AccountsSound, NEW d \in Desk, NEW c \in OpenedFiles, EditDossier(d, c)
    PROVE  AccountsSound'
<1>1. PICK given : /\ LoadPaper(d, Paper("case", c, dossier[c], given, <<>>))
                   /\ \/ \E u \in Account : given = [manager |-> u]
                      \/ given = [open |-> FALSE]
  BY DEF EditDossier
<1>2. PICK p : p = Paper("case", c, dossier[c], given, <<>>)
  OBVIOUS
<1>3. c \in Dossier /\ dossier[c] \in DossierRow
  BY DEF AccountsSound, FilesSound, OpenedFiles
<1>4. Over(given, dossier[c]) \in DossierRow
  <2>1. CASE given = [open |-> FALSE]
    BY <1>3, <2>1 DEF Over, DossierRow
  <2>2. ASSUME NEW u \in Account, given = [manager |-> u]
        PROVE  Over(given, dossier[c]) \in DossierRow
    BY <1>3, <2>2 DEF Over, DossierRow
  <2> QED
    BY <1>1, <2>1, <2>2
<1>5. PaperFits(p)
  BY <1>2, <1>3, <1>4 DEF Paper, PaperFits
<1> QED
  BY <1>1, <1>2, <1>5, LoadKeeps

\* A save writes what the desk holds.
LEMMA SavesKeep ==
    ASSUME AccountsSound, NEW d \in Desk, SaveAccount(d) \/ SaveFirm(d) \/ SaveDossier(d)
    PROVE  AccountsSound'
<1>1. PICK p : p = desk[d]
  OBVIOUS
<1>2. PaperFits(p)
  BY <1>1 DEF AccountsSound, DesksSound
<1>3. PICK q : desk' = [desk EXCEPT ![d] = q] /\ (q = NoPaper \/ (p.kind = "account" /\ p.mail # <<>> /\ q = [p EXCEPT !.kind = "look"]))
  BY <1>1 DEF SaveAccount, SaveFirm, SaveDossier
<1>4. UNCHANGED emails
  BY DEF SaveAccount, SaveFirm, SaveDossier
<1>5. DesksSound'
  <2>1. PaperFits(q)
    <3>1. PaperFits(NoPaper)
      BY DEF PaperFits, NoPaper
    <3>2. ASSUME p.kind = "account", p.mail # <<>>, q = [p EXCEPT !.kind = "look"]
          PROVE  PaperFits(q)
      <4>1. DOMAIN p = {"kind", "of", "copy", "given", "mail", "found"}
        BY <1>2, <3>2 DEF PaperFits, NoPaper
      <4>2. q.kind = "look" /\ q.of = p.of /\ q.mail = p.mail /\ DOMAIN q = DOMAIN p
        BY <3>2, <4>1
      <4> QED
        BY <1>2, <3>2, <4>1, <4>2 DEF PaperFits
    <3> QED
      BY <1>3, <3>1, <3>2
  <2>2. PaperFits(q)'
    BY <1>4, <2>1 DEF PaperFits
  <2>3. emails' \in Seq(MailRow) /\ Len(emails) <= Len(emails')
    BY <1>4, LenProperties DEF AccountsSound, MailSound
  <2> QED
    BY <1>3, <2>2, <2>3, DesksKept DEF AccountsSound
<1>6. MailSound'
  BY <1>4 DEF AccountsSound, MailSound, Admitted
<1>7. CASE SaveAccount(d)
  <2>1. PICK row : row = Over(p.given, p.copy)
    OBVIOUS
  <2>2. row \in AccountRow /\ ValidAccount(row) /\ p.of \in Account /\ account' = [account EXCEPT ![p.of] = row]
    BY <1>1, <1>2, <1>7, <2>1 DEF SaveAccount, Saved, Written, PaperFits
  <2>3. StaffSound'
    BY <2>2 DEF AccountsSound, StaffSound
  <2> QED
    BY <1>5, <1>6, <1>7, <2>3 DEF SaveAccount, AccountsSound, FirmsSound, FilesSound
<1>8. CASE SaveFirm(d)
  <2>1. PICK row : row = Over(p.given, p.copy)
    OBVIOUS
  <2>2. row \in FirmRow /\ p.of \in Firm /\ firm' = [firm EXCEPT ![p.of] = Kept(row)]
    BY <1>1, <1>2, <1>8, <2>1 DEF SaveFirm, Saved, Written, PaperFits
  <2>3. PICK kept : kept = Kept(row)
    OBVIOUS
  <2>4. kept \in FirmRow /\ (kept.active => kept.standing = "ACTIVE")
    BY <2>2, <2>3 DEF Kept, FirmRow
  <2>5. FirmsSound'
    BY <2>2, <2>3, <2>4 DEF AccountsSound, FirmsSound
  <2> QED
    BY <1>5, <1>6, <1>8, <2>5 DEF SaveFirm, AccountsSound, StaffSound, FilesSound
<1>9. CASE SaveDossier(d)
  <2>1. PICK row : row = Over(p.given, p.copy)
    OBVIOUS
  <2>2. row \in DossierRow /\ p.of \in Dossier /\ dossier' = [dossier EXCEPT ![p.of] = row]
    BY <1>1, <1>2, <1>9, <2>1 DEF SaveDossier, Saved, Written, PaperFits
  <2>3. FilesSound'
    BY <1>9, <2>2 DEF AccountsSound, FilesSound, SaveDossier
  <2> QED
    BY <1>5, <1>6, <1>9, <2>3 DEF SaveDossier, AccountsSound, StaffSound, FirmsSound
<1> QED
  BY <1>7, <1>8, <1>9

LEMMA LookKeeps ==
    ASSUME AccountsSound, NEW d \in Desk, LookMail(d)
    PROVE  AccountsSound'
<1>1. PICK p, i : /\ p = desk[d] /\ p.kind = "look"
                  /\ desk' = [desk EXCEPT ![d] = [p EXCEPT !.kind = "mail", !.found = i]]
                  /\ i = 0 \/ i \in RowsOf(p.of, Head(p.mail).kind)
  BY DEF LookMail
<1>2. i \in 0 .. Len(emails)
  BY <1>1, LenProperties DEF RowsOf, AccountsSound, MailSound
<1>3. PICK q : q = [p EXCEPT !.kind = "mail", !.found = i]
  OBVIOUS
<1>4. PaperFits(p)
  BY <1>1 DEF AccountsSound, DesksSound
<1>5. PaperFits(q)
  <2>1. DOMAIN p = {"kind", "of", "copy", "given", "mail", "found"}
    BY <1>1, <1>4 DEF PaperFits, NoPaper
  <2>2. q.kind = "mail" /\ q.found = i /\ q.of = p.of /\ q.mail = p.mail /\ DOMAIN q = DOMAIN p
    BY <1>3, <2>1
  <2> QED
    BY <1>1, <1>2, <1>4, <2>1, <2>2 DEF PaperFits
<1>6. UNCHANGED emails
  BY DEF LookMail
<1>7. PaperFits(q)' /\ emails' \in Seq(MailRow) /\ Len(emails) <= Len(emails')
  BY <1>5, <1>6, LenProperties DEF PaperFits, AccountsSound, MailSound
<1>8. DesksSound'
  BY <1>1, <1>3, <1>7, DesksKept DEF AccountsSound
<1> QED
  BY <1>8 DEF LookMail, AccountsSound, StaffSound, FirmsSound, FilesSound, MailSound, Admitted


LEMMA TailStays ==
    ASSUME NEW S, NEW s \in Seq(S), s # <<>>, Len(s) > 1
    PROVE  Tail(s) \in Seq(S) /\ Tail(s) # <<>>
<1>1. PICK t : t = Tail(s)
  OBVIOUS
<1>2. t \in Seq(S) /\ Len(t) = Len(s) - 1
  BY <1>1, HeadTailProperties
<1>3. Len(t) # 0
  <2>1. \A n \in Nat : n > 1 => n - 1 # 0
    OBVIOUS
  <2>2. Len(s) \in Nat
    BY LenProperties
  <2> QED
    BY <1>2, <2>1, <2>2
<1>4. t # <<>>
  BY <1>3
<1> QED
  BY <1>1, <1>2, <1>4

\* An address is deleted, changed or added; the two indexes admit the rest.
LEMMA WriteKeeps ==
    ASSUME AccountsSound, NEW d \in Desk, WriteMail(d)
    PROVE  AccountsSound'
<1>1. PICK p : p = desk[d]
  OBVIOUS
<1>2. PICK m : m = Head(p.mail)
  OBVIOUS
<1> DEFINE struck == [i \in DOMAIN emails |->
                         IF i = p.found THEN [emails[i] EXCEPT !.live = FALSE] ELSE emails[i]]
           added == Append(emails, [of |-> p.of, kind |-> m.kind, address |-> m.address, live |-> TRUE])
           changed == [emails EXCEPT ![p.found].address = m.address]
           written == IF m.address = Nowhere THEN struck ELSE IF p.found = 0 THEN added ELSE changed
           gone == p.found # 0 /\ ~emails[p.found].live
           done == m.address = Nowhere \/ (~gone /\ Admitted(written))
<1>3. /\ p.kind = "mail" /\ emails' = IF done THEN written ELSE emails
      /\ desk' = [desk EXCEPT ![d] = IF done /\ Len(p.mail) > 1
                                        THEN [p EXCEPT !.kind = "look", !.mail = Tail(p.mail)]
                                        ELSE NoPaper]
      /\ UNCHANGED <<account, firm, dossier, sentTo, delivered, circle, posting>>
  <2>1. p.kind = "mail" /\ UNCHANGED <<account, firm, dossier, sentTo, delivered, circle, posting>>
    BY <1>1 DEF WriteMail
  <2>2. emails' = IF done THEN written ELSE emails
    BY <1>1, <1>2 DEF WriteMail
  <2>3. desk' = [desk EXCEPT ![d] = IF done /\ Len(p.mail) > 1
                                        THEN [p EXCEPT !.kind = "look", !.mail = Tail(p.mail)]
                                        ELSE NoPaper]
    BY <1>1, <1>2 DEF WriteMail
  <2> QED
    BY <2>1, <2>2, <2>3
<1>4. /\ PaperFits(p) /\ emails \in Seq(MailRow) /\ Admitted(emails)
      /\ p.of \in Account /\ p.mail \in Seq(MailGiven) /\ p.mail # <<>> /\ p.found \in 0 .. Len(emails)
      /\ Len(emails) \in Nat /\ DOMAIN emails = 1 .. Len(emails)
  BY <1>1, <1>3, LenProperties DEF AccountsSound, DesksSound, MailSound, PaperFits
<1>5. m \in MailGiven
  BY <1>2, <1>4
<1>6. struck \in Seq(MailRow) /\ Len(struck) = Len(emails) /\ Admitted(struck)
  <2>1. struck \in [1 .. Len(emails) -> MailRow]
    <3>1. ASSUME NEW row \in MailRow PROVE [row EXCEPT !.live = FALSE] \in MailRow
      BY DEF MailRow
    <3>2. \A i \in 1 .. Len(emails) : emails[i] \in MailRow
      BY <1>4
    <3>3. \A i \in 1 .. Len(emails) : struck[i] \in MailRow
      BY <1>4, <3>1, <3>2
    <3> QED
      BY <1>4, <3>3
  <2>2. struck \in Seq(MailRow) /\ Len(struck) = Len(emails) /\ DOMAIN struck = DOMAIN emails
    BY <1>4, <2>1
  <2>3. \A i \in DOMAIN emails :
           /\ struck[i].of = emails[i].of /\ struck[i].kind = emails[i].kind
           /\ struck[i].address = emails[i].address
           /\ struck[i].live => emails[i].live
    BY <1>4 DEF MailRow
  <2> HIDE DEF struck
  <2> QED
    BY <1>4, <2>2, <2>3 DEF Admitted
<1>7. ASSUME m.address # Nowhere, p.found = 0
      PROVE  added \in Seq(MailRow) /\ Len(added) = Len(emails) + 1
  BY <1>4, <1>5, <1>7 DEF MailRow, MailGiven
<1>8. ASSUME m.address # Nowhere, p.found # 0
      PROVE  changed \in Seq(MailRow) /\ Len(changed) = Len(emails)
  <2>1. changed \in [1 .. Len(emails) -> MailRow]
    <3>1. m.address \in Mailbox
      BY <1>5, <1>8 DEF MailGiven
    <3>2. ASSUME NEW row \in MailRow PROVE [row EXCEPT !.address = m.address] \in MailRow
      BY <3>1 DEF MailRow
    <3>3. emails \in [1 .. Len(emails) -> MailRow]
      BY <1>4
    <3>4. PICK row : row = [emails[p.found] EXCEPT !.address = m.address]
      OBVIOUS
    <3>5. row \in MailRow /\ changed = [emails EXCEPT ![p.found] = row]
      BY <1>4, <1>8, <3>2, <3>3, <3>4
    <3> QED
      BY <3>3, <3>5
  <2> QED
    BY <1>4, <2>1
<1> HIDE DEF struck, added, changed, gone
<1>9. written \in Seq(MailRow) /\ Len(emails) <= Len(written)
  BY <1>4, <1>6, <1>7, <1>8
<1>10. done => Admitted(written)
  BY <1>6
<1> HIDE DEF written
<1>11. emails' \in Seq(MailRow) /\ Len(emails) <= Len(emails') /\ MailSound'
  <2>1. Admitted(emails')
    BY <1>3, <1>4, <1>10
  <2> QED
    BY <1>3, <1>4, <1>9, <2>1 DEF MailSound, Admitted
<1> HIDE DEF done
<1>12. PICK q : desk' = [desk EXCEPT ![d] = q] /\ (q = NoPaper \/ (Len(p.mail) > 1 /\ q = [p EXCEPT !.kind = "look", !.mail = Tail(p.mail)]))
  BY <1>3
<1>13. PaperFits(q)'
  <2>1. CASE q = NoPaper
    BY <2>1 DEF PaperFits, NoPaper
  <2>2. CASE q # NoPaper
    <3>1. DOMAIN p = {"kind", "of", "copy", "given", "mail", "found"}
      BY <1>3, <1>4 DEF PaperFits, NoPaper
    <3>2. q.kind = "look" /\ q.mail = Tail(p.mail) /\ q.of = p.of /\ DOMAIN q = DOMAIN p
      BY <1>12, <2>2, <3>1
    <3>3. Tail(p.mail) \in Seq(MailGiven) /\ Tail(p.mail) # <<>>
      BY <1>4, <1>12, <2>2, TailStays
    <3> QED
      BY <1>4, <3>1, <3>2, <3>3 DEF PaperFits
  <2> QED
    BY <2>1, <2>2
<1>14. DesksSound'
  BY <1>11, <1>12, <1>13, DesksKept DEF AccountsSound
<1> QED
  BY <1>3, <1>11, <1>14 DEF AccountsSound, StaffSound, FirmsSound, FilesSound

LEMMA AccountsKept ==
    ASSUME AccountsSound, [AccountsNext]_accountVars
    PROVE  AccountsSound'
<1> DEFINE Still == UNCHANGED <<emails, desk, posting>>
<1>1. ASSUME Still, StaffSound', FirmsSound', FilesSound'
      PROVE  AccountsSound'
  BY <1>1 DEF AccountsSound, DesksSound, MailSound, Admitted, PaperFits
<1>2. ASSUME NEW u \in Account, Hire(u)
      PROVE  AccountsSound'
  <2>1. PICK filled \in posting.forms :
           LET row == Over(filled, [role |-> "MNE_STAFF", woredas |-> {}, partner |-> Nowhere,
                                  status |-> "ACTIVE", scope |-> Nowhere])
           IN  ValidAccount(row) /\ account' = [account EXCEPT ![u] = row]
    BY <1>2 DEF Hire
  <2>2. PICK blank : blank = [role |-> "MNE_STAFF", woredas |-> {}, partner |-> Nowhere,
                              status |-> "ACTIVE", scope |-> Nowhere]
    OBVIOUS
  <2>3. blank \in AccountRow /\ posting \in Postings
    BY <2>2 DEF AccountRow, UserRole, Youthful, AccountStatus, AccountsSound
  <2>4. PICK row : row = Over(filled, blank)
    OBVIOUS
  <2>5. row \in AccountRow
    BY <2>3, <2>4, FormOver
  <2>6. ValidAccount(row) /\ account' = [account EXCEPT ![u] = row]
    BY <2>1, <2>2, <2>4
  <2>7. StaffSound'
    BY <2>5, <2>6 DEF AccountsSound, StaffSound
  <2> QED
    BY <1>1, <1>2, <2>7 DEF Hire, AccountsSound, FirmsSound, FilesSound
<1>3. ASSUME NEW f \in Firm, Restand(f)
      PROVE  AccountsSound'
  <2>1. PICK s \in Standing : firm' = [firm EXCEPT ![f] = Kept([firm[f] EXCEPT !.standing = s])]
    BY <1>3 DEF Restand
  <2>2. PICK kept : kept = Kept([firm[f] EXCEPT !.standing = s])
    OBVIOUS
  <2>3. firm[f] \in FirmRow
    BY DEF AccountsSound, FirmsSound
  <2>4. kept \in FirmRow /\ (kept.active => kept.standing = "ACTIVE")
    BY <2>2, <2>3 DEF Kept, FirmRow
  <2>5. FirmsSound'
    BY <2>1, <2>2, <2>4 DEF AccountsSound, FirmsSound
  <2> QED
    BY <1>1, <1>3, <2>5 DEF Restand, AccountsSound, StaffSound, FilesSound
<1>4. ASSUME NEW c \in Dossier, OpenDossier(c)
      PROVE  AccountsSound'
  <2>1. FilesSound'
    BY <1>4 DEF OpenDossier, AccountsSound, FilesSound, DossierRow
  <2> QED
    BY <1>1, <1>4, <2>1 DEF OpenDossier, AccountsSound, StaffSound, FirmsSound
<1>5. ASSUME NEW c \in OpenedFiles, NEW f \in Firm, Refer(c, f)
      PROVE  AccountsSound'
  <2>1. FilesSound'
    BY <1>5 DEF Refer, AccountsSound, FilesSound, OpenedFiles
  <2> QED
    BY <1>1, <1>5, <2>1 DEF Refer, AccountsSound, StaffSound, FirmsSound
<1>6. ASSUME NEW by \in Account, NEW c \in Dossier, Deliver(by, c)
      PROVE  AccountsSound'
  <2>1. FilesSound'
    BY <1>6 DEF Deliver, AccountsSound, FilesSound, Delivery
  <2> QED
    BY <1>1, <1>6, <2>1 DEF Deliver, AccountsSound, StaffSound, FirmsSound
<1>7. ASSUME NEW by \in Account, NEW g \in Circle, Draft(by, g)
      PROVE  AccountsSound'
  <2>1. FilesSound'
    BY <1>7 DEF Draft, AccountsSound, FilesSound
  <2> QED
    BY <1>1, <1>7, <2>1 DEF Draft, AccountsSound, StaffSound, FirmsSound
<1>8. ASSUME NEW d \in Desk, Serve(d)
      PROVE  AccountsSound'
  BY <1>8, SavesKeep, LookKeeps, WriteKeeps, EditAccountKeeps, EditFirmKeeps, EditDossierKeeps DEF Serve
<1>9. CASE UNCHANGED accountVars
  BY <1>1, <1>9 DEF accountVars, AccountsSound, StaffSound, FirmsSound, FilesSound
<1> QED
  BY <1>2, <1>3, <1>4, <1>5, <1>6, <1>7, <1>8, <1>9 DEF AccountsNext

LEMMA AccountsBegin ==
    ASSUME AccountsInit
    PROVE  AccountsSound
<1>1. posting \in Postings /\ Posting(posting)
  BY AccountsAssumption DEF AccountsInit
<1>2. StaffSound
  BY <1>1 DEF AccountsInit, StaffSound, Posting
<1>3. FirmsSound
  BY DEF AccountsInit, FirmsSound, FirmRow, Standing
<1>4. MailSound
  BY DEF AccountsInit, MailSound, Admitted
<1>5. FilesSound
  BY DEF AccountsInit, FilesSound, DossierRow
<1>6. DesksSound
  BY DEF AccountsInit, DesksSound, PaperFits, NoPaper
<1> QED
  BY <1>1, <1>2, <1>3, <1>4, <1>5, <1>6 DEF AccountsSound

\* Rows of accounts stay whole, partners out of standing take no referrals and
\* addresses stay apart, whatever requests overlap: serializers.py, models.py.
THEOREM AccountsStandUp == AccountsSpec => []AccountsAddUp
<1>1. AccountsSound => AccountsAddUp
  BY DEF AccountsSound, StaffSound, FirmsSound, MailSound, Admitted, AccountsAddUp
<1> QED
  BY <1>1, AccountsBegin, AccountsKept, PTL DEF AccountsSpec


-----------------------------------------------------------------------------
(* Who sees which rows.                                                    *)

\* The rows of the matrix, read one way each.
LEMMA MatrixRows ==
    ASSUME AccountsSound, NEW u \in Account
    PROVE  /\ Access(u).case \in {"ALL", "OWN_WOREDA", "OWN_CASELOAD"} =>
                 Access(u).referral = Access(u).case
           /\ account[u].role = "CASE_MANAGER" => Access(u).case = "OWN_CASELOAD"
           /\ account[u].role = "PARTNER_STAFF" => Access(u).referral = "LINKED"
           /\ account[u].role \in WltRoles => Access(u).case = "NONE" /\ Access(u).referral = "NONE"
           /\ account[u].role \in Youthful =>
                 /\ Access(u).group = "NONE"
                 /\ Access(u).case \in {"ALL", "OWN_WOREDA", "OWN_CASELOAD", "LINKED"}
<1>1. CASE account[u].role \in Youthful
  BY <1>1 DEF Access, Youthful, WltRoles, AccessOfYouthRole, Reading, NO_ACCESS
<1>2. CASE account[u].role \in UserRole \ Youthful
  <2>1. account[u].role \in WltRoles \cup {"SYSTEM_ADMIN"} /\ Access(u) = AccessOfOtherRole(account[u].role)
    BY <1>2 DEF UserRole, Access
  <2> QED
    BY <2>1, <1>2 DEF WltRoles, Youthful, AccessOfOtherRole, Reading, NO_ACCESS
<1>3. CASE account[u].role \notin UserRole
  <2>1. account[u].role = "NONE" /\ Access(u) = NO_ACCESS
    BY <1>3 DEF AccountsSound, StaffSound, AccountRow, NoAccount, UserRole, Access
  <2> QED
    BY <2>1 DEF NO_ACCESS, WltRoles, Youthful
<1> QED
  BY <1>1, <1>2, <1>3

LEMMA ReferralsAgree ==
    ASSUME AccountsSound
    PROVE  OneReferralList
<1> SUFFICES ASSUME NEW u \in Account, Access(u).case \in {"ALL", "OWN_WOREDA", "OWN_CASELOAD"}
             PROVE  scoped_bases_referrals(u) = scoped_referrals(u)
  BY DEF OneReferralList, ReadsFigures
<1>1. Access(u).referral = Access(u).case
  BY MatrixRows
<1> QED
  BY <1>1 DEF scoped_bases_referrals, scoped_referrals, InScope

LEMMA CaseloadsAgree ==
    ASSUME AccountsSound
    PROVE  OneCaseload
<1> SUFFICES ASSUME NEW u \in Account, account[u].role = "CASE_MANAGER"
             PROVE  /\ caseload_count(u) = Cardinality(my_caseload(u))
                    /\ \A reader \in Account :
                          Access(reader).case = "ALL" => caseload_summary(reader, u) = caseload_count(u)
  BY DEF OneCaseload
<1>1. Access(u).case = "OWN_CASELOAD"
  BY MatrixRows
<1> DEFINE InHand == {c \in OpenedFiles : dossier[c].manager = u /\ dossier[c].open}
<1>2. my_caseload(u) = InHand
  BY <1>1 DEF my_caseload, scoped_cases, InScope, OpenedFiles
<1>3. ASSUME NEW reader \in Account, Access(reader).case = "ALL"
      PROVE  {c \in scoped_cases(reader) : dossier[c].manager = u /\ dossier[c].open} = InHand
  BY <1>3 DEF scoped_cases, InScope
<1> QED
  BY <1>2, <1>3 DEF caseload_count, caseload_summary

\* The four places on the way up from a kebele, each of the level it should be.
LEMMA FourLevels ==
    ASSUME NEW k \in Place, LevelOf[k] = "KEBELE"
    PROVE  /\ \A n \in 0 .. 3 : Climb(k, n) \in Place
           /\ \A n \in 0 .. 3 : Depth(LevelOf[Climb(k, n)]) = n
<1>1. Climb(k, 0) = k /\ Climb(k, 1) = Up(k) /\ Climb(k, 2) = Up(Up(k)) /\ Climb(k, 3) = Up(Up(Up(k)))
  BY DEF Climb
<1>2. \A l \in Place : LevelOf[l] # "REGION" =>
          /\ Up(l) \in Place /\ LevelOf[Up(l)] = ParentLevel[LevelOf[l]]
  BY AccountsAssumption DEF Up
<1>3. /\ ParentLevel["KEBELE"] = "WOREDA" /\ ParentLevel["WOREDA"] = "ZONE"
      /\ ParentLevel["ZONE"] = "REGION"
  BY DEF ParentLevel
<1>4. Up(k) \in Place /\ LevelOf[Up(k)] = "WOREDA"
  BY <1>2, <1>3
<1>5. Up(Up(k)) \in Place /\ LevelOf[Up(Up(k))] = "ZONE"
  BY <1>2, <1>3, <1>4
<1>6. Up(Up(Up(k))) \in Place /\ LevelOf[Up(Up(Up(k)))] = "REGION"
  BY <1>2, <1>3, <1>5
<1>7. Depth("KEBELE") = 0 /\ Depth("WOREDA") = 1 /\ Depth("ZONE") = 2 /\ Depth("REGION") = 3
  BY DEF Depth
<1> HIDE DEF Climb
<1> SUFFICES ASSUME NEW n \in 0 .. 3
             PROVE  Climb(k, n) \in Place /\ Depth(LevelOf[Climb(k, n)]) = n
  OBVIOUS
<1>8. n = 0 \/ n = 1 \/ n = 2 \/ n = 3
  OBVIOUS
<1> QED
  BY <1>1, <1>4, <1>5, <1>6, <1>7, <1>8

\* What the list of groups filters by is the walk that the forms make.
LEMMA SubtreeIsWalk ==
    ASSUME NEW k \in Place, LevelOf[k] = "KEBELE", NEW l
    PROVE  l # Nowhere /\ InSubtree(k, l) <=> l \in Ancestors(k)
<1>1. ASSUME l # Nowhere, InSubtree(k, l)
      PROVE  l \in Ancestors(k)
  <2>1. PICK n \in 0 .. 3 : n = Depth(LevelOf[l])
    BY DEF Depth
  <2> QED
    BY <1>1, <2>1 DEF InSubtree, Ancestors
<1>2. ASSUME l \in Ancestors(k)
      PROVE  l # Nowhere /\ InSubtree(k, l)
  <2>1. PICK n \in 0 .. 3 : l = Climb(k, n)
    BY <1>2 DEF Ancestors
  <2>2. Depth(LevelOf[l]) = n
    BY <2>1, FourLevels
  <2> QED
    BY <1>2, <2>1, <2>2 DEF InSubtree, Ancestors
<1> QED
  BY <1>1, <1>2

LEMMA OffersAgree ==
    ASSUME AccountsSound
    PROVE  OfferedIsTaken
<1>1. \A u \in Account : \A v \in case_managers(u) : ValidManager(v)
  BY DEF case_managers, ValidManager, IsOperational
<1>2. ASSUME NEW g \in Circle
      PROVE  wlt_facilitators(KebeleOf[g])
                 = {v \in Account : IsOperational(v) /\ ValidFacilitator(v, KebeleOf[g])}
  BY DEF wlt_facilitators, ValidFacilitator, IsOperational, IsWithin, Ancestors
<1>3. ASSUME NEW u \in Account, NEW g \in Drafted, Access(u).group = "OWN_GEOGRAPHY"
      PROVE  g \in scoped_groups(u) <=> account[u].scope \in Ancestors(KebeleOf[g])
  <2>1. PICK k, l : k = KebeleOf[g] /\ l = account[u].scope
    OBVIOUS
  <2>2. k \in Place /\ LevelOf[k] = "KEBELE"
    BY <2>1, AccountsAssumption DEF Drafted
  <2>3. l # Nowhere /\ InSubtree(k, l) <=> l \in Ancestors(k)
    BY <2>2, SubtreeIsWalk
  <2> QED
    BY <1>3, <2>1, <2>3 DEF scoped_groups
<1> QED
  BY <1>1, <1>2, <1>3 DEF OfferedIsTaken

\* Complaints are of a case or of a group.
LEMMA ProgrammesApart ==
    ASSUME AccountsSound
    PROVE  TwoProgrammes
<1> SUFFICES ASSUME NEW u \in Account
             PROVE  /\ account[u].role \in WltRoles =>
                          /\ scoped_cases(u) = {} /\ scoped_referrals(u) = {}
                          /\ \A k \in scoped_grievances(u) : k.case = Nowhere
                    /\ account[u].role \in Youthful =>
                          /\ scoped_groups(u) = {}
                          /\ \A k \in scoped_grievances(u) :
                                k.group # Nowhere =>
                                    Access(u).case = "ALL" \/ k.woreda \in account[u].woredas
                    /\ account[u].role = "PARTNER_STAFF" =>
                          scoped_referrals(u) = {r \in Referrals : r[2] = account[u].partner}
  BY DEF TwoProgrammes
<1>1. \A k \in Complaint : k.group \in Drafted => k.case = Nowhere
  BY AccountsAssumption DEF Complaint, Drafted
<1>2. \A k \in Complaint : k.group # Nowhere => k.case = Nowhere
  BY DEF Complaint
<1>3. \A c, woreda, to : ~InScope(u, "NONE", c, woreda, to)
  BY DEF InScope
<1>4. CASE account[u].role \in WltRoles
  <2>1. Access(u).case = "NONE" /\ Access(u).referral = "NONE"
    BY <1>4, MatrixRows
  <2>2. scoped_cases(u) = {} /\ scoped_referrals(u) = {}
    BY <1>3, <2>1 DEF scoped_cases, scoped_referrals
  <2>3. \A k \in scoped_grievances(u) : k.case = Nowhere
    BY <1>1, <1>3, <2>1 DEF scoped_grievances, scoped_groups
  <2>4. account[u].role \notin Youthful /\ account[u].role # "PARTNER_STAFF"
    BY <1>4 DEF WltRoles, Youthful
  <2> QED
    BY <2>2, <2>3, <2>4
<1>5. CASE account[u].role \in Youthful
  <2>1. /\ Access(u).group = "NONE" /\ account[u].role \notin WltRoles
        /\ Access(u).case \in {"ALL", "OWN_WOREDA", "OWN_CASELOAD", "LINKED"}
    BY <1>5, MatrixRows DEF WltRoles, Youthful
  <2>2. scoped_groups(u) = {}
    BY <2>1 DEF scoped_groups
  <2>3. ASSUME NEW k \in scoped_grievances(u), k.group # Nowhere
        PROVE  Access(u).case = "ALL" \/ k.woreda \in account[u].woredas
    <3>1. k \in Complaint /\ k.case = Nowhere
      BY <1>2, <2>3 DEF scoped_grievances
    <3>2. InScope(u, Access(u).case, Nowhere, k.woreda, Nowhere)
      BY <2>2, <2>3, <3>1 DEF scoped_grievances
    <3>3. ~LinkedThrough(u, Nowhere) /\ Nowhere \notin Dossier
      BY AccountsAssumption DEF LinkedThrough, AccountsSound, FilesSound, Delivery
    <3> QED
      BY <3>2, <3>3 DEF InScope
  <2>4. ASSUME account[u].role = "PARTNER_STAFF"
        PROVE  scoped_referrals(u) = {r \in Referrals : r[2] = account[u].partner}
    <3>1. Access(u).referral = "LINKED"
      BY <2>4, MatrixRows
    <3>2. \A r \in Referrals : r[2] # Nowhere
      BY AccountsAssumption DEF Referrals
    <3> QED
      BY <2>4, <3>1, <3>2 DEF scoped_referrals, InScope
  <2> QED
    BY <2>1, <2>2, <2>3, <2>4
<1>6. CASE account[u].role \notin WltRoles \cup Youthful
  BY <1>6 DEF Youthful
<1> QED
  BY <1>4, <1>5, <1>6

\* What several screens compute comes out the same for every account, whatever
\* it was turned into: dashboard/services.py, users/permissions.py, scoping.py.
THEOREM AccountsSeeAlike == AccountsSpec => []ScreensAgree
<1>1. AccountsSound => ScreensAgree
  BY ReferralsAgree, CaseloadsAgree, OffersAgree, ProgrammesApart DEF ScreensAgree
<1> QED
  BY <1>1, AccountsBegin, AccountsKept, PTL DEF AccountsSpec
=============================================================================
