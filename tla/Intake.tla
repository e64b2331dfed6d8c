------------------------------- MODULE Intake -------------------------------
(***************************************************************************)
(* The register of youths: the import of a woreda's workbook, the form,    *)
(* and the correction of a record.  apps.youth.                            *)
(*                                                                         *)
(* An import reads the register once, into an index of the identities on   *)
(* file, then judges the rows of its workbook one after the other against  *)
(* that index and the rows before, and writes them all or none.  The form  *)
(* does not look at the register.                                          *)
(*                                                                         *)
(* A row is who it is about and what is wrong with it.  Left out: the      *)
(* other columns and how their cells are read, the template, who may see   *)
(* whom.                                                                   *)
(***************************************************************************)
EXTENDS Naturals, Sequences, FiniteSets

CONSTANTS
    Clerk,      \* requests that may be on their way at once
    Identifier, \* national or kebele identifiers
    NoIdentifier,
    Called,     \* a name with a date of birth
    YouthCap,   \* bound: rows of Youth
    Registers   \* what is done: which operations, how many at once, which workbooks

Person == [id : Identifier \cup {NoIdentifier}, called : Called]

\* "cell": a cell that cannot be read, or a woreda of somebody else's; "form":
\* what the form would refuse, such as no consent.
SheetRow == [who : Person, fault : {"none", "cell", "form"}]

ASSUME IntakeAssumption ==
    /\ IsFiniteSet(Clerk) /\ NoIdentifier \notin Identifier /\ YouthCap \in Nat
    /\ Registers \subseteq [does : SUBSET STRING, atOnce : Nat, sheets : SUBSET Seq(SheetRow)]

VARIABLES
    youth,      \* the rows of Youth, in the order of their creation
    filed,      \* history: who the workbooks that were committed were about
    sent,      \* sent[k]: the request of k, with what it has read
    register    \* which of Registers this behaviour shows

intakeVars == <<youth, filed, sent, register>>

IntakeOps == {"preview", "commit", "form", "edit"}
NoDesk == [op |-> "", sheet |-> <<>>, seen |-> {}, which |-> 0]

IntakeInit ==
    /\ youth = <<>> /\ filed = {}
    /\ sent = [k \in Clerk |-> NoDesk]
    /\ register \in Registers

-----------------------------------------------------------------------------
(* Who is who.                                                             *)

\* _keys: the identifier where there is one, and in any case name and birth.
Keys(who) == (IF who.id = NoIdentifier THEN {} ELSE {<<"id", who.id>>})
                 \cup {<<"name_dob", who.called>>}

\* _existing_index.
ExistingIndex == UNION {Keys(youth[i]) : i \in DOMAIN youth}

Known(who, seen) == Keys(who) \cap seen # {}

\* Wrong: the identities of the rows before are not looked at.
ForgetEarlier(sheet, seen, i) == seen

\* What is seen after n rows: the index, and those rows that were new.  A row
\* that is known adds nothing, and an error ends the import anyway.
SeenAfter(sheet, seen) ==
    LET after[n \in 0 .. Len(sheet)] ==
            IF n = 0 THEN seen
            ELSE LET r == sheet[n]
                 IN  IF r.fault = "none" /\ ~Known(r.who, after[n - 1])
                     THEN after[n - 1] \cup Keys(r.who) ELSE after[n - 1]
    IN  after

\* What row i is judged against.
SeenBefore(sheet, seen, i) == SeenAfter(sheet, seen)[i - 1]

\* run_import, per row: unreadable, on file, refused by the form, or new.
RowStatus(sheet, seen, i) ==
    LET r == sheet[i]
    IN  CASE r.fault = "cell"                              -> "error"
          [] r.fault # "cell" /\ Known(r.who, SeenBefore(sheet, seen, i)) -> "duplicate"
          [] r.fault = "form" /\ ~Known(r.who, SeenBefore(sheet, seen, i)) -> "error"
          [] OTHER                                         -> "new"

HasError(sheet, seen) == \E i \in DOMAIN sheet : RowStatus(sheet, seen, i) = "error"

NewRows(sheet, seen) ==
    LET new == {i \in DOMAIN sheet : RowStatus(sheet, seen, i) = "new"}
        nth(n) == CHOOSE i \in new : Cardinality({j \in new : j <= i}) = n
    IN  [n \in 1 .. Cardinality(new) |-> sheet[nth(n)].who]

-----------------------------------------------------------------------------

IntakeStarts(k, op) ==
    /\ op \in register.does /\ sent[k] = NoDesk
    /\ Cardinality({l \in Clerk : sent[l] # NoDesk}) < register.atOnce

IntakeEnds(k) == sent' = [sent EXCEPT ![k] = NoDesk] /\ UNCHANGED register

\* import_youth: read_rows, and the index run_import starts from.
BeginImport(k, op, sheet) ==
    /\ IntakeStarts(k, op) /\ op \in {"preview", "commit"}
    /\ sent' = [sent EXCEPT ![k] = [NoDesk EXCEPT !.op = op, !.sheet = sheet,
                                                    !.seen = ExistingIndex]]
    /\ UNCHANGED <<youth, filed, register>>

\* A preview, or a workbook with an error: the report, and nothing written.
ReportImport(k) ==
    /\ \/ sent[k].op = "preview"
       \/ sent[k].op = "commit" /\ HasError(sent[k].sheet, sent[k].seen)
    /\ IntakeEnds(k)
    /\ UNCHANGED <<youth, filed>>

\* The new rows, in one transaction.
CommitImport(k) ==
    LET sheet == sent[k].sheet
        rows == NewRows(sheet, sent[k].seen)
    IN  /\ sent[k].op = "commit" /\ ~HasError(sheet, sent[k].seen)
        /\ Len(youth) + Len(rows) <= YouthCap
        /\ youth' = youth \o rows
        /\ filed' = filed \cup {sheet[i].who : i \in DOMAIN sheet}
        /\ IntakeEnds(k)

\* POST: YouthIntakeSerializer, which asks for consent and a place.
RegisterYouth(who) ==
    /\ "form" \in register.does
    /\ Len(youth) < YouthCap
    /\ youth' = Append(youth, who)
    /\ UNCHANGED <<filed, sent, register>>

\* PATCH: get_object, then any of the fields that say who this is.
LoadYouth(k, i) ==
    /\ IntakeStarts(k, "edit") /\ i \in DOMAIN youth
    /\ sent' = [sent EXCEPT ![k] = [NoDesk EXCEPT !.op = "edit", !.which = i]]
    /\ UNCHANGED <<youth, filed, register>>

EditYouth(k, who) ==
    /\ sent[k].op = "edit"
    /\ youth' = [youth EXCEPT ![sent[k].which] = who]
    /\ IntakeEnds(k)
    /\ UNCHANGED filed

IntakeNext ==
    \/ \E k \in Clerk :
          \/ \E op \in IntakeOps, sheet \in register.sheets : BeginImport(k, op, sheet)
          \/ ReportImport(k) \/ CommitImport(k)
          \/ \E i \in 1 .. YouthCap : LoadYouth(k, i)
          \/ \E who \in Person : EditYouth(k, who)
    \/ \E who \in Person : RegisterYouth(who)

IntakeSpec == IntakeInit /\ [][IntakeNext]_intakeVars

-----------------------------------------------------------------------------
(* Properties.                                                             *)

\* Registers are sent again with names appended.  As long as nobody corrects
\* who a record is about, all of a committed workbook is on file, so that it adds
\* nobody when it comes again; and if youths come by workbooks only, one at a
\* time, no two records bear one identity, even if a workbook repeats one.
OnFileOnce ==
    /\ "edit" \notin register.does => \A who \in filed : Known(who, ExistingIndex)
    /\ register.does \cap {"form", "edit"} = {} /\ register.atOnce = 1
        => \A i, j \in DOMAIN youth : i # j => Keys(youth[i]) \cap Keys(youth[j]) = {}
=============================================================================
