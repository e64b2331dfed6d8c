------------------------------ MODULE Assembly ------------------------------
(***************************************************************************)
(* How the groups of module GroupLife form cluster level associations, and *)
(* leave them.  apps/wlt/services/structure.py.                            *)
(*                                                                         *)
(* Nothing but the nightly expiry calls these services yet.  Each is one   *)
(* transaction, here one step, on rows just read.                          *)
(*                                                                         *)
(* Left out: federations, elections at meetings, dates, the linkages that  *)
(* a dissolution closes (Linkage has Close).                               *)
(***************************************************************************)
EXTENDS GroupLife

CONSTANTS
    ClaCap,        \* bound: associations formed
    MinGroups,     \* gate.cla.min_groups
    Delegates      \* gate.cla.delegates_per_group

ASSUME AssemblyAssumption == ClaCap \in Nat /\ MinGroups \in Nat /\ Delegates \in Nat \ {0}

VARIABLES
    formation,   \* the one formation event
    cla,         \* cla[c]: the associations, in the order they were formed
    parent,      \* parent[g]: those with an open membership of g
    seat,        \* open delegate seats
    vacated      \* closed ones

assemblyVars == <<formation, cla, parent, seat, vacated>>

ClaId == 1 .. ClaCap
Seat == [cla : ClaId, group : Shg, woman : Woman]
seatsPerGroup == 2     \* wlt_check_delegate_cap

FormationRow == [ status : {"ABSENT", "OPEN", "SUBMITTED", "RETURNED", "APPROVED", "EXPIRED"},
                  included : SUBSET Shg, elected : [Shg -> SUBSET Woman],
                  by : Officer \cup {Nobody}, decider : Officer \cup {Nobody} ]

AssemblyInit ==
    /\ LifeInit
    /\ formation = [status |-> "ABSENT", included |-> {}, elected |-> [g \in Shg |-> {}],
                    by |-> Nobody, decider |-> Nobody]
    /\ cla = [c \in ClaId |-> "ABSENT"]
    /\ parent = [g \in Shg |-> {}]
    /\ seat = {}
    /\ vacated = {}

\* wlt_formation_no_self_approval.
TwoPeople(row) == row.by = Nobody \/ row.decider = Nobody \/ row.by # row.decider

\* open_formation_event, with any groups as candidates.
OpenFormation(groups) ==
    /\ Allowed("form") /\ formation.status = "ABSENT"
    /\ formation' = [formation EXCEPT !.status = "OPEN", !.included = groups]
    /\ UNCHANGED <<lifeVars, cla, parent, seat, vacated>>

ExcludeCandidate(g) ==
    /\ g \in formation.included
    /\ formation' = [formation EXCEPT !.included = @ \ {g}]
    /\ UNCHANGED <<lifeVars, cla, parent, seat, vacated>>

RecordDelegates(g, women) ==
    /\ formation.status \in {"OPEN", "RETURNED"}
    /\ Cardinality(women) = Delegates /\ women \subseteq roster[g]
    /\ g \in formation.included
    /\ formation' = [formation EXCEPT !.elected[g] = women]
    /\ UNCHANGED <<lifeVars, cla, parent, seat, vacated>>

\* The gate cla_formation, over Group.cla_eligible.
EnoughGroups ==
    Cardinality({g \in Shg : shg[g].status = "ACTIVE" /\ shg[g].phase \in 2 .. 4}) >= MinGroups

\* structure.submit, whatever the event's status.
SubmitFormation(o) ==
    LET row == [formation EXCEPT !.status = "SUBMITTED", !.by = o]
    IN  /\ formation.status # "ABSENT"
        /\ \A g \in formation.included : formation.elected[g] # {}
        /\ EnoughGroups
        /\ TwoPeople(row)
        /\ formation' = row
        /\ UNCHANGED <<lifeVars, cla, parent, seat, vacated>>

\* return_event, whatever the event's status.
ReturnFormation(o) ==
    LET row == [formation EXCEPT !.status = "RETURNED", !.decider = o]
    IN  /\ formation.status # "ABSENT"
        /\ TwoPeople(row)
        /\ formation' = row
        /\ UNCHANGED <<lifeVars, cla, parent, seat, vacated>>

ExpireFormation ==
    /\ Allowed("expire")
    /\ formation.status \in {"OPEN", "RETURNED"}
    /\ formation' = [formation EXCEPT !.status = "EXPIRED"]
    /\ UNCHANGED <<lifeVars, cla, parent, seat, vacated>>

\* A decision that is made and signed at once.
Decision(g, to, by, o, n) ==
    [group |-> g, to |-> to, by |-> by, decider |-> o,
     outcome |-> "APPROVED", at |-> DecidedCount + n]

\* The groups of a set as a sequence, in an order of no account.
Ordered(groups) == CHOOSE s \in [1 .. Cardinality(groups) -> groups] :
                      \A g \in groups : \E n \in DOMAIN s : s[n] = g

\* structure.approve: the association, its memberships and seats, and the third
\* phase for every group included, whichever phase it was in.
ApproveFormation(o, c) ==
    LET groups == Ordered(formation.included)
        seated == {s \in Seat : s.cla = c /\ s.group \in formation.included
                                   /\ s.woman \in formation.elected[s.group]}
    IN  /\ formation.status = "SUBMITTED" /\ formation.by # o
        /\ EnoughGroups
        /\ cla[c] = "ABSENT" /\ \A d \in ClaId : d < c => cla[d] # "ABSENT"
        \* wlt_structural_one_open_parent_per_child, wlt_phase_only_when_operating.
        /\ \A g \in formation.included : parent[g] = {} /\ shg[g].status \in operating
        \* wlt_check_delegate_cap.
        /\ \A g \in formation.included : Cardinality(formation.elected[g]) <= seatsPerGroup
        /\ Len(trail) + Len(groups) <= TrailCap
        /\ formation' = [formation EXCEPT !.status = "APPROVED", !.decider = o]
        /\ cla' = [cla EXCEPT ![c] = "ACTIVE"]
        /\ parent' = [g \in Shg |-> IF g \in formation.included THEN {c} ELSE parent[g]]
        /\ seat' = seat \cup seated
        /\ trail' = trail \o [n \in 1 .. Len(groups) |->
                                 Decision(groups[n], 3, formation.by, o, n)]
        /\ shg' = [g \in Shg |-> IF g \in formation.included THEN [shg[g] EXCEPT !.phase = 3]
                                                              ELSE shg[g]]
        /\ UNCHANGED <<books, roster, office, task, season, vacated>>

\* phase.demote of those of groups that are in the third phase.
Demoted(groups, o) ==
    LET falling == Ordered({g \in groups : shg[g].phase = 3})
    IN  /\ Len(trail) + Len(falling) <= TrailCap
        /\ trail' = trail \o [n \in 1 .. Len(falling) |->
                                 Decision(falling[n], 2, Nobody, o, n)]
        /\ shg' = [g \in Shg |-> IF g \in groups /\ shg[g].phase = 3
                                 THEN [shg[g] EXCEPT !.phase = 2] ELSE shg[g]]

Vacates(seats) == seat' = seat \ seats /\ vacated' = vacated \cup seats

SeatsOf(g) == {s \in seat : s.group = g}

\* Wrong: the seats outlive the membership.
KeptSeats(g) == {}

\* Which seats close when a group withdraws.
LostSeats(g) == SeatsOf(g)

\* withdraw_group.
WithdrawGroup(o, g) ==
    /\ Allowed("withdraw")
    /\ parent[g] # {}
    /\ parent' = [parent EXCEPT ![g] = {}]
    /\ Vacates(LostSeats(g))
    /\ Demoted({g}, o)
    /\ UNCHANGED <<books, roster, office, task, season, formation, cla>>

\* dissolve_cla.  Without a membership there is no pass of the loop that closes
\* seats.
DissolveCla(o, c) ==
    LET children == {g \in Shg : c \in parent[g]}
    IN  /\ Allowed("dissolve")
        /\ cla[c] = "ACTIVE"
        /\ cla' = [cla EXCEPT ![c] = "DISSOLVED"]
        /\ parent' = [g \in Shg |-> parent[g] \ {c}]
        /\ Vacates(IF children = {} THEN {} ELSE {s \in seat : s.cla = c})
        /\ Demoted(children, o)
        /\ UNCHANGED <<books, roster, office, task, season, formation>>

\* rotate_delegate, of a seat that is open or, as nothing forbids, of one that
\* was closed.
RotateDelegate(s, p) ==
    LET next == [s EXCEPT !.woman = p]
    IN  /\ (s \in seat /\ Allowed("rotate")) \/ (s \in vacated /\ Allowed("reseat"))
        /\ seat' = (seat \ {s}) \cup {next}
        /\ Cardinality({t \in seat' : t.cla = s.cla /\ t.group = s.group}) <= seatsPerGroup
        /\ vacated' = (vacated \cup {s}) \ {next}
        /\ UNCHANGED <<lifeVars, formation, cla, parent>>

\* Between two requests of GroupLife, or while one is on its way.
AssemblyStep ==
    \/ \E groups \in SUBSET season.groups \ {{}} : OpenFormation(groups)
    \/ \E g \in Shg : ExcludeCandidate(g)
    \/ \E g \in Shg, women \in SUBSET Woman : RecordDelegates(g, women)
    \/ \E o \in Officer : SubmitFormation(o) \/ ReturnFormation(o)
    \/ ExpireFormation
    \/ \E o \in Officer, c \in ClaId : ApproveFormation(o, c) \/ DissolveCla(o, c)
    \/ \E o \in Officer, g \in Shg : WithdrawGroup(o, g)
    \/ \E s \in Seat, p \in Woman : RotateDelegate(s, p)

AssemblyNext == (LifeNext /\ UNCHANGED assemblyVars) \/ AssemblyStep

AssemblySpec == AssemblyInit /\ [][AssemblyNext]_<<lifeVars, assemblyVars>>

-----------------------------------------------------------------------------
(* Properties.                                                             *)

\* Whatever becomes of an event that is submitted, returned or approved again,
\* a group is in one association, an active one, and is represented by one or
\* two delegates there and nowhere else; unless a seat that was closed is
\* rotated.
SeatsFollowMembership ==
    "reseat" \notin season.does =>
        \A g \in Shg :
            /\ Cardinality(parent[g]) <= 1
            /\ \A c \in parent[g] : cla[c] = "ACTIVE"
            /\ {s.cla : s \in SeatsOf(g)} = parent[g]
            /\ Cardinality(SeatsOf(g)) <= seatsPerGroup
=============================================================================
