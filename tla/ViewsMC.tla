------------------------------ MODULE ViewsMC -------------------------------
(***************************************************************************)
(* Instances of what is read off the rows: the alert inbox, the figures of *)
(* the youth programme (Dashboard) and those of a savings group            *)
(* (ReadinessMC).  The three share no variable, so an invariant of their   *)
(* product is one of each alone: a behaviour moves one of them, chosen at  *)
(* the start, and leaves the others where they began.                      *)
(***************************************************************************)
EXTENDS AlertInbox, Dashboard, ReadinessMC

CONSTANTS y1, y2    \* youths

(* Dashboard.                                                              *)

MCTraitOf == [c \in {y1, y2} |-> IF c = y1 THEN "women" ELSE "men"]

\* Referrals to their outcome, the dates of which may be past or ahead.
Outcomes == [does |-> {"register", "refer", "complete"}, backdates |-> TRUE,
             who |-> {y1, y2}, in |-> {"a"}, until |-> 2, slips |-> 2]
\* Youths who move from one district to another.
Moves == [does |-> {"register", "move", "refer", "complete"}, backdates |-> FALSE,
          who |-> {y1, y2}, in |-> {"a", "b"}, until |-> 0, slips |-> 2]
\* Referrals that fail, are cancelled and are replaced.
Losses == [does |-> {"register", "refer", "fail", "complete"}, backdates |-> FALSE,
           who |-> {y1, y2}, in |-> {"a"}, until |-> 1, slips |-> 3]
\* One placement, its checks and its end.
Jobs == [does |-> {"register", "refer", "place", "answer", "leave"}, backdates |-> TRUE,
         who |-> {y1}, in |-> {"a"}, until |-> 3, slips |-> 1]
MCTerms == {Outcomes, Moves, Losses, Jobs}

-----------------------------------------------------------------------------

\* Beat workers are alike, and so are referrals and the rows of alerts.
InboxInterchangeable == Permutations(Beat) \cup Permutations(Alert) \cup Permutations(Referral)

VARIABLE part    \* which of them moves

viewsVars == <<inboxVars, dashboardVars, readinessVars, part>>

OnlyInbox == part = "inbox" /\ UNCHANGED <<dashboardVars, readinessVars, part>>
OnlyDashboard == part = "dashboard" /\ UNCHANGED <<inboxVars, readinessVars, part>>
OnlyReadiness == part = "readiness" /\ UNCHANGED <<inboxVars, dashboardVars, part>>

\* Those that do not move begin in one state.
ViewsInit ==
    /\ part \in {"inbox", "dashboard", "readiness"}
    /\ InboxInit /\ DashboardInit /\ ReadinessInit
    /\ part # "dashboard" => term = Jobs
    /\ part # "readiness" => study = Books /\ bylaws[1].contribution = 1

ViewsNext ==
    \/ OnlyInbox /\ InboxNext
    \/ OnlyDashboard /\ DashboardNext
    \/ OnlyReadiness /\ ReadinessNext

ViewsSpec == ViewsInit /\ [][ViewsNext]_viewsVars
=============================================================================
