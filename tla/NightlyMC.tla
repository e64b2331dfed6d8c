----------------------------- MODULE NightlyMC ------------------------------
(***************************************************************************)
(* What the scheduled jobs owe in the end: the alerts they clear away      *)
(* (AlertInbox) and the distress they show (LinkageMC).  The two share no  *)
(* variable: a behaviour moves one of them, chosen at the start.           *)
(***************************************************************************)
EXTENDS AlertInbox, LinkageMC

\* Two requests at once around one linkage in distress; and the group's own in
\* distress while the one of its association is cured.
Nearby == [Living EXCEPT !.ops = @ \ {"edit", "settle"}]
Shared == [inFlight |-> 1, raised |-> 2, users |-> {maker, admin}, terms |-> {Resolved},
           ops |-> {"submit", "approve", "activate", "obligation", "cure"}]
Nights == {Nearby, Shared}

VARIABLE part    \* which of them moves

nightlyVars == <<inboxVars, linkageVars, part>>

OnlyInbox == part = "inbox" /\ UNCHANGED <<linkageVars, part>>
OnlyLinkage == part = "linkage" /\ UNCHANGED <<inboxVars, part>>

NightlyInit == part \in {"inbox", "linkage"} /\ InboxInit /\ LinkageInit

NightlyNext == (OnlyInbox /\ InboxNext) \/ (OnlyLinkage /\ LinkageNext)

\* The fairness of InboxFairSpec ...
InboxJobs(b) ==
    /\ WF_nightlyVars(OnlyInbox /\ RaiseStep(b))
    /\ SF_nightlyVars(OnlyInbox /\ SweepFetch(b))
    /\ SF_nightlyVars(OnlyInbox /\ SweepClose(b))
    /\ \A a \in Alert : SF_nightlyVars(OnlyInbox /\ (SweepKeep(b, a) \/ SweepLook(b, a)))

\* ... and of NightlyFairness.
RefreshJob(g) ==
    /\ WF_nightlyVars(OnlyLinkage /\ RefreshRead(g))
    /\ WF_nightlyVars(OnlyLinkage /\ RefreshWrite(g))

NightlySpec ==
    /\ NightlyInit /\ [][NightlyNext]_nightlyVars
    /\ \A b \in Beat : InboxJobs(b)
    /\ \A g \in Group : RefreshJob(g)
=============================================================================
