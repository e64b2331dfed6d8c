----------------------------- MODULE LinkageMC ------------------------------
(***************************************************************************)
(* Instances of Linkage: one group, which belongs to one association, and  *)
(* three users.                                                            *)
(***************************************************************************)
EXTENDS Linkage

CONSTANTS shg1, cla1, maker, officer, admin

MCMembers == [s \in {shg1, cla1} |-> {shg1}]
MCRoleOf == [u \in User |->
    CASE u = officer -> "WLT_WOREDA_OFFICER"
      [] u = admin -> "SYSTEM_ADMIN"
      [] OTHER -> "WLT_FACILITATOR"]
OneLevel == <<"WLT_WOREDA_OFFICER">>

\* What forms say of the terms.
Silent == [resolution |-> "", outstanding |-> ""]
Resolved == [resolution |-> "yes", outstanding |-> "no"]

\* One request at a time: everything, for one linkage ...
Lone == [inFlight |-> 1, raised |-> 1, users |-> User, ops |-> UserOps \cup JobOps,
         terms |-> {Silent, Resolved}]
\* ... and what makes two of them live and end.
Pair == [inFlight |-> 1, raised |-> 2, users |-> {maker, admin}, terms |-> {Resolved},
         ops |-> {"submit", "approve", "reject", "activate", "obligation", "cure", "close"}]
\* Two requests at once, while it is decided and while it is live.
Deciding == [inFlight |-> 2, raised |-> 1, users |-> User, terms |-> {Silent},
             ops |-> {"screen", "resolution", "submit", "override", "approve", "return", "reject"}]
Living == [inFlight |-> 2, raised |-> 1, users |-> {maker, officer}, terms |-> {Silent},
           ops |-> {"resolution", "submit", "approve", "activate", "obligation", "settle", "cure",
                    "default", "edit"}]
MCScenarios == {Lone, Pair, Deciding, Living}
LoneOnly == {Lone}
=============================================================================
