----------------------------- MODULE MCService -----------------------------
(***************************************************************************)
(* A small instance of Service: two threads, two endpoints whose circuits  *)
(* open after two failures, and two users, one of them an investigator.    *)
(***************************************************************************)
EXTENDS Service, TLC

Roles == "leads" :> "investigator" @@ "staff" :> "viewer"
DeskGroups == "staff" :> "rates"

Ask(op, user, groups) ==
    [op |-> op, user |-> user, groups |-> groups, genuine |-> TRUE, tooLarge |-> FALSE,
     desk |-> "fx", prompt |-> 1]

\* An investigation; reads by a user of another desk; requests that are refused.
SmallRequests ==
    {Ask("investigate", "ivan", {"leads"}),
     Ask("case", "vera", {"staff"}), Ask("cases", "vera", {"staff"}),
     Ask("cases", "nobody", {}),
     [Ask("cases", "ivan", {"leads"}) EXCEPT !.genuine = FALSE],
     [Ask("cases", "ivan", {"leads"}) EXCEPT !.tooLarge = TRUE]}

\* Production behind a proxy, as it must be, with one thing missing, and a
\* laptop without a model.
Prod == [prod |-> TRUE, mode |-> "proxy", secret |-> TRUE, https |-> TRUE, agents |-> TRUE,
         anchored |-> TRUE, rate |-> 2, requests |-> 2]

SmallSettings ==
    {Prod, [Prod EXCEPT !.anchored = FALSE], [Prod EXCEPT !.rate = 0], [Prod EXCEPT !.mode = "dev"],
     [Prod EXCEPT !.prod = FALSE, !.mode = "dev", !.agents = FALSE, !.rate = 1, !.requests = 3]}

=============================================================================
