------------------------------- MODULE Service -------------------------------
(***************************************************************************)
(* The HTTP service (src/asas/api/app.py): start-up checks                 *)
(* (core/readiness.py), and per request the size limit, authentication     *)
(* (core/auth.py), the rate limit (core/ratelimit.py), the entitlements    *)
(* (core/security.py), and the handler: reading a case, listing cases, or  *)
(* an investigation that asks a model through the gateway.                 *)
(***************************************************************************)
EXTENDS Gateway

CONSTANTS
    Settings,       \* configurations and environments the service may start in,
                    \* with a bound of the requests it serves
    Requests,       \* what clients send
    RoleMap,        \* RoleMap[g], DeskMap[g]: what a directory group grants
    DeskMap,
    Desks           \* the desks that have a case

ASSUME ServiceAssumption ==
    /\ \A s \in Settings : s.rate \in Int /\ s.requests \in Nat
    /\ \A r \in Requests : r.prompt \in Prompts /\ (r.op = "case" => r.desk \in Desks)

VARIABLES
    setting,    \* configuration and environment of this process
    buckets,    \* RateLimiter._buckets: [tokens, last] of a user, or None
    admitted,   \* history: requests of a user the limiter has let through
    served      \* bounded counter

vars == <<gatewayVars, setting, buckets, admitted, served>>

-----------------------------------------------------------------------------
(* Start-up. *)

\* FAIL in production is WARN elsewhere; a proxy without its secret always fails.
Failing(s) ==
    {check \in {"auth", "proxy_secret", "oidc_jwks", "model_endpoint", "audit_anchor", "rate_limit"} :
        \/ check = "auth" /\ s.prod /\ s.mode = "dev"
        \/ check = "proxy_secret" /\ s.mode = "proxy" /\ ~s.secret
        \/ check = "oidc_jwks" /\ s.prod /\ s.mode = "oidc" /\ ~s.https
        \/ check = "model_endpoint" /\ s.prod /\ s.agents /\ ~s.https
        \/ check = "audit_anchor" /\ s.prod /\ ~s.anchored
        \/ check = "rate_limit" /\ s.prod /\ s.rate = 0}

\* enforce(), then build_authenticator().
Starts(s) ==
    /\ s.prod => Failing(s) = {}
    /\ s.mode \in {"dev", "proxy", "oidc"}
    /\ s.mode = "proxy" => s.secret

-----------------------------------------------------------------------------
(* Who asks. *)

RolesOf(groups) == {RoleMap[g] : g \in groups \cap DOMAIN RoleMap}
DesksOf(groups) == {DeskMap[g] : g \in groups \cap DOMAIN DeskMap}

Denied(status) == [status |-> status, user |-> None, roles |-> {}, desks |-> {}]

\* Entitlements.principal
Entitled(user, groups) ==
    IF user = None THEN Denied(401)
    ELSE IF RolesOf(groups) = {} THEN Denied(403)
    ELSE [status |-> 200, user |-> user, roles |-> RolesOf(groups), desks |-> DesksOf(groups)]

\* Dev headers name roles and desks themselves, or get the defaults.
DevPrincipal(r) ==
    [status |-> 200, user |-> IF r.user = None THEN "anonymous" ELSE r.user,
     roles |-> IF RolesOf(r.groups) = {} THEN {"viewer"} ELSE RolesOf(r.groups),
     desks |-> IF DesksOf(r.groups) = {} THEN {"*"} ELSE DesksOf(r.groups)]

\* genuine: the proxy's secret is right, or the token verifies.
Authenticate(r) ==
    IF setting.mode = "dev" THEN DevPrincipal(r)
    ELSE IF ~r.genuine THEN Denied(401)
    ELSE Entitled(r.user, r.groups)

SeesDesk(who, desk) == {"*", desk} \cap who.desks # {}

HasRole(who, roles) == (roles \cup {"admin"}) \cap who.roles # {}

-----------------------------------------------------------------------------
(* Requests. *)

Init ==
    /\ GatewayInit
    /\ setting \in {s \in Settings : Starts(s)}
    /\ buckets = << >>
    /\ admitted = << >>
    /\ served = 0

\* The reply: its status and the desks whose cases it shows.
Finish(t, status, desks) ==
    Go(t, "done", [NoWork EXCEPT !.status = status, !.request = desks])

Principal(t) == Authenticate(work[t].request)

\* The envelope, then the principal of the request.
Receive(t, r) ==
    /\ pc[t] = "idle" /\ served < setting.requests
    /\ served' = served + 1
    /\ IF r.tooLarge THEN Finish(t, 413, {})
       ELSE IF Authenticate(r).status # 200 THEN Finish(t, Authenticate(r).status, {})
       ELSE Go(t, "limit", [NoWork EXCEPT !.request = r, !.prompt = r.prompt])
    /\ UNCHANGED <<clock, breakers, recorded, late, setting, buckets, admitted>>

\* The time is read before the lock is taken: it may be old when it is used.
ReadClock(t) ==
    /\ pc[t] = "limit"
    /\ Go(t, "bucket", [work[t] EXCEPT !.attempt = clock])
    /\ UNCHANGED <<clock, breakers, recorded, late, setting, buckets, admitted, served>>

Least(a, b) == IF a < b THEN a ELSE b

\* Time is counted in the seconds that earn one token. An old reading takes
\* tokens back, which the next one returns.
Refilled(user, now) ==
    LET b == IF user \in DOMAIN buckets THEN buckets[user] ELSE [tokens |-> setting.rate, last |-> now]
    IN  Least(setting.rate, b.tokens + now - b.last)

Put(f, x, v) == [y \in DOMAIN f \cup {x} |-> IF y = x THEN v ELSE f[y]]

Count(user) == IF user \in DOMAIN admitted THEN admitted[user] ELSE 0

\* Mutant: a refusal credits the time since the last request but forgets to
\* move its end.
RefuseKeepsTime(t) ==
    LET user == Principal(t).user
        now == work[t].attempt
        tokens == Refilled(user, now)
        last == IF user \in DOMAIN buckets THEN buckets[user].last ELSE now
    IN  /\ pc[t] = "bucket"
        /\ IF tokens >= 1
           THEN /\ buckets' = Put(buckets, user, [tokens |-> tokens - 1, last |-> last])
                /\ admitted' = Put(admitted, user, Count(user) + 1)
                /\ Go(t, "handle", [work[t] EXCEPT !.attempt = 0])
           ELSE /\ buckets' = Put(buckets, user, [tokens |-> tokens, last |-> now])
                /\ Finish(t, 429, {})
                /\ UNCHANGED admitted
        /\ UNCHANGED <<clock, breakers, recorded, late, setting, served>>

\* RateLimiter.allow
Limit(t) ==
    LET user == Principal(t).user
        now == work[t].attempt
        tokens == Refilled(user, now)
    IN  /\ pc[t] = "bucket"
        /\ IF tokens >= 1
           THEN /\ buckets' = Put(buckets, user, [tokens |-> tokens - 1, last |-> now])
                /\ admitted' = Put(admitted, user, Count(user) + 1)
                /\ Go(t, "handle", [work[t] EXCEPT !.attempt = 0])
           ELSE /\ buckets' = Put(buckets, user, [tokens |-> tokens, last |-> now])
                /\ Finish(t, 429, {})
                /\ UNCHANGED admitted
        /\ UNCHANGED <<clock, breakers, recorded, late, setting, served>>

ListCases(t) ==
    /\ pc[t] = "handle" /\ work[t].request.op = "cases"
    /\ Finish(t, 200, {d \in Desks : SeesDesk(Principal(t), d)})
    /\ UNCHANGED <<clock, breakers, recorded, late, setting, buckets, admitted, served>>

CaseDetail(t) ==
    LET desk == work[t].request.desk IN
    /\ pc[t] = "handle" /\ work[t].request.op = "case"
    /\ IF SeesDesk(Principal(t), desk)
       THEN Finish(t, 200, {desk})
       ELSE Finish(t, 403, {})
    /\ UNCHANGED <<clock, breakers, recorded, late, setting, buckets, admitted, served>>

\* Platform.investigate, which asks the model once here.
Investigate(t) ==
    /\ pc[t] = "handle" /\ work[t].request.op = "investigate"
    /\ IF HasRole(Principal(t), {"investigator", "approver", "service"})
       THEN IF setting.agents THEN Go(t, "lookup", work[t])
            ELSE Go(t, "reply", [NoWork EXCEPT !.status = 200])
       ELSE Finish(t, 403, {})
    /\ UNCHANGED <<clock, breakers, recorded, late, setting, buckets, admitted, served>>

Reply(t) ==
    /\ pc[t] = "reply"
    /\ Finish(t, work[t].status, {})
    /\ UNCHANGED <<clock, breakers, recorded, late, setting, buckets, admitted, served>>

\* The client has its answer.
Deliver(t) ==
    /\ pc[t] = "done"
    /\ Go(t, "idle", NoWork)
    /\ UNCHANGED <<clock, breakers, recorded, late, setting, buckets, admitted, served>>

Serve(t) ==
    \/ ReadClock(t) \/ Limit(t) \/ ListCases(t) \/ CaseDetail(t) \/ Investigate(t)
    \/ Reply(t) \/ Deliver(t)
    \/ Complete(t) /\ UNCHANGED <<setting, buckets, admitted, served>>

Next ==
    \/ \E t \in Threads : (\E r \in Requests : Receive(t, r)) \/ Serve(t)
    \/ Tick /\ UNCHANGED <<setting, buckets, admitted, served>>

Spec == Init /\ [][Next]_vars

\* The threads of the server run; clients need not send anything.
FairSpec == Spec /\ \A t \in Threads : WF_vars(Serve(t))

-----------------------------------------------------------------------------
(* Properties. *)

\* Every variable has its type; a circuit is open only after as many failures
\* as its threshold, and every request is answered with a status the API has.
TypeOK ==
    /\ clock \in 0..MaxClock /\ served \in 0..setting.requests
    /\ \A e \in 1..Endpoints :
         /\ failures[e] \in Nat /\ openedAt[e] \in (0..clock) \cup {None}
         /\ openedAt[e] # None => failures[e] >= Threshold
    /\ \A p \in Prompts : recorded[p] # None => recorded[p] \in 1..Endpoints
    /\ \A t \in Threads : pc[t] = "done" =>
         /\ work[t].status \in {200, 401, 403, 413, 429, 500}
         /\ work[t].request \subseteq Desks

\* The limiter lets a user through at most as often as its capacity and the
\* time that has passed allow, whatever order threads read the clock and take
\* its lock in.
WithinRate == \A user \in DOMAIN admitted : admitted[user] <= setting.rate + clock

\* Every request is answered: an endpoint that fails, hangs until its timeout
\* or keeps its circuit open moves the chain on and ends with the playbook.
EveryRequestEnds == \A t \in Threads : pc[t] # "idle" ~> pc[t] = "idle"

-----------------------------------------------------------------------------
(* Why they hold: the inductive invariant.                                 *)

Steps == {"idle", "limit", "bucket", "handle", "lookup", "allow", "call", "answer", "succeeded",
          "failed", "again", "store", "reply", "done"}

Statuses == {200, 401, 403, 413, 429, 500}

\* A thread holds the request until it has something to reply, then the desks
\* whose cases it shows.
Held(step) ==
    IF step \in {"idle", "reply"} THEN {None} ELSE IF step = "done" THEN SUBSET Desks ELSE Requests

Jobs(step) == [request : Held(step), prompt : Prompts \cup {None},
               endpoint : 1..Endpoints, attempt : Nat, status : Statuses \cup {0}]

\* What thread t relies on between two steps.
JobOK(t) ==
    /\ work[t] \in Jobs(pc[t])
    /\ pc[t] = "bucket" => work[t].attempt <= clock
    /\ pc[t] = "reply" => work[t].status \in {200, 500}
    /\ pc[t] = "done" => work[t].status \in Statuses

JobsOK ==
    /\ setting \in Settings
    /\ served \in 0..setting.requests
    /\ clock \in 0..MaxClock
    /\ recorded \in [Prompts -> 1..Endpoints \cup {None}]
    /\ pc \in [Threads -> Steps] /\ work = [t \in Threads |-> work[t]]
    /\ \A t \in Threads : JobOK(t)

\* No call counts as late while its circuit is closed, and a thread that is
\* about to call has made none since it opened.
BreakersOK ==
    /\ failures \in [1..Endpoints -> Nat]
    /\ openedAt \in [1..Endpoints -> 0..clock \cup {None}]
    /\ late \in [Threads -> [1..Endpoints -> {0, 1}]]
    /\ \A e \in 1..Endpoints : openedAt[e] # None => failures[e] >= Threshold
    /\ \A t \in Threads, e \in 1..Endpoints :
          openedAt[e] = None \/ (pc[t] = "call" /\ Of(t) = e) => late[t][e] = 0

\* What a user has had and what is left in the bucket are paid for by its
\* capacity and the time up to its last reading.
RateOK ==
    /\ \A user \in DOMAIN buckets :
          /\ buckets[user].tokens \in Int /\ buckets[user].last \in 0..clock
          /\ Count(user) + buckets[user].tokens <= setting.rate + buckets[user].last
    /\ \A user \in DOMAIN admitted :
          user \in DOMAIN buckets /\ admitted[user] \in Nat /\ admitted[user] <= setting.rate + clock

Inv == JobsOK /\ BreakersOK /\ RateOK

=============================================================================
