---------------------------- MODULE ServiceProofs ----------------------------
(***************************************************************************)
(* Proofs about Service and the gateway it asks, for any number of threads *)
(* and endpoints, any thresholds, retries, settings and requests.          *)
(***************************************************************************)
EXTENDS Service, TLAPS

-----------------------------------------------------------------------------
(* Jobs. *)

\* What JobOK asks of a thread that goes on to a step with a job.
GoodJob(step, job) ==
    /\ step \in Steps /\ job \in Jobs(step)
    /\ step = "bucket" => job.attempt <= clock
    /\ step = "reply" => job.status \in {200, 500}
    /\ step = "done" => job.status \in Statuses

\* The steps at which a thread holds its request and JobOK asks no more.
Holding == {"limit", "handle", "lookup", "allow", "call", "answer", "succeeded", "failed", "again",
            "store"}

LEMMA NoWorkType == NoWork \in Jobs("idle") /\ NoWork.endpoint = 1
  <1>1. 1 \in 1..Endpoints
    BY GatewayAssumption
  <1> QED BY <1>1 DEF NoWork, Jobs, Held

LEMMA Replying ==
    ASSUME NEW status \in {200, 500}
    PROVE  GoodJob("reply", [NoWork EXCEPT !.status = status])
  <1>1. [NoWork EXCEPT !.status = status] \in Jobs("reply")
    BY NoWorkType DEF Jobs, Held, Statuses
  <1>2. [NoWork EXCEPT !.status = status].status = status
    BY DEF NoWork
  <1> QED BY <1>1, <1>2 DEF GoodJob, Steps

LEMMA Finishing ==
    ASSUME NEW status \in Statuses, NEW desks \in SUBSET Desks
    PROVE  GoodJob("done", [NoWork EXCEPT !.status = status, !.request = desks])
  <1>1. [NoWork EXCEPT !.status = status, !.request = desks] \in Jobs("done")
    BY NoWorkType DEF Jobs, Held
  <1>2. [NoWork EXCEPT !.status = status, !.request = desks].status = status
    BY DEF NoWork
  <1> QED BY <1>1, <1>2 DEF GoodJob, Steps

\* Between the steps of a request its job changes in the attempt and the
\* endpoint only.
LEMMA GoingOn ==
    ASSUME NEW p \in Holding \cup {"bucket"}, NEW q \in Holding, NEW job \in Jobs(p),
           NEW e \in 1..Endpoints, NEW n \in Nat
    PROVE  /\ GoodJob(q, job)
           /\ GoodJob(q, [job EXCEPT !.attempt = n])
           /\ GoodJob(q, [job EXCEPT !.endpoint = e, !.attempt = n])
  <1>1. Jobs(q) = Jobs(p) /\ q \in Steps /\ q \notin {"bucket", "reply", "done"}
    BY DEF Holding, Jobs, Held, Steps
  <1>2. /\ [job EXCEPT !.attempt = n] \in Jobs(p)
        /\ [job EXCEPT !.endpoint = e, !.attempt = n] \in Jobs(p)
    BY DEF Jobs
  <1> QED BY <1>1, <1>2 DEF GoodJob

LEMMA GoKeepsJobs ==
    ASSUME JobsOK, NEW t \in Threads, NEW step, NEW job, GoodJob(step, job), Go(t, step, job),
           UNCHANGED <<clock, setting>>, served' \in 0..setting.requests,
           recorded' \in [Prompts -> 1..Endpoints \cup {None}]
    PROVE  JobsOK'
  <1>1. /\ pc' = [pc EXCEPT ![t] = step] /\ work' = [work EXCEPT ![t] = job]
        /\ pc \in [Threads -> Steps] /\ work = [u \in Threads |-> work[u]]
    BY DEF Go, JobsOK
  <1>2. /\ pc' \in [Threads -> Steps] /\ pc'[t] = step
        /\ \A u \in Threads \ {t} : pc'[u] = pc[u]
    BY <1>1 DEF GoodJob
  <1>3. /\ work'[t] = job /\ \A u \in Threads \ {t} : work'[u] = work[u]
        /\ work' = [u \in Threads |-> work'[u]]
    BY <1>1
  <1>4. JobOK(t)'
    BY <1>2, <1>3 DEF JobOK, GoodJob, Jobs, Held
  <1>5. ASSUME NEW u \in Threads \ {t} PROVE JobOK(u)'
    BY <1>2, <1>3 DEF JobsOK, JobOK, Jobs, Held
  <1> QED BY <1>2, <1>3, <1>4, <1>5 DEF JobsOK

\* A thread at work on a request has a job of its step, and may keep it.
LEMMA JobAtWork ==
    ASSUME JobsOK, NEW t \in Threads, pc[t] \in Holding \cup {"bucket"}
    PROVE  /\ work[t] \in Jobs(pc[t]) /\ work[t].request \in Requests
           /\ Of(t) \in 1..Endpoints /\ work[t].attempt \in Nat
           /\ \A q \in Holding : GoodJob(q, work[t])
           /\ \A q \in Holding, n \in Nat : GoodJob(q, [work[t] EXCEPT !.attempt = n])
           /\ \A q \in Holding, e \in 1..Endpoints :
                 GoodJob(q, [work[t] EXCEPT !.endpoint = e, !.attempt = 0])
  <1>1. work[t] \in Jobs(pc[t])
    BY DEF JobsOK, JobOK
  <1>2. work[t].request \in Requests /\ Of(t) \in 1..Endpoints /\ work[t].attempt \in Nat
    BY <1>1 DEF Jobs, Held, Holding, Of
  <1> QED BY <1>1, <1>2, GoingOn

LEMMA NextEndpointGoes ==
    ASSUME JobsOK, NEW t \in Threads, pc[t] \in Holding, NextEndpoint(t)
    PROVE  \E step, job : step \in {"allow", "reply"} /\ GoodJob(step, job) /\ Go(t, step, job)
  <1>1. Of(t) \in 1..Endpoints /\ Endpoints \in Nat
    BY JobAtWork, GatewayAssumption
  <1>2. CASE Of(t) < Endpoints
    <2> DEFINE e == Of(t) + 1
    <2>1. e \in 1..Endpoints
      BY <1>1, <1>2
    <2>2. GoodJob("allow", [work[t] EXCEPT !.endpoint = e, !.attempt = 0])
      BY <2>1, JobAtWork DEF Holding
    <2>3. Go(t, "allow", [work[t] EXCEPT !.endpoint = e, !.attempt = 0])
      BY <1>2 DEF NextEndpoint, Of
    <2> QED BY <2>2, <2>3
  <1>3. CASE ~(Of(t) < Endpoints)
    BY <1>3, Replying DEF NextEndpoint
  <1> QED BY <1>2, <1>3

-----------------------------------------------------------------------------
(* Every step keeps the jobs in order.                                     *)

\* What the steps of a request have in common.
SameService == UNCHANGED <<setting, buckets, admitted, served>>

LEMMA CompleteJobs ==
    ASSUME JobsOK, NEW t \in Threads, Complete(t), SameService
    PROVE  JobsOK'
  <1>1. /\ UNCHANGED <<clock, setting>> /\ served' \in 0..setting.requests
        /\ recorded \in [Prompts -> 1..Endpoints \cup {None}]
    BY DEF Complete, Lookup, Allow, Call, Answer, Succeeded, Failed, Again, Remember, SameService,
           JobsOK
  <1>2. ASSUME NEW step, NEW job, GoodJob(step, job), Go(t, step, job), UNCHANGED recorded
        PROVE  JobsOK'
    BY <1>1, <1>2, GoKeepsJobs
  <1>3. CASE Lookup(t)
    <2>1. Go(t, "reply", [NoWork EXCEPT !.status = 200]) \/ Go(t, "allow", work[t])
      BY <1>3 DEF Lookup
    <2>2. UNCHANGED recorded
      BY <1>3 DEF Lookup
    <2>3. GoodJob("allow", work[t])
      BY <1>3, JobAtWork DEF Lookup, Holding
    <2> QED BY <1>2, <2>1, <2>2, <2>3, Replying
  <1>4. CASE Allow(t)
    <2>1. \/ Go(t, "call", work[t]) \/ NextEndpoint(t)
      BY <1>4 DEF Allow
    <2>2. pc[t] \in Holding /\ UNCHANGED recorded
      BY <1>4 DEF Allow, Holding
    <2> QED BY <1>2, <2>1, <2>2, JobAtWork, NextEndpointGoes DEF Holding
  <1>5. CASE Call(t)
    BY <1>2, <1>5, JobAtWork DEF Call, Holding
  <1>6. CASE Answer(t)
    <2>1. \/ Go(t, "reply", [NoWork EXCEPT !.status = 500])
          \/ \E step \in {"succeeded", "failed"} : Go(t, step, work[t])
      BY <1>6 DEF Answer
    <2>2. UNCHANGED recorded
      BY <1>6 DEF Answer
    <2>3. GoodJob("succeeded", work[t]) /\ GoodJob("failed", work[t])
      BY <1>6, JobAtWork DEF Answer, Holding
    <2> QED BY <1>2, <2>1, <2>2, <2>3, Replying
  <1>7. CASE Succeeded(t)
    BY <1>2, <1>7, JobAtWork DEF Succeeded, Holding
  <1>8. CASE Failed(t)
    BY <1>2, <1>8, JobAtWork DEF Failed, Holding
  <1>9. CASE Again(t)
    <2>1. pc[t] \in Holding /\ UNCHANGED recorded
      BY <1>9 DEF Again, Holding
    <2>2. work[t].attempt + 1 \in Nat
      <3>1. work[t].attempt \in Nat
        BY <2>1, JobAtWork
      <3> QED BY <3>1
    <2>3. \/ Go(t, "call", [work[t] EXCEPT !.attempt = work[t].attempt + 1])
          \/ NextEndpoint(t)
      BY <1>9 DEF Again
    <2> QED BY <1>2, <2>1, <2>2, <2>3, JobAtWork, NextEndpointGoes DEF Holding
  <1>10. CASE Remember(t)
    <2>1. Of(t) \in 1..Endpoints
      BY <1>10, JobAtWork DEF Remember, Holding
    <2>2. recorded' \in [Prompts -> 1..Endpoints \cup {None}]
      BY <1>1, <1>10, <2>1 DEF Remember
    <2> QED BY <1>1, <1>10, <2>2, Replying, GoKeepsJobs DEF Remember
  <1> QED BY <1>3, <1>4, <1>5, <1>6, <1>7, <1>8, <1>9, <1>10 DEF Complete

\* Whoever asks, authentication ends with one of three statuses.
LEMMA AuthenticateStatus ==
    ASSUME NEW r
    PROVE  Authenticate(r).status \in {200, 401, 403}
  BY DEF Authenticate, DevPrincipal, Denied, Entitled

LEMMA ReceiveJobs ==
    ASSUME JobsOK, NEW t \in Threads, NEW r \in Requests, Receive(t, r)
    PROVE  JobsOK'
  <1>1. UNCHANGED <<clock, setting, recorded>>
    BY DEF Receive
  <1>2. served' \in 0..setting.requests
    BY ServiceAssumption DEF Receive, JobsOK
  <1>3. recorded' \in [Prompts -> 1..Endpoints \cup {None}]
    BY <1>1 DEF JobsOK
  <1>4. ASSUME NEW step, NEW job, GoodJob(step, job), Go(t, step, job)
        PROVE  JobsOK'
    BY <1>1, <1>2, <1>3, <1>4, GoKeepsJobs
  <1>5. ASSUME NEW status \in Statuses, Finish(t, status, {}) PROVE JobsOK'
    BY <1>4, <1>5, Finishing DEF Finish
  <1>6. GoodJob("limit", [NoWork EXCEPT !.request = r, !.prompt = r.prompt])
    <2>1. [NoWork EXCEPT !.request = r, !.prompt = r.prompt] \in Jobs("limit")
      BY NoWorkType, ServiceAssumption DEF Jobs, Held
    <2> QED BY <2>1 DEF GoodJob, Steps
  <1>7. \/ Finish(t, 413, {})
        \/ Finish(t, Authenticate(r).status, {})
        \/ Go(t, "limit", [NoWork EXCEPT !.request = r, !.prompt = r.prompt])
    BY DEF Receive
  <1> QED BY <1>4, <1>5, <1>6, <1>7, AuthenticateStatus DEF Statuses

LEMMA ServeJobs ==
    ASSUME JobsOK, NEW t \in Threads, Serve(t)
    PROVE  JobsOK'
  <1> DEFINE Own == ReadClock(t) \/ Limit(t) \/ ListCases(t) \/ CaseDetail(t) \/ Investigate(t)
                    \/ Reply(t) \/ Deliver(t)
  <1>1. CASE Complete(t) /\ SameService
    BY <1>1, CompleteJobs
  <1>2. ASSUME Own
        PROVE  /\ UNCHANGED <<clock, setting>> /\ served' \in 0..setting.requests
               /\ recorded' \in [Prompts -> 1..Endpoints \cup {None}]
    BY <1>2 DEF ReadClock, Limit, ListCases, CaseDetail, Investigate, Reply, Deliver, JobsOK
  <1>3. ASSUME Own, NEW step, NEW job, GoodJob(step, job), Go(t, step, job)
        PROVE  JobsOK'
    <2> HIDE DEF Own
    <2> QED BY <1>2, <1>3, GoKeepsJobs
  <1>4. ASSUME Own, NEW status \in Statuses, NEW desks \in SUBSET Desks, Finish(t, status, desks)
        PROVE  JobsOK'
    <2> HIDE DEF Own
    <2> QED BY <1>3, <1>4, Finishing DEF Finish
  <1>5. CASE ReadClock(t)
    <2>1. clock \in Nat /\ pc[t] = "limit"
      BY <1>5, GatewayAssumption DEF JobsOK, ReadClock
    <2>2. work[t] \in Jobs("limit")
      BY <2>1, JobAtWork DEF Holding
    <2>3. /\ [work[t] EXCEPT !.attempt = clock] \in Jobs("bucket")
          /\ [work[t] EXCEPT !.attempt = clock].attempt = clock
      BY <2>1, <2>2 DEF Jobs, Held
    <2>4. GoodJob("bucket", [work[t] EXCEPT !.attempt = clock])
      BY <2>1, <2>3 DEF GoodJob, Steps
    <2> QED BY <1>3, <1>5, <2>4 DEF ReadClock
  <1>6. CASE Limit(t)
    <2>1. Go(t, "handle", [work[t] EXCEPT !.attempt = 0]) \/ Finish(t, 429, {})
      BY <1>6 DEF Limit
    <2>2. GoodJob("handle", [work[t] EXCEPT !.attempt = 0])
      BY <1>6, JobAtWork DEF Limit, Holding
    <2> QED BY <1>3, <1>4, <1>6, <2>1, <2>2 DEF Statuses
  <1>7. CASE ListCases(t)
    <2>1. {d \in Desks : SeesDesk(Principal(t), d)} \in SUBSET Desks
      OBVIOUS
    <2> QED BY <1>4, <1>7, <2>1 DEF ListCases, Statuses
  <1>8. CASE CaseDetail(t)
    <2>1. work[t].request.desk \in Desks
      BY <1>8, JobAtWork, ServiceAssumption DEF CaseDetail, Holding
    <2>2. Finish(t, 200, {work[t].request.desk}) \/ Finish(t, 403, {})
      BY <1>8 DEF CaseDetail
    <2> QED BY <1>4, <1>8, <2>1, <2>2 DEF Statuses
  <1>9. CASE Investigate(t)
    <2>1. \/ Go(t, "lookup", work[t])
          \/ Go(t, "reply", [NoWork EXCEPT !.status = 200])
          \/ Finish(t, 403, {})
      BY <1>9 DEF Investigate
    <2>2. GoodJob("lookup", work[t])
      BY <1>9, JobAtWork DEF Investigate, Holding
    <2> QED BY <1>3, <1>4, <1>9, <2>1, <2>2, Replying DEF Statuses
  <1>10. CASE Reply(t)
    <2>1. work[t].status \in {200, 500}
      BY <1>10 DEF Reply, JobsOK, JobOK
    <2> QED BY <1>4, <1>10, <2>1 DEF Reply, Statuses
  <1>11. CASE Deliver(t)
    <2>1. GoodJob("idle", NoWork)
      BY NoWorkType DEF GoodJob, Steps
    <2> QED BY <1>3, <1>11, <2>1 DEF Deliver
  <1> QED BY <1>1, <1>5, <1>6, <1>7, <1>8, <1>9, <1>10, <1>11 DEF Serve, SameService

\* Time passes for every thread alike.
LEMMA TickJobs ==
    ASSUME JobsOK, Tick, SameService
    PROVE  JobsOK'
  <1>1. clock \in Nat /\ clock' = clock + 1 /\ clock' \in 0..MaxClock
    BY GatewayAssumption DEF Tick, JobsOK
  <1>2. ASSUME NEW t \in Threads PROVE JobOK(t)'
    <2>1. JobOK(t) /\ UNCHANGED <<pc, work>>
      BY DEF Tick, JobsOK
    <2>2. pc[t] = "bucket" => work[t].attempt \in Nat
      BY <2>1 DEF JobOK, Jobs
    <2> QED BY <1>1, <2>1, <2>2 DEF JobOK, Jobs, Held
  <1> QED BY <1>1, <1>2 DEF Tick, SameService, JobsOK

-----------------------------------------------------------------------------
(* The circuit breakers. *)

LEMMA GoKeepsBreakers ==
    ASSUME BreakersOK, JobsOK, NEW t \in Threads, NEW step, NEW job, Go(t, step, job),
           UNCHANGED <<clock, breakers, late>>,
           step = "call" => openedAt[job.endpoint] = None
    PROVE  BreakersOK'
  <1>1. /\ pc' = [pc EXCEPT ![t] = step] /\ work' = [work EXCEPT ![t] = job]
        /\ pc \in [Threads -> Steps] /\ work = [u \in Threads |-> work[u]]
    BY DEF Go, JobsOK
  <1>2. UNCHANGED <<failures, openedAt, late>>
    BY DEF breakers
  <1>3. ASSUME NEW u \in Threads, NEW e \in 1..Endpoints,
               openedAt'[e] = None \/ (pc'[u] = "call" /\ Of(u)' = e)
        PROVE  late'[u][e] = 0
    <2>1. CASE u = t
      <3>1. pc'[u] = step /\ Of(u)' = job.endpoint
        BY <1>1, <2>1 DEF Of
      <3>2. openedAt[e] = None
        BY <1>2, <1>3, <3>1
      <3> QED BY <1>2, <3>2 DEF BreakersOK
    <2>2. CASE u # t
      <3>1. pc'[u] = pc[u] /\ Of(u)' = Of(u)
        BY <1>1, <2>2 DEF Of
      <3> QED BY <1>2, <1>3, <3>1 DEF BreakersOK
    <2> QED BY <2>1, <2>2
  <1> QED BY <1>2, <1>3 DEF BreakersOK

\* A circuit that closes forgets the calls it counted.
LEMMA ClosingKeepsBreakers ==
    ASSUME BreakersOK, JobsOK, NEW t \in Threads, NEW e \in 1..Endpoints, Of(t) = e,
           NEW n \in Nat, NEW step, Go(t, step, work[t]), UNCHANGED clock,
           openedAt' = [openedAt EXCEPT ![e] = None],
           failures' = [failures EXCEPT ![e] = n], Closed(e)
    PROVE  BreakersOK'
  <1>1. /\ pc' = [pc EXCEPT ![t] = step] /\ work' = [work EXCEPT ![t] = work[t]]
        /\ pc \in [Threads -> Steps] /\ work = [u \in Threads |-> work[u]]
    BY DEF Go, JobsOK
  <1>2. UNCHANGED work
    BY <1>1
  <1>3. /\ failures' \in [1..Endpoints -> Nat]
        /\ openedAt' \in [1..Endpoints -> 0..clock \cup {None}]
        /\ openedAt'[e] = None
        /\ \A d \in 1..Endpoints \ {e} : openedAt'[d] = openedAt[d] /\ failures'[d] = failures[d]
    BY DEF BreakersOK
  <1>4. /\ late' \in [Threads -> [1..Endpoints -> {0, 1}]]
        /\ \A u \in Threads : late'[u][e] = 0
        /\ \A u \in Threads, d \in 1..Endpoints \ {e} : late'[u][d] = late[u][d]
    BY DEF BreakersOK, Closed
  <1>5. ASSUME NEW u \in Threads, NEW d \in 1..Endpoints,
               openedAt'[d] = None \/ (pc'[u] = "call" /\ Of(u)' = d)
        PROVE  late'[u][d] = 0
    <2>1. CASE d = e
      BY <1>4, <2>1
    <2>2. CASE d # e
      <3>1. Of(u)' = Of(u) /\ (u # t => pc'[u] = pc[u])
        BY <1>1, <1>2 DEF Of
      <3>2. openedAt[d] = None \/ (pc[u] = "call" /\ Of(u) = d)
        BY <1>3, <1>5, <2>2, <3>1
      <3> QED BY <1>4, <2>2, <3>2 DEF BreakersOK
    <2> QED BY <2>1, <2>2
  <1>6. \A d \in 1..Endpoints : openedAt'[d] # None => failures'[d] >= Threshold
    BY <1>3 DEF BreakersOK
  <1> QED BY <1>3, <1>4, <1>5, <1>6 DEF BreakersOK

LEMMA CallBreakers ==
    ASSUME BreakersOK, JobsOK, NEW t \in Threads, Call(t)
    PROVE  BreakersOK'
  <1> DEFINE e == Of(t)
  <1>1. /\ pc' = [pc EXCEPT ![t] = "answer"] /\ UNCHANGED work
        /\ pc \in [Threads -> Steps] /\ pc[t] = "call"
        /\ UNCHANGED <<clock, failures, openedAt>>
    BY DEF Call, Go, JobsOK, breakers
  <1>2. e \in 1..Endpoints
    BY <1>1, JobAtWork DEF Holding
  <1>3. late[t][e] = 0
    BY <1>1, <1>2 DEF BreakersOK
  <1>4. late' = [late EXCEPT ![t][e] = IF openedAt[e] # None THEN 1 ELSE 0]
    BY <1>2, <1>3 DEF Call, BreakersOK
  <1>5. /\ late' \in [Threads -> [1..Endpoints -> {0, 1}]]
        /\ openedAt[e] = None => late'[t][e] = 0
        /\ \A u \in Threads, d \in 1..Endpoints :
              <<u, d>> # <<t, e>> => late'[u][d] = late[u][d]
    BY <1>2, <1>4 DEF BreakersOK
  <1>6. ASSUME NEW u \in Threads, NEW d \in 1..Endpoints,
               openedAt'[d] = None \/ (pc'[u] = "call" /\ Of(u)' = d)
        PROVE  late'[u][d] = 0
    <2>1. Of(u)' = Of(u) /\ pc'[t] # "call" /\ (u # t => pc'[u] = pc[u])
      BY <1>1 DEF Of
    <2>2. openedAt[d] = None \/ (u # t /\ pc[u] = "call" /\ Of(u) = d)
      BY <1>1, <1>6, <2>1
    <2>3. CASE <<u, d>> = <<t, e>>
      BY <1>5, <2>2, <2>3
    <2>4. CASE <<u, d>> # <<t, e>>
      BY <1>5, <2>2, <2>4 DEF BreakersOK
    <2> QED BY <2>3, <2>4
  <1> QED BY <1>1, <1>5, <1>6 DEF BreakersOK

LEMMA FailedBreakers ==
    ASSUME BreakersOK, JobsOK, NEW t \in Threads, Failed(t)
    PROVE  BreakersOK'
  <1> DEFINE e == Of(t)
             open == failures[e] + 1 >= Threshold
  <1>1. /\ pc' = [pc EXCEPT ![t] = "again"] /\ UNCHANGED work
        /\ pc \in [Threads -> Steps] /\ pc[t] = "failed"
        /\ UNCHANGED <<clock, late>>
    BY DEF Failed, Go, JobsOK
  <1>2. e \in 1..Endpoints
    BY <1>1, JobAtWork DEF Holding
  <1>3. clock \in Nat /\ clock \in 0..clock /\ clock # None /\ Threshold \in Nat
    BY GatewayAssumption DEF JobsOK
  <1>4. failures[e] \in Nat
    BY <1>2 DEF BreakersOK
  <1>5. /\ failures' \in [1..Endpoints -> Nat]
        /\ failures'[e] = failures[e] + 1
        /\ \A d \in 1..Endpoints \ {e} : failures'[d] = failures[d]
    BY <1>2, <1>4 DEF Failed, BreakersOK
  <1>6. /\ openedAt' \in [1..Endpoints -> 0..clock \cup {None}]
        /\ openedAt'[e] = IF open THEN clock ELSE openedAt[e]
        /\ \A d \in 1..Endpoints \ {e} : openedAt'[d] = openedAt[d]
    BY <1>2, <1>3 DEF Failed, BreakersOK
  <1>7. ASSUME NEW d \in 1..Endpoints, openedAt'[d] # None PROVE failures'[d] >= Threshold
    <2>1. CASE d = e
      <3>1. open \/ failures[e] >= Threshold
        BY <1>6, <1>7, <2>1 DEF BreakersOK
      <3> QED BY <1>3, <1>4, <1>5, <2>1, <3>1
    <2>2. CASE d # e
      BY <1>5, <1>6, <1>7, <2>2 DEF BreakersOK
    <2> QED BY <2>1, <2>2
  <1>8. ASSUME NEW u \in Threads, NEW d \in 1..Endpoints,
               openedAt'[d] = None \/ (pc'[u] = "call" /\ Of(u)' = d)
        PROVE  late'[u][d] = 0
    <2>1. Of(u)' = Of(u) /\ pc'[t] # "call" /\ (u # t => pc'[u] = pc[u])
      BY <1>1 DEF Of
    <2>2. openedAt'[d] = None => openedAt[d] = None
      BY <1>3, <1>6
    <2> QED BY <1>1, <1>8, <2>1, <2>2 DEF BreakersOK
  <1> QED BY <1>1, <1>5, <1>6, <1>7, <1>8 DEF BreakersOK

LEMMA CompleteBreakers ==
    ASSUME BreakersOK, JobsOK, NEW t \in Threads, Complete(t)
    PROVE  BreakersOK'
  <1>1. ASSUME NEW step, step # "call", NEW job, Go(t, step, job),
               UNCHANGED <<clock, breakers, late>>
        PROVE  BreakersOK'
    BY <1>1, GoKeepsBreakers
  <1>2. ASSUME pc[t] \in Holding, NextEndpoint(t), UNCHANGED <<clock, breakers, late>>
        PROVE  BreakersOK'
    BY <1>1, <1>2, NextEndpointGoes
  <1>3. CASE Lookup(t) \/ Answer(t) \/ Remember(t)
    BY <1>1, <1>3 DEF Lookup, Answer, Remember
  <1>4. CASE Allow(t)
    <2> DEFINE e == Of(t)
    <2>1. e \in 1..Endpoints /\ Threshold - 1 \in Nat /\ pc[t] \in Holding /\ UNCHANGED clock
      <3>1. pc[t] \in Holding /\ UNCHANGED clock
        BY <1>4 DEF Allow, Holding
      <3>2. Threshold - 1 \in Nat
        BY GatewayAssumption
      <3> QED BY <3>1, <3>2, JobAtWork
    <2>2. CASE openedAt[e] = None
      BY <1>4, <2>1, <2>2, GoKeepsBreakers DEF Allow, Of
    <2>3. CASE openedAt[e] # None /\ clock - openedAt[e] >= ResetTime
                /\ openedAt' = [openedAt EXCEPT ![e] = None]
                /\ failures' = [failures EXCEPT ![e] = Threshold - 1]
                /\ Closed(e) /\ Go(t, "call", work[t])
      BY <2>1, <2>3, ClosingKeepsBreakers
    <2>4. CASE openedAt[e] # None /\ NextEndpoint(t) /\ UNCHANGED <<breakers, late>>
      BY <1>2, <2>1, <2>4
    <2> QED BY <1>4, <2>2, <2>3, <2>4 DEF Allow
  <1>5. CASE Call(t)
    BY <1>5, CallBreakers
  <1>6. CASE Succeeded(t)
    <2>1. Of(t) \in 1..Endpoints /\ 0 \in Nat
      BY <1>6, JobAtWork DEF Succeeded, Holding
    <2> QED BY <1>6, <2>1, ClosingKeepsBreakers DEF Succeeded
  <1>7. CASE Failed(t)
    BY <1>7, FailedBreakers
  <1>8. CASE Again(t)
    <2>1. pc[t] \in Holding /\ UNCHANGED <<clock, breakers, late>>
      BY <1>8 DEF Again, Holding
    <2>2. CASE NextEndpoint(t)
      BY <1>2, <2>1, <2>2
    <2>3. CASE ~(openedAt[Of(t)] # None \/ work[t].attempt = Retries)
      <3> DEFINE job == [work[t] EXCEPT !.attempt = @ + 1]
      <3>1. Go(t, "call", job) /\ openedAt[Of(t)] = None
        BY <1>8, <2>3 DEF Again
      <3>2. job.endpoint = Of(t)
        <4>1. work[t] \in Jobs(pc[t])
          BY <2>1, JobAtWork
        <4> QED BY <4>1 DEF Jobs, Of
      <3> HIDE DEF job
      <3> QED BY <2>1, <3>1, <3>2, GoKeepsBreakers
    <2> QED BY <1>8, <2>2, <2>3 DEF Again
  <1> QED BY <1>3, <1>4, <1>5, <1>6, <1>7, <1>8 DEF Complete

LEMMA ReceiveBreakers ==
    ASSUME BreakersOK, JobsOK, NEW t \in Threads, NEW r, Receive(t, r)
    PROVE  BreakersOK'
  <1>1. PICK step, job : Go(t, step, job) /\ step # "call"
    BY DEF Receive, Finish
  <1>2. UNCHANGED <<clock, breakers, late>>
    BY DEF Receive
  <1> QED BY <1>1, <1>2, GoKeepsBreakers

LEMMA ServeBreakers ==
    ASSUME BreakersOK, JobsOK, NEW t \in Threads, Serve(t)
    PROVE  BreakersOK'
  <1>1. CASE Complete(t)
    BY <1>1, CompleteBreakers
  <1>2. CASE ~Complete(t)
    <2>1. PICK step, job : Go(t, step, job) /\ step # "call"
      BY <1>2 DEF Serve, ReadClock, Limit, ListCases, CaseDetail, Investigate, Reply, Deliver, Finish
    <2>2. UNCHANGED <<clock, breakers, late>>
      BY <1>2 DEF Serve, ReadClock, Limit, ListCases, CaseDetail, Investigate, Reply, Deliver
    <2> QED BY <2>1, <2>2, GoKeepsBreakers
  <1> QED BY <1>1, <1>2

LEMMA TickBreakers ==
    ASSUME BreakersOK, JobsOK, Tick
    PROVE  BreakersOK'
  <1>1. clock \in Nat /\ clock' = clock + 1 /\ UNCHANGED <<failures, openedAt, pc, work, late>>
    BY GatewayAssumption DEF Tick, JobsOK, breakers
  <1>2. 0..clock \subseteq 0..clock'
    BY <1>1
  <1>3. openedAt' \in [1..Endpoints -> 0..clock' \cup {None}]
    BY <1>1, <1>2 DEF BreakersOK
  <1> QED BY <1>1, <1>3 DEF BreakersOK, Of

-----------------------------------------------------------------------------
(* The rate limit. *)

\* Nothing is let through, time may pass.
LEMMA RateKeeps ==
    ASSUME RateOK, JobsOK, UNCHANGED <<setting, buckets, admitted>>,
           clock' \in Nat, clock <= clock'
    PROVE  RateOK'
  <1>1. clock \in Nat /\ setting.rate \in Int
    BY GatewayAssumption, ServiceAssumption DEF JobsOK
  <1>2. ASSUME NEW user \in DOMAIN buckets
        PROVE  /\ buckets[user].tokens \in Int /\ buckets[user].last \in 0..clock'
               /\ Count(user) + buckets[user].tokens <= setting.rate + buckets[user].last
    BY <1>1 DEF RateOK
  <1>3. ASSUME NEW user \in DOMAIN admitted
        PROVE  /\ user \in DOMAIN buckets /\ admitted[user] \in Nat
               /\ admitted[user] <= setting.rate + clock'
    <2>1. /\ user \in DOMAIN buckets /\ admitted[user] \in Nat
          /\ admitted[user] <= setting.rate + clock
      BY DEF RateOK
    <2> QED BY <1>1, <2>1
  <1> QED BY <1>2, <1>3 DEF RateOK, Count

\* RateLimiter.allow: what is let through is paid for.
LEMMA LimitRate ==
    ASSUME RateOK, JobsOK, NEW t \in Threads, Limit(t)
    PROVE  RateOK'
  <1> DEFINE user == Principal(t).user
             now == work[t].attempt
             b == IF user \in DOMAIN buckets THEN buckets[user]
                  ELSE [tokens |-> setting.rate, last |-> now]
             tokens == Refilled(user, now)
  <1>1. setting.rate \in Int /\ clock \in Nat /\ UNCHANGED <<clock, setting>>
    BY ServiceAssumption, GatewayAssumption DEF JobsOK, Limit
  <1>2. now \in Nat /\ now <= clock
    <2>1. pc[t] = "bucket" /\ JobOK(t)
      BY DEF Limit, JobsOK
    <2> QED BY <2>1 DEF JobOK, Jobs
  <1>3. Count(user) \in Nat
    BY DEF Count, RateOK
  <1>4. b.tokens \in Int /\ b.last \in Int /\ Count(user) + b.tokens <= setting.rate + b.last
    <2>1. CASE user \in DOMAIN buckets
      BY <1>1, <2>1 DEF RateOK
    <2>2. CASE user \notin DOMAIN buckets
      <3>1. Count(user) = 0
        BY <2>2 DEF RateOK, Count
      <3>2. b.tokens = setting.rate /\ b.last = now
        BY <2>2
      <3> QED BY <1>1, <1>2, <3>1, <3>2
    <2> QED BY <2>1, <2>2
  <1>5. tokens \in Int /\ tokens <= b.tokens + now - b.last
    <2>1. tokens = Least(setting.rate, b.tokens + now - b.last)
      BY DEF Refilled
    <2>2. b.tokens + now - b.last \in Int
      BY <1>2, <1>4
    <2> HIDE DEF tokens, b, now
    <2> QED BY <1>1, <2>1, <2>2 DEF Least
  <1>6. Count(user) + tokens <= setting.rate + now
    <2> HIDE DEF tokens, b, now, user
    <2> QED BY <1>1, <1>2, <1>3, <1>4, <1>5
  <1>7. CASE tokens >= 1
    <2>1. /\ buckets' = Put(buckets, user, [tokens |-> tokens - 1, last |-> now])
          /\ admitted' = Put(admitted, user, Count(user) + 1)
      BY <1>7 DEF Limit
    <2>2. PICK u : u = user
      OBVIOUS
    <2>3. PICK k : k = tokens - 1
      OBVIOUS
    <2>4. PICK c : c = Count(user) + 1
      OBVIOUS
    <2>5. PICK n : n = now
      OBVIOUS
    <2>6. /\ DOMAIN buckets' = DOMAIN buckets \cup {u}
          /\ buckets'[u] = [tokens |-> k, last |-> n]
          /\ \A v \in DOMAIN buckets \ {u} : buckets'[v] = buckets[v]
      <3>1. buckets' = Put(buckets, u, [tokens |-> k, last |-> n])
        BY <2>1, <2>2, <2>3, <2>5
      <3> HIDE DEF tokens, b, now, user
      <3> QED BY <3>1 DEF Put
    <2>7. /\ DOMAIN admitted' = DOMAIN admitted \cup {u}
          /\ admitted'[u] = c
          /\ \A v \in DOMAIN admitted \ {u} : admitted'[v] = admitted[v]
      <3>1. admitted' = Put(admitted, u, c)
        BY <2>1, <2>2, <2>4
      <3> HIDE DEF tokens, b, now, user
      <3> QED BY <3>1 DEF Put
    <2>8. /\ k \in Int /\ c \in Nat /\ n \in 0..clock
          /\ c + k <= setting.rate + n /\ c <= setting.rate + clock
      <3> HIDE DEF tokens, b, now, user
      <3> QED BY <1>1, <1>2, <1>3, <1>5, <1>6, <1>7, <2>3, <2>4, <2>5
    <2>9. ASSUME NEW v \in DOMAIN buckets'
          PROVE  /\ buckets'[v].tokens \in Int /\ buckets'[v].last \in 0..clock
                 /\ Count(v)' + buckets'[v].tokens <= setting.rate + buckets'[v].last
      <3>1. CASE v = u
        <4>1. Count(v)' = c
          BY <2>7, <3>1 DEF Count
        <4> QED BY <2>6, <2>8, <3>1, <4>1
      <3>2. CASE v # u
        <4>1. Count(v)' = Count(v)
          BY <2>7, <3>2 DEF Count
        <4> QED BY <2>6, <3>2, <4>1 DEF RateOK
      <3> QED BY <3>1, <3>2
    <2>10. ASSUME NEW v \in DOMAIN admitted'
           PROVE  /\ v \in DOMAIN buckets' /\ admitted'[v] \in Nat
                  /\ admitted'[v] <= setting.rate + clock
      BY <2>6, <2>7, <2>8 DEF RateOK
    <2> QED BY <1>1, <2>9, <2>10 DEF RateOK
  <1>8. CASE ~(tokens >= 1)
    <2>1. /\ buckets' = Put(buckets, user, [tokens |-> tokens, last |-> now])
          /\ UNCHANGED admitted
      BY <1>8 DEF Limit
    <2>2. PICK u : u = user
      OBVIOUS
    <2>3. PICK k : k = tokens
      OBVIOUS
    <2>4. PICK n : n = now
      OBVIOUS
    <2>5. /\ DOMAIN buckets' = DOMAIN buckets \cup {u}
          /\ buckets'[u] = [tokens |-> k, last |-> n]
          /\ \A v \in DOMAIN buckets \ {u} : buckets'[v] = buckets[v]
      <3>1. buckets' = Put(buckets, u, [tokens |-> k, last |-> n])
        BY <2>1, <2>2, <2>3, <2>4
      <3> HIDE DEF tokens, b, now, user
      <3> QED BY <3>1 DEF Put
    <2>6. k \in Int /\ n \in 0..clock /\ Count(u) + k <= setting.rate + n
      <3>1. Count(u) = Count(user)
        BY <2>2
      <3> HIDE DEF tokens, b, now, user
      <3> QED BY <1>1, <1>2, <1>5, <1>6, <2>3, <2>4, <3>1
    <2>7. ASSUME NEW v PROVE Count(v)' = Count(v)
      BY <2>1 DEF Count
    <2>8. ASSUME NEW v \in DOMAIN buckets'
          PROVE  /\ buckets'[v].tokens \in Int /\ buckets'[v].last \in 0..clock
                 /\ Count(v)' + buckets'[v].tokens <= setting.rate + buckets'[v].last
      BY <2>5, <2>6, <2>7 DEF RateOK
    <2> QED BY <1>1, <2>1, <2>5, <2>8 DEF RateOK
  <1> QED BY <1>7, <1>8

-----------------------------------------------------------------------------
(* The invariant, and what follows from it.                                *)

LEMMA InitInv == Init => Inv
  <1> SUFFICES ASSUME Init PROVE Inv
    OBVIOUS
  <1> USE DEF Init, GatewayInit
  <1>1. clock \in 0..MaxClock /\ setting \in Settings /\ served \in 0..setting.requests
    BY GatewayAssumption, ServiceAssumption
  <1>2. \A t \in Threads : pc[t] = "idle" /\ work[t] = NoWork
    OBVIOUS
  <1>3. JobsOK
    BY <1>1, <1>2, NoWorkType DEF JobsOK, JobOK, Steps
  <1>4. BreakersOK
    BY DEF BreakersOK
  <1>5. RateOK
    BY DEF RateOK
  <1> QED BY <1>3, <1>4, <1>5 DEF Inv

LEMMA NextInv == Inv /\ [Next]_vars => Inv'
  <1> SUFFICES ASSUME Inv, [Next]_vars PROVE Inv'
    OBVIOUS
  <1>1. JobsOK /\ BreakersOK /\ RateOK
    BY DEF Inv
  <1>2. clock \in Nat
    BY <1>1, GatewayAssumption DEF JobsOK
  <1>3. ASSUME NEW t \in Threads, NEW r \in Requests, Receive(t, r) PROVE Inv'
    <2>1. RateOK'
      BY <1>1, <1>2, <1>3, RateKeeps DEF Receive
    <2> QED BY <1>1, <1>3, <2>1, ReceiveJobs, ReceiveBreakers DEF Inv
  <1>4. ASSUME NEW t \in Threads, Serve(t) PROVE Inv'
    <2>1. CASE Limit(t)
      BY <1>1, <1>4, <2>1, ServeJobs, ServeBreakers, LimitRate DEF Inv
    <2>2. CASE ~Limit(t)
      <3>1. UNCHANGED <<clock, setting, buckets, admitted>>
        BY <1>4, <2>2 DEF Serve, ReadClock, ListCases, CaseDetail, Investigate, Reply, Deliver,
           Complete, Lookup, Allow, Call, Answer, Succeeded, Failed, Again, Remember
      <3>2. RateOK'
        BY <1>1, <1>2, <3>1, RateKeeps
      <3> QED BY <1>1, <1>4, <3>2, ServeJobs, ServeBreakers DEF Inv
    <2> QED BY <2>1, <2>2
  <1>5. CASE Tick /\ SameService
    <2>1. clock' \in Nat /\ clock <= clock'
      BY <1>2, <1>5 DEF Tick
    <2>2. RateOK'
      BY <1>1, <1>5, <2>1, RateKeeps DEF SameService
    <2> QED BY <1>1, <1>5, <2>2, TickJobs, TickBreakers DEF Inv
  <1>6. CASE UNCHANGED vars
    <2>1. UNCHANGED <<clock, failures, openedAt, recorded, pc, work, late, setting, buckets, admitted,
                      served>>
      BY <1>6 DEF vars, gatewayVars, breakers
    <2>2. JobsOK'
      BY <1>1, <2>1 DEF JobsOK, JobOK
    <2>3. BreakersOK'
      BY <1>1, <2>1 DEF BreakersOK, Of
    <2>4. RateOK'
      BY <1>1, <1>2, <2>1, RateKeeps
    <2> QED BY <2>2, <2>3, <2>4 DEF Inv
  <1> QED BY <1>3, <1>4, <1>5, <1>6 DEF Next, SameService

LEMMA InvAlways == Spec => []Inv
  <1> QED BY InitInv, NextInv, PTL DEF Spec

\* Every variable of the service and its gateway has its type: a circuit is
\* open only after Threshold failures, and what a client is answered is one of
\* the API's statuses and shows cases of existing desks only.
THEOREM TypesHold == Spec => []TypeOK
  <1>1. ASSUME Inv PROVE TypeOK
    <2>1. JobsOK /\ BreakersOK
      BY <1>1 DEF Inv
    <2>2. ASSUME NEW e \in 1..Endpoints
          PROVE  /\ failures[e] \in Nat /\ openedAt[e] \in (0..clock) \cup {None}
                 /\ openedAt[e] # None => failures[e] >= Threshold
      BY <2>1 DEF BreakersOK
    <2>3. ASSUME NEW t \in Threads, pc[t] = "done"
          PROVE  work[t].status \in Statuses /\ work[t].request \subseteq Desks
      BY <2>1, <2>3 DEF JobsOK, JobOK, Jobs, Held
    <2> QED BY <2>1, <2>2, <2>3 DEF JobsOK, Statuses, TypeOK
  <1> QED BY <1>1, InvAlways, PTL

\* CircuitBreaker and ResilientGateway: while a circuit is open, no thread
\* begins more than the one call it was already about to make.
THEOREM BreakersHoldBack == Spec => []BreakerHoldsBack
  <1>1. ASSUME Inv PROVE BreakerHoldsBack
    <2>1. ASSUME NEW t \in Threads, NEW e \in 1..Endpoints PROVE late[t][e] \in {0, 1}
      BY <1>1 DEF Inv, BreakersOK
    <2> QED BY <2>1 DEF BreakerHoldsBack
  <1> QED BY <1>1, InvAlways, PTL

\* RateLimiter: however threads interleave between reading the clock and
\* taking the lock, no user gets more than capacity and elapsed time allow.
THEOREM RateHolds == Spec => []WithinRate
  <1>1. ASSUME Inv PROVE WithinRate
    BY <1>1 DEF Inv, RateOK, WithinRate
  <1> QED BY <1>1, InvAlways, PTL

=============================================================================
