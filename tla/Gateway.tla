------------------------------- MODULE Gateway -------------------------------
(***************************************************************************)
(* The model gateway (src/asas/agents/gateway.py), as build_gateway() puts *)
(* it together (src/asas/services/platform.py): a cache in the store, over *)
(* a chain of endpoints, each with retries and a circuit breaker that all  *)
(* threads share. What an endpoint answers, and whether it does, is free;  *)
(* every call to it ends, by its timeout.                                  *)
(***************************************************************************)
EXTENDS Integers, Sequences, FiniteSets

CONSTANTS
    Threads,
    Prompts,        \* requests, up to the model id
    Endpoints,      \* the number of endpoints; endpoint 1 is the primary
    Threshold,      \* agents.breaker_threshold
    ResetTime,      \* agents.breaker_reset_seconds
    Retries,        \* agents.retries
    MaxClock,       \* bound: how long a behaviour lasts
    None

ASSUME GatewayAssumption ==
    /\ {Endpoints, Threshold} \subseteq Nat \ {0}
    /\ {ResetTime, Retries, MaxClock} \subseteq Nat
    /\ None \notin 0..MaxClock

VARIABLES
    clock,      \* time.monotonic()
    failures,   \* failures[e], openedAt[e]: the circuit breaker of endpoint e
    openedAt,
    recorded,   \* table model_cache: recorded[p] is the endpoint that answered
    pc,         \* pc[t]: what thread t does next
    work,       \* work[t]: locals of its call
    late        \* history: late[t][e], calls to e that t has begun since the
                \* circuit of e opened

breakers == <<failures, openedAt>>
gatewayVars == <<clock, breakers, recorded, pc, work, late>>

NoWork == [request |-> None, prompt |-> None, endpoint |-> 1, attempt |-> 0, status |-> 0]

GatewayInit ==
    /\ clock = 0
    /\ failures = [e \in 1..Endpoints |-> 0]
    /\ openedAt = [e \in 1..Endpoints |-> None]
    /\ recorded = [p \in Prompts |-> None]
    /\ pc = [t \in Threads |-> "idle"]
    /\ work = [t \in Threads |-> NoWork]
    /\ late = [t \in Threads |-> [e \in 1..Endpoints |-> 0]]

Go(t, step, new) ==
    /\ pc' = [pc EXCEPT ![t] = step]
    /\ work' = [work EXCEPT ![t] = new]

\* The endpoint thread t is talking to.
Of(t) == work[t].endpoint

\* History: a circuit that closes starts a new count.
Closed(e) == late' = [t \in Threads |-> [late[t] EXCEPT ![e] = 0]]

-----------------------------------------------------------------------------

\* CachingGateway: the request hash covers the primary's model id, whoever answered.
Lookup(t) ==
    /\ pc[t] = "lookup"
    /\ IF recorded[work[t].prompt] # None
       THEN Go(t, "reply", [NoWork EXCEPT !.status = 200])
       ELSE Go(t, "allow", work[t])
    /\ UNCHANGED <<clock, breakers, recorded, late>>

\* Mutant: the chain goes on with the endpoint that has just failed.
SameEndpoint(t) ==
    IF Of(t) < Endpoints
    THEN Go(t, "allow", [work[t] EXCEPT !.attempt = 0])
    ELSE Go(t, "reply", [NoWork EXCEPT !.status = 200])

\* FallbackGateway: the next endpoint, or a ModelError, which sends the run
\* to its playbook.
NextEndpoint(t) ==
    IF Of(t) < Endpoints
    THEN Go(t, "allow", [work[t] EXCEPT !.endpoint = @ + 1, !.attempt = 0])
    ELSE Go(t, "reply", [NoWork EXCEPT !.status = 200])

\* CircuitBreaker.allow: half-open lets everybody through from here on.
Allow(t) ==
    LET e == Of(t) IN
    /\ pc[t] = "allow"
    /\ \/ /\ openedAt[e] = None
          /\ Go(t, "call", work[t])
          /\ UNCHANGED <<breakers, late>>
       \/ /\ openedAt[e] # None /\ clock - openedAt[e] >= ResetTime
          /\ openedAt' = [openedAt EXCEPT ![e] = None]
          /\ failures' = [failures EXCEPT ![e] = Threshold - 1]
          /\ Closed(e)
          /\ Go(t, "call", work[t])
       \/ /\ openedAt[e] # None /\ clock - openedAt[e] < ResetTime
          /\ NextEndpoint(t)
          /\ UNCHANGED <<breakers, late>>
    /\ UNCHANGED <<clock, recorded>>

\* The request goes out; time may pass before it ends.
Call(t) ==
    LET e == Of(t) IN
    /\ pc[t] = "call"
    /\ Go(t, "answer", work[t])
    /\ late' = [late EXCEPT ![t][e] = IF openedAt[e] # None THEN @ + 1 ELSE @]
    /\ UNCHANGED <<clock, breakers, recorded>>

\* An answer; a transport failure or an unusable payload (ModelError); or an error
\* complete() does not translate, such as a body that breaks off.
Answer(t) ==
    /\ pc[t] = "answer"
    /\ \/ Go(t, "succeeded", work[t])
       \/ Go(t, "failed", work[t])
       \/ Go(t, "reply", [NoWork EXCEPT !.status = 500])
    /\ UNCHANGED <<clock, breakers, recorded, late>>

Succeeded(t) ==
    /\ pc[t] = "succeeded"
    /\ failures' = [failures EXCEPT ![Of(t)] = 0]
    /\ openedAt' = [openedAt EXCEPT ![Of(t)] = None]
    /\ Closed(Of(t))
    /\ Go(t, "store", work[t])
    /\ UNCHANGED <<clock, recorded>>

\* Mutant: opens one failure too early.
FailedEarly(t) ==
    /\ pc[t] = "failed"
    /\ failures' = [failures EXCEPT ![Of(t)] = @ + 1]
    /\ openedAt' = [openedAt EXCEPT ![Of(t)] = IF failures[Of(t)] + 1 >= Threshold - 1 THEN clock ELSE @]
    /\ Go(t, "again", work[t])
    /\ UNCHANGED <<clock, recorded, late>>

\* A failure while the circuit is open opens it anew.
Failed(t) ==
    /\ pc[t] = "failed"
    /\ failures' = [failures EXCEPT ![Of(t)] = @ + 1]
    /\ openedAt' = [openedAt EXCEPT ![Of(t)] = IF failures[Of(t)] + 1 >= Threshold THEN clock ELSE @]
    /\ Go(t, "again", work[t])
    /\ UNCHANGED <<clock, recorded, late>>

\* Mutant: an open circuit does not end the retries.
AgainRegardless(t) ==
    /\ pc[t] = "again"
    /\ IF work[t].attempt = Retries
       THEN NextEndpoint(t)
       ELSE Go(t, "call", [work[t] EXCEPT !.attempt = @ + 1])
    /\ UNCHANGED <<clock, breakers, recorded, late>>

\* is_open is read after the lock is released, and only after a failure of
\* one's own; the backoff before the next attempt takes any time.
Again(t) ==
    /\ pc[t] = "again"
    /\ IF openedAt[Of(t)] # None \/ work[t].attempt = Retries
       THEN NextEndpoint(t)
       ELSE Go(t, "call", [work[t] EXCEPT !.attempt = @ + 1])
    /\ UNCHANGED <<clock, breakers, recorded, late>>

\* insert_ignore: the first answer stays; its caller still returns its own.
Remember(t) ==
    /\ pc[t] = "store"
    /\ recorded' = [recorded EXCEPT ![work[t].prompt] =
                        IF @ = None THEN Of(t) ELSE @]
    /\ Go(t, "reply", [NoWork EXCEPT !.status = 200])
    /\ UNCHANGED <<clock, breakers, late>>

Complete(t) ==
    \/ Lookup(t) \/ Allow(t) \/ Call(t) \/ Answer(t)
    \/ Succeeded(t) \/ Failed(t) \/ Again(t) \/ Remember(t)

Tick ==
    /\ clock < MaxClock
    /\ clock' = clock + 1
    /\ UNCHANGED <<breakers, recorded, pc, work, late>>

\* While a circuit is open, a thread begins at most one more call to its
\* endpoint: the one it had been allowed, or was about to retry, before.
BreakerHoldsBack ==
    \A t \in Threads, e \in 1..Endpoints : openedAt[e] # None => late[t][e] <= 1

=============================================================================
