------------------------------ MODULE Snapshots ------------------------------
(***************************************************************************)
(* Snapshots of the source data: Platform._bundle() and everything that    *)
(* changes what it should show (src/asas/services/platform.py), over the   *)
(* bitemporal source tables of the store (src/asas/store/db.py).           *)
(*                                                                         *)
(* Threads of one process share its snapshot cache; other processes share  *)
(* only the store and never clear that cache. A snapshot is loaded table   *)
(* by table, each SELECT on its own; an ingestion is one transaction.      *)
(*                                                                         *)
(* A row is [table, key, time, data]; time is its record_ts.               *)
(***************************************************************************)
EXTENDS EvidenceGraph

CONSTANTS
    Threads,        \* threads of the process that owns the cache
    Investigators, Approvers,   \* people by role
    AsOfs,          \* the moments snapshots are asked for
    Histories,      \* whether signals are wanted as of each episode's end
    Tables,         \* the tables load_bundle() reads, in its order
    InitialRows,    \* what has been ingested before
    Batches,        \* bundles of source rows that may be ingested
    CaseAlerts,     \* the alerts of the case that is decided
    DecidedAts,     \* when it is decided
    Proposals,      \* link proposals as first stored: [a, b, at, status]
    Policies,       \* bundle ids a release may activate
    Subrules,       \* the rules of the active policy
    MaxCalls,       \* bound: calls made in the process
    MaxElsewhere,   \* bound: changes other processes make
    NoAnswer

KeysAreUnique(content) == \A r, q \in content : r.table = q.table /\ r.key = q.key => r = q

\* Trades and times are numbers.
IsRow(r) ==
    /\ r = [table |-> r.table, key |-> r.key, time |-> r.time, data |-> r.data] /\ r.time \in Nat
    /\ r.table \in {"trade_events", "alerts"} => r.data.trade \in Nat /\ r.data.time \in Nat

ASSUME SnapshotsAssumption ==
    /\ LinkingAssumption
    /\ AsOfs \subseteq Nat /\ DecidedAts \subseteq Nat /\ Histories \subseteq BOOLEAN
    /\ {MaxCalls, MaxElsewhere} \subseteq Nat
    /\ Tables \in Seq(STRING) /\ "trade_events" \in ToSet(Tables)
    /\ IsFiniteSet(CaseAlerts) /\ IsFiniteSet(Subrules)
    /\ \A batch \in Batches \cup {InitialRows} :
          IsFiniteSet(batch) /\ KeysAreUnique(batch) /\ \A r \in batch : IsRow(r)
    /\ \A p \in Proposals : p.at \in Nat

VARIABLES
    rows,        \* the source tables
    policy,      \* the active bundle
    confirmedBy, \* link_proposal version "2": who confirmed it
    cache,       \* Platform._cache: a set of [key, snapshot], and what was
                 \* committed while the snapshot was loaded
    pc,          \* pc[t]: what thread t does next
    call,        \* call[t]: arguments and locals of its call
    answer,      \* answer[t]: what its last _bundle() call returned
    audited,     \* LINK_CONFIRMED audit entries: <<user, proposal>>
    settled,     \* history: rows whose writer in this process has returned
    calls, elsewhere   \* bounded counters

store == <<rows, policy, confirmedBy, audited>>
bounds == <<calls, elsewhere>>
vars == <<store, cache, pc, call, answer, settled, bounds>>

-----------------------------------------------------------------------------
(* The store. *)

\* Outcomes count from the moment after they were decided.
Visible(table, asOf) ==
    {r \in rows : r.table = table /\ IF table = "outcomes" THEN r.time < asOf ELSE r.time <= asOf}

\* A row whose key is taken by another content is refused, and with it all.
Conflicts(batch) ==
    \E r \in batch, q \in rows : r.table = q.table /\ r.key = q.key /\ r # q

\* CANONICAL links known at a moment, as <<trade_b, trade_a>>.
Confirmed(asOf) == {<<p.b, p.a>> : p \in {x \in DOMAIN confirmedBy : x.at <= asOf}}

-----------------------------------------------------------------------------
(* Snapshots. *)

Of(content, table) == {r.data : r \in {x \in content : x.table = table}}

\* Mutant: the cache is looked up by moment and policy only.
KeyWithoutLinks(c) == [asOf |-> c.asOf, history |-> c.history, policy |-> c.policy, links |-> {}]

Key(c) == [asOf |-> c.asOf, history |-> c.history, policy |-> c.policy, links |-> c.links]

Snapshot(c) == [asOf |-> c.asOf, history |-> c.history, policy |-> c.policy, links |-> c.links,
                content |-> c.content]

Story(s) == Linked(Of(s.content, "trade_events"), Of(s.content, "alerts"), s.links)

\* The id counts the rows of three tables; RFIs, persons and annexes are not in it.
SnapshotId(s) ==
    [asOf |-> s.asOf, policy |-> s.policy, links |-> s.links,
     trades |-> Cardinality(Of(s.content, "trade_events")),
     alerts |-> Cardinality(Of(s.content, "alerts")),
     outcomes |-> Cardinality({r \in s.content : r.table = "outcomes"})]

\* One curated escalation among the alerts of an episode outweighs the rest.
CuratedLabel(s, episode) ==
    LET alerts == {a.alert : a \in {x \in Of(s.content, "alerts") : x.trade \in episode}}
        labels == {o.label : o \in {x \in Of(s.content, "outcomes") :
                                      x.alert \in alerts /\ x.quality = "CURATED"}}
    IN  IF labels = {} THEN "NONE"
        ELSE IF "ESCALATED" \in labels THEN "ESCALATED" ELSE "CLEARED"

-----------------------------------------------------------------------------
(* Calls. *)

Users == Investigators \cup Approvers

NoCall == [asOf |-> 0, history |-> FALSE, policy |-> 0, links |-> {}, content |-> {},
           loaded |-> 0, during |-> {}, batch |-> {}, user |-> NoAnswer, proposal |-> NoAnswer,
           known |-> {}, since |-> {}]

Init ==
    /\ rows = InitialRows /\ policy \in Policies
    /\ confirmedBy = << >> /\ audited = {}
    /\ cache = {}
    /\ pc = [t \in Threads |-> "idle"]
    /\ call = [t \in Threads |-> NoCall]
    /\ answer = [t \in Threads |-> NoAnswer]
    /\ settled = InitialRows
    /\ calls = 0 /\ elsewhere = 0

Steps == {"idle", "links", "check", "load", "insert", "fetch", "commit", "confirm", "settle"}

Begin(t, c, step) ==
    /\ pc[t] = "idle" /\ calls < MaxCalls
    /\ calls' = calls + 1
    /\ pc' = [pc EXCEPT ![t] = step]
    /\ call' = [call EXCEPT ![t] = c]
    /\ UNCHANGED elsewhere

Continue(t, c, step) ==
    /\ pc' = [pc EXCEPT ![t] = step]
    /\ call' = [call EXCEPT ![t] = c]

\* The call ends; a history variable forgets nothing that matters.
End(t) == Continue(t, NoCall, "idle")

\* History: the rows committed while a snapshot is being loaded.
Loading(t) == pc[t] \in {"load", "insert"}
Witnessed(calls0, batch) ==
    [t \in Threads |-> IF Loading(t) THEN [calls0[t] EXCEPT !.during = @ \cup (batch \ rows)]
                       ELSE calls0[t]]

Reading(t) == pc[t] \in {"links", "check", "load", "insert", "fetch"}

\* History: the bundles that have been active since a call began.
Activated(calls0, v) ==
    [t \in Threads |-> IF Reading(t) THEN [calls0[t] EXCEPT !.since = @ \cup {v}] ELSE calls0[t]]

-----------------------------------------------------------------------------
(* _bundle(): the active bundle, the links, the cache, the load.           *)

ReadPolicy(t, asOf, history) ==
    /\ Begin(t, [NoCall EXCEPT !.asOf = asOf, !.history = history, !.policy = policy,
                               !.known = Confirmed(asOf), !.since = {policy}], "links")
    /\ UNCHANGED <<store, cache, answer, settled>>

ReadLinks(t) ==
    /\ pc[t] = "links"
    /\ Continue(t, [call[t] EXCEPT !.links = Confirmed(call[t].asOf)], "check")
    /\ UNCHANGED <<store, cache, answer, settled, bounds>>

Check(t) ==
    /\ pc[t] = "check"
    /\ Continue(t, call[t], IF \E c \in cache : c.key = Key(call[t]) THEN "fetch" ELSE "load")
    /\ UNCHANGED <<store, cache, answer, settled, bounds>>

\* One SELECT of load_bundle().
Load(t) ==
    LET c == call[t]
        n == c.loaded + 1
    IN  /\ pc[t] = "load"
        /\ Continue(t, [c EXCEPT !.loaded = n,
                                 !.content = @ \cup Visible(Tables[n], c.asOf)],
                    IF n = Len(Tables) THEN "insert" ELSE "load")
        /\ UNCHANGED <<store, cache, answer, settled, bounds>>

Insert(t) ==
    /\ pc[t] = "insert"
    /\ cache' = {c \in cache : c.key # Key(call[t])}
                \cup {[key |-> Key(call[t]), snapshot |-> Snapshot(call[t]), during |-> call[t].during]}
    /\ Continue(t, call[t], "fetch")
    /\ UNCHANGED <<store, answer, settled, bounds>>

\* The cache is read once more for the answer; if another thread has cleared
\* it in between, that raises KeyError.
Fetch(t) ==
    LET c == call[t]
        found == {x \in cache : x.key = Key(c)}
    IN  /\ pc[t] = "fetch"
        /\ \/ \E x \in found : answer' = [answer EXCEPT ![t] = x.snapshot]
           \/ found = {} /\ answer' = [answer EXCEPT ![t] = NoAnswer]
        /\ End(t)
        /\ UNCHANGED <<store, cache, settled, bounds>>

-----------------------------------------------------------------------------
(* Writers: what is asked for first, then the transaction, then the audit  *)
(* entry and the clearing of the cache.                                    *)

Ingest(t, batch) ==
    /\ Begin(t, [NoCall EXCEPT !.batch = batch], "commit")
    /\ UNCHANGED <<store, cache, answer, settled>>

RecordDecision(t, user, label, at) ==
    /\ Begin(t, [NoCall EXCEPT !.user = user, !.batch =
                   {[table |-> "outcomes", key |-> <<a, user, at>>, time |-> at,
                     data |-> [alert |-> a, label |-> label, quality |-> "RAW", by |-> user]] :
                    a \in CaseAlerts}], "commit")
    /\ UNCHANGED <<store, cache, answer, settled>>

\* The curated row is a copy of the one that was decided, its time included.
Curate(t, user, row) ==
    /\ user \in Approvers
    /\ row \in rows /\ row.table = "outcomes" /\ row.data.by # user
    /\ Begin(t, [NoCall EXCEPT !.user = user, !.batch =
                   {[row EXCEPT !.key = <<"C", row.key>>, !.data.quality = "CURATED"]}], "commit")
    /\ UNCHANGED <<store, cache, answer, settled>>

\* Mutant: a row whose key is taken replaces the one that is there.
CommitReplaces(t) ==
    LET batch == call[t].batch
        same(r) == \E q \in batch : q.table = r.table /\ q.key = r.key
    IN  /\ pc[t] = "commit"
        /\ rows' = {r \in rows : ~same(r)} \cup batch
        /\ pc' = [pc EXCEPT ![t] = "settle"]
        /\ call' = Witnessed(call, batch)
        /\ UNCHANGED <<policy, confirmedBy, audited, cache, answer, settled, bounds>>

\* Mutant: a row is inserted whether its key is taken or not.
CommitUnchecked(t) ==
    /\ pc[t] = "commit"
    /\ rows' = rows \cup call[t].batch
    /\ pc' = [pc EXCEPT ![t] = "settle"]
    /\ call' = Witnessed(call, call[t].batch)
    /\ UNCHANGED <<policy, confirmedBy, audited, cache, answer, settled, bounds>>

\* Store.ingest(): all rows or, with DataContractError, none.
Commit(t) ==
    LET batch == call[t].batch
    IN  /\ pc[t] = "commit"
        /\ \/ /\ ~Conflicts(batch)
              /\ rows' = rows \cup batch
              /\ pc' = [pc EXCEPT ![t] = "settle"]
              /\ call' = Witnessed(call, batch)
           \/ Conflicts(batch) /\ End(t) /\ UNCHANGED rows
        /\ UNCHANGED <<policy, confirmedBy, audited, cache, answer, settled, bounds>>

\* The investigator proposes a link between two trades it has seen.
Proposed(p) == {p.a, p.b} \subseteq {r.data.trade : r \in Visible("trade_events", p.at)}

Canonical(p) == p \in DOMAIN confirmedBy

ConfirmLink(t, user, p) ==
    /\ Proposed(p) /\ p.status = "VERIFIED" /\ ~Canonical(p)
    /\ Begin(t, [NoCall EXCEPT !.user = user, !.proposal = p], "confirm")
    /\ UNCHANGED <<store, cache, answer, settled>>

Signed(p, user) ==
    [q \in DOMAIN confirmedBy \cup {p} |-> IF q = p THEN user ELSE confirmedBy[q]]

\* Mutant: version "2" is written over.
ConfirmOver(t) ==
    LET c == call[t]
    IN  /\ pc[t] = "confirm"
        /\ confirmedBy' = Signed(c.proposal, c.user)
        /\ Continue(t, c, "settle")
        /\ UNCHANGED <<rows, policy, audited, cache, answer, settled, bounds>>

\* Version "2" of the proposal names who confirmed it: somebody else's is refused.
ConfirmPut(t) ==
    LET c == call[t]
    IN  /\ pc[t] = "confirm"
        /\ \/ /\ Canonical(c.proposal) => confirmedBy[c.proposal] = c.user
              /\ confirmedBy' = Signed(c.proposal, c.user)
              /\ Continue(t, c, "settle")
           \/ /\ Canonical(c.proposal) /\ confirmedBy[c.proposal] # c.user
              /\ End(t)
              /\ UNCHANGED confirmedBy
        /\ UNCHANGED <<rows, policy, audited, cache, answer, settled, bounds>>

\* approve() and rollback(), in one step: Governance has their steps.
Release(t, v) ==
    /\ pc[t] = "idle" /\ calls < MaxCalls
    /\ v # policy
    /\ calls' = calls + 1
    /\ policy' = v
    /\ pc' = [pc EXCEPT ![t] = "settle"]
    /\ call' = Activated(call, v)
    /\ UNCHANGED <<rows, confirmedBy, audited, cache, answer, settled, elsewhere>>

\* Mutant: the cache is cleared for links and releases only.
SettleKeepsCache(t) ==
    LET c == call[t]
    IN  /\ pc[t] = "settle"
        /\ audited' = IF c.proposal = NoAnswer THEN audited ELSE audited \cup {<<c.user, c.proposal>>}
        /\ settled' = settled \cup c.batch
        /\ cache' = IF c.batch = {} THEN {} ELSE cache
        /\ End(t)
        /\ UNCHANGED <<rows, policy, confirmedBy, answer, bounds>>

Settle(t) ==
    LET c == call[t]
    IN  /\ pc[t] = "settle"
        /\ audited' = IF c.proposal = NoAnswer THEN audited ELSE audited \cup {<<c.user, c.proposal>>}
        /\ settled' = settled \cup c.batch
        /\ cache' = {}
        /\ End(t)
        /\ UNCHANGED <<rows, policy, confirmedBy, answer, bounds>>

\* The audit entry cannot be written: the change stays, the cache too.
SettleFails(t) ==
    /\ pc[t] = "settle"
    /\ End(t)
    /\ UNCHANGED <<store, cache, answer, settled, bounds>>

-----------------------------------------------------------------------------
(* Other processes. *)

Elsewhere ==
    /\ elsewhere < MaxElsewhere
    /\ elsewhere' = elsewhere + 1
    /\ UNCHANGED <<calls, cache, pc, answer, settled>>

IngestElsewhere(batch) ==
    /\ Elsewhere
    /\ ~Conflicts(batch)
    /\ rows' = rows \cup batch
    /\ call' = Witnessed(call, batch)
    /\ UNCHANGED <<policy, confirmedBy, audited>>

ConfirmElsewhere(user, p) ==
    /\ Elsewhere
    /\ Proposed(p) /\ p.status = "VERIFIED" /\ ~Canonical(p)
    /\ confirmedBy' = Signed(p, user)
    /\ audited' = audited \cup {<<user, p>>}
    /\ UNCHANGED <<rows, policy, call>>

ReleaseElsewhere(v) ==
    /\ Elsewhere
    /\ v # policy
    /\ policy' = v
    /\ call' = Activated(call, v)
    /\ UNCHANGED <<rows, confirmedBy, audited>>

Step(t) ==
    \/ ReadLinks(t) \/ Check(t) \/ Load(t) \/ Insert(t) \/ Fetch(t)
    \/ Commit(t) \/ ConfirmPut(t) \/ Settle(t) \/ SettleFails(t)

Next ==
    \/ \E t \in Threads :
          \/ Step(t)
          \/ \E asOf \in AsOfs, history \in Histories : ReadPolicy(t, asOf, history)
          \/ \E batch \in Batches : Ingest(t, batch)
          \/ \E user \in Users, label \in {"CLEARED", "ESCALATED"}, at \in DecidedAts :
                RecordDecision(t, user, label, at)
          \/ \E user \in Users, row \in rows : Curate(t, user, row)
          \/ \E user \in Users, p \in Proposals : ConfirmLink(t, user, p)
          \/ \E v \in Policies : Release(t, v)
    \/ \E batch \in Batches : IngestElsewhere(batch)
    \/ \E user \in Users, p \in Proposals : ConfirmElsewhere(user, p)
    \/ \E v \in Policies : ReleaseElsewhere(v)

Spec == Init /\ [][Next]_vars

-----------------------------------------------------------------------------
(* Properties. *)

Shown == {c.snapshot : c \in cache} \cup ({answer[t] : t \in Threads} \ {NoAnswer})

\* The snapshots that are about to be cached.
Built == {Snapshot(call[t]) : t \in {u \in Threads : pc[u] = "insert"}}

\* Types; the keys of the source tables and of the cache are unique.
TypeOK ==
    /\ KeysAreUnique(rows)
    /\ policy \in Policies
    /\ DOMAIN confirmedBy \subseteq Proposals /\ \A p \in DOMAIN confirmedBy : confirmedBy[p] \in Users
    /\ \A c, d \in cache : c.key = d.key => c = d
    /\ settled \subseteq rows
    /\ pc \in [Threads -> Steps]

\* What is recorded under a snapshot id stays right: snapshots with one id tell
\* the same story (episodes, links, curated labels), whatever was ingested,
\* curated or confirmed between them and however their loads were torn. The
\* runtime replays results by this id.
SameIdSameStory ==
    \A s, u \in Shown :
        SnapshotId(s) = SnapshotId(u) /\ s.content # u.content =>
            LET one == Story(s)
                other == Story(u)
            IN  /\ one = other
                /\ \A e \in Episodes(one) : CuratedLabel(s, e) = CuratedLabel(u, e)

\* What a call of this process has stored and reported as done is in every
\* snapshot the process still serves, unless it was stored in the very middle
\* of that snapshot's load.
OwnWritesAreSeen ==
    \A c \in cache, i \in DOMAIN Tables :
        Visible(Tables[i], c.key.asOf) \cap settled \subseteq c.snapshot.content \cup c.during

\* The answer is to the question asked: no other thread's moment, no bundle
\* that was already inactive, no link missing that anybody, in any process, had
\* confirmed before the call.
AnswersAreCurrent ==
    [][\A t \in Threads :
          LET s == answer'[t]
              c == call[t]
          IN  pc[t] = "fetch" /\ pc'[t] = "idle" /\ s # NoAnswer =>
                  /\ s.asOf = c.asOf /\ s.history = c.history
                  /\ s.policy \in c.since
                  /\ c.known \subseteq s.links /\ s.links \subseteq Confirmed(s.asOf)]_vars

\* A link has one confirmation: whoever is on record as having confirmed it is
\* the person the canonical link names.
OneConfirmation ==
    \A x \in audited : Canonical(x[2]) /\ confirmedBy[x[2]] = x[1]

\* Of whatever has been loaded, torn or not: the episodes are what the accepted
\* links join, none of them stretches beyond the span, only lineage mixes
\* instruments, and nothing a human confirms takes a rebooking from its original.
EpisodesAreSound ==
    \A s \in Built :
        LET events == Of(s.content, "trade_events")
            alerts == Of(s.content, "alerts")
        IN  /\ JoinedByLinks(Story(s))
            /\ SpanIsBounded(events, alerts, Story(s))
            /\ InstrumentsStayApart(events, Story(s))
            /\ LineageStands(events, alerts, s.links)

GraphOf(s) ==
    BuildGraph(Subrules, Of(s.content, "trade_events"), Of(s.content, "alerts"),
               Of(s.content, "outcomes"), Story(s),
               {[a |-> p.a, b |-> p.b, status |-> IF Canonical(p) THEN "CANONICAL" ELSE p.status] :
                p \in {x \in Proposals : Proposed(x) /\ x.at <= s.asOf}})

\* However torn a snapshot is, its graph can be walked: no edge leads out of
\* it, and an agent sees what is near or is told that there is more.
GraphsCanBeWalked ==
    \A s \in Built :
        LET g == GraphOf(s)
        IN  /\ IsClosed(g)
            /\ \A n \in g.node : ShowsWhatIsNear(g, n, 2, 6)

-----------------------------------------------------------------------------
(* Why they hold: the inductive invariant.                                 *)

\* What has been loaded for a moment was visible at that moment, and stays so.
ContentOK(s) == \A r \in s.content : r \in Visible(r.table, s.asOf)

\* Whatever a load missed of the tables it has read was committed during it.
LoadOK(c) ==
    \A i \in 1..c.loaded : Visible(Tables[i], c.asOf) \subseteq c.content \cup c.during

\* What a call relies on at a step.
GoodCall(step, c) ==
    /\ c = [field \in DOMAIN NoCall |-> c[field]]
    /\ step = "idle" => c = NoCall
    /\ step = "commit" => c.proposal = NoAnswer /\ IsFiniteSet(c.batch) /\ KeysAreUnique(c.batch)
    /\ step = "confirm" => c.batch = {} /\ c.proposal \in Proposals /\ c.user \in Users
    /\ step = "settle" =>
          /\ c.batch \subseteq rows
          /\ c.proposal # NoAnswer => Canonical(c.proposal) /\ confirmedBy[c.proposal] = c.user
    /\ step \in {"links", "check", "load", "insert", "fetch"} =>
          c.policy \in c.since /\ c.known \subseteq Confirmed(c.asOf)
    /\ step \in {"check", "load", "insert", "fetch"} =>
          c.known \subseteq c.links /\ c.links \subseteq Confirmed(c.asOf)
    /\ step \in {"links", "check"} => c.loaded = 0 /\ c.content = {} /\ c.during = {}
    /\ step = "load" => c.loaded \in 0..(Len(Tables) - 1)
    /\ step = "insert" => c.loaded = Len(Tables)
    /\ step \in {"load", "insert"} => ContentOK(c) /\ LoadOK(c)

CallsOK ==
    /\ call = [t \in Threads |-> call[t]] /\ answer = [t \in Threads |-> answer[t]]
    /\ \A t \in Threads : GoodCall(pc[t], call[t])

SnapshotsOK ==
    /\ \A c \in cache : c.key = Key(c.snapshot)
    /\ \A s \in Shown : ContentOK(s)

\* Snapshots, and loads in progress: of two for one moment, one has of each
\* table what the other has, or more.
Loads == {call[t] : t \in {u \in Threads : Loading(u)}}

View(s, table) == {r \in s.content : r.table = table}

Nested(s, u) ==
    s.asOf = u.asOf =>
        \A table \in {"trade_events", "alerts", "outcomes"} :
            View(s, table) \subseteq View(u, table) \/ View(u, table) \subseteq View(s, table)

ViewsAreNested == \A s, u \in Shown \cup Loads : Nested(s, u)

\* Rows are what they are read as, those a call is about to store too.
RowsOK == \A r \in rows \cup UNION {call[t].batch : t \in Threads} : IsRow(r)

\* The trades of a link that is confirmed, or about to be, are stored.
LinksStand ==
    /\ \A p \in DOMAIN confirmedBy : Proposed(p)
    /\ \A t \in Threads : pc[t] = "confirm" => Proposed(call[t].proposal)

\* The trades of the links a call has read were stored before its load began.
LinksAreOld ==
    \A t \in Threads : pc[t] \in {"check", "load", "insert"} =>
        \A l \in call[t].links :
            {l[1], l[2]} \subseteq
                {r.data.trade : r \in Visible("trade_events", call[t].asOf) \ call[t].during}

SourcesOK ==
    /\ RowsOK /\ \A t \in Threads : call[t].asOf \in Nat
    /\ LinksStand /\ LinksAreOld

Inv ==
    /\ TypeOK /\ IsFiniteSet(rows)
    /\ CallsOK /\ SnapshotsOK /\ ViewsAreNested
    /\ OwnWritesAreSeen /\ OneConfirmation

=============================================================================
