-------------------------------- MODULE Store --------------------------------
(***************************************************************************)
(* The store's own transactions (src/asas/store/db.py, dialect.py,         *)
(* migrations.py): put_artifact, ingest, insert_ignore, audit and the      *)
(* constructor, called by the threads of several processes.                *)
(*                                                                         *)
(* SQLite: BEGIN IMMEDIATE serialises all writers of the file.             *)
(* PostgreSQL: one writer connection per process, READ COMMITTED. A SELECT *)
(* sees what is committed; an INSERT waits for another transaction that    *)
(* has inserted its key, and then fails or proceeds.                       *)
(*                                                                         *)
(* A row is [key, value]: any table with a primary key or UNIQUE           *)
(* constraint, the migrations ledger included; value is its payload_hash.  *)
(***************************************************************************)
EXTENDS Integers, Sequences, SequencesExt, FiniteSets, FiniteSetsExt

CONSTANTS
    Processes, Threads,
    ProcessOf,      \* ProcessOf[t]: the process thread t runs in
    Workloads,      \* what happens in a behaviour: [dialects, requests,
                    \* calls, faults, ledger, running, restores]; a request is [op, writes],
                    \* writes a sequence of rows; ledger holds the rows of the
                    \* migrations applied before
    Releases,       \* Releases[p]: the migrations p ships: [version, checksum]
    None

\* The tables with a key of their own; all are append-only.
Tables ==
    {"trade_events", "trade_persons", "alerts", "alert_annexes", "rfi_events", "outcomes",
     "artifacts", "agent_runs", "agent_run_results", "agent_steps", "tool_calls", "model_cache",
     "spans", "schema_migrations"}

\* The migrations ledger: schema_migrations, version -> checksum.
LedgerRow(m) == [key |-> <<"schema_migrations", m.version>>, value |-> m.checksum]

\* Who runs or restores has had its migrations applied; insert_ignore takes one row.
ASSUME StoreAssumption ==
    /\ ProcessOf \in [Threads -> Processes] /\ IsFiniteSet(Threads) /\ None \notin Threads
    /\ \A p \in Processes :
         /\ IsFiniteSet(Releases[p])
         /\ \A m \in Releases[p], n \in Releases[p] :
              m.version \in Int /\ (m.version = n.version => m = n)
    /\ IsFiniteSet(Workloads)
    /\ \A w \in Workloads :
         /\ w.dialects \subseteq {"sqlite", "postgres"}
         /\ {w.calls, w.faults} \subseteq Nat    \* bounds: calls; crashes, lost
         /\ {w.running, w.restores} \subseteq BOOLEAN    \* connections and lock timeouts
         /\ \A r \in w.ledger, q \in w.ledger : r.key[1] \in Tables /\ (r.key = q.key => r = q)
         /\ w.running \/ w.restores =>
              \A p \in Processes : \A m \in Releases[p] : LedgerRow(m) \in w.ledger
         /\ \A c \in w.requests :
              /\ c.op \in {"put", "cache", "audit", "anchor", "verify"}
              /\ c.writes \in Seq(Range(c.writes))
              /\ \A r \in Range(c.writes) : r.key[1] \in Tables
              /\ c.op = "cache" => Len(c.writes) = 1

VARIABLES
    dialect,    \* "sqlite" or "postgres"
    workload,   \* what happens in this behaviour
    rows,       \* committed rows of the keyed tables
    log,        \* committed rows of audit_log: [seq, entry, prev, hash]
    issued,     \* the last seq PostgreSQL gave out; never taken back
    state,      \* state[p]: "down", "up", or "cut": its connection is lost
    owner,      \* owner[p]: the thread that holds the writer lock of p
    chain,      \* the thread that holds the advisory lock of the audit chain
    pc,         \* pc[t]: what thread t does next
    tx,         \* tx[t]: its call and its open transaction
    answer,     \* answer[t]: the last call of t and how it ended
    calls, faults   \* bounded counters

database == <<rows, log, issued>>
control == <<pc, tx, answer>>
setting == <<dialect, workload>>
vars == <<setting, database, state, owner, chain, control, calls, faults>>

-----------------------------------------------------------------------------
(* Transactions. *)

NoTx == [op |-> None, writes |-> << >>, todo |-> << >>, staged |-> {}, entry |-> None,
         appended |-> {}, attempt |-> 1, auto |-> TRUE]

Init ==
    /\ workload \in Workloads /\ dialect \in workload.dialects
    /\ rows = workload.ledger
    /\ log = {} /\ issued = 0
    /\ state = [p \in Processes |-> IF workload.running THEN "up" ELSE "down"]
    /\ owner = [p \in Processes |-> None]
    /\ chain = None
    /\ pc = [t \in Threads |-> "idle"]
    /\ tx = [t \in Threads |-> NoTx]
    /\ answer = [t \in Threads |-> None]
    /\ calls = 0 /\ faults = 0

Mine(t) == ProcessOf[t]

\* What a SELECT of t finds under a key: a set of at most one row.
Seen(t, key) == {r \in rows \cup tx[t].staged : r.key = key}

\* Transactions that have inserted the key t is about to insert.
Blockers(t) ==
    {u \in Threads \ {t} : pc[t] = "insert" /\ \E r \in tx[u].staged : r.key = Head(tx[t].todo).key}

\* The step after the statements that are left in todo.
Then(op, todo) ==
    IF todo = << >> THEN "commit" ELSE IF op = "put" THEN "select" ELSE "insert"

Go(t, step, new) ==
    /\ pc' = [pc EXCEPT ![t] = step]
    /\ tx' = [tx EXCEPT ![t] = new]

Release(t) ==
    /\ owner' = [owner EXCEPT ![Mine(t)] = IF @ = t THEN None ELSE @]
    /\ chain' = IF chain = t THEN None ELSE chain

\* Commit or rollback, and the call's outcome; the locks go with it.
Finish(t, outcome) ==
    /\ Go(t, "idle", NoTx)
    /\ Release(t)
    /\ answer' = [answer EXCEPT ![t] = [op |-> tx[t].op, writes |-> tx[t].writes, entry |-> tx[t].entry,
                                        how |-> outcome]]

Begin(t, c) ==
    /\ pc[t] = "idle" /\ state[Mine(t)] # "down" /\ calls < workload.calls /\ c \in workload.requests
    /\ calls' = calls + 1
    /\ Go(t, "lock", [NoTx EXCEPT !.op = c.op, !.writes = c.writes, !.todo = c.writes,
                                  !.entry = IF c.op = "audit" THEN calls + 1 ELSE None])
    /\ answer' = [answer EXCEPT ![t] = None]
    /\ UNCHANGED <<setting, database, state, owner, chain, faults>>

\* The process's lock, and on SQLite BEGIN IMMEDIATE.
Lock(t) ==
    /\ pc[t] = "lock" /\ state[Mine(t)] # "cut" /\ owner[Mine(t)] = None
    /\ dialect = "sqlite" => \A p \in Processes : owner[p] = None
    /\ owner' = [owner EXCEPT ![Mine(t)] = t]
    /\ Go(t, CASE tx[t].op = "start" -> "pending" [] tx[t].op = "audit" -> "chain"
               [] OTHER -> Then(tx[t].op, tx[t].todo), tx[t])
    /\ UNCHANGED <<setting, database, state, chain, answer, calls, faults>>

\* BEGIN IMMEDIATE gives up after 30 seconds.
LockTimesOut(t) ==
    /\ pc[t] = "lock" /\ dialect = "sqlite" /\ owner[Mine(t)] = None
    /\ \E p \in Processes : owner[p] # None
    /\ faults < workload.faults /\ faults' = faults + 1
    /\ Finish(t, "failed")
    /\ UNCHANGED <<setting, database, state, calls>>

\* Nothing reconnects the writer connection of a PostgreSQL process.
NoConnection(t) ==
    /\ pc[t] = "lock" /\ state[Mine(t)] = "cut" /\ owner[Mine(t)] = None
    /\ Finish(t, "failed")
    /\ UNCHANGED <<setting, database, state, calls, faults>>

-----------------------------------------------------------------------------
(* Rows: _append, _put_artifact, insert_ignore.                            *)

Skip(t) ==
    LET rest == Tail(tx[t].todo) IN Go(t, Then(tx[t].op, rest), [tx[t] EXCEPT !.todo = rest])

\* The same content is there: nothing to do. Another: refused, and all of it undone.
Select(t) ==
    LET w == Head(tx[t].todo) IN
    /\ pc[t] = "select"
    /\ \/ /\ Seen(t, w.key) = {}
          /\ Go(t, "insert", tx[t])
          /\ UNCHANGED <<owner, chain, answer>>
       \/ /\ Seen(t, w.key) = {w}
          /\ Skip(t)
          /\ UNCHANGED <<owner, chain, answer>>
       \/ /\ Seen(t, w.key) \notin {{}, {w}}
          /\ Finish(t, "refused")
    /\ UNCHANGED <<setting, database, state, calls, faults>>

\* A lost race: the transaction is rolled back; put_artifact and ingest try once more.
Duplicate(t) ==
    IF tx[t].op = "put" /\ tx[t].attempt = 1
    THEN /\ Go(t, "lock", [tx[t] EXCEPT !.todo = tx[t].writes, !.staged = {}, !.attempt = 2])
         /\ Release(t)
         /\ UNCHANGED answer
    ELSE Finish(t, "duplicate")

\* Mutant: a row that somebody else inserted meanwhile counts as written.
InsertOver(t) ==
    LET w == Head(tx[t].todo)
        taken == \E r \in rows : r.key = w.key
    IN  /\ pc[t] = "insert" /\ Blockers(t) = {}
        /\ LET rest == Tail(tx[t].todo) IN
           Go(t, Then(tx[t].op, rest),
              [tx[t] EXCEPT !.todo = rest, !.staged = IF taken THEN @ ELSE @ \cup {w}])
        /\ UNCHANGED <<owner, chain, answer, setting, database, state, calls, faults>>

Insert(t) ==
    LET w == Head(tx[t].todo)
        taken == \E r \in rows : r.key = w.key
    IN  /\ pc[t] = "insert" /\ Blockers(t) = {}
        /\ IF taken
           THEN IF tx[t].op = "cache" THEN Skip(t) /\ UNCHANGED <<owner, chain, answer>>
                                      ELSE Duplicate(t)
           ELSE LET rest == Tail(tx[t].todo) IN
                /\ Go(t, Then(tx[t].op, rest), [tx[t] EXCEPT !.todo = rest, !.staged = @ \cup {w}])
                /\ UNCHANGED <<owner, chain, answer>>
        /\ UNCHANGED <<setting, database, state, calls, faults>>

\* PostgreSQL ends a circle of waiting transactions by failing one of them.
Deadlock(t) ==
    /\ \E circle \in SUBSET Threads :
         /\ t \in circle
         /\ \A u \in circle : /\ Blockers(u) \cap circle # {}
                              /\ \E v \in circle : u \in Blockers(v)
    /\ Finish(t, "failed")
    /\ UNCHANGED <<setting, database, state, calls, faults>>

-----------------------------------------------------------------------------
(* The audit chain. *)

Latest(entries) == CHOOSE e \in entries : \A f \in entries : f.seq <= e.seq

Newest == Latest(log)

HeadHash == IF log = {} THEN << >> ELSE Newest.hash

\* Mutant: nothing serialises the processes.
LockChainNot(t) ==
    /\ pc[t] = "chain"
    /\ Go(t, "head", tx[t])
    /\ UNCHANGED <<setting, database, state, owner, chain, answer, calls, faults>>

\* pg_advisory_xact_lock; on SQLite the writer lock does.
LockChain(t) ==
    /\ pc[t] = "chain"
    /\ IF dialect = "postgres" THEN chain = None /\ chain' = t ELSE UNCHANGED chain
    /\ Go(t, "head", tx[t])
    /\ UNCHANGED <<setting, database, state, owner, answer, calls, faults>>

ReadHead(t) ==
    /\ pc[t] = "head"
    /\ Go(t, "append", [tx[t] EXCEPT !.appended = {HeadHash}])
    /\ UNCHANGED <<setting, database, state, owner, chain, answer, calls, faults>>

\* hash covers the entry and the hash before it, and so everything before it.
AppendEntry(t) ==
    LET prev == CHOOSE h \in tx[t].appended : TRUE
        seq == IF dialect = "postgres" THEN issued + 1 ELSE IF log = {} THEN 1 ELSE Newest.seq + 1
    IN  /\ pc[t] = "append"
        /\ issued' = seq
        /\ Go(t, "commit", [tx[t] EXCEPT !.appended =
                 {[seq |-> seq, entry |-> tx[t].entry, prev |-> prev, hash |-> Append(prev, tx[t].entry)]}])
        /\ UNCHANGED <<setting, rows, log, state, owner, chain, answer, calls, faults>>

\* On PostgreSQL the connection may be lost after the server has committed and
\* before it says so: everything is stored, and commit() raises all the same.
Commit(t) ==
    /\ pc[t] = "commit"
    /\ rows' = rows \cup tx[t].staged
    /\ log' = log \cup tx[t].appended
    /\ \/ /\ state' = IF tx[t].op = "start" THEN [state EXCEPT ![Mine(t)] = "up"] ELSE state
          /\ Finish(t, "ok")
          /\ UNCHANGED faults
       \/ /\ dialect = "postgres" /\ faults < workload.faults
          /\ faults' = faults + 1
          /\ state' = [state EXCEPT ![Mine(t)] = IF @ = "up" THEN "cut" ELSE @]
          /\ Finish(t, "in_doubt")
    /\ UNCHANGED <<setting, issued, calls>>

-----------------------------------------------------------------------------
(* Start-up: the constructor with its migrations, in one transaction;      *)
(* auto_migrate = FALSE only looks.                                        *)

\* migrate(): in version order.
ByVersion(migrations) ==
    LET place(m) == Cardinality({n \in migrations : n.version <= m.version})
    IN  [i \in 1..Cardinality(migrations) |-> CHOOSE m \in migrations : place(m) = i]

Applied(m) == \E r \in rows : r.key = LedgerRow(m).key

Edited(m) == Applied(m) /\ LedgerRow(m) \notin rows

\* Nobody repeats a start-up that was refused; every other failure may be.
Refused(t) == answer[t] # None /\ answer[t].op = "start" /\ answer[t].how = "refused"

Start(t, auto) ==
    /\ pc[t] = "idle" /\ state[Mine(t)] = "down"
    /\ \A u \in Threads : Mine(u) = Mine(t) => pc[u] = "idle" /\ ~Refused(u)
    /\ Go(t, "lock", [NoTx EXCEPT !.op = "start", !.auto = auto])
    /\ answer' = [answer EXCEPT ![t] = None]
    /\ UNCHANGED <<setting, database, state, owner, chain, calls, faults>>

\* Mutant: a migration is known by its version only.
PendingByVersion(t) ==
    LET todo == ByVersion({m \in Releases[Mine(t)] : ~Applied(m)}) IN
    /\ pc[t] = "pending"
    /\ IF todo # << >> /\ ~tx[t].auto
       THEN Finish(t, "refused")
       ELSE /\ Go(t, Then("start", todo), [tx[t] EXCEPT !.todo = [i \in DOMAIN todo |-> LedgerRow(todo[i])]])
            /\ UNCHANGED <<owner, chain, answer>>
    /\ UNCHANGED <<setting, database, state, calls, faults>>

Pending(t) ==
    LET todo == ByVersion({m \in Releases[Mine(t)] : ~Applied(m)}) IN
    /\ pc[t] = "pending"
    /\ IF (\E m \in Releases[Mine(t)] : Edited(m)) \/ (todo # << >> /\ ~tx[t].auto)
       THEN Finish(t, "refused")
       ELSE /\ Go(t, Then("start", todo), [tx[t] EXCEPT !.todo = [i \in DOMAIN todo |-> LedgerRow(todo[i])]])
            /\ UNCHANGED <<owner, chain, answer>>
    /\ UNCHANGED <<setting, database, state, calls, faults>>

-----------------------------------------------------------------------------
(* Faults. *)

\* Mutant: the transaction is left open, with its locks.
FailOpen(t) ==
    /\ pc[t] \in {"select", "insert", "head", "append", "commit"}
    /\ faults < workload.faults /\ faults' = faults + 1
    /\ pc' = [pc EXCEPT ![t] = "idle"]
    /\ UNCHANGED <<setting, database, owner, chain, tx, answer, calls, state>>

\* A statement or the commit fails and the transaction is rolled back. On
\* PostgreSQL the connection may be lost with it: lost during the commit, it
\* leaves the caller in doubt (Commit has the other case).
Fail(t) ==
    /\ pc[t] \in {"select", "insert", "head", "append", "commit"}
    /\ faults < workload.faults /\ faults' = faults + 1
    /\ \/ /\ Finish(t, "failed")
          /\ UNCHANGED state
       \/ /\ dialect = "postgres" /\ state[Mine(t)] = "up"
          /\ state' = [state EXCEPT ![Mine(t)] = "cut"]
          /\ Finish(t, IF pc[t] = "commit" THEN "in_doubt" ELSE "failed")
    /\ UNCHANGED <<setting, database, calls>>

\* A process dies; the database rolls its transaction back.
Crash(p) ==
    LET lost == {t \in Threads : Mine(t) = p} IN
    /\ state[p] # "down" /\ faults < workload.faults
    /\ faults' = faults + 1
    /\ state' = [state EXCEPT ![p] = "down"]
    /\ owner' = [owner EXCEPT ![p] = None]
    /\ chain' = IF chain \in lost THEN None ELSE chain
    /\ pc' = [t \in Threads |-> IF t \in lost THEN "idle" ELSE pc[t]]
    /\ tx' = [t \in Threads |-> IF t \in lost THEN NoTx ELSE tx[t]]
    /\ answer' = [t \in Threads |-> IF t \in lost THEN None ELSE answer[t]]
    /\ UNCHANGED <<setting, database, calls>>

Step(t) ==
    \/ Lock(t) \/ LockTimesOut(t) \/ NoConnection(t)
    \/ Select(t) \/ Insert(t) \/ Deadlock(t)
    \/ LockChain(t) \/ ReadHead(t) \/ AppendEntry(t) \/ Commit(t)
    \/ Pending(t) \/ Fail(t)

=============================================================================
