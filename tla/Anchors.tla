------------------------------- MODULE Anchors -------------------------------
(***************************************************************************)
(* Signed anchors of the audit chain (src/asas/store/anchor.py,            *)
(* Platform.anchor and verify_audit) over the transactions of the store,   *)
(* with the runbook that restores the database from a backup               *)
(* (docs/operations.md): files outside the database, created exclusively   *)
(* and then filled, one per position of the chain.                         *)
(***************************************************************************)
EXTENDS Store

CONSTANTS
    KeyOf       \* KeyOf[p]: the key process p signs and verifies with

VARIABLES
    files,      \* the sink: [seq, hash, key]; an empty file has hash None
    work,       \* work[t]: what an anchor call has read
    backup,     \* a backup of the database, or None
    lost        \* history: log entries a restore has removed

sink == <<files, work, backup, lost>>
allVars == <<vars, sink>>

\* The sets of rows that calls write: what was applied before, the batches of
\* a workload's requests, and any part of a release's migrations.
Ledgers == {w.ledger : w \in Workloads}

Written(w) == {Range(c.writes) : c \in w.requests}

Shipped(migrations) == {LedgerRow(m) : m \in migrations}

Upgrades(p) == {Shipped(migrations) : migrations \in SUBSET Releases[p]}

Batches ==
    UNION ({Ledgers} \cup {Written(w) : w \in Workloads} \cup {Upgrades(p) : p \in Processes})

AnchorsInit ==
    /\ Init
    /\ files = {} /\ backup = None /\ lost = {}
    /\ work = [t \in Threads |-> None]

Anchored(t, how) ==
    /\ pc' = [pc EXCEPT ![t] = "idle"]
    /\ work' = [work EXCEPT ![t] = None]
    /\ answer' = [answer EXCEPT ![t] = [op |-> tx[t].op, how |-> how, files |-> files]]
    /\ tx' = [tx EXCEPT ![t] = NoTx]

\* Neither takes the writer lock.
AnchorBegin(t, op) ==
    /\ pc[t] = "idle" /\ state[Mine(t)] # "down" /\ calls < workload.calls
    /\ [op |-> op, writes |-> << >>] \in workload.requests
    /\ calls' = calls + 1
    /\ Go(t, op, [NoTx EXCEPT !.op = op])
    /\ answer' = [answer EXCEPT ![t] = None]
    /\ UNCHANGED <<setting, database, state, owner, chain, faults, sink>>

\* Mutant: the position and its hash come from two reads.
AnchorHeadTwice(t) ==
    /\ pc[t] = "anchor" /\ log # {}
    /\ \/ /\ work[t] = None
          /\ work' = [work EXCEPT ![t] = [seq |-> Newest.seq, hash |-> None, key |-> KeyOf[Mine(t)]]]
          /\ UNCHANGED pc
       \/ /\ work[t] # None
          /\ work' = [work EXCEPT ![t].hash = Newest.hash]
          /\ pc' = [pc EXCEPT ![t] = "create"]
    /\ UNCHANGED <<setting, database, state, owner, chain, tx, answer, calls, faults, files, backup, lost>>

\* anchor_audit: the head of the chain, signed. An empty log has nothing to sign.
AnchorHead(t) ==
    /\ pc[t] = "anchor"
    /\ IF log = {} THEN Anchored(t, "nothing")
       ELSE /\ work' = [work EXCEPT ![t] = [seq |-> Newest.seq, hash |-> Newest.hash, key |-> KeyOf[Mine(t)]]]
            /\ pc' = [pc EXCEPT ![t] = "create"]
            /\ UNCHANGED <<tx, answer>>
    /\ UNCHANGED <<setting, database, state, owner, chain, calls, faults, files, backup, lost>>

\* open(path, "x"): a file that is there is read instead, and must agree.
CreateFile(t) ==
    LET there == {f \in files : f.seq = work[t].seq} IN
    /\ pc[t] = "create"
    /\ \/ /\ there = {}
          /\ files' = files \cup {[work[t] EXCEPT !.hash = None]}
          /\ pc' = [pc EXCEPT ![t] = "fill"]
          /\ UNCHANGED <<tx, answer, work>>
       \/ /\ \E f \in there :
               Anchored(t, IF f.hash = None THEN "unreadable"
                           ELSE IF f.hash = work[t].hash THEN "ok" ELSE "fork")
          /\ UNCHANGED files
    /\ UNCHANGED <<setting, database, state, owner, chain, calls, faults, backup, lost>>

FillFile(t) ==
    /\ pc[t] = "fill"
    /\ files' = {f \in files : f.seq # work[t].seq} \cup {work[t]}
    /\ Anchored(t, "ok")
    /\ UNCHANGED <<setting, database, state, owner, chain, calls, faults, backup, lost>>

\* verify_audit: all files are read first; an empty one cannot be parsed.
ReadFiles(t) ==
    /\ pc[t] = "verify"
    /\ IF \E f \in files : f.hash = None
       THEN Anchored(t, "unreadable")
       ELSE /\ work' = [work EXCEPT ![t] = files]
            /\ pc' = [pc EXCEPT ![t] = "report"]
            /\ UNCHANGED <<tx, answer>>
    /\ UNCHANGED <<setting, database, state, owner, chain, calls, faults, files, backup, lost>>

\* verify_audit_chain over the committed log.
ChainValid ==
    \A e \in log :
        LET before == {f \in log : f.seq < e.seq}
        IN  /\ e.prev = IF before = {} THEN << >> ELSE Latest(before).hash
            /\ e.hash = Append(e.prev, e.entry)

\* verify_with_anchors: another key, an entry that is gone, or another hash.
Problem(t, f) ==
    \/ f.key # KeyOf[Mine(t)]
    \/ ~ \E e \in log : e.seq = f.seq /\ e.hash = f.hash

Report(t) ==
    /\ pc[t] = "report"
    /\ pc' = [pc EXCEPT ![t] = "idle"]
    /\ work' = [work EXCEPT ![t] = None]
    /\ answer' = [answer EXCEPT ![t] =
         [op |-> "verify", files |-> work[t],
          how |-> IF ChainValid /\ \A f \in work[t] : ~Problem(t, f) THEN "ok" ELSE "problem"]]
    /\ tx' = [tx EXCEPT ![t] = NoTx]
    /\ UNCHANGED <<setting, database, state, owner, chain, calls, faults, files, backup, lost>>

\* The process dies with its calls; what it has not written stays unwritten.
CrashAll(p) ==
    /\ Crash(p)
    /\ work' = [t \in Threads |-> IF Mine(t) = p THEN None ELSE work[t]]
    /\ UNCHANGED <<files, backup, lost>>

\* What is committed between two calls: a transaction is in it or is not.
BackUp ==
    /\ workload.restores /\ backup = None /\ lost = {}
    /\ \A t \in Threads : pc[t] = "idle"
    /\ backup' = [rows |-> rows, log |-> log, issued |-> issued]
    /\ UNCHANGED <<vars, files, work, lost>>

\* Every process is stopped, the database goes back to its backup, and they
\* start again on it; their constructors find the ledger in the backup.
Restore ==
    /\ backup # None /\ \A t \in Threads : pc[t] = "idle"
    /\ rows' = backup.rows /\ log' = backup.log /\ issued' = backup.issued
    /\ state' = [p \in Processes |-> "up"]
    /\ answer' = [t \in Threads |-> None]
    /\ lost' = lost \cup (log \ backup.log)
    /\ backup' = None
    /\ UNCHANGED <<setting, owner, chain, pc, tx, calls, faults, files, work>>

AnchorStep(t) == AnchorHead(t) \/ CreateFile(t) \/ FillFile(t) \/ ReadFiles(t) \/ Report(t)

Next ==
    \/ \E t \in Threads :
         \/ /\ \/ \E c \in workload.requests : c.op \notin {"anchor", "verify"} /\ Begin(t, c)
               \/ \E auto \in BOOLEAN : Start(t, auto)
               \/ Step(t)
            /\ UNCHANGED sink
         \/ \E op \in {"anchor", "verify"} : AnchorBegin(t, op)
         \/ AnchorStep(t)
    \/ \E p \in Processes : CrashAll(p)
    \/ BackUp \/ Restore

\* A thread goes on while it can: the lock waits for calls that end, an INSERT
\* for a transaction that ends, and PostgreSQL resolves a circle of waits.
Forward(t) ==
    \/ /\ \/ Lock(t) \/ NoConnection(t) \/ Select(t) \/ Insert(t) \/ Deadlock(t)
          \/ LockChain(t) \/ ReadHead(t) \/ AppendEntry(t) \/ Commit(t) \/ Pending(t)
       /\ UNCHANGED sink
    \/ AnchorStep(t)

Spec == AnchorsInit /\ [][Next]_allVars

FairSpec == Spec /\ \A t \in Threads : WF_allVars(Forward(t))

-----------------------------------------------------------------------------
(* Properties. *)

\* Every variable has its type, no key has two rows, and locks are held by
\* threads that are inside a transaction.
TypeOK ==
    /\ \A r \in rows, q \in rows : r.key[1] \in Tables /\ (r.key = q.key => r = q)
    /\ \A e \in log, f \in log : e.seq = f.seq => e = f
    /\ \A e \in log : e.seq \in 1..workload.calls
    /\ state \in [Processes -> {"down", "up", "cut"}]
    /\ \A p \in Processes : owner[p] = None \/ (owner[p] \in Threads /\ Mine(owner[p]) = p)
    /\ chain \in Threads \cup {None}
    /\ \A t \in Threads : owner[Mine(t)] = t <=>
         pc[t] \in {"select", "insert", "commit", "chain", "head", "append", "pending"}
    /\ \A t \in Threads : owner[Mine(t)] # t => tx[t].staged = {} /\ tx[t].appended = {}
    /\ \A f \in files, g \in files : f.seq = g.seq => f = g

\* What a call was told stays true: a write that succeeded is stored as a
\* whole (put_artifact, ingest), one that was refused met another content
\* under one of its keys; the audit entry of a call that succeeded is in the log,
\* that of a call that failed is not - unless its connection was lost while it
\* committed, which leaves the caller in doubt -, whatever raced or was retried.
AnswersHold ==
    \A t \in Threads : answer[t] # None =>
        LET a == answer[t] IN
        CASE a.op = "put" /\ a.how = "ok" -> Range(a.writes) \subseteq rows
          [] a.op = "put" /\ a.how = "refused" ->
               \E w \in Range(a.writes), r \in rows \cup Range(a.writes) : w.key = r.key /\ w # r
          [] a.op = "cache" /\ a.how = "ok" ->
               \A w \in Range(a.writes) : \E r \in rows : r.key = w.key
          [] a.op = "audit" /\ a.how # "in_doubt" ->
               (a.how = "ok") <=> \E e \in log : e.entry = a.entry
          [] OTHER -> TRUE

\* A process that runs has found or applied every migration it ships, with
\* the statements it ships: two processes that start at once, or a release
\* whose migration was edited, do not get past the constructor otherwise.
RunningIsMigrated ==
    \A p \in Processes : state[p] # "down" =>
        \A m \in Releases[p] : LedgerRow(m) \in rows

\* Anchors and log tell the truth about each other: what is anchored has been
\* in the log at that position with that hash; a report without problems means
\* that no anchored entry has been lost to a restore, and a problem or a fork is
\* reported only when entries were lost or the anchor is signed with another key. Appends, crashes and concurrent anchoring raise no false alarm.
VerificationIsRight ==
    /\ \A f \in files : f.hash # None =>
         \E e \in log \cup lost : e.seq = f.seq /\ e.hash = f.hash
    /\ \A t \in Threads : answer[t] # None /\ answer[t].op \in {"verify", "anchor"} =>
         LET a == answer[t] IN
         /\ a.op = "verify" /\ a.how = "ok" =>
              \A f \in a.files, e \in lost : ~ (f.seq = e.seq /\ f.hash = e.hash)
         /\ a.how = "fork" => lost # {}
         /\ a.op = "verify" /\ a.how = "problem" =>
              lost # {} \/ \E f \in a.files : f.key # KeyOf[Mine(t)]

\* The log in the order of its positions, as the abstract store sees it.
UpTo(e) == {f \in log : f.seq <= e.seq}

Nth(n) == CHOOSE e \in log : Cardinality(UpTo(e)) = n

LogSeq == [n \in 1..Cardinality(log) |-> [entry |-> Nth(n).entry, prev |-> Nth(n).prev]]

Abstract == INSTANCE WriteOnce WITH Entries <- 1..Max({w.calls : w \in Workloads}), log <- LogSeq

\* The store is append-only and all-or-nothing for everyone above it, and the
\* audit log one linear chain, on both databases: transactions, retries, lost
\* connections, crashes and restores are invisible except as such a step.
StoreIsWriteOnce == Abstract!Spec

\* Every call ends: no writer keeps a lock or an open transaction that others
\* wait for, and no circle of waiting transactions stays.
CallsEnd == \A t \in Threads : pc[t] # "idle" ~> pc[t] = "idle"

=============================================================================
