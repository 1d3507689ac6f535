---------------------------- MODULE AnchorsProofs ----------------------------
(***************************************************************************)
(* Proofs about the store's transactions, its audit chain and the anchors  *)
(* of the chain, for any number of threads and processes on SQLite and on  *)
(* PostgreSQL, any calls, releases, faults and restores.                   *)
(***************************************************************************)
EXTENDS Anchors, Induction, FiniteSetTheorems, SequenceTheorems, TLAPS

-----------------------------------------------------------------------------
(* What holds between the steps. *)

\* The steps inside a transaction, and those of anchoring and verification.
TxSteps == {"select", "insert", "commit", "chain", "head", "append", "pending"}

AnchorSteps == {"anchor", "create", "fill", "verify", "report"}

\* Every row a call may write.
AllRows == UNION Batches

KeysDiffer(R, Q) == \A r \in R, q \in Q : r.key # q.key

KeysUnique(R) == \A r \in R, q \in R : r.key = q.key => r = q

\* A call is a record of the fields of NoTx.
IsTx(c) == c = [field \in DOMAIN NoTx |-> c[field]]

OpsAt(step) ==
    CASE step = "select" -> {"put"}
      [] step = "insert" -> {"put", "cache", "start"}
      [] step = "pending" -> {"start"}
      [] step \in {"chain", "head", "append"} -> {"audit"}
      [] step \in {"lock", "commit"} -> {"put", "cache", "start", "audit"}
      [] step \in {"anchor", "create", "fill"} -> {"anchor"}
      [] step \in {"verify", "report"} -> {"verify"}
      [] step = "idle" -> {None}

\* What a call is at a step, whatever the others do.
Shape(step, c) ==
    /\ step \in TxSteps \cup AnchorSteps \cup {"idle", "lock"}
    /\ IsTx(c) /\ c.op \in OpsAt(step) /\ (step = "idle" => c = NoTx)
    /\ c.writes \in Seq(AllRows) /\ c.todo \in Seq(AllRows)
    /\ c.staged \subseteq AllRows /\ KeysUnique(c.staged)
    /\ step \in {"select", "insert"} => c.todo # << >>
    /\ step = "commit" /\ c.op # "audit" => c.todo = << >>
    /\ step \notin {"select", "insert", "commit"} \/ c.op = "audit" => c.staged = {}
    /\ step \notin {"append", "commit"} \/ c.op # "audit" => c.appended = {}

\* Where the rows of a call are: stored, staged, or still to be written.
Accounted(p, step, c) ==
    /\ KeysDiffer(rows, c.staged)
    /\ step = "insert" => \A s \in c.staged : s.key # Head(c.todo).key
    /\ c.op \in {"put", "cache"} => Range(c.todo) \cup c.staged \subseteq Range(c.writes)
    /\ c.op = "put" => Range(c.writes) \subseteq rows \cup c.staged \cup Range(c.todo)
    /\ c.op = "cache" => \A w \in Range(c.writes) :
         w \in c.staged \cup Range(c.todo) \/ \E r \in rows : r.key = w.key
    /\ c.op \in {"cache", "start"} =>
         /\ \A i \in DOMAIN c.todo, j \in DOMAIN c.todo : c.todo[i].key = c.todo[j].key => i = j
         /\ KeysDiffer(c.staged, Range(c.todo))
    /\ step \in {"insert", "commit"} /\ c.op = "start" =>
         /\ \A m \in Releases[p] : LedgerRow(m) \in rows \cup c.staged \cup Range(c.todo)
         /\ c.staged \cup Range(c.todo) \subseteq {LedgerRow(m) : m \in Releases[p]}

\* The keyed tables and what is on its way to them.
RowsOK ==
    /\ rows \subseteq AllRows /\ KeysUnique(rows)
    /\ \A t \in Threads : Shape(pc[t], tx[t]) /\ Accounted(Mine(t), pc[t], tx[t])
    /\ \A t \in Threads, u \in Threads : t # u => KeysDiffer(tx[t].staged, tx[u].staged)

AtHead(step, c) == step \in {"head", "append", "commit"} /\ c.op = "audit"

LocksOK ==
    /\ pc = [t \in Threads |-> pc[t]] /\ tx = [t \in Threads |-> tx[t]]
    /\ answer = [t \in Threads |-> answer[t]] /\ work = [t \in Threads |-> work[t]]
    /\ workload \in Workloads /\ dialect \in {"sqlite", "postgres"}
    /\ state \in [Processes -> {"down", "up", "cut"}]
    /\ owner \in [Processes -> Threads \cup {None}] /\ chain \in Threads \cup {None}
    /\ \A p \in Processes : owner[p] # None => Mine(owner[p]) = p
    /\ \A t \in Threads : owner[Mine(t)] = t <=> pc[t] \in TxSteps
    /\ dialect = "sqlite" =>
         \A t \in Threads, u \in Threads : pc[t] \in TxSteps /\ pc[u] \in TxSteps => t = u
    /\ dialect = "postgres" => \A t \in Threads : AtHead(pc[t], tx[t]) => chain = t

\* Every process that runs, and the backup, have their migrations.
MigratedOK ==
    /\ workload.ledger \subseteq rows
    /\ backup # None => workload.ledger \subseteq backup.rows /\ workload.restores
    /\ RunningIsMigrated

\* The number of an audit call is its own, and so is that of an entry.
AuditCall(t) == pc[t] # "idle" /\ tx[t].op = "audit"

Told(t) == answer[t] # None /\ answer[t].op = "audit"

EntriesOK ==
    /\ calls \in 0..workload.calls
    /\ \A e \in log \cup lost : e.entry \in 1..calls
    /\ \A e \in log, f \in log : e.entry = f.entry => e = f
    /\ \A e \in log, f \in lost : e.entry # f.entry
    /\ \A t \in Threads : AuditCall(t) =>
         /\ tx[t].entry \in 1..calls
         /\ \A e \in log \cup lost : e.entry # tx[t].entry
         /\ \A u \in Threads : u # t /\ AuditCall(u) => tx[u].entry # tx[t].entry
         /\ \A u \in Threads : Told(u) => answer[u].entry # tx[t].entry
    /\ \A u \in Threads : Told(u) => answer[u].entry \in 1..calls

\* Audit calls that have not been given a position.
Unplaced == {t \in Threads : pc[t] \in {"lock", "chain", "head", "append"} /\ tx[t].op = "audit"}

IsEntry(e) ==
    /\ e.seq \in Nat \ {0} /\ e.prev \in Seq(Nat) /\ e.entry \in Nat
    /\ e.hash = Append(e.prev, e.entry)

\* e goes on the end of the log.
Follows(e) == IsEntry(e) /\ e.prev = HeadHash /\ e.seq <= issued /\ \A f \in log : f.seq < e.seq

\* What an audit call has made of the head of the chain.
InChain(step, c) ==
    c.op = "audit" =>
        /\ step = "append" => c.appended = {HeadHash}
        /\ step = "commit" => \E e : c.appended = {e} /\ Follows(e) /\ e.entry = c.entry

ChainOK ==
    /\ IsFiniteSet(log) /\ issued \in Nat
    /\ \A e \in log \cup lost : IsEntry(e)
    /\ \A e \in log, f \in log : e.seq = f.seq => e = f
    /\ \A e \in log : e.seq <= issued
    /\ issued + Cardinality(Unplaced) <= calls
    /\ \A t \in Threads : InChain(pc[t], tx[t])
    /\ ChainValid

\* A backup holds the first entries of the log.
BackupOK ==
    backup # None =>
        /\ backup.rows \subseteq rows /\ backup.log \subseteq log
        /\ \A e \in backup.log, f \in log \ backup.log : e.seq < f.seq
        /\ backup.issued \in 0..calls /\ \A e \in backup.log : e.seq <= backup.issued

\* A hash spells the entries up to its own.
Spelled == \A e \in log : e.hash = [i \in 1..Cardinality(UpTo(e)) |-> Nth(i).entry]

\* What is written in a file has been in the log.
Recorded(seq, hash) == \E e \in log \cup lost : e.seq = seq /\ e.hash = hash

FilesOK ==
    /\ \A f \in files, g \in files : f.seq = g.seq => f = g
    /\ \A f \in files : f.hash # None => Recorded(f.seq, f.hash)
    /\ \A t \in Threads : pc[t] \in {"create", "fill"} =>
         \E seq, hash, key :
            work[t] = [seq |-> seq, hash |-> hash, key |-> key] /\ Recorded(seq, hash)
    /\ \A t \in Threads : pc[t] = "report" => \A f \in work[t] : Recorded(f.seq, f.hash)

\* What a call writes is the batch of a request.
WritesOK == \A t \in Threads : tx[t].op \in {"put", "cache"} => Range(tx[t].writes) \in Batches

Inv ==
    /\ LocksOK /\ RowsOK /\ WritesOK /\ MigratedOK /\ EntriesOK /\ ChainOK /\ BackupOK /\ Spelled
    /\ FilesOK /\ AnswersHold /\ VerificationIsRight

-----------------------------------------------------------------------------
(* Facts about the helpers. *)

Same(c, d, changed) == IsTx(d) /\ \A field \in DOMAIN NoTx \ changed : d[field] = c[field]

LEMMA NoTxIsTx ==
    /\ IsTx(NoTx) /\ NoTx.op = None /\ NoTx.writes = << >> /\ NoTx.todo = << >>
    /\ NoTx.staged = {} /\ NoTx.appended = {}
  BY DEF IsTx, NoTx

LEMMA TodoIsSet ==
    ASSUME NEW c, IsTx(c), NEW x
    PROVE  LET d == [c EXCEPT !.todo = x] IN Same(c, d, {"todo"}) /\ d.todo = x
  BY DEF Same, IsTx, NoTx

LEMMA AppendedIsSet ==
    ASSUME NEW c, IsTx(c), NEW x
    PROVE  LET d == [c EXCEPT !.appended = x] IN Same(c, d, {"appended"}) /\ d.appended = x
  BY DEF Same, IsTx, NoTx

LEMMA StartIsSet ==
    ASSUME NEW op, NEW auto
    PROVE  /\ LET d == [NoTx EXCEPT !.op = op, !.auto = auto]
              IN  Same(NoTx, d, {"op", "auto"}) /\ d.op = op
           /\ LET d == [NoTx EXCEPT !.op = op] IN Same(NoTx, d, {"op"}) /\ d.op = op
  BY DEF Same, IsTx, NoTx

LEMMA SameFields ==
    ASSUME NEW c, NEW d
    PROVE  /\ Same(c, d, {"todo"}) => d.op = c.op /\ d.writes = c.writes /\ d.staged = c.staged
                                     /\ d.entry = c.entry /\ d.appended = c.appended
           /\ Same(c, d, {"todo", "staged"}) => d.op = c.op /\ d.writes = c.writes
                                     /\ d.entry = c.entry /\ d.appended = c.appended
           /\ Same(c, d, {"todo", "staged", "attempt"}) =>
                d.op = c.op /\ d.writes = c.writes /\ d.entry = c.entry /\ d.appended = c.appended
           /\ Same(c, d, {"appended"}) => d.op = c.op /\ d.writes = c.writes /\ d.staged = c.staged
                                     /\ d.entry = c.entry /\ d.todo = c.todo
  BY DEF Same, NoTx

LEMMA HeadTail ==
    ASSUME NEW S, NEW s \in Seq(S), s # << >>
    PROVE  /\ Head(s) \in S /\ Tail(s) \in Seq(S) /\ Head(s) = s[1] /\ 1 \in DOMAIN s
           /\ Range(s) = {Head(s)} \cup Range(Tail(s))
           /\ \A i \in DOMAIN Tail(s) : Tail(s)[i] = s[i + 1] /\ i + 1 \in DOMAIN s /\ i \in Nat \ {0}
  <1>1. Len(s) \in Nat \ {0} /\ DOMAIN s = 1..Len(s) /\ s \in [1..Len(s) -> S]
    OBVIOUS
  <1>2. /\ Tail(s) \in Seq(S) /\ DOMAIN Tail(s) = 1..(Len(s) - 1) /\ Head(s) = s[1]
        /\ \A i \in 1..(Len(s) - 1) : Tail(s)[i] = s[i + 1]
    BY <1>1
  <1>3. Range(s) = {Head(s)} \cup Range(Tail(s))
    <2>1. ASSUME NEW i \in DOMAIN s PROVE s[i] \in {Head(s)} \cup Range(Tail(s))
      <3>1. CASE i = 1
        BY <1>2, <3>1
      <3>2. CASE i # 1
        <4>1. i - 1 \in DOMAIN Tail(s) /\ Tail(s)[i - 1] = s[i]
          BY <1>1, <1>2, <3>2
        <4> QED BY <4>1 DEF Range
      <3> QED BY <3>1, <3>2
    <2>2. ASSUME NEW i \in DOMAIN Tail(s) PROVE Tail(s)[i] \in Range(s)
      <3>1. i + 1 \in DOMAIN s /\ Tail(s)[i] = s[i + 1]
        BY <1>1, <1>2
      <3> QED BY <3>1 DEF Range
    <2>3. Head(s) \in Range(s)
      BY <1>1, <1>2 DEF Range
    <2> QED BY <2>1, <2>2, <2>3 DEF Range
  <1> QED BY <1>1, <1>2, <1>3

LEMMA EmptyRange == Range(<< >>) = {} /\ \A S : << >> \in Seq(S)
  BY DEF Range

LEMMA LatestIsLast ==
    ASSUME NEW S, S # {}, NEW bound \in Nat, \A e \in S : e.seq \in Nat /\ e.seq <= bound
    PROVE  Latest(S) \in S /\ \A f \in S : f.seq <= Latest(S).seq
  <1> DEFINE Gaps == {bound - e.seq : e \in S}
  <1>1. Gaps \subseteq Nat /\ Gaps # {}
    OBVIOUS
  <1>2. PICK gap \in Gaps : \A g \in Gaps : gap <= g
    BY <1>1, LeastNumber
  <1>3. PICK e \in S : gap = bound - e.seq
    OBVIOUS
  <1>4. \A f \in S : f.seq <= e.seq
    <2> TAKE f \in S
    <2>1. bound - e.seq <= bound - f.seq
      BY <1>2, <1>3
    <2> QED BY <2>1
  <1> QED BY <1>4 DEF Latest

Below(S, number, x) == {y \in S : number[y] <= number[x]}

Place(S, number, x) == Cardinality(Below(S, number, x))

\* Elements that are ordered by a number of their own have each a place.
LEMMA PlacesAreTaken ==
    ASSUME NEW S, IsFiniteSet(S), NEW number \in [S -> Int],
           \A x \in S, y \in S : number[x] = number[y] => x = y
    PROVE  /\ Cardinality(S) \in Nat
           /\ \A x \in S : Place(S, number, x) \in 1..Cardinality(S)
           /\ \A x \in S, y \in S :
                Place(S, number, x) =
                Place(S, number, y) => x = y
           /\ \A i \in 1..Cardinality(S) :
                \E x \in S : Place(S, number, x) = i
  <1> DEFINE upTo(x) == {y \in S : number[y] <= number[x]}
             place == [x \in S |-> Cardinality(upTo(x))]
             places == 1..Cardinality(S)
  <1>1. Cardinality(S) \in Nat
    BY FS_CardinalityType
  <1>2. ASSUME NEW x \in S
        PROVE  /\ upTo(x) \in SUBSET S /\ x \in upTo(x) /\ IsFiniteSet(upTo(x))
               /\ Cardinality(upTo(x)) \in places
    <2>1. upTo(x) \in SUBSET S /\ x \in upTo(x)
      OBVIOUS
    <2>2. IsFiniteSet(upTo(x)) /\ Cardinality(upTo(x)) <= Cardinality(S)
      BY <2>1, FS_Subset
    <2>3. Cardinality(upTo(x)) \in Nat /\ Cardinality(upTo(x)) # 0
      BY <2>1, <2>2, FS_CardinalityType, FS_EmptySet
    <2> QED BY <1>1, <2>1, <2>2, <2>3
  <1>3. ASSUME NEW x \in S, NEW y \in S, number[x] < number[y]
        PROVE  Cardinality(upTo(x)) # Cardinality(upTo(y))
    <2>1. upTo(x) \in SUBSET upTo(y) /\ y \notin upTo(x) /\ y \in upTo(y)
      BY <1>3
    <2> QED BY <1>2, <2>1, FS_Subset
  <1>4. ASSUME NEW x \in S, NEW y \in S, Cardinality(upTo(x)) = Cardinality(upTo(y)) PROVE x = y
    <2>1. number[x] \in Int /\ number[y] \in Int
      OBVIOUS
    <2>2. ~ (number[x] < number[y]) /\ ~ (number[y] < number[x])
      BY <1>3, <1>4
    <2> QED BY <2>1, <2>2
  <1>5. place \in Injection(S, places)
    BY <1>2, <1>4 DEF Injection, IsInjective
  <1>6. IsFiniteSet(places) /\ Cardinality(places) = Cardinality(S)
    BY <1>1, FS_Interval
  <1>7. place \in Surjection(S, places)
    <2> HIDE DEF place, places
    <2> QED BY <1>5, <1>6, FS_Injection
  <1>8. \A i \in places : \E x \in S : Cardinality(upTo(x)) = i
    BY <1>7 DEF Surjection
  <1>9. \A x \in S : Place(S, number, x) = Cardinality(upTo(x))
    BY DEF Place, Below
  <1> HIDE DEF upTo
  <1> QED BY <1>1, <1>2, <1>4, <1>8, <1>9

LEMMA ByVersionSorts ==
    ASSUME NEW p \in Processes, NEW S \in SUBSET Releases[p]
    PROVE  /\ ByVersion(S) \in Seq(S) /\ Range(ByVersion(S)) = S
           /\ \A i \in DOMAIN ByVersion(S), j \in DOMAIN ByVersion(S) :
                ByVersion(S)[i] = ByVersion(S)[j] => i = j
  <1> DEFINE number == [m \in S |-> m.version]
             place(m) == Cardinality({n \in S : n.version <= m.version})
             size == Cardinality(S)
             sorted == [i \in 1..size |-> CHOOSE m \in S : place(m) = i]
  <1>1. IsFiniteSet(S) /\ size \in Nat
    BY StoreAssumption, FS_Subset, FS_CardinalityType
  <1>2. number \in [S -> Int] /\ \A x \in S, y \in S : number[x] = number[y] => x = y
    BY StoreAssumption
  <1>3. \A m \in S : Place(S, number, m) = place(m)
    <2> TAKE m \in S
    <2>1. Below(S, number, m) = {n \in S : n.version <= m.version}
      BY DEF Below
    <2> QED BY <2>1, Zenon DEF Place
  <1>4. /\ \A i \in 1..Cardinality(S) : \E m \in S : Place(S, number, m) = i
        /\ \A m \in S : Place(S, number, m) \in 1..Cardinality(S)
        /\ \A x \in S, y \in S : Place(S, number, x) = Place(S, number, y) => x = y
    <2> HIDE DEF number
    <2> QED BY <1>1, <1>2, PlacesAreTaken
  <1> HIDE DEF place
  <1>5. /\ \A i \in 1..size : \E m \in S : place(m) = i
        /\ \A m \in S : place(m) \in 1..size
        /\ \A x \in S, y \in S : place(x) = place(y) => x = y
    BY <1>3, <1>4
  <1> HIDE DEF place, size
  <1>6. \A i \in 1..size : sorted[i] \in S /\ place(sorted[i]) = i
    BY <1>5
  <1>7. \A m \in S : m = sorted[place(m)]
    BY <1>5, <1>6
  <1>8. sorted \in Seq(S) /\ DOMAIN sorted = 1..size
    BY <1>1, <1>6
  <1>9. Range(sorted) = S
    BY <1>5, <1>6, <1>7, <1>8 DEF Range
  <1>10. sorted = ByVersion(S)
    BY DEF ByVersion, place, size
  <1> HIDE DEF sorted
  <1> QED BY <1>6, <1>8, <1>9, <1>10

\* The rows that calls write are known, and so are those of the migrations.
LEMMA RowsAreKnown ==
    /\ \A r \in AllRows : r.key[1] \in Tables
    /\ \A w \in Workloads : w.ledger \subseteq AllRows /\ KeysUnique(w.ledger)
    /\ \A w \in Workloads : \A c \in w.requests : c.writes \in Seq(AllRows)
    /\ \A p \in Processes : \A m \in Releases[p] : LedgerRow(m) \in AllRows
    /\ \A w \in Workloads : w.ledger \in Batches /\ \A c \in w.requests : Range(c.writes) \in Batches
    /\ \A p \in Processes : Shipped(Releases[p]) \in Batches /\ {} \in Batches
  <1>1. \A w \in Workloads : w.ledger \in Batches
    <2> TAKE w \in Workloads
    <2>1. w.ledger \in Ledgers
      BY DEF Ledgers
    <2> QED BY <2>1 DEF Batches
  <1>2. \A w \in Workloads : \A c \in w.requests : Range(c.writes) \in Batches
    <2> TAKE w \in Workloads
    <2> TAKE c \in w.requests
    <2>1. Range(c.writes) \in Written(w)
      BY DEF Written
    <2> QED BY <2>1 DEF Batches
  <1>3. \A p \in Processes : \A M \in SUBSET Releases[p] : Shipped(M) \in Batches
    <2> TAKE p \in Processes
    <2> TAKE M \in SUBSET Releases[p]
    <2>1. Shipped(M) \in Upgrades(p)
      BY DEF Upgrades
    <2> QED BY <2>1 DEF Batches
  <1>4. \A p \in Processes : \A m \in Releases[p] : LedgerRow(m) \in AllRows
    <2> TAKE p \in Processes
    <2> TAKE m \in Releases[p]
    <2>1. Shipped({m}) \in Batches
      BY <1>3
    <2> QED BY <2>1 DEF AllRows, Shipped
  <1>5. \A w \in Workloads : w.ledger \subseteq AllRows /\ KeysUnique(w.ledger)
    <2> TAKE w \in Workloads
    <2>1. w.ledger \subseteq AllRows
      BY <1>1, Zenon DEF AllRows
    <2>2. \A r \in w.ledger, q \in w.ledger : r.key = q.key => r = q
      BY StoreAssumption
    <2> QED BY <2>1, <2>2 DEF KeysUnique
  <1>6. \A w \in Workloads : \A c \in w.requests : c.writes \in Seq(AllRows)
    <2> TAKE w \in Workloads
    <2> TAKE c \in w.requests
    <2>1. c.writes \in Seq(Range(c.writes))
      BY StoreAssumption
    <2>2. Range(c.writes) \subseteq AllRows
      BY <1>2, Zenon DEF AllRows
    <2> QED BY <2>1, <2>2
  <1>7. ASSUME NEW r \in AllRows PROVE r.key[1] \in Tables
    <2>1. PICK B \in Batches : r \in B
      BY Zenon DEF AllRows
    <2>2. \/ \E w \in Workloads : B = w.ledger
          \/ \E w \in Workloads : B \in Written(w)
          \/ \E p \in Processes : B \in Upgrades(p)
      BY <2>1 DEF Batches, Ledgers
    <2>3. CASE \E w \in Workloads : B = w.ledger
      BY <2>1, <2>3, StoreAssumption
    <2>4. CASE \E w \in Workloads : B \in Written(w)
      BY <2>1, <2>4, StoreAssumption DEF Written
    <2>5. CASE \E p \in Processes : B \in Upgrades(p)
      BY <2>1, <2>5 DEF Upgrades, Shipped, LedgerRow, Tables
    <2> QED BY <2>2, <2>3, <2>4, <2>5
  <1>8. ASSUME NEW p \in Processes PROVE {} \in Batches
    <2>1. Shipped({}) = {}
      BY DEF Shipped
    <2> QED BY <1>3, <2>1
  <1> QED BY <1>1, <1>2, <1>3, <1>4, <1>5, <1>6, <1>7, <1>8

LEMMA LedgerRowsDiffer ==
    ASSUME NEW p \in Processes, NEW m \in Releases[p], NEW n \in Releases[p],
           LedgerRow(m).key = LedgerRow(n).key
    PROVE  m = n
  <1>1. m.version = n.version
    BY DEF LedgerRow
  <1> QED BY <1>1, StoreAssumption

-----------------------------------------------------------------------------
(* The rows of a call. *)

\* How the first row of todo may leave it: it is there already, or is staged.
Leaves(step, c, d) ==
    \/ d.staged = c.staged /\ c.op = "put" /\ Head(c.todo) \in rows \cup c.staged
    \/ d.staged = c.staged /\ c.op = "cache" /\ \E r \in rows : r.key = Head(c.todo).key
    \/ step = "insert" /\ d.staged = c.staged \cup {Head(c.todo)} /\ KeysDiffer(rows, {Head(c.todo)})

LEMMA RowLeaves ==
    ASSUME NEW p, NEW step \in {"select", "insert"}, NEW c, NEW d, Shape(step, c), Accounted(p, step, c),
           Same(c, d, {"todo", "staged"}), d.todo = Tail(c.todo), Leaves(step, c, d)
    PROVE  Shape(Then(c.op, d.todo), d) /\ Accounted(p, Then(c.op, d.todo), d)
  <1> DEFINE w == Head(c.todo)
             next == Then(c.op, d.todo)
  <1>1. /\ d.op = c.op /\ d.writes = c.writes /\ d.appended = c.appended /\ IsTx(d)
        /\ c.todo \in Seq(AllRows) /\ c.todo # << >> /\ c.op \in {"put", "cache", "start"}
    BY SameFields DEF Shape, OpsAt, Same
  <1>2. /\ w \in AllRows /\ d.todo \in Seq(AllRows) /\ w = c.todo[1] /\ 1 \in DOMAIN c.todo
        /\ Range(c.todo) = {w} \cup Range(d.todo)
        /\ \A i \in DOMAIN d.todo :
             d.todo[i] = c.todo[i + 1] /\ i + 1 \in DOMAIN c.todo /\ i \in Nat \ {0}
    BY <1>1, HeadTail
  <1>3. /\ next \in {"select", "insert", "commit"} /\ (next = "commit" <=> d.todo = << >>)
        /\ next = "select" => c.op = "put"
        /\ next = "insert" => c.op # "put"
        /\ d.op \in OpsAt(next)
    BY <1>1 DEF Then, OpsAt
  <1>4. c.staged \subseteq AllRows /\ KeysUnique(c.staged) /\ KeysDiffer(rows, c.staged)
    BY DEF Shape, Accounted
  <1>5. step = "insert" => \A s \in c.staged : s.key # w.key
    BY DEF Accounted
  <1>6. d.staged \subseteq AllRows /\ KeysUnique(d.staged) /\ KeysDiffer(rows, d.staged)
    BY <1>2, <1>4, <1>5 DEF Leaves, KeysUnique, KeysDiffer
  <1>7. d.appended = {}
    BY <1>1 DEF Shape
  <1>8. Shape(next, d)
    <2> HIDE DEF next
    <2> QED BY <1>1, <1>2, <1>3, <1>6, <1>7 DEF Shape, TxSteps
  <1>9. c.op \in {"cache", "start"} =>
         /\ \A i \in DOMAIN d.todo, j \in DOMAIN d.todo : d.todo[i].key = d.todo[j].key => i = j
         /\ \A r \in Range(d.todo) : r.key # w.key
         /\ KeysDiffer(d.staged, Range(d.todo))
    <2> SUFFICES ASSUME c.op \in {"cache", "start"}
                 PROVE  /\ \A i \in DOMAIN d.todo, j \in DOMAIN d.todo :
                             d.todo[i].key = d.todo[j].key => i = j
                        /\ \A r \in Range(d.todo) : r.key # w.key
                        /\ KeysDiffer(d.staged, Range(d.todo))
      OBVIOUS
    <2>1. /\ \A i \in DOMAIN c.todo, j \in DOMAIN c.todo : c.todo[i].key = c.todo[j].key => i = j
          /\ KeysDiffer(c.staged, Range(c.todo))
      BY DEF Accounted
    <2>2. \A i \in DOMAIN d.todo, j \in DOMAIN d.todo : d.todo[i].key = d.todo[j].key => i = j
      <3> TAKE i \in DOMAIN d.todo, j \in DOMAIN d.todo
      <3> HAVE d.todo[i].key = d.todo[j].key
      <3>1. i + 1 = j + 1
        BY <1>2, <2>1
      <3> QED BY <1>2, <3>1
    <2>3. ASSUME NEW r \in Range(d.todo) PROVE r.key # w.key
      <3>1. PICK i \in DOMAIN d.todo : r = d.todo[i]
        BY DEF Range
      <3>2. i + 1 # 1
        BY <1>2
      <3> QED BY <1>2, <2>1, <3>1, <3>2
    <2>4. KeysDiffer(d.staged, Range(d.todo))
      BY <1>2, <2>1, <2>3 DEF Leaves, KeysDiffer
    <2> QED BY <2>2, <2>3, <2>4
  <1>10. next = "insert" => \A s \in d.staged : s.key # Head(d.todo).key
    <2> SUFFICES ASSUME next = "insert" PROVE \A s \in d.staged : s.key # Head(d.todo).key
      OBVIOUS
    <2>1. d.todo # << >>
      BY <1>3
    <2>2. Head(d.todo) \in Range(d.todo)
      <3>1. d.todo \in Seq(AllRows)
        BY <1>2
      <3>2. Range(d.todo) = {Head(d.todo)} \cup Range(Tail(d.todo))
        BY <2>1, <3>1, HeadTail
      <3> QED BY <3>2
    <2> QED BY <1>1, <1>3, <1>9, <2>2 DEF KeysDiffer
  <1>11. /\ c.op \in {"put", "cache"} => Range(d.todo) \cup d.staged \subseteq Range(d.writes)
         /\ c.op = "put" => Range(d.writes) \subseteq rows \cup d.staged \cup Range(d.todo)
         /\ c.op = "cache" => \A v \in Range(d.writes) :
              v \in d.staged \cup Range(d.todo) \/ \E r \in rows : r.key = v.key
         /\ c.op = "start" =>
              /\ \A m \in Releases[p] : LedgerRow(m) \in rows \cup d.staged \cup Range(d.todo)
              /\ d.staged \cup Range(d.todo) \subseteq {LedgerRow(m) : m \in Releases[p]}
    <2> DEFINE ledger == {LedgerRow(m) : m \in Releases[p]}
    <2>1. c.op \in {"put", "cache"} => Range(d.todo) \cup d.staged \subseteq Range(d.writes)
      BY <1>1, <1>2 DEF Accounted, Leaves
    <2>2. c.op = "put" => Range(d.writes) \subseteq rows \cup d.staged \cup Range(d.todo)
      BY <1>1, <1>2 DEF Accounted, Leaves
    <2>3. c.op = "cache" => \A v \in Range(d.writes) :
              v \in d.staged \cup Range(d.todo) \/ \E r \in rows : r.key = v.key
      BY <1>1, <1>2 DEF Accounted, Leaves
    <2>4. c.op = "start" =>
            /\ step = "insert"
            /\ \A m \in Releases[p] : LedgerRow(m) \in rows \cup c.staged \cup Range(c.todo)
            /\ c.staged \cup Range(c.todo) \subseteq ledger
      BY Zenon DEF Accounted, Shape, OpsAt
    <2> HIDE DEF ledger
    <2>5. c.op = "start" =>
              /\ \A m \in Releases[p] : LedgerRow(m) \in rows \cup d.staged \cup Range(d.todo)
              /\ d.staged \cup Range(d.todo) \subseteq ledger
      BY <1>2, <2>4 DEF Leaves
    <2> USE DEF ledger
    <2> QED BY <2>1, <2>2, <2>3, <2>5
  <1> HIDE DEF next
  <1>12. Accounted(p, next, d)
    BY <1>1, <1>6, <1>9, <1>10, <1>11 DEF Accounted
  <1> QED BY <1>8, <1>12 DEF next

-----------------------------------------------------------------------------
(* The kinds of steps a call takes. *)

Apart(t, R) == \A u \in Threads \ {t} : KeysDiffer(R, tx[u].staged)

\* t goes on with its call.
Goes(t, step, c) ==
    /\ Go(t, step, c) /\ Shape(step, c) /\ Accounted(Mine(t), step, c) /\ Apart(t, c.staged)
    /\ c.op = tx[t].op /\ c.writes = tx[t].writes /\ c.entry = tx[t].entry
    /\ UNCHANGED <<setting, rows, log, state, answer, calls, sink>>

\* It enters its transaction, finds or stages rows, or rolls back to try again.
Enters(t, step) ==
    /\ Goes(t, step, tx[t]) /\ pc[t] = "lock" /\ step \in {"select", "insert", "commit", "chain", "pending"}
    /\ owner[Mine(t)] = None /\ (dialect = "sqlite" => \A p \in Processes : owner[p] = None)
    /\ owner' = [owner EXCEPT ![Mine(t)] = t]
    /\ tx[t].op = "audit" <=> step = "chain"
    /\ UNCHANGED <<issued, chain>>

Works(t, step, c) ==
    /\ Goes(t, step, c) /\ pc[t] \in TxSteps /\ step \in {"select", "insert", "commit"}
    /\ c.op # "audit"
    /\ UNCHANGED <<issued, owner, chain>>

Retries(t, c) ==
    /\ Goes(t, "lock", c) /\ pc[t] \in TxSteps /\ c.op = "put" /\ Release(t)
    /\ UNCHANGED issued

\* The chain is locked, its head read and an entry put behind it.
Chains(t, step, c) ==
    /\ Goes(t, step, c) /\ UNCHANGED owner /\ c.op = "audit"
    /\ \/ /\ pc[t] = "chain" /\ step = "head" /\ UNCHANGED issued
          /\ IF dialect = "postgres" THEN chain = None /\ chain' = t ELSE UNCHANGED chain
       \/ /\ pc[t] = "head" /\ step = "append" /\ UNCHANGED <<issued, chain>>
          /\ c.appended = {HeadHash}
       \/ /\ pc[t] = "append" /\ step = "commit" /\ UNCHANGED chain
          /\ issued' = IF dialect = "postgres" THEN issued + 1 ELSE IF log = {} THEN 1 ELSE Newest.seq + 1
          /\ \E prev \in {CHOOSE h \in tx[t].appended : TRUE} :
               c.appended = {[seq |-> issued', entry |-> tx[t].entry, prev |-> prev,
                              hash |-> Append(prev, tx[t].entry)]}

\* It fails; a refusal has met another content.
Fails(t, how) ==
    /\ pc[t] \in TxSteps \cup {"lock"} /\ how \in {"failed", "in_doubt", "refused", "duplicate"}
    /\ Finish(t, how)
    /\ how = "refused" /\ tx[t].op = "put" =>
         \E w \in Range(tx[t].writes), r \in rows \cup Range(tx[t].writes) : w.key = r.key /\ w # r
    /\ state' = state \/ (state[Mine(t)] = "up" /\ state' = [state EXCEPT ![Mine(t)] = "cut"])
    /\ UNCHANGED <<setting, database, calls, sink>>

LEMMA LockKind ==
    ASSUME LocksOK, RowsOK, NEW t \in Threads, Lock(t), UNCHANGED sink
    PROVE  \E step : Enters(t, step)
  <1> DEFINE c == tx[t]
             step == CASE c.op = "start" -> "pending" [] c.op = "audit" -> "chain"
                       [] OTHER -> Then(c.op, c.todo)
  <1>1. pc[t] = "lock" /\ Go(t, step, c)
    BY DEF Lock
  <1>2. Shape("lock", c) /\ Accounted(Mine(t), "lock", c)
    BY <1>1 DEF RowsOK
  <1>3. c.op \in {"put", "cache", "start", "audit"} /\ c.staged = {} /\ c.appended = {}
    BY <1>2 DEF Shape, OpsAt
  <1>4. /\ step \in {"select", "insert", "commit", "chain", "pending"} /\ c.op \in OpsAt(step)
        /\ c.op = "audit" <=> step = "chain"
        /\ c.op = "start" => step = "pending"
        /\ step \in {"select", "insert"} => c.todo # << >>
        /\ step = "commit" => c.todo = << >>
    BY <1>3 DEF Then, OpsAt
  <1> HIDE DEF step
  <1>5. Shape(step, c)
    BY <1>2, <1>3, <1>4 DEF Shape, TxSteps
  <1>6. Accounted(Mine(t), step, c)
    BY <1>2, <1>3, <1>4 DEF Accounted, KeysDiffer
  <1>7. Apart(t, c.staged)
    BY <1>3 DEF Apart, KeysDiffer
  <1> HIDE DEF c
  <1>8. UNCHANGED <<setting, rows, log, issued, chain, state, answer, calls, sink>>
    BY DEF Lock, database
  <1>9. /\ owner[Mine(t)] = None /\ (dialect = "sqlite" => \A p \in Processes : owner[p] = None)
        /\ owner' = [owner EXCEPT ![Mine(t)] = t]
    BY DEF Lock
  <1> QED BY <1>1, <1>4, <1>5, <1>6, <1>7, <1>8, <1>9 DEF Enters, Goes, c

\* A row that is there, or that is staged now.
LEMMA RowKind ==
    ASSUME LocksOK, RowsOK, NEW t \in Threads, pc[t] \in {"select", "insert"}, NEW d,
           Same(tx[t], d, {"todo", "staged"}), d.todo = Tail(tx[t].todo), Leaves(pc[t], tx[t], d),
           d.staged # tx[t].staged => Apart(t, {Head(tx[t].todo)}),
           Go(t, Then(tx[t].op, d.todo), d),
           UNCHANGED <<setting, database, state, owner, chain, answer, calls, sink>>
    PROVE  \E step : Works(t, step, d)
  <1> DEFINE step == Then(tx[t].op, d.todo)
  <1>1. Shape(pc[t], tx[t]) /\ Accounted(Mine(t), pc[t], tx[t])
    BY DEF RowsOK
  <1>2. Shape(step, d) /\ Accounted(Mine(t), step, d)
    BY <1>1, RowLeaves
  <1>3. d.op = tx[t].op /\ d.writes = tx[t].writes /\ d.entry = tx[t].entry /\ d.op # "audit"
    BY <1>1, SameFields DEF Shape, OpsAt
  <1>4. Apart(t, tx[t].staged)
    BY DEF RowsOK, Apart
  <1>5. Apart(t, d.staged)
    BY <1>4 DEF Leaves, Apart, KeysDiffer
  <1>6. step \in {"select", "insert", "commit"}
    BY DEF Then
  <1>7. pc[t] \in TxSteps
    BY DEF TxSteps
  <1> HIDE DEF step
  <1> QED BY <1>2, <1>3, <1>5, <1>6, <1>7 DEF Works, Goes, database, step

LEMMA SelectKind ==
    ASSUME LocksOK, RowsOK, NEW t \in Threads, Select(t), UNCHANGED sink
    PROVE  (\E step, c : Works(t, step, c)) \/ \E how : Fails(t, how)
  <1> DEFINE c == tx[t]
             w == Head(c.todo)
  <1>1. /\ pc[t] = "select" /\ UNCHANGED <<setting, database, state, calls, sink>>
        /\ \/ Seen(t, w.key) = {} /\ Go(t, "insert", c) /\ UNCHANGED <<owner, chain, answer>>
           \/ Seen(t, w.key) = {w} /\ Skip(t) /\ UNCHANGED <<owner, chain, answer>>
           \/ Seen(t, w.key) \notin {{}, {w}} /\ Finish(t, "refused")
    BY DEF Select
  <1>2. Shape("select", c) /\ Accounted(Mine(t), "select", c) /\ IsTx(c)
    BY <1>1 DEF RowsOK, Shape
  <1>3. /\ c.op = "put" /\ c.todo # << >> /\ c.todo \in Seq(AllRows)
        /\ w \in Range(c.todo) /\ Range(c.todo) \cup c.staged \subseteq Range(c.writes)
    <2>1. c.op = "put" /\ c.todo # << >> /\ c.todo \in Seq(AllRows)
      BY <1>2 DEF Shape, OpsAt
    <2>2. Range(c.todo) = {w} \cup Range(Tail(c.todo))
      BY <2>1, HeadTail
    <2> QED BY <1>2, <2>1, <2>2 DEF Accounted
  <1>4. ASSUME Seen(t, w.key) = {}, Go(t, "insert", c), UNCHANGED <<owner, chain, answer>>
        PROVE  Works(t, "insert", c)
    <2>1. Shape("insert", c)
      BY <1>2, <1>3 DEF Shape, OpsAt, TxSteps
    <2>2. \A s \in c.staged : s.key # w.key
      BY <1>4 DEF Seen
    <2>3. Accounted(Mine(t), "insert", c)
      BY <1>2, <1>3, <2>2 DEF Accounted
    <2>4. Apart(t, c.staged)
      BY DEF RowsOK, Apart
    <2> QED BY <1>1, <1>3, <1>4, <2>1, <2>3, <2>4 DEF Works, Goes, database, TxSteps
  <1>5. ASSUME Seen(t, w.key) = {w}, Skip(t), UNCHANGED <<owner, chain, answer>>
        PROVE  \E step, d : Works(t, step, d)
    <2> DEFINE d == [c EXCEPT !.todo = Tail(c.todo)]
    <2>1. Same(c, d, {"todo"}) /\ d.todo = Tail(c.todo)
      BY <1>2, TodoIsSet
    <2>2. Go(t, Then(c.op, d.todo), d)
      BY <1>5, <2>1 DEF Skip
    <2>3. w \in rows \cup c.staged
      BY <1>5 DEF Seen
    <2> HIDE DEF d
    <2>4. Same(c, d, {"todo", "staged"}) /\ d.staged = c.staged
      BY <2>1, SameFields DEF Same
    <2>5. Leaves(pc[t], c, d)
      BY <1>3, <2>3, <2>4 DEF Leaves
    <2> QED BY <1>1, <1>5, <2>1, <2>2, <2>4, <2>5, RowKind
  <1>6. ASSUME Seen(t, w.key) \notin {{}, {w}}, Finish(t, "refused") PROVE Fails(t, "refused")
    <2>1. PICK r \in rows \cup c.staged : r.key = w.key /\ r # w
      BY <1>6 DEF Seen
    <2>2. w \in Range(c.writes) /\ r \in rows \cup Range(c.writes)
      BY <1>3, <2>1
    <2> QED BY <1>1, <1>6, <2>1, <2>2 DEF Fails, TxSteps
  <1> QED BY <1>1, <1>4, <1>5, <1>6

LEMMA InsertKind ==
    ASSUME LocksOK, RowsOK, NEW t \in Threads, Insert(t), UNCHANGED sink
    PROVE  \/ \E step, c : Works(t, step, c)
           \/ \E c : Retries(t, c)
           \/ \E how : Fails(t, how)
  <1> DEFINE c == tx[t]
             w == Head(c.todo)
             taken == \E r \in rows : r.key = w.key
  <1>1. /\ pc[t] = "insert" /\ Blockers(t) = {} /\ UNCHANGED <<setting, database, state, calls, sink>>
    BY DEF Insert
  <1>2. Shape("insert", c) /\ Accounted(Mine(t), "insert", c) /\ IsTx(c)
    BY <1>1 DEF RowsOK, Shape
  <1>3. c.op \in {"put", "cache", "start"} /\ c.writes \in Seq(AllRows)
    BY <1>2 DEF Shape, OpsAt
  <1>4. CASE taken /\ c.op = "cache"
    <2> DEFINE d == [c EXCEPT !.todo = Tail(c.todo)]
    <2>1. Same(c, d, {"todo"}) /\ d.todo = Tail(c.todo)
      BY <1>2, TodoIsSet
    <2>2. Go(t, Then(c.op, d.todo), d) /\ UNCHANGED <<owner, chain, answer>>
      BY <1>4, <2>1 DEF Insert, Skip
    <2> HIDE DEF d
    <2>3. Same(c, d, {"todo", "staged"}) /\ d.staged = c.staged
      BY <2>1, SameFields DEF Same
    <2>4. Leaves(pc[t], c, d)
      BY <1>4, <2>3 DEF Leaves
    <2> QED BY <1>1, <2>1, <2>2, <2>3, <2>4, RowKind
  <1>5. CASE taken /\ c.op # "cache"
    <2>1. Duplicate(t)
      BY <1>5 DEF Insert
    <2>2. CASE c.op = "put" /\ c.attempt = 1
      <3> DEFINE d == [c EXCEPT !.todo = c.writes, !.staged = {}, !.attempt = 2]
      <3>1. Same(c, d, {"todo", "staged", "attempt"}) /\ d.todo = c.writes /\ d.staged = {}
        <4> DEFINE x == c.writes
        <4> HIDE DEF c, x
        <4>1. LET e == [c EXCEPT !.todo = x, !.staged = {}, !.attempt = 2]
              IN  Same(c, e, {"todo", "staged", "attempt"}) /\ e.todo = x /\ e.staged = {}
          BY <1>2 DEF Same, IsTx, NoTx
        <4> QED BY <4>1, Zenon DEF x
      <3>2. Go(t, "lock", d) /\ Release(t) /\ UNCHANGED answer
        BY <2>1, <2>2 DEF Duplicate
      <3> HIDE DEF d
      <3>3. d.op = "put" /\ d.writes = c.writes /\ d.entry = c.entry /\ d.appended = c.appended /\ IsTx(d)
        BY <2>2, <3>1, SameFields DEF Same
      <3>4. Shape("lock", d)
        BY <1>2, <1>3, <3>1, <3>3 DEF Shape, OpsAt, KeysUnique
      <3>5. Accounted(Mine(t), "lock", d) /\ Apart(t, d.staged)
        BY <3>1, <3>3 DEF Accounted, Apart, KeysDiffer
      <3>6. UNCHANGED <<setting, rows, log, state, answer, calls, sink>> /\ UNCHANGED issued
        BY <1>1, <3>2 DEF database
      <3>7. d.op = c.op /\ pc[t] \in TxSteps
        BY <1>1, <2>2, <3>3 DEF TxSteps
      <3>8. Goes(t, "lock", d)
        BY <3>2, <3>3, <3>4, <3>5, <3>6, <3>7, Zenon DEF Goes
      <3>9. Retries(t, d)
        BY <3>2, <3>3, <3>6, <3>7, <3>8, Zenon DEF Retries
      <3> QED BY <3>9
    <2>3. CASE ~(c.op = "put" /\ c.attempt = 1)
      <3>1. Finish(t, "duplicate")
        BY <2>1, <2>3 DEF Duplicate
      <3> QED BY <1>1, <3>1 DEF Fails, TxSteps
    <2> QED BY <2>2, <2>3
  <1>6. CASE ~taken
    <2> DEFINE d == [c EXCEPT !.todo = Tail(c.todo), !.staged = c.staged \cup {w}]
    <2>1. Same(c, d, {"todo", "staged"}) /\ d.todo = Tail(c.todo) /\ d.staged = c.staged \cup {w}
      <3> DEFINE x == Tail(c.todo)
                 y == c.staged \cup {w}
      <3> HIDE DEF c, x, y
      <3>1. LET e == [c EXCEPT !.todo = x, !.staged = y]
            IN  Same(c, e, {"todo", "staged"}) /\ e.todo = x /\ e.staged = y
        BY <1>2 DEF Same, IsTx, NoTx
      <3> QED BY <3>1, Zenon DEF x, y, w
    <2>2. Go(t, Then(c.op, d.todo), d) /\ UNCHANGED <<owner, chain, answer>>
      BY <1>6, <2>1 DEF Insert
    <2> HIDE DEF d
    <2>3. Leaves(pc[t], c, d)
      BY <1>1, <1>6, <2>1 DEF Leaves, KeysDiffer
    <2>4. Apart(t, {w})
      BY <1>1 DEF Blockers, Apart, KeysDiffer
    <2> QED BY <1>1, <2>1, <2>2, <2>3, <2>4, RowKind
  <1> QED BY <1>4, <1>5, <1>6

LEMMA PendingKind ==
    ASSUME LocksOK, RowsOK, NEW t \in Threads, Pending(t), UNCHANGED sink
    PROVE  (\E step, c : Works(t, step, c)) \/ \E how : Fails(t, how)
  <1> DEFINE c == tx[t]
             p == Mine(t)
             S == {m \in Releases[p] : ~Applied(m)}
             todo == ByVersion(S)
             left == [i \in DOMAIN todo |-> LedgerRow(todo[i])]
             d == [c EXCEPT !.todo = left]
  <1>1. /\ pc[t] = "pending" /\ UNCHANGED <<setting, database, state, calls, sink>>
        /\ \/ Finish(t, "refused")
           \/ /\ ~ \E m \in Releases[p] : Edited(m)
              /\ Go(t, Then("start", todo), d) /\ UNCHANGED <<owner, chain, answer>>
    BY DEF Pending
  <1>2. /\ Shape("pending", c) /\ IsTx(c) /\ c.op = "start" /\ c.staged = {} /\ c.appended = {}
        /\ p \in Processes
    BY <1>1, StoreAssumption DEF RowsOK, Shape, OpsAt, Mine
  <1>3. ASSUME ~ \E m \in Releases[p] : Edited(m), Go(t, Then("start", todo), d),
               UNCHANGED <<owner, chain, answer>>
        PROVE  \E step : Works(t, step, d)
    <2>1. /\ todo \in Seq(S) /\ Range(todo) = S
          /\ \A i \in DOMAIN todo, j \in DOMAIN todo : todo[i] = todo[j] => i = j
      BY <1>2, ByVersionSorts
    <2> HIDE DEF todo
    <2>2. \A i \in DOMAIN todo : todo[i] \in S
      BY <2>1 DEF Range
    <2>3. /\ DOMAIN left = DOMAIN todo /\ Range(left) = {LedgerRow(m) : m \in S}
          /\ left = << >> <=> todo = << >>
      BY <2>1 DEF Range
    <2>4. left \in Seq(AllRows)
      BY <1>2, <2>1, <2>2, RowsAreKnown
    <2>5. \A i \in DOMAIN left, j \in DOMAIN left : left[i].key = left[j].key => i = j
      BY <1>2, <2>1, <2>2, LedgerRowsDiffer
    <2>6. \A m \in Releases[p] : LedgerRow(m) \in rows \cup Range(left)
      BY <1>3, <2>3 DEF Edited
    <2>7. Same(c, d, {"todo"}) /\ d.todo = left
      BY <1>2, TodoIsSet
    <2> HIDE DEF d, left
    <2>8. /\ d.op = "start" /\ d.writes = c.writes /\ d.entry = c.entry /\ d.staged = {}
          /\ d.appended = {} /\ IsTx(d)
      BY <1>2, <2>7, SameFields DEF Same
    <2> DEFINE step == Then("start", todo)
    <2>9. /\ step \in {"insert", "commit"}
          /\ step = "insert" <=> left # << >>
      BY <2>3 DEF Then
    <2> HIDE DEF step
    <2>10. Shape(step, d)
      BY <1>2, <2>4, <2>7, <2>8, <2>9 DEF Shape, OpsAt, TxSteps, KeysUnique
    <2>11. Range(left) \subseteq {LedgerRow(m) : m \in Releases[p]}
      BY <2>3
    <2>12. Accounted(p, step, d)
      BY <2>5, <2>6, <2>7, <2>8, <2>11 DEF Accounted, KeysDiffer
    <2>13. Apart(t, d.staged)
      BY <2>8 DEF Apart, KeysDiffer
    <2>14. Go(t, step, d)
      BY <1>3 DEF step
    <2> QED BY <1>1, <1>2, <1>3, <2>8, <2>9, <2>10, <2>12, <2>13, <2>14
         DEF Works, Goes, database, TxSteps
  <1>4. ASSUME Finish(t, "refused") PROVE Fails(t, "refused")
    BY <1>1, <1>2, <1>4 DEF Fails, TxSteps
  <1> HIDE DEF d
  <1> QED BY <1>1, <1>3, <1>4

LEMMA ChainKind ==
    ASSUME LocksOK, RowsOK, NEW t \in Threads, LockChain(t) \/ ReadHead(t) \/ AppendEntry(t), UNCHANGED sink
    PROVE  \E step, c : Chains(t, step, c)
  <1> DEFINE c == tx[t]
  <1>1. Shape(pc[t], c) /\ Accounted(Mine(t), pc[t], c) /\ IsTx(c) /\ pc[t] \in {"chain", "head", "append"}
    BY DEF RowsOK, Shape, LockChain, ReadHead, AppendEntry
  <1>2. c.op = "audit" /\ c.staged = {}
    BY <1>1 DEF Shape, OpsAt
  <1>3. Apart(t, c.staged)
    BY <1>2 DEF Apart, KeysDiffer
  <1>4. CASE LockChain(t)
    <2>1. Shape("head", c) /\ Accounted(Mine(t), "head", c)
      BY <1>1, <1>2, <1>4 DEF LockChain, Shape, OpsAt, TxSteps, Accounted
    <2> QED BY <1>2, <1>3, <1>4, <2>1 DEF LockChain, Chains, Goes, database
  <1>5. ASSUME NEW step \in {"append", "commit"}, NEW x, Go(t, step, [c EXCEPT !.appended = x]),
               UNCHANGED <<setting, rows, log, state, owner, answer, calls, sink>>
        PROVE  \E d : Goes(t, step, d) /\ d.op = "audit" /\ d.appended = x
    <2> DEFINE d == [c EXCEPT !.appended = x]
    <2>1. Same(c, d, {"appended"}) /\ d.appended = x
      BY <1>1, AppendedIsSet
    <2> HIDE DEF d
    <2>2. /\ d.op = "audit" /\ d.writes = c.writes /\ d.entry = c.entry /\ d.staged = {}
          /\ d.todo = c.todo /\ IsTx(d)
      BY <1>2, <2>1, SameFields DEF Same
    <2>3. Shape(step, d)
      BY <1>1, <1>2, <2>2 DEF Shape, OpsAt, TxSteps
    <2>4. Accounted(Mine(t), step, d) /\ Apart(t, d.staged)
      BY <1>2, <1>3, <2>2 DEF Accounted, KeysDiffer
    <2>5. Go(t, step, d)
      BY <1>5 DEF d
    <2> QED BY <1>2, <1>5, <2>1, <2>2, <2>3, <2>4, <2>5 DEF Goes
  <1>6. CASE ReadHead(t)
    <2>1. /\ pc[t] = "head" /\ Go(t, "append", [c EXCEPT !.appended = {HeadHash}])
          /\ UNCHANGED <<setting, rows, log, issued, state, owner, chain, answer, calls, sink>>
      BY <1>6 DEF ReadHead, database
    <2>2. PICK x : x = {HeadHash}
      OBVIOUS
    <2>3. PICK d : Goes(t, "append", d) /\ d.op = "audit" /\ d.appended = x
      BY <1>5, <2>1, <2>2
    <2>4. Chains(t, "append", d)
      BY <2>1, <2>2, <2>3 DEF Chains
    <2> QED BY <2>4
  <1>7. CASE AppendEntry(t)
    <2> DEFINE prev == CHOOSE h \in c.appended : TRUE
               seq == IF dialect = "postgres" THEN issued + 1 ELSE IF log = {} THEN 1 ELSE Newest.seq + 1
               e == [seq |-> seq, entry |-> c.entry, prev |-> prev, hash |-> Append(prev, c.entry)]
    <2>1. /\ pc[t] = "append" /\ issued' = seq /\ Go(t, "commit", [c EXCEPT !.appended = {e}])
          /\ UNCHANGED <<setting, rows, log, state, owner, chain, answer, calls, sink>>
      BY <1>7 DEF AppendEntry
    <2>2. PICK x : x = {e}
      OBVIOUS
    <2>3. PICK d : Goes(t, "commit", d) /\ d.op = "audit" /\ d.appended = x
      BY <1>5, <2>1, <2>2
    <2>4. e = [seq |-> issued', entry |-> c.entry, prev |-> prev, hash |-> Append(prev, c.entry)]
      BY <2>1
    <2>5. Chains(t, "commit", d)
      BY <2>1, <2>2, <2>3, <2>4 DEF Chains
    <2> QED BY <2>5
  <1> QED BY <1>4, <1>6, <1>7

LEMMA FailKind ==
    ASSUME LocksOK, RowsOK, NEW t \in Threads,
           LockTimesOut(t) \/ NoConnection(t) \/ Deadlock(t) \/ Fail(t), UNCHANGED sink
    PROVE  \E how : Fails(t, how)
  <1>1. CASE LockTimesOut(t)
    BY <1>1 DEF LockTimesOut, Fails
  <1>2. CASE NoConnection(t)
    BY <1>2 DEF NoConnection, Fails
  <1>3. CASE Deadlock(t)
    <2>1. PICK v \in Threads : Blockers(t) # {}
      BY <1>3 DEF Deadlock
    <2>2. pc[t] = "insert"
      BY <2>1 DEF Blockers
    <2> QED BY <1>3, <2>2 DEF Deadlock, Fails, TxSteps
  <1>4. CASE Fail(t)
    <2>1. \/ Finish(t, "failed") /\ state' = state
          \/ /\ state[Mine(t)] = "up" /\ state' = [state EXCEPT ![Mine(t)] = "cut"]
             /\ Finish(t, IF pc[t] = "commit" THEN "in_doubt" ELSE "failed")
      BY <1>4 DEF Fail
    <2>2. PICK how \in {"failed", "in_doubt"} :
            /\ Finish(t, how)
            /\ state' = state \/ (state[Mine(t)] = "up" /\ state' = [state EXCEPT ![Mine(t)] = "cut"])
      BY <2>1
    <2>3. pc[t] \in TxSteps /\ UNCHANGED <<setting, database, calls, sink>>
      BY <1>4 DEF Fail, TxSteps
    <2>4. Fails(t, how)
      BY <2>2, <2>3 DEF Fails
    <2> QED BY <2>4
  <1> QED BY <1>1, <1>2, <1>3, <1>4

\* A step inside a call is one of these, or commits.
Inside(t) ==
    \/ \E step : Enters(t, step)
    \/ \E step, c : Works(t, step, c)
    \/ \E c : Retries(t, c)
    \/ \E step, c : Chains(t, step, c)
    \/ \E how : Fails(t, how)

LEMMA StepKind ==
    ASSUME LocksOK, RowsOK, NEW t \in Threads, Step(t), UNCHANGED sink
    PROVE  Inside(t) \/ Commit(t)
  BY LockKind, SelectKind, InsertKind, PendingKind, ChainKind, FailKind, Zenon DEF Step, Inside

-----------------------------------------------------------------------------
(* Who moves, and which locks it takes and gives back. *)

\* Only t has moved.
Moves(t) ==
    /\ pc' = [u \in Threads |-> pc'[u]] /\ tx' = [u \in Threads |-> tx'[u]]
    /\ answer' = [u \in Threads |-> answer'[u]] /\ work' = [u \in Threads |-> work'[u]]
    /\ \A u \in Threads \ {t} :
         pc'[u] = pc[u] /\ tx'[u] = tx[u] /\ answer'[u] = answer[u] /\ work'[u] = work[u]

LEMMA GoMoves ==
    ASSUME LocksOK, NEW t \in Threads, NEW step, NEW c, Go(t, step, c),
           answer' = [answer EXCEPT ![t] = answer'[t]], work' = [work EXCEPT ![t] = work'[t]]
    PROVE  Moves(t) /\ pc'[t] = step /\ tx'[t] = c
  BY DEF Moves, Go, LocksOK

LEMMA StaysSame ==
    ASSUME LocksOK, NEW t \in Threads
    PROVE  /\ answer' = answer => answer' = [answer EXCEPT ![t] = answer'[t]]
           /\ work' = work => work' = [work EXCEPT ![t] = work'[t]]
           /\ \A a : answer' = [answer EXCEPT ![t] = a] =>
                answer'[t] = a /\ answer' = [answer EXCEPT ![t] = answer'[t]]
           /\ \A a : work' = [work EXCEPT ![t] = a] =>
                work'[t] = a /\ work' = [work EXCEPT ![t] = work'[t]]
  BY DEF LocksOK

LEMMA GoesMoves ==
    ASSUME LocksOK, NEW t \in Threads, NEW step, NEW c, Goes(t, step, c)
    PROVE  Moves(t) /\ pc'[t] = step /\ tx'[t] = c
  <1>1. Go(t, step, c) /\ answer' = answer /\ work' = work
    BY DEF Goes, sink
  <1> QED BY <1>1, StaysSame, GoMoves

Outcome(t, how) ==
    [op |-> tx[t].op, writes |-> tx[t].writes, entry |-> tx[t].entry, how |-> how]

LEMMA OutcomeParts ==
    ASSUME NEW t \in Threads
    PROVE  \A how : /\ Outcome(t, how).op = tx[t].op /\ Outcome(t, how).writes = tx[t].writes
                   /\ Outcome(t, how).entry = tx[t].entry /\ Outcome(t, how).how = how
  BY DEF Outcome

LEMMA FinishMoves ==
    ASSUME LocksOK, NEW t \in Threads, NEW how, Finish(t, how), UNCHANGED work
    PROVE  /\ Moves(t) /\ pc'[t] = "idle" /\ tx'[t] = NoTx /\ Release(t)
           /\ answer'[t] = Outcome(t, how)
  <1>1. Go(t, "idle", NoTx) /\ answer' = [answer EXCEPT ![t] = Outcome(t, how)] /\ Release(t)
    BY DEF Finish, Outcome
  <1>2. answer'[t] = Outcome(t, how) /\ answer' = [answer EXCEPT ![t] = answer'[t]]
    BY <1>1, StaysSame
  <1>3. work' = [work EXCEPT ![t] = work'[t]]
    BY StaysSame
  <1>4. Moves(t) /\ pc'[t] = "idle" /\ tx'[t] = NoTx
    BY <1>1, <1>2, <1>3, GoMoves
  <1> QED BY <1>1, <1>2, <1>4

LEMMA AnchoredMoves ==
    ASSUME LocksOK, NEW t \in Threads, NEW how, Anchored(t, how)
    PROVE  /\ Moves(t) /\ pc'[t] = "idle" /\ tx'[t] = NoTx
           /\ answer'[t] = [op |-> tx[t].op, how |-> how, files |-> files]
  <1> DEFINE a == [op |-> tx[t].op, how |-> how, files |-> files]
  <1>1. Go(t, "idle", NoTx) /\ answer' = [answer EXCEPT ![t] = a] /\ work' = [work EXCEPT ![t] = None]
    BY DEF Anchored, Go
  <1> HIDE DEF a
  <1>2. answer'[t] = a /\ answer' = [answer EXCEPT ![t] = answer'[t]]
    BY <1>1, StaysSame
  <1>3. work' = [work EXCEPT ![t] = work'[t]]
    BY <1>1, StaysSame
  <1> USE DEF a
  <1> QED BY <1>1, <1>2, <1>3, GoMoves

\* A step that leaves the locks alone, but for the chain's.
LEMMA LocksStay ==
    ASSUME LocksOK, NEW t \in Threads, Moves(t), UNCHANGED <<setting, owner>>,
           state' \in [Processes -> {"down", "up", "cut"}],
           pc[t] \in TxSteps <=> pc'[t] \in TxSteps,
           \/ UNCHANGED chain
           \/ dialect = "postgres" /\ chain = None /\ chain' = t,
           AtHead(pc'[t], tx'[t]) => AtHead(pc[t], tx[t]) \/ chain' = t \/ dialect = "sqlite"
    PROVE  LocksOK'
  <1>1. \A u \in Threads : pc'[u] \in TxSteps <=> pc[u] \in TxSteps
    BY DEF Moves
  <1>2. \A u \in Threads : owner'[Mine(u)] = u <=> pc'[u] \in TxSteps
    BY <1>1 DEF LocksOK
  <1>3. dialect' = "sqlite" =>
         \A u \in Threads, v \in Threads : pc'[u] \in TxSteps /\ pc'[v] \in TxSteps => u = v
    BY <1>1 DEF LocksOK, setting
  <1>4. dialect' = "postgres" => \A u \in Threads : AtHead(pc'[u], tx'[u]) => chain' = u
    <2> SUFFICES ASSUME dialect = "postgres", NEW u \in Threads, AtHead(pc'[u], tx'[u])
                 PROVE  chain' = u
      BY DEF setting
    <2>1. CASE u = t
      <3>1. AtHead(pc[t], tx[t]) => chain = t
        BY DEF LocksOK
      <3> QED BY <2>1, <3>1, StoreAssumption DEF setting
    <2>2. CASE u # t
      <3>1. AtHead(pc[u], tx[u])
        BY <2>2 DEF Moves
      <3>2. chain = u
        BY <3>1 DEF LocksOK
      <3> QED BY <3>2, StoreAssumption
    <2> QED BY <2>1, <2>2
  <1>5. chain' \in Threads \cup {None}
    BY DEF LocksOK
  <1> QED BY <1>2, <1>3, <1>4, <1>5 DEF LocksOK, setting, Moves

LEMMA LocksAreTaken ==
    ASSUME LocksOK, NEW t \in Threads, NEW step, Enters(t, step)
    PROVE  LocksOK'
  <1>1. Moves(t) /\ pc'[t] = step /\ tx'[t] = tx[t]
    BY GoesMoves DEF Enters
  <1>2. /\ pc[t] = "lock" /\ step \in TxSteps /\ ~AtHead(step, tx[t])
        /\ owner[Mine(t)] = None /\ (dialect = "sqlite" => \A p \in Processes : owner[p] = None)
        /\ owner' = [owner EXCEPT ![Mine(t)] = t]
        /\ UNCHANGED <<setting, state, chain>>
    BY DEF Enters, TxSteps, AtHead, Goes
  <1>3. Mine(t) \in Processes /\ \A u \in Threads : Mine(u) \in Processes
    BY StoreAssumption DEF Mine
  <1>4. /\ owner' \in [Processes -> Threads \cup {None}] /\ owner'[Mine(t)] = t
        /\ \A p \in Processes \ {Mine(t)} : owner'[p] = owner[p]
    BY <1>2, <1>3 DEF LocksOK
  <1>5. \A u \in Threads \ {t} : Mine(u) = Mine(t) => pc[u] \notin TxSteps
    BY <1>2, <1>3, StoreAssumption DEF LocksOK
  <1>6. \A u \in Threads : owner'[Mine(u)] = u <=> pc'[u] \in TxSteps
    BY <1>1, <1>2, <1>3, <1>4, <1>5 DEF LocksOK, Moves
  <1>7. dialect = "sqlite" => \A u \in Threads \ {t} : pc[u] \notin TxSteps
    BY <1>2, <1>3, StoreAssumption DEF LocksOK
  <1>8. dialect = "sqlite" =>
         \A u \in Threads, v \in Threads : pc'[u] \in TxSteps /\ pc'[v] \in TxSteps => u = v
    BY <1>1, <1>7 DEF Moves
  <1>9. dialect = "postgres" => \A u \in Threads : AtHead(pc'[u], tx'[u]) => chain = u
    <2> SUFFICES ASSUME dialect = "postgres", NEW u \in Threads, AtHead(pc'[u], tx'[u]) PROVE chain = u
      OBVIOUS
    <2>1. u # t
      BY <1>1, <1>2
    <2>2. AtHead(pc[u], tx[u])
      BY <1>1, <2>1 DEF Moves
    <2> QED BY <2>2 DEF LocksOK
  <1>10. \A p \in Processes : owner'[p] # None => Mine(owner'[p]) = p
    BY <1>4 DEF LocksOK
  <1> QED BY <1>1, <1>2, <1>4, <1>6, <1>8, <1>9, <1>10 DEF LocksOK, Moves, setting

LEMMA LocksAreReleased ==
    ASSUME LocksOK, NEW t \in Threads, Moves(t), Release(t), pc'[t] \in {"idle", "lock"},
           UNCHANGED setting, state' \in [Processes -> {"down", "up", "cut"}]
    PROVE  LocksOK'
  <1>1. pc'[t] \notin TxSteps /\ ~AtHead(pc'[t], tx'[t])
    BY DEF TxSteps, AtHead
  <1>2. Mine(t) \in Processes /\ \A u \in Threads : Mine(u) \in Processes
    BY StoreAssumption DEF Mine
  <1>3. /\ owner' \in [Processes -> Threads \cup {None}] /\ owner'[Mine(t)] # t
        /\ \A u \in Threads \ {t} : \A p \in Processes : owner'[p] = u <=> owner[p] = u
        /\ \A p \in Processes : owner'[p] # None => owner'[p] = owner[p]
    BY <1>2, StoreAssumption DEF LocksOK, Release
  <1>4. /\ chain' \in Threads \cup {None}
        /\ \A u \in Threads \ {t} : chain = u => chain' = u
    BY DEF LocksOK, Release
  <1>5. \A u \in Threads : owner'[Mine(u)] = u <=> pc'[u] \in TxSteps
    BY <1>1, <1>2, <1>3 DEF LocksOK, Moves
  <1>6. dialect = "sqlite" =>
         \A u \in Threads, v \in Threads : pc'[u] \in TxSteps /\ pc'[v] \in TxSteps => u = v
    BY <1>1 DEF Moves, LocksOK
  <1>7. dialect = "postgres" => \A u \in Threads : AtHead(pc'[u], tx'[u]) => chain' = u
    <2> SUFFICES ASSUME dialect = "postgres", NEW u \in Threads, AtHead(pc'[u], tx'[u]) PROVE chain' = u
      OBVIOUS
    <2>1. u # t /\ AtHead(pc[u], tx[u])
      BY <1>1 DEF Moves
    <2> QED BY <1>4, <2>1 DEF LocksOK
  <1> QED BY <1>3, <1>4, <1>5, <1>6, <1>7 DEF LocksOK, Moves, setting

-----------------------------------------------------------------------------
(* Calls begin, and anchors are written and verified, outside transactions. *)

Outside(t) ==
    /\ pc[t] \notin TxSteps /\ pc'[t] \notin TxSteps /\ Moves(t)
    /\ Shape(pc'[t], tx'[t]) /\ Accounted(Mine(t), pc'[t], tx'[t]) /\ tx'[t].staged = {}
    /\ UNCHANGED <<setting, database, state, owner, chain, backup, lost>>

LEMMA AccountedAtRest ==
    ASSUME NEW p, NEW step, NEW c, c.staged = {}, step \notin {"insert", "commit"},
           c.op \in {"anchor", "verify", "audit"} \/ (c.writes = << >> /\ c.todo = << >>)
    PROVE  Accounted(p, step, c)
  BY EmptyRange DEF Accounted, KeysDiffer

LEMMA Resting == Shape("idle", NoTx) /\ \A p : Accounted(p, "idle", NoTx)
  <1>1. Shape("idle", NoTx)
    BY NoTxIsTx, EmptyRange DEF Shape, OpsAt, KeysUnique
  <1> QED BY <1>1, NoTxIsTx, AccountedAtRest

LEMMA BeginOutside ==
    ASSUME LocksOK, NEW t \in Threads, NEW c \in workload.requests, c.op \notin {"anchor", "verify"},
           Begin(t, c), UNCHANGED sink
    PROVE  /\ Outside(t) /\ pc'[t] = "lock" /\ answer'[t] = None /\ pc[t] = "idle"
           /\ tx'[t].op = c.op /\ tx'[t].writes = c.writes
           /\ (c.op = "audit" => tx'[t].entry = calls + 1)
  <1> DEFINE entry == IF c.op = "audit" THEN calls + 1 ELSE None
             d == [NoTx EXCEPT !.op = c.op, !.writes = c.writes, !.todo = c.writes, !.entry = entry]
  <1>1. /\ pc[t] = "idle" /\ Go(t, "lock", d) /\ answer' = [answer EXCEPT ![t] = None] /\ work' = work
        /\ UNCHANGED <<setting, database, state, owner, chain, backup, lost>>
    BY DEF Begin, sink
  <1>2. /\ IsTx(d) /\ d.op = c.op /\ d.writes = c.writes /\ d.todo = c.writes /\ d.entry = entry
        /\ d.staged = {} /\ d.appended = {}
    BY DEF IsTx, NoTx
  <1> HIDE DEF d
  <1>3. Moves(t) /\ pc'[t] = "lock" /\ tx'[t] = d /\ answer'[t] = None
    <2>1. answer'[t] = None /\ answer' = [answer EXCEPT ![t] = answer'[t]]
      BY <1>1, StaysSame
    <2>2. work' = [work EXCEPT ![t] = work'[t]]
      BY <1>1, StaysSame
    <2> QED BY <1>1, <2>1, <2>2, GoMoves
  <1>4. workload \in Workloads
    BY DEF LocksOK
  <1>5. /\ c.op \in {"put", "cache", "audit"} /\ c.writes \in Seq(AllRows)
        /\ c.op = "cache" => Len(c.writes) = 1
    BY <1>4, StoreAssumption, RowsAreKnown
  <1>6. Shape("lock", d)
    BY <1>2, <1>5 DEF Shape, OpsAt, KeysUnique
  <1>7. Accounted(Mine(t), "lock", d)
    <2>1. c.op = "cache" => \A i \in DOMAIN d.todo, j \in DOMAIN d.todo : i = j
      BY <1>2, <1>5
    <2> QED BY <1>2, <1>5, <2>1 DEF Accounted, KeysDiffer
  <1>8. pc[t] \notin TxSteps /\ pc'[t] \notin TxSteps
    BY <1>1, <1>3 DEF TxSteps
  <1> QED BY <1>1, <1>2, <1>3, <1>6, <1>7, <1>8 DEF Outside

LEMMA StartOutside ==
    ASSUME LocksOK, NEW t \in Threads, NEW auto, Start(t, auto), UNCHANGED sink
    PROVE  /\ Outside(t) /\ pc'[t] = "lock" /\ answer'[t] = None /\ pc[t] = "idle"
           /\ tx'[t].op = "start"
  <1> DEFINE d == [NoTx EXCEPT !.op = "start", !.auto = auto]
  <1>1. /\ pc[t] = "idle" /\ Go(t, "lock", d) /\ answer' = [answer EXCEPT ![t] = None] /\ work' = work
        /\ UNCHANGED <<setting, database, state, owner, chain, backup, lost>>
    BY DEF Start, sink
  <1>2. IsTx(d) /\ d.op = "start" /\ d.writes = << >> /\ d.todo = << >> /\ d.staged = {} /\ d.appended = {}
    BY StartIsSet, NoTxIsTx DEF Same, NoTx
  <1> HIDE DEF d
  <1>3. Moves(t) /\ pc'[t] = "lock" /\ tx'[t] = d /\ answer'[t] = None
    <2>1. answer'[t] = None /\ answer' = [answer EXCEPT ![t] = answer'[t]]
      BY <1>1, StaysSame
    <2>2. work' = [work EXCEPT ![t] = work'[t]]
      BY <1>1, StaysSame
    <2> QED BY <1>1, <2>1, <2>2, GoMoves
  <1>4. Shape("lock", d)
    BY <1>2, EmptyRange DEF Shape, OpsAt, KeysUnique
  <1>5. Accounted(Mine(t), "lock", d)
    BY <1>2, AccountedAtRest
  <1>6. pc[t] \notin TxSteps /\ pc'[t] \notin TxSteps
    BY <1>1, <1>3 DEF TxSteps
  <1> QED BY <1>1, <1>2, <1>3, <1>4, <1>5, <1>6 DEF Outside

LEMMA AnchorBeginOutside ==
    ASSUME LocksOK, NEW t \in Threads, NEW op \in {"anchor", "verify"}, AnchorBegin(t, op)
    PROVE  Outside(t) /\ pc'[t] = op /\ answer'[t] = None /\ pc[t] = "idle" /\ tx'[t].op = op
  <1> DEFINE d == [NoTx EXCEPT !.op = op]
  <1>1. /\ pc[t] = "idle" /\ Go(t, op, d) /\ answer' = [answer EXCEPT ![t] = None] /\ work' = work
        /\ UNCHANGED <<setting, database, state, owner, chain, backup, lost>>
    BY DEF AnchorBegin, sink
  <1>2. IsTx(d) /\ d.op = op /\ d.writes = << >> /\ d.todo = << >> /\ d.staged = {} /\ d.appended = {}
    BY StartIsSet, NoTxIsTx DEF Same, NoTx
  <1> HIDE DEF d
  <1>3. Moves(t) /\ pc'[t] = op /\ tx'[t] = d /\ answer'[t] = None
    <2>1. answer'[t] = None /\ answer' = [answer EXCEPT ![t] = answer'[t]]
      BY <1>1, StaysSame
    <2>2. work' = [work EXCEPT ![t] = work'[t]]
      BY <1>1, StaysSame
    <2> QED BY <1>1, <2>1, <2>2, GoMoves
  <1>4. Shape(op, d)
    BY <1>2, EmptyRange DEF Shape, OpsAt, KeysUnique, AnchorSteps
  <1>5. Accounted(Mine(t), op, d)
    BY <1>2, AccountedAtRest
  <1>6. pc[t] \notin TxSteps /\ pc'[t] \notin TxSteps
    BY <1>1, <1>3 DEF TxSteps
  <1> QED BY <1>1, <1>2, <1>3, <1>4, <1>5, <1>6 DEF Outside

\* The steps of anchoring: on to the next with the same call, or to its end.
LEMMA AnchorStepOutside ==
    ASSUME LocksOK, RowsOK, NEW t \in Threads, AnchorStep(t)
    PROVE  /\ Outside(t) /\ UNCHANGED <<calls, faults>> /\ tx[t].op \in {"anchor", "verify"}
           /\ pc[t] # "idle"
           /\ \/ pc'[t] # "idle" /\ tx'[t] = tx[t] /\ answer'[t] = answer[t]
              \/ pc'[t] = "idle" /\ tx'[t] = NoTx /\ answer'[t].op \in {"anchor", "verify"}
  <1>1. /\ pc[t] \in AnchorSteps
        /\ UNCHANGED <<setting, database, state, owner, chain, calls, faults, backup, lost>>
    BY DEF AnchorStep, AnchorHead, CreateFile, FillFile, ReadFiles, Report, AnchorSteps
  <1>2. /\ Shape(pc[t], tx[t]) /\ tx[t].op \in {"anchor", "verify"} /\ tx[t].staged = {}
        /\ tx[t].op \in OpsAt(pc[t])
    BY <1>1 DEF RowsOK, Shape, OpsAt, AnchorSteps
  <1>3. \/ \E how : Anchored(t, how)
        \/ \E step, w : /\ <<pc[t], step>> \in {<<"anchor", "create">>, <<"create", "fill">>, <<"verify", "report">>}
                        /\ pc' = [pc EXCEPT ![t] = step] /\ UNCHANGED <<tx, answer>>
                        /\ work' = [work EXCEPT ![t] = w]
        \/ /\ pc' = [pc EXCEPT ![t] = "idle"] /\ tx' = [tx EXCEPT ![t] = NoTx]
           /\ \E a : a.op = "verify" /\ answer' = [answer EXCEPT ![t] = a]
           /\ work' = [work EXCEPT ![t] = None]
    <2>1. CASE AnchorHead(t)
      BY <2>1 DEF AnchorHead
    <2>2. CASE CreateFile(t)
      <3>1. work = [work EXCEPT ![t] = work[t]]
        BY DEF LocksOK
      <3> QED BY <2>2, <3>1 DEF CreateFile
    <2>3. CASE FillFile(t)
      BY <2>3 DEF FillFile
    <2>4. CASE ReadFiles(t)
      BY <2>4 DEF ReadFiles
    <2>5. CASE Report(t)
      <3> DEFINE a == [op |-> "verify", files |-> work[t],
                 how |-> IF ChainValid /\ \A f \in work[t] : ~Problem(t, f) THEN "ok" ELSE "problem"]
      <3>1. a.op = "verify"
        OBVIOUS
      <3>2. /\ pc' = [pc EXCEPT ![t] = "idle"] /\ tx' = [tx EXCEPT ![t] = NoTx]
            /\ answer' = [answer EXCEPT ![t] = a] /\ work' = [work EXCEPT ![t] = None]
        BY <2>5 DEF Report
      <3> HIDE DEF a
      <3> QED BY <3>1, <3>2
    <2> QED BY <2>1, <2>2, <2>3, <2>4, <2>5 DEF AnchorStep
  <1>4. pc[t] \notin TxSteps /\ pc[t] # "idle"
    BY <1>1 DEF TxSteps, AnchorSteps
  <1>5. Moves(t) /\ pc'[t] = "idle" /\ tx'[t] = NoTx => Outside(t)
    <2>1. "idle" \notin TxSteps
      BY DEF TxSteps
    <2> QED BY <1>1, <1>4, <2>1, Resting, NoTxIsTx DEF Outside
  <1>6. ASSUME NEW how, Anchored(t, how)
        PROVE  Outside(t) /\ pc'[t] = "idle" /\ tx'[t] = NoTx /\ answer'[t].op \in {"anchor", "verify"}
    <2>1. Moves(t) /\ pc'[t] = "idle" /\ tx'[t] = NoTx
      BY <1>6, AnchoredMoves
    <2>2. answer'[t] = [op |-> tx[t].op, how |-> how, files |-> files]
      BY <1>6, AnchoredMoves, Zenon
    <2> QED BY <1>2, <1>5, <2>1, <2>2
  <1>8. ASSUME NEW a, a.op = "verify", pc' = [pc EXCEPT ![t] = "idle"],
               tx' = [tx EXCEPT ![t] = NoTx], answer' = [answer EXCEPT ![t] = a],
               work' = [work EXCEPT ![t] = None]
        PROVE  Outside(t) /\ pc'[t] = "idle" /\ tx'[t] = NoTx /\ answer'[t].op \in {"anchor", "verify"}
    <2>1. Go(t, "idle", NoTx)
      BY <1>8 DEF Go
    <2>2. answer'[t] = a /\ answer' = [answer EXCEPT ![t] = answer'[t]]
      BY <1>8, StaysSame
    <2>3. work' = [work EXCEPT ![t] = work'[t]]
      BY <1>8, StaysSame
    <2>4. Moves(t) /\ pc'[t] = "idle" /\ tx'[t] = NoTx
      BY <2>1, <2>2, <2>3, GoMoves
    <2> QED BY <1>5, <1>8, <2>2, <2>4
  <1>7. ASSUME NEW step, NEW w, pc' = [pc EXCEPT ![t] = step], UNCHANGED <<tx, answer>>,
               <<pc[t], step>> \in {<<"anchor", "create">>, <<"create", "fill">>, <<"verify", "report">>},
               work' = [work EXCEPT ![t] = w]
        PROVE  Outside(t) /\ pc'[t] # "idle" /\ tx'[t] = tx[t] /\ answer'[t] = answer[t]
    <2>1. Go(t, step, tx[t])
      BY <1>7 DEF Go, LocksOK
    <2>2. work' = [work EXCEPT ![t] = work'[t]] /\ answer' = [answer EXCEPT ![t] = answer'[t]]
      BY <1>7, StaysSame
    <2>3. Moves(t) /\ pc'[t] = step /\ tx'[t] = tx[t]
      BY <2>1, <2>2, GoMoves
    <2>4. step \notin TxSteps /\ step \in AnchorSteps /\ tx[t].op \in OpsAt(step) /\ step # "idle"
      BY <1>2, <1>7 DEF TxSteps, AnchorSteps, OpsAt
    <2>5. Shape(step, tx[t])
      BY <1>2, <2>4 DEF Shape, TxSteps, AnchorSteps
    <2>6. Accounted(Mine(t), step, tx[t])
      BY <1>2, <2>4, AccountedAtRest DEF AnchorSteps
    <2> QED BY <1>1, <1>2, <1>4, <1>7, <2>3, <2>4, <2>5, <2>6 DEF Outside
  <1> QED BY <1>1, <1>2, <1>3, <1>4, <1>6, <1>7, <1>8

-----------------------------------------------------------------------------
(* Locks and rows stay in order. *)

LEMMA RowsStay ==
    ASSUME RowsOK, NEW t \in Threads, Moves(t), UNCHANGED rows, Shape(pc'[t], tx'[t]),
           Accounted(Mine(t), pc'[t], tx'[t]), Apart(t, tx'[t].staged)
    PROVE  RowsOK'
  <1>1. \A p, step, c : Accounted(p, step, c)' <=> Accounted(p, step, c)
    BY DEF Accounted
  <1>2. ASSUME NEW u \in Threads PROVE Shape(pc'[u], tx'[u]) /\ Accounted(Mine(u), pc'[u], tx'[u])
    BY DEF Moves, RowsOK
  <1>3. ASSUME NEW u \in Threads, NEW v \in Threads, u # v PROVE KeysDiffer(tx'[u].staged, tx'[v].staged)
    <2>1. CASE u # t /\ v # t
      BY <1>3, <2>1 DEF Moves, RowsOK
    <2>2. CASE u = t
      BY <1>3, <2>2 DEF Moves, Apart
    <2>3. CASE v = t
      BY <1>3, <2>3 DEF Moves, Apart, KeysDiffer
    <2> QED BY <2>1, <2>2, <2>3
  <1>4. ASSUME NEW u \in Threads PROVE Accounted(Mine(u), pc[u], tx[u])'
    <2>1. PICK p, step, c : p = Mine(u) /\ step = pc'[u] /\ c = tx'[u]
      OBVIOUS
    <2>2. Accounted(p, step, c)
      BY <1>2, <2>1
    <2>3. Accounted(p, step, c)'
      BY <1>1, <2>2
    <2>4. Mine(u)' = Mine(u)
      BY DEF Mine
    <2> QED BY <2>1, <2>3, <2>4 DEF Accounted
  <1> QED BY <1>2, <1>3, <1>4 DEF RowsOK

LEMMA MoreRows ==
    ASSUME NEW p, NEW step, NEW c, Accounted(p, step, c), rows \subseteq rows', KeysDiffer(rows', c.staged)
    PROVE  Accounted(p, step, c)'
  BY DEF Accounted, KeysDiffer

LEMMA CommitRows ==
    ASSUME LocksOK, RowsOK, NEW t \in Threads, Commit(t), UNCHANGED sink
    PROVE  RowsOK'
  <1> DEFINE R == tx[t].staged
  <1>1. rows' = rows \cup R /\ Moves(t) /\ pc'[t] = "idle" /\ tx'[t] = NoTx
    <2>1. PICK how \in {"ok", "in_doubt"} : Finish(t, how)
      BY DEF Commit
    <2>2. UNCHANGED work /\ rows' = rows \cup R
      BY DEF Commit, sink
    <2> QED BY <2>1, <2>2, FinishMoves
  <1>2. /\ Shape(pc[t], tx[t]) /\ Accounted(Mine(t), pc[t], tx[t])
        /\ \A u \in Threads \ {t} : KeysDiffer(R, tx[u].staged)
    BY DEF RowsOK
  <1>3. rows' \subseteq AllRows /\ KeysUnique(rows')
    <2>1. R \subseteq AllRows /\ KeysUnique(R) /\ KeysDiffer(rows, R)
      BY <1>2 DEF Shape, Accounted
    <2> QED BY <1>1, <2>1 DEF RowsOK, KeysUnique, KeysDiffer
  <1>4. ASSUME NEW u \in Threads PROVE (Shape(pc[u], tx[u]) /\ Accounted(Mine(u), pc[u], tx[u]))'
    <2>1. CASE u = t
      <3>1. Accounted(Mine(t), "idle", NoTx)'
        BY NoTxIsTx, EmptyRange, Resting DEF Accounted, KeysDiffer
      <3>2. Shape("idle", NoTx)
        BY Resting
      <3> QED BY <1>1, <2>1, <3>1, <3>2 DEF Shape, Accounted, Mine
    <2>2. CASE u # t
      <3>1. PICK p, step, c : p = Mine(u) /\ step = pc'[u] /\ c = tx'[u]
        OBVIOUS
      <3>2. step = pc[u] /\ c = tx[u]
        BY <1>1, <2>2, <3>1 DEF Moves
      <3>3. Shape(step, c) /\ Accounted(p, step, c) /\ KeysDiffer(rows, c.staged) /\ KeysDiffer(R, c.staged)
        BY <1>2, <2>2, <3>1, <3>2 DEF RowsOK, Accounted
      <3>4. KeysDiffer(rows', c.staged) /\ rows \subseteq rows'
        BY <1>1, <3>3 DEF KeysDiffer
      <3>5. Accounted(p, step, c)'
        BY <3>3, <3>4, MoreRows
      <3> QED BY <3>1, <3>3, <3>5 DEF Shape, Accounted, Mine
    <2> QED BY <2>1, <2>2
  <1>5. ASSUME NEW u \in Threads, NEW v \in Threads, u # v
        PROVE  KeysDiffer(tx'[u].staged, tx'[v].staged)
    BY <1>1, <1>5, NoTxIsTx DEF Moves, RowsOK, KeysDiffer
  <1> QED BY <1>3, <1>4, <1>5 DEF RowsOK

\* Between two states in which every call is as it was, or gone.
LEMMA CallsGone ==
    ASSUME RowsOK, rows' = rows,
           \A u \in Threads : \/ pc'[u] = pc[u] /\ tx'[u] = tx[u]
                              \/ pc'[u] = "idle" /\ tx'[u] = NoTx
    PROVE  RowsOK'
  <1>1. ASSUME NEW u \in Threads PROVE (Shape(pc[u], tx[u]) /\ Accounted(Mine(u), pc[u], tx[u]))'
    <2>1. PICK p, step, c : p = Mine(u) /\ step = pc'[u] /\ c = tx'[u]
      OBVIOUS
    <2>2. Shape(step, c) /\ Accounted(p, step, c)
      BY <2>1, Resting DEF RowsOK
    <2>3. Accounted(p, step, c)'
      BY <2>2 DEF Accounted
    <2> QED BY <2>1, <2>2, <2>3 DEF Shape, Accounted, Mine
  <1>2. ASSUME NEW u \in Threads, NEW v \in Threads, u # v
        PROVE  KeysDiffer(tx'[u].staged, tx'[v].staged)
    BY <1>2, NoTxIsTx DEF RowsOK, KeysDiffer
  <1> QED BY <1>1, <1>2 DEF RowsOK

LEMMA StateStays ==
    ASSUME LocksOK, NEW t \in Threads
    PROVE  /\ state' = state => state' \in [Processes -> {"down", "up", "cut"}]
           /\ \A s \in {"up", "cut"} : state' = [state EXCEPT ![Mine(t)] = s] =>
                state' \in [Processes -> {"down", "up", "cut"}]
  BY DEF LocksOK

LEMMA InsideKeeps ==
    ASSUME LocksOK, RowsOK, NEW t \in Threads, Inside(t)
    PROVE  LocksOK' /\ RowsOK' /\ Moves(t)
  <1>1. ASSUME NEW step, NEW c, Goes(t, step, c)
        PROVE  RowsOK' /\ Moves(t) /\ pc'[t] = step /\ tx'[t] = c /\ UNCHANGED <<setting, state>>
    <2>1. Moves(t) /\ pc'[t] = step /\ tx'[t] = c
      BY <1>1, GoesMoves
    <2>2. /\ Shape(step, c) /\ Accounted(Mine(t), step, c) /\ Apart(t, c.staged)
          /\ rows' = rows /\ UNCHANGED <<setting, state>>
      BY <1>1 DEF Goes
    <2> QED BY <2>1, <2>2, RowsStay
  <1>2. CASE \E step : Enters(t, step)
    BY <1>1, <1>2, LocksAreTaken DEF Enters
  <1>3. CASE \E step, c : Works(t, step, c)
    <2>1. PICK step, c : Works(t, step, c)
      BY <1>3
    <2>2. /\ Goes(t, step, c) /\ pc[t] \in TxSteps /\ step \in TxSteps /\ ~AtHead(step, c)
          /\ UNCHANGED <<owner, chain>>
      BY <2>1 DEF Works, TxSteps, AtHead
    <2> QED BY <1>1, <2>2, StateStays, LocksStay
  <1>4. CASE \E c : Retries(t, c)
    BY <1>1, <1>4, StateStays, LocksAreReleased DEF Retries
  <1>5. CASE \E how : Fails(t, how)
    <2>1. PICK how : Fails(t, how)
      BY <1>5
    <2>2. Finish(t, how) /\ UNCHANGED <<setting, rows, work>>
      BY <2>1 DEF Fails, database, sink
    <2>3. Moves(t) /\ pc'[t] = "idle" /\ tx'[t] = NoTx /\ Release(t)
      BY <2>2, FinishMoves
    <2>4. state' \in [Processes -> {"down", "up", "cut"}]
      BY <2>1, StateStays DEF Fails
    <2>5. RowsOK'
      BY <2>2, <2>3, CallsGone DEF Moves
    <2> QED BY <2>2, <2>3, <2>4, <2>5, LocksAreReleased
  <1>6. CASE \E step, c : Chains(t, step, c)
    <2>1. PICK step, c : Chains(t, step, c)
      BY <1>6
    <2>2. Goes(t, step, c) /\ pc[t] \in TxSteps /\ step \in TxSteps /\ UNCHANGED owner /\ c.op = "audit"
      BY <2>1 DEF Chains, TxSteps
    <2>3. tx[t].op = "audit" /\ tx'[t] = c /\ pc'[t] = step
      BY <1>1, <2>2 DEF Goes
    <2>4. /\ UNCHANGED chain \/ (dialect = "postgres" /\ chain = None /\ chain' = t)
          /\ AtHead(step, c) => AtHead(pc[t], tx[t]) \/ chain' = t \/ dialect = "sqlite"
      BY <2>1, <2>3 DEF Chains, AtHead, LocksOK
    <2>5. Moves(t) /\ UNCHANGED setting /\ state' \in [Processes -> {"down", "up", "cut"}]
      BY <1>1, <2>2, StateStays
    <2>6. LocksOK'
      BY <2>2, <2>3, <2>4, <2>5, LocksStay
    <2> QED BY <1>1, <2>2, <2>6
  <1> QED BY <1>2, <1>3, <1>4, <1>5, <1>6 DEF Inside

LEMMA OutsideKeeps ==
    ASSUME LocksOK, RowsOK, NEW t \in Threads, Outside(t)
    PROVE  LocksOK' /\ RowsOK'
  <1>1. /\ Moves(t) /\ pc[t] \notin TxSteps /\ pc'[t] \notin TxSteps /\ UNCHANGED <<setting, owner, chain, state>>
        /\ Shape(pc'[t], tx'[t]) /\ Accounted(Mine(t), pc'[t], tx'[t]) /\ tx'[t].staged = {}
        /\ UNCHANGED rows
    BY DEF Outside, database
  <1>2. Apart(t, tx'[t].staged) /\ ~AtHead(pc'[t], tx'[t])
    BY <1>1 DEF Apart, KeysDiffer, AtHead, TxSteps
  <1>3. state' \in [Processes -> {"down", "up", "cut"}]
    BY <1>1, StateStays
  <1>4. LocksOK'
    BY <1>1, <1>2, <1>3, LocksStay
  <1>5. RowsOK'
    BY <1>1, <1>2, RowsStay
  <1> QED BY <1>4, <1>5

LEMMA CrashKeeps ==
    ASSUME LocksOK, RowsOK, NEW p \in Processes, CrashAll(p)
    PROVE  LocksOK' /\ RowsOK'
  <1> DEFINE gone == {t \in Threads : Mine(t) = p}
  <1>1. /\ state' = [state EXCEPT ![p] = "down"] /\ owner' = [owner EXCEPT ![p] = None]
        /\ chain' = (IF chain \in gone THEN None ELSE chain)
        /\ pc' = [t \in Threads |-> IF t \in gone THEN "idle" ELSE pc[t]]
        /\ tx' = [t \in Threads |-> IF t \in gone THEN NoTx ELSE tx[t]]
        /\ answer' = [t \in Threads |-> IF t \in gone THEN None ELSE answer[t]]
        /\ work' = [t \in Threads |-> IF t \in gone THEN None ELSE work[t]]
        /\ UNCHANGED <<setting, rows>>
    BY DEF CrashAll, Crash, database
  <1>2. \A t \in Threads : IF t \in gone THEN pc'[t] = "idle" /\ tx'[t] = NoTx
                                         ELSE pc'[t] = pc[t] /\ tx'[t] = tx[t]
    BY <1>1
  <1>3. RowsOK'
    BY <1>1, <1>2, CallsGone
  <1>4. /\ pc' = [t \in Threads |-> pc'[t]] /\ tx' = [t \in Threads |-> tx'[t]]
        /\ answer' = [t \in Threads |-> answer'[t]] /\ work' = [t \in Threads |-> work'[t]]
    <2> HIDE DEF gone
    <2> QED BY <1>1
  <1>5. \A t \in Threads : Mine(t) \in Processes
    BY StoreAssumption DEF Mine
  <1>6. /\ owner' \in [Processes -> Threads \cup {None}] /\ owner'[p] = None
        /\ \A q \in Processes \ {p} : owner'[q] = owner[q]
        /\ state' \in [Processes -> {"down", "up", "cut"}]
    BY <1>1 DEF LocksOK
  <1>7. \A t \in Threads : pc'[t] \in TxSteps <=> t \notin gone /\ pc[t] \in TxSteps
    BY <1>2 DEF TxSteps
  <1>8. \A t \in Threads : owner'[Mine(t)] = t <=> pc'[t] \in TxSteps
    BY <1>5, <1>6, <1>7, StoreAssumption DEF LocksOK
  <1>9. \A q \in Processes : owner'[q] # None => Mine(owner'[q]) = q
    BY <1>6 DEF LocksOK
  <1>10. dialect = "sqlite" =>
         \A t \in Threads, u \in Threads : pc'[t] \in TxSteps /\ pc'[u] \in TxSteps => t = u
    BY <1>7 DEF LocksOK
  <1>11. \A t \in Threads : AtHead(pc'[t], tx'[t]) => t \notin gone /\ AtHead(pc[t], tx[t])
    BY <1>2 DEF AtHead
  <1>12. dialect = "postgres" => \A t \in Threads : AtHead(pc'[t], tx'[t]) => chain' = t
    BY <1>1, <1>11 DEF LocksOK
  <1>13. chain' \in Threads \cup {None}
    BY <1>1 DEF LocksOK
  <1> QED BY <1>1, <1>3, <1>4, <1>6, <1>8, <1>9, <1>10, <1>12, <1>13 DEF LocksOK, setting

LEMMA IdleCalls ==
    ASSUME LocksOK, RowsOK, \A t \in Threads : pc[t] = "idle"
    PROVE  /\ \A t \in Threads : tx[t] = NoTx
           /\ Unplaced = {} /\ \A t \in Threads : ~AuditCall(t)
  BY DEF RowsOK, Shape, Unplaced, AuditCall

LEMMA RestoreKeeps ==
    ASSUME LocksOK, RowsOK, BackupOK, Restore
    PROVE  LocksOK' /\ RowsOK' /\ \A t \in Threads : answer'[t] = None
  <1>1. /\ backup # None /\ \A t \in Threads : pc[t] = "idle"
        /\ rows' = backup.rows /\ state' = [p \in Processes |-> "up"]
        /\ answer' = [t \in Threads |-> None]
        /\ UNCHANGED <<setting, owner, chain, pc, tx, work>>
    BY DEF Restore
  <1>2. rows' \subseteq rows
    BY <1>1 DEF BackupOK
  <1>3. LocksOK'
    BY <1>1 DEF LocksOK, AtHead, setting, Mine
  <1>4. ASSUME NEW t \in Threads PROVE (Shape(pc[t], tx[t]) /\ Accounted(Mine(t), pc[t], tx[t]))'
    <2>1. Accounted(Mine(t), "idle", NoTx)'
      BY NoTxIsTx, EmptyRange DEF Accounted, KeysDiffer
    <2>2. tx[t] = NoTx /\ pc[t] = "idle"
      BY <1>1, IdleCalls
    <2>3. PICK step, c : step = pc'[t] /\ c = tx'[t] /\ step = "idle" /\ c = NoTx
      BY <1>1, <2>2
    <2>4. (Shape(step, c) /\ Accounted(Mine(t), step, c))'
      BY <2>1, <2>3, Resting DEF Shape
    <2> QED BY <2>3, <2>4 DEF Shape, Accounted, Mine
  <1>5. RowsOK'
    BY <1>1, <1>2, <1>4 DEF RowsOK, KeysUnique
  <1> QED BY <1>1, <1>3, <1>5

LEMMA CommitLocks ==
    ASSUME LocksOK, NEW t \in Threads, Commit(t), UNCHANGED sink
    PROVE  /\ LocksOK' /\ Moves(t) /\ pc'[t] = "idle" /\ tx'[t] = NoTx
           /\ answer'[t] = Outcome(t, "ok") \/ answer'[t] = Outcome(t, "in_doubt")
           /\ pc[t] = "commit" /\ rows' = rows \cup tx[t].staged /\ log' = log \cup tx[t].appended
           /\ UNCHANGED <<setting, issued, calls, sink>>
           /\ \A p \in Processes : state'[p] # "down" =>
                 state[p] # "down" \/ (tx[t].op = "start" /\ p = Mine(t))
  <1>1. /\ UNCHANGED work /\ pc[t] = "commit" /\ UNCHANGED <<setting, issued, calls, sink>>
        /\ rows' = rows \cup tx[t].staged /\ log' = log \cup tx[t].appended
        /\ \/ /\ state' = IF tx[t].op = "start" THEN [state EXCEPT ![Mine(t)] = "up"] ELSE state
              /\ Finish(t, "ok")
           \/ /\ state' = [state EXCEPT ![Mine(t)] = IF @ = "up" THEN "cut" ELSE @]
              /\ Finish(t, "in_doubt")
    BY DEF Commit, sink
  <1>2. PICK how \in {"ok", "in_doubt"} : Finish(t, how)
    BY <1>1
  <1>3. Moves(t) /\ pc'[t] = "idle" /\ tx'[t] = NoTx /\ Release(t) /\ answer'[t] = Outcome(t, how)
    BY <1>1, <1>2, FinishMoves
  <1>4. state \in [Processes -> {"down", "up", "cut"}] /\ Mine(t) \in Processes
    BY StoreAssumption DEF LocksOK, Mine
  <1>5. /\ state' \in [Processes -> {"down", "up", "cut"}]
        /\ \A p \in Processes : state'[p] # "down" =>
              state[p] # "down" \/ (tx[t].op = "start" /\ p = Mine(t))
    BY <1>1, <1>4
  <1>6. LocksOK'
    BY <1>1, <1>2, <1>3, <1>5, LocksAreReleased
  <1> QED BY <1>1, <1>3, <1>5, <1>6

\* Every step is one of a few kinds.
LEMMA NextKinds ==
    ASSUME LocksOK, RowsOK, Next
    PROVE  \/ \E t \in Threads : \/ \E c \in workload.requests : c.op \notin {"anchor", "verify"} /\ Begin(t, c) /\ UNCHANGED sink
                                 \/ \E auto \in BOOLEAN : Start(t, auto) /\ UNCHANGED sink
                                 \/ Inside(t)
                                 \/ Commit(t) /\ UNCHANGED sink
                                 \/ \E op \in {"anchor", "verify"} : AnchorBegin(t, op)
                                 \/ AnchorStep(t)
           \/ \E p \in Processes : CrashAll(p)
           \/ BackUp \/ Restore
  <1>1. \A t \in Threads : Step(t) /\ UNCHANGED sink => Inside(t) \/ Commit(t)
    BY StepKind
  <1> QED BY <1>1, Zenon DEF Next

LEMMA CoreKeeps ==
    ASSUME LocksOK, RowsOK, BackupOK, [Next]_allVars
    PROVE  LocksOK' /\ RowsOK'
  <1>1. ASSUME UNCHANGED vars, UNCHANGED work PROVE LocksOK' /\ RowsOK'
    <2>1. LocksOK'
      BY <1>1 DEF LocksOK, vars, control, setting, AtHead, Mine
    <2>2. RowsOK'
      BY <1>1, CallsGone DEF vars, database, control
    <2> QED BY <2>1, <2>2
  <1>2. CASE UNCHANGED allVars
    BY <1>1, <1>2 DEF allVars, sink
  <1>3. CASE BackUp
    BY <1>1, <1>3 DEF BackUp
  <1>4. ASSUME NEW t \in Threads, Outside(t) \/ Inside(t) \/ (Commit(t) /\ UNCHANGED sink)
        PROVE  LocksOK' /\ RowsOK'
    BY <1>4, OutsideKeeps, InsideKeeps, CommitLocks, CommitRows
  <1>5. CASE Next
    BY <1>3, <1>4, <1>5, NextKinds, BeginOutside, StartOutside, AnchorBeginOutside, AnchorStepOutside,
       CrashKeeps, RestoreKeeps
  <1> QED BY <1>2, <1>5

-----------------------------------------------------------------------------
(* Whoever runs has its migrations. *)

LEMMA InsideQuiet ==
    ASSUME NEW t \in Threads, Inside(t)
    PROVE  /\ UNCHANGED <<setting, rows, log, calls, sink>> /\ pc[t] # "idle"
           /\ state' = state \/ (state[Mine(t)] = "up" /\ state' = [state EXCEPT ![Mine(t)] = "cut"])
  <1>1. CASE \E how : Fails(t, how)
    BY <1>1 DEF Fails, database, TxSteps
  <1>2. CASE ~ \E how : Fails(t, how)
    BY <1>2 DEF Inside, Enters, Works, Retries, Chains, Goes, TxSteps
  <1> QED BY <1>1, <1>2

LEMMA MigratedStays ==
    ASSUME MigratedOK, rows \subseteq rows', UNCHANGED <<workload, backup>>,
           \A p \in Processes : state'[p] # "down" =>
             state[p] # "down" \/ \A m \in Releases[p] : LedgerRow(m) \in rows'
    PROVE  MigratedOK'
  BY DEF MigratedOK, RunningIsMigrated

LEMMA MigratedKeeps ==
    ASSUME LocksOK, RowsOK, BackupOK, MigratedOK, [Next]_allVars
    PROVE  MigratedOK'
  <1>1. CASE UNCHANGED allVars
    BY <1>1 DEF MigratedOK, RunningIsMigrated, allVars, vars, sink, database, setting
  <1>2. CASE BackUp
    BY <1>2 DEF BackUp, MigratedOK, RunningIsMigrated, vars, database, setting
  <1>3. CASE Restore
    <2>1. /\ backup # None /\ rows' = backup.rows /\ backup' = None /\ workload' = workload
      BY <1>3 DEF Restore, setting
    <2>2. workload.ledger \subseteq backup.rows /\ workload.restores
      BY <2>1 DEF MigratedOK
    <2>3. \A p \in Processes : \A m \in Releases[p] : LedgerRow(m) \in workload.ledger
      BY <2>2, StoreAssumption DEF LocksOK
    <2> QED BY <2>1, <2>2, <2>3 DEF MigratedOK, RunningIsMigrated
  <1>4. ASSUME NEW p \in Processes, CrashAll(p) PROVE MigratedOK'
    <2>1. /\ state' = [state EXCEPT ![p] = "down"] /\ UNCHANGED <<rows, workload, backup>>
      BY <1>4 DEF CrashAll, Crash, database, setting
    <2>2. \A q \in Processes : state'[q] # "down" => state[q] # "down"
      BY <2>1 DEF LocksOK
    <2> QED BY <2>1, <2>2, MigratedStays
  <1>5. ASSUME NEW t \in Threads, Outside(t) PROVE MigratedOK'
    BY <1>5, MigratedStays DEF Outside, database, setting
  <1>6. ASSUME NEW t \in Threads, Inside(t) PROVE MigratedOK'
    <2>1. UNCHANGED <<rows, workload, backup>>
      BY <1>6, InsideQuiet DEF setting, sink
    <2>2. \A p \in Processes : state'[p] # "down" => state[p] # "down"
      BY <1>6, InsideQuiet DEF LocksOK
    <2> QED BY <2>1, <2>2, MigratedStays
  <1>7. ASSUME NEW t \in Threads, Commit(t), UNCHANGED sink PROVE MigratedOK'
    <2>1. /\ rows' = rows \cup tx[t].staged /\ pc[t] = "commit" /\ UNCHANGED <<workload, backup>>
          /\ \A p \in Processes : state'[p] # "down" =>
                state[p] # "down" \/ (tx[t].op = "start" /\ p = Mine(t))
      BY <1>7, CommitLocks DEF setting, sink
    <2>2. tx[t].op = "start" => \A m \in Releases[Mine(t)] : LedgerRow(m) \in rows'
      <3>1. Shape("commit", tx[t]) /\ Accounted(Mine(t), "commit", tx[t])
        BY <2>1 DEF RowsOK
      <3>2. tx[t].op = "start" => tx[t].todo = << >>
        BY <3>1 DEF Shape
      <3>3. tx[t].op = "start" =>
              \A m \in Releases[Mine(t)] : LedgerRow(m) \in rows \cup tx[t].staged \cup Range(tx[t].todo)
        BY <3>1 DEF Accounted
      <3> QED BY <2>1, <3>2, <3>3, EmptyRange
    <2>3. \A p \in Processes : state'[p] # "down" =>
             state[p] # "down" \/ \A m \in Releases[p] : LedgerRow(m) \in rows'
      BY <2>1, <2>2
    <2> QED BY <2>1, <2>3, MigratedStays
  <1>8. CASE Next
    BY <1>2, <1>3, <1>4, <1>5, <1>6, <1>7, <1>8, NextKinds, BeginOutside, StartOutside,
       AnchorBeginOutside, AnchorStepOutside
  <1> QED BY <1>1, <1>8

-----------------------------------------------------------------------------
(* The numbers of audit entries are unique. *)

LEMMA EntriesStay ==
    ASSUME LocksOK, EntriesOK, NEW t \in Threads, Moves(t), UNCHANGED <<workload, log, lost>>,
           calls' = calls \/ (calls' = calls + 1 /\ calls < workload.calls),
           AuditCall(t)' => \/ AuditCall(t) /\ tx'[t].entry = tx[t].entry
                            \/ calls' = calls + 1 /\ tx'[t].entry = calls + 1,
           Told(t)' => \/ Told(t) /\ answer'[t] = answer[t] /\ (AuditCall(t)' => AuditCall(t))
                       \/ AuditCall(t) /\ answer'[t].entry = tx[t].entry /\ ~AuditCall(t)'
    PROVE  EntriesOK'
  <1>1. /\ calls \in Nat /\ calls' \in 0..workload'.calls /\ calls <= calls'
        /\ 1..calls \subseteq 1..calls'
    <2>1. workload.calls \in Nat
      BY StoreAssumption DEF LocksOK
    <2> QED BY <2>1 DEF EntriesOK
  <1>2. \A u \in Threads \ {t} :
          /\ AuditCall(u)' <=> AuditCall(u) /\ tx'[u].entry = tx[u].entry
          /\ Told(u)' <=> Told(u) /\ answer'[u].entry = answer[u].entry
    BY DEF Moves, AuditCall, Told
  <1>3. ASSUME NEW u \in Threads, AuditCall(u)'
        PROVE  /\ tx'[u].entry \in 1..calls'
               /\ \A e \in log' \cup lost' : e.entry # tx'[u].entry
    BY <1>1, <1>2, <1>3 DEF EntriesOK
  <1>4. ASSUME NEW u \in Threads, NEW v \in Threads, AuditCall(u)', AuditCall(v)', u # v
        PROVE  tx'[u].entry # tx'[v].entry
    BY <1>1, <1>2, <1>4 DEF EntriesOK
  <1>5. ASSUME NEW u \in Threads, Told(u)' PROVE answer'[u].entry \in 1..calls'
    BY <1>1, <1>2, <1>5 DEF EntriesOK
  <1>6. ASSUME NEW u \in Threads, NEW v \in Threads, AuditCall(u)', Told(v)'
        PROVE  answer'[v].entry # tx'[u].entry
    <2>1. CASE u # t /\ v # t
      BY <1>2, <1>6, <2>1 DEF EntriesOK
    <2>2. CASE u # t /\ v = t
      BY <1>2, <1>6, <2>2 DEF EntriesOK
    <2>3. CASE u = t
      <3>1. \A w \in Threads : Told(w) => answer[w].entry \in 1..calls
        BY DEF EntriesOK
      <3>2. CASE v # t
        <4>1. Told(v) /\ answer'[v].entry = answer[v].entry
          BY <1>2, <1>6, <3>2
        <4> QED BY <1>1, <1>6, <2>3, <3>1, <4>1 DEF EntriesOK
      <3>3. CASE v = t
        <4>1. Told(t) /\ answer'[t] = answer[t]
          BY <1>6, <2>3, <3>3
        <4> QED BY <1>1, <1>6, <2>3, <3>1, <3>3, <4>1 DEF EntriesOK
      <3> QED BY <3>2, <3>3
    <2> QED BY <2>1, <2>2, <2>3
  <1>7. /\ \A e \in log' \cup lost' : e.entry \in 1..calls'
        /\ \A e \in log', f \in log' : e.entry = f.entry => e = f
        /\ \A e \in log', f \in lost' : e.entry # f.entry
    BY <1>1 DEF EntriesOK
  <1> QED BY <1>1, <1>3, <1>4, <1>5, <1>6, <1>7 DEF EntriesOK

LEMMA InsideEntries ==
    ASSUME LocksOK, RowsOK, EntriesOK, NEW t \in Threads, Inside(t)
    PROVE  EntriesOK'
  <1>1. Moves(t) /\ UNCHANGED <<workload, log, lost, calls>> /\ pc[t] # "idle"
    BY InsideKeeps, InsideQuiet DEF setting, sink
  <1>2. CASE \E step, c : Goes(t, step, c)
    <2>1. PICK step, c : Goes(t, step, c)
      BY <1>2
    <2>2. tx'[t] = c /\ pc'[t] = step
      BY <2>1, GoesMoves
    <2>3. tx'[t].op = tx[t].op /\ tx'[t].entry = tx[t].entry /\ answer'[t] = answer[t]
      BY <2>1, <2>2 DEF Goes
    <2> QED BY <1>1, <2>3, EntriesStay DEF AuditCall, Told
  <1>3. CASE \E how : Fails(t, how)
    <2>1. PICK how : Fails(t, how)
      BY <1>3
    <2>2. pc'[t] = "idle" /\ answer'[t] = Outcome(t, how)
      BY <2>1, FinishMoves DEF Fails, sink
    <2>3. answer'[t].op = tx[t].op /\ answer'[t].entry = tx[t].entry
      BY <2>2 DEF Outcome
    <2> QED BY <1>1, <2>2, <2>3, EntriesStay DEF AuditCall, Told
  <1> QED BY <1>2, <1>3 DEF Inside, Enters, Works, Retries, Chains

LEMMA CommitEntries ==
    ASSUME LocksOK, RowsOK, EntriesOK, ChainOK, NEW t \in Threads, Commit(t), UNCHANGED sink
    PROVE  EntriesOK'
  <1>1. /\ Moves(t) /\ pc'[t] = "idle" /\ pc[t] = "commit"
        /\ answer'[t] = Outcome(t, "ok") \/ answer'[t] = Outcome(t, "in_doubt")
        /\ log' = log \cup tx[t].appended /\ UNCHANGED <<workload, calls, lost>>
    BY CommitLocks DEF setting, sink
  <1>2. answer'[t].op = tx[t].op /\ answer'[t].entry = tx[t].entry /\ ~AuditCall(t)'
    BY <1>1, OutcomeParts DEF AuditCall
  <1>3. CASE tx[t].op # "audit"
    <2>1. tx[t].appended = {}
      BY <1>3 DEF RowsOK, Shape
    <2>2. log' = log /\ ~ Told(t)'
      BY <1>1, <1>2, <1>3, <2>1 DEF Told
    <2> QED BY <1>1, <1>2, <2>2, EntriesStay
  <1>4. CASE tx[t].op = "audit"
    <2>1. PICK e : tx[t].appended = {e} /\ e.entry = tx[t].entry
      BY <1>1, <1>4 DEF ChainOK, InChain
    <2>2. AuditCall(t) /\ log' = log \cup {e}
      BY <1>1, <1>4, <2>1 DEF AuditCall
    <2>3. /\ e.entry \in 1..calls /\ \A f \in log \cup lost : f.entry # e.entry
          /\ \A u \in Threads : u # t /\ AuditCall(u) => tx[u].entry # e.entry
          /\ \A u \in Threads : Told(u) => answer[u].entry # e.entry
      BY <2>1, <2>2 DEF EntriesOK
    <2>4. \A u \in Threads \ {t} :
            /\ AuditCall(u)' <=> AuditCall(u) /\ tx'[u].entry = tx[u].entry
            /\ Told(u)' <=> Told(u) /\ answer'[u].entry = answer[u].entry
      BY <1>1 DEF Moves, AuditCall, Told
    <2>5. /\ \A f \in log' \cup lost' : f.entry \in 1..calls'
          /\ \A f \in log', g \in log' : f.entry = g.entry => f = g
          /\ \A f \in log', g \in lost' : f.entry # g.entry
          /\ calls' \in 0..workload'.calls
      BY <1>1, <2>2, <2>3 DEF EntriesOK
    <2>6. ASSUME NEW u \in Threads, AuditCall(u)'
          PROVE  /\ tx'[u].entry \in 1..calls'
                 /\ \A f \in log' \cup lost' : f.entry # tx'[u].entry
                 /\ \A v \in Threads : v # u /\ AuditCall(v)' => tx'[v].entry # tx'[u].entry
                 /\ \A v \in Threads : Told(v)' => answer'[v].entry # tx'[u].entry
      <3>1. u # t /\ AuditCall(u) /\ tx'[u].entry = tx[u].entry
        BY <1>2, <2>4, <2>6
      <3>2. tx[u].entry \in 1..calls /\ \A f \in log \cup lost : f.entry # tx[u].entry
        BY <3>1 DEF EntriesOK
      <3>3. \A v \in Threads : v # u /\ AuditCall(v)' => tx'[v].entry # tx'[u].entry
        BY <1>2, <2>4, <3>1 DEF EntriesOK
      <3>4. \A v \in Threads : Told(v)' => answer'[v].entry # tx'[u].entry
        BY <1>2, <2>1, <2>3, <2>4, <3>1 DEF EntriesOK
      <3> QED BY <1>1, <2>1, <2>2, <2>3, <3>1, <3>2, <3>3, <3>4
    <2>7. ASSUME NEW u \in Threads, Told(u)' PROVE answer'[u].entry \in 1..calls'
      BY <1>1, <1>2, <2>1, <2>3, <2>4, <2>7 DEF EntriesOK
    <2> QED BY <2>5, <2>6, <2>7 DEF EntriesOK
  <1> QED BY <1>3, <1>4

LEMMA RestoreEntries ==
    ASSUME LocksOK, RowsOK, EntriesOK, BackupOK, Restore
    PROVE  EntriesOK'
  <1>1. /\ backup # None /\ log' = backup.log /\ lost' = lost \cup (log \ backup.log)
        /\ UNCHANGED <<workload, calls, pc, tx>> /\ \A t \in Threads : pc[t] = "idle"
    BY DEF Restore, setting
  <1>2. log' \subseteq log /\ log' \cup lost' \subseteq log \cup lost
    BY <1>1 DEF BackupOK
  <1>3. \A t \in Threads : ~AuditCall(t)' /\ ~Told(t)'
    BY <1>1, RestoreKeeps DEF AuditCall, Told
  <1>4. \A e \in log', f \in lost' : e.entry # f.entry
    BY <1>1, <1>2 DEF EntriesOK
  <1> QED BY <1>1, <1>2, <1>3, <1>4 DEF EntriesOK

LEMMA EntriesKeep ==
    ASSUME LocksOK, RowsOK, BackupOK, EntriesOK, ChainOK, [Next]_allVars
    PROVE  EntriesOK'
  <1>1. ASSUME UNCHANGED <<workload, log, calls, lost, pc, tx, answer>> PROVE EntriesOK'
    BY <1>1 DEF EntriesOK, AuditCall, Told
  <1>2. CASE UNCHANGED allVars
    BY <1>1, <1>2 DEF allVars, vars, sink, database, setting, control
  <1>3. CASE BackUp
    BY <1>1, <1>3 DEF BackUp, vars, database, setting, control
  <1>4. ASSUME NEW p \in Processes, CrashAll(p) PROVE EntriesOK'
    <2>1. UNCHANGED <<workload, log, calls, lost>>
      BY <1>4 DEF CrashAll, Crash, database, setting
    <2>2. \A t \in Threads : \/ pc'[t] = pc[t] /\ tx'[t] = tx[t] /\ answer'[t] = answer[t]
                             \/ pc'[t] = "idle" /\ answer'[t] = None
      BY <1>4 DEF CrashAll, Crash
    <2>3. \A t \in Threads : /\ AuditCall(t)' => AuditCall(t) /\ tx'[t] = tx[t]
                             /\ Told(t)' => Told(t) /\ answer'[t] = answer[t]
      BY <2>2 DEF AuditCall, Told
    <2> QED BY <2>1, <2>3 DEF EntriesOK
  <1>5. ASSUME NEW t \in Threads, NEW c \in workload.requests, c.op \notin {"anchor", "verify"},
               Begin(t, c), UNCHANGED sink
        PROVE  EntriesOK'
    <2>1. /\ Outside(t) /\ pc'[t] = "lock" /\ answer'[t] = None
          /\ tx'[t].op = c.op /\ (c.op = "audit" => tx'[t].entry = calls + 1)
      BY <1>5, BeginOutside
    <2>2. calls < workload.calls /\ calls' = calls + 1
      BY <1>5 DEF Begin
    <2> QED BY <1>5, <2>1, <2>2, EntriesStay DEF Outside, AuditCall, Told, database, setting
  <1>6. ASSUME NEW t \in Threads, NEW auto, Start(t, auto), UNCHANGED sink PROVE EntriesOK'
    <2>1. Outside(t) /\ answer'[t] = None /\ tx'[t].op = "start" /\ UNCHANGED calls
      BY <1>6, StartOutside DEF Start
    <2> QED BY <2>1, EntriesStay DEF Outside, AuditCall, Told, database, setting
  <1>7. ASSUME NEW t \in Threads, NEW op \in {"anchor", "verify"}, AnchorBegin(t, op) PROVE EntriesOK'
    <2>1. Outside(t) /\ answer'[t] = None /\ tx'[t].op = op
      BY <1>7, AnchorBeginOutside
    <2>2. calls < workload.calls /\ calls' = calls + 1
      BY <1>7 DEF AnchorBegin
    <2> QED BY <2>1, <2>2, EntriesStay DEF Outside, AuditCall, Told, database, setting
  <1>8. ASSUME NEW t \in Threads, AnchorStep(t) PROVE EntriesOK'
    <2>1. Outside(t) /\ UNCHANGED calls /\ tx[t].op \in {"anchor", "verify"}
      BY <1>8, AnchorStepOutside
    <2>2. ~AuditCall(t)' /\ (Told(t)' => Told(t) /\ answer'[t] = answer[t])
      BY <1>8, <2>1, AnchorStepOutside DEF AuditCall, Told
    <2> QED BY <2>1, <2>2, EntriesStay DEF Outside, database, setting
  <1>9. CASE Next
    BY <1>3, <1>4, <1>5, <1>6, <1>7, <1>8, <1>9, NextKinds, InsideEntries, CommitEntries, RestoreEntries
  <1> QED BY <1>2, <1>9

-----------------------------------------------------------------------------
(* The audit chain. *)

Before(S, e) == {f \in S : f.seq < e.seq}

Chained(S) ==
    \A e \in S : /\ e.prev = IF Before(S, e) = {} THEN << >> ELSE Latest(Before(S, e)).hash
                 /\ e.hash = Append(e.prev, e.entry)

LEMMA ChainedIsValid == (ChainValid <=> Chained(log)) /\ (ChainValid' <=> Chained(log'))
  BY DEF ChainValid, Chained, Before

\* The entries before an entry are the same in two logs.
LEMMA SamePast ==
    ASSUME NEW S, NEW T, Chained(S), \A e \in T : Before(T, e) = Before(S, e), T \subseteq S
    PROVE  Chained(T)
  <1> SUFFICES ASSUME NEW e \in T
               PROVE  /\ e.prev = IF Before(T, e) = {} THEN << >> ELSE Latest(Before(T, e)).hash
                      /\ e.hash = Append(e.prev, e.entry)
    BY DEF Chained
  <1>1. Before(T, e) = Before(S, e) /\ e \in S
    OBVIOUS
  <1> QED BY <1>1 DEF Chained

LEMMA ChainGrows ==
    ASSUME NEW S, NEW e, Chained(S), \A f \in S : f.seq \in Int /\ f.seq < e.seq, e.seq \in Int,
           e.prev = IF S = {} THEN << >> ELSE Latest(S).hash, e.hash = Append(e.prev, e.entry)
    PROVE  Chained(S \cup {e})
  <1> DEFINE T == S \cup {e}
  <1>1. Before(T, e) = S
    BY DEF Before
  <1>2. \A f \in S : Before(T, f) = Before(S, f)
    BY DEF Before
  <1> SUFFICES ASSUME NEW f \in T
               PROVE  /\ f.prev = IF Before(T, f) = {} THEN << >> ELSE Latest(Before(T, f)).hash
                      /\ f.hash = Append(f.prev, f.entry)
    BY DEF Chained
  <1>3. CASE f = e
    BY <1>1, <1>3
  <1>4. CASE f \in S
    <2>1. Before(T, f) = Before(S, f)
      BY <1>2, <1>4
    <2> HIDE DEF T
    <2> QED BY <1>4, <2>1 DEF Chained
  <1> QED BY <1>3, <1>4

LEMMA HeadAlone ==
    ASSUME LocksOK, NEW t \in Threads, NEW u \in Threads, AtHead(pc[t], tx[t]), AtHead(pc[u], tx[u])
    PROVE  t = u
  <1>1. pc[t] \in TxSteps /\ pc[u] \in TxSteps
    BY DEF AtHead, TxSteps
  <1> QED BY <1>1 DEF LocksOK

LEMMA UnplacedCounts ==
    ASSUME NEW P, NEW Q, NEW t, Q \subseteq Threads
    PROVE  /\ Cardinality(Q) \in Nat
           /\ P \subseteq Q => Cardinality(P) \in Nat /\ Cardinality(P) <= Cardinality(Q)
           /\ P \subseteq Q \cup {t} => Cardinality(P) \in Nat /\ Cardinality(P) <= Cardinality(Q) + 1
           /\ P \subseteq Q \ {t} /\ t \in Q => Cardinality(P) \in Nat /\ Cardinality(P) + 1 <= Cardinality(Q)
  <1>1. IsFiniteSet(Q) /\ Cardinality(Q) \in Nat
    BY StoreAssumption, FS_Subset, FS_CardinalityType
  <1>2. ASSUME NEW R, IsFiniteSet(R), P \subseteq R
        PROVE  Cardinality(P) \in Nat /\ Cardinality(P) <= Cardinality(R)
    <2>1. P \in SUBSET R
      BY <1>2
    <2> QED BY <1>2, <2>1, FS_Subset, FS_CardinalityType
  <1>3. /\ IsFiniteSet(Q \cup {t}) /\ Cardinality(Q \cup {t}) \in Nat
        /\ Cardinality(Q \cup {t}) <= Cardinality(Q) + 1
    <2>1. /\ IsFiniteSet(Q \cup {t})
          /\ Cardinality(Q \cup {t}) = IF t \in Q THEN Cardinality(Q) ELSE Cardinality(Q) + 1
      BY <1>1, FS_AddElement
    <2> DEFINE size == Cardinality(Q)
               more == Cardinality(Q \cup {t})
    <2>2. size \in Nat /\ more = IF t \in Q THEN size ELSE size + 1
      BY <1>1, <2>1
    <2> HIDE DEF size, more
    <2>3. more \in Nat /\ more <= size + 1
      BY <2>2
    <2> QED BY <2>1, <2>3 DEF size, more
  <1>4. IsFiniteSet(Q \ {t}) /\ (t \in Q => Cardinality(Q \ {t}) = Cardinality(Q) - 1)
    BY <1>1, FS_RemoveElement
  <1>5. P \subseteq Q => Cardinality(P) \in Nat /\ Cardinality(P) <= Cardinality(Q)
    BY <1>1, <1>2
  <1>6. P \subseteq Q \cup {t} => Cardinality(P) \in Nat /\ Cardinality(P) <= Cardinality(Q) + 1
    <2> SUFFICES ASSUME P \subseteq Q \cup {t}
                 PROVE  Cardinality(P) \in Nat /\ Cardinality(P) <= Cardinality(Q) + 1
      OBVIOUS
    <2>1. Cardinality(P) \in Nat /\ Cardinality(P) <= Cardinality(Q \cup {t})
      BY <1>2, <1>3
    <2> QED BY <1>1, <1>3, <2>1
  <1>7. P \subseteq Q \ {t} /\ t \in Q => Cardinality(P) \in Nat /\ Cardinality(P) + 1 <= Cardinality(Q)
    <2> SUFFICES ASSUME P \subseteq Q \ {t}, t \in Q
                 PROVE  Cardinality(P) \in Nat /\ Cardinality(P) + 1 <= Cardinality(Q)
      OBVIOUS
    <2>1. Cardinality(P) \in Nat /\ Cardinality(P) <= Cardinality(Q \ {t})
      BY <1>2, <1>4
    <2> QED BY <1>1, <1>4, <2>1
  <1> QED BY <1>1, <1>5, <1>6, <1>7

\* The newest entry is the last, and its hash what the next one has before it.
LEMMA NewestIsLast ==
    ASSUME ChainOK
    PROVE  /\ log # {} => Newest \in log /\ \A f \in log : f.seq <= Newest.seq
           /\ HeadHash = IF log = {} THEN << >> ELSE Latest(log).hash
           /\ \A e \in log \cup lost : e.hash \in Seq(Nat)
           /\ HeadHash \in Seq(Nat)
  <1>1. \A e \in log : e.seq \in Nat /\ e.seq <= issued
    BY DEF ChainOK, IsEntry
  <1>2. log # {} => Newest \in log /\ \A f \in log : f.seq <= Newest.seq
    <2>1. issued \in Nat
      BY DEF ChainOK
    <2> QED BY <1>1, <2>1, LatestIsLast DEF Newest
  <1>3. \A e \in log \cup lost : e.hash \in Seq(Nat)
    <2> TAKE e \in log \cup lost
    <2>1. e.prev \in Seq(Nat) /\ e.entry \in Nat /\ e.hash = Append(e.prev, e.entry)
      BY DEF ChainOK, IsEntry
    <2> QED BY <2>1
  <1>4. HeadHash = IF log = {} THEN << >> ELSE Latest(log).hash
    BY DEF HeadHash, Newest
  <1>5. HeadHash \in Seq(Nat)
    BY <1>2, <1>3, EmptyRange DEF HeadHash
  <1> QED BY <1>2, <1>3, <1>4, <1>5

LEMMA InChainStays ==
    ASSUME NEW step, NEW c, InChain(step, c), log' = log, issued \in Nat, issued' \in Nat, issued <= issued'
    PROVE  InChain(step, c)'
  <1>1. HeadHash' = HeadHash
    BY DEF HeadHash, Newest
  <1>2. ASSUME NEW e, Follows(e) PROVE Follows(e)'
    BY <1>1, <1>2 DEF Follows, IsEntry
  <1>3. CASE step = "append"
    BY <1>1, <1>3 DEF InChain
  <1>4. CASE step = "commit" /\ c.op = "audit"
    <2>1. PICK e : c.appended = {e} /\ Follows(e) /\ e.entry = c.entry
      BY <1>4 DEF InChain
    <2>2. Follows(e)'
      BY <1>2, <2>1
    <2> QED BY <1>4, <2>1, <2>2 DEF InChain
  <1> QED BY <1>3, <1>4 DEF InChain

LEMMA ChainStays ==
    ASSUME ChainOK, UNCHANGED <<log, lost>>, issued' \in Nat, \A e \in log : e.seq <= issued',
           issued' + Cardinality(Unplaced') <= calls', \A u \in Threads : InChain(pc[u], tx[u])'
    PROVE  ChainOK'
  <1>1. ChainValid'
    BY ChainedIsValid DEF ChainOK
  <1>2. \A e \in log' \cup lost' : IsEntry(e)
    BY DEF ChainOK
  <1> QED BY <1>1, <1>2 DEF ChainOK, IsEntry

\* t neither takes a position nor changes the log.
LEMMA ChainQuiet ==
    ASSUME ChainOK, calls \in Nat, NEW t \in Threads, Moves(t), UNCHANGED <<log, lost, issued>>,
           InChain(pc[t], tx[t])',
           (calls' = calls /\ (t \in Unplaced' => t \in Unplaced)) \/ calls' = calls + 1
    PROVE  ChainOK'
  <1>1. issued \in Nat /\ \A u \in Threads : InChain(pc[u], tx[u])
    BY DEF ChainOK
  <1>2. ASSUME NEW u \in Threads PROVE InChain(pc[u], tx[u])'
    <2>1. CASE u = t
      BY <2>1
    <2>2. CASE u # t
      <3>1. PICK step, c : step = pc'[u] /\ c = tx'[u]
        OBVIOUS
      <3>2. InChain(step, c)
        BY <1>1, <2>2, <3>1 DEF Moves
      <3>3. InChain(step, c)'
        BY <1>1, <3>2, InChainStays
      <3> QED BY <3>1, <3>3 DEF InChain
    <2> QED BY <2>1, <2>2
  <1>3. Unplaced' \subseteq Unplaced \cup {t} /\ Unplaced \subseteq Threads
    BY DEF Unplaced, Moves
  <1>4. issued' + Cardinality(Unplaced') <= calls'
    <2> DEFINE n == Cardinality(Unplaced)
               m == Cardinality(Unplaced')
    <2>1. n \in Nat /\ m \in Nat /\ m <= n + 1 /\ (t \in Unplaced' => t \in Unplaced) => m <= n
      <3>1. (t \in Unplaced' => t \in Unplaced) => Unplaced' \subseteq Unplaced
        BY <1>3
      <3> QED BY <1>3, <3>1, UnplacedCounts
    <2>2. n \in Nat /\ m \in Nat /\ m <= n + 1
      BY <1>3, UnplacedCounts
    <2>3. issued + n <= calls
      BY DEF ChainOK
    <2> HIDE DEF n, m
    <2>4. issued' + m <= calls'
      BY <1>1, <2>1, <2>2, <2>3
    <2> QED BY <2>4 DEF m
  <1>5. \A e \in log : e.seq <= issued'
    BY DEF ChainOK
  <1> QED BY <1>1, <1>2, <1>4, <1>5, ChainStays

\* t takes the next position.
LEMMA ChainPlaces ==
    ASSUME LocksOK, RowsOK, EntriesOK, ChainOK, NEW t \in Threads, NEW step, NEW c, Chains(t, step, c),
           pc[t] = "append"
    PROVE  ChainOK'
  <1>1. /\ Moves(t) /\ pc'[t] = step /\ tx'[t] = c /\ UNCHANGED <<log, lost, dialect, calls>>
        /\ tx[t].op = "audit" /\ c.op = "audit" /\ c.entry = tx[t].entry
    BY GoesMoves DEF Chains, Goes, sink, setting
  <1>2. /\ step = "commit"
        /\ issued' = IF dialect = "postgres" THEN issued + 1 ELSE IF log = {} THEN 1 ELSE Newest.seq + 1
        /\ \E prev \in {CHOOSE h \in tx[t].appended : TRUE} :
             c.appended = {[seq |-> issued', entry |-> tx[t].entry, prev |-> prev,
                            hash |-> Append(prev, tx[t].entry)]}
    BY DEF Chains
  <1>3. tx[t].appended = {HeadHash} /\ issued \in Nat /\ calls \in Nat /\ tx[t].entry \in Nat
    <2>1. tx[t].appended = {HeadHash} /\ issued \in Nat
      BY <1>1 DEF ChainOK, InChain
    <2>2. calls \in Nat /\ tx[t].entry \in Nat
      BY <1>1, StoreAssumption DEF EntriesOK, AuditCall, LocksOK
    <2> QED BY <2>1, <2>2
  <1>4. PICK e : /\ c.appended = {e} /\ e.seq = issued' /\ e.entry = tx[t].entry
                 /\ e.prev = HeadHash /\ e.hash = Append(e.prev, e.entry)
    <2>1. PICK prev : /\ prev = CHOOSE h \in tx[t].appended : TRUE
                      /\ c.appended = {[seq |-> issued', entry |-> tx[t].entry, prev |-> prev,
                                        hash |-> Append(prev, tx[t].entry)]}
      BY <1>2
    <2>2. prev = HeadHash
      BY <1>3, <2>1
    <2> DEFINE f == [seq |-> issued', entry |-> tx[t].entry, prev |-> prev,
                     hash |-> Append(prev, tx[t].entry)]
    <2>3. /\ f.seq = issued' /\ f.entry = tx[t].entry /\ f.prev = HeadHash
          /\ f.hash = Append(f.prev, f.entry)
      BY <2>2
    <2> HIDE DEF f
    <2>4. c.appended = {f}
      BY <2>1 DEF f
    <2> QED BY <2>3, <2>4
  <1>5. \A f \in log : f.seq \in Nat \ {0} /\ f.seq <= issued
    BY DEF ChainOK, IsEntry
  <1>6. /\ issued' \in Nat \ {0} /\ issued' <= issued + 1
        /\ \A f \in log : f.seq < issued' /\ f.seq <= issued'
    <2>1. log # {} => Newest \in log /\ \A f \in log : f.seq <= Newest.seq
      BY NewestIsLast
    <2>2. CASE log = {}
      BY <1>2, <1>3, <2>2
    <2>3. CASE log # {}
      BY <1>2, <1>3, <1>5, <2>1, <2>3
    <2> QED BY <2>2, <2>3
  <1>7. InChain(step, c)'
    <2>1. HeadHash' = HeadHash /\ HeadHash \in Seq(Nat)
      BY <1>1, NewestIsLast DEF HeadHash, Newest
    <2>2. Follows(e)'
      BY <1>1, <1>3, <1>4, <1>6, <2>1 DEF Follows, IsEntry
    <2> QED BY <1>1, <1>2, <1>4, <2>2 DEF InChain
  <1>8. ASSUME NEW u \in Threads PROVE InChain(pc[u], tx[u])'
    <2>1. CASE u = t
      BY <1>1, <1>7, <2>1 DEF InChain
    <2>2. CASE u # t
      <3>1. ~AtHead(pc[u], tx[u])
        BY <1>1, <2>2, HeadAlone DEF AtHead
      <3> QED BY <1>1, <2>2, <3>1 DEF InChain, AtHead, Moves
    <2> QED BY <2>1, <2>2
  <1>9. issued' + Cardinality(Unplaced') <= calls'
    <2> DEFINE n == Cardinality(Unplaced)
               m == Cardinality(Unplaced')
    <2>1. Unplaced' \subseteq Unplaced \ {t} /\ t \in Unplaced /\ Unplaced \subseteq Threads
      BY <1>1, <1>2 DEF Unplaced, Moves
    <2>2. n \in Nat /\ m \in Nat /\ m + 1 <= n
      BY <2>1, UnplacedCounts
    <2>3. issued + n <= calls
      BY DEF ChainOK
    <2> HIDE DEF n, m
    <2>4. issued' \in Nat /\ issued' <= issued + 1 /\ issued \in Nat /\ calls \in Nat
      BY <1>3, <1>6
    <2>5. \A i \in Nat, j \in Nat, k \in Nat, l \in Nat, h \in Nat :
            j <= i + 1 /\ k + 1 <= l /\ i + l <= h => j + k <= h
      OBVIOUS
    <2>6. issued' + m <= calls
      BY <2>2, <2>3, <2>4, <2>5
    <2> QED BY <1>1, <2>6 DEF m
  <1> QED BY <1>1, <1>3, <1>6, <1>8, <1>9, ChainStays

LEMMA InsideChain ==
    ASSUME LocksOK, RowsOK, EntriesOK, ChainOK, NEW t \in Threads, Inside(t)
    PROVE  ChainOK'
  <1>1. Moves(t) /\ UNCHANGED <<log, lost, calls>> /\ calls \in Nat
    BY InsideKeeps, InsideQuiet, StoreAssumption DEF sink, EntriesOK, LocksOK
  <1>2. ASSUME NEW step, NEW c, Goes(t, step, c), issued' = issued, InChain(step, c),
               c.op = "audit" => pc[t] \in {"lock", "chain", "head", "append"}
        PROVE  ChainOK'
    <2>1. pc'[t] = step /\ tx'[t] = c /\ c.op = tx[t].op
      BY <1>2, GoesMoves DEF Goes
    <2>2. InChain(step, c)' /\ issued \in Nat
      BY <1>1, <1>2, InChainStays DEF ChainOK
    <2>3. InChain(pc[t], tx[t])'
      BY <2>1, <2>2 DEF InChain
    <2>4. t \in Unplaced' => t \in Unplaced
      BY <1>2, <2>1 DEF Unplaced
    <2> QED BY <1>1, <1>2, <2>3, <2>4, ChainQuiet
  <1>3. CASE \E step : Enters(t, step)
    BY <1>2, <1>3 DEF Enters, InChain, Goes
  <1>4. CASE \E step, c : Works(t, step, c)
    BY <1>2, <1>4 DEF Works, InChain
  <1>5. CASE \E c : Retries(t, c)
    BY <1>2, <1>5 DEF Retries, InChain
  <1>6. CASE \E how : Fails(t, how)
    <2>1. pc'[t] = "idle" /\ issued' = issued
      BY <1>6, FinishMoves DEF Fails, sink, database
    <2>2. InChain(pc[t], tx[t])' /\ t \notin Unplaced'
      BY <2>1 DEF InChain, Unplaced
    <2> QED BY <1>1, <2>1, <2>2, ChainQuiet
  <1>7. CASE \E step, c : Chains(t, step, c)
    <2>1. PICK step, c : Chains(t, step, c)
      BY <1>7
    <2>2. CASE pc[t] = "append"
      BY <2>1, <2>2, ChainPlaces
    <2>3. CASE pc[t] # "append"
      BY <1>2, <2>1, <2>3 DEF Chains, InChain
    <2> QED BY <2>2, <2>3
  <1> QED BY <1>3, <1>4, <1>5, <1>6, <1>7 DEF Inside

\* The new entry goes behind the newest, and no other call is at the head.
LEMMA CommitChain ==
    ASSUME LocksOK, RowsOK, EntriesOK, ChainOK, NEW t \in Threads, Commit(t), UNCHANGED sink
    PROVE  ChainOK'
  <1>1. /\ Moves(t) /\ pc'[t] = "idle" /\ pc[t] = "commit"
        /\ log' = log \cup tx[t].appended /\ UNCHANGED <<issued, calls, lost>>
    BY CommitLocks DEF sink
  <1>2. calls \in Nat /\ InChain(pc[t], tx[t])' /\ t \notin Unplaced' /\ issued \in Nat
    BY <1>1, StoreAssumption DEF EntriesOK, LocksOK, InChain, Unplaced, ChainOK
  <1>3. CASE tx[t].op # "audit"
    <2>1. log' = log
      BY <1>1, <1>3 DEF RowsOK, Shape
    <2> QED BY <1>1, <1>2, <2>1, ChainQuiet
  <1>4. CASE tx[t].op = "audit"
    <2>1. PICK e : tx[t].appended = {e} /\ Follows(e)
      BY <1>1, <1>4 DEF ChainOK, InChain
    <2>2. log' = log \cup {e}
      BY <1>1, <2>1
    <2>3. IsEntry(e) /\ e.prev = HeadHash /\ e.seq <= issued /\ \A f \in log : f.seq < e.seq
      BY <2>1 DEF Follows
    <2>4. /\ IsFiniteSet(log') /\ \A f \in log' \cup lost' : IsEntry(f)
          /\ \A f \in log' : f.seq <= issued'
      BY <1>1, <2>2, <2>3, FS_AddElement DEF ChainOK
    <2>5. \A f \in log', g \in log' : f.seq = g.seq => f = g
      BY <2>2, <2>3, <2>4 DEF ChainOK, IsEntry
    <2>6. ChainValid'
      <3>1. Chained(log) /\ \A f \in log : f.seq \in Int
        BY ChainedIsValid DEF ChainOK, IsEntry
      <3>2. e.prev = (IF log = {} THEN << >> ELSE Latest(log).hash) /\ e.hash = Append(e.prev, e.entry)
        BY <2>3, NewestIsLast DEF IsEntry
      <3>3. e.seq \in Int /\ \A f \in log : f.seq \in Int /\ f.seq < e.seq
        BY <2>3, <3>1 DEF IsEntry
      <3>4. Chained(log \cup {e})
        <4> HIDE DEF Chained
        <4> QED BY <3>1, <3>2, <3>3, ChainGrows
      <3> QED BY <2>2, <3>4, ChainedIsValid
    <2>7. issued' + Cardinality(Unplaced') <= calls'
      <3> DEFINE n == Cardinality(Unplaced)
                 m == Cardinality(Unplaced')
      <3>1. Unplaced' \subseteq Unplaced /\ Unplaced \subseteq Threads
        BY <1>1, <1>2 DEF Unplaced, Moves
      <3>2. n \in Nat /\ m \in Nat /\ m <= n
        BY <3>1, UnplacedCounts
      <3>3. issued + n <= calls
        BY DEF ChainOK
      <3> HIDE DEF n, m
      <3>4. issued + m <= calls
        BY <1>2, <3>2, <3>3
      <3> QED BY <1>1, <3>4 DEF m
    <2>8. ASSUME NEW u \in Threads PROVE InChain(pc[u], tx[u])'
      <3>1. CASE u = t
        BY <1>2, <3>1
      <3>2. CASE u # t
        <4>1. ~AtHead(pc[u], tx[u])
          BY <1>1, <1>4, <3>2, HeadAlone DEF AtHead
        <4> QED BY <1>1, <3>2, <4>1 DEF InChain, AtHead, Moves
      <3> QED BY <3>1, <3>2
    <2>9. issued' \in Nat
      BY <1>1, <1>2
    <2> QED BY <2>4, <2>5, <2>6, <2>7, <2>8, <2>9 DEF ChainOK, IsEntry
  <1> QED BY <1>3, <1>4

\* The backup is a beginning of the chain.
LEMMA RestoreChain ==
    ASSUME LocksOK, RowsOK, EntriesOK, ChainOK, BackupOK, Restore
    PROVE  ChainOK'
  <1>1. /\ backup # None /\ log' = backup.log /\ lost' = lost \cup (log \ backup.log)
        /\ issued' = backup.issued /\ UNCHANGED <<calls, pc, tx>> /\ \A t \in Threads : pc[t] = "idle"
    BY DEF Restore
  <1>2. /\ log' \subseteq log /\ log' \cup lost' \subseteq log \cup lost
        /\ \A e \in log', f \in log \ log' : e.seq < f.seq
        /\ issued' \in 0..calls /\ \A e \in log' : e.seq <= issued'
    BY <1>1 DEF BackupOK
  <1>3. calls \in Nat
    BY StoreAssumption DEF EntriesOK, LocksOK
  <1>4. ChainValid'
    <2>1. Chained(log) /\ \A e \in log : e.seq \in Nat
      BY ChainedIsValid DEF ChainOK, IsEntry
    <2>2. \A e \in log' : Before(log', e) = Before(log, e)
      BY <1>2, <2>1 DEF Before
    <2>3. Chained(log')
      BY <1>2, <2>1, <2>2, SamePast
    <2> QED BY <2>3, ChainedIsValid
  <1>5. Unplaced' = {} /\ \A t \in Threads : InChain(pc[t], tx[t])'
    BY <1>1 DEF Unplaced, InChain
  <1>6. issued' + Cardinality(Unplaced') <= calls'
    <2>1. Cardinality(Unplaced') = 0
      BY <1>5, FS_EmptySet
    <2> QED BY <1>1, <1>2, <1>3, <2>1
  <1>7. IsFiniteSet(log')
    BY <1>2, FS_Subset DEF ChainOK
  <1> QED BY <1>2, <1>3, <1>4, <1>5, <1>6, <1>7 DEF ChainOK, IsEntry

LEMMA ChainKeeps ==
    ASSUME LocksOK, RowsOK, EntriesOK, ChainOK, BackupOK, [Next]_allVars
    PROVE  ChainOK'
  <1>1. calls \in Nat
    BY StoreAssumption DEF EntriesOK, LocksOK
  <1>2. ASSUME UNCHANGED vars, UNCHANGED lost PROVE ChainOK'
    <2>1. UNCHANGED <<log, lost, issued, calls, pc, tx>>
      BY <1>2 DEF vars, control, database
    <2> QED BY <2>1 DEF ChainOK, ChainValid, Unplaced, InChain, Follows, HeadHash, Newest, IsEntry
  <1>3. CASE UNCHANGED allVars
    BY <1>2, <1>3 DEF allVars, sink
  <1>4. CASE BackUp
    BY <1>2, <1>4 DEF BackUp
  <1>5. ASSUME NEW p \in Processes, CrashAll(p) PROVE ChainOK'
    <2>1. UNCHANGED <<log, issued, calls, lost>>
      BY <1>5 DEF CrashAll, Crash, database
    <2>2. \A t \in Threads : (pc'[t] = pc[t] /\ tx'[t] = tx[t]) \/ pc'[t] = "idle"
      BY <1>5 DEF CrashAll, Crash
    <2>3. Unplaced' \subseteq Unplaced /\ Unplaced \subseteq Threads
      BY <2>2 DEF Unplaced
    <2>4. issued' + Cardinality(Unplaced') <= calls'
      <3> DEFINE n == Cardinality(Unplaced)
                 m == Cardinality(Unplaced')
      <3>1. n \in Nat /\ m \in Nat /\ m <= n
        BY <2>3, UnplacedCounts
      <3>2. issued + n <= calls /\ issued \in Nat
        BY DEF ChainOK
      <3> HIDE DEF n, m
      <3>3. issued + m <= calls
        BY <1>1, <3>1, <3>2
      <3> QED BY <2>1, <3>3 DEF m
    <2>5. ASSUME NEW u \in Threads PROVE InChain(pc[u], tx[u])'
      <3>1. CASE pc'[u] = "idle"
        BY <3>1 DEF InChain
      <3>2. CASE pc'[u] = pc[u] /\ tx'[u] = tx[u]
        <4>1. PICK step, c : step = pc'[u] /\ c = tx'[u]
          OBVIOUS
        <4>2. InChain(step, c) /\ issued \in Nat
          BY <3>2, <4>1 DEF ChainOK
        <4>3. InChain(step, c)'
          BY <2>1, <4>2, InChainStays
        <4> QED BY <4>1, <4>3 DEF InChain
      <3> QED BY <2>2, <3>1, <3>2
    <2>6. issued' \in Nat /\ \A e \in log : e.seq <= issued'
      BY <2>1 DEF ChainOK
    <2> QED BY <2>1, <2>4, <2>5, <2>6, ChainStays
  <1>6. ASSUME NEW t \in Threads, Outside(t),
               (calls' = calls /\ (t \in Unplaced' => t \in Unplaced)) \/ calls' = calls + 1
        PROVE  ChainOK'
    <2>1. UNCHANGED <<log, lost, issued>> /\ Moves(t)
      BY <1>6 DEF Outside, database
    <2>2. InChain(pc[t], tx[t])'
      BY <1>6 DEF Outside, InChain, TxSteps
    <2> QED BY <1>1, <1>6, <2>1, <2>2, ChainQuiet
  <1>7. ASSUME NEW t \in Threads, NEW c \in workload.requests, c.op \notin {"anchor", "verify"},
               Begin(t, c), UNCHANGED sink
        PROVE  ChainOK'
    BY <1>6, <1>7, BeginOutside DEF Begin
  <1>8. ASSUME NEW t \in Threads, NEW auto, Start(t, auto), UNCHANGED sink PROVE ChainOK'
    <2>1. Outside(t) /\ tx'[t].op = "start" /\ UNCHANGED calls
      BY <1>8, StartOutside DEF Start
    <2>2. t \notin Unplaced'
      BY <2>1 DEF Unplaced
    <2> QED BY <1>6, <2>1, <2>2
  <1>9. ASSUME NEW t \in Threads, NEW op \in {"anchor", "verify"}, AnchorBegin(t, op) PROVE ChainOK'
    BY <1>6, <1>9, AnchorBeginOutside DEF AnchorBegin
  <1>10. ASSUME NEW t \in Threads, AnchorStep(t) PROVE ChainOK'
    <2>1. Outside(t) /\ UNCHANGED calls /\ tx[t].op \in {"anchor", "verify"}
      BY <1>10, AnchorStepOutside
    <2>2. pc'[t] = "idle" \/ tx'[t] = tx[t]
      BY <1>10, AnchorStepOutside
    <2>3. t \notin Unplaced'
      BY <2>1, <2>2 DEF Unplaced
    <2> QED BY <1>6, <2>1, <2>3
  <1>11. CASE Next
    BY <1>4, <1>5, <1>7, <1>8, <1>9, <1>10, <1>11, NextKinds, InsideChain, CommitChain, RestoreChain
  <1> QED BY <1>3, <1>11

\* What a step does to the log: nothing, or it commits or restores.
LEMMA LogSteps ==
    ASSUME LocksOK, RowsOK, [Next]_allVars
    PROVE  \/ /\ UNCHANGED <<rows, log, lost, workload>> /\ (UNCHANGED backup \/ BackUp)
              /\ calls' = calls \/ calls' = calls + 1
           \/ \E t \in Threads : Commit(t) /\ UNCHANGED sink
           \/ Restore
  <1> DEFINE Quiet == /\ UNCHANGED <<rows, log, lost, workload>> /\ (UNCHANGED backup \/ BackUp)
                      /\ calls' = calls \/ calls' = calls + 1
  <1>1. CASE UNCHANGED allVars
    BY <1>1 DEF allVars, vars, database, setting, sink
  <1>2. BackUp => Quiet
    BY DEF BackUp, vars, database, setting
  <1>3. ASSUME NEW t \in Threads, Outside(t), calls' = calls \/ calls' = calls + 1 PROVE Quiet
    BY <1>3 DEF Outside, database, setting
  <1>4. ASSUME NEW t \in Threads, Inside(t) PROVE Quiet
    BY <1>4, InsideQuiet DEF setting, sink
  <1>5. ASSUME NEW p \in Processes, CrashAll(p) PROVE Quiet
    BY <1>5 DEF CrashAll, Crash, database, setting
  <1>6. ASSUME NEW t \in Threads, NEW c \in workload.requests, c.op \notin {"anchor", "verify"},
               Begin(t, c), UNCHANGED sink
        PROVE  Quiet
    <2>1. Outside(t) /\ calls' = calls + 1
      BY <1>6, BeginOutside DEF Begin
    <2> QED BY <1>3, <2>1
  <1>7. ASSUME NEW t \in Threads, NEW auto, Start(t, auto), UNCHANGED sink PROVE Quiet
    <2>1. Outside(t) /\ calls' = calls
      BY <1>7, StartOutside DEF Start
    <2> QED BY <1>3, <2>1
  <1>8. ASSUME NEW t \in Threads, NEW op \in {"anchor", "verify"}, AnchorBegin(t, op) PROVE Quiet
    <2>1. Outside(t) /\ calls' = calls + 1
      BY <1>8, AnchorBeginOutside DEF AnchorBegin
    <2> QED BY <1>3, <2>1
  <1>9. ASSUME NEW t \in Threads, AnchorStep(t) PROVE Quiet
    <2>1. Outside(t) /\ calls' = calls
      BY <1>9, AnchorStepOutside
    <2> QED BY <1>3, <2>1
  <1>10. CASE Next
    <2> HIDE DEF Quiet
    <2>1. Quiet \/ (\E t \in Threads : Commit(t) /\ UNCHANGED sink) \/ Restore
      BY <1>2, <1>4, <1>5, <1>6, <1>7, <1>8, <1>9, <1>10, NextKinds
    <2> QED BY <2>1 DEF Quiet
  <1> QED BY <1>1, <1>10

\* A commit puts at most the entry of its call behind the newest.
LEMMA CommitLog ==
    ASSUME LocksOK, RowsOK, ChainOK, NEW t \in Threads, Commit(t), UNCHANGED sink
    PROVE  /\ UNCHANGED <<lost, backup, workload, calls>> /\ rows \subseteq rows'
           /\ \/ log' = log /\ tx[t].op # "audit"
              \/ /\ tx[t].op = "audit"
                 /\ \E e : Follows(e) /\ e.entry = tx[t].entry /\ log' = log \cup {e}
  <1>1. /\ pc[t] = "commit" /\ rows' = rows \cup tx[t].staged /\ log' = log \cup tx[t].appended
        /\ UNCHANGED <<lost, backup, workload, calls>>
    BY CommitLocks DEF setting, sink
  <1>2. CASE tx[t].op # "audit"
    BY <1>1, <1>2 DEF RowsOK, Shape
  <1>3. CASE tx[t].op = "audit"
    <2>1. PICK e : tx[t].appended = {e} /\ Follows(e) /\ e.entry = tx[t].entry
      BY <1>1, <1>3 DEF ChainOK, InChain
    <2> QED BY <1>1, <1>3, <2>1
  <1> QED BY <1>2, <1>3

LEMMA BackupKeeps ==
    ASSUME LocksOK, RowsOK, EntriesOK, ChainOK, BackupOK, [Next]_allVars
    PROVE  BackupOK'
  <1>1. calls \in Nat /\ issued \in Nat /\ issued <= calls
    <2>1. calls \in Nat /\ issued \in Nat /\ issued + Cardinality(Unplaced) <= calls
      BY StoreAssumption DEF EntriesOK, LocksOK, ChainOK
    <2>2. Cardinality(Unplaced) \in Nat
      BY UnplacedCounts DEF Unplaced
    <2> QED BY <2>1, <2>2
  <1>2. ASSUME backup' = backup, rows \subseteq rows', log \subseteq log',
               \A e \in log, f \in log' \ log : e.seq < f.seq, calls' = calls \/ calls' = calls + 1
        PROVE  BackupOK'
    BY <1>1, <1>2 DEF BackupOK
  <1>3. CASE BackUp
    <2>1. /\ backup' = [rows |-> rows, log |-> log, issued |-> issued]
          /\ UNCHANGED <<rows, log, issued, calls>>
      BY <1>3 DEF BackUp, vars, database
    <2>2. backup'.rows = rows /\ backup'.log = log /\ backup'.issued = issued
      BY <2>1
    <2>3. \A e \in log : e.seq <= issued
      BY DEF ChainOK
    <2> QED BY <1>1, <2>1, <2>2, <2>3 DEF BackupOK
  <1>4. CASE Restore
    BY <1>4 DEF Restore, BackupOK
  <1>5. ASSUME NEW t \in Threads, Commit(t), UNCHANGED sink PROVE BackupOK'
    <2>1. /\ UNCHANGED <<backup, calls>> /\ rows \subseteq rows'
          /\ log' = log \/ \E e : Follows(e) /\ log' = log \cup {e}
      BY <1>5, CommitLog
    <2> QED BY <1>2, <2>1 DEF Follows
  <1> QED BY <1>2, <1>3, <1>4, <1>5, LogSteps

-----------------------------------------------------------------------------
(* Positions in the log, and what a hash spells.                           *)

UpIn(S, e) == {f \in S : f.seq <= e.seq}

NthIn(S, n) == CHOOSE e \in S : Cardinality(UpIn(S, e)) = n

SpelledIn(S) == \A e \in S : e.hash = [i \in 1..Cardinality(UpIn(S, e)) |-> NthIn(S, i).entry]

IsLog(S) ==
    /\ IsFiniteSet(S) /\ \A e \in S : e.seq \in Int
    /\ \A e \in S, f \in S : e.seq = f.seq => e = f

LEMMA PositionsIn ==
    /\ \A e : UpTo(e) = UpIn(log, e) /\ \A n : Nth(n) = NthIn(log, n)
    /\ Spelled <=> SpelledIn(log)
    /\ Spelled' <=> SpelledIn(log')
  BY DEF UpTo, UpIn, Nth, NthIn, Spelled, SpelledIn

LEMMA Places ==
    ASSUME NEW S, IsLog(S)
    PROVE  /\ Cardinality(S) \in Nat
           /\ \A e \in S : Cardinality(UpIn(S, e)) \in 1..Cardinality(S) /\ NthIn(S, Cardinality(UpIn(S, e))) = e
           /\ \A n \in 1..Cardinality(S) : NthIn(S, n) \in S /\ Cardinality(UpIn(S, NthIn(S, n))) = n
  <1> DEFINE number == [e \in S |-> e.seq]
  <1>1. /\ IsFiniteSet(S) /\ number \in [S -> Int]
        /\ \A x \in S, y \in S : number[x] = number[y] => x = y
    BY DEF IsLog
  <1>2. \A e \in S : Place(S, number, e) = Cardinality(UpIn(S, e))
    <2> TAKE e \in S
    <2>1. Below(S, number, e) = UpIn(S, e)
      BY DEF Below, UpIn
    <2> QED BY <2>1, Zenon DEF Place
  <1>3. /\ Cardinality(S) \in Nat
        /\ \A x \in S : Place(S, number, x) \in 1..Cardinality(S)
        /\ \A x \in S, y \in S : Place(S, number, x) = Place(S, number, y) => x = y
        /\ \A i \in 1..Cardinality(S) : \E x \in S : Place(S, number, x) = i
    <2> HIDE DEF number
    <2> QED BY <1>1, PlacesAreTaken
  <1> HIDE DEF number
  <1>4. /\ \A x \in S : Cardinality(UpIn(S, x)) \in 1..Cardinality(S)
        /\ \A x \in S, y \in S : Cardinality(UpIn(S, x)) = Cardinality(UpIn(S, y)) => x = y
        /\ \A i \in 1..Cardinality(S) : \E x \in S : Cardinality(UpIn(S, x)) = i
    BY <1>2, <1>3
  <1>5. \A n \in 1..Cardinality(S) : NthIn(S, n) \in S /\ Cardinality(UpIn(S, NthIn(S, n))) = n
    BY <1>4 DEF NthIn
  <1> QED BY <1>3, <1>4, <1>5

\* T is a beginning of the log S.
Begins(T, S) == T \subseteq S /\ \A e \in T, f \in S \ T : e.seq < f.seq

LEMMA BeginningPlaces ==
    ASSUME NEW S, NEW T, IsLog(S), Begins(T, S)
    PROVE  /\ IsLog(T) /\ Cardinality(T) \in 0..Cardinality(S)
           /\ \A e \in T : UpIn(T, e) = UpIn(S, e)
           /\ \A n \in 1..Cardinality(T) : NthIn(T, n) = NthIn(S, n)
  <1>1. IsLog(T) /\ Cardinality(T) <= Cardinality(S)
    BY FS_Subset DEF IsLog, Begins
  <1>2. Cardinality(T) \in Nat /\ Cardinality(S) \in Nat
    BY <1>1, Places
  <1>3. \A e \in T : UpIn(T, e) = UpIn(S, e)
    <2>1. \A e \in T, f \in S \ T : e.seq \in Int /\ f.seq \in Int /\ e.seq < f.seq
      BY DEF IsLog, Begins
    <2> QED BY <2>1 DEF UpIn, Begins
  <1>4. ASSUME NEW n \in 1..Cardinality(T) PROVE NthIn(T, n) = NthIn(S, n)
    <2> DEFINE e == NthIn(T, n)
    <2>1. e \in T /\ Cardinality(UpIn(T, e)) = n
      BY <1>1, Places
    <2> HIDE DEF e
    <2>2. e \in S /\ Cardinality(UpIn(S, e)) = n
      BY <1>3, <2>1 DEF Begins
    <2>3. NthIn(S, n) = e
      BY <2>2, Places
    <2> QED BY <2>3 DEF e
  <1> QED BY <1>1, <1>2, <1>3, <1>4

LEMMA NextPlace ==
    ASSUME NEW S, IsLog(S), NEW e, e.seq \in Int, \A f \in S : f.seq < e.seq
    PROVE  /\ IsLog(S \cup {e}) /\ Begins(S, S \cup {e}) /\ Cardinality(S \cup {e}) = Cardinality(S) + 1
           /\ UpIn(S \cup {e}, e) = S \cup {e} /\ NthIn(S \cup {e}, Cardinality(S) + 1) = e
  <1>1. e \notin S /\ Begins(S, S \cup {e})
    BY DEF Begins, IsLog
  <1>2. IsLog(S \cup {e})
    <2>1. IsFiniteSet(S \cup {e})
      BY FS_AddElement DEF IsLog
    <2> QED BY <2>1 DEF IsLog
  <1>3. Cardinality(S \cup {e}) = Cardinality(S) + 1
    BY <1>1, FS_AddElement DEF IsLog
  <1>4. UpIn(S \cup {e}, e) = S \cup {e}
    BY DEF UpIn, IsLog
  <1>5. NthIn(S \cup {e}, Cardinality(S \cup {e})) = e
    <2>1. NthIn(S \cup {e}, Cardinality(UpIn(S \cup {e}, e))) = e
      BY <1>2, Places
    <2> QED BY <1>4, <2>1
  <1> QED BY <1>1, <1>2, <1>3, <1>4, <1>5

LEMMA SpelledShrinks ==
    ASSUME NEW S, NEW T, IsLog(S), Begins(T, S), SpelledIn(S)
    PROVE  SpelledIn(T)
  <1> SUFFICES ASSUME NEW e \in T
               PROVE  e.hash = [i \in 1..Cardinality(UpIn(T, e)) |-> NthIn(T, i).entry]
    BY DEF SpelledIn
  <1> DEFINE n == Cardinality(UpIn(T, e))
  <1>1. e \in S /\ UpIn(T, e) = UpIn(S, e) /\ n \in 1..Cardinality(T) /\ Cardinality(T) \in Nat
    BY BeginningPlaces, Places DEF Begins
  <1>2. e.hash = [i \in 1..n |-> NthIn(S, i).entry]
    BY <1>1 DEF SpelledIn
  <1>3. \A i \in 1..Cardinality(T) : NthIn(T, i) = NthIn(S, i)
    BY BeginningPlaces
  <1>4. \A i \in 1..n : NthIn(T, i) = NthIn(S, i)
    BY <1>1, <1>3
  <1> HIDE DEF n
  <1>5. [i \in 1..n |-> NthIn(S, i).entry] = [i \in 1..n |-> NthIn(T, i).entry]
    BY <1>4
  <1> QED BY <1>2, <1>5 DEF n

LEMMA AppendedAsFunction ==
    ASSUME NEW n \in Nat, NEW f, NEW v
    PROVE  Append([i \in 1..n |-> f[i]], v) = [i \in 1..(n + 1) |-> IF i <= n THEN f[i] ELSE v]
  <1> DEFINE s == [i \in 1..n |-> f[i]]
             V == {f[i] : i \in 1..n} \cup {v}
             longer == [i \in 1..(n + 1) |-> IF i <= n THEN f[i] ELSE v]
  <1>1. s \in [1..n -> V] /\ v \in V
    OBVIOUS
  <1>2. longer \in [1..(n + 1) -> V] /\ \A i \in 1..n : longer[i] = s[i]
    OBVIOUS
  <1>3. longer[n + 1] = v
    OBVIOUS
  <1> HIDE DEF s, V, longer
  <1>4. s \in Seq(V) /\ Len(s) = n
    BY <1>1
  <1>5. Append(s, v) = longer
    <2>1. /\ Append(s, v) \in Seq(V) /\ Len(Append(s, v)) = n + 1
          /\ \A i \in 1..n : Append(s, v)[i] = s[i]
          /\ Append(s, v)[n + 1] = v
      BY <1>1, <1>4, AppendProperties
    <2>2. Append(s, v) \in [1..(n + 1) -> V]
      BY <2>1, LenProperties
    <2>3. \A i \in 1..(n + 1) : i \in 1..n \/ i = n + 1
      OBVIOUS
    <2>4. \A i \in 1..(n + 1) : Append(s, v)[i] = longer[i]
      BY <1>2, <1>3, <2>1, <2>3
    <2> QED BY <1>2, <2>2, <2>4
  <1> QED BY <1>5 DEF s, longer

\* The newest hash spells the whole log.
LEMMA NewestSpells ==
    ASSUME NEW S, IsLog(S), SpelledIn(S), NEW prev, NEW newest,
           IF S = {} THEN prev = << >>
                     ELSE newest \in S /\ (\A f \in S : f.seq <= newest.seq) /\ prev = newest.hash
    PROVE  prev = [i \in 1..Cardinality(S) |-> NthIn(S, i).entry]
  <1>1. CASE S = {}
    <2>1. Cardinality(S) = 0
      BY <1>1, FS_EmptySet
    <2> QED BY <1>1, <2>1
  <1>2. CASE S # {}
    <2>1. UpIn(S, newest) = S
      BY <1>2 DEF UpIn
    <2> QED BY <1>2, <2>1 DEF SpelledIn
  <1> QED BY <1>1, <1>2

LEMMA SpelledGrows ==
    ASSUME NEW S, IsLog(S), SpelledIn(S), NEW e, e.seq \in Int, \A f \in S : f.seq < e.seq,
           e.prev = [i \in 1..Cardinality(S) |-> NthIn(S, i).entry], e.hash = Append(e.prev, e.entry)
    PROVE  SpelledIn(S \cup {e})
  <1> DEFINE T == S \cup {e}
             n == Cardinality(S)
  <1>1. /\ IsLog(T) /\ Begins(S, T) /\ Cardinality(T) = n + 1 /\ UpIn(T, e) = T /\ NthIn(T, n + 1) = e
        /\ n \in Nat
    BY NextPlace, Places
  <1> HIDE DEF T
  <1>2. \A i \in 1..n : NthIn(S, i) = NthIn(T, i)
    BY <1>1, BeginningPlaces
  <1>3. \A f \in S : UpIn(S, f) = UpIn(T, f)
    BY <1>1, BeginningPlaces
  <1>4. ASSUME NEW f \in S PROVE f.hash = [i \in 1..Cardinality(UpIn(T, f)) |-> NthIn(T, i).entry]
    <2> DEFINE k == Cardinality(UpIn(S, f))
    <2>1. k \in 1..n
      BY Places
    <2>2. f.hash = [i \in 1..k |-> NthIn(S, i).entry]
      BY DEF SpelledIn
    <2> HIDE DEF k, n
    <2>3. \A i \in 1..k : NthIn(S, i) = NthIn(T, i)
      BY <1>1, <1>2, <2>1
    <2>4. f.hash = [i \in 1..k |-> NthIn(T, i).entry]
      BY <2>2, <2>3
    <2> QED BY <1>3, <2>4 DEF k
  <1>5. e.hash = [i \in 1..Cardinality(UpIn(T, e)) |-> NthIn(T, i).entry]
    <2> DEFINE spelled == [i \in 1..(n + 1) |-> NthIn(T, i).entry]
    <2> HIDE DEF n
    <2>1. e.prev = [i \in 1..n |-> NthIn(T, i).entry]
      BY <1>2 DEF n
    <2>2. e.hash = [i \in 1..(n + 1) |-> IF i <= n THEN spelled[i] ELSE e.entry]
      <3>1. \A i \in 1..n : NthIn(T, i).entry = spelled[i]
        BY <1>1
      <3> HIDE DEF spelled
      <3>2. e.prev = [i \in 1..n |-> spelled[i]]
        BY <2>1, <3>1
      <3>3. Append([i \in 1..n |-> spelled[i]], e.entry) =
              [i \in 1..(n + 1) |-> IF i <= n THEN spelled[i] ELSE e.entry]
        BY <1>1, AppendedAsFunction
      <3> QED BY <3>2, <3>3
    <2>3. n + 1 \in 1..(n + 1) /\ spelled[n + 1] = e.entry
      BY <1>1
    <2>4. \A i \in 1..(n + 1) : i <= n \/ i = n + 1
      BY <1>1
    <2>5. e.hash = spelled
      <3>1. spelled = [i \in 1..(n + 1) |-> spelled[i]]
        OBVIOUS
      <3> HIDE DEF spelled
      <3> QED BY <2>2, <2>3, <2>4, <3>1
    <2> QED BY <1>1, <2>5
  <1> QED BY <1>4, <1>5 DEF SpelledIn, T

LEMMA LogIsLog == ChainOK => IsLog(log)
  BY DEF ChainOK, IsLog, IsEntry

\* The next entry spells the log and itself.
LEMMA FollowingSpells ==
    ASSUME ChainOK, Spelled, NEW e, Follows(e)
    PROVE  /\ e.prev = [i \in 1..Cardinality(log) |-> NthIn(log, i).entry]
           /\ e.seq \in Int /\ (\A f \in log : f.seq < e.seq) /\ SpelledIn(log \cup {e})
  <1>1. IsLog(log) /\ SpelledIn(log)
    BY LogIsLog, PositionsIn
  <1>2. /\ e.prev = HeadHash /\ e.hash = Append(e.prev, e.entry) /\ e.seq \in Int
        /\ \A f \in log : f.seq < e.seq
    BY DEF Follows, IsEntry
  <1>3. IF log = {} THEN e.prev = << >>
                    ELSE Newest \in log /\ (\A f \in log : f.seq <= Newest.seq) /\ e.prev = Newest.hash
    BY <1>2, NewestIsLast DEF HeadHash
  <1>4. e.prev = [i \in 1..Cardinality(log) |-> NthIn(log, i).entry]
    BY <1>1, <1>3, NewestSpells
  <1> QED BY <1>1, <1>2, <1>4, SpelledGrows

LEMMA SpelledKeeps ==
    ASSUME LocksOK, RowsOK, ChainOK, BackupOK, Spelled, [Next]_allVars
    PROVE  Spelled'
  <1>1. IsLog(log) /\ SpelledIn(log)
    BY LogIsLog, PositionsIn
  <1>2. CASE log' = log
    BY <1>1, <1>2, PositionsIn
  <1>3. CASE Restore
    <2>1. Begins(log', log)
      BY <1>3 DEF Restore, BackupOK, Begins
    <2> QED BY <1>1, <2>1, SpelledShrinks, PositionsIn
  <1>4. ASSUME NEW t \in Threads, Commit(t), UNCHANGED sink PROVE Spelled'
    <2>1. log' = log \/ \E e : Follows(e) /\ log' = log \cup {e}
      BY <1>4, CommitLog
    <2>2. CASE \E e : Follows(e) /\ log' = log \cup {e}
      BY <2>2, FollowingSpells, PositionsIn
    <2> QED BY <1>2, <2>1, <2>2
  <1> QED BY <1>2, <1>3, <1>4, LogSteps

-----------------------------------------------------------------------------
(* The anchors. *)

\* What was in the log stays there or is remembered as lost.
Remembered == log \cup lost \subseteq log' \cup lost'

LEMMA LogIsRemembered ==
    ASSUME LocksOK, RowsOK, ChainOK, [Next]_allVars
    PROVE  Remembered
  <1>1. CASE Restore
    BY <1>1 DEF Restore, Remembered
  <1>2. CASE \E t \in Threads : Commit(t) /\ UNCHANGED sink
    BY <1>2, CommitLog DEF Remembered
  <1> QED BY <1>1, <1>2, LogSteps DEF Remembered

LEMMA StillRecorded ==
    ASSUME Remembered, NEW seq, NEW hash, Recorded(seq, hash)
    PROVE  Recorded(seq, hash)'
  BY DEF Remembered, Recorded

\* What the work of a call has read is on record.
ReadOK(step, w) ==
    /\ step \in {"create", "fill"} =>
         \E seq, hash, key : w = [seq |-> seq, hash |-> hash, key |-> key] /\ Recorded(seq, hash)
    /\ step = "report" => \A f \in w : Recorded(f.seq, f.hash)

LEMMA ReadStays ==
    ASSUME Remembered, NEW step, NEW w, ReadOK(step, w)
    PROVE  ReadOK(step, w)'
  <1>1. CASE step \in {"create", "fill"}
    <2>1. PICK seq, hash, key : w = [seq |-> seq, hash |-> hash, key |-> key] /\ Recorded(seq, hash)
      BY <1>1 DEF ReadOK
    <2>2. Recorded(seq, hash)'
      BY <2>1, StillRecorded
    <2> QED BY <1>1, <2>1, <2>2 DEF ReadOK
  <1>2. CASE step = "report"
    <2>1. \A f \in w : Recorded(f.seq, f.hash)'
      BY <1>2, StillRecorded DEF ReadOK
    <2> QED BY <1>2, <2>1 DEF ReadOK
  <1> QED BY <1>1, <1>2 DEF ReadOK

LEMMA FilesChange ==
    ASSUME UNCHANGED <<log, lost>>, \A f \in files', g \in files' : f.seq = g.seq => f = g,
           \A f \in files' : f.hash # None => Recorded(f.seq, f.hash),
           \A u \in Threads : ReadOK(pc'[u], work'[u])
    PROVE  FilesOK'
  <1>1. Remembered
    BY DEF Remembered
  <1>2. ASSUME NEW f \in files', f.hash # None PROVE Recorded(f.seq, f.hash)'
    BY <1>1, <1>2, StillRecorded
  <1>3. ASSUME NEW u \in Threads PROVE ReadOK(pc[u], work[u])'
    <2>1. PICK step, w : step = pc'[u] /\ w = work'[u]
      OBVIOUS
    <2>2. ReadOK(step, w)'
      BY <1>1, <2>1, ReadStays
    <2> QED BY <2>1, <2>2 DEF ReadOK
  <1> QED BY <1>2, <1>3 DEF FilesOK, ReadOK

LEMMA FilesStay ==
    ASSUME FilesOK, Remembered, UNCHANGED files,
           \A u \in Threads : \/ pc'[u] = pc[u] /\ work'[u] = work[u]
                              \/ ReadOK(pc'[u], work'[u])
    PROVE  FilesOK'
  <1>1. ASSUME NEW f \in files', f.hash # None PROVE Recorded(f.seq, f.hash)'
    <2>1. Recorded(f.seq, f.hash)
      BY <1>1 DEF FilesOK
    <2> QED BY <2>1, StillRecorded
  <1>2. ASSUME NEW u \in Threads PROVE ReadOK(pc[u], work[u])'
    <2>1. PICK step, w : step = pc'[u] /\ w = work'[u]
      OBVIOUS
    <2>2. ReadOK(step, w)
      BY <2>1 DEF FilesOK, ReadOK
    <2>3. ReadOK(step, w)'
      BY <2>2, ReadStays
    <2> QED BY <2>1, <2>3 DEF ReadOK
  <1>3. \A f \in files', g \in files' : f.seq = g.seq => f = g
    BY DEF FilesOK
  <1> QED BY <1>1, <1>2, <1>3 DEF FilesOK, ReadOK

NotReading == {"idle", "lock", "anchor", "verify"} \cup TxSteps

LEMMA NothingRead == \A step \in NotReading : \A w : ReadOK(step, w)
  BY DEF NotReading, ReadOK, TxSteps

\* A step of a call that does not anchor or verify.
LEMMA FilesRest ==
    ASSUME FilesOK, Remembered, UNCHANGED files, NEW t \in Threads, Moves(t), pc'[t] \in NotReading
    PROVE  FilesOK'
  BY NothingRead, FilesStay DEF Moves

\* The file of a position is made once, and filled with what was read.
LEMMA AnchorFiles ==
    ASSUME LocksOK, RowsOK, ChainOK, FilesOK, NEW t \in Threads, AnchorStep(t)
    PROVE  FilesOK'
  <1>1. UNCHANGED <<log, lost>> /\ Moves(t) /\ Remembered
    BY AnchorStepOutside DEF Outside, database, Remembered
  <1>2. UNCHANGED files /\ pc'[t] = "idle" => FilesOK'
    BY <1>1, FilesRest DEF NotReading
  <1>3. CASE AnchorHead(t)
    <2> DEFINE w == [seq |-> Newest.seq, hash |-> Newest.hash, key |-> KeyOf[Mine(t)]]
    <2>1. files' = files
      BY <1>3 DEF AnchorHead
    <2>2. CASE log = {}
      <3>1. pc'[t] = "idle"
        BY <1>3, <2>2, AnchoredMoves DEF AnchorHead
      <3> QED BY <1>2, <2>1, <3>1
    <2>3. CASE log # {}
      <3>1. Newest \in log
        BY <2>3, NewestIsLast
      <3>2. Recorded(Newest.seq, Newest.hash)
        BY <3>1 DEF Recorded
      <3>3. pc' = [pc EXCEPT ![t] = "create"] /\ work' = [work EXCEPT ![t] = w]
        BY <1>3, <2>3 DEF AnchorHead
      <3>4. ReadOK("create", w)
        BY <3>2 DEF ReadOK
      <3> HIDE DEF w
      <3>5. pc'[t] = "create" /\ work'[t] = w
        BY <3>3 DEF LocksOK
      <3> QED BY <1>1, <2>1, <3>4, <3>5, FilesStay DEF Moves
    <2> QED BY <2>2, <2>3
  <1>4. CASE CreateFile(t)
    <2>1. PICK seq, hash, key : work[t] = [seq |-> seq, hash |-> hash, key |-> key] /\ Recorded(seq, hash)
      BY <1>4 DEF CreateFile, FilesOK
    <2>2. CASE UNCHANGED files /\ \E how : Anchored(t, how)
      BY <1>2, <2>2, AnchoredMoves
    <2>3. CASE /\ {f \in files : f.seq = work[t].seq} = {}
               /\ files' = files \cup {[work[t] EXCEPT !.hash = None]}
               /\ pc' = [pc EXCEPT ![t] = "fill"] /\ UNCHANGED <<tx, answer, work>>
      <3> DEFINE new == [seq |-> seq, hash |-> None, key |-> key]
      <3>1. [work[t] EXCEPT !.hash = None] = new
        BY <2>1
      <3>2. new.seq = seq /\ new.hash = None /\ work[t].seq = seq
        BY <2>1
      <3> HIDE DEF new
      <3>3. files' = files \cup {new} /\ \A f \in files : f.seq # seq
        BY <2>3, <3>1, <3>2
      <3>4. /\ \A f \in files', g \in files' : f.seq = g.seq => f = g
            /\ \A f \in files' : f.hash # None => f \in files
        BY <3>2, <3>3 DEF FilesOK
      <3>5. \A f \in files' : f.hash # None => Recorded(f.seq, f.hash)
        BY <3>4 DEF FilesOK
      <3>6. ReadOK("fill", work[t])
        BY <2>1 DEF ReadOK
      <3>7. pc'[t] = "fill" /\ work' = work
        BY <2>3 DEF LocksOK
      <3>8. ASSUME NEW u \in Threads PROVE ReadOK(pc'[u], work'[u])
        BY <1>1, <3>6, <3>7 DEF Moves, FilesOK, ReadOK
      <3> QED BY <1>1, <3>4, <3>5, <3>8, FilesChange
    <2> QED BY <1>4, <2>2, <2>3 DEF CreateFile
  <1>5. CASE FillFile(t)
    <2>1. PICK seq, hash, key : work[t] = [seq |-> seq, hash |-> hash, key |-> key] /\ Recorded(seq, hash)
      BY <1>5 DEF FillFile, FilesOK
    <2> DEFINE new == work[t]
    <2>2. new.seq = seq /\ new.hash = hash
      BY <2>1
    <2>3. files' = {f \in files : f.seq # new.seq} \cup {new} /\ pc'[t] = "idle"
      BY <1>5, AnchoredMoves DEF FillFile
    <2> HIDE DEF new
    <2>4. \A f \in files', g \in files' : f.seq = g.seq => f = g
      BY <2>3 DEF FilesOK
    <2>5. \A f \in files' : f.hash # None => Recorded(f.seq, f.hash)
      BY <2>1, <2>2, <2>3 DEF FilesOK
    <2>6. ASSUME NEW u \in Threads PROVE ReadOK(pc'[u], work'[u])
      <3>1. CASE u = t
        BY <2>3, <3>1, NothingRead DEF NotReading
      <3>2. CASE u # t
        <4>1. pc'[u] = pc[u] /\ work'[u] = work[u]
          BY <1>1, <3>2 DEF Moves
        <4>2. ReadOK(pc[u], work[u])
          BY DEF FilesOK, ReadOK
        <4> QED BY <4>1, <4>2
      <3> QED BY <3>1, <3>2
    <2> QED BY <1>1, <2>4, <2>5, <2>6, FilesChange
  <1>6. CASE ReadFiles(t)
    <2>1. files' = files
      BY <1>6 DEF ReadFiles
    <2>2. CASE \E f \in files : f.hash = None
      <3>1. pc'[t] = "idle"
        BY <1>6, <2>2, AnchoredMoves DEF ReadFiles
      <3> QED BY <1>2, <2>1, <3>1
    <2>3. CASE ~ \E f \in files : f.hash = None
      <3>1. pc'[t] = "report" /\ work'[t] = files
        BY <1>6, <2>3 DEF ReadFiles, LocksOK
      <3>2. ReadOK("report", files)
        BY <2>3 DEF FilesOK, ReadOK
      <3> QED BY <1>1, <2>1, <3>1, <3>2, FilesStay DEF Moves
    <2> QED BY <2>2, <2>3
  <1>7. CASE Report(t)
    <2>1. files' = files /\ pc'[t] = "idle"
      BY <1>7 DEF Report, LocksOK
    <2> QED BY <1>2, <2>1
  <1> QED BY <1>3, <1>4, <1>5, <1>6, <1>7 DEF AnchorStep

LEMMA FilesKeep ==
    ASSUME LocksOK, RowsOK, ChainOK, FilesOK, [Next]_allVars
    PROVE  FilesOK'
  <1>1. Remembered
    BY LogIsRemembered
  <1>2. UNCHANGED <<files, pc, work>> => FilesOK'
    BY <1>1, FilesStay
  <1>3. CASE UNCHANGED allVars
    BY <1>2, <1>3 DEF allVars, vars, control, sink
  <1>4. CASE BackUp \/ Restore
    BY <1>2, <1>4 DEF BackUp, Restore, vars, control
  <1>5. ASSUME NEW p \in Processes, CrashAll(p) PROVE FilesOK'
    <2>1. files' = files /\ \A u \in Threads : \/ pc'[u] = pc[u] /\ work'[u] = work[u]
                                               \/ pc'[u] = "idle"
      BY <1>5 DEF CrashAll, Crash
    <2> QED BY <1>1, <2>1, NothingRead, FilesStay DEF NotReading
  <1>6. ASSUME NEW t \in Threads, Inside(t) PROVE FilesOK'
    <2>1. Moves(t) /\ UNCHANGED files
      BY <1>6, InsideKeeps, InsideQuiet DEF sink
    <2>2. pc'[t] \in NotReading
      <3>1. CASE \E how : Fails(t, how)
        BY <3>1, FinishMoves DEF Fails, sink, NotReading
      <3>2. CASE \E step, c : Goes(t, step, c) /\ step \in TxSteps \cup {"lock"}
        BY <3>2, GoesMoves DEF NotReading
      <3> QED BY <1>6, <3>1, <3>2 DEF Inside, Enters, Works, Retries, Chains, TxSteps
    <2> QED BY <1>1, <2>1, <2>2, FilesRest
  <1>7. ASSUME NEW t \in Threads, Commit(t), UNCHANGED sink PROVE FilesOK'
    <2>1. Moves(t) /\ pc'[t] = "idle" /\ UNCHANGED files
      BY <1>7, CommitLocks DEF sink
    <2> QED BY <1>1, <2>1, FilesRest DEF NotReading
  <1>8. ASSUME NEW t \in Threads, Outside(t), pc'[t] \in NotReading, UNCHANGED files PROVE FilesOK'
    BY <1>1, <1>8, FilesRest DEF Outside
  <1>9. ASSUME NEW t \in Threads, NEW c \in workload.requests, c.op \notin {"anchor", "verify"},
               Begin(t, c), UNCHANGED sink
        PROVE  FilesOK'
    BY <1>8, <1>9, BeginOutside DEF sink, NotReading
  <1>10. ASSUME NEW t \in Threads, NEW auto, Start(t, auto), UNCHANGED sink PROVE FilesOK'
    BY <1>8, <1>10, StartOutside DEF sink, NotReading
  <1>11. ASSUME NEW t \in Threads, NEW op \in {"anchor", "verify"}, AnchorBegin(t, op) PROVE FilesOK'
    BY <1>8, <1>11, AnchorBeginOutside DEF AnchorBegin, sink, NotReading
  <1>12. CASE Next
    BY <1>4, <1>5, <1>6, <1>7, <1>9, <1>10, <1>11, <1>12, NextKinds, AnchorFiles
  <1> QED BY <1>3, <1>12

-----------------------------------------------------------------------------
(* What callers were told. *)

Holds(a) ==
    /\ a.op = "put" /\ a.how = "ok" => Range(a.writes) \subseteq rows
    /\ a.op = "put" /\ a.how = "refused" =>
         \E w \in Range(a.writes), r \in rows \cup Range(a.writes) : w.key = r.key /\ w # r
    /\ a.op = "cache" /\ a.how = "ok" => \A w \in Range(a.writes) : \E r \in rows : r.key = w.key
    /\ a.op = "audit" /\ a.how # "in_doubt" => (a.how = "ok" <=> \E e \in log : e.entry = a.entry)

LEMMA AnswersSplit ==
    /\ AnswersHold <=> \A t \in Threads : answer[t] # None => Holds(answer[t])
    /\ AnswersHold' <=> \A t \in Threads : answer'[t] # None => Holds(answer[t])'
  BY DEF AnswersHold, Holds

LEMMA AnswerStays ==
    ASSUME NEW a, Holds(a), rows \subseteq rows', log \subseteq log',
           a.op = "audit" => \A e \in log' \ log : e.entry # a.entry
    PROVE  Holds(a)'
  <1>1. a.op = "audit" => ((\E e \in log' : e.entry = a.entry) <=> \E e \in log : e.entry = a.entry)
    OBVIOUS
  <1>2. a.op = "put" /\ a.how = "ok" => Range(a.writes) \subseteq rows'
    BY DEF Holds
  <1>3. a.op = "put" /\ a.how = "refused" =>
          \E w \in Range(a.writes), r \in rows' \cup Range(a.writes) : w.key = r.key /\ w # r
    BY DEF Holds
  <1>4. a.op = "cache" /\ a.how = "ok" => \A w \in Range(a.writes) : \E r \in rows' : r.key = w.key
    BY DEF Holds
  <1> QED BY <1>1, <1>2, <1>3, <1>4 DEF Holds

\* The answers of the others stay as they were told.
LEMMA AnswersStay ==
    ASSUME AnswersHold, rows \subseteq rows', log \subseteq log',
           \A u \in Threads : Told(u) => \A e \in log' \ log : e.entry # answer[u].entry,
           \A u \in Threads : \/ answer'[u] = answer[u]
                              \/ answer'[u] # None => Holds(answer[u])'
    PROVE  AnswersHold'
  <1> SUFFICES ASSUME NEW u \in Threads, answer'[u] # None, answer'[u] = answer[u]
               PROVE  Holds(answer[u])'
    BY AnswersSplit
  <1>1. PICK a : a = answer[u]
    OBVIOUS
  <1>2. Holds(a) /\ (a.op = "audit" => \A e \in log' \ log : e.entry # a.entry)
    BY <1>1, AnswersSplit DEF Told
  <1>3. Holds(a)'
    BY <1>2, AnswerStays
  <1>4. answer'[u] = a
    BY <1>1
  <1> HIDE <1>1
  <1> QED BY <1>3, <1>4 DEF Holds

\* A call that fails before its commit has left nothing behind; a refusal has met
\* other content.
LEMMA FailureHolds ==
    ASSUME LocksOK, RowsOK, EntriesOK, NEW t \in Threads, NEW how, Fails(t, how)
    PROVE  Holds(answer[t])'
  <1>1. answer'[t] = Outcome(t, how) /\ how # "ok" /\ UNCHANGED <<rows, log>>
    BY FinishMoves DEF Fails, sink, database
  <1>2. /\ answer'[t].op = tx[t].op /\ answer'[t].writes = tx[t].writes
        /\ answer'[t].entry = tx[t].entry /\ answer'[t].how = how
    BY <1>1 DEF Outcome
  <1>3. tx[t].op = "audit" => \A e \in log : e.entry # tx[t].entry
    <2>1. pc[t] # "idle"
      BY DEF Fails, TxSteps
    <2> QED BY <2>1 DEF EntriesOK, AuditCall
  <1>4. how = "refused" /\ tx[t].op = "put" =>
          \E w \in Range(tx[t].writes), r \in rows \cup Range(tx[t].writes) : w.key = r.key /\ w # r
    BY DEF Fails
  <1> QED BY <1>1, <1>2, <1>3, <1>4 DEF Holds

\* A call that commits has stored all it was given, whatever it is told.
LEMMA SuccessHolds ==
    ASSUME LocksOK, RowsOK, ChainOK, NEW t \in Threads, Commit(t), UNCHANGED sink
    PROVE  Holds(answer[t])'
  <1>1. /\ answer'[t] = Outcome(t, "ok") \/ answer'[t] = Outcome(t, "in_doubt")
        /\ pc[t] = "commit" /\ rows' = rows \cup tx[t].staged
        /\ log' = log \cup tx[t].appended
    BY CommitLocks
  <1>2. /\ answer'[t].op = tx[t].op /\ answer'[t].writes = tx[t].writes
        /\ answer'[t].entry = tx[t].entry /\ answer'[t].how \in {"ok", "in_doubt"}
    BY <1>1, OutcomeParts
  <1>3. Shape("commit", tx[t]) /\ Accounted(Mine(t), "commit", tx[t])
    BY <1>1 DEF RowsOK
  <1>4. tx[t].op # "audit" => Range(tx[t].todo) = {}
    BY <1>3, EmptyRange DEF Shape
  <1>5. tx[t].op = "put" => Range(tx[t].writes) \subseteq rows'
    BY <1>1, <1>3, <1>4 DEF Accounted
  <1>6. tx[t].op = "cache" => \A w \in Range(tx[t].writes) : \E r \in rows' : r.key = w.key
    BY <1>1, <1>3, <1>4 DEF Accounted
  <1>7. tx[t].op = "audit" => \E e \in log' : e.entry = tx[t].entry
    BY <1>1 DEF ChainOK, InChain
  <1> QED BY <1>1, <1>2, <1>5, <1>6, <1>7 DEF Holds

LEMMA AnswersKeep ==
    ASSUME LocksOK, RowsOK, EntriesOK, ChainOK, BackupOK, AnswersHold, [Next]_allVars
    PROVE  AnswersHold'
  <1>1. ASSUME UNCHANGED <<rows, log>>,
               \A u \in Threads : \/ answer'[u] = answer[u]
                                  \/ answer'[u] # None => Holds(answer[u])'
        PROVE  AnswersHold'
    BY <1>1, AnswersStay
  <1>2. CASE UNCHANGED allVars
    BY <1>1, <1>2 DEF allVars, vars, control, database
  <1>3. CASE BackUp
    BY <1>1, <1>3 DEF BackUp, vars, control, database
  <1>4. CASE Restore
    BY <1>4, RestoreKeeps, AnswersSplit
  <1>5. ASSUME NEW p \in Processes, CrashAll(p) PROVE AnswersHold'
    <2>1. /\ UNCHANGED <<rows, log>>
          /\ \A u \in Threads : answer'[u] = answer[u] \/ answer'[u] = None
      BY <1>5 DEF CrashAll, Crash, database
    <2> QED BY <1>1, <2>1
  <1>6. ASSUME NEW t \in Threads, Outside(t),
               answer'[t] = answer[t] \/ answer'[t] = None \/ answer'[t].op \in {"anchor", "verify"}
        PROVE  AnswersHold'
    <2>1. UNCHANGED <<rows, log>> /\ \A u \in Threads \ {t} : answer'[u] = answer[u]
      BY <1>6 DEF Outside, database, Moves
    <2>2. answer'[t].op \in {"anchor", "verify"} => Holds(answer[t])'
      BY DEF Holds
    <2> QED BY <1>1, <1>6, <2>1, <2>2
  <1>7. ASSUME NEW t \in Threads, Inside(t) PROVE AnswersHold'
    <2>1. Moves(t) /\ UNCHANGED <<rows, log>>
      BY <1>7, InsideKeeps, InsideQuiet
    <2>2. answer'[t] = answer[t] \/ Holds(answer[t])'
      <3>1. CASE \E how : Fails(t, how)
        BY <3>1, FailureHolds
      <3>2. CASE ~ \E how : Fails(t, how)
        BY <1>7, <3>2 DEF Inside, Enters, Works, Retries, Chains, Goes
      <3> QED BY <3>1, <3>2
    <2> QED BY <1>1, <2>1, <2>2 DEF Moves
  <1>8. ASSUME NEW t \in Threads, Commit(t), UNCHANGED sink PROVE AnswersHold'
    <2>1. Moves(t) /\ rows \subseteq rows' /\ log \subseteq log'
      BY <1>8, CommitLocks
    <2>2. \A u \in Threads : Told(u) => \A e \in log' \ log : e.entry # answer[u].entry
      <3>1. CASE log' = log
        BY <3>1
      <3>2. CASE tx[t].op = "audit" /\ \E e : e.entry = tx[t].entry /\ log' = log \cup {e}
        <4>1. pc[t] # "idle"
          BY <1>8, CommitLocks
        <4>2. \A u \in Threads : Told(u) => answer[u].entry # tx[t].entry
          BY <3>2, <4>1 DEF EntriesOK, AuditCall
        <4> QED BY <3>2, <4>2
      <3> QED BY <1>8, <3>1, <3>2, CommitLog
    <2>3. Holds(answer[t])'
      BY <1>8, SuccessHolds
    <2> QED BY <2>1, <2>2, <2>3, AnswersStay DEF Moves
  <1>9. CASE Next
    BY <1>3, <1>4, <1>5, <1>6, <1>7, <1>8, <1>9, NextKinds, BeginOutside, StartOutside,
       AnchorBeginOutside, AnchorStepOutside
  <1> QED BY <1>2, <1>9

-----------------------------------------------------------------------------
(* What anchoring and verification report. *)

Judged(t, a) ==
    a.op \in {"verify", "anchor"} =>
        /\ a.op = "verify" /\ a.how = "ok" =>
             \A f \in a.files, e \in lost : ~ (f.seq = e.seq /\ f.hash = e.hash)
        /\ a.how = "fork" => lost # {}
        /\ a.op = "verify" /\ a.how = "problem" =>
             lost # {} \/ \E f \in a.files : f.key # KeyOf[Mine(t)]

Evidenced == \A f \in files : f.hash # None => Recorded(f.seq, f.hash)

LEMMA VerificationSplit ==
    /\ VerificationIsRight <=> Evidenced /\ \A t \in Threads : answer[t] # None => Judged(t, answer[t])
    /\ VerificationIsRight' <=>
         Evidenced' /\ \A t \in Threads : answer'[t] # None => Judged(t, answer[t])'
  BY DEF VerificationIsRight, Judged, Evidenced, Recorded

\* Two entries of the history never have the same hash.
LEMMA HashesDiffer ==
    ASSUME EntriesOK, ChainOK, NEW e \in log, NEW f \in lost
    PROVE  e.hash # f.hash
  <1>1. IsEntry(e) /\ IsEntry(f) /\ e.entry # f.entry
    BY DEF ChainOK, EntriesOK
  <1>2. /\ e.prev \in Seq(Nat) /\ f.prev \in Seq(Nat) /\ e.entry \in Nat /\ f.entry \in Nat
        /\ e.hash = Append(e.prev, e.entry) /\ f.hash = Append(f.prev, f.entry)
    BY <1>1 DEF IsEntry
  <1> SUFFICES ASSUME e.hash = f.hash PROVE FALSE
    OBVIOUS
  <1>3. /\ Len(e.hash) = Len(e.prev) + 1 /\ Len(f.hash) = Len(f.prev) + 1
        /\ e.hash[Len(e.prev) + 1] = e.entry /\ f.hash[Len(f.prev) + 1] = f.entry
    <2>1. ASSUME NEW s \in Seq(Nat), NEW n \in Nat
          PROVE  Len(Append(s, n)) = Len(s) + 1 /\ Append(s, n)[Len(s) + 1] = n
      BY AppendProperties
    <2> QED BY <1>2, <2>1
  <1>4. Len(e.prev) \in Nat /\ Len(f.prev) \in Nat
    BY <1>2
  <1>5. Len(e.prev) = Len(f.prev)
    BY <1>3, <1>4
  <1> QED BY <1>1, <1>3, <1>5

\* A call ends with the report that what it has read calls for.
LEMMA ReportIsJudged ==
    ASSUME LocksOK, RowsOK, EntriesOK, ChainOK, FilesOK, NEW t \in Threads, AnchorStep(t), pc'[t] = "idle"
    PROVE  Judged(t, answer[t])'
  <1>1. lost' = lost /\ Mine(t)' = Mine(t)
    BY AnchorStepOutside DEF Outside, Mine
  <1>2. ASSUME NEW how, Anchored(t, how)
        PROVE  answer'[t].op = tx[t].op /\ answer'[t].how = how /\ answer'[t].files = files
    <2>1. answer'[t] = [op |-> tx[t].op, how |-> how, files |-> files]
      BY <1>2, AnchoredMoves, Zenon
    <2> QED BY <2>1
  <1>3. ASSUME NEW how \in {"nothing", "unreadable"}, Anchored(t, how) PROVE Judged(t, answer[t])'
    BY <1>1, <1>2, <1>3 DEF Judged
  <1>4. ASSUME NEW how \in {"ok", "fork", "unreadable"}, Anchored(t, how), tx[t].op = "anchor",
               how = "fork" => lost # {}
        PROVE  Judged(t, answer[t])'
    BY <1>1, <1>2, <1>4 DEF Judged
  <1>5. pc[t] \in {"anchor", "create", "fill"} => tx[t].op = "anchor"
    BY DEF RowsOK, Shape, OpsAt
  <1>6. CASE AnchorHead(t)
    <2>1. log = {}
      BY <1>6 DEF AnchorHead, LocksOK
    <2> QED BY <1>3, <1>6, <2>1 DEF AnchorHead
  <1>7. CASE CreateFile(t)
    <2>1. PICK seq, hash, key : work[t] = [seq |-> seq, hash |-> hash, key |-> key] /\ Recorded(seq, hash)
      BY <1>7 DEF CreateFile, FilesOK
    <2>2. work[t].seq = seq /\ work[t].hash = hash
      BY <2>1
    <2>3. PICK f \in files : /\ f.seq = work[t].seq
                             /\ Anchored(t, IF f.hash = None THEN "unreadable"
                                            ELSE IF f.hash = work[t].hash THEN "ok" ELSE "fork")
      BY <1>7 DEF CreateFile, LocksOK
    <2>4. CASE f.hash = None
      BY <1>3, <2>3, <2>4
    <2>5. CASE f.hash # None /\ f.hash = work[t].hash
      BY <1>4, <1>5, <1>7, <2>3, <2>5 DEF CreateFile
    <2>6. CASE f.hash # None /\ f.hash # work[t].hash
      <3>1. Recorded(f.seq, f.hash)
        BY <2>6 DEF FilesOK
      <3>2. lost # {}
        <4> SUFFICES ASSUME lost = {} PROVE FALSE
          OBVIOUS
        <4>1. PICK d \in log : d.seq = seq /\ d.hash = hash
          BY <2>1 DEF Recorded
        <4>2. PICK e \in log : e.seq = seq /\ e.hash = f.hash
          BY <2>2, <2>3, <3>1 DEF Recorded
        <4>3. d = e
          BY <4>1, <4>2 DEF ChainOK
        <4> QED BY <2>2, <2>6, <4>1, <4>2, <4>3
      <3>3. Anchored(t, "fork")
        BY <2>3, <2>6
      <3> QED BY <1>4, <1>5, <1>7, <3>2, <3>3 DEF CreateFile
    <2> QED BY <2>4, <2>5, <2>6
  <1>8. CASE FillFile(t)
    BY <1>4, <1>5, <1>8 DEF FillFile
  <1>9. CASE ReadFiles(t)
    <2>1. \E f \in files : f.hash = None
      BY <1>9 DEF ReadFiles, LocksOK
    <2> QED BY <1>3, <1>9, <2>1 DEF ReadFiles
  <1>10. CASE Report(t)
    <2> DEFINE how == IF ChainValid /\ \A f \in work[t] : ~Problem(t, f) THEN "ok" ELSE "problem"
    <2>1. pc[t] = "report" /\ answer'[t] = [op |-> "verify", files |-> work[t], how |-> how]
      <3> HIDE DEF how
      <3>1. pc[t] = "report" /\ answer' = [answer EXCEPT ![t] = [op |-> "verify", files |-> work[t], how |-> how]]
        BY <1>10 DEF Report, how
      <3> QED BY <3>1 DEF LocksOK
    <2>2. /\ how \in {"ok", "problem"}
          /\ how = "ok" => \A f \in work[t] : ~Problem(t, f)
          /\ how = "problem" => \E f \in work[t] : Problem(t, f)
      BY DEF ChainOK
    <2> HIDE DEF how
    <2>3. answer'[t].op = "verify" /\ answer'[t].files = work[t] /\ answer'[t].how = how
      BY <2>1
    <2>4. \A f \in work[t] : Recorded(f.seq, f.hash)
      BY <2>1 DEF FilesOK
    <2>5. how = "ok" => \A f \in work[t], e \in lost : ~ (f.seq = e.seq /\ f.hash = e.hash)
      <3> SUFFICES ASSUME how = "ok", NEW f \in work[t], NEW e \in lost, f.seq = e.seq, f.hash = e.hash
                   PROVE  FALSE
        OBVIOUS
      <3>1. PICK d \in log : d.seq = f.seq /\ d.hash = f.hash
        BY <2>2 DEF Problem
      <3> QED BY <3>1, HashesDiffer
    <2>6. how = "problem" => lost # {} \/ \E f \in work[t] : f.key # KeyOf[Mine(t)]
      BY <2>2, <2>4 DEF Problem, Recorded
    <2> QED BY <1>1, <2>2, <2>3, <2>5, <2>6 DEF Judged
  <1> QED BY <1>6, <1>7, <1>8, <1>9, <1>10 DEF AnchorStep

LEMMA VerificationKeeps ==
    ASSUME LocksOK, RowsOK, EntriesOK, ChainOK, BackupOK, FilesOK, FilesOK', VerificationIsRight,
           [Next]_allVars
    PROVE  VerificationIsRight'
  <1>1. Evidenced'
    BY DEF FilesOK, Evidenced
  <1>2. ASSUME lost' = lost,
               \A u \in Threads : \/ answer'[u] = answer[u]
                                  \/ answer'[u] # None => Judged(u, answer[u])'
        PROVE  VerificationIsRight'
    <2>1. ASSUME NEW u \in Threads, answer'[u] = answer[u], answer'[u] # None PROVE Judged(u, answer[u])'
      <3>1. Judged(u, answer[u])
        BY <2>1, VerificationSplit
      <3> QED BY <1>2, <2>1, <3>1 DEF Judged, Mine
    <2> QED BY <1>1, <1>2, <2>1, VerificationSplit
  <1>3. CASE UNCHANGED allVars
    BY <1>2, <1>3 DEF allVars, vars, control, sink
  <1>4. CASE BackUp
    BY <1>2, <1>4 DEF BackUp, vars, control
  <1>5. CASE Restore
    BY <1>1, <1>5, RestoreKeeps, VerificationSplit
  <1>6. ASSUME NEW p \in Processes, CrashAll(p) PROVE VerificationIsRight'
    <2>1. /\ lost' = lost
          /\ \A u \in Threads : answer'[u] = answer[u] \/ answer'[u] = None
      BY <1>6 DEF CrashAll, Crash
    <2> QED BY <1>2, <2>1
  <1>7. ASSUME NEW t \in Threads, Moves(t), lost' = lost,
               answer'[t] = answer[t] \/ (answer'[t] # None => Judged(t, answer[t])')
        PROVE  VerificationIsRight'
    BY <1>2, <1>7 DEF Moves
  <1>8. ASSUME NEW t \in Threads, NEW how, answer'[t] = Outcome(t, how),
               tx[t].op \in {"put", "cache", "start", "audit"}
        PROVE  Judged(t, answer[t])'
    <2>1. answer'[t].op = tx[t].op
      BY <1>8 DEF Outcome
    <2> QED BY <1>8, <2>1 DEF Judged
  <1>9. ASSUME NEW t \in Threads, pc[t] \in TxSteps \cup {"lock"}
        PROVE  tx[t].op \in {"put", "cache", "start", "audit"}
    <2>1. tx[t].op \in OpsAt(pc[t])
      BY DEF RowsOK, Shape
    <2> QED BY <1>9, <2>1 DEF OpsAt, TxSteps
  <1>10. ASSUME NEW t \in Threads, Inside(t) PROVE VerificationIsRight'
    <2>1. Moves(t) /\ lost' = lost
      BY <1>10, InsideKeeps, InsideQuiet DEF sink
    <2>2. CASE \E how : Fails(t, how)
      <3>1. PICK how : Fails(t, how)
        BY <2>2
      <3>2. answer'[t] = Outcome(t, how) /\ pc[t] \in TxSteps \cup {"lock"}
        BY <3>1, FinishMoves DEF Fails, sink
      <3>3. Judged(t, answer[t])'
        BY <1>8, <1>9, <3>2
      <3> QED BY <1>7, <2>1, <3>3
    <2>3. CASE ~ \E how : Fails(t, how)
      <3>1. answer' = answer
        BY <1>10, <2>3 DEF Inside, Enters, Works, Retries, Chains, Goes
      <3> QED BY <1>7, <2>1, <3>1
    <2> QED BY <2>2, <2>3
  <1>11. ASSUME NEW t \in Threads, Commit(t), UNCHANGED sink PROVE VerificationIsRight'
    <2>1. /\ Moves(t) /\ lost' = lost /\ pc[t] \in TxSteps
          /\ answer'[t] = Outcome(t, "ok") \/ answer'[t] = Outcome(t, "in_doubt")
      BY <1>11, CommitLocks DEF sink, TxSteps
    <2>2. Judged(t, answer[t])'
      BY <1>8, <1>9, <2>1
    <2> QED BY <1>7, <2>1, <2>2
  <1>12. ASSUME NEW t \in Threads, Outside(t), answer'[t] = None \/ answer'[t] = answer[t]
         PROVE  VerificationIsRight'
    BY <1>7, <1>12 DEF Outside
  <1>13. ASSUME NEW t \in Threads, AnchorStep(t) PROVE VerificationIsRight'
    <2>1. Outside(t) /\ (pc'[t] # "idle" => answer'[t] = answer[t])
      BY <1>13, AnchorStepOutside
    <2>2. pc'[t] = "idle" => Judged(t, answer[t])'
      BY <1>13, ReportIsJudged
    <2> QED BY <1>7, <2>1, <2>2 DEF Outside
  <1>14. CASE Next
    BY <1>4, <1>5, <1>6, <1>10, <1>11, <1>12, <1>13, <1>14, NextKinds, BeginOutside, StartOutside,
       AnchorBeginOutside
  <1> QED BY <1>3, <1>14

-----------------------------------------------------------------------------
(* The writes of a call. *)

LEMMA WritesStay ==
    ASSUME WritesOK, NEW t \in Threads, Moves(t),
           tx'[t].op \in {"put", "cache"} => \/ tx'[t].op = tx[t].op /\ tx'[t].writes = tx[t].writes
                                           \/ Range(tx'[t].writes) \in Batches
    PROVE  WritesOK'
  <1>1. ASSUME NEW u \in Threads, tx'[u].op \in {"put", "cache"} PROVE Range(tx'[u].writes) \in Batches
    BY <1>1 DEF WritesOK, Moves
  <1>2. Batches' = Batches
    BY DEF Batches, Ledgers, Written, Upgrades, Shipped
  <1> QED BY <1>1, <1>2 DEF WritesOK

LEMMA WritesKeep ==
    ASSUME LocksOK, RowsOK, BackupOK, WritesOK, [Next]_allVars
    PROVE  WritesOK'
  <1>1. Batches' = Batches
    BY DEF Batches, Ledgers, Written, Upgrades, Shipped
  <1>2. ASSUME \A u \in Threads : tx'[u] = tx[u] \/ tx'[u] = NoTx PROVE WritesOK'
    <2>1. \A u \in Threads : {} \in Batches
      BY RowsAreKnown, StoreAssumption DEF Mine
    <2>2. Range(NoTx.writes) = {}
      BY NoTxIsTx, EmptyRange
    <2> QED BY <1>1, <1>2, <2>1, <2>2 DEF WritesOK
  <1>3. CASE UNCHANGED allVars
    BY <1>2, <1>3 DEF allVars, vars, control
  <1>4. CASE BackUp \/ Restore
    BY <1>2, <1>4 DEF BackUp, Restore, vars, control
  <1>5. ASSUME NEW p \in Processes, CrashAll(p) PROVE WritesOK'
    BY <1>2, <1>5 DEF CrashAll, Crash
  <1>6. ASSUME NEW t \in Threads, Inside(t) PROVE WritesOK'
    <2>1. CASE \E how : Fails(t, how)
      <3>1. Moves(t) /\ tx'[t] = NoTx
        BY <2>1, FinishMoves DEF Fails, sink
      <3> QED BY <1>2, <3>1 DEF Moves
    <2>2. CASE \E step, c : Goes(t, step, c)
      <3>1. Moves(t) /\ tx'[t].op = tx[t].op /\ tx'[t].writes = tx[t].writes
        BY <2>2, GoesMoves DEF Goes
      <3> QED BY <3>1, WritesStay
    <2> QED BY <1>6, <2>1, <2>2 DEF Inside, Enters, Works, Retries, Chains
  <1>7. ASSUME NEW t \in Threads, Commit(t), UNCHANGED sink PROVE WritesOK'
    <2>1. Moves(t) /\ tx'[t] = NoTx
      BY <1>7, CommitLocks
    <2> QED BY <1>2, <2>1 DEF Moves
  <1>8. ASSUME NEW t \in Threads, NEW c \in workload.requests, c.op \notin {"anchor", "verify"},
               Begin(t, c), UNCHANGED sink
        PROVE  WritesOK'
    <2>1. Moves(t) /\ tx'[t].writes = c.writes
      BY <1>8, BeginOutside DEF Outside
    <2>2. Range(c.writes) \in Batches
      BY RowsAreKnown DEF LocksOK
    <2> QED BY <2>1, <2>2, WritesStay
  <1>9. ASSUME NEW t \in Threads, Moves(t), tx'[t].op \notin {"put", "cache"} PROVE WritesOK'
    BY <1>9, WritesStay
  <1>10. ASSUME NEW t \in Threads, AnchorStep(t) PROVE WritesOK'
    <2>1. Moves(t) /\ (tx'[t] = tx[t] \/ tx'[t] = NoTx)
      BY <1>10, AnchorStepOutside DEF Outside
    <2> QED BY <1>2, <2>1 DEF Moves
  <1>11. CASE Next
    BY <1>4, <1>5, <1>6, <1>7, <1>8, <1>9, <1>10, <1>11, NextKinds, StartOutside, AnchorBeginOutside DEF Outside
  <1> QED BY <1>3, <1>11

-----------------------------------------------------------------------------
(* The invariant holds, and with it the properties.                        *)

LEMMA InvHoldsAtFirst == AnchorsInit => Inv
  <1> SUFFICES ASSUME AnchorsInit PROVE Inv
    OBVIOUS
  <1>1. /\ workload \in Workloads /\ dialect \in workload.dialects /\ rows = workload.ledger
        /\ log = {} /\ issued = 0 /\ calls = 0 /\ files = {} /\ backup = None /\ lost = {}
        /\ state = [p \in Processes |-> IF workload.running THEN "up" ELSE "down"]
        /\ owner = [p \in Processes |-> None] /\ chain = None
        /\ pc = [t \in Threads |-> "idle"] /\ tx = [t \in Threads |-> NoTx]
        /\ answer = [t \in Threads |-> None] /\ work = [t \in Threads |-> None]
    BY DEF AnchorsInit, Init
  <1>2. \A t \in Threads : pc[t] = "idle" /\ tx[t] = NoTx /\ answer[t] = None /\ Mine(t) \in Processes
    BY <1>1, StoreAssumption DEF Mine
  <1>3. LocksOK
    <2>1. \A t \in Threads : owner[Mine(t)] # t /\ pc[t] \notin TxSteps /\ ~AtHead(pc[t], tx[t])
      BY <1>1, <1>2, StoreAssumption DEF TxSteps, AtHead
    <2>2. dialect \in {"sqlite", "postgres"}
      BY <1>1, StoreAssumption
    <2>3. state \in [Processes -> {"down", "up", "cut"}] /\ owner \in [Processes -> Threads \cup {None}]
      BY <1>1
    <2> QED BY <1>1, <2>1, <2>2, <2>3 DEF LocksOK
  <1>4. RowsOK
    <2>1. rows \subseteq AllRows /\ KeysUnique(rows)
      BY <1>1, RowsAreKnown
    <2>2. \A t \in Threads : Shape(pc[t], tx[t]) /\ Accounted(Mine(t), pc[t], tx[t])
      BY <1>2, Resting
    <2>3. \A t \in Threads, u \in Threads : KeysDiffer(tx[t].staged, tx[u].staged)
      BY <1>2, NoTxIsTx DEF KeysDiffer
    <2> QED BY <2>1, <2>2, <2>3 DEF RowsOK
  <1>11. WritesOK
    <2>1. \A t \in Threads : {} \in Batches
      BY <1>2, RowsAreKnown
    <2> QED BY <1>2, <2>1, NoTxIsTx, EmptyRange DEF WritesOK
  <1>5. MigratedOK
    <2>1. workload.running => \A p \in Processes : \A m \in Releases[p] : LedgerRow(m) \in workload.ledger
      BY <1>1, StoreAssumption
    <2> QED BY <1>1, <2>1 DEF MigratedOK, RunningIsMigrated
  <1>6. EntriesOK
    <2>1. workload.calls \in Nat
      BY <1>1, StoreAssumption
    <2> QED BY <1>1, <1>2, <2>1 DEF EntriesOK, AuditCall, Told
  <1>7. ChainOK
    <2>1. Unplaced = {} /\ \A t \in Threads : InChain(pc[t], tx[t])
      BY <1>2 DEF Unplaced, InChain
    <2>2. issued + Cardinality(Unplaced) <= calls
      BY <1>1, <2>1, FS_EmptySet
    <2>3. IsFiniteSet(log)
      BY <1>1, FS_EmptySet
    <2> QED BY <1>1, <2>1, <2>2, <2>3 DEF ChainOK, ChainValid
  <1>8. BackupOK /\ Spelled
    BY <1>1 DEF BackupOK, Spelled
  <1>9. FilesOK
    BY <1>1, <1>2 DEF FilesOK
  <1>10. AnswersHold /\ VerificationIsRight
    BY <1>1, <1>2 DEF AnswersHold, VerificationIsRight
  <1> QED BY <1>3, <1>4, <1>5, <1>6, <1>7, <1>8, <1>9, <1>10, <1>11 DEF Inv

LEMMA InvIsKept ==
    ASSUME Inv, [Next]_allVars
    PROVE  Inv'
  <1>1. /\ LocksOK /\ RowsOK /\ WritesOK /\ MigratedOK /\ EntriesOK /\ ChainOK /\ BackupOK /\ Spelled
        /\ FilesOK /\ AnswersHold /\ VerificationIsRight
    BY DEF Inv
  <1>2. LocksOK' /\ RowsOK' /\ WritesOK'
    BY <1>1, CoreKeeps, WritesKeep
  <1>3. MigratedOK' /\ EntriesOK' /\ ChainOK' /\ BackupOK'
    BY <1>1, MigratedKeeps, EntriesKeep, ChainKeeps, BackupKeeps
  <1>4. Spelled' /\ FilesOK' /\ AnswersHold'
    BY <1>1, SpelledKeeps, FilesKeep, AnswersKeep
  <1>5. VerificationIsRight'
    BY <1>1, <1>4, VerificationKeeps
  <1> QED BY <1>2, <1>3, <1>4, <1>5 DEF Inv

\* Whatever the threads and processes of Platform do to one store, in any order,
\* on SQLite or on PostgreSQL, with crashes, lost connections and restores: an
\* open call's rows are stored, staged or still to come, the committed entries
\* are one hash chain, and the sink holds only entries the log has held.
THEOREM InvHolds == Spec => []Inv
  BY InvHoldsAtFirst, InvIsKept, PTL DEF Spec

\* Every variable of the store has its type: no key of a table is stored
\* twice, no position of the audit log is taken twice or beyond the calls, the
\* writer lock of a process is with the thread inside a transaction and with
\* nobody else, and what is not yet committed belongs to such a thread.
THEOREM TypesHold == Spec => []TypeOK
  <1>1. Inv => TypeOK
    <2> SUFFICES ASSUME Inv PROVE TypeOK
      OBVIOUS
    <2>1. LocksOK /\ RowsOK /\ EntriesOK /\ ChainOK /\ FilesOK
      BY DEF Inv
    <2>2. \A r \in rows, q \in rows : r.key[1] \in Tables /\ (r.key = q.key => r = q)
      BY <2>1, RowsAreKnown DEF RowsOK, KeysUnique
    <2>3. \A e \in log : e.seq \in 1..workload.calls
      <3>1. workload.calls \in Nat
        BY <2>1, StoreAssumption DEF LocksOK
      <3>2. calls \in 0..workload.calls /\ issued \in Nat /\ issued + Cardinality(Unplaced) <= calls
        BY <2>1 DEF EntriesOK, ChainOK
      <3>3. Cardinality(Unplaced) \in Nat
        BY UnplacedCounts DEF Unplaced
      <3>4. issued <= workload.calls
        BY <3>1, <3>2, <3>3
      <3>5. \A e \in log : e.seq \in Nat \ {0} /\ e.seq <= issued
        BY <2>1 DEF ChainOK, IsEntry
      <3> QED BY <3>1, <3>2, <3>4, <3>5
    <2>4. /\ state \in [Processes -> {"down", "up", "cut"}] /\ chain \in Threads \cup {None}
          /\ \A p \in Processes : owner[p] = None \/ (owner[p] \in Threads /\ Mine(owner[p]) = p)
      BY <2>1 DEF LocksOK
    <2>5. \A t \in Threads : owner[Mine(t)] = t <=> pc[t] \in TxSteps
      BY <2>1 DEF LocksOK
    <2>6. ASSUME NEW t \in Threads, pc[t] \notin TxSteps PROVE tx[t].staged = {} /\ tx[t].appended = {}
      BY <2>1, <2>6 DEF RowsOK, Shape, TxSteps
    <2>7. /\ \A e \in log, f \in log : e.seq = f.seq => e = f
          /\ \A f \in files, g \in files : f.seq = g.seq => f = g
      BY <2>1 DEF ChainOK, FilesOK
    <2> QED BY <2>2, <2>3, <2>4, <2>5, <2>6, <2>7 DEF TypeOK, TxSteps
  <1> QED BY <1>1, InvHolds, PTL

\* Whatever put_artifact, ingest, insert_ignore and audit told their callers
\* stays true, on SQLite and on PostgreSQL, for any number of threads and
\* processes, through races, retries, failures, crashes: what succeeded is
\* stored as a whole, and an audit entry is in the log if and only if its
\* call succeeded.
THEOREM AnswersStand == Spec => []AnswersHold
  <1>1. Inv => AnswersHold
    BY DEF Inv
  <1> QED BY <1>1, InvHolds, PTL

\* No process gets past the constructor of the store without every migration
\* it ships, with the statements it ships.
THEOREM RunningProcessesAreMigrated == Spec => []RunningIsMigrated
  <1>1. Inv => RunningIsMigrated
    BY DEF Inv, MigratedOK
  <1> QED BY <1>1, InvHolds, PTL

\* anchor_audit writes only what the log has held, and verify_with_anchors
\* reports a problem exactly as the history calls for: never a false alarm
\* while nothing was lost and the keys agree, and never "ok" over a lost entry.
THEOREM ReportsAreRight == Spec => []VerificationIsRight
  <1>1. Inv => VerificationIsRight
    BY DEF Inv
  <1> QED BY <1>1, InvHolds, PTL

-----------------------------------------------------------------------------
(* The store implements WriteOnce. *)

InOrder(S) == [n \in 1..Cardinality(S) |-> [entry |-> NthIn(S, n).entry, prev |-> NthIn(S, n).prev]]

LEMMA LogIsSeq == LogSeq = InOrder(log) /\ LogSeq' = InOrder(log')
  BY PositionsIn DEF LogSeq, InOrder, Nth, NthIn, UpTo, UpIn

LEMMA OrderIsSeq ==
    ASSUME NEW S, IsLog(S)
    PROVE  /\ Cardinality(S) \in Nat /\ Len(InOrder(S)) = Cardinality(S) /\ InOrder(S) \in Seq(Range(InOrder(S)))
           /\ \A n \in 1..Cardinality(S) :
                InOrder(S)[n] = [entry |-> NthIn(S, n).entry, prev |-> NthIn(S, n).prev]
  <1>1. Cardinality(S) \in Nat
    BY Places
  <1> DEFINE size == Cardinality(S)
  <1>2. InOrder(S) = [n \in 1..size |-> [entry |-> NthIn(S, n).entry, prev |-> NthIn(S, n).prev]]
    BY DEF InOrder
  <1> HIDE DEF size
  <1>3. DOMAIN InOrder(S) = 1..size /\ InOrder(S) \in [1..size -> Range(InOrder(S))]
    BY <1>2 DEF Range
  <1>4. InOrder(S) \in Seq(Range(InOrder(S))) /\ Len(InOrder(S)) = size
    BY <1>1, <1>3 DEF size
  <1> QED BY <1>1, <1>2, <1>4 DEF size

\* A beginning of the log is a beginning of the sequence.
LEMMA SeqShrinks ==
    ASSUME NEW S, NEW T, IsLog(S), Begins(T, S)
    PROVE  \E n \in 0..Len(InOrder(S)) : InOrder(T) = SubSeq(InOrder(S), 1, n)
  <1> DEFINE k == Cardinality(T)
  <1>1. k \in 0..Cardinality(S) /\ IsLog(T) /\ \A n \in 1..k : NthIn(T, n) = NthIn(S, n)
    BY BeginningPlaces
  <1>2. Cardinality(S) \in Nat /\ Len(InOrder(S)) = Cardinality(S) /\ InOrder(S) \in Seq(Range(InOrder(S)))
    BY OrderIsSeq
  <1>3. \A n \in 1..k : InOrder(S)[n] = [entry |-> NthIn(S, n).entry, prev |-> NthIn(S, n).prev]
    BY <1>1, <1>2, OrderIsSeq
  <1>4. InOrder(T) = [n \in 1..k |-> [entry |-> NthIn(T, n).entry, prev |-> NthIn(T, n).prev]]
    BY DEF InOrder
  <1> HIDE DEF k
  <1>5. InOrder(T) = [n \in 1..k |-> InOrder(S)[n]]
    BY <1>1, <1>3, <1>4
  <1>6. SubSeq(InOrder(S), 1, k) = [n \in 1..k |-> InOrder(S)[n]]
    BY <1>1, <1>2
  <1> QED BY <1>1, <1>2, <1>5, <1>6

\* The next entry goes on the end of the sequence, with the hash of all of it.
LEMMA SeqGrows ==
    ASSUME NEW S, IsLog(S), NEW e, e.seq \in Int, \A f \in S : f.seq < e.seq,
           e.prev = [i \in 1..Cardinality(S) |-> NthIn(S, i).entry]
    PROVE  InOrder(S \cup {e}) =
             Append(InOrder(S), [entry |-> e.entry, prev |-> Abstract!HashAt(InOrder(S), Len(InOrder(S)))])
  <1> DEFINE T == S \cup {e}
             k == Cardinality(S)
             last == [entry |-> e.entry, prev |-> e.prev]
             longer == [n \in 1..(k + 1) |-> IF n <= k THEN InOrder(S)[n] ELSE last]
  <1>1. IsLog(T) /\ Begins(S, T) /\ Cardinality(T) = k + 1 /\ NthIn(T, k + 1) = e
    BY NextPlace
  <1>2. /\ k \in Nat /\ Len(InOrder(S)) = k
        /\ \A n \in 1..k : InOrder(S)[n] = [entry |-> NthIn(S, n).entry, prev |-> NthIn(S, n).prev]
    BY OrderIsSeq
  <1>3. \A n \in 1..k : NthIn(S, n) = NthIn(T, n)
    BY <1>1, BeginningPlaces
  <1>4. /\ InOrder(S) = [n \in 1..k |-> [entry |-> NthIn(S, n).entry, prev |-> NthIn(S, n).prev]]
        /\ InOrder(T) = [n \in 1..Cardinality(T) |-> [entry |-> NthIn(T, n).entry, prev |-> NthIn(T, n).prev]]
    BY DEF InOrder
  <1>5. e.prev = Abstract!HashAt(InOrder(S), Len(InOrder(S)))
    <2>1. Abstract!HashAt(InOrder(S), Len(InOrder(S))) = [i \in 1..k |-> InOrder(S)[i].entry]
      BY <1>2 DEF Abstract!HashAt
    <2>2. e.prev = [i \in 1..k |-> NthIn(S, i).entry]
      OBVIOUS
    <2> HIDE DEF k
    <2>3. \A i \in 1..k : InOrder(S)[i].entry = NthIn(S, i).entry
      BY <1>2
    <2> QED BY <2>1, <2>2, <2>3
  <1> HIDE DEF T, k, last
  <1>6. Append(InOrder(S), last) = longer
    <2>1. InOrder(S) = [n \in 1..k |-> InOrder(S)[n]]
      BY <1>4
    <2>2. Append([n \in 1..k |-> InOrder(S)[n]], last) =
            [n \in 1..(k + 1) |-> IF n <= k THEN InOrder(S)[n] ELSE last]
      BY <1>2, AppendedAsFunction
    <2> QED BY <2>1, <2>2
  <1>7. InOrder(T) = longer
    <2>1. ASSUME NEW n \in 1..(k + 1)
          PROVE  [entry |-> NthIn(T, n).entry, prev |-> NthIn(T, n).prev] =
                   IF n <= k THEN InOrder(S)[n] ELSE last
      <3>1. CASE n <= k
        <4>1. n \in 1..k
          BY <1>2, <3>1
        <4> QED BY <1>2, <1>3, <3>1, <4>1
      <3>2. CASE ~ (n <= k)
        <4>1. n = k + 1
          BY <1>2, <3>2
        <4> QED BY <1>1, <3>2, <4>1 DEF last
      <3> QED BY <3>1, <3>2
    <2> QED BY <1>1, <1>4, <2>1
  <1> QED BY <1>5, <1>6, <1>7 DEF T, last

\* What may be written in an entry.
AllEntries == 1..Max({w.calls : w \in Workloads})

LEMMA LastPlace ==
    ASSUME NEW S, IsFiniteSet(S), S # {}, NEW number \in [S -> Int],
           \A x \in S, y \in S : number[x] = number[y] => x = y
    PROVE  \E x \in S : \A y \in S : number[y] <= number[x]
  <1>1. /\ Cardinality(S) \in Nat
        /\ \A i \in 1..Cardinality(S) : \E x \in S : Place(S, number, x) = i
    BY PlacesAreTaken
  <1>2. Cardinality(S) # 0
    BY FS_EmptySet
  <1>3. PICK x \in S : Place(S, number, x) = Cardinality(S)
    BY <1>1, <1>2
  <1>4. Below(S, number, x) = S
    <2>1. Below(S, number, x) \in SUBSET S
      BY DEF Below
    <2> QED BY <1>3, <2>1, FS_Subset DEF Place
  <1> QED BY <1>4 DEF Below

LEMMA MaxIsGreatest ==
    ASSUME NEW S, IsFiniteSet(S), S \subseteq Nat, S # {}
    PROVE  Max(S) \in Nat /\ \A x \in S : x <= Max(S)
  <1> DEFINE number == [x \in S |-> x]
  <1>1. \E x \in S : \A y \in S : number[y] <= number[x]
    <2>1. number \in [S -> Int] /\ \A x \in S, y \in S : number[x] = number[y] => x = y
      OBVIOUS
    <2> HIDE DEF number
    <2> QED BY <2>1, LastPlace, Zenon
  <1>2. \E x \in S : \A y \in S : x >= y
    BY <1>1
  <1>3. Max(S) \in S /\ \A y \in S : Max(S) >= y
    BY <1>2 DEF Max
  <1> QED BY <1>3

LEMMA EntriesAreKnown ==
    ASSUME LocksOK, EntriesOK
    PROVE  \A i \in 1..calls : i \in AllEntries
  <1> DEFINE all == {w.calls : w \in Workloads}
             callsOf == [w \in Workloads |-> w.calls]
  <1>1. workload.calls \in all /\ all \subseteq Nat
    BY StoreAssumption DEF LocksOK
  <1>2. IsFiniteSet(all)
    <2>1. callsOf \in Surjection(Workloads, all)
      BY DEF Surjection
    <2>2. IsFiniteSet(Workloads)
      BY StoreAssumption
    <2> HIDE DEF callsOf, all
    <2> QED BY <2>1, <2>2, FS_Surjection
  <1> HIDE DEF all
  <1>3. Max(all) \in Nat /\ workload.calls <= Max(all) /\ workload.calls \in Nat
    BY <1>1, <1>2, MaxIsGreatest
  <1>4. calls \in 0..workload.calls
    BY DEF EntriesOK
  <1>5. \A i \in 1..calls : i \in 1..Max(all)
    BY <1>3, <1>4
  <1> QED BY <1>5 DEF AllEntries, all

\* A commit writes its batch, the rows of it that were free, or one entry.
LEMMA CommitIsWrite ==
    ASSUME Inv, NEW t \in Threads, Commit(t), UNCHANGED sink
    PROVE  Abstract!Next
  <1> DEFINE c == tx[t]
             p == Mine(t)
  <1>1. LocksOK /\ RowsOK /\ WritesOK /\ EntriesOK /\ ChainOK /\ Spelled
    BY DEF Inv
  <1>2. pc[t] = "commit" /\ rows' = rows \cup c.staged /\ KeysUnique(rows') /\ p \in Processes
    BY <1>1, CommitLocks, CommitRows, StoreAssumption DEF RowsOK, Mine
  <1>3. Shape("commit", c) /\ Accounted(p, "commit", c)
    BY <1>1, <1>2 DEF RowsOK
  <1>4. /\ c.op \in {"put", "cache", "start", "audit"}
        /\ c.op # "audit" => Range(c.todo) = {}
        /\ c.op = "audit" => c.staged = {}
    BY <1>3, EmptyRange DEF Shape, OpsAt
  <1>5. c.op # "audit" => log' = log /\ LogSeq' = LogSeq
    <2>1. c.op # "audit" => log' = log
      BY <1>1, CommitLog
    <2> QED BY <2>1, LogIsSeq
  <1>6. CASE c.op = "put"
    <2> DEFINE batch == Range(c.writes)
    <2>1. batch \in Batches /\ rows' = rows \cup batch
      BY <1>1, <1>2, <1>3, <1>4, <1>6 DEF WritesOK, Accounted
    <2>2. \A w \in batch, r \in rows : w.key = r.key => w = r
      BY <1>2, <2>1 DEF KeysUnique
    <2>3. Abstract!Write(batch)
      BY <1>5, <1>6, <2>1, <2>2 DEF Abstract!Write
    <2> HIDE DEF batch
    <2> QED BY <2>1, <2>3 DEF Abstract!Next
  <1>7. CASE c.op = "cache"
    <2> DEFINE batch == Range(c.writes)
    <2>1. batch \in Batches
      BY <1>1, <1>7 DEF WritesOK
    <2>2. c.staged = {w \in batch : \A r \in rows : r.key # w.key}
      BY <1>3, <1>4, <1>7 DEF Accounted, KeysDiffer
    <2>3. Abstract!WriteAbsent(batch)
      BY <1>2, <1>5, <1>7, <2>2 DEF Abstract!WriteAbsent
    <2> HIDE DEF batch
    <2> QED BY <2>1, <2>3 DEF Abstract!Next
  <1>8. CASE c.op = "start"
    <2> DEFINE batch == Shipped(Releases[p])
    <2>1. batch \in Batches
      BY <1>2, RowsAreKnown
    <2>2. rows' = rows \cup batch
      BY <1>2, <1>3, <1>4, <1>8 DEF Accounted, Shipped
    <2>3. \A w \in batch, r \in rows : w.key = r.key => w = r
      BY <1>2, <2>2 DEF KeysUnique
    <2> HIDE DEF batch
    <2>4. Abstract!Write(batch)
      BY <1>5, <1>8, <2>2, <2>3 DEF Abstract!Write
    <2> QED BY <2>1, <2>4 DEF Abstract!Next
  <1>9. CASE c.op = "audit"
    <2>1. PICK e : Follows(e) /\ e.entry = c.entry /\ log' = log \cup {e}
      BY <1>1, <1>9, CommitLog
    <2>2. IsLog(log)
      BY <1>1, LogIsLog
    <2>3. /\ e.prev = [i \in 1..Cardinality(log) |-> NthIn(log, i).entry]
          /\ e.seq \in Int /\ \A f \in log : f.seq < e.seq
      BY <1>1, <2>1, FollowingSpells
    <2>4. InOrder(log \cup {e}) =
            Append(InOrder(log), [entry |-> e.entry, prev |-> Abstract!HashAt(InOrder(log), Len(InOrder(log)))])
      BY <2>2, <2>3, SeqGrows
    <2>5. LogSeq' = Append(LogSeq, [entry |-> e.entry, prev |-> Abstract!HashAt(LogSeq, Len(LogSeq))])
      <3>1. LogSeq = InOrder(log) /\ LogSeq' = InOrder(log \cup {e})
        BY <2>1, LogIsSeq
      <3> QED BY <2>4, <3>1
    <2>6. rows' = rows
      BY <1>2, <1>4, <1>9
    <2>7. Abstract!Append1(e.entry)
      BY <2>5, <2>6 DEF Abstract!Append1
    <2>8. e.entry \in AllEntries
      <3>1. c.entry \in 1..calls
        BY <1>1, <1>2, <1>9 DEF EntriesOK, AuditCall
      <3> QED BY <1>1, <2>1, <3>1, EntriesAreKnown
    <2> QED BY <2>7, <2>8 DEF Abstract!Next, AllEntries
  <1> QED BY <1>4, <1>6, <1>7, <1>8, <1>9

LEMMA StepIsWriteOnce ==
    ASSUME Inv, [Next]_allVars
    PROVE  [Abstract!Next]_<<rows, LogSeq>>
  <1>1. LocksOK /\ RowsOK /\ ChainOK /\ BackupOK
    BY DEF Inv
  <1>2. CASE UNCHANGED <<rows, log>>
    BY <1>2, LogIsSeq
  <1>3. CASE Restore
    <2>1. Begins(log', log) /\ rows' \subseteq rows /\ IsLog(log)
      BY <1>1, <1>3, LogIsLog DEF Restore, BackupOK, Begins
    <2>2. \E n \in 0..Len(LogSeq) : LogSeq' = SubSeq(LogSeq, 1, n)
      BY <2>1, SeqShrinks, LogIsSeq
    <2> QED BY <2>1, <2>2 DEF Abstract!Next, Abstract!Restore
  <1>4. ASSUME NEW t \in Threads, Commit(t), UNCHANGED sink PROVE Abstract!Next
    BY <1>4, CommitIsWrite
  <1> QED BY <1>1, <1>2, <1>3, <1>4, LogSteps

\* For everyone above it the store is append-only and all-or-nothing, and the
\* audit log one hash chain: every step of put_artifact, ingest, insert_ignore,
\* audit, the constructor, a crash, a lost connection or a restore is one step
\* of WriteOnce or none.
THEOREM StoreImplementsWriteOnce == Spec => StoreIsWriteOnce
  <1>1. AnchorsInit => Abstract!Init
    <2> SUFFICES ASSUME AnchorsInit PROVE Abstract!Init
      OBVIOUS
    <2>1. workload \in Workloads /\ rows = workload.ledger /\ log = {}
      BY DEF AnchorsInit, Init
    <2>2. rows \in Batches
      BY <2>1, RowsAreKnown
    <2>3. LogSeq = << >>
      <3>1. Cardinality(log) = 0
        BY <2>1, FS_EmptySet
      <3> QED BY <3>1 DEF LogSeq
    <2> QED BY <2>2, <2>3 DEF Abstract!Init
  <1>2. Inv /\ [Next]_allVars => [Abstract!Next]_<<rows, LogSeq>>
    BY StepIsWriteOnce
  <1> QED BY <1>1, <1>2, InvHolds, PTL DEF Spec, StoreIsWriteOnce, Abstract!Spec

=============================================================================
