----------------------------- MODULE WriteOnce -----------------------------
(***************************************************************************)
(* What the store promises everything above it ("append-only",             *)
(* src/asas/store/db.py): a row, once there, keeps its content; a batch of *)
(* rows arrives as a whole; the audit log is one hash chain that grows at  *)
(* its end. Only a restore from a backup goes back, to an earlier state.   *)
(***************************************************************************)
EXTENDS Naturals, Sequences, SequencesExt

CONSTANTS
    Batches,    \* the sets of rows [key, value] that calls write
    Entries     \* what an audit entry may say

VARIABLES
    rows,       \* the stored rows
    log         \* the audit log: [entry, prev] in order

\* A hash stands for all it covers: the entries up to and with its own.
HashAt(chain, n) == [i \in 1..n |-> chain[i].entry]

Init ==
    /\ \E batch \in Batches \cup {{}} : rows = batch
    /\ log = << >>

\* Idempotent: rows that are there already are written again without effect.
Write(batch) ==
    /\ \A w \in batch, r \in rows : w.key = r.key => w = r
    /\ rows' = rows \cup batch
    /\ UNCHANGED log

\* Only those rows of a batch whose key is still free ("insert or ignore").
WriteAbsent(batch) ==
    /\ rows' = rows \cup {w \in batch : \A r \in rows : r.key # w.key}
    /\ UNCHANGED log

Append1(entry) ==
    /\ log' = Append(log, [entry |-> entry, prev |-> HashAt(log, Len(log))])
    /\ UNCHANGED rows

Restore ==
    /\ \E n \in 0..Len(log) : log' = SubSeq(log, 1, n)
    /\ \E kept \in SUBSET rows : rows' = kept

Next ==
    \/ \E batch \in Batches : Write(batch) \/ WriteAbsent(batch)
    \/ \E entry \in Entries : Append1(entry)
    \/ Restore

Spec == Init /\ [][Next]_<<rows, log>>

=============================================================================
