------------------------------ MODULE MCStore ------------------------------
(***************************************************************************)
(* A small instance of Anchors: two processes with a thread each; batches  *)
(* that overlap, conflict, and insert their keys in opposite orders; a     *)
(* migration that was edited.                                              *)
(***************************************************************************)
EXTENDS Anchors

CONSTANTS p1, p2, t1, t2

OneEach == t1 :> p1 @@ t2 :> p2

W(k, v) == [key |-> <<"artifacts", k>>, value |-> v]

M(v, c) == [version |-> v, checksum |-> c]

SmallReleases == p1 :> {M(1, 1)} @@ p2 :> {M(1, 1), M(2, 1)}

SmallKeys == p1 :> 1 @@ p2 :> 2

Call(op) == [op |-> op, writes |-> << >>]

\* Two batches that insert their keys in opposite orders and disagree on one.
Writes ==
    {[op |-> "put", writes |-> <<W(1, 1), W(2, 1)>>],
     [op |-> "put", writes |-> <<W(2, 1), W(1, 2)>>],
     [op |-> "cache", writes |-> <<W(1, 3)>>],
     Call("audit")}

\* Both processes start on a new database and write.
Writing ==
    [dialects |-> {"sqlite", "postgres"}, requests |-> Writes, calls |-> 3, faults |-> 1,
     ledger |-> {}, running |-> FALSE, restores |-> FALSE]

\* The first migration was applied with other statements.
Upgrading == [Writing EXCEPT !.calls = 1, !.ledger = {LedgerRow(M(1, 2))}]

\* Long enough to anchor an entry, lose it, and anchor another in its place.
Auditing ==
    [dialects |-> {"postgres"}, requests |-> {Call("audit"), Call("anchor"), Call("verify")},
     calls |-> 4, faults |-> 1, ledger |-> {LedgerRow(M(1, 1)), LedgerRow(M(2, 1))},
     running |-> TRUE, restores |-> TRUE]

AllWorkloads == {Writing, Upgrading, Auditing}

=============================================================================
