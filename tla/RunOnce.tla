------------------------------ MODULE RunOnce ------------------------------
(***************************************************************************)
(* What the agent runtime promises its callers ("idempotent runs           *)
(* (replay-by-record of completed runs)", src/asas/agents/runtime.py): a   *)
(* run has at most one result, and every caller that gets an answer gets   *)
(* that one, however often the run is asked for.                           *)
(***************************************************************************)
CONSTANTS
    Runs,       \* run ids
    Results,    \* what a run may conclude
    Callers,
    NoResult,   \* the run has not completed
    NoAnswer    \* the caller waits, or its call failed

VARIABLES
    recorded,   \* recorded[r]: the result of run r
    answer      \* answer[c]: the run and the result the last call of c returned

Init ==
    /\ recorded = [r \in Runs |-> NoResult]
    /\ answer = [c \in Callers |-> NoAnswer]

Record(r) ==
    /\ recorded[r] = NoResult
    /\ recorded'[r] \in Results
    /\ recorded' = [recorded EXCEPT ![r] = recorded'[r]]
    /\ UNCHANGED answer

Answer(c, r) ==
    /\ recorded[r] # NoResult
    /\ answer' = [answer EXCEPT ![c] = <<r, recorded[r]>>]
    /\ UNCHANGED recorded

\* A caller asks again, or its call fails; a crash loses every caller at once.
Ask(C) ==
    /\ answer' = [c \in Callers |-> IF c \in C THEN NoAnswer ELSE answer[c]]
    /\ UNCHANGED recorded

Next ==
    \/ \E r \in Runs : Record(r)
    \/ \E c \in Callers, r \in Runs : Answer(c, r)
    \/ \E C \in SUBSET Callers : Ask(C)

Spec == Init /\ [][Next]_<<recorded, answer>>

=============================================================================
