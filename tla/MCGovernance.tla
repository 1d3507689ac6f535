---------------------------- MODULE MCGovernance ----------------------------
(***************************************************************************)
(* Small instances of Governance for TLC.                                  *)
(***************************************************************************)
EXTENDS Governance, TLC

CONSTANTS t1, t2, ann, bob, agent, robot, c1, c2, slot1, slot2

\* Threads and the two human approvers are interchangeable.
ThreadSymmetry == Permutations(Threads)
Symmetry == ThreadSymmetry \cup Permutations({ann, bob})

MCSlotOf == [c \in Candidates |-> IF c = c1 THEN slot1 ELSE slot2]

\* The first candidate is discovered, the other one is proposed by a person.
MCProposedBy == [c \in Candidates |-> IF c = c1 THEN agent ELSE ann]
AllDiscovered == [c \in Candidates |-> agent]

\* The state a single caller leaves behind after seeding and after taking
\* every candidate through its gates to state `last`, submitted by ann.
History(last) ==
    LET path == <<"DRAFT", "REPLAYED", "COUNTEREXAMPLES_PASSED", "SHADOW_PASSED",
                  "AWAITING_APPROVAL">>
        upto == CHOOSE n \in DOMAIN path : path[n] = last
    IN  [n \in 1..upto |->
            [state |-> path[n], actor |-> IF n = 5 THEN ann ELSE agent]]

\* One caller has taken every candidate as far as reached[c].
InitAfter(reached) ==
    /\ created = Candidates
    /\ events = [c \in Candidates |-> History(reached[c])]
    /\ reports = {r \in Candidates \X EvidenceStates :
                    \E n \in DOMAIN events[r[1]] : events[r[1]][n].state = r[2]}
    /\ bundles = [v \in Versions |->
          IF v = 1 THEN [parent |-> 0, source |-> NoCandidate, by |-> Seeder,
                         policy |-> SeededPolicy]
                   ELSE NoBundle]
    /\ activations = << [bundle |-> 1, actor |-> Seeder, via |-> "seed"] >>
    /\ audited = UNION {{c} \X DOMAIN events[c] : c \in Candidates}
    /\ pc = [t \in Threads |-> "idle"]
    /\ call = [t \in Threads |-> NoCall]

Submitted == InitAfter([c \in Candidates |-> "AWAITING_APPROVAL"])
OneSubmitted == InitAfter([c \in Candidates |->
                              IF c = c1 THEN "SHADOW_PASSED" ELSE "AWAITING_APPROVAL"])

\* Bound of the set-up: candidates share nothing but the bundle in production, which the
\* set-up does not change, so one behaviour follows one of them, whoever proposed it.
OneCandidate ==
    \E c \in Candidates : created \cup {call[t].cand : t \in Threads} \subseteq {c, NoCandidate}

SpecSubmitted == Submitted /\ [][Next]_vars
SpecOneSubmitted == OneSubmitted /\ [][Next]_vars

=============================================================================
