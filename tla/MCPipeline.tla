----------------------------- MODULE MCPipeline -----------------------------
(***************************************************************************)
(* Small instances of Pipeline for TLC.                                    *)
(***************************************************************************)
EXTENDS Pipeline, TLC

CONSTANTS p1, p2

Symmetry == Permutations(Pipelines)

OneDesk == <<"FX", "FX", "FX">>

Benign == {"hedge", "roll"}

\* Two explanations on one desk, and a residual that only the
\* profile of the last snapshot puts into the escalation band.
SomeOfEach == <<{"hedge", "roll", "residual"}, {"hedge"}, {"hedge"}>>

SevereLast == {<<1, i, MaxIngests>> : i \in 0..MaxIngests}

\* Either switch is thrown, bulk proposals or the model.
OneSwitch == {[bulk |-> TRUE, llm |-> FALSE], [bulk |-> FALSE, llm |-> TRUE]}

-----------------------------------------------------------------------------
(* form_cohorts() on larger inputs than a run of the pipeline can take.    *)

Six == INSTANCE Pipeline
          WITH Last <- 6, Desk <- [e \in 1..6 |-> "FX"], Control <- {}, MayRequest <- {}, MaySet <- {},
               MinSize <- 2, MaxSize <- 3, MayConclude <- [e \in 1..6 |-> Benign], Severe <- {}

\* A group is a conclusion and a desk: one desk with two conclusions, and one
\* conclusion on two desks, make three groups.
Hedged == <<"hedge", "FX">>
Rolled == <<"roll", "FX">>
Elsewhere == <<"hedge", "RATES">>
SixGroups == <<Hedged, Rolled, Hedged, Hedged, Elsewhere, Rolled>>

Between(e, c) == \E lo, hi \in c : lo < e /\ e < hi

\* However the proposals fall: cohorts are disjoint, of one group, of a legal
\* size, consecutive in their group, and what they leave of a group is too few.
ASSUME CohortsAreComplete ==
    \A bulk \in SUBSET (1..6), group \in {SixGroups, [e \in 1..6 |-> Hedged]} :
        LET cs == Six!Cohorts(bulk, group)
            left(g) == {e \in bulk \ UNION cs : group[e] = g}
        IN  /\ \A c \in cs :
                  /\ c \subseteq bulk /\ Cardinality(c) \in 2..3
                  /\ \A e, f \in c : group[e] = group[f]
                  /\ \A e \in bulk \ c : group[e] = group[Min(c)] => ~Between(e, c)
                  /\ \A d \in cs \ {c} : c \cap d = {}
            /\ \A g \in {Hedged, Rolled, Elsewhere} : Cardinality(left(g)) < 2

=============================================================================
