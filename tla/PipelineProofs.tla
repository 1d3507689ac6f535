--------------------------- MODULE PipelineProofs ---------------------------
(***************************************************************************)
(* Proofs about Pipeline, for any number of runs, episodes, workers, rows, *)
(* switches and faults, and any desks, control sample and cohort sizes.    *)
(***************************************************************************)
EXTENDS Pipeline, FiniteSetTheorems, Induction, TLAPS

-----------------------------------------------------------------------------
(* The decisions: what decide_case() and form_cohorts() make of a run.     *)

\* A cohort holds proposals only.
LEMMA CohortsOfProposals ==
    ASSUME NEW bulk, NEW group, NEW c \in Cohorts(bulk, group)
    PROVE  c \subseteq bulk
  <1>1. \A k, g : Chunk(bulk, group, k, g) \subseteq bulk
    BY Zenon DEF Chunk
  <1>2. PICK k \in 1..Last, e \in bulk : c = Chunk(bulk, group, k, group[e])
    BY DEF Cohorts, Chunks
  <1> QED BY <1>1, <1>2

LEMMA ReasonsType ==
    ASSUME NEW e \in Episodes, NEW o \in Outcomes, NEW s, NEW blocks \in SUBSET Blocks
    PROVE  /\ Reasons(e, o, s, blocks) \subseteq AllReasons \ {"CONTROL_SAMPLE", "COHORT_BELOW_MIN_SIZE"}
           /\ blocks \subseteq Reasons(e, o, s, blocks)
           /\ o.verdict \notin Explanations => Reasons(e, o, s, blocks) # {}
  <1>1. o.verdict \in Verdicts \cup {"failed"}
    BY DEF Outcomes, Failed
  <1>2. /\ Concern(o.verdict) \subseteq {"AGENT_UNAVAILABLE", "UNSETTLED", "ANOMALY_SUPPORTED",
                                       "UNEXPLAINED_DEVIATION"}
        /\ o.verdict \notin Explanations => Concern(o.verdict) # {}
    BY <1>1 DEF Concern, Verdicts
  <1> QED BY <1>2 DEF Reasons, AllReasons, Blocks

\* The case of an episode, in terms of the outcome of its investigation.
LEMMA DecidedCase ==
    ASSUME NEW r \in Locals, r.outcomes \in [Episodes -> Outcomes], NEW e \in Episodes
    PROVE  LET c == Decided(r)[e]
               o == r.outcomes[e]
           IN  /\ c \in Cases
               /\ c.id = o.id /\ c.conclusion = o.verdict
               /\ c.rec = "bulk" <=> c.reasons = {}
               /\ c.rec = "bulk" => /\ o.verdict \in Explanations /\ e \notin Control
                                    /\ RunBlocks(r.ops, r.snap) = {}
               /\ c.rec = "escalation" <=> Escalates(e, o, r.snap)
  <1> DEFINE blocks == RunBlocks(r.ops, r.snap)
             why(f) == Reasons(f, r.outcomes[f], r.snap, blocks)
             first(f) == Recommend(f, r.outcomes[f], r.snap, why(f))
             proposed == {f \in Episodes : first(f) = "bulk"}
             group == [f \in Episodes |-> <<r.outcomes[f].verdict, Desk[f]>>]
             cohort(f) == UNION {c \in Cohorts(proposed, group) : f \in c}
             tooFew(f) == first(f) = "bulk" /\ cohort(f) = {}
             o == r.outcomes[e]
             case == [id |-> o.id, conclusion |-> o.verdict, cohort |-> cohort(e),
                      rec |-> IF tooFew(e) THEN "individual" ELSE first(e),
                      reasons |-> why(e)
                         \cup {x \in {"CONTROL_SAMPLE"} : Drawn(e, o, why(e))}
                         \cup {x \in {"COHORT_BELOW_MIN_SIZE"} : tooFew(e)}]
  <1>1. Decided(r)[e] = case
    BY Zenon DEF Decided
  <1>2. blocks \in SUBSET Blocks
    BY DEF RunBlocks
  <1>3. /\ why(e) \subseteq AllReasons \ {"CONTROL_SAMPLE", "COHORT_BELOW_MIN_SIZE"}
        /\ blocks \subseteq why(e)
        /\ o.verdict \notin Explanations => why(e) # {}
    BY <1>2, ReasonsType
  <1>4. cohort(e) \in SUBSET Episodes
    BY CohortsOfProposals
  <1>5. /\ o \in Outcomes /\ o.id \in RunIds \cup {NoResult}
        /\ o.verdict \in Verdicts \cup {"failed"}
    BY DEF Outcomes, Failed
  <1>11. Escalates(e, o, r.snap) => o.verdict \notin Explanations
    BY PipelineAssumption DEF Escalates
  <1> HIDE DEF why, cohort, blocks, group
  <1>6. /\ first(e) \in Recommendations
        /\ first(e) = "bulk" <=>
              o.verdict \in Explanations /\ why(e) = {} /\ ~Drawn(e, o, why(e))
        /\ first(e) = "escalation" <=> Escalates(e, o, r.snap)
    BY <1>11 DEF Recommend, Recommendations
  <1>7. case \in Cases
    BY <1>3, <1>4, <1>5, <1>6 DEF Cases, AllReasons, Recommendations
  <1>8. case.rec = "bulk" <=> case.reasons = {}
    BY <1>3, <1>6 DEF Drawn
  <1>9. case.rec = "bulk" => o.verdict \in Explanations /\ e \notin Control /\ blocks = {}
    BY <1>3, <1>6 DEF Drawn
  <1>10. case.rec = "escalation" <=> Escalates(e, o, r.snap)
    BY <1>6
  <1> QED BY <1>1, <1>7, <1>8, <1>9, <1>10 DEF blocks

-----------------------------------------------------------------------------
(* Types.                                                                  *)

LEMMA RunBlocksType ==
    ASSUME NEW o, NEW s PROVE RunBlocks(o, s) \in SUBSET Blocks
  BY DEF RunBlocks

LEMMA KeyType ==
    ASSUME NEW p \in Pipelines, run[p].snap \in Sources
    PROVE  Key(p) \in Keys /\ Key(p)[1] = run[p].snap.rows
           /\ Key(p)[2] = RunBlocks(run[p].ops, run[p].snap)
  BY RunBlocksType DEF Key, RunKey, Keys, SnapshotId, Sources

LEMMA EpisodesFinite == IsFiniteSet(Episodes)
  BY PipelineAssumption, FS_Interval DEF Episodes

LEMMA ReportType ==
    ASSUME NEW key \in Keys, NEW d,
           \A e \in Episodes : d[e] \in Cases
    PROVE  Report(key, d) \in Reports
  <1>1. ASSUME NEW S \in SUBSET Episodes PROVE Cardinality(S) \in Nat
    BY EpisodesFinite, FS_Subset, FS_CardinalityType
  <1>2. \A rec : Number(d, rec) \in Nat
    BY <1>1 DEF Number
  <1>3. Cardinality({e \in Episodes : d[e].id = NoResult}) \in Nat
    BY <1>1
  <1>4. {d[e].cohort : e \in Episodes} \ {{}} \in SUBSET SUBSET Episodes
    BY DEF Cases
  <1> QED BY <1>2, <1>3, <1>4 DEF Report, Reports

LEMMA FreshType == Fresh \in Locals
  BY PipelineAssumption DEF Fresh, Locals, Episodes

LEMMA CurrentType == TypeOK => Current \in Sources
  BY DEF TypeOK, Current

LEMMA AgentRunType ==
    ASSUME TypeOK, NEW e \in Episodes PROVE AgentRun(e) \in RunIds /\ AgentRun(e)[1] = e
  BY CurrentType DEF AgentRun, RunIds, SnapshotId, Sources

-----------------------------------------------------------------------------
(* The invariant.                                                          *)

\* What a stored case says of the recorded results.
CasesOK == CasesAreRecorded /\ BulkIsJustified

LEMMA InitInv == Init => Inv
  <1> SUFFICES ASSUME Init PROVE Inv
    OBVIOUS
  <1>1. /\ source \in Sources /\ ops \in [bulk : BOOLEAN, llm : BOOLEAN]
        /\ ingests \in 0..MaxIngests /\ switches \in 0..MaxSwitches
        /\ faults \in 0..MaxFaults
    BY PipelineAssumption DEF Init, Sources
  <1>2. /\ recorded \in [RunIds -> Verdicts \cup {NoResult}]
        /\ cases \in [Keys -> [Episodes -> Cases \cup {NoCase}]]
        /\ cohorts \in [Keys -> SUBSET SUBSET Episodes]
        /\ reports \in Seq(Reports)
    BY DEF Init
  <1>3. pc \in [Pipelines -> Steps] /\ run \in [Pipelines -> Locals]
    BY FreshType DEF Init, Steps
  <1>4. TypeOK
    BY <1>1, <1>2, <1>3 DEF Init, TypeOK
  <1>5. OutcomesAreRecorded
    BY DEF Init, OutcomesAreRecorded, Fresh
  <1>6. CasesAreRecorded /\ BulkIsJustified
    BY DEF Init, CasesAreRecorded, BulkIsJustified
  <1>7. source.rows <= ingests
    BY DEF Init
  <1> QED BY <1>4, <1>5, <1>6, <1>7 DEF Inv

\* Results are recorded once.
RecordsStay ==
    /\ recorded' \in [RunIds -> Verdicts \cup {NoResult}]
    /\ \A i \in RunIds : recorded[i] # NoResult => recorded'[i] = recorded[i]

LEMMA CasesStay ==
    ASSUME Inv, RecordsStay, cases' = cases
    PROVE  CasesOK'
  <1>1. CasesAreRecorded'
    BY DEF Inv, CasesAreRecorded, RecordsStay
  <1>2. BulkIsJustified'
    BY DEF Inv, BulkIsJustified, CasesAreRecorded, RecordsStay
  <1> QED BY <1>1, <1>2 DEF CasesOK

\* An outcome that is neither unknown nor a failure is a recorded verdict.
LEMMA OutcomeIsVerdict ==
    ASSUME NEW o \in Outcomes \cup {Unset}, o \notin {Unset, Failed}
    PROVE  o.id \in RunIds /\ o.verdict \in Verdicts
  BY DEF Outcomes

\* A run gets on: the types, and that its outcomes are recorded.
LEMMA Goes ==
    ASSUME Inv, RecordsStay, NEW p \in Pipelines, NEW step \in Steps, NEW r \in Locals,
           Goto(p, step, r),
           step \in {"investigate", "put_case", "put_cohorts", "publish"} => r.snap \in Sources,
           step \in {"put_case", "put_cohorts", "publish"} => r.outcomes \in [Episodes -> Outcomes],
           \A e \in Episodes : r.outcomes[e] \notin {Unset, Failed} =>
               r.outcomes[e].id[1] = e /\ recorded'[r.outcomes[e].id] = r.outcomes[e].verdict
    PROVE  /\ pc' \in [Pipelines -> Steps] /\ run' \in [Pipelines -> Locals]
           /\ \A q \in Pipelines :
                /\ pc'[q] \in {"investigate", "put_case", "put_cohorts", "publish"}
                      => run'[q].snap \in Sources
                /\ pc'[q] \in {"put_case", "put_cohorts", "publish"}
                      => run'[q].outcomes \in [Episodes -> Outcomes]
           /\ OutcomesAreRecorded'
  <1>1. /\ pc' \in [Pipelines -> Steps] /\ run' \in [Pipelines -> Locals]
        /\ pc'[p] = step /\ run'[p] = r
        /\ \A q \in Pipelines \ {p} : pc'[q] = pc[q] /\ run'[q] = run[q]
    BY DEF Inv, TypeOK, Goto
  <1>2. \A q \in Pipelines :
          /\ pc'[q] \in {"investigate", "put_case", "put_cohorts", "publish"}
                => run'[q].snap \in Sources
          /\ pc'[q] \in {"put_case", "put_cohorts", "publish"}
                => run'[q].outcomes \in [Episodes -> Outcomes]
    BY <1>1 DEF Inv, TypeOK
  <1>3. ASSUME NEW q \in Pipelines, NEW e \in Episodes,
               run'[q].outcomes[e] \notin {Unset, Failed}
        PROVE  /\ run'[q].outcomes[e].id[1] = e
               /\ recorded'[run'[q].outcomes[e].id] = run'[q].outcomes[e].verdict
    <2>1. CASE q = p
      BY <1>1, <1>3, <2>1
    <2>2. CASE q # p
      <3> DEFINE o == run[q].outcomes[e]
      <3>1. o = run'[q].outcomes[e] /\ o \in Outcomes \cup {Unset}
        BY <1>1, <2>2 DEF Inv, TypeOK, Locals
      <3>2. o.id \in RunIds /\ o.verdict \in Verdicts
        BY <1>3, <3>1, OutcomeIsVerdict
      <3>3. o.id[1] = e /\ recorded[o.id] = o.verdict
        BY <1>3, <3>1 DEF Inv, OutcomesAreRecorded
      <3>4. recorded'[o.id] = o.verdict
        BY <3>2, <3>3, PipelineSentinels DEF RecordsStay
      <3> QED BY <3>1, <3>3, <3>4
    <2> QED BY <2>1, <2>2
  <1> QED BY <1>1, <1>2, <1>3 DEF OutcomesAreRecorded

-----------------------------------------------------------------------------
(* The steps.                                                              *)

LEMMA Unrecorded == Inv /\ recorded' = recorded => RecordsStay
  BY DEF Inv, TypeOK, RecordsStay

LEMMA FreshFacts ==
    ASSUME Inv
    PROVE  /\ Fresh \in Locals
           /\ [Fresh EXCEPT !.ops = ops] \in Locals
           /\ \A e \in Episodes :
                /\ Fresh.outcomes[e] = Unset
                /\ [Fresh EXCEPT !.ops = ops].outcomes[e] = Unset
  BY FreshType DEF Inv, TypeOK, Fresh, Locals

\* What the locals of a run say of the records, and stay after a step.
LEMMA OwnOutcomes ==
    ASSUME Inv, recorded' = recorded, NEW p \in Pipelines
    PROVE  /\ run[p] \in Locals
           /\ \A e \in Episodes : run[p].outcomes[e] \notin {Unset, Failed} =>
                 run[p].outcomes[e].id[1] = e
                 /\ recorded'[run[p].outcomes[e].id] = run[p].outcomes[e].verdict
  BY DEF Inv, TypeOK, OutcomesAreRecorded

LEMMA BeginStep == ASSUME Inv, NEW p \in Pipelines, Begin(p) PROVE Inv'
  <1>1. RecordsStay /\ CasesOK'
    BY Unrecorded, CasesStay DEF Begin, store
  <1>2. /\ pc' \in [Pipelines -> Steps] /\ run' \in [Pipelines -> Locals]
        /\ \A q \in Pipelines :
             /\ pc'[q] \in {"investigate", "put_case", "put_cohorts", "publish"}
                   => run'[q].snap \in Sources
             /\ pc'[q] \in {"put_case", "put_cohorts", "publish"}
                   => run'[q].outcomes \in [Episodes -> Outcomes]
        /\ OutcomesAreRecorded'
    <2>1. Goto(p, "snapshot", [Fresh EXCEPT !.ops = ops]) /\ "snapshot" \in Steps
      BY DEF Begin, Steps
    <2> QED BY <1>1, <2>1, FreshFacts, Goes
  <1>3. TypeOK'
    BY <1>2 DEF Inv, TypeOK, Begin, store, environment
  <1> QED BY <1>1, <1>2, <1>3 DEF Inv, CasesOK, Begin, environment

LEMMA TakeSnapshotStep == ASSUME Inv, NEW p \in Pipelines, TakeSnapshot(p) PROVE Inv'
  <1>1. RecordsStay /\ CasesOK' /\ recorded' = recorded
    BY Unrecorded, CasesStay DEF TakeSnapshot, store
  <1> DEFINE r == [run[p] EXCEPT !.snap = Current]
  <1>2. Current \in Sources
    BY CurrentType DEF Inv
  <1>3. r \in Locals /\ r.snap = Current /\ r.outcomes = run[p].outcomes
    BY <1>1, <1>2, OwnOutcomes DEF Locals
  <1>4. Goto(p, "investigate", r) /\ "investigate" \in Steps
    BY DEF TakeSnapshot, Steps
  <1>5. /\ pc' \in [Pipelines -> Steps] /\ run' \in [Pipelines -> Locals]
        /\ \A q \in Pipelines :
             /\ pc'[q] \in {"investigate", "put_case", "put_cohorts", "publish"}
                   => run'[q].snap \in Sources
             /\ pc'[q] \in {"put_case", "put_cohorts", "publish"}
                   => run'[q].outcomes \in [Episodes -> Outcomes]
        /\ OutcomesAreRecorded'
    <2> HIDE DEF r
    <2> QED BY <1>1, <1>2, <1>3, <1>4, OwnOutcomes, Goes
  <1>6. suspended' \in BOOLEAN
    BY <1>1, OwnOutcomes DEF TakeSnapshot, Locals
  <1>7. TypeOK'
    BY <1>2, <1>5, <1>6 DEF Inv, TypeOK, TakeSnapshot, store, environment
  <1> QED BY <1>1, <1>5, <1>7 DEF Inv, CasesOK, TakeSnapshot, environment

\* An outcome arrives that the records bear out.
LEMMA OutcomeGoes ==
    ASSUME Inv, RecordsStay, NEW p \in Pipelines, NEW e \in Episodes, NEW o \in Outcomes,
           Outcome(p, e, o), o # Failed => o.id[1] = e /\ recorded'[o.id] = o.verdict
    PROVE  /\ pc' \in [Pipelines -> Steps] /\ run' \in [Pipelines -> Locals]
           /\ \A q \in Pipelines :
                /\ pc'[q] \in {"investigate", "put_case", "put_cohorts", "publish"}
                      => run'[q].snap \in Sources
                /\ pc'[q] \in {"put_case", "put_cohorts", "publish"}
                      => run'[q].outcomes \in [Episodes -> Outcomes]
           /\ OutcomesAreRecorded'
  <1> DEFINE r == [run[p] EXCEPT !.outcomes[e] = o]
             step == IF \E f \in Episodes : r.outcomes[f] = Unset
                     THEN "investigate" ELSE "put_case"
  <1>1. run[p] \in Locals /\ run[p].snap \in Sources
    BY DEF Inv, TypeOK, Outcome
  <1>2. /\ r \in Locals /\ r.snap = run[p].snap /\ r.outcomes[e] = o
        /\ \A f \in Episodes \ {e} : r.outcomes[f] = run[p].outcomes[f]
    BY <1>1 DEF Locals
  <1>3. Goto(p, step, r) /\ step \in Steps
    BY DEF Outcome, Steps
  <1>4. step = "put_case" => r.outcomes \in [Episodes -> Outcomes]
    BY <1>2 DEF Locals
  <1>5. ASSUME NEW f \in Episodes, r.outcomes[f] \notin {Unset, Failed}
        PROVE  r.outcomes[f].id[1] = f /\ recorded'[r.outcomes[f].id] = r.outcomes[f].verdict
    <2>1. CASE f = e
      BY <1>2, <1>5, <2>1
    <2>2. CASE f # e
      <3> DEFINE q == run[p].outcomes[f]
      <3>1. r.outcomes[f] = q /\ q \in Outcomes \cup {Unset}
        BY <1>1, <1>2, <2>2 DEF Locals
      <3>2. q.id \in RunIds /\ q.verdict \in Verdicts
        BY <1>5, <3>1, OutcomeIsVerdict
      <3>3. q.id[1] = f /\ recorded[q.id] = q.verdict
        BY <1>5, <3>1 DEF Inv, OutcomesAreRecorded
      <3>4. recorded'[q.id] = q.verdict
        BY <3>2, <3>3, PipelineSentinels DEF RecordsStay
      <3> QED BY <3>1, <3>3, <3>4
    <2> QED BY <2>1, <2>2
  <1>6. step \in {"investigate", "put_case"}
    OBVIOUS
  <1> HIDE DEF r, step
  <1> QED BY <1>1, <1>2, <1>3, <1>4, <1>5, <1>6, Goes

\* A result is recorded or replayed.
LEMMA ConcludeRecords ==
    ASSUME Inv, NEW e \in Episodes, NEW v \in MayConclude[e], Conclude(e, v)
    PROVE  /\ RecordsStay
           /\ AgentRun(e) \in RunIds /\ AgentRun(e)[1] = e /\ v \in Verdicts
           /\ recorded'[AgentRun(e)] = v
           /\ cache' \in Sources
  <1>1. AgentRun(e) \in RunIds /\ AgentRun(e)[1] = e
    BY AgentRunType DEF Inv
  <1>2. v \in Verdicts
    BY PipelineAssumption DEF Verdicts
  <1>3. recorded \in [RunIds -> Verdicts \cup {NoResult}] /\ cache' \in Sources
    BY CurrentType DEF Inv, TypeOK, Conclude
  <1> QED BY <1>1, <1>2, <1>3 DEF Conclude, RecordsStay

LEMMA InvestigateStep ==
    ASSUME Inv, NEW p \in Pipelines, NEW e \in Episodes, Investigate(p, e) PROVE Inv'
  <1>1. PICK v \in MayConclude[e] :
           Conclude(e, v) /\ Outcome(p, e, [id |-> AgentRun(e), verdict |-> v])
    BY DEF Investigate
  <1> DEFINE o == [id |-> AgentRun(e), verdict |-> v]
  <1>2. /\ RecordsStay /\ cache' \in Sources
        /\ o \in Outcomes /\ o.id[1] = e /\ recorded'[o.id] = o.verdict
    BY <1>1, ConcludeRecords DEF Outcomes
  <1>3. CasesOK'
    BY <1>2, CasesStay DEF Investigate
  <1>4. /\ pc' \in [Pipelines -> Steps] /\ run' \in [Pipelines -> Locals]
        /\ \A q \in Pipelines :
             /\ pc'[q] \in {"investigate", "put_case", "put_cohorts", "publish"}
                   => run'[q].snap \in Sources
             /\ pc'[q] \in {"put_case", "put_cohorts", "publish"}
                   => run'[q].outcomes \in [Episodes -> Outcomes]
        /\ OutcomesAreRecorded'
    <2>1. Outcome(p, e, o)
      BY <1>1
    <2> HIDE DEF o
    <2> QED BY <1>2, <2>1, OutcomeGoes
  <1>5. TypeOK'
    BY <1>2, <1>4 DEF Inv, TypeOK, Investigate, environment, RecordsStay
  <1> QED BY <1>3, <1>4, <1>5 DEF Inv, CasesOK, Investigate, environment

LEMMA InvestigateFailsStep ==
    ASSUME Inv, NEW p \in Pipelines, NEW e \in Episodes, InvestigateFails(p, e) PROVE Inv'
  <1>1. RecordsStay /\ cache' \in Sources \cup {NoSnapshot}
    <2>1. CASE UNCHANGED <<recorded, cache>>
      BY <2>1, Unrecorded DEF Inv, TypeOK
    <2>2. CASE \E v \in MayConclude[e] : Conclude(e, v)
      BY <2>2, ConcludeRecords
    <2> QED BY <2>1, <2>2 DEF InvestigateFails
  <1>2. CasesOK'
    BY <1>1, CasesStay DEF InvestigateFails
  <1>3. /\ pc' \in [Pipelines -> Steps] /\ run' \in [Pipelines -> Locals]
        /\ \A q \in Pipelines :
             /\ pc'[q] \in {"investigate", "put_case", "put_cohorts", "publish"}
                   => run'[q].snap \in Sources
             /\ pc'[q] \in {"put_case", "put_cohorts", "publish"}
                   => run'[q].outcomes \in [Episodes -> Outcomes]
        /\ OutcomesAreRecorded'
    <2>1. Outcome(p, e, Failed) /\ Failed \in Outcomes
      BY DEF InvestigateFails, Outcomes
    <2> QED BY <1>1, <2>1, OutcomeGoes
  <1>4. faults' \in 0..MaxFaults
    BY PipelineAssumption DEF Inv, TypeOK, InvestigateFails
  <1>5. TypeOK'
    BY <1>1, <1>3, <1>4 DEF Inv, TypeOK, InvestigateFails, RecordsStay
  <1> QED BY <1>2, <1>3, <1>5 DEF Inv, CasesOK, InvestigateFails

\* A run that has all outcomes gets on without touching the records.
LEMMA Proceeds ==
    ASSUME Inv, recorded' = recorded, NEW p \in Pipelines,
           pc[p] \in {"put_case", "put_cohorts", "publish"},
           NEW step \in Steps, NEW r,
           \/ r = Fresh /\ step \in {"idle", "finish", "failed"}
           \/ \E n \in Episodes : r = [run[p] EXCEPT !.at = n],
           Goto(p, step, r)
    PROVE  /\ pc' \in [Pipelines -> Steps] /\ run' \in [Pipelines -> Locals]
           /\ \A q \in Pipelines :
                /\ pc'[q] \in {"investigate", "put_case", "put_cohorts", "publish"}
                      => run'[q].snap \in Sources
                /\ pc'[q] \in {"put_case", "put_cohorts", "publish"}
                      => run'[q].outcomes \in [Episodes -> Outcomes]
           /\ OutcomesAreRecorded'
  <1>1. run[p].snap \in Sources /\ run[p].outcomes \in [Episodes -> Outcomes]
    BY DEF Inv, TypeOK
  <1>2. RecordsStay
    BY Unrecorded
  <1>3. CASE r = Fresh /\ step \in {"idle", "finish", "failed"}
    <2>1. /\ r \in Locals
          /\ \A e \in Episodes : r.outcomes[e] = Unset
      BY <1>3, FreshFacts
    <2> QED BY <1>2, <1>3, <2>1, Goes
  <1>4. CASE \E n \in Episodes : r = [run[p] EXCEPT !.at = n]
    <2>1. r \in Locals /\ r.snap = run[p].snap /\ r.outcomes = run[p].outcomes
      BY <1>4, OwnOutcomes DEF Locals
    <2> QED BY <1>1, <1>2, <2>1, OwnOutcomes, Goes
  <1> QED BY <1>3, <1>4

\* The recorded result of a case is an anomaly to escalate.
InBand(case, key, e) ==
    \/ recorded[case.id] = "anomalous"
    \/ recorded[case.id] = "residual" /\ <<e, case.id[2], key[1]>> \in Severe

\* The recorded result of a case allows a bulk proposal.
Justified(case, key, e) ==
    /\ case.id \in RunIds /\ case.id[1] = e
    /\ recorded[case.id] = case.conclusion /\ case.conclusion \in Explanations
    /\ e \notin Control /\ key[1] >= Needed /\ key[2] = {}

LEMMA BulkIsJustifiedBody ==
    /\ BulkIsJustified <=>
         \A k \in Keys, e \in Episodes :
            cases[k][e] # NoCase =>
              /\ cases[k][e].rec = "bulk" <=> cases[k][e].reasons = {}
              /\ cases[k][e].rec = "bulk" => Justified(cases[k][e], k, e)
              /\ cases[k][e].id \in RunIds =>
                    (cases[k][e].rec = "escalation" <=> InBand(cases[k][e], k, e))
  BY DEF BulkIsJustified, Justified, InBand

\* What the invariant wants of a case c stored under the key k for episode e.
MayBeStored(case, key, e) ==
    /\ case \in Cases
    /\ case.id \in RunIds => /\ recorded[case.id] # NoResult
                             /\ case.rec = "escalation" <=> InBand(case, key, e)
    /\ case.rec = "bulk" <=> case.reasons = {}
    /\ case.rec = "bulk" => Justified(case, key, e)

LEMMA StoredCase ==
    ASSUME Inv, NEW p \in Pipelines, pc[p] = "put_case", NEW e \in Episodes
    PROVE  Key(p) \in Keys /\ MayBeStored(Decided(run[p])[e], Key(p), e)
  <1> DEFINE r == run[p]
             o == r.outcomes[e]
             c == Decided(r)[e]
             k == Key(p)
  <1>1. /\ r \in Locals /\ r.snap \in Sources
        /\ r.outcomes \in [Episodes -> Outcomes] /\ o \in Outcomes /\ o # Unset
    BY PipelineSentinels DEF Inv, TypeOK
  <1>2. k \in Keys /\ k[1] = r.snap.rows /\ k[2] = RunBlocks(r.ops, r.snap)
    BY <1>1, KeyType
  <1>3. /\ c \in Cases
        /\ c.id = o.id /\ c.conclusion = o.verdict
        /\ c.rec = "bulk" <=> c.reasons = {}
        /\ c.rec = "bulk" => o.verdict \in Explanations /\ e \notin Control /\ k[2] = {}
        /\ c.rec = "escalation" <=> Escalates(e, o, r.snap)
    <2> HIDE DEF c, r, k
    <2>1. LET d == Decided(r)[e]
          IN  /\ d \in Cases
              /\ d.id = r.outcomes[e].id /\ d.conclusion = r.outcomes[e].verdict
              /\ d.rec = "bulk" <=> d.reasons = {}
              /\ d.rec = "bulk" => /\ r.outcomes[e].verdict \in Explanations
                                   /\ e \notin Control /\ RunBlocks(r.ops, r.snap) = {}
              /\ d.rec = "escalation" <=> Escalates(e, r.outcomes[e], r.snap)
      BY <1>1, DecidedCase
    <2> QED BY <1>2, <2>1 DEF c
  <1>4. k[2] = {} => k[1] >= Needed
    <2>1. k[1] \in Int /\ Needed \in Int
      BY <1>1, <1>2, PipelineAssumption DEF Sources
    <2>2. k[2] = {} => ~(k[1] < Needed)
      BY <1>2 DEF RunBlocks, Blocks
    <2> QED BY <2>1, <2>2
  <1>5. o # Failed => /\ o.id \in RunIds /\ o.verdict \in Verdicts
                      /\ o.id[1] = e /\ recorded[o.id] = o.verdict
    BY <1>1, OutcomeIsVerdict DEF Inv, OutcomesAreRecorded
  <1>6. o = Failed => o.id \notin RunIds /\ o.verdict \notin Explanations
    BY PipelineSentinels, PipelineAssumption DEF Failed
  <1>11. Escalates(e, o, r.snap) <=>
           \/ o.verdict = "anomalous"
           \/ o.verdict = "residual" /\ <<e, o.id[2], k[1]>> \in Severe
    BY <1>2 DEF Escalates
  <1> HIDE DEF c, k, o
  <1>7. c.id \in RunIds => /\ recorded[c.id] # NoResult
                           /\ c.rec = "escalation" <=> InBand(c, k, e)
    BY <1>3, <1>5, <1>6, <1>11, PipelineSentinels DEF InBand
  <1>8. c.rec = "bulk" => Justified(c, k, e)
    BY <1>3, <1>4, <1>5, <1>6 DEF Justified
  <1>10. MayBeStored(c, k, e)
    BY <1>3, <1>7, <1>8 DEF MayBeStored
  <1> QED BY <1>2, <1>10 DEF c, k

LEMMA PutCaseStep == ASSUME Inv, NEW p \in Pipelines, PutCase(p) PROVE Inv'
  <1> DEFINE f == run[p].at
             c == Decided(run[p])[f]
             k == Key(p)
  <1>1. f \in Episodes /\ pc[p] = "put_case" /\ recorded' = recorded
    BY DEF Inv, TypeOK, Locals, PutCase
  <1>2. k \in Keys /\ MayBeStored(c, k, f)
    BY <1>1, StoredCase
  <1>3. /\ pc' \in [Pipelines -> Steps] /\ run' \in [Pipelines -> Locals]
        /\ \A q \in Pipelines :
             /\ pc'[q] \in {"investigate", "put_case", "put_cohorts", "publish"}
                   => run'[q].snap \in Sources
             /\ pc'[q] \in {"put_case", "put_cohorts", "publish"}
                   => run'[q].outcomes \in [Episodes -> Outcomes]
        /\ OutcomesAreRecorded'
    <2>1. CASE NextCase(p)
      <3>1. \E step \in Steps, n \in Episodes : Goto(p, step, [run[p] EXCEPT !.at = n])
        <4>1. CASE f < Last
          <5>1. f + 1 \in Episodes /\ Goto(p, "put_case", [run[p] EXCEPT !.at = f + 1])
            BY <1>1, <2>1, <4>1, PipelineAssumption DEF NextCase, Episodes
          <5> QED BY <5>1 DEF Steps
        <4>2. CASE ~(f < Last)
          <5>1. 1 \in Episodes /\ Goto(p, "put_cohorts", [run[p] EXCEPT !.at = 1])
            BY <2>1, <4>2, PipelineAssumption DEF NextCase, Episodes
          <5> QED BY <5>1 DEF Steps
        <4> QED BY <4>1, <4>2
      <3> QED BY <1>1, <3>1, Proceeds
    <2>2. CASE Goto(p, "failed", Fresh)
      BY <1>1, <2>2, Proceeds DEF Steps
    <2> QED BY <2>1, <2>2 DEF PutCase
  <1>4. /\ cases' \in [Keys -> [Episodes -> Cases \cup {NoCase}]]
        /\ \A l \in Keys, e \in Episodes :
              cases'[l][e] = cases[l][e] \/ MayBeStored(cases'[l][e], l, e)
    <2>1. cases \in [Keys -> [Episodes -> Cases \cup {NoCase}]] /\ c \in Cases
      BY <1>2 DEF Inv, TypeOK, MayBeStored
    <2>2. CASE cases' = [cases EXCEPT ![k][f] = c]
      <3>1. cases'[k][f] = c
        BY <1>1, <1>2, <2>1, <2>2
      <3>2. \A l \in Keys, e \in Episodes : l # k \/ e # f => cases'[l][e] = cases[l][e]
        BY <1>1, <1>2, <2>1, <2>2
      <3>3. cases' \in [Keys -> [Episodes -> Cases \cup {NoCase}]]
        BY <1>1, <1>2, <2>1, <2>2
      <3> HIDE DEF c, k, f
      <3> QED BY <1>2, <3>1, <3>2, <3>3
    <2>3. CASE UNCHANGED cases
      BY <2>1, <2>3
    <2> QED BY <2>2, <2>3 DEF PutCase
  <1>5. TypeOK'
    BY <1>3, <1>4 DEF Inv, TypeOK, PutCase, environment
  <1>6. ASSUME NEW l \in Keys, NEW e \in Episodes, cases'[l][e] # NoCase
        PROVE  MayBeStored(cases'[l][e], l, e)
    <2>1. CASE cases'[l][e] = cases[l][e]
      <3> DEFINE old == cases[l][e]
      <3>1. old # NoCase /\ old \in Cases
        BY <1>6, <2>1 DEF Inv, TypeOK
      <3>2. old.id \in RunIds => recorded[old.id] # NoResult
        BY <3>1 DEF Inv, CasesAreRecorded
      <3>3. /\ old.rec = "bulk" <=> old.reasons = {}
            /\ old.rec = "bulk" => Justified(old, l, e)
            /\ old.id \in RunIds => (old.rec = "escalation" <=> InBand(old, l, e))
        BY <3>1, BulkIsJustifiedBody DEF Inv
      <3> HIDE DEF old
      <3>5. MayBeStored(old, l, e)
        BY <3>1, <3>2, <3>3 DEF MayBeStored
      <3> QED BY <2>1, <3>5 DEF old
    <2> QED BY <1>4, <2>1
  <1>7. CasesAreRecorded'
    BY <1>1, <1>6 DEF CasesAreRecorded, MayBeStored
  <1>9. BulkIsJustified'
    BY <1>1, <1>6 DEF BulkIsJustified, MayBeStored, Justified, InBand
  <1> QED BY <1>3, <1>5, <1>7, <1>9 DEF Inv, PutCase, environment

\* The report of a run that has stored its cases.
LEMMA OwnReport ==
    ASSUME Inv, NEW p \in Pipelines, pc[p] \in {"put_cohorts", "publish"}
    PROVE  Key(p) \in Keys /\ Report(Key(p), Decided(run[p])) \in Reports
  <1>1. /\ run[p] \in Locals /\ run[p].snap \in Sources
        /\ run[p].outcomes \in [Episodes -> Outcomes]
    BY DEF Inv, TypeOK
  <1>2. ASSUME NEW e \in Episodes PROVE Decided(run[p])[e] \in Cases
    BY <1>1, DecidedCase
  <1> QED BY <1>1, <1>2, KeyType, ReportType

LEMMA PutCohortsStep == ASSUME Inv, NEW p \in Pipelines, PutCohorts(p) PROVE Inv'
  <1> DEFINE report == Report(Key(p), Decided(run[p]))
  <1>1. /\ run[p] \in Locals /\ pc[p] = "put_cohorts" /\ recorded' = recorded
        /\ Key(p) \in Keys /\ report \in Reports
    BY OwnReport DEF Inv, TypeOK, PutCohorts
  <1>2. RecordsStay /\ CasesOK'
    BY Unrecorded, CasesStay DEF PutCohorts
  <1>3. /\ pc' \in [Pipelines -> Steps] /\ run' \in [Pipelines -> Locals]
        /\ \A q \in Pipelines :
             /\ pc'[q] \in {"investigate", "put_case", "put_cohorts", "publish"}
                   => run'[q].snap \in Sources
             /\ pc'[q] \in {"put_case", "put_cohorts", "publish"}
                   => run'[q].outcomes \in [Episodes -> Outcomes]
        /\ OutcomesAreRecorded'
    <2>1. run[p].at \in Episodes /\ run[p] = [run[p] EXCEPT !.at = run[p].at]
      BY <1>1 DEF Locals
    <2>2. Goto(p, "publish", run[p]) /\ "publish" \in Steps
      BY DEF PutCohorts, Steps
    <2> QED BY <1>1, <2>1, <2>2, Proceeds
  <1>4. cohorts' \in [Keys -> SUBSET SUBSET Episodes]
    <2>1. report.cohorts \in SUBSET SUBSET Episodes
      BY <1>1 DEF Reports
    <2> HIDE DEF report
    <2>2. cohorts' = [cohorts EXCEPT ![Key(p)] = @ \cup report.cohorts]
      BY DEF PutCohorts, report
    <2> QED BY <1>1, <2>1, <2>2 DEF Inv, TypeOK
  <1>5. TypeOK'
    BY <1>3, <1>4 DEF Inv, TypeOK, PutCohorts, environment
  <1> QED BY <1>2, <1>3, <1>5 DEF Inv, CasesOK, PutCohorts, environment

LEMMA PublishStep == ASSUME Inv, NEW p \in Pipelines, Publish(p) PROVE Inv'
  <1> DEFINE report == Report(Key(p), Decided(run[p]))
  <1>1. pc[p] = "publish" /\ recorded' = recorded /\ report \in Reports
    BY OwnReport DEF Publish
  <1>2. RecordsStay /\ CasesOK'
    BY Unrecorded, CasesStay DEF Publish
  <1>3. /\ pc' \in [Pipelines -> Steps] /\ run' \in [Pipelines -> Locals]
        /\ \A q \in Pipelines :
             /\ pc'[q] \in {"investigate", "put_case", "put_cohorts", "publish"}
                   => run'[q].snap \in Sources
             /\ pc'[q] \in {"put_case", "put_cohorts", "publish"}
                   => run'[q].outcomes \in [Episodes -> Outcomes]
        /\ OutcomesAreRecorded'
    <2>1. Goto(p, "finish", Fresh) /\ "finish" \in Steps
      BY DEF Publish, Steps
    <2> QED BY <1>1, <2>1, Proceeds
  <1>4. reports' \in Seq(Reports)
    <2> HIDE DEF report
    <2>1. reports' = Append(reports, report)
      BY DEF Publish, report
    <2> QED BY <1>1, <2>1 DEF Inv, TypeOK
  <1>5. TypeOK'
    BY <1>3, <1>4 DEF Inv, TypeOK, Publish, environment
  <1> QED BY <1>2, <1>3, <1>5 DEF Inv, CasesOK, Publish, environment

\* A run ends, in good order or not.
LEMMA RunEnds ==
    ASSUME Inv, RecordsStay, NEW p \in Pipelines, Goto(p, "idle", Fresh)
    PROVE  /\ pc' \in [Pipelines -> Steps] /\ run' \in [Pipelines -> Locals]
           /\ \A q \in Pipelines :
                /\ pc'[q] \in {"investigate", "put_case", "put_cohorts", "publish"}
                      => run'[q].snap \in Sources
                /\ pc'[q] \in {"put_case", "put_cohorts", "publish"}
                      => run'[q].outcomes \in [Episodes -> Outcomes]
           /\ OutcomesAreRecorded'
  BY FreshFacts, Goes DEF Steps

LEMMA FinishStep == ASSUME Inv, NEW p \in Pipelines, Finish(p) PROVE Inv'
  <1>1. RecordsStay /\ CasesOK'
    BY Unrecorded, CasesStay DEF Finish, store
  <1>2. Goto(p, "idle", Fresh)
    BY DEF Finish
  <1>3. /\ pc' \in [Pipelines -> Steps] /\ run' \in [Pipelines -> Locals]
        /\ \A q \in Pipelines :
             /\ pc'[q] \in {"investigate", "put_case", "put_cohorts", "publish"}
                   => run'[q].snap \in Sources
             /\ pc'[q] \in {"put_case", "put_cohorts", "publish"}
                   => run'[q].outcomes \in [Episodes -> Outcomes]
        /\ OutcomesAreRecorded'
    BY <1>1, <1>2, RunEnds
  <1>4. TypeOK'
    BY <1>3 DEF Inv, TypeOK, Finish, store, environment
  <1> QED BY <1>1, <1>3, <1>4 DEF Inv, CasesOK, Finish, environment

LEMMA FailStep == ASSUME Inv, NEW p \in Pipelines, Fail(p) PROVE Inv'
  <1>1. RecordsStay /\ CasesOK'
    BY Unrecorded, CasesStay DEF Fail, store
  <1>2. Goto(p, "idle", Fresh) /\ faults' \in 0..MaxFaults
    BY PipelineAssumption DEF Inv, TypeOK, Fail
  <1>3. /\ pc' \in [Pipelines -> Steps] /\ run' \in [Pipelines -> Locals]
        /\ \A q \in Pipelines :
             /\ pc'[q] \in {"investigate", "put_case", "put_cohorts", "publish"}
                   => run'[q].snap \in Sources
             /\ pc'[q] \in {"put_case", "put_cohorts", "publish"}
                   => run'[q].outcomes \in [Episodes -> Outcomes]
        /\ OutcomesAreRecorded'
    BY <1>1, <1>2, RunEnds
  <1>4. TypeOK'
    BY <1>2, <1>3 DEF Inv, TypeOK, Fail, store
  <1> QED BY <1>1, <1>3, <1>4 DEF Inv, CasesOK, Fail

LEMMA CrashStep == ASSUME Inv, Crash PROVE Inv'
  <1>1. RecordsStay /\ CasesOK'
    BY Unrecorded, CasesStay DEF Crash, store
  <1>2. faults' \in 0..MaxFaults
    BY PipelineAssumption DEF Inv, TypeOK, Crash
  <1>3. /\ pc' \in [Pipelines -> Steps] /\ run' \in [Pipelines -> Locals]
        /\ \A q \in Pipelines : pc'[q] = "idle"
        /\ OutcomesAreRecorded'
    BY FreshFacts DEF Crash, Steps, OutcomesAreRecorded
  <1>4. TypeOK'
    BY <1>2, <1>3 DEF Inv, TypeOK, Crash, store
  <1> QED BY <1>1, <1>3, <1>4 DEF Inv, CasesOK, Crash

LEMMA OpsSetStep == ASSUME Inv, OpsSet PROVE Inv'
  <1>1. RecordsStay /\ CasesOK'
    BY Unrecorded, CasesStay DEF OpsSet, store
  <1>2. switches' \in 0..MaxSwitches
    BY PipelineAssumption DEF Inv, TypeOK, OpsSet
  <1>3. ops' \in [bulk : BOOLEAN, llm : BOOLEAN]
    BY PipelineAssumption DEF OpsSet
  <1>4. TypeOK' /\ OutcomesAreRecorded'
    BY <1>2, <1>3 DEF Inv, TypeOK, OutcomesAreRecorded, OpsSet, store, locals
  <1> QED BY <1>1, <1>4 DEF Inv, CasesOK, OpsSet

LEMMA IngestStep == ASSUME Inv, Ingest PROVE Inv'
  <1>1. RecordsStay /\ CasesOK'
    BY Unrecorded, CasesStay DEF Ingest, store
  <1>2. /\ source \in Sources /\ ingests \in 0..MaxIngests /\ source.rows <= ingests
        /\ ingests < MaxIngests /\ ingests' = ingests + 1 /\ MaxIngests \in Nat
    BY PipelineAssumption DEF Inv, TypeOK, Ingest
  <1>3. source' \in Sources /\ source'.rows <= ingests' /\ ingests' \in 0..MaxIngests
    <2>1. CASE source' = [source EXCEPT !.rows = @ + 1]
      BY <1>2, <2>1 DEF Sources
    <2>2. CASE \E e \in MayRequest \ source.rfis :
                 source' = [source EXCEPT !.rfis = @ \cup {e}]
      <3>1. MayRequest \subseteq Episodes
        BY PipelineAssumption
      <3> QED BY <1>2, <2>2, <3>1 DEF Sources
    <2> QED BY <2>1, <2>2 DEF Ingest
  <1>4. TypeOK' /\ OutcomesAreRecorded'
    BY <1>3 DEF Inv, TypeOK, OutcomesAreRecorded, Ingest, store, locals
  <1> QED BY <1>1, <1>3, <1>4 DEF Inv, CasesOK

LEMMA Stutters == Inv /\ UNCHANGED vars => Inv'
  <1> SUFFICES ASSUME Inv, UNCHANGED vars PROVE Inv'
    OBVIOUS
  <1>1. RecordsStay /\ CasesOK'
    BY Unrecorded, CasesStay DEF vars, store
  <1>2. TypeOK' /\ OutcomesAreRecorded'
    BY DEF Inv, TypeOK, OutcomesAreRecorded, vars, store, locals, environment
  <1> QED BY <1>1, <1>2 DEF Inv, CasesOK, vars, environment

LEMMA NextInv == Inv /\ [Next]_vars => Inv'
  <1> SUFFICES ASSUME Inv, [Next]_vars PROVE Inv'
    OBVIOUS
  <1>1. ASSUME NEW p \in Pipelines, Begin(p) PROVE Inv'
    BY <1>1, BeginStep
  <1>2. ASSUME NEW p \in Pipelines, Step(p) PROVE Inv'
    BY <1>2, TakeSnapshotStep, InvestigateStep, PutCaseStep, PutCohortsStep, PublishStep,
       FinishStep DEF Step
  <1>3. ASSUME NEW p \in Pipelines, Fail(p) PROVE Inv'
    BY <1>3, FailStep
  <1>4. ASSUME NEW p \in Pipelines, NEW e \in Episodes, InvestigateFails(p, e) PROVE Inv'
    BY <1>4, InvestigateFailsStep
  <1>5. CASE Crash
    BY <1>5, CrashStep
  <1>6. CASE OpsSet
    BY <1>6, OpsSetStep
  <1>7. CASE Ingest
    BY <1>7, IngestStep
  <1>8. CASE UNCHANGED vars
    BY <1>8, Stutters
  <1> QED BY <1>1, <1>2, <1>3, <1>4, <1>5, <1>6, <1>7, <1>8 DEF Next

-----------------------------------------------------------------------------
(* The theorems.                                                           *)

\* In every reachable state each variable has its type, every outcome a run
\* holds and every case it stored goes back to a recorded result of an
\* investigation of that episode (run_pipeline(), _investigate_safely()).
THEOREM PipelineInvariance == Spec => []Inv
  <1> QED BY InitInv, NextInv, PTL DEF Spec

\* Every variable has its type; a run that investigates has a snapshot, and one
\* that stores cases has an outcome for every episode under review.
THEOREM PipelineTypes == Spec => []TypeOK
  <1>1. Inv => TypeOK
    BY DEF Inv
  <1> QED BY <1>1, PipelineInvariance, PTL

\* Every bulk proposal in the store has a recorded benign investigation of its
\* own episode, nothing against it, no block on its run, and no place in the
\* control sample; a case is an escalation exactly if its recorded result is a
\* typed anomaly, or a residual that is in the escalation band in the snapshot of
\* its run key, whatever snapshot it was investigated on (decide_case()).
THEOREM ProposalsHaveEvidence == Spec => []BulkIsJustified
  <1>1. Inv => BulkIsJustified
    BY DEF Inv
  <1> QED BY <1>1, PipelineInvariance, PTL

-----------------------------------------------------------------------------
(* The cohorts of a run: of one desk, of a legal size, and disjoint.       *)

LEMMA ChunkNumber ==
    ASSUME NEW k \in Nat, NEW j \in Nat, NEW M \in Nat, NEW n \in Nat,
           n \in ((k - 1) * M + 1)..(k * M), n \in ((j - 1) * M + 1)..(j * M)
    PROVE  ~(k < j)
  <1> SUFFICES ASSUME k < j PROVE FALSE
    OBVIOUS
  <1> DEFINE d == j - 1 - k
  <1>1. d \in Nat /\ (j - 1) * M = k * M + d * M
    OBVIOUS
  <1>2. d * M \in Nat /\ k * M \in Nat
    BY <1>1
  <1>3. n <= k * M /\ (j - 1) * M + 1 <= n
    OBVIOUS
  <1> HIDE DEF d
  <1> QED BY <1>1, <1>2, <1>3

\* How many proposals of its desk come up to e.
Rank(desk, e) == Cardinality({f \in desk : f <= e})

LEMMA RankType ==
    ASSUME NEW desk \in SUBSET Episodes, NEW e
    PROVE  IsFiniteSet({f \in desk : f <= e}) /\ Rank(desk, e) \in Nat
  <1>1. {f \in desk : f <= e} \in SUBSET Episodes
    OBVIOUS
  <1> QED BY <1>1, EpisodesFinite, FS_Subset, FS_CardinalityType DEF Rank

LEMMA RanksDiffer ==
    ASSUME NEW desk \in SUBSET Episodes, NEW e \in desk, NEW g \in desk, e < g
    PROVE  Rank(desk, e) # Rank(desk, g)
  <1> DEFINE S == {f \in desk : f <= e}
             T == {f \in desk : f <= g}
  <1>1. \A f \in desk : f \in Int
    BY DEF Episodes
  <1>2. S \in SUBSET T /\ g \in T /\ g \notin S
    BY <1>1
  <1>3. IsFiniteSet(T)
    BY RankType
  <1> HIDE DEF S, T
  <1>4. Cardinality(T) = Cardinality(S) => T = S
    BY <1>2, <1>3, FS_Subset
  <1> QED BY <1>2, <1>4 DEF Rank, S, T

GroupOf(bulk, group, g) == {f \in bulk : group[f] = g}

Slice(desk, k) == {e \in desk : Rank(desk, e) \in ((k - 1) * MaxSize + 1)..(k * MaxSize)}

LEMMA ChunkOf ==
    ASSUME NEW bulk \in SUBSET Episodes, NEW group, NEW c \in Chunks(bulk, group)
    PROVE  \E k, g : k \in 1..Last /\ c = Slice(GroupOf(bulk, group, g), k)
  <1>1. \A k, g : Chunk(bulk, group, k, g) = Slice(GroupOf(bulk, group, g), k)
    BY Zenon DEF Chunk, Slice, GroupOf, Rank
  <1>2. PICK k \in 1..Last, e \in bulk : c = Chunk(bulk, group, k, group[e])
    BY DEF Chunks
  <1> QED BY <1>1, <1>2

LEMMA ChunksAreDisjoint ==
    ASSUME NEW bulk \in SUBSET Episodes, NEW group,
           NEW c \in Chunks(bulk, group), NEW d \in Chunks(bulk, group),
           NEW x, x \in c, x \in d
    PROVE  c = d
  <1>1. PICK k, a : k \in 1..Last /\ c = Slice(GroupOf(bulk, group, a), k)
    BY ChunkOf
  <1>2. PICK j, b : j \in 1..Last /\ d = Slice(GroupOf(bulk, group, b), j)
    BY ChunkOf
  <1>3. a = b
    BY <1>1, <1>2 DEF Slice, GroupOf
  <1> DEFINE n == Rank(GroupOf(bulk, group, a), x)
  <1>4. n \in Nat
    BY RankType DEF GroupOf
  <1>5. n \in ((k - 1) * MaxSize + 1)..(k * MaxSize) /\ n \in ((j - 1) * MaxSize + 1)..(j * MaxSize)
    BY <1>1, <1>2, <1>3 DEF Slice
  <1>6. k \in Nat /\ j \in Nat /\ MaxSize \in Nat
    BY <1>1, <1>2, PipelineAssumption
  <1> HIDE DEF n
  <1>7. k = j
    <2>1. ~(k < j) /\ ~(j < k)
      BY <1>4, <1>5, <1>6, ChunkNumber
    <2> QED BY <1>6, <2>1
  <1> QED BY <1>1, <1>2, <1>3, <1>7

LEMMA ChunkSize ==
    ASSUME NEW bulk \in SUBSET Episodes, NEW group, NEW c \in Chunks(bulk, group)
    PROVE  Cardinality(c) <= MaxSize
  <1>1. PICK k, a : k \in 1..Last /\ c = Slice(GroupOf(bulk, group, a), k)
    BY ChunkOf
  <1> DEFINE desk == GroupOf(bulk, group, a)
             lo == (k - 1) * MaxSize + 1
             hi == k * MaxSize
             rank == [e \in c |-> Rank(desk, e)]
  <1>2. desk \in SUBSET Episodes /\ c \in SUBSET desk /\ \A e \in c : Rank(desk, e) \in lo..hi
    BY <1>1 DEF Slice, GroupOf
  <1>3. lo \in Int /\ hi \in Int /\ hi - lo + 1 = MaxSize /\ ~(lo > hi) /\ MaxSize \in Nat
    <2>1. k \in Nat /\ MaxSize \in Nat \ {0}
      BY <1>1, PipelineAssumption
    <2>2. (k - 1) * MaxSize = k * MaxSize - MaxSize /\ k * MaxSize \in Nat
      BY <2>1
    <2> QED BY <2>1, <2>2
  <1> HIDE DEF desk, lo, hi
  <1>4. \A e, g \in c : e # g => Rank(desk, e) # Rank(desk, g)
    <2>1. \A e, g \in c : e # g => e < g \/ g < e
      BY <1>2 DEF Episodes
    <2>2. \A e, g \in c : e < g => Rank(desk, e) # Rank(desk, g)
      BY <1>2, RanksDiffer
    <2> QED BY <2>1, <2>2
  <1>5. rank \in Injection(c, lo..hi)
    BY <1>2, <1>4 DEF Injection, IsInjective
  <1>6. IsFiniteSet(lo..hi) /\ Cardinality(lo..hi) = MaxSize
    BY <1>3, FS_Interval
  <1> HIDE DEF rank
  <1>7. Cardinality(c) <= Cardinality(lo..hi)
    BY <1>5, <1>6, FS_Injection
  <1> QED BY <1>6, <1>7

\* What form_cohorts() makes of the proposals.
LEMMA CohortFacts ==
    ASSUME NEW bulk \in SUBSET Episodes, NEW group, NEW c \in Cohorts(bulk, group)
    PROVE  /\ c # {} /\ c \subseteq bulk /\ Cardinality(c) \in MinSize..MaxSize
           /\ Min(c) \in c /\ \A e \in c : group[e] = group[Min(c)]
           /\ \A d \in Cohorts(bulk, group) : \A x : x \in c /\ x \in d => c = d
  <1>1. c \in Chunks(bulk, group) /\ Cardinality(c) >= MinSize
    BY DEF Cohorts
  <1>2. c # {} /\ c \subseteq bulk
    BY <1>1, CohortsOfProposals DEF Chunks
  <1>3. Cardinality(c) \in MinSize..MaxSize
    <2>1. Cardinality(c) \in Nat
      BY <1>2, EpisodesFinite, FS_Subset, FS_CardinalityType
    <2> QED BY <1>1, <2>1, ChunkSize, PipelineAssumption
  <1>4. Min(c) \in c
    <2>1. c \subseteq Nat
      BY <1>2 DEF Episodes
    <2>2. \E x \in c : \A y \in c : x <= y
      BY <1>2, <2>1, LeastNumber
    <2> QED BY <2>2 DEF Min
  <1>5. \A e, f \in c : group[e] = group[f]
    <2>1. PICK k, g : k \in 1..Last /\ c = Slice(GroupOf(bulk, group, g), k)
      BY <1>1, ChunkOf
    <2> QED BY <2>1 DEF Slice, GroupOf
  <1>6. \A d \in Cohorts(bulk, group) : \A x : x \in c /\ x \in d => c = d
    BY <1>1, ChunksAreDisjoint DEF Cohorts
  <1> QED BY <1>2, <1>3, <1>4, <1>5, <1>6

Why(r, e) == Reasons(e, r.outcomes[e], r.snap, RunBlocks(r.ops, r.snap))
First(r, e) == Recommend(e, r.outcomes[e], r.snap, Why(r, e))
Proposed(r) == {e \in Episodes : First(r, e) = "bulk"}
Group(r) == [e \in Episodes |-> <<r.outcomes[e].verdict, Desk[e]>>]
Groups(r) == Cohorts(Proposed(r), Group(r))
CohortOf(groups, e) == UNION {c \in groups : e \in c}

LEMMA DecidedIs ==
    ASSUME NEW r, NEW e \in Episodes
    PROVE  LET cohort == CohortOf(Groups(r), e)
           IN  /\ Decided(r)[e].cohort = cohort
               /\ Decided(r)[e].conclusion = r.outcomes[e].verdict
               /\ Decided(r)[e].rec = IF First(r, e) = "bulk" /\ cohort = {}
                                      THEN "individual" ELSE First(r, e)
  BY Zenon DEF Decided, Why, First, Proposed, Group, Groups, CohortOf

\* The cohorts the cases name are the cohorts formed, and they hold the bulk cases.
LEMMA DecidedCohorts ==
    ASSUME NEW r
    PROVE  /\ {Decided(r)[e].cohort : e \in Episodes} \ {{}} = Groups(r)
           /\ UNION Groups(r) = Bulk(Decided(r))
           /\ \A c \in Groups(r) : \A e \in c : Decided(r)[e].cohort = c
  <1> DEFINE proposed == Proposed(r)
             groups == Groups(r)
             d == Decided(r)
  <1>1. proposed \in SUBSET Episodes /\ \A e \in proposed : First(r, e) = "bulk"
    BY DEF Proposed
  <1>2. /\ \A c \in groups : c # {} /\ c \subseteq proposed
        /\ \A c, g \in groups : \A x : x \in c /\ x \in g => c = g
    BY <1>1, CohortFacts DEF Groups
  <1>3. \A e \in Episodes : /\ d[e].cohort = CohortOf(groups, e)
                            /\ d[e].rec = IF First(r, e) = "bulk" /\ CohortOf(groups, e) = {}
                                          THEN "individual" ELSE First(r, e)
    BY DecidedIs
  <1> HIDE DEF proposed, groups, d
  <1>4. \A c \in groups : \A e \in c : CohortOf(groups, e) = c
    <2> TAKE c \in groups
    <2> TAKE e \in c
    <2>1. {x \in groups : e \in x} = {c}
      BY <1>2
    <2> QED BY <2>1 DEF CohortOf
  <1>5. \A e : CohortOf(groups, e) # {} => \E c \in groups : e \in c
    BY DEF CohortOf
  <1>6. {d[e].cohort : e \in Episodes} \ {{}} \subseteq groups
    <2> SUFFICES ASSUME NEW e \in Episodes, d[e].cohort # {} PROVE d[e].cohort \in groups
      OBVIOUS
    <2> QED BY <1>3, <1>4, <1>5
  <1>7. groups \subseteq {d[e].cohort : e \in Episodes} \ {{}}
    <2> SUFFICES ASSUME NEW c \in groups
                 PROVE  c # {} /\ \E e \in Episodes : c = d[e].cohort
      OBVIOUS
    <2>1. PICK e \in c : e \in Episodes
      BY <1>1, <1>2
    <2> QED BY <1>2, <1>3, <1>4, <2>1
  <1>8. \A e \in Episodes : d[e].rec = "bulk" <=> \E c \in groups : e \in c
    <2> SUFFICES ASSUME NEW e \in Episodes
                 PROVE  d[e].rec = "bulk" <=> \E c \in groups : e \in c
      OBVIOUS
    <2>1. ASSUME NEW c \in groups, e \in c PROVE d[e].rec = "bulk"
      BY <1>1, <1>2, <1>3, <1>4, <2>1
    <2>2. ASSUME d[e].rec = "bulk" PROVE \E c \in groups : e \in c
      BY <1>3, <1>5, <2>2
    <2> QED BY <2>1, <2>2
  <1>9. UNION groups = Bulk(d)
    <2>1. \A c \in groups : c \subseteq Episodes
      BY <1>1, <1>2
    <2> QED BY <1>8, <2>1 DEF Bulk
  <1>10. \A c \in groups : \A e \in c : d[e].cohort = c
    <2>1. \A c \in groups : c \subseteq Episodes
      BY <1>1, <1>2
    <2> QED BY <1>3, <1>4, <2>1
  <1> QED BY <1>6, <1>7, <1>9, <1>10 DEF groups, proposed, d

-----------------------------------------------------------------------------
(* What readers find behind a report: cases and cohorts stay, and a run    *)
(* publishes what it has stored.                                           *)

\* The body of PublishedIsStored, for a store of cases and one of cohorts.
Stands(r, inCases, inCohorts) ==
    LET stored == inCases[r.key]
    IN  /\ NoCase \notin {stored[e] : e \in Episodes}
        /\ r = Report(r.key, stored)
        /\ r.cohorts \subseteq inCohorts[r.key]
        /\ UNION r.cohorts = Bulk(stored)
        /\ \A c \in r.cohorts :
              /\ Cardinality(c) \in MinSize..MaxSize
              /\ \A e \in c : /\ Desk[e] = Desk[Min(c)]
                             /\ stored[e].conclusion = stored[Min(c)].conclusion
              /\ \A d \in r.cohorts \ {c} : c \cap d = {}

KeyOf(r) == RunKey(r.snap, RunBlocks(r.ops, r.snap))

\* The body of StoredSoFar.
HasStored(step, r, inCases, inCohorts) ==
    /\ step \in {"snapshot", "investigate"} => r.at = 1
    /\ step = "put_case" =>
          \A e \in Episodes : e < r.at => inCases[KeyOf(r)][e] = Decided(r)[e]
    /\ step \in {"put_cohorts", "publish"} =>
          \A e \in Episodes : inCases[KeyOf(r)][e] = Decided(r)[e]
    /\ step = "publish" => Report(KeyOf(r), Decided(r)).cohorts \subseteq inCohorts[KeyOf(r)]

LEMMA Bodies ==
    /\ PublishedIsStored <=> \A i \in DOMAIN reports : Stands(reports[i], cases, cohorts)
    /\ PublishedIsStored' <=> \A i \in DOMAIN reports' : Stands(reports'[i], cases', cohorts')
    /\ StoredSoFar <=> \A p \in Pipelines : HasStored(pc[p], run[p], cases, cohorts)
    /\ StoredSoFar' <=> \A p \in Pipelines : HasStored(pc'[p], run'[p], cases', cohorts')
  <1>1. PublishedIsStored <=> \A i \in DOMAIN reports : Stands(reports[i], cases, cohorts)
    BY Zenon DEF PublishedIsStored, Stands
  <1>2. PublishedIsStored' <=> \A i \in DOMAIN reports' : Stands(reports'[i], cases', cohorts')
    BY Zenon DEF PublishedIsStored, Stands
  <1>3. StoredSoFar <=> \A p \in Pipelines : HasStored(pc[p], run[p], cases, cohorts)
    BY Zenon DEF StoredSoFar, HasStored, Key, KeyOf
  <1>4. StoredSoFar' <=> \A p \in Pipelines : HasStored(pc'[p], run'[p], cases', cohorts')
    BY Zenon DEF StoredSoFar, HasStored, Key, KeyOf
  <1> QED BY <1>1, <1>2, <1>3, <1>4

\* Two ways to say the same cases make the same report.
LEMMA SameReport ==
    ASSUME NEW key, NEW c, NEW d, \A e \in Episodes : c[e] = d[e]
    PROVE  Report(key, c) = Report(key, d) /\ Bulk(c) = Bulk(d)
  <1>1. \A rec : {e \in Episodes : c[e].rec = rec} = {e \in Episodes : d[e].rec = rec}
    OBVIOUS
  <1>2. {e \in Episodes : c[e].id = NoResult} = {e \in Episodes : d[e].id = NoResult}
    OBVIOUS
  <1>3. {c[e].cohort : e \in Episodes} = {d[e].cohort : e \in Episodes}
    OBVIOUS
  <1>4. \A rec : Number(c, rec) = Number(d, rec)
    BY <1>1 DEF Number
  <1>5. Report(key, c) = Report(key, d)
    BY <1>2, <1>3, <1>4 DEF Report
  <1> QED BY <1>1, <1>5 DEF Bulk

\* A run that has stored its cases and its cohorts may publish its report.
LEMMA PublishedStands ==
    ASSUME NEW r \in Locals, r.outcomes \in [Episodes -> Outcomes],
           NEW inCases, NEW inCohorts, HasStored("publish", r, inCases, inCohorts)
    PROVE  Stands(Report(KeyOf(r), Decided(r)), inCases, inCohorts)
  <1> DEFINE k == KeyOf(r)
             d == Decided(r)
             report == Report(k, d)
             stored == inCases[k]
             groups == Groups(r)
  <1>1. /\ \A e \in Episodes : stored[e] = d[e]
        /\ report.cohorts \subseteq inCohorts[k]
    BY DEF HasStored
  <1>2. \A e \in Episodes : d[e] # NoCase
    BY DecidedCase, PipelineSentinels
  <1>3. report.key = k /\ report.cohorts = groups /\ UNION groups = Bulk(d)
    BY DecidedCohorts DEF Report
  <1> HIDE DEF d
  <1>4. report = Report(k, stored) /\ Bulk(stored) = Bulk(d)
    <2> HIDE DEF k, stored
    <2> QED BY <1>1, SameReport
  <1>5. ASSUME NEW c \in groups
        PROVE  /\ Cardinality(c) \in MinSize..MaxSize
               /\ \A e \in c : /\ Desk[e] = Desk[Min(c)]
                              /\ stored[e].conclusion = stored[Min(c)].conclusion
               /\ \A g \in groups \ {c} : c \cap g = {}
    <2> DEFINE group == Group(r)
    <2>1. Proposed(r) \in SUBSET Episodes
      BY DEF Proposed
    <2>7. c \in Cohorts(Proposed(r), group) /\ groups = Cohorts(Proposed(r), group)
      BY DEF Groups
    <2> HIDE DEF groups, group
    <2>2. /\ Cardinality(c) \in MinSize..MaxSize /\ c \subseteq Episodes
          /\ Min(c) \in c /\ \A e \in c : group[e] = group[Min(c)]
          /\ \A g \in groups : \A x : x \in c /\ x \in g => c = g
      <3> DEFINE bulk == Proposed(r)
      <3>1. bulk \in SUBSET Episodes /\ c \in Cohorts(bulk, group) /\ groups = Cohorts(bulk, group)
        BY <2>1, <2>7
      <3> HIDE DEF bulk
      <3>2. /\ c \subseteq bulk /\ Cardinality(c) \in MinSize..MaxSize
            /\ Min(c) \in c /\ \A e \in c : group[e] = group[Min(c)]
        BY <3>1, CohortFacts
      <3>3. \A g \in Cohorts(bulk, group) : \A x : x \in c /\ x \in g => c = g
        BY <3>1, CohortFacts
      <3> QED BY <3>1, <3>2, <3>3
    <2>3. \A e \in Episodes : group[e] = <<r.outcomes[e].verdict, Desk[e]>>
      BY DEF Group, group
    <2> HIDE DEF stored
    <2>4. \A e \in c : /\ r.outcomes[e].verdict = r.outcomes[Min(c)].verdict
                       /\ Desk[e] = Desk[Min(c)]
      BY <2>2, <2>3
    <2>5. \A e \in Episodes : stored[e].conclusion = r.outcomes[e].verdict
      BY <1>1, DecidedIs DEF d
    <2>6. \A e \in c : stored[e].conclusion = stored[Min(c)].conclusion
      BY <2>2, <2>4, <2>5
    <2> QED BY <2>2, <2>4, <2>6
  <1>6. NoCase \notin {stored[e] : e \in Episodes}
    BY <1>1, <1>2
  <1> HIDE DEF report, groups, k
  <1> QED BY <1>1, <1>3, <1>4, <1>5, <1>6 DEF Stands, report, k, d

\* What a step leaves in the store.
StoreStays ==
    /\ \A k \in Keys, e \in Episodes : cases[k][e] # NoCase => cases'[k][e] = cases[k][e]
    /\ \A k \in Keys : cohorts[k] \subseteq cohorts'[k]

LEMMA StandsStays ==
    ASSUME TypeOK, TypeOK', StoreStays, NEW r \in Reports, Stands(r, cases, cohorts)
    PROVE  Stands(r, cases', cohorts')
  <1>1. r.key \in Keys
    BY DEF Reports
  <1>2. /\ cases[r.key] \in [Episodes -> Cases \cup {NoCase}]
        /\ cases'[r.key] \in [Episodes -> Cases \cup {NoCase}]
    BY <1>1 DEF TypeOK
  <1>3. \A e \in Episodes : cases[r.key][e] # NoCase
    BY DEF Stands
  <1>4. cases'[r.key] = cases[r.key] /\ cohorts[r.key] \subseteq cohorts'[r.key]
    BY <1>1, <1>2, <1>3 DEF StoreStays
  <1> QED BY <1>4 DEF Stands

LEMMA ReportsStay ==
    ASSUME TypeOK, TypeOK', StoreStays, reports' = reports, PublishedIsStored
    PROVE  PublishedIsStored'
  <1>1. ASSUME NEW i \in DOMAIN reports PROVE Stands(reports[i], cases', cohorts')
    <2>1. reports[i] \in Reports /\ Stands(reports[i], cases, cohorts)
      BY Bodies DEF TypeOK
    <2> QED BY <2>1, StandsStays
  <1> QED BY <1>1, Bodies

\* What a run has stored stays stored.
LEMMA HasStoredStays ==
    ASSUME TypeOK, StoreStays, NEW p \in Pipelines, HasStored(pc[p], run[p], cases, cohorts)
    PROVE  HasStored(pc[p], run[p], cases', cohorts')
  <1> DEFINE r == run[p]
             d == Decided(r)
             k == KeyOf(r)
  <1>1. CASE pc[p] \in {"put_case", "put_cohorts", "publish"}
    <2>1. r \in Locals /\ r.snap \in Sources /\ r.outcomes \in [Episodes -> Outcomes]
      BY <1>1 DEF TypeOK
    <2>2. k \in Keys
      BY <2>1, KeyType DEF Key, KeyOf
    <2>3. \A e \in Episodes : d[e] # NoCase
      BY <2>1, DecidedCase, PipelineSentinels
    <2>4. \A e \in Episodes : cases[k][e] = d[e] => cases'[k][e] = d[e]
      <3> HIDE DEF k, d
      <3> QED BY <2>2, <2>3 DEF StoreStays
    <2>5. cohorts[k] \subseteq cohorts'[k]
      <3> HIDE DEF k
      <3> QED BY <2>2 DEF StoreStays
    <2> QED BY <2>4, <2>5 DEF HasStored
  <1>2. CASE pc[p] \notin {"put_case", "put_cohorts", "publish"}
    BY <1>2 DEF HasStored
  <1> QED BY <1>1, <1>2

\* A step of run p keeps StoredSoFar if p itself does.
LEMMA OthersHaveStored ==
    ASSUME TypeOK, StoredSoFar, StoreStays, NEW p \in Pipelines, NEW step, NEW r,
           Goto(p, step, r), HasStored(step, r, cases', cohorts')
    PROVE  StoredSoFar'
  <1>1. ASSUME NEW q \in Pipelines PROVE HasStored(pc'[q], run'[q], cases', cohorts')
    <2>1. CASE q = p
      <3>1. pc'[q] = step /\ run'[q] = r
        BY <2>1 DEF Goto, TypeOK
      <3> QED BY <3>1
    <2>2. CASE q # p
      <3>1. pc'[q] = pc[q] /\ run'[q] = run[q]
        BY <2>2 DEF Goto, TypeOK
      <3>2. HasStored(pc[q], run[q], cases', cohorts')
        BY Bodies, HasStoredStays
      <3> QED BY <3>1, <3>2
    <2> QED BY <2>1, <2>2
  <1> QED BY <1>1, Bodies

\* Storing the next case changes nothing but which case is next.
LEMMA SameDecisions ==
    ASSUME NEW r \in Locals, NEW n
    PROVE  LET s == [r EXCEPT !.at = n]
           IN  KeyOf(s) = KeyOf(r) /\ Decided(s) = Decided(r) /\ s.at = n
  <1> DEFINE s == [r EXCEPT !.at = n]
  <1>1. /\ s.ops = r.ops /\ s.snap = r.snap /\ s.outcomes = r.outcomes /\ s.at = n
    BY DEF Locals
  <1> HIDE DEF s
  <1>2. KeyOf(s) = KeyOf(r)
    BY <1>1 DEF KeyOf
  <1>3. Decided(s) = Decided(r)
    BY Zenon, <1>1 DEF Decided
  <1> QED BY <1>1, <1>2, <1>3 DEF s

LEMMA StoreUnchanged == cases' = cases /\ cohorts' = cohorts => StoreStays
  BY DEF StoreStays

\* A run that ends, or has not decided yet, has nothing to have stored.
LEMMA EarlyAndLate ==
    ASSUME TypeOK, StoredSoFar, NEW p \in Pipelines, NEW step, NEW r,
           UNCHANGED <<cases, cohorts>>, Goto(p, step, r),
           \/ step \in {"idle", "finish", "failed"}
           \/ step \in {"snapshot", "investigate", "put_case"} /\ r.at = 1
    PROVE  StoreStays /\ StoredSoFar'
  <1>1. StoreStays
    BY StoreUnchanged
  <1>2. HasStored(step, r, cases', cohorts')
    BY DEF HasStored, Episodes
  <1> QED BY <1>1, <1>2, OthersHaveStored

LEMMA OutcomeStored ==
    ASSUME TypeOK, StoredSoFar, NEW p \in Pipelines, NEW e \in Episodes, NEW o,
           UNCHANGED <<cases, cohorts>>, Outcome(p, e, o)
    PROVE  StoreStays /\ StoredSoFar'
  <1> DEFINE r == [run[p] EXCEPT !.outcomes[e] = o]
             step == IF \E f \in Episodes : r.outcomes[f] = Unset
                     THEN "investigate" ELSE "put_case"
  <1>1. pc[p] = "investigate" /\ Goto(p, step, r) /\ run[p] \in Locals
    BY DEF Outcome, TypeOK
  <1>2. run[p].at = 1
    BY <1>1, Bodies DEF HasStored
  <1>3. r.at = 1 /\ step \in {"investigate", "put_case"}
    BY <1>1, <1>2 DEF Locals
  <1> HIDE DEF r, step
  <1> QED BY <1>1, <1>3, EarlyAndLate

LEMMA PutCaseStored ==
    ASSUME Inv, StoredSoFar, NEW p \in Pipelines, PutCase(p)
    PROVE  StoreStays /\ StoredSoFar'
  <1> DEFINE r == run[p]
             f == r.at
             k == Key(p)
             c == Decided(r)[f]
  <1>1. /\ r \in Locals /\ f \in Episodes /\ pc[p] = "put_case" /\ cohorts' = cohorts
        /\ TypeOK /\ cases \in [Keys -> [Episodes -> Cases \cup {NoCase}]]
    BY DEF Inv, TypeOK, Locals, PutCase
  <1>2. k \in Keys /\ c \in Cases
    BY <1>1, StoredCase DEF MayBeStored
  <1>3. k = KeyOf(r)
    BY DEF Key, KeyOf
  <1>4. \A e \in Episodes : e < f => cases[k][e] = Decided(r)[e]
    BY <1>1, <1>3, Bodies DEF HasStored
  <1>5. CASE Goto(p, "failed", Fresh) /\ UNCHANGED cases
    BY <1>1, <1>5, EarlyAndLate
  <1>6. CASE /\ cases[k][f] \in {NoCase, c}
             /\ cases' = [cases EXCEPT ![k][f] = c]
             /\ NextCase(p)
    <2>1. /\ cases'[k][f] = c
          /\ \A l \in Keys, e \in Episodes : l # k \/ e # f => cases'[l][e] = cases[l][e]
      <3> HIDE DEF c, k, f
      <3> QED BY <1>1, <1>2, <1>6
    <2>2. StoreStays
      <3> HIDE DEF c, k, f
      <3> QED BY <1>1, <1>6, <2>1 DEF StoreStays
    <2>3. \A e \in Episodes : e <= f => cases'[k][e] = Decided(r)[e]
      <3> SUFFICES ASSUME NEW e \in Episodes, e <= f PROVE cases'[k][e] = Decided(r)[e]
        OBVIOUS
      <3>1. CASE e = f
        BY <2>1, <3>1
      <3>2. CASE e # f
        <4>1. e < f
          BY <1>1, <3>2 DEF Episodes
        <4>2. cases'[k][e] = cases[k][e]
          BY <1>2, <2>1, <3>2
        <4> QED BY <1>4, <4>1, <4>2
      <3> QED BY <3>1, <3>2
    <2>4. CASE f < Last
      <3> DEFINE s == [r EXCEPT !.at = f + 1]
      <3>1. Goto(p, "put_case", s)
        BY <1>6, <2>4 DEF NextCase
      <3>2. KeyOf(s) = k /\ Decided(s) = Decided(r) /\ s.at = f + 1
        BY <1>1, <1>3, SameDecisions
      <3> HIDE DEF s
      <3>3. \A e \in Episodes : e < s.at => e <= f
        BY <1>1, <3>2 DEF Episodes
      <3>4. HasStored("put_case", s, cases', cohorts')
        BY <2>3, <3>2, <3>3 DEF HasStored
      <3> QED BY <1>1, <2>2, <3>1, <3>4, OthersHaveStored
    <2>5. CASE ~(f < Last)
      <3> DEFINE s == [r EXCEPT !.at = 1]
      <3>1. Goto(p, "put_cohorts", s)
        BY <1>6, <2>5 DEF NextCase
      <3>2. KeyOf(s) = k /\ Decided(s) = Decided(r)
        BY <1>1, <1>3, SameDecisions
      <3> HIDE DEF s
      <3>3. \A e \in Episodes : e <= f
        BY <1>1, <2>5, PipelineAssumption DEF Episodes
      <3>4. HasStored("put_cohorts", s, cases', cohorts')
        BY <2>3, <3>2, <3>3 DEF HasStored
      <3> QED BY <1>1, <2>2, <3>1, <3>4, OthersHaveStored
    <2> QED BY <2>4, <2>5, <2>2
  <1> QED BY <1>5, <1>6 DEF PutCase

LEMMA PutCohortsStored ==
    ASSUME Inv, StoredSoFar, NEW p \in Pipelines, PutCohorts(p)
    PROVE  StoreStays /\ StoredSoFar'
  <1> DEFINE r == run[p]
             k == Key(p)
             formed == Report(k, Decided(r)).cohorts
  <1>1. /\ pc[p] = "put_cohorts" /\ Goto(p, "publish", r) /\ cases' = cases
        /\ TypeOK /\ cohorts \in [Keys -> SUBSET SUBSET Episodes]
    BY DEF Inv, TypeOK, PutCohorts
  <1>2. k \in Keys /\ k = KeyOf(r)
    BY <1>1, OwnReport DEF Key, KeyOf
  <1>3. cohorts' = [cohorts EXCEPT ![k] = @ \cup formed]
    BY DEF PutCohorts
  <1>4. \A e \in Episodes : cases[k][e] = Decided(r)[e]
    BY <1>1, <1>2, Bodies DEF HasStored
  <1>5. StoreStays /\ formed \subseteq cohorts'[k]
    <2> HIDE DEF k, formed
    <2> QED BY <1>1, <1>2, <1>3 DEF StoreStays
  <1>6. HasStored("publish", r, cases', cohorts')
    BY <1>1, <1>2, <1>4, <1>5 DEF HasStored
  <1> QED BY <1>1, <1>5, <1>6, OthersHaveStored

LEMMA PublishStored ==
    ASSUME PublishInv, Inv', NEW p \in Pipelines, Publish(p)
    PROVE  StoredSoFar' /\ PublishedIsStored'
  <1> DEFINE r == run[p]
             report == Report(Key(p), Decided(r))
  <1>1. /\ pc[p] = "publish" /\ Goto(p, "finish", Fresh) /\ UNCHANGED <<cases, cohorts>>
        /\ TypeOK /\ TypeOK' /\ r \in Locals /\ r.outcomes \in [Episodes -> Outcomes]
        /\ StoredSoFar /\ PublishedIsStored /\ Inv
    BY DEF PublishInv, Inv, TypeOK, Publish
  <1>2. StoreStays /\ StoredSoFar'
    BY <1>1, EarlyAndLate
  <1>3. Stands(report, cases', cohorts')
    <2>1. HasStored("publish", r, cases', cohorts')
      BY <1>1, Bodies
    <2>2. report = Report(KeyOf(r), Decided(r))
      BY DEF Key, KeyOf
    <2> HIDE DEF report
    <2> QED BY <1>1, <2>1, <2>2, PublishedStands
  <1>4. \A i \in DOMAIN reports : Stands(reports[i], cases', cohorts')
    <2> TAKE i \in DOMAIN reports
    <2>1. reports[i] \in Reports /\ Stands(reports[i], cases, cohorts)
      BY <1>1, Bodies DEF TypeOK
    <2> QED BY <1>1, <1>2, <2>1, StandsStays
  <1>5. reports' = Append(reports, report) /\ reports \in Seq(Reports)
    BY <1>1 DEF Publish, TypeOK
  <1> HIDE DEF report
  <1>6. \A i \in DOMAIN reports' : reports'[i] = report \/ (i \in DOMAIN reports /\ reports'[i] = reports[i])
    <2> TAKE i \in DOMAIN reports'
    <2>1. DOMAIN reports = 1..Len(reports) /\ DOMAIN reports' = 1..(Len(reports) + 1)
      BY <1>5
    <2>2. CASE i = Len(reports) + 1
      BY <1>5, <2>2
    <2>3. CASE i \in 1..Len(reports)
      BY <1>5, <2>1, <2>3
    <2> QED BY <2>1, <2>2, <2>3
  <1>7. \A i \in DOMAIN reports' : Stands(reports'[i], cases', cohorts')
    BY <1>3, <1>4, <1>6
  <1> QED BY <1>2, <1>7, Bodies

\* A cohort stays backed, and the cohorts a run stores are what its cases say.
LEMMA BackedStays ==
    ASSUME TypeOK, StoreStays, cohorts' = cohorts, CohortsAreBacked
    PROVE  CohortsAreBacked'
  <1>1. \A k \in Keys : \A c \in cohorts[k] : c \subseteq Episodes
    BY DEF TypeOK
  <1> QED BY <1>1 DEF CohortsAreBacked, StoreStays

LEMMA PutCohortsBacked ==
    ASSUME Inv, StoredSoFar, CohortsAreBacked, NEW p \in Pipelines, PutCohorts(p)
    PROVE  CohortsAreBacked'
  <1> DEFINE r == run[p]
             k == Key(p)
             d == Decided(r)
             formed == Report(k, d).cohorts
  <1>1. /\ pc[p] = "put_cohorts" /\ cases' = cases
        /\ r \in Locals /\ r.outcomes \in [Episodes -> Outcomes]
        /\ cohorts \in [Keys -> SUBSET SUBSET Episodes]
    BY DEF Inv, TypeOK, PutCohorts
  <1>2. k \in Keys /\ k = KeyOf(r)
    BY <1>1, OwnReport DEF Key, KeyOf
  <1>3. cohorts' = [cohorts EXCEPT ![k] = @ \cup formed]
    BY DEF PutCohorts
  <1>4. \A e \in Episodes : cases[k][e] = d[e] /\ d[e] # NoCase
    BY <1>1, <1>2, Bodies, DecidedCase, PipelineSentinels DEF HasStored
  <1>5. /\ formed = Groups(r) /\ UNION Groups(r) = Bulk(d)
        /\ \A c \in Groups(r) : \A e \in c : d[e].cohort = c
    BY DecidedCohorts DEF Report
  <1> HIDE DEF formed, d, k, r
  <1>6. \A c \in formed : \A e \in c :
           e \in Episodes /\ d[e].rec = "bulk" /\ d[e].cohort = c
    BY <1>5 DEF Bulk
  <1>7. ASSUME NEW l \in Keys, NEW c \in cohorts'[l], NEW e \in c
        PROVE  /\ cases'[l][e] # NoCase
               /\ cases'[l][e].rec = "bulk" /\ cases'[l][e].cohort = c
    <2>1. CASE c \in cohorts[l]
      BY <1>1, <2>1 DEF CohortsAreBacked
    <2>2. CASE c \notin cohorts[l]
      <3>1. l = k /\ c \in formed
        BY <1>1, <1>2, <1>3, <2>2
      <3> QED BY <1>1, <1>4, <1>6, <3>1
    <2> QED BY <2>1, <2>2
  <1> QED BY <1>7 DEF CohortsAreBacked

LEMMA NextBacked ==
    ASSUME PublishInv, [Next]_vars, StoreStays PROVE CohortsAreBacked'
  <1>1. Inv /\ TypeOK /\ StoredSoFar /\ CohortsAreBacked
    BY DEF PublishInv, Inv
  <1>2. CASE \E p \in Pipelines : PutCohorts(p)
    BY <1>1, <1>2, PutCohortsBacked
  <1>3. CASE ~\E p \in Pipelines : PutCohorts(p)
    <2>1. cohorts' = cohorts
      BY <1>3 DEF Next, Step, Begin, TakeSnapshot, Investigate, InvestigateFails, PutCase, Publish,
                  Finish, Fail, Crash, OpsSet, Ingest, vars, store
    <2> QED BY <1>1, <2>1, BackedStays
  <1> QED BY <1>2, <1>3

\* Nothing stored, nothing on the way: what happens around the runs.
LEMMA AroundStored ==
    ASSUME TypeOK, StoredSoFar, UNCHANGED <<cases, cohorts>>,
           \A p \in Pipelines : pc'[p] = "idle" \/ (pc'[p] = pc[p] /\ run'[p] = run[p])
    PROVE  StoreStays /\ StoredSoFar'
  <1>1. StoreStays
    BY StoreUnchanged
  <1>2. ASSUME NEW q \in Pipelines PROVE HasStored(pc'[q], run'[q], cases', cohorts')
    <2>1. CASE pc'[q] = "idle"
      BY <2>1 DEF HasStored
    <2>2. CASE pc'[q] = pc[q] /\ run'[q] = run[q]
      <3>1. HasStored(pc[q], run[q], cases', cohorts')
        BY <1>1, Bodies, HasStoredStays
      <3> QED BY <2>2, <3>1
    <2> QED BY <2>1, <2>2
  <1> QED BY <1>1, <1>2, Bodies

LEMMA PublishInvNext == PublishInv /\ [Next]_vars => PublishInv'
  <1> SUFFICES ASSUME PublishInv, [Next]_vars PROVE PublishInv'
    OBVIOUS
  <1>1. Inv' /\ TypeOK /\ TypeOK' /\ Inv /\ StoredSoFar /\ PublishedIsStored
    BY NextInv DEF PublishInv, Inv
  <1>2. CASE \E p \in Pipelines : Publish(p)
    <2>1. UNCHANGED <<cases, cohorts>>
      BY <1>2 DEF Publish
    <2>2. CohortsAreBacked'
      BY <2>1, StoreUnchanged, NextBacked
    <2> QED BY <1>1, <1>2, <2>2, PublishStored DEF PublishInv
  <1>3. ASSUME reports' = reports, StoreStays, StoredSoFar' PROVE PublishInv'
    BY <1>1, <1>3, ReportsStay, NextBacked DEF PublishInv
  <1>4. ASSUME NEW p \in Pipelines, Begin(p) \/ Fail(p) \/ Finish(p) \/ TakeSnapshot(p)
        PROVE  reports' = reports /\ StoreStays /\ StoredSoFar'
    <2>1. reports' = reports /\ UNCHANGED <<cases, cohorts>>
      BY <1>4 DEF Begin, Fail, Finish, TakeSnapshot, store
    <2>2. CASE Begin(p)
      <3>1. Goto(p, "snapshot", [Fresh EXCEPT !.ops = ops]) /\ [Fresh EXCEPT !.ops = ops].at = 1
        BY <2>2 DEF Begin, Fresh
      <3> QED BY <1>1, <2>1, <3>1, EarlyAndLate
    <2>3. CASE Fail(p) \/ Finish(p)
      BY <1>1, <2>1, <2>3, EarlyAndLate DEF Fail, Finish
    <2>4. CASE TakeSnapshot(p)
      <3>1. pc[p] = "snapshot" /\ Goto(p, "investigate", [run[p] EXCEPT !.snap = Current])
        BY <2>4 DEF TakeSnapshot
      <3>2. run[p].at = 1 /\ run[p] \in Locals
        BY <1>1, <3>1, Bodies DEF HasStored, TypeOK
      <3>3. [run[p] EXCEPT !.snap = Current].at = 1
        BY <3>2 DEF Locals
      <3> QED BY <1>1, <2>1, <3>1, <3>3, EarlyAndLate
    <2> QED BY <1>4, <2>1, <2>2, <2>3, <2>4
  <1>5. ASSUME NEW p \in Pipelines, NEW e \in Episodes, Investigate(p, e) \/ InvestigateFails(p, e)
        PROVE  reports' = reports /\ StoreStays /\ StoredSoFar'
    <2>1. reports' = reports /\ UNCHANGED <<cases, cohorts>> /\ \E o : Outcome(p, e, o)
      BY <1>5 DEF Investigate, InvestigateFails
    <2> QED BY <1>1, <2>1, OutcomeStored
  <1>6. ASSUME NEW p \in Pipelines, PutCase(p) \/ PutCohorts(p)
        PROVE  reports' = reports /\ StoreStays /\ StoredSoFar'
    <2>1. reports' = reports
      BY <1>6 DEF PutCase, PutCohorts
    <2> QED BY <1>1, <1>6, <2>1, PutCaseStored, PutCohortsStored
  <1>7. ASSUME Crash \/ OpsSet \/ Ingest \/ UNCHANGED vars
        PROVE  reports' = reports /\ StoreStays /\ StoredSoFar'
    <2>1. reports' = reports /\ UNCHANGED <<cases, cohorts>>
      BY <1>7 DEF Crash, OpsSet, Ingest, vars, store
    <2>2. \A p \in Pipelines : pc'[p] = "idle" \/ (pc'[p] = pc[p] /\ run'[p] = run[p])
      <3>1. CASE Crash
        BY <3>1 DEF Crash
      <3>2. CASE OpsSet \/ Ingest \/ UNCHANGED vars
        BY <3>2 DEF OpsSet, Ingest, vars, locals
      <3> QED BY <1>7, <3>1, <3>2
    <2> QED BY <1>1, <2>1, <2>2, AroundStored
  <1> QED BY <1>2, <1>3, <1>4, <1>5, <1>6, <1>7 DEF Next, Step

\* Also what a run has stored so far is there, the cases its cohorts and its
\* report will rest on (run_pipeline(), :543-574).
THEOREM PublishInvariance == Spec => []PublishInv
  <1>1. Init => PublishInv
    <2> SUFFICES ASSUME Init PROVE PublishInv
      OBVIOUS
    <2>1. PublishedIsStored
      BY DEF Init, PublishedIsStored
    <2>2. StoredSoFar
      BY DEF Init, StoredSoFar
    <2>3. CohortsAreBacked
      BY DEF Init, CohortsAreBacked
    <2> QED BY <2>1, <2>2, <2>3, InitInv DEF PublishInv
  <1> QED BY <1>1, PublishInvNext, PTL DEF Spec

\* A reader who follows a published report finds, under its run key, every case
\* it counts and every cohort it names, of a legal size, of one conclusion and
\* one desk and without overlap, however many runs stored under that key before,
\* between and after (run_pipeline(), form_cohorts(), put_artifact()).
THEOREM ReportsStand == Spec => []PublishedIsStored
  <1>1. PublishInv => PublishedIsStored
    BY DEF PublishInv
  <1> QED BY <1>1, PublishInvariance, PTL

\* A cohort in the store, published or left behind by a run that died, holds
\* stored bulk cases that name this very cohort, and nothing else: no run that
\* follows under the same key takes one of them away or adds one to two cohorts
\* (run_pipeline() stores cases before cohorts, put_artifact() replaces none).
THEOREM CohortsStand == Spec => []CohortsAreBacked
  <1>1. PublishInv => CohortsAreBacked
    BY DEF PublishInv
  <1> QED BY <1>1, PublishInvariance, PTL

=============================================================================
