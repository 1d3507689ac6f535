------------------------------ MODULE Pipeline ------------------------------
(***************************************************************************)
(* Platform.run_pipeline() (src/asas/services/platform.py) and the pure    *)
(* decisions it takes (src/asas/engine/decisions.py), for one as_of, while *)
(* operations flip safe mode, rows arrive and agents fail.                 *)
(*                                                                         *)
(* A run reads the safe-mode state, takes a snapshot, investigates every   *)
(* episode under review, decides all cases, stores them one by one under   *)
(* its run key, then their cohorts, and publishes a report that readers    *)
(* follow to the cases. Several runs may be in progress in one process.    *)
(*                                                                         *)
(* An investigation is one step: the first caller records a result for the *)
(* run id, everybody else gets it (RunOnce, which AgentRuntime refines).   *)
(***************************************************************************)
EXTENDS Integers, Sequences, FiniteSetsExt

CONSTANTS
    Pipelines,     \* calls of run_pipeline()
    Last,          \* episodes 1..Last are under review, in case-id order
    Desk,          \* Desk[e]: the desk of episode e
    Explanations,  \* the benign explanations the bulk policy allows
    Severe,        \* Severe: <<e, i, s>> if the deviations of e that are left unexplained
                   \* on snapshot i reach the escalation band in its profile on snapshot s
    Control,       \* the episodes the control sample draws
    MayConclude,   \* bound: MayConclude[e]: the verdicts investigations of e reach
    MinSize, MaxSize,   \* decisions.cohort_min_size, cohort_max_size
    MaxWorkers,    \* pipeline.max_workers
    Needed,        \* rows below which a data gate fails
    MayRequest,    \* bound: the episodes for which RFIs arrive late
    MaySet,        \* bound: the ops states operations set
    MaxIngests, MaxSwitches, MaxFaults, MaxEvents, MaxReports,   \* bounds
    NoSnapshot, NoResult, NoCase, Unset   \* nothing cached, recorded, stored, known

Episodes == 1..Last

ASSUME PipelineAssumption ==
    /\ {Last, MinSize, MaxSize, MaxWorkers} \subseteq Nat \ {0} /\ MinSize <= MaxSize
    /\ DOMAIN Desk = Episodes /\ {Control, MayRequest} \subseteq SUBSET Episodes
    /\ MayConclude \in [Episodes -> SUBSET (Explanations \cup {"anomalous", "residual", "unsettled"})]
    /\ Explanations \cap {"anomalous", "residual", "unsettled", "failed"} = {}
    /\ MaySet \subseteq [bulk : BOOLEAN, llm : BOOLEAN]
    /\ {Needed, MaxIngests, MaxSwitches, MaxFaults, MaxEvents, MaxReports} \subseteq Nat

VARIABLES
    source,      \* the source rows: how many of the kinds a snapshot id counts, open RFIs
    cache,       \* Platform._cache: the snapshot the process holds
    ops,         \* the latest ops_state artifact
    suspended,   \* AgentRuntime.llm_suspended
    recorded,    \* agent_run_results: the verdict of each investigation
    cases,       \* case artifacts, by run key and episode
    cohorts,     \* cohort artifacts, by run key
    reports,     \* the pipeline_run history (put_latest)
    pc,          \* pc[p]: what run p does next
    run,         \* run[p]: its locals
    ingests, switches, faults   \* bounded counters

locals == <<pc, run>>
store == <<recorded, cases, cohorts, reports>>
environment == <<source, ops, ingests, switches, faults>>
vars == <<store, locals, environment, cache, suspended>>

-----------------------------------------------------------------------------
(* Snapshots, run ids and run keys.                                        *)

Sources == [rows : 0..MaxIngests, rfis : SUBSET Episodes]

\* The id covers how many trades, alerts and outcomes there are, not the RFIs.
SnapshotId(s) == s.rows

Blocks == {"SAFE_MODE", "DATA_GATE"}

\* What forbids bulk proposals in the whole run: safe mode, a failed data gate.
RunBlocks(o, s) ==
    {b \in Blocks : \/ b = "SAFE_MODE" /\ o.bulk
                    \/ b = "DATA_GATE" /\ s.rows < Needed}

Keys == (0..MaxIngests) \X SUBSET Blocks

RunKey(s, blocks) == <<SnapshotId(s), blocks>>

\* What an investigation comes to: an explanation the policy lets bulk cases
\* have, a typed anomaly, a verified deviation nothing explains (residual), or
\* none of these (abstained, an explanation outside the policy, a link that
\* waits for confirmation, adverse history).
Verdicts == Explanations \cup {"anomalous", "residual", "unsettled"}
RunIds == Episodes \X (0..MaxIngests) \X {"llm", "playbook"}

Failed == [id |-> NoResult, verdict |-> "failed"]
Outcomes == [id : RunIds, verdict : Verdicts] \cup {Failed}

-----------------------------------------------------------------------------
(* decide_case() and form_cohorts(): pure functions of the outcomes.       *)

Recommendations == {"bulk", "individual", "escalation"}

\* What the investigation itself says against a bulk proposal.
Concern(verdict) ==
    CASE verdict = "failed" -> {"AGENT_UNAVAILABLE"}
      [] verdict = "unsettled" -> {"UNSETTLED"}
      [] verdict = "anomalous" -> {"ANOMALY_SUPPORTED"}
      [] verdict = "residual" -> {"UNEXPLAINED_DEVIATION"}
      [] OTHER -> {}

\* Why a person must look at the case.
Reasons(e, outcome, s, blocks) ==
    Concern(outcome.verdict) \cup {r \in {"OVERRIDE"} : e \in s.rfis} \cup blocks

\* The control sample draws only from what nothing else keeps from bulk.
Drawn(e, outcome, reasons) == e \in Control /\ outcome.verdict \in Explanations /\ reasons = {}

\* Mutant: the band of a residual is taken from the snapshot it was found on.
BandOfTheFinding(e, outcome, s) ==
    \/ outcome.verdict = "anomalous"
    \/ outcome.verdict = "residual" /\ <<e, outcome.id[2], outcome.id[2]>> \in Severe

\* Typed anomalies are escalated, and so is a residual whose deviations, those
\* the investigation left unexplained on its own snapshot, are in the
\* escalation band of the profile in the snapshot of the run.
Escalates(e, outcome, s) ==
    \/ outcome.verdict = "anomalous"
    \/ outcome.verdict = "residual" /\ <<e, outcome.id[2], s.rows>> \in Severe

Recommend(e, outcome, s, reasons) ==
    IF Escalates(e, outcome, s) THEN "escalation"
    ELSE IF outcome.verdict \in Explanations /\ reasons = {} /\ ~Drawn(e, outcome, reasons)
         THEN "bulk" ELSE "individual"

\* The k-th chunk of at most MaxSize proposals of a group, in case-id order.
Chunk(bulk, group, k, g) ==
    LET members == {e \in bulk : group[e] = g}
    IN  {e \in members :
            Cardinality({f \in members : f <= e}) \in ((k - 1) * MaxSize + 1)..(k * MaxSize)}

Chunks(bulk, group) == {Chunk(bulk, group, k, group[e]) : k \in 1..Last, e \in bulk} \ {{}}

\* Chunks below the minimal size go back to individual review.
Cohorts(bulk, group) == {c \in Chunks(bulk, group) : Cardinality(c) >= MinSize}

\* All cases of a run, from its locals.
Decided(r) ==
    LET blocks == RunBlocks(r.ops, r.snap)
        why(e) == Reasons(e, r.outcomes[e], r.snap, blocks)
        first(e) == Recommend(e, r.outcomes[e], r.snap, why(e))
        group == [e \in Episodes |-> <<r.outcomes[e].verdict, Desk[e]>>]
        groups == Cohorts({e \in Episodes : first(e) = "bulk"}, group)
        cohort(e) == UNION {c \in groups : e \in c}
        tooFew(e) == first(e) = "bulk" /\ cohort(e) = {}
    IN  [e \in Episodes |->
            [id |-> r.outcomes[e].id, conclusion |-> r.outcomes[e].verdict, cohort |-> cohort(e),
             rec |-> IF tooFew(e) THEN "individual" ELSE first(e),
             reasons |-> why(e)
                \cup {x \in {"CONTROL_SAMPLE"} : Drawn(e, r.outcomes[e], why(e))}
                \cup {x \in {"COHORT_BELOW_MIN_SIZE"} : tooFew(e)}]]

AllReasons == {"AGENT_UNAVAILABLE", "UNSETTLED", "ANOMALY_SUPPORTED", "UNEXPLAINED_DEVIATION",
               "OVERRIDE", "CONTROL_SAMPLE", "COHORT_BELOW_MIN_SIZE"} \cup Blocks

Cases == [id : RunIds \cup {NoResult}, conclusion : Verdicts \cup {"failed"},
          cohort : SUBSET Episodes, rec : Recommendations, reasons : SUBSET AllReasons]

Reports == [key : Keys, bulk : Nat, individual : Nat, escalation : Nat, failures : Nat,
            cohorts : SUBSET SUBSET Episodes]

\* What stands for "nothing there" is none of the things that can be there.
ASSUME PipelineSentinels ==
    /\ NoSnapshot \notin Sources /\ NoResult \notin Verdicts \cup RunIds
    /\ NoCase \notin Cases /\ Unset \notin Outcomes

Number(decided, rec) == Cardinality({e \in Episodes : decided[e].rec = rec})

Report(key, decided) ==
    [key |-> key, bulk |-> Number(decided, "bulk"),
     individual |-> Number(decided, "individual"),
     escalation |-> Number(decided, "escalation"),
     failures |-> Cardinality({e \in Episodes : decided[e].id = NoResult}),
     cohorts |-> {decided[e].cohort : e \in Episodes} \ {{}}]

-----------------------------------------------------------------------------
(* A run, step by step.                                                    *)

Steps == {"idle", "snapshot", "investigate", "put_case", "put_cohorts", "publish",
          "finish", "failed"}

Fresh == [ops |-> [bulk |-> FALSE, llm |-> FALSE], snap |-> NoSnapshot,
          outcomes |-> [e \in Episodes |-> Unset], at |-> 1]

Init ==
    /\ source = [rows |-> 0, rfis |-> {}] /\ cache = NoSnapshot
    /\ ops = [bulk |-> FALSE, llm |-> FALSE] /\ suspended = FALSE
    /\ recorded = [i \in RunIds |-> NoResult]
    /\ cases = [k \in Keys |-> [e \in Episodes |-> NoCase]]
    /\ cohorts = [k \in Keys |-> {}]
    /\ reports = << >>
    /\ pc = [p \in Pipelines |-> "idle"]
    /\ run = [p \in Pipelines |-> Fresh]
    /\ ingests = 0 /\ switches = 0 /\ faults = 0

\* Bound: how much happens around the runs.
MayHappen == ingests + switches + faults < MaxEvents

Goto(p, step, r) ==
    /\ pc' = [pc EXCEPT ![p] = step]
    /\ run' = [run EXCEPT ![p] = r]

\* Bound: runs start only while fewer than MaxReports are published or under way.
Begin(p) ==
    /\ pc[p] = "idle"
    /\ Len(reports) + Cardinality({q \in Pipelines : pc[q] # "idle"}) < MaxReports
    /\ Goto(p, "snapshot", [Fresh EXCEPT !.ops = ops])
    /\ UNCHANGED <<store, environment, cache, suspended>>

\* Platform.snapshot(): the cached snapshot, or one of the rows there are now.
Current == IF cache = NoSnapshot THEN source ELSE cache

\* The model switch is set for the process, from the state read at the start.
TakeSnapshot(p) ==
    /\ pc[p] = "snapshot"
    /\ cache' = Current
    /\ suspended' = run[p].ops.llm
    /\ Goto(p, "investigate", [run[p] EXCEPT !.snap = Current])
    /\ UNCHANGED <<store, environment>>

\* The outcome of one investigation; after the last one the cases are decided.
\* The pool starts the episodes in order, MaxWorkers of them at a time.
Outcome(p, e, o) ==
    LET r == [run[p] EXCEPT !.outcomes[e] = o]
    IN  /\ pc[p] = "investigate" /\ run[p].outcomes[e] = Unset
        /\ Cardinality({f \in 1..e : run[p].outcomes[f] = Unset}) <= MaxWorkers
        /\ Goto(p, IF \E f \in Episodes : r.outcomes[f] = Unset
                   THEN "investigate" ELSE "put_case", r)

\* The agent run of an investigation now: it takes the snapshot of its own
\* moment and the model switch of its own moment.
AgentRun(e) == <<e, SnapshotId(Current), IF suspended THEN "playbook" ELSE "llm">>

\* Its result is recorded, or replayed if it has completed before.
Conclude(e, v) ==
    /\ recorded[AgentRun(e)] \in {NoResult, v}
    /\ recorded' = [recorded EXCEPT ![AgentRun(e)] = v]
    /\ cache' = Current

Investigate(p, e) ==
    /\ \E v \in MayConclude[e] :
          Conclude(e, v) /\ Outcome(p, e, [id |-> AgentRun(e), verdict |-> v])
    /\ UNCHANGED <<cases, cohorts, reports, environment, suspended>>

\* _investigate_safely(): any failure, before or after the result is recorded,
\* is that case's alone.
InvestigateFails(p, e) ==
    /\ faults < MaxFaults /\ MayHappen
    /\ faults' = faults + 1
    /\ UNCHANGED <<recorded, cache>> \/ \E v \in MayConclude[e] : Conclude(e, v)
    /\ Outcome(p, e, Failed)
    /\ UNCHANGED <<cases, cohorts, reports, suspended, source, ops, ingests, switches>>

\* Mutant: the last case is not the last.
NextCasePast(p) ==
    IF run[p].at <= Last THEN Goto(p, "put_case", [run[p] EXCEPT !.at = @ + 1])
                         ELSE Goto(p, "put_cohorts", [run[p] EXCEPT !.at = 1])

\* On to the next case, or to the cohorts after the last one.
NextCase(p) ==
    IF run[p].at < Last THEN Goto(p, "put_case", [run[p] EXCEPT !.at = @ + 1])
                        ELSE Goto(p, "put_cohorts", [run[p] EXCEPT !.at = 1])

Key(p) == RunKey(run[p].snap, RunBlocks(run[p].ops, run[p].snap))

\* Mutant: a case that is there already is replaced.
CaseReplaced(p) ==
    LET e == run[p].at
    IN  /\ pc[p] = "put_case"
        /\ cases' = [cases EXCEPT ![Key(p)][e] = Decided(run[p])[e]]
        /\ NextCase(p)
        /\ UNCHANGED <<recorded, cohorts, reports, environment, cache, suspended>>

\* Mutant: a case that is there already is passed over.
CaseSkipped(p) ==
    LET e == run[p].at
    IN  /\ pc[p] = "put_case"
        /\ cases' = [cases EXCEPT ![Key(p)][e] = IF @ = NoCase THEN Decided(run[p])[e] ELSE @]
        /\ NextCase(p)
        /\ UNCHANGED <<recorded, cohorts, reports, environment, cache, suspended>>

\* put_artifact(): the same case again is a no-op, another one is refused.
PutCase(p) ==
    LET e == run[p].at
        case == Decided(run[p])[e]
    IN  /\ pc[p] = "put_case"
        /\ \/ /\ cases[Key(p)][e] \in {NoCase, case}
              /\ cases' = [cases EXCEPT ![Key(p)][e] = case]
              /\ NextCase(p)
           \/ /\ cases[Key(p)][e] \notin {NoCase, case}
              /\ Goto(p, "failed", Fresh)
              /\ UNCHANGED cases
        /\ UNCHANGED <<recorded, cohorts, reports, environment, cache, suspended>>

PutCohorts(p) ==
    /\ pc[p] = "put_cohorts"
    /\ cohorts' = [cohorts EXCEPT ![Key(p)] =
                      @ \cup Report(Key(p), Decided(run[p])).cohorts]
    /\ Goto(p, "publish", run[p])
    /\ UNCHANGED <<recorded, cases, reports, environment, cache, suspended>>

Publish(p) ==
    /\ pc[p] = "publish"
    /\ reports' = Append(reports, Report(Key(p), Decided(run[p])))
    /\ Goto(p, "finish", Fresh)
    /\ UNCHANGED <<recorded, cases, cohorts, environment, cache, suspended>>

\* KPIs, drift report, audit entry (PIPELINE_RUN or PIPELINE_FAILED), anchor.
Finish(p) ==
    /\ pc[p] \in {"finish", "failed"}
    /\ Goto(p, "idle", Fresh)
    /\ UNCHANGED <<store, environment, cache, suspended>>

\* The store or the engine raises: the run ends as PIPELINE_FAILED.
Fail(p) ==
    /\ pc[p] # "idle"
    /\ faults < MaxFaults /\ MayHappen
    /\ faults' = faults + 1
    /\ Goto(p, "idle", Fresh)
    /\ UNCHANGED <<store, cache, suspended, source, ops, ingests, switches>>

-----------------------------------------------------------------------------
(* Everything else. *)

\* The process dies and comes back.
Crash ==
    /\ faults < MaxFaults /\ MayHappen
    /\ faults' = faults + 1
    /\ pc' = [p \in Pipelines |-> "idle"]
    /\ run' = [p \in Pipelines |-> Fresh]
    /\ cache' = NoSnapshot
    /\ suspended' = FALSE
    /\ UNCHANGED <<store, source, ops, ingests, switches>>

\* Ops.set(): operations suspend or resume bulk proposals and the model.
OpsSet ==
    /\ switches < MaxSwitches /\ MayHappen
    /\ switches' = switches + 1
    /\ ops' \in MaySet \ {ops}
    /\ UNCHANGED <<store, locals, cache, suspended, source, ingests, faults>>

\* Platform.ingest(): late rows of this as_of, or RFIs, arrive; the cache goes.
Ingest ==
    /\ ingests < MaxIngests /\ MayHappen
    /\ ingests' = ingests + 1
    /\ \/ source' = [source EXCEPT !.rows = @ + 1]
       \/ \E e \in MayRequest \ source.rfis : source' = [source EXCEPT !.rfis = @ \cup {e}]
    /\ cache' = NoSnapshot
    /\ UNCHANGED <<store, locals, suspended, ops, switches, faults>>

\* What a run does without anything going wrong.
Step(p) ==
    \/ TakeSnapshot(p)
    \/ \E e \in Episodes : Investigate(p, e)
    \/ PutCase(p) \/ PutCohorts(p) \/ Publish(p) \/ Finish(p)

Next ==
    \/ \E p \in Pipelines :
          \/ Begin(p) \/ Step(p) \/ Fail(p)
          \/ \E e \in Episodes : InvestigateFails(p, e)
    \/ Crash \/ OpsSet \/ Ingest

Spec == Init /\ [][Next]_vars

-----------------------------------------------------------------------------
(* Properties *)

Locals == [ops : [bulk : BOOLEAN, llm : BOOLEAN], snap : Sources \cup {NoSnapshot},
           outcomes : [Episodes -> Outcomes \cup {Unset}], at : Episodes]

\* Every variable has its type, and a run knows its snapshot once it has taken
\* one, and all outcomes once it stores cases (run_pipeline()'s locals).
TypeOK ==
    /\ source \in Sources /\ cache \in Sources \cup {NoSnapshot}
    /\ ops \in [bulk : BOOLEAN, llm : BOOLEAN] /\ suspended \in BOOLEAN
    /\ recorded \in [RunIds -> Verdicts \cup {NoResult}]
    /\ cases \in [Keys -> [Episodes -> Cases \cup {NoCase}]]
    /\ cohorts \in [Keys -> SUBSET SUBSET Episodes]
    /\ reports \in Seq(Reports)
    /\ pc \in [Pipelines -> Steps] /\ run \in [Pipelines -> Locals]
    /\ \A p \in Pipelines :
          /\ pc[p] \in {"investigate", "put_case", "put_cohorts", "publish"}
                => run[p].snap \in Sources
          /\ pc[p] \in {"put_case", "put_cohorts", "publish"}
                => run[p].outcomes \in [Episodes -> Outcomes]
    /\ ingests \in 0..MaxIngests /\ switches \in 0..MaxSwitches /\ faults \in 0..MaxFaults

Bulk(stored) == {e \in Episodes : stored[e].rec = "bulk"}

\* A published report (put_latest("pipeline_run")) is what readers find behind
\* it: all its cases are stored under its run key with the recommendations and
\* failures it counts, and its cohorts are stored, have a legal size, one
\* conclusion and one desk, and hold each bulk case exactly once, whatever other
\* runs stored under the same key.
PublishedIsStored ==
    \A i \in DOMAIN reports :
        LET r == reports[i]
            stored == cases[r.key]
        IN  /\ NoCase \notin {stored[e] : e \in Episodes}
            /\ r = Report(r.key, stored)
            /\ r.cohorts \subseteq cohorts[r.key]
            /\ UNION r.cohorts = Bulk(stored)
            /\ \A c \in r.cohorts :
                  /\ Cardinality(c) \in MinSize..MaxSize
                  /\ \A e \in c : /\ Desk[e] = Desk[Min(c)]
                                 /\ stored[e].conclusion = stored[Min(c)].conclusion
                  /\ \A d \in r.cohorts \ {c} : c \cap d = {}

\* A stored cohort, also one of a run that died before it published or that
\* another run followed, is what its members say: each is stored under the same
\* run key as a bulk proposal of this cohort, so nobody attests a cohort with a
\* case that is missing, not bulk, or in two cohorts (run_pipeline(), :543-546).
CohortsAreBacked ==
    \A k \in Keys : \A c \in cohorts[k] : \A e \in c :
        /\ cases[k][e] # NoCase
        /\ cases[k][e].rec = "bulk" /\ cases[k][e].cohort = c

\* A stored bulk proposal goes back to a recorded investigation of that very
\* episode that found the benign explanation the case names, under a key nothing
\* blocks, the control sample did not draw it, and it is the one kind of case
\* with no reason for a person to look. A typed anomaly on record is never less
\* than an escalation; a residual is one exactly if it is in the band in the
\* snapshot of the run key, on whatever snapshot it was found (decide_case()).
BulkIsJustified ==
    \A k \in Keys, e \in Episodes :
        LET c == cases[k][e]
        IN  c # NoCase =>
              /\ c.rec = "bulk" <=> c.reasons = {}
              /\ c.rec = "bulk" => /\ c.id \in RunIds /\ c.id[1] = e
                                   /\ recorded[c.id] = c.conclusion
                                   /\ c.conclusion \in Explanations
                                   /\ e \notin Control /\ k[1] >= Needed /\ k[2] = {}
              /\ c.id \in RunIds =>
                    (c.rec = "escalation" <=>
                        \/ recorded[c.id] = "anomalous"
                        \/ recorded[c.id] = "residual" /\ <<e, c.id[2], k[1]>> \in Severe)

-----------------------------------------------------------------------------
(* Why they hold: the inductive invariant.                                 *)

\* Every outcome a run holds is the recorded result of an agent run on that
\* very episode; records never change.
OutcomesAreRecorded ==
    \A p \in Pipelines, e \in Episodes :
        LET o == run[p].outcomes[e]
        IN  o \notin {Unset, Failed} => o.id[1] = e /\ recorded[o.id] = o.verdict

\* So is what a stored case refers to.
CasesAreRecorded ==
    \A k \in Keys, e \in Episodes :
        cases[k][e] # NoCase /\ cases[k][e].id \in RunIds => recorded[cases[k][e].id] # NoResult

Inv ==
    /\ TypeOK
    /\ source.rows <= ingests
    /\ OutcomesAreRecorded /\ CasesAreRecorded
    /\ BulkIsJustified

\* What a run that stores its decisions has stored so far.
StoredSoFar ==
    \A p \in Pipelines :
        LET decided == Decided(run[p])
        IN  /\ pc[p] \in {"snapshot", "investigate"} => run[p].at = 1
            /\ pc[p] = "put_case" =>
                  \A e \in Episodes : e < run[p].at => cases[Key(p)][e] = decided[e]
            /\ pc[p] \in {"put_cohorts", "publish"} =>
                  \A e \in Episodes : cases[Key(p)][e] = decided[e]
            /\ pc[p] = "publish" => Report(Key(p), decided).cohorts \subseteq cohorts[Key(p)]

PublishInv == Inv /\ StoredSoFar /\ CohortsAreBacked /\ PublishedIsStored

-----------------------------------------------------------------------------
(* What the documentation promises and the code does not keep.             *)

\* Re-running is the remedy operations have ("Fix the cause ... and re-run
\* `asas pipeline`", docs/operations.md), so storing a run's decisions never
\* clashes with those of an earlier run under the same key.
RerunsSucceed == \A p \in Pipelines : pc[p] # "failed"

=============================================================================
