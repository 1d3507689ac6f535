# ASAS in TLA+

TLA+ models of ASAS (auditable agentic surveillance), the configurations that
model-check them with TLC, and theorems about them that TLAPS checks. Every
definition is translated from the code; `PROJECT.json` gives, for each of them,
the source lines it stands for, and lists the hazards, runs, mutants and
theorems. All modules stand in this directory and need only the standard and
the community modules, the proofs also `TLAPS`.

    tlc -workers 2 -config GovernanceSetup.cfg MCGovernance
    tlc -workers 2 -config Snapshots.cfg MCSnapshots
    tlc -workers 2 -config Store.cfg MCStore
    tlc -workers 2 -config Service.cfg MCService
    tlc -workers 2 -config Programs.cfg MCPrograms
    tlapm GovernanceProofs.tla
    tlapm PipelineProofs.tla
    tlapm AgentRuntimeProofs.tla
    tlapm SnapshotsProofs.tla
    tlapm AnchorsProofs.tla
    tlapm ServiceProofs.tla
    tlapm ProgramsProofs.tla

## 1. The system

ASAS reads extracts of trades and alerts, links them into episodes, lets agents
investigate each episode, decides by fixed rules which cases may be proposed for
bulk attestation, and lets people change detection rules through a governed
process. One process (`api/app.py`, worker threads) and any number of
command-line processes (`cli.py`) share one store (SQLite or PostgreSQL).

| Component | Source | State it keeps | Operations | Hard behaviour |
|---|---|---|---|---|
| Governance | `evolution/governance.py` | candidates, event histories, reports, policy bundles, activations (all append-only artifacts) | seed, create, record_step, submit, reject, approve, rollback | each call is several transactions; calls interleave or stop in between |
| Agent runtime | `agents/runtime.py` | `agent_runs`, `agent_steps`, `agent_run_results` | run: replay, resume, decide, apply, checkpoint, finish | two callers of one run, crash and resumption, budgets, the model switch flipping |
| Investigator | `agents/investigator.py` | the program state inside a checkpoint | apply, playbook, recovery, done, finalize | a model that stalls, repeats itself, or answers nothing valid |
| Pipeline | `services/platform.py` | cases and cohorts per run key, the `pipeline_run` history, the snapshot cache | run_pipeline, investigate, ingest, confirm_link, record_decision, curate | stores case by case; inputs move during a run; re-runs |
| Operational controls | `services/ops.py` | `ops_state` history | set, state | switches while runs are in progress |
| Decisions, gates | `engine/decisions.py`, `engine/gates.py` | none | decide_case, form_cohorts, data_gates | sizes at their limits, several reasons at once |
| Store, audit chain | `store/db.py`, `store/dialect.py` | source rows, artifacts, audit entries | ingest, load_bundle, put_artifact, put_latest, audit, verify | write races on PostgreSQL, reads of several tables, the chain under concurrent writers |
| Anchors | `store/anchor.py` | anchor files | anchor, verify | a crash between creating and filling a file; forks |
| Migrations | `store/migrations.py` | applied versions | apply | two processes migrate at once; an edited migration |
| Model gateway | `agents/gateway.py` | circuit breakers, response cache | complete | failures, half-open probes, endpoint order, replay of responses |
| Hypotheses, evidence | `engine/hypotheses.py`, `evidence.py` | none | evaluators, adjudication | precedence of contradicting evidence; conclusions from evaluations made at different times |
| Linking, graph | `engine/linking.py`, `graph.py`, `snapshot.py` | none | unions in stages with guards, bounded walk | guards depend on earlier unions; torn input |
| Rules, replay, shadow, counterexamples | `engine/rules.py`, `evolution/*.py` | none | evaluate, compare, replay | missing values, history as it was known |
| Challenger, discovery | `agents/challenger.py`, `discovery.py`, `engine/challenge.py`, `discovery.py` | findings, patterns inside a checkpoint | verify, dismiss; mine, synthesize, propose | overlapping patterns in any order; tools that are denied |
| API, console | `api/app.py`, `core/auth.py`, `security.py`, `ratelimit.py`, `readiness.py` | token buckets | middleware, handlers | concurrent callers, clocks read outside a lock |
| Statistics | `engine/signals.py`, `deviation.py`, `capabilities.py`, `scoring.py` | none | frozen baselines, robust scales, joint rarity, score and queue | empty samples, ties, what counts as known when |
| Classification | `engine/classification.py` | none | how source columns meet the contract | a report, no state |
| Monitoring | `services/monitoring.py` | none | KPIs, drift | statistics over finished runs |
| Data input | `data/*.py` | none | mapping, parsing | pure input |
| Harnesses | `services/evaluation.py`, `llm_eval.py`, `bench.py`, `demo.py`, `integration.py` | none | measurements | offline |

How they interact: the pipeline reads safe mode from Ops, the active bundle from
Governance and rows from the Store to build a snapshot; it calls the runtime
for every episode; the runtime calls a program and, through the gateway, the
model; results, cases and reports go back to the Store as write-once artifacts.
Readers go from the latest report to its cases. Evidence steps of a candidate
replay snapshots and hand their reports to Governance; an approval changes the
active bundle, and with it the next snapshot.

What makes each correct:

* Governance: no gate can be skipped and no report be missing however calls
  interleave; only people decide; two people sign; what is in production passed
  every gate; concurrent approvals do not lose each other's change.
* Runtime: one history and one result per run, whoever resumes it; budgets hold
  across resumptions; callers agree; a call ends.
* Pipeline: a report is what is stored behind it; a cohort is what its cases say,
  also one of a run that died; a bulk proposal has evidence and no reason against
  it; a re-run works.
* Store: write-once artifacts under races, all-or-nothing ingestion, one linear
  audit chain; what is anchored cannot be lost unnoticed.
* Gateway: a breaker opens, probes and closes; the answer replayed for a request
  is the recorded one; every completion ends.
* Snapshots: one id, one story; what a process has stored it also shows; whatever
  was torn, episodes obey their guards and graphs can be walked.
* Service: nobody exceeds the rate limit, every request is answered.
* Agent programs: whatever a model does, a conclusion is what all the evidence
  supports, a confirmed finding is true on what the principal may see, a proposed
  rule is sound on history, written like no other and covered by no other.

## 2. Modules

| Module | Models | Composes |
|---|---|---|
| `Governance` | `Governance` and its callers, one action per store access | - |
| `GovernanceProofs` | the theorems about `Governance` | extends `Governance` |
| `RunOnce` | what the runtime promises: at most one result per run, everybody gets that one | abstract |
| `AgentRuntime` | `AgentRuntime.run()` under the investigator, `Platform.investigate()`'s writes after it | implements `RunOnce` |
| `AgentRuntimeProofs` | the theorems about `AgentRuntime`, its refinement of `RunOnce` among them | extends `AgentRuntime`, `Induction` |
| `Induction` | induction over the natural numbers, stated over sets | used by proofs |
| `Pipeline` | `run_pipeline()`, `decide_case()`, `form_cohorts()`, Ops, ingestion | uses an investigation as the one step `RunOnce` promises |
| `PipelineProofs` | the theorems about `Pipeline` | extends `Pipeline`, `Induction` |
| `Linking`, `EvidenceGraph` | episodes out of trades and links; the graph and its bounded walk (operators) | `EvidenceGraph` extends `Linking` |
| `Snapshots` | `Platform._bundle()`, its cache, and everything that changes what a snapshot shows | extends `EvidenceGraph` |
| `SnapshotsProofs` | the theorems about `Snapshots`, and the lemmas about linking and the graph they rest on | extends `Snapshots`, `Induction` |
| `WriteOnce` | what the store promises: rows that keep their content, whole batches, one growing chain | abstract |
| `Store` | the store's transactions on SQLite and PostgreSQL, migrations at start-up | - |
| `Anchors` | signed anchors outside the database, verification, backup and restore | extends `Store`, implements `WriteOnce` |
| `AnchorsProofs` | the theorems about `Store` and `Anchors`, their refinement of `WriteOnce` among them | extends `Anchors`, `Induction` |
| `Gateway` | circuit breakers, retries, the endpoint chain, the response cache | - |
| `Service` | the HTTP service around it: start-up checks, identity, rate limit, entitlements, handlers | extends `Gateway` |
| `ServiceProofs` | the theorems about `Service` and its `Gateway` | extends `Service` |
| `Signals`, `Deviation`, `Rules`, `Scoring`, `Evidence`, `Hypotheses` | the deterministic functions of `engine/` and of replay, on one snapshot (operators) | each extends those before it |
| `Tools` | what an agent may ask, and what it has been told | extends `Hypotheses` |
| `Investigator`, `Challenger`, `Discovery` | the three agent programs, their playbooks and detectors | extend `Tools` |
| `Programs` | one run of one program under any model | extends the three |
| `ProgramsProofs` | the theorems about the agent programs and the functions they rest on | extends `Programs`, `Induction` |
| `MCGovernance`, `MCAgentRuntime`, `MCPipeline`, `MCSnapshots`, `MCStore`, `MCService`, `MCPrograms` | the instances TLC checks (`MCStore`: of `Anchors`) | extend the module they name |

### Governance

`events[c]`, `bundles[v]`, `activations`, `reports` and `created` are the
artifact kinds `candidate_event`, `policy_bundle`, `activation`, the evidence
reports and `candidate`; `audited` records which events have an audit entry.
Each public method is a chain of actions, one per transaction: for `approve`
`ApproveBegin` (roles, state), `ApproveSubmitter` (four eyes), `ApproveParent`
(the active bundle and the merge), `BundlePut`, then `_event`'s
`EventCheck`/`EventSeq`/`EventPut`/`EventAudit`, then `_activate`'s
`ActivateSeq`/`ActivatePut`/`ActivateAudit`. `Fail` stops a call between any two.
A versioned write finds its slot free or ends the call (`ImmutableRecordError`):
two payloads are never equal, because each carries the time it was written. The
exception is the candidate itself (`CreatePut`): one that the discovery agent
proposes (`Discovered`) carries the moment of its snapshot, so a second `create()`
of it that looked before the first had stored is accepted by `put_artifact`, and goes
on to its DRAFT event, which nothing checks. One that a person proposes carries the
time of the call, and the second `create()` is refused.

### AgentRuntime

The state of a program is the sequence of the classes of action applied so far.
`Decisions` gives what the model may reply or the playbook does (the model's
choice is free), `Exhausted` the budgets, `Checkpoint` and `Finish` the two
writes, `ReadRun`/`InsertRun`/`ReadSteps` the way in (counters are those of the last
checkpoint), and `ProposalRead` to
`MemoryPut` what `Platform.investigate()` does with a fresh result. `Crash` kills
the process and all its threads, `Fail` one call; the next call resumes. The
run id covers the model id, so an episode has an "llm" and a "playbook" run.
`PlaybookRun` is the reference: the playbook on its own, undisturbed.

### Pipeline

`Begin` reads safe mode, `TakeSnapshot` copies the model switch into the runtime
and takes the snapshot, `Investigate` and `InvestigateFails` are the pool's
investigations (each takes the snapshot and the switch of its own moment),
`PutCase` stores one case, `PutCohorts` and `Publish` the rest. `Decided` is
`decide_case` over all episodes followed by `form_cohorts`. A snapshot is the
number of rows its id counts and the open RFIs its id leaves out. A verdict is one
of the benign explanations the bulk policy allows (`Explanations`), a typed anomaly,
a residual (deviations nothing explains) or nothing settled. A residual is escalated
by the band of its deviations in the snapshot of the *run* (`Escalates`,
`platform.py:534`), which need not be the one it was investigated on: `Severe` says in
which pairs of snapshots it is. Bulk cases are grouped by conclusion and desk before
they are cut into cohorts (`Cohorts`, `Chunks`), as `form_cohorts()` does. The bulk policy
and the overrides are those of the run's own snapshot. `OpsSet`, `Ingest`,
`Fail` and `Crash` happen between any two steps. Snapshots and investigations
are one step each: the latter is justified by `AgentRuntime` (`RunsOnce`), what
becomes of the former is the subject of `Snapshots`.

### Linking, EvidenceGraph, Snapshots

`rows` are the source tables, `policy` the active bundle, `confirmedBy` the
second versions of link proposals, `cache` is `Platform._cache`. A call to
`_bundle` is `ReadPolicy`, `ReadLinks`, `Check` (is the key cached?), one `Load` per
table (`load_bundle` runs one autocommitted SELECT per table), `Insert` into the
cache, and `Fetch`, which reads the cache again. The writers are `Ingest`,
`RecordDecision` and `Curate` (`Commit`, one transaction), `ConfirmLink`
(`ConfirmOver`, `ConfirmPut`) and `Release`; each clears the cache in `Settle`
after its transaction, or not, when its audit entry fails (`SettleFails`). Other
processes do the same without ever clearing this cache (`...Elsewhere`).
`Linked` is `build_episodes()`: lineage, then confirmed links, then shared keys,
every join after the first stage under guards (`Attempt`, applied link by link in the
order of `InOrder`); `BuildGraph` is the graph an agent is offered and `Neighborhood`
the walk over it, a turn of its loop (`Visit`) per node found. That links join two
trades is said by cuts (`JoinedByLinks`): no set of trades that no accepted link
leaves holds one without the other. `c.during` and `settled` are
history variables: what was committed while a snapshot was loaded, and which
writers have returned.

### Store, Anchors

`rows`, `log` are what is committed, `tx[t]` the open transaction of a thread,
`owner[p]` the lock a process takes around its writer connection, `chain` the
advisory lock of the audit chain on PostgreSQL, `state[p]` whether a process
runs and has its connection. A call is `Lock`, then `Select`/`Insert` per row
(`put_artifact`, `ingest`, `insert_ignore`) or `LockChain`, `ReadHead`,
`AppendEntry` (`audit`) or `Pending` (migrations), then `Commit`. On SQLite `Lock`
waits for every other writer, up to its timeout (`LockTimesOut`). On PostgreSQL a
SELECT sees what is committed; an INSERT waits for whoever has inserted the key,
and a lost race makes the transaction start again (`Duplicate`), once. `Deadlock`
resolves a circle of waits the way the database does, by failing one of them. A
connection that is lost at the commit leaves the call in doubt: it raises, and
the database has rolled back (`Fail`) or has stored everything (`Commit`, second
disjunct). The
numbers PostgreSQL gives out (`issued`) are not taken back by a rollback.
`files` is the sink of `anchor.py`: `CreateFile` and `FillFile` are the exclusive
creation and the write after it, so a crash leaves an empty file; `BackUp` and
`Restore` follow the runbook. Hashes are modelled as what they cover.

### Gateway, Service

`failures[e]`, `openedAt[e]` are a `CircuitBreaker`, `recorded` the response cache,
`clock` is `time.monotonic()`. A completion is `Lookup`, then per endpoint `Allow`
(the breaker), `Call`, `Answer` (free, also by timeout), `Succeeded` or `Failed`, `Again`
or `NextEndpoint`, and at last `Remember`. `Receive` is the middleware up to the
rate limiter; `ReadClock` and `Limit` are two steps, since the limiter reads the time
before it takes its lock; then the handlers. `setting` ranges over
configurations; `Starts` is what `readiness.py` makes of them. Authentication and
entitlements are there because they decide which requests get as far as a bucket,
whose bucket that is, and which handlers call a model; no property is about them.

### Signals to Hypotheses, and the programs

A snapshot is a record of trades (sequences of versions), episodes, alerts,
outcomes and rules; `BuildSnapshot` adds signals, baselines, verified deviations
and scores as the code's `build_snapshot` does, and every view, rule and evaluator is a
function of that record. Numbers stay integers: percentages in tenths, medians
doubled, scales in quarters, z in tenths, strengths and scores in hundredths; the
code's thresholds are scaled alike. Signals that no rule, baseline or evaluator
of the model reads are left out (`span_hours`, `rebook_count`,
`instrument_signature_recurrence`, `product_type`, `instrument_id`). A value written in
a rule says what it is and how it is spelt, in the condition or in a parameter of
the rule: two rules of one logic in two spellings are two rules for `Signature`, as
for the JSON text that `_signature()` compares.

`Tools` has the answers an agent may get; since a snapshot is frozen, the evidence
a run has gathered is the set of requests that were answered. In every state of
`Programs` the next step is the playbook's (`InvestigatorPlaybook`,
`ChallengerPlaybook`, `DiscoveryPlaybook`) or any step a model may choose (`...Model`),
and `apply()` decides what it changes. For the investigator these are evidence
requests, hypotheses, evaluations, rebook links, conclusions and abstention, with
the streak of steps that changed nothing, after which the playbook takes over
(`recovering`). `AgentRuntime` has the runtime around a program whose steps are
opaque, `Programs` the programs without the runtime.

## 3. What the runs check

| Run | Shows |
|---|---|
| `governance_setup` | from an empty store, two threads seed, propose and run evidence steps and may die anywhere, one candidate being the discovery agent's and one a person's: `TypeOK` (also referential integrity), `EventsFollowEvidence` (every event but DRAFT follows one from which ALLOWED leads to it, and only a discovered candidate may have a second DRAFT), `EvidenceIsStored` |
| `governance_release` | two threads take two candidates over one parent through submission, rejection, approval and rollback, the agent and a service among those with the approver's role: `OnlyHumansGovern`, `FourEyes`, `ProductionHasEvidence`, `ReleasedHasBundle`, `NoLostRelease` |
| `governance_terminal` | **violated**: `TerminalIsFinal`. A reject and an approval that both passed the check are both written |
| `runtime_safety` | two workers, a fault, a switch: `OneHistory`, `ResultIsRecorded`, `WithinBudgets` (over the whole history of a run, through every resumption, the tools called and the steps at which the model was asked stay within the budgets, and a result that names a budget comes from a history that used it up), `PlaybookIsDeterministic`, and that the runtime implements `RunOnce` (`RunsOnce`) |
| `runtime_returns` | every call ends, whatever the model says, under weak fairness |
| `runtime_proposals` | **violated**: `ProposalsAreStored`. A crash after the result leaves the link proposal unstored, and a replay never stores it |
| `pipeline` | two overlapping or successive runs, ingestion, a switch, a failure: `PublishedIsStored`, `CohortsAreBacked`, `BulkIsJustified`; also `CohortsAreComplete`, an assumption of `MCPipeline` that compares `Cohorts` with its specification on every set of six proposals of two conclusions and two desks |
| `snapshots` | two threads over one cache, and another process, build, ingest, decide, curate, confirm and release, one store access at a time: `SameIdSameStory`, `OwnWritesAreSeen`, `AnswersAreCurrent`, `OneConfirmation`, `EpisodesAreSound`, `GraphsCanBeWalked`; also `LinkingIsSound`, an assumption of `MCSnapshots` over all small books of trades |
| `store` | two processes start, write, audit, anchor and verify on either database, with crashes, broken connections, timeouts, deadlocks and a restore: `AnswersHold`, `RunningIsMigrated`, `VerificationIsRight`, that the whole implements `WriteOnce` (`StoreIsWriteOnce`), and that every call ends (`CallsEnd`) |
| `service` | two server threads, two endpoints, two users, in every configuration that starts: `BreakerHoldsBack`, `WithinRate`, `EveryRequestEnds` |
| `programs` | the agent programs on small but complete data: `ConclusionHolds`, `ReportHolds`, `EveryRunEnds`; also, as assumptions evaluated by `MCPrograms` on the same data, `AlertsMoveForward` (another alert never moves an episode back in the queue), `ExplainingLowers` (residual outlyingness is monotone) and `CandidatesCoverPatterns` (a synthesized rule fires on all of its pattern and loses no detection) |
| `pipeline_rerun` | **violated**: `RerunsSucceed`. A re-run that decides a case differently under the same run key is refused |

Each property of a passing run has a mutant of the code (in the module, before
the definition it replaces, commented `Mutant:`) under which that run finds it
violated.

### Bounds

* Two threads, workers or runs: every hazard listed is a race of two; a third
  adds no new order of a read and a conflicting write.
* Governance: `MaxVersion` 3 lets both candidates be released and an approval
  after a rollback collide; `MaxEvents` and `MaxActivations` bound the histories;
  `OutOfTurn` bounds which evidence is also computed when it is not due.
  `governance_release` starts from the store a single caller leaves behind who has
  seeded and taken the candidates to their submission (`InitAfter`) and lets no
  call die, `governance_setup` has the crashes; the theorems cover both together. The
  constraint `OneCandidate` lets a behaviour of `governance_setup` follow one of its two
  candidates: they share nothing but the bundle in production, which the set-up leaves
  alone.
* Runtime: for safety `MaxSteps` 3 with two tool calls and two steps of the model, so
  that each budget binds before the others do, also when a run is resumed half-way;
  for `returns` and `proposals` a script of three actions against `MaxSteps` 2. Runs end by
  conclusion, by each budget and by recovery; `MaxFaults`, `MaxSwitches` 1.
* Pipeline: three episodes, one drawn by the control sample, cohorts of two, so
  that a proposal is left over, also because its conclusion is another one's;
  `MayConclude` leaves one episode three verdicts (two explanations, a residual that is
  severe with the last rows in, `SevereLast`) and the others one; one ingest (two in
  `pipeline_rerun`), one switch of bulk proposals or of the model (`MaySet`), one
  fault, at most two of these (`MaxEvents`); `MaxReports` 2 permits two runs at once or one after another;
  one worker per pool, the shipped default.
* Snapshots: one `as_of`; a book of a cancelled trade, an untagged and a tagged
  rebooking; an ingest that adds the rebookings and one that changes a stored row in
  place; `MaxCalls` 3 calls of two threads (a reader, a writer and a second of
  either), `MaxElsewhere` 1 change by another process. Three of the six tables are
  loaded, the others are read alike and nothing compares them. `MCSnapshots` checks
  linking on every book of three trades over two or three values of each reference.
* Store: two processes with a thread each. Three workloads: two releases start on
  an empty database and write batches that overlap, contradict each other and take
  their keys in opposite orders (3 calls, 1 fault); the same on a database whose
  migration was edited (1 call); auditing with a backup and a restore (4 calls: enough
  to anchor an entry, lose it and put another in its place).
* Service: circuits open after two failures and may be probed after one tick;
  `Retries` 1, `MaxClock` 2; two requests (three on the laptop setting, with capacity
  one), so that a thread meets a circuit the other has opened or is probing.
* Programs: four data sets: a month of ten episodes after two months of history
  with an unlinked and a linked rebooking; recurring episodes with three risk
  patterns, one of which never reaches the precision floor, one benign pattern, and a
  rule of production that is sound on them, so that only its being known keeps it from
  being proposed;
  two candidates for one rebooking; versions without prices. Patterns come in every
  order (their hashes are arbitrary). Principals who may see everything and one
  confined to a desk. `MaxStrays` 1: one step off the playbook that changes
  something, anywhere in the run; steps that change nothing are not bounded. One is
  enough for a premature, blind or misplaced step at any point. The rules a model comes
  up with (`ModelRules`) are those it has seen, in their own and in other spellings,
  shortened, and three kinds that are not valid.

Runs turn deadlock checking off where the bounds end all activity (no
call can start any more), and in Governance because every call may have been
made: the program itself waits for the next request.

### Fairness

`AgentRuntime!FairSpec` asks for weak fairness of each worker's `Step`: a thread
that can take its next step does. `Step` holds neither faults nor switches,
and nothing is asked of the model's answers, only that a request to it returns or
raises, which the gateway's timeouts give. `Anchors!FairSpec` asks the same of
`Forward`, what a thread does in a call except for faults: locks are released by
calls that end, an INSERT waits for a transaction that ends, and PostgreSQL ends a
circle of waits after `deadlock_timeout`. `Service!FairSpec` asks it of `Serve`, a
server thread's next step; endpoints answer or time out. `Programs!Spec` asks it
of the playbook's step of each program: a model that gets nowhere is replaced by
the playbook after `max_consecutive_rejections` (investigation), or uses up the budget of
model calls, so there are finitely many steps of a model between two of the playbook.
No run assumes that anybody starts a call.

## 4. What is proved

### Governance

`GovernanceProofs` proves, for any number of threads, principals, candidates,
slots, versions and events, with calls that die anywhere (`MayFail`) and with or
without four eyes: `TypeCorrect`, `EvidenceFirst`, `ReportFirst`, `HumansOnly`,
`TwoPairsOfEyes`, `BundleFirst`, `ProductionIsEvidenced` and `ReleasesAreKept`. The only assumption is
`GovernanceAssumption` on the constants (role sets are sets of principals, the
reserved names are nobody's, the bounds are numbers).

The argument: `Inv` adds to the properties (of `EventsFollowEvidence` its first half,
`EventsAreJustified`) what a call in progress may rely on
(`CallOK`: its arguments are legal for its kind, and `ProgressOK`: what it
checked in earlier transactions, such as "the candidate was submitted by
another" or "the bundle I am to release is stored and signed by me") and what
every stored bundle may rely on (`StoreOK`). The properties alone are not
inductive: `EventPut` writes what `EventCheck` found two transactions earlier,
and nothing in the store says so. What a waiting call relies on survives the
steps of others because the store only grows (`Grows`, `StillOK`). Each action
has its lemma; `NextInv` combines them. The second half, `HistoriesStartOnce`, needs that of the calls which
create one person's candidate only one gets past the store, and that no event can
come before its DRAFT (`OneStart`, inductive beside `Inv`). `ProductionIsEvidenced` then walks
`Allowed` backwards from a submission (`SubmittedPassedGates`).

`ReleasesAreKept` (`NoLostRelease`) needs more than `Inv`: `ReleaseInv` adds that
every bundle is built on the one its approver read as active (`BuiltOnParent`), and
that until somebody rolls back versions are stored and activated in turn, with at
most one call (`Owns`) between storing a version and activating it (`InTurn`). Two
approvals on one parent want the same version; the store gives it to one of them.

### Pipeline

`PipelineProofs` proves, for any number of runs, episodes, workers, rows,
switches and faults, any desks, control sample and cohort sizes, and whichever
verdicts investigations reach and whatever bands residuals have in whichever snapshots:
`PipelineTypes`, `ProposalsHaveEvidence`, `ReportsStand` and `CohortsStand`. It assumes `PipelineAssumption` (the bounds and the
sizes are numbers, the verdicts and the switches are those of section 2) and
`PipelineSentinels` (what stands for "nothing there" is none of the things that
can be there).

The argument: `BulkIsJustified` speaks of the stored cases and the recorded
results, but a case is decided from what a run holds in its locals, possibly
long after the results were recorded and after other runs have come and gone. So
`Inv` adds that every outcome a run holds is the recorded result of an agent run
on that very episode (`OutcomesAreRecorded`), and that the results stored cases
refer to are there (`CasesAreRecorded`); both survive because a recorded result
never changes (`RecordsStay`, which is where `RunOnce` is needed). `DecidedCase`
says what `decide_case` and `form_cohorts` together make of one outcome,
`StoredCase` that this may be stored under the run's key, whose first half is the
rows in whose snapshot a residual is judged and whose second half is the blocks. Each action has its lemma; `NextInv` combines them.

`ReportsStand` (`PublishedIsStored`) rests on `PublishInv`: `Inv`, and what a run
that stores its decisions has stored so far (`StoredSoFar`): every case before the
one it is at, then all cases, then all cohorts, as it would decide them now.
Decisions are functions of locals that do not change any more (`SameDecisions`),
and what is stored stays (`StoreStays`), so neither other runs under the same key
nor crashes disturb it. The cohorts are the other half. The proposals of a conclusion and desk are
cut by rank, and proposals of one group differ in rank (`RanksDiffer`), so a proposal
is in one chunk (`ChunksAreDisjoint`) and a chunk maps injectively into `MaxSize`
ranks (`ChunkSize`); `DecidedCohorts` concludes that the cohorts named by the cases
are the cohorts formed, and that they hold the bulk cases and nothing else.
`CohortsStand` (`CohortsAreBacked`) rests on the same `PublishInv`: a cohort is stored only
when all cases of its run are, and a stored case is never replaced.

### AgentRuntime

For any number of callers, any script of the playbook, any budgets, with crashes,
failing calls and switches of the model at any step: `TypesHold`, `HistoryIsOne`,
`ResultsAreRecorded`, `BudgetsHold`, `PlaybookRunsAreAlike`, and the refinement
`RuntimeRunsOnce`. Assumed are `AgentRuntimeAssumption` (budgets are numbers, the
script is not empty) and `AgentRuntimeSentinels`.

The argument: a caller holds a state and counters it read or made many store
accesses ago, while another caller of the run stores on. `Inv` says what it may
rely on (`CallOK`): in the loop its state *is* a stored checkpoint, about to store
it is one legal step (`Follows`) after a stored checkpoint; and that the stored
rows follow each other (`RowsFollow`). Rows are never replaced, so both survive the
steps of others, and the primary key of `agent_steps` ends the slower of two
callers. `PlaybookRunsAreAlike` compares two recursions, the rows of a run and
`PlaybookRun`: by induction over the rows (`SetInduction`), a run none of whose
rows the model chose has at row n the state of the playbook after n turns. `BudgetsHold`
counts over the history, by induction over the rows as well: the counters of a row
are at least the steps at which the model was asked up to it, so a budget is spent at
the latest when the counters say so, whoever wrote the rows. For
`RuntimeRunsOnce` every step is shown to be a `Record`, an `Answer` or a stutter of
`RunOnce`; that its answers are recorded results is where `Inv` is needed.

### Snapshots

For any threads, tables, batches, people and links, and other processes that never
clear this cache: `TypesHold`, `LinksAreConfirmedOnce`, `OwnWritesAreServed`,
`IdsTellTheStory`, `EpisodesStaySound`, `GraphsAreWalkable` and the action property
`CurrentAnswers`. Assumed is `SnapshotsAssumption`: batches are finite and do not
contradict themselves; rows have the columns they are read with (`IsRow`), times and
the names of trades are numbers, which gives names their order; `trade_events` is one
of the tables; subrules are finitely many.

The argument: a load reads one table after the other, so what it holds is no state
the database was ever in. `Inv` says what it is all the same: of each table it has
read, what was visible then, and it has missed only what was committed during the
load (`LoadOK`, with the history variable `during`); and any two loads or snapshots
for one moment are nested table by table (`ViewsAreNested`), because visible rows
only become more. Equal counts of nested finite sets are equal sets, which is why
an id that counts rows tells a story (`IdsTellTheStory`).

What is built from such a load is sound whatever it has missed. Beside `Inv` stands
`SourcesOK`, inductive in its turn and in need of `Inv`: all rows are rows (`RowsOK`), both trades
of a confirmed link are stored (`LinksStand`), and those of a link a call has read
were stored before its load began (`LinksAreOld`), so that no load can miss them. Then:

* `EpisodesStaySound`. `InOrder` lists each member of a finite ordered set once
  (`EveryPlaceIsTaken`). `LinkingOK` holds of the unlinked trades and is kept by every
  `attempt()`, whether it keeps, refuses or merges: roots stand for classes that
  accepted links join and no link leaves, the bounds kept at a root are those of its
  class, and a class that no strong link entered has one instrument. By `SetInduction`
  over the links of a stage, and over the keys of the last one, it holds of what
  `build_episodes()` returns (`LinkedIsOK`), and each part of `EpisodesAreSound` follows.
  A strong link is judged before all others, and the later stages only add links, none
  of them strong: that is `LineageStands`.
* `GraphsAreWalkable`. Each kind of edge of `build_graph()` leads to nodes it has added
  (`GraphIsClosed`); for a proposal's edges this is where `LinksAreOld` is needed, as
  its trades must be among the rows loaded. The graph is finite (`GraphIsFinite`).
  The walk is a breadth-first search for every depth and limit, and its invariant
  `Searched` is kept by every turn (`VisitKeepsSearch`): what is found is listed once,
  nearest first, at a distance at which it is; the node whose turn is next is at most
  one step nearer than the last; what is around those whose turn is over has been
  found; and if something was left out, the list is full and something near is not on
  it. There are as many turns as the list may be long, so at the end all is found or
  the cut is reported (`SearchIsExact`, `NearIsShown`).

### Service

For any number of threads, users, endpoints, prompts and settings: `TypesHold`,
`BreakersHoldBack` and `RateHolds`. Assumed are `GatewayAssumption` (thresholds and
times are numbers) and `ServiceAssumption` (rates are numbers, requests ask for
known prompts and desks).

`BreakersOK` adds to `BreakerHoldsBack` that a thread about to call has made no
call since the circuit opened, and that an open circuit has failed often enough, so
that whoever records a failure finds it open or opens it. `RateOK` is an account:
what a user was let in for and what is left in the bucket are together at most the
capacity and the time up to the bucket's last reading; a reading older than that
(two threads between clock and lock) takes as much from one as from the other.

### Store, Anchors

For any threads and processes, on SQLite and on PostgreSQL, any batches, releases
and faults, with crashes, lost connections, deadlocks and restores: `TypesHold`,
`AnswersStand`, `RunningProcessesAreMigrated`, `ReportsAreRight` and the refinement
`StoreImplementsWriteOnce`. Assumed is `StoreAssumption`. What it asks beyond types:
the tables of the model are those of `migrations.py`, the ledger among them; a release ships
one migration per version; `insert_ignore` writes one row; and a workload that
starts with running processes, or that restores a backup, has its migrations
applied. The last is the runbook: the backup is one of the running release. A
restore of an older schema under a running process is outside the theorems.

The argument: what a call knows of the store it read statements ago, and on
PostgreSQL others commit in between. `Inv` has

* `LocksOK`, `WritesOK` (`Shape`): who may hold the lock and at which step, and what a
  call looks like at each step;
* `RowsOK` (`Accounted`): each row of an open call is stored, staged or still to be
  written, and no two stored or staged rows share a key. Two transactions
  never stage one key, since an INSERT waits (`Blockers`), and a commit adds no row
  whose key is taken; so what is staged can still be committed after others were;
* `MigratedOK`: whoever runs is migrated, and whoever migrates has each of its
  migrations stored, staged or ahead of it;
* `EntriesOK`, `ChainOK`, `BackupOK`: an entry is in the log, lost, or staged by the one call
  that appends it; committed entries are ordered by position and each holds the hash
  of the one before (`InChain`); an entry not yet committed comes after all of them
  (`Unplaced`) and, while its call has the chain's lock, follows the newest one (`Follows`); a backup is an
  earlier state of both;
* `Spelled`: a hash, which stands for what it covers, names the entries up to its own,
  so two entries of one hash sit on one chain;
* `FilesOK`: what the sink holds, or an anchoring call is about to write, the log has held.

Each part has its lemma per kind of step; `InvIsKept` combines them.
`StoreImplementsWriteOnce` maps a commit to `Write` or, for `insert_ignore`, to
`WriteAbsent`, the commit of an audit entry to `Append1`, a restore to `Restore`,
and everything else to a stutter. The log of the model is a set with gaps in its
positions (PostgreSQL's numbers are not taken back), the one of `WriteOnce` a
sequence; `LogSteps` shows that an append to the one is an append to the other,
by the ranks of the entries (`UpTo`, `Nth`), and that a restored log is a prefix.

### Agent programs

For any data, settings, thresholds, principals and any number of model steps, in any
order: `ConclusionsHold`, `ReportsHold` and `TypesHold`. Assumed are
`ProgramsAssumption` (`IsData`: identifiers and values are numbers, an episode has
trades, a trade names one original at most, which is how `linking.py:155` resolves it,
an alert is in one episode; limits and tolerances are numbers) and, for `TypesHold`,
`StatisticsAssumption`: what `Deviation` and `Scoring` compute of an episode is a
number. That is a sum over a set, whose library definition takes an operator, so it
cannot be proved of arbitrary data; TLC evaluates it on the data of the run.

The argument for `ConclusionsHold`: `Conclude` goes by evaluations that were made on
different evidence and before links that came later. `InvestigatorOK` says what is
left of them: a verdict that was settled (supported, or contradicted) is the verdict
of a full evaluation now, with the signals it explains (`HypothesisOK`). It survives
because links proposed in the run are verified like for like (`VerifiedIsAlike`,
`NewLinksKeepCorrection`, `NewLinksKeepReprice`, `NewLinksKeep`): such a pair adds
nothing to what would contradict a correction or support a repricing. What was
insufficient may have been settled since, but an insufficient hypothesis blocks a
benign verdict, and more support leaves an anomalous one anomalous; so today's full
assessment has the class of the old one (`OldResultsDecide`).

`ReportsHold` has two halves. A finding is confirmed when it verifies on what has been
gathered, and evidence only grows (`FindingStays`); the playbook dismisses one only
with all it needs at hand, so gathering more would not confirm it either. A proposal
is compared with the earlier ones, while the property compares any two: `ProposalIs`
says what one step makes of a pattern, `RuleIsProposed` that a new rule is not written like an
earlier one and that the earlier ones do not cover its pattern. That benign patterns
name scopes not open yet rests on the mining (`PatternsAre`): the most specific
patterns and the strongest few of them exist and are among those found, since
strength is an order and sets are finite.

`TypesHold` bounds what a run takes on. Findings of one kind are in an order without
ties (`StrongerIsOrder`), so each has a place of its own (`RanksAreTaken`), the kinds
take turns by place, and fewer than n findings can precede only n of them
(`FewPrecede`, `FewAreChosen`).

### Induction over data

The library's induction theorems take an operator as a parameter, which no
installed prover can instantiate. `Induction` states induction over a set of
numbers instead (`LeastNumber`, `SetInduction`), proved from the well-foundedness
of `<`; with it `PlaybookRun`, the minimum of a cohort, the stages of linking and the walk over
the graph are within reach.
No module declares a RECURSIVE operator.

### Model-checked only

Every invariant and every action property a passing run checks is stated by a theorem.
What remains:

* The liveness properties `EveryCallReturns`, `CallsEnd`, `EveryRequestEnds`,
  `EveryRunEnds`: liveness under fairness, and ENABLED, are out of the prover's reach.
* The assumptions that `MCPipeline`, `MCSnapshots` and `MCPrograms` state about pure
  functions over small data. `ExplainingLowers`, `AlertsMoveForward` and
  `CandidatesCoverPatterns` rest on sums over sets, as above. `LinkingIsSound` is proved
  (`LinkedIsOK`, `EpisodesFollow`) but for its last part, that `_residue()` pairs no
  two trades of one episode.

## 5. What the code does not keep

Findings with a run are listed above and in `PROJECT.json`. Also met while modelling,
reached by the models, without a run of their own:

* `governance.py:111`: a rollback between reading and writing the activation
  number makes an approval fail after its RELEASED event; its bundle is never activated.
* `governance.py:250`: the next bundle id follows the *active* version; after a
  rollback it is taken, and every approval is refused.
* `governance.py:77`: a seed that dies between bundle and activation cannot be
  repeated (another `created_at`, so the bundle is refused).
* `governance.py:134`: `create()` looks a candidate up and stores it in two
  transactions. Two discoveries over one snapshot that both find it absent both store
  it, and the slower one appends a second DRAFT event, behind whatever the candidate
  has become meanwhile, a rejection or a release included: its latest state is DRAFT
  again. `EventsFollowEvidence` states what holds.
* `governance.py:193`: an event without its audit entry after a crash (`docs/governance.md:36`).
* `governance.py:231`: the submitter tested is the one read; the releaser may have
  submitted last by the time the release is written. `FourEyes` states what holds.
* `runtime.py:272`: the switch is read at each step, so a run recorded as the
  model's may finish on the playbook (`docs/playbooks/swap-model.md:48`).
* `platform.py:477`: only a pipeline run copies the switch into a process's runtime.
* `runtime.py:353`, `377`, `426`: the slower of two callers of one run gets
  `DuplicateKeyError` instead of the result.
* `platform.py:476`, `543`, `574`: safe mode is read once. A run that began before bulk was
  suspended stores and publishes bulk proposals afterwards (`services/ops.py:3`); they
  are under a run key without the block, and nothing more is said by `BulkIsJustified`.
* `platform.py:397`: an ingest in the middle of a run clears the cache, so later
  episodes are investigated on another snapshot than the report names. Each case is
  decided on the run's own snapshot all the same: a residual is judged by its band
  there (`:534`), and a benign conclusion of the other snapshot may stand for an episode
  with a verified deviation in this one that the investigation never saw
  (`docs/anomaly-analysis.md:86`).

Snapshots and links:

* `platform.py:282`, `297`: reading back a cache that another thread has just
  cleared raises `KeyError`, on a hit as on a miss.
* `platform.py:296`: a snapshot whose load was overtaken by a write is cached after
  that write has cleared the cache, and served on. `OwnWritesAreSeen` therefore
  excepts what was stored in the middle of the load (`during`).
* `platform.py:281`: releases are noticed (the bundle is part of the key) and so are
  links, but rows that other processes ingest are not until something clears the cache.
* `db.py:196`: the six SELECTs of `load_bundle` can straddle an ingest; the snapshot
  then shows alerts without their trades, or a decision without its alerts.
* `platform.py:248`: when the audit entry of an ingest fails, the rows are stored,
  the call raises, and the cache keeps the old snapshot.
* The snapshot id counts rows of some tables only: RFIs, persons and annexes change
  without it, and a curated row carries the time of the decision it corrects, so it
  changes what earlier moments show.
* Curating a curated outcome again is stored under another id (`C-C-...`).
* `linking.py:318`: a trade whose versions are all cancellations raises `IndexError`.
* A link a human confirmed may still be rejected by the linker's guards; nobody is told.

Store and anchors:

* `dialect.py:128`, `141`: the writer connection of a PostgreSQL process is never
  opened again; once lost, every write of the process fails.
* `dialect.py:139`: after a connection lost at the commit, the caller is told that its
  write failed when it may be stored; repeating a write-once put is harmless, repeating an
  audit call may record one event twice.
* Two processes that migrate one PostgreSQL database at once: the second fails to
  start with `DuplicateKeyError`. A deadlock of two ingests is not the error that
  is retried.
* `anchor.py:201`: an empty file left by a crash makes anchoring at that position,
  and reading the anchors, raise from then on.
* After the restore of `docs/operations.md:49`, anchors of the lost entries make every
  verification fail, and anchoring at their positions reports a fork for good. A
  rotated key makes all earlier anchors "signed with another key".

Gateway:

* `gateway.py:150`: the comment speaks of one probe; a half-open breaker lets every
  caller through until one of them has failed. `BreakerHoldsBack` states what holds.
* Of two callers that miss the cache with one request, the slower one returns an
  answer other than the recorded one.
* `IncompleteRead` and `UnicodeDecodeError` of an endpoint's answer are not translated
  into `ModelError`: such an answer ends the call instead of moving to the next endpoint.

Agent programs:

* `investigator.py:432`: "cannot abandon an anomaly the evidence supports" is
  decided from the stored evaluations; evidence gathered after them may support a
  conclusion and the run abstains all the same. A conclusion is always checked anew
  (`ConclusionHolds`).
* Proposing two links in turn never counts as a stall: only the model-call budget ends it.
* A playbook whose tool is denied (an episode on two desks, a principal of one)
  repeats the request until the streak or the budget ends it; `EveryRunEnds` is
  about principals who may see what they work on.
* `agents/discovery.py:253`: a pattern whose rule stays below the floor is never
  skipped by the playbook; it is proposed again until the budget ends, and the
  patterns behind it are not examined. `EveryRunEnds` names this case (`Stuck`).
* Views show `tools.max_items` of anything: a cancellation beyond that is not seen,
  and a correction may be SUPPORTED without it.
* A link that the agent proposes and the verifier accepts, but no human confirmed,
  may turn an abstention into a benign conclusion within the run.
* `agents/discovery.py:98`: the signature of a rule ("Identity of a rule's logic") includes
  parameter names, unused parameters, repeated conditions and the spelling of decimals.
  A rule of production keeps its threshold in a parameter, so the same rule with the
  threshold written into the condition is not recognised and may be proposed again: the
  run `programs` reaches it. `ReportHolds` says new in this sense only.
* A bulk scope is a hypothesis and a desk, wider than the pattern it was made of,
  and may include escalated history; the gates of a candidate's evidence catch that later.

## 6. Not modelled

* Agent memory, prompts, the check of a summary's wording: similar cases are never
  evidence, and what a model says is a free choice.
* Counterexamples and shadow runs as computations: in `Governance` their reports are
  artifacts that gate a candidate. Monitoring and classification: statistics and
  reports without influence on anything modelled.
* Of the pipeline: decisions of people as records beside the cases (their effect on
  snapshots is in `Snapshots`), the read views of cases, cohorts and queues.
* Of evidence: views whose content no evaluator reads; of tools: the executor's
  cache and the shape of answers.
* Of the HTTP service and the command line: the handlers and commands that only
  pass a call on to a method modelled elsewhere.
* Parsing, mapping and generating data, rendering, configuration, logging, metrics,
  tracing: pure input and output. Evaluation harnesses, benchmarks, demo: offline.
* Time as such (wall-clock budgets, timeouts) is a nondeterministic choice to end
  or to fail, except for breakers and rate limits, which have a clock.

The behaviour of the libraries and databases used (atomic transactions, unique keys,
row and advisory locks, exclusive creation of files) is part of the actions that use it.

## 7. Plan

Models still to be written: counterexamples and shadow runs as operators over
`Rules`, decisions recorded by people in `Pipeline`.
