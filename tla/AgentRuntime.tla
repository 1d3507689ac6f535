---------------------------- MODULE AgentRuntime ----------------------------
(***************************************************************************)
(* AgentRuntime.run() (src/asas/agents/runtime.py) under the investigator  *)
(* (Platform.investigate, src/asas/services/platform.py): one episode,     *)
(* investigated by API threads and pipeline workers of one process over    *)
(* the shared store.                                                       *)
(*                                                                         *)
(* The run id is a hash that covers the model id, so the episode has two   *)
(* runs: "llm" and, while the model is suspended, "playbook". A run loops: *)
(* decide an action, apply it, store a checkpoint; then it stores its      *)
(* result. Each store access is one step; the process may crash, and a     *)
(* call may raise, between any two of them.                                *)
(*                                                                         *)
(* The state of a program is the sequence of actions applied so far:       *)
(* apply() and the playbook are functions of it, the model replies freely. *)
(***************************************************************************)
EXTENDS Naturals, Sequences, SequencesExt

CONSTANTS
    Workers,         \* threads that investigate the episode
    Script,          \* what the playbook does, action by action
    MaxStalls,       \* agents.max_consecutive_rejections
    MaxSteps,        \* budget.max_steps
    MaxToolCalls,    \* budget.max_tool_calls
    MaxModelCalls,   \* budget.max_model_calls
    MayTimeOut,      \* budget.max_seconds may run out
    MaxFaults,       \* bound: crashes and failed calls
    MaxSwitches,     \* bound: changes of the safe-mode state
    NoRow, NoResult, NoAnswer, NoProposal   \* nothing stored, nothing returned

ASSUME AgentRuntimeAssumption ==
    /\ Script \in Seq({"tool", "link", "conclude"}) /\ Script # << >>
    /\ {MaxStalls, MaxSteps, MaxToolCalls} \subseteq Nat \ {0}
    /\ {MaxModelCalls, MaxFaults, MaxSwitches} \subseteq Nat
    /\ MayTimeOut \in BOOLEAN

VARIABLES
    suspended,   \* AgentRuntime.llm_suspended of this process
    ops,         \* llm_suspended in the latest ops_state artifact
    started,     \* table agent_runs
    steps,       \* table agent_steps: steps[r][n] is row n of run r
    results,     \* table agent_run_results
    proposal,    \* the link_proposal artifact for the trade pair of the episode
    linkAudited, \* its LINK_* audit entry exists
    memory,      \* runs whose memory_episodic artifact is stored
    pc,          \* pc[w]: the store access worker w performs next
    run,         \* run[w]: arguments and locals of the call worker w is making
    answer,      \* answer[w]: the run and the result its last call returned
    faults, switches   \* bounded counters

locals == <<pc, run, answer>>
store == <<started, steps, results, proposal, linkAudited, memory>>
environment == <<suspended, ops, faults, switches>>
vars == <<store, locals, environment>>

-----------------------------------------------------------------------------
(* Programs: what the loop needs to know of a state.                       *)

Runs == {"llm", "playbook"}

\* A tool call that brings new evidence, one that fails or repeats evidence, a
\* link proposal, an action that is rejected, a conclusion.
Actions == {"tool", "futile", "link", "rejected", "conclude"}
Stalls == {"futile", "rejected"}

States == SeqOf(Actions, MaxSteps)

Done(s) == s # << >> /\ Last(s) = "conclude"

Count(s, A) == Cardinality({i \in DOMAIN s : s[i] \in A})

ToolActions == {"tool", "futile"}

ToolCalls(s) == Count(s, ToolActions)

\* Sticky: once MaxStalls actions in a row changed nothing, the playbook finishes.
NeedsPlaybook(s) ==
    \E i \in 0..(Len(s) - MaxStalls) : \A j \in 1..MaxStalls : s[i + j] \in Stalls

\* The playbook goes on from what the actions applied so far have achieved.
Playbook(s) ==
    LET n == Count(s, Actions \ Stalls) + 1
    IN  IF n < Len(Script) THEN Script[n] ELSE "conclude"

HasLink(s) == Contains(s, "link")

\* The stored proposal cites the evidence gathered before it.
Proposal(s) ==
    Count(SubSeq(s, 1, CHOOSE i \in DOMAIN s : s[i] = "link"), {"tool"})

Policies == {"llm", "playbook", "playbook-budget", "playbook-recovery", "playbook-fallback"}

\* Under these the model was asked at least once.
Asking == {"llm", "playbook-fallback"}

\* Steps made, tool calls among them, model calls, and whether the playbook ever
\* had to stand in for the model. The counters, not the state, are held against
\* the budget, and a resumption has only what the checkpoint says of them.
Counters == [steps : 0..MaxSteps, tools : 0..MaxToolCalls, calls : 0..MaxModelCalls,
             fell : BOOLEAN]
NoCalls == [steps |-> 0, tools |-> 0, calls |-> 0, fell |-> FALSE]

\* What a state itself tells of the steps and tool calls behind it.
Used(s) == [steps |-> Len(s), tools |-> ToolCalls(s)]

Rows == [state : States, counters : Counters, policy : Policies]

Reasons == {"none", "BUDGET_STEPS", "BUDGET_TOOL_CALLS", "BUDGET_TIME"}

\* finalize(): the result is a function of the state and of the counters.
Results == [state : States, reason : Reasons, policy : Runs, fallback : BOOLEAN]

Finalize(s, reason, c) ==
    [state |-> s, reason |-> reason,
     policy |-> IF c.calls > 0 THEN "llm" ELSE "playbook", fallback |-> c.fell]

\* What stands for "nothing stored" is not a thing that can be stored.
ASSUME AgentRuntimeSentinels ==
    /\ NoRow \notin Rows \cup [state : States, counters : Counters]
    /\ NoResult \notin Results

-----------------------------------------------------------------------------
(* Calls in progress. *)

Steps == {"idle", "read_run", "insert_run", "read_steps", "loop", "checkpoint",
          "proposal_read", "proposal_put", "proposal_audit", "memory_put"}

Calls == [id : Runs, state : States, counters : Counters, policy : Policies, reason : Reasons]

Idle == [id |-> "llm", state |-> << >>, counters |-> NoCalls, policy |-> "playbook",
         reason |-> "none"]

Goto(w, step) ==
    /\ pc' = [pc EXCEPT ![w] = step]
    /\ UNCHANGED <<run, answer>>

Continue(w, r, step) ==
    /\ run' = [run EXCEPT ![w] = r]
    /\ pc' = [pc EXCEPT ![w] = step]
    /\ UNCHANGED answer

\* The call ends: with an answer, or with an exception (NoAnswer).
Return(w, a) ==
    /\ run' = [run EXCEPT ![w] = Idle]
    /\ pc' = [pc EXCEPT ![w] = "idle"]
    /\ answer' = [answer EXCEPT ![w] = a]

Raise(w) == Return(w, NoAnswer)

\* Checkpoint n of run r; a run starts without one.
At(r, n) == IF n = 0 THEN [state |-> << >>, counters |-> NoCalls] ELSE steps[r][n]

LastRow(r) == Max({0} \cup {n \in 1..MaxSteps : steps[r][n] # NoRow})

Init ==
    /\ suspended = FALSE /\ ops = FALSE
    /\ started = {}
    /\ steps = [r \in Runs |-> [n \in 1..MaxSteps |-> NoRow]]
    /\ results = [r \in Runs |-> NoResult]
    /\ proposal = NoProposal
    /\ linkAudited = FALSE
    /\ memory = {}
    /\ pc = [w \in Workers |-> "idle"]
    /\ run = [w \in Workers |-> Idle]
    /\ answer = [w \in Workers |-> NoAnswer]
    /\ faults = 0 /\ switches = 0

-----------------------------------------------------------------------------
(* run(): the run id, the recorded result, the start or the resumption.    *)

\* The mode is read once here, for the run id, and again at every step.
Start(w) ==
    LET id == IF suspended THEN "playbook" ELSE "llm"
    IN  /\ pc[w] = "idle"
        /\ IF results[id] # NoResult
           THEN Return(w, <<id, results[id]>>)
           ELSE /\ run' = [run EXCEPT ![w] = [Idle EXCEPT !.id = id]]
                /\ pc' = [pc EXCEPT ![w] = "read_run"]
                /\ answer' = [answer EXCEPT ![w] = NoAnswer]
        /\ UNCHANGED <<store, environment>>

ReadRun(w) ==
    /\ pc[w] = "read_run"
    /\ Goto(w, IF run[w].id \in started THEN "read_steps" ELSE "insert_run")
    /\ UNCHANGED <<store, environment>>

\* agent_runs has the run id as its primary key: a second insert raises.
InsertRun(w) ==
    /\ pc[w] = "insert_run"
    /\ \/ /\ run[w].id \notin started
          /\ started' = started \cup {run[w].id}
          /\ Goto(w, "loop")
       \/ /\ run[w].id \in started
          /\ Raise(w)
          /\ UNCHANGED started
    /\ UNCHANGED <<steps, results, proposal, linkAudited, memory, environment>>

\* Mutant: the state is not restored, only the counters are.
StateForgotten(w) ==
    LET n == LastRow(run[w].id)
    IN  /\ pc[w] = "read_steps"
        /\ Continue(w, IF n = 0 THEN run[w]
                       ELSE [run[w] EXCEPT !.counters = steps[run[w].id][n].counters], "loop")
        /\ UNCHANGED <<store, environment>>

\* Mutant: of the counters only the step number is restored.
CountersForgotten(w) ==
    LET n == LastRow(run[w].id)
    IN  /\ pc[w] = "read_steps"
        /\ Continue(w, IF n = 0 THEN run[w]
                       ELSE [run[w] EXCEPT !.state = steps[run[w].id][n].state,
                                           !.counters.steps = n], "loop")
        /\ UNCHANGED <<store, environment>>

\* The latest checkpoint, if there is one; otherwise the program starts afresh.
ReadSteps(w) ==
    LET n == LastRow(run[w].id)
        row == steps[run[w].id][n]
    IN  /\ pc[w] = "read_steps"
        /\ Continue(w, IF n = 0 THEN run[w]
                       ELSE [run[w] EXCEPT !.state = row.state, !.counters = row.counters],
                    "loop")
        /\ UNCHANGED <<store, environment>>

-----------------------------------------------------------------------------
(* The loop: decide and apply, then store the checkpoint.                  *)

\* The budget that is used up, "none" if none must be; the clock may say more.
Spent(c) ==
    IF c.steps >= MaxSteps THEN "BUDGET_STEPS"
    ELSE IF c.tools >= MaxToolCalls THEN "BUDGET_TOOL_CALLS" ELSE "none"

\* Mutant: the last step of the budget is never made.
ExhaustedEarly(c) ==
    IF c.steps + 1 >= MaxSteps THEN {"BUDGET_STEPS"}
    ELSE {Spent(c)} \cup (IF MayTimeOut THEN {"BUDGET_TIME"} ELSE {})

Exhausted(c) ==
    {Spent(c)} \cup (IF Spent(c) = "none" /\ MayTimeOut THEN {"BUDGET_TIME"} ELSE {})

\* An action is applied, chosen by policy p when the counters were c, and counted.
Applied(s, a, p, c) ==
    [state |-> Append(s, a), policy |-> p,
     counters |-> [c EXCEPT !.steps = @ + 1, !.tools = @ + (IF a \in ToolActions THEN 1 ELSE 0)]]

\* The model is asked once, and once more if its reply was invalid and the
\* budget allows.
Asked(c) == {[c EXCEPT !.calls = @ + n] : n \in IF c.calls + 1 < MaxModelCalls THEN {1, 2} ELSE {1}}

FellBack(c) == [c EXCEPT !.fell = TRUE]

\* _next_action(): the action, the policy that chose it and the counters after
\* it. When the model fails the playbook takes the step.
Decisions(s, c) ==
    IF suspended THEN {Applied(s, Playbook(s), "playbook", c)}
    ELSE IF c.calls >= MaxModelCalls
         THEN {Applied(s, Playbook(s), "playbook-budget", FellBack(c))}
    ELSE IF NeedsPlaybook(s) THEN {Applied(s, Playbook(s), "playbook-recovery", FellBack(c))}
    ELSE {Applied(s, a, "llm", k) : a \in Actions, k \in Asked(c)}
         \cup {Applied(s, Playbook(s), "playbook-fallback", FellBack(k)) : k \in Asked(c)}

Decide(w) ==
    /\ pc[w] = "loop"
    /\ ~Done(run[w].state)
    /\ "none" \in Exhausted(run[w].counters)
    /\ \E d \in Decisions(run[w].state, run[w].counters) :
          Continue(w, [run[w] EXCEPT !.state = d.state, !.counters = d.counters,
                                     !.policy = d.policy], "checkpoint")
    /\ UNCHANGED <<store, environment>>

\* Mutant: a checkpoint whose row exists is tried again.
CheckpointRetried(w) ==
    LET r == run[w]
    IN  /\ pc[w] = "checkpoint"
        /\ steps[r.id][r.counters.steps] = NoRow
        /\ steps' = [steps EXCEPT ![r.id][r.counters.steps] =
              [state |-> r.state, counters |-> r.counters, policy |-> r.policy]]
        /\ Goto(w, "loop")
        /\ UNCHANGED <<started, results, proposal, linkAudited, memory, environment>>

\* Mutant: a checkpoint replaces the row another caller stored.
CheckpointReplaces(w) ==
    LET r == run[w]
    IN  /\ pc[w] = "checkpoint"
        /\ steps' = [steps EXCEPT ![r.id][r.counters.steps] =
              [state |-> r.state, counters |-> r.counters, policy |-> r.policy]]
        /\ Goto(w, "loop")
        /\ UNCHANGED <<started, results, proposal, linkAudited, memory, environment>>

\* agent_steps has (run id, step) as its primary key.
Checkpoint(w) ==
    LET r == run[w]
        n == r.counters.steps
    IN  /\ pc[w] = "checkpoint"
        /\ \/ /\ steps[r.id][n] = NoRow
              /\ steps' = [steps EXCEPT ![r.id][n] =
                    [state |-> r.state, counters |-> r.counters, policy |-> r.policy]]
              /\ Goto(w, "loop")
           \/ /\ steps[r.id][n] # NoRow
              /\ Raise(w)
              /\ UNCHANGED steps
        /\ UNCHANGED <<started, results, proposal, linkAudited, memory, environment>>

\* After the result comes what investigate() stores for a run that was not
\* replayed: link proposals, then the episode's memory.
AfterResult(s) == IF HasLink(s) THEN "proposal_read" ELSE "memory_put"

\* Mutant: the result is never stored.
FinishUnrecorded(w) ==
    LET r == run[w]
    IN  /\ pc[w] = "loop"
        /\ \E reason \in IF Done(r.state) THEN {"none"} ELSE Exhausted(r.counters) \ {"none"} :
              Continue(w, [r EXCEPT !.reason = reason], AfterResult(r.state))
        /\ UNCHANGED <<store, environment>>

\* Mutant: the result replaces the one another caller stored.
FinishReplaces(w) ==
    LET r == run[w]
    IN  /\ pc[w] = "loop"
        /\ \E reason \in IF Done(r.state) THEN {"none"} ELSE Exhausted(r.counters) \ {"none"} :
              /\ results' = [results EXCEPT ![r.id] = Finalize(r.state, reason, r.counters)]
              /\ Continue(w, [r EXCEPT !.reason = reason], AfterResult(r.state))
        /\ UNCHANGED <<started, steps, proposal, linkAudited, memory, environment>>

\* agent_run_results has the run id as its primary key.
Finish(w) ==
    LET r == run[w]
    IN  /\ pc[w] = "loop"
        /\ \E reason \in IF Done(r.state) THEN {"none"} ELSE Exhausted(r.counters) \ {"none"} :
              \/ /\ results[r.id] = NoResult
                 /\ results' = [results EXCEPT ![r.id] =
                       Finalize(r.state, reason, r.counters)]
                 /\ Continue(w, [r EXCEPT !.reason = reason], AfterResult(r.state))
              \/ /\ results[r.id] # NoResult
                 /\ Raise(w)
                 /\ UNCHANGED results
        /\ UNCHANGED <<started, steps, proposal, linkAudited, memory, environment>>

-----------------------------------------------------------------------------
(* investigate(): what a run that was not replayed leaves for others.      *)

ProposalRead(w) ==
    /\ pc[w] = "proposal_read"
    /\ Goto(w, IF proposal = NoProposal THEN "proposal_put" ELSE "memory_put")
    /\ UNCHANGED <<store, environment>>

\* The same proposal again is a no-op, another one under its id is refused.
ProposalPut(w) ==
    LET p == Proposal(run[w].state)
    IN  /\ pc[w] = "proposal_put"
        /\ \/ /\ proposal \in {NoProposal, p}
              /\ proposal' = p
              /\ Goto(w, "proposal_audit")
           \/ /\ proposal \notin {NoProposal, p}
              /\ Raise(w)
              /\ UNCHANGED proposal
        /\ UNCHANGED <<started, steps, results, linkAudited, memory, environment>>

ProposalAudit(w) ==
    /\ pc[w] = "proposal_audit"
    /\ linkAudited' = TRUE
    /\ Goto(w, "memory_put")
    /\ UNCHANGED <<started, steps, results, proposal, memory, environment>>

MemoryPut(w) ==
    LET r == run[w]
    IN  /\ pc[w] = "memory_put"
        /\ memory' = memory \cup {r.id}
        /\ Return(w, <<r.id, Finalize(r.state, r.reason, r.counters)>>)
        /\ UNCHANGED <<started, steps, results, proposal, linkAudited, environment>>

-----------------------------------------------------------------------------
(* Everything else. *)

\* A call raises between two store accesses (a tool, the storage): the caller,
\* _investigate_safely(), goes on with the next episode.
Fail(w) ==
    /\ pc[w] # "idle"
    /\ faults < MaxFaults
    /\ faults' = faults + 1
    /\ Raise(w)
    /\ UNCHANGED <<store, suspended, ops, switches>>

\* The process dies and comes back: llm_suspended is FALSE again.
Crash ==
    /\ faults < MaxFaults
    /\ faults' = faults + 1
    /\ pc' = [w \in Workers |-> "idle"]
    /\ run' = [w \in Workers |-> Idle]
    /\ answer' = [w \in Workers |-> NoAnswer]
    /\ suspended' = FALSE
    /\ UNCHANGED <<store, ops, switches>>

\* Ops.set() stores the state; nothing tells the runtime.
OpsSet ==
    /\ switches < MaxSwitches
    /\ switches' = switches + 1
    /\ ops' = ~ops
    /\ UNCHANGED <<store, locals, suspended, faults>>

\* _run_pipeline() copies it into the runtime its calls share with all others.
PipelineStart ==
    /\ suspended' = ops
    /\ UNCHANGED <<store, locals, ops, faults, switches>>

Step(w) ==
    \/ ReadRun(w) \/ InsertRun(w) \/ ReadSteps(w)
    \/ Decide(w) \/ Checkpoint(w) \/ Finish(w)
    \/ ProposalRead(w) \/ ProposalPut(w) \/ ProposalAudit(w) \/ MemoryPut(w)

Next ==
    \/ \E w \in Workers : Start(w) \/ Step(w) \/ Fail(w)
    \/ Crash \/ OpsSet \/ PipelineStart

Spec == Init /\ [][Next]_vars

\* No step of a call waits for another thread (the model answers or times out).
FairSpec == Spec /\ \A w \in Workers : WF_vars(Step(w))

-----------------------------------------------------------------------------
(* Properties. *)

\* Types; a proposal and a memory exist only for a completed run.
TypeOK ==
    /\ suspended \in BOOLEAN /\ ops \in BOOLEAN
    /\ started \subseteq Runs
    /\ steps \in [Runs -> [1..MaxSteps -> Rows \cup {NoRow}]]
    /\ results \in [Runs -> Results \cup {NoResult}]
    /\ proposal \in Nat \cup {NoProposal}
    /\ linkAudited \in BOOLEAN
    /\ memory \subseteq {r \in Runs : results[r] # NoResult}
    /\ pc \in [Workers -> Steps]
    /\ run \in [Workers -> Calls]
    /\ answer \in [Workers -> (Runs \X Results) \cup {NoAnswer}]

\* However many callers work on a run and wherever they die, its checkpoints
\* are one history: row n exists only after row n - 1 and adds one action to
\* its state, and counts no model call less than it.
OneHistory ==
    \A r \in Runs, n \in 1..MaxSteps :
        LET row == steps[r][n]
            before == At(r, n - 1)
        IN  row # NoRow =>
                /\ r \in started
                /\ n > 1 => steps[r][n - 1] # NoRow
                /\ Len(row.state) = n
                /\ Front(row.state) = before.state
                /\ before.counters.calls <= row.counters.calls
                /\ ~Done(before.state)

\* The result is explained by the checkpoints: it is what finalize() makes of
\* one of them (or of the start), with the counters stored there.
ResultIsRecorded ==
    \A r \in Runs :
        results[r] # NoResult =>
            LET s == results[r].state
                row == At(r, Len(s))
            IN  row # NoRow /\ results[r] = Finalize(row.state, results[r].reason, row.counters)

\* The checkpoints up to the nth whose step asked the model.
AskedRows(r, n) == {m \in 1..n : steps[r][m] # NoRow /\ steps[r][m].policy \in Asking}

\* No resumption starts a budget afresh: over the whole history of a run, under
\* however many callers and processes, no more tools are called and the model is
\* asked at no more steps than the budgets allow, and a result that names a budget
\* comes from a history that used it up.
WithinBudgets ==
    \A r \in Runs :
        /\ \A n \in 1..MaxSteps :
              steps[r][n] # NoRow =>
                  /\ ToolCalls(steps[r][n].state) <= MaxToolCalls
                  /\ Cardinality(AskedRows(r, n)) <= MaxModelCalls
        /\ results[r] # NoResult =>
              /\ results[r].reason = "BUDGET_STEPS" <=> Len(results[r].state) = MaxSteps
                                                        /\ ~Done(results[r].state)
              /\ results[r].reason = "BUDGET_TOOL_CALLS" =>
                     ToolCalls(results[r].state) = MaxToolCalls

\* The playbook alone, undisturbed: its state after n turns of the loop.
PlaybookRun[n \in 0..MaxSteps] ==
    IF n = 0 THEN << >>
    ELSE LET s == PlaybookRun[n - 1]
         IN  IF Done(s) \/ Spent(Used(s)) # "none" THEN s ELSE Append(s, Playbook(s))

\* Crashes, resumptions and other callers do not show in the outcome: a run in
\* which only the playbook acted ends as the playbook alone would have ended.
PlaybookIsDeterministic ==
    \A r \in Runs :
        /\ results[r] # NoResult /\ results[r].reason # "BUDGET_TIME"
        /\ \A n \in 1..Len(results[r].state) : steps[r][n].policy # "llm"
        => results[r].state = PlaybookRun[MaxSteps]

\* Every caller gets the one result of the run it asked for.
Once == INSTANCE RunOnce WITH Callers <- Workers, recorded <- results

RunsOnce == Once!Spec

\* Every call ends, with an answer or an exception: the budgets bound the loop.
EveryCallReturns == \A w \in Workers : pc[w] # "idle" ~> pc[w] = "idle"

-----------------------------------------------------------------------------
(* Why they hold: the inductive invariant.                                 *)

\* The counters tell what the state tells.
Counted(row) ==
    row.counters.steps = Len(row.state) /\ row.counters.tools = ToolCalls(row.state)

\* How a checkpoint follows the one before it: one action, counted, within the
\* budgets, and the playbook's unless the model chose it.
Follows(before, row) ==
    /\ Len(row.state) = Len(before.state) + 1
    /\ Front(row.state) = before.state
    /\ Counted(row)
    /\ before.counters.calls <= row.counters.calls
    /\ row.policy \in Asking => before.counters.calls + 1 <= row.counters.calls
    /\ ~Done(before.state) /\ Spent(Used(before.state)) = "none"
    /\ row.policy # "llm" => Last(row.state) = Playbook(before.state)

RowsFollow ==
    \A r \in Runs, n \in 1..MaxSteps :
        steps[r][n] # NoRow =>
            /\ r \in started
            /\ n > 1 => steps[r][n - 1] # NoRow
            /\ Len(steps[r][n].state) = n
            /\ Follows(At(r, n - 1), steps[r][n])

\* A result says why the run ended, and what it says is so.
ResultsEnd ==
    \A r \in Runs :
        results[r] # NoResult =>
            LET s == results[r].state
            IN  IF Done(s) THEN results[r].reason = "none"
                ELSE results[r].reason \in Exhausted(Used(s)) \ {"none"}

\* What a call relies on between two store accesses: what it has read is a
\* checkpoint that nobody changes any more.
CallOK(w) ==
    LET r == run[w]
        n == Len(r.state)
    IN  /\ pc[w] \in {"read_run", "insert_run", "read_steps"} =>
               r.state = << >> /\ r.counters = NoCalls
        /\ pc[w] \in {"read_steps", "loop", "checkpoint"} => r.id \in started
        /\ pc[w] = "loop" =>
               /\ At(r.id, n) # NoRow
               /\ At(r.id, n).state = r.state /\ At(r.id, n).counters = r.counters
        /\ pc[w] = "checkpoint" => n > 0 /\ At(r.id, n - 1) # NoRow /\ Follows(At(r.id, n - 1), r)
        /\ pc[w] \in {"proposal_read", "proposal_put", "proposal_audit", "memory_put"} =>
               results[r.id] = Finalize(r.state, r.reason, r.counters)
        /\ pc[w] \in {"proposal_read", "proposal_put"} => HasLink(r.state)

Inv ==
    /\ TypeOK
    /\ RowsFollow /\ ResultIsRecorded /\ ResultsEnd
    /\ \A w \in Workers : CallOK(w)

-----------------------------------------------------------------------------
(* What the documentation promises and the code does not keep.             *)

\* When nobody works on the episode any more and somebody has got the result,
\* the links it proposes have been stored for review.
ProposalsAreStored ==
    \A w \in Workers :
        /\ answer[w] # NoAnswer
        /\ \A u \in Workers : pc[u] = "idle"
        /\ HasLink(answer[w][2].state)
        => proposal # NoProposal

=============================================================================
